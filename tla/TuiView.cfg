CONSTANTS
  NSteps = 1 Dynamic = {1} Sizes = {1}
  MaxEvents = 2 MaxBytes = 2 WireMax = 1
  MaxWrites = 2 MaxRevs = 8 MaxLogs = 1 MaxRewinds = 1 MaxCrashes = 1 MaxDrops = 1 MaxPrunes = 1 MaxUses = 1
  MaxTries = 1 MaxFails = 1
SPECIFICATION FairSpec
INVARIANTS TypeOK ViewTruthful
PROPERTIES EndShown
CHECK_DEADLOCK FALSE
