CONSTANTS
  NSteps = 1 Dynamic = {} Sizes = {1, 2}
  MaxEvents = 2 MaxBytes = 3 WireMax = 2
  MaxWrites = 2 MaxRevs = 6 MaxLogs = 0 MaxRewinds = 0 MaxCrashes = 1 MaxDrops = 0 MaxPrunes = 0 MaxUses = 1
  MaxTries = 2 MaxFails = 0
SPECIFICATION Spec
INVARIANTS ReattachReconciles
CHECK_DEADLOCK FALSE
