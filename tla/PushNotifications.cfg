CONSTANTS
  Heads = {a, b} Zero = Zero Nonces = {n} None = None
  MaxPushes = 2 MaxRecords = 2 MaxTwice = 2 MaxRuns = 2 MaxTroubles = 1
SPECIFICATION FairSpec
INVARIANTS TypeOK StartedByOne ValidatedOnce
PROPERTIES NewerWorkKept PushServed
CHECK_DEADLOCK FALSE
