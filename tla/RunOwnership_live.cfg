CONSTANTS
  a1 = a1 a2 = a2 b1 = b1 A = A B = B NoRun = NoRun
  Runs = {a1, a2} Branches <- MCBranches Branch <- MCBranch
  Slots = 1 MaxGates = 1 MaxEvents = 2
SPECIFICATION FairSpec
PROPERTIES CancelStops LaunchServed ShutdownEnds
CHECK_DEADLOCK FALSE
