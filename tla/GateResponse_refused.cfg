CONSTANTS
  Requests = {a, b} None = None
  MaxGates = 1 MaxStops = 0 MaxFaults = 1 MaxEvents = 2
SPECIFICATION Spec
INVARIANT AppliedWasAccepted
CHECK_DEADLOCK FALSE
