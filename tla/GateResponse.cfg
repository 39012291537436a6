CONSTANTS
  Requests = {a, b} None = None
  MaxGates = 2 MaxStops = 2 MaxFaults = 1 MaxEvents = 3
SPECIFICATION FairSpec
INVARIANTS TypeOK AnswersItsGate MemoryMatchesRow AcceptedKept
PROPERTIES AbortWins KeepsLedger AnswerServed
CHECK_DEADLOCK FALSE
