CONSTANTS
  a = a b = b
  Runs = {a, b} None = None Shut = Shut Loop = Loop
  Phases <- TwoRuns Cancels <- TwoCancels Unvalidated = {b} Refused = {b}
  Faults = {"refusal", "post", "timeout", "start"} MaxFaults = 1
SPECIFICATION FairSpec
INVARIANTS TypeOK StatusTruthful
PROPERTIES RawSupersedes OutcomeIsFinal SettlementServed
CHECK_DEADLOCK FALSE
