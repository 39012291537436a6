------------------------ MODULE MCStatusSettlement ------------------------
(* Small instances of StatusSettlement for TLC: a run that watches its checks *)
(* or is parked, beside one that works.                                       *)
EXTENDS StatusSettlementInv, TLC

CONSTANTS a, b
TwoRuns    == [r \in {a, b} |-> IF r = a THEN {"watching", "parked"} ELSE {"working"}]
TwoCancels == [r \in {a, b} |-> IF r = a THEN {"abort"} ELSE {}]
=============================================================================
