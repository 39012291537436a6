-------------------------- MODULE GateResponseInv --------------------------
(***************************************************************************)
(* The inductive invariant of GateResponse for its refinement of           *)
(* GateLedger.  What a dispatch applies is in the goroutine's hands, and   *)
(* came there from the channel or from a recovered row: at each place on   *)
(* that way it is the claim that the row records, or an abort, which the   *)
(* row does not record.                                                    *)
(***************************************************************************)
EXTENDS GateResponse

\* An abort in the channel or in hand; its request can not change any more.
IsAbort(c) == c \in Requests /\ req[c].kind = "abort" /\ req[c].state = "accepted"

Answered == ~waiting /\ chan = None       \* no response can arrive any more
InChannel == pc \in {"park", "wait", "recovering", "resuming"} /\ chan # None => row.pending = chan \/ IsAbort(chan)
InHand    == pc = "hand" => Answered /\ mine # None /\ (row.pending = mine \/ IsAbort(mine))
AtSlot    == pc \in {"slot", "recheck"} => Answered /\ mine # None /\ row.pending = mine
Going     == pc = "go" => row.status = "running" /\ mine # None /\ gate = row.gate /\ gate \in 1..MaxGates
Recovered == pc \in {"recovering", "resuming"} => mine = None \/ (Answered /\ row.pending = mine)
Stopped   == pc = "off" => Answered
Running   == pc = "run" => row.status # "parked"
GateNamed == row.status = "parked" => row.gate \in 1..MaxGates

\* The lock that a fix response holds over its two writes keeps its gate open.
DecisionHeld == \A i, j \in Requests :
    req[i].state = "recorded" => /\ waiting /\ req[i].gate = gate /\ pc # "off"
                                 /\ req[j].state = "recorded" => i = j

IInv == /\ TypeOK /\ NeverBlocks
        /\ InChannel /\ InHand /\ AtSlot /\ Going /\ Recovered /\ Stopped /\ Running /\ GateNamed /\ DecisionHeld

----------------------------------------------------------------------------
\* What the other safety properties rest on, besides IInv.

\* An answer stays what it was when it was accepted, at the gate that it names.
Taken(c, g) == c \in Requests => req[c].state = "accepted" /\ req[c].gate = g
AnswersFit ==
    /\ row.status = "parked" => Taken(row.pending, row.gate)
    /\ pc = "go" => Taken(mine, gate)
    /\ \A a \in applied : Taken(a.by, a.gate)

\* Away from its gates the executor has no answer in memory and no marker in its row.
Ended == over => pc \in {"end", "off"}
MemoryFits ==
    /\ Ended /\ MemoryMatchesRow
    /\ pc \in {"run", "go"} => ~row.awaiting
    /\ pc \in {"run", "go", "off"} => ~answered
    /\ pc \in {"clear", "fail"} /\ faults = 0 => ~row.awaiting

\* A run that gives up after a dispatch has left the gate behind; a crash then leaves
\* nothing to recover.
GivesUp == pc \in {"stop", "clear", "fail", "off"} /\ row.status # "parked"
KeptFits ==
    /\ SlotClaimKept
    /\ \A i \in Requests :
        /\ req[i].state = "cancelling" => req[i].kind = "abort"
        /\ req[i].state = "accepted" /\ req[i].kind \in {"approve", "fix", "answer"} =>
              AnsweredBy(i) \/ (pc = "go" /\ mine = i) \/ i \in void \/ (\E a \in applied : a.by = i) \/ over \/ GivesUp

\* An accepted abort is on its way to the executor, or the run is about to end.
Heeded(i) == \/ pc \in {"stop", "clear", "fail", "end"}
             \/ pc \in {"park", "wait", "resuming"} /\ ~waiting /\ chan = i /\ IsAbort(i)
             \/ pc = "hand" /\ mine = i /\ IsAbort(i)

\* What was accepted to stop the run ends its context, is heeded, or was dropped.
StopsFit ==
    /\ waiting => pc \in {"park", "wait", "recovering", "resuming", "stop", "clear", "end"}
    /\ ctx = "live" => \A i \in stopping \ void : Heeded(i)

Fits == AnswersFit /\ MemoryFits /\ KeptFits /\ StopsFit
=============================================================================
