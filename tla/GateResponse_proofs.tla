------------------------ MODULE GateResponse_proofs ------------------------
(***************************************************************************)
(* What GateResponse guarantees for every set of requests and every bound: *)
(* its states are well typed, and its gates keep the promise of            *)
(* GateLedger, in which no gate is applied twice; an answer is applied at  *)
(* the gate it names, and none that was accepted is forgotten; memory and  *)
(* row agree on the gate; an accepted abort that no recovery dropped wins  *)
(* over every answer.                                                      *)
(***************************************************************************)
EXTENDS GateResponseInv, TLAPS

LEMMA Constants ==
    /\ MaxGates \in Nat /\ MaxStops \in Nat /\ MaxFaults \in Nat
    /\ None \notin Requests /\ "reconcile" \notin Requests /\ "resume" \notin Requests
    /\ None # "reconcile" /\ None # "resume" /\ Claims = {"reconcile", "resume"}
BY GateAssumption DEF Claims

LEMMA InitInv == Init => IInv
<1> SUFFICES ASSUME Init PROVE IInv
  OBVIOUS
<1>1. TypeOK
  <2>1. 0 \in 0..MaxGates /\ 0 \in 0..MaxStops /\ 0 \in 0..MaxFaults
    BY Constants
  <2>2. row \in Rows
    BY <2>1 DEF Init, Rows
  <2>3. req \in [Requests -> [state : ReqStates, kind : Kinds, gate : 0..MaxGates]]
    BY <2>1 DEF Init, ReqStates, Kinds
  <2>4. QED
    BY <2>1, <2>2, <2>3 DEF Init, TypeOK, Places
<1>2. NeverBlocks /\ InChannel /\ InHand /\ AtSlot /\ Going /\ Recovered /\ Stopped /\ Running /\ GateNamed /\ DecisionHeld
  BY DEF Init, NeverBlocks, InChannel, InHand, AtSlot, Going, Recovered, Stopped, Running, GateNamed, DecisionHeld
<1>3. QED
  BY <1>1, <1>2 DEF IInv

\* A request that moves on is still a request.
LEMMA BecomesType ==
    ASSUME TypeOK, NEW i \in Requests, NEW state \in ReqStates, Becomes(i, state)
    PROVE  req' \in [Requests -> [state : ReqStates, kind : Kinds, gate : 0..MaxGates]]
BY DEF TypeOK, Becomes

\* A row with another status, or with another marker, is still a row.
LEMMA StatusType ==
    ASSUME NEW x \in Rows, NEW status \in {"running", "parked", "fixing", "completed", "failed"}
    PROVE  [x EXCEPT !.status = status] \in Rows
BY DEF Rows
LEMMA MarkerType ==
    ASSUME NEW x \in Rows, NEW marker \in BOOLEAN
    PROVE  [x EXCEPT !.awaiting = marker] \in Rows
BY DEF Rows

----------------------------------------------------------------------------
\* Every step keeps the state well typed.
LEMMA TypeStep == IInv /\ [Next]_vars => TypeOK'
<1> SUFFICES ASSUME IInv, [Next]_vars PROVE TypeOK'
  OBVIOUS
<1> USE Constants DEF IInv, TypeOK, store, memory, history, bounds, Fault
<1>1. ASSUME NEW i \in Requests, Handler(i) PROVE TypeOK'
  <2>1. CASE Send(i)
    BY <2>1 DEF Send, Kinds, ReqStates, Rows
  <2>2. CASE Refuse(i)
    BY <2>2, BecomesType DEF Refuse, ReqStates
  <2>3. CASE RecordDecision(i)
    BY <2>3, BecomesType DEF RecordDecision, ReqStates
  <2>4. CASE Accept(i)
    BY <2>4, BecomesType DEF Accept, AcceptGate, Recorded, WaitsAfter, ReservedAtAccept, Reserved, ReqStates, Rows
  <2>5. CASE AcceptFails(i)
    BY <2>5, BecomesType DEF AcceptFails, ReqStates
  <2>6. CASE AbortGate(i)
    <3>1. req' \in [Requests -> [state : ReqStates, kind : Kinds, gate : 0..MaxGates]]
      BY <2>6, BecomesType DEF AbortGate, ReqStates
    <3>2. QED
      BY <2>6, <3>1 DEF AbortGate
  <2>7. CASE Cancel(i)
    BY <2>7, BecomesType DEF Cancel, Aborted, ReqStates
  <2>8. QED
    BY <1>1, <2>1, <2>2, <2>3, <2>4, <2>5, <2>6, <2>7 DEF Handler
<1>2. CASE Step
  <2>1. CASE Park
    BY <2>1 DEF Park, Rows, Places
  <2>2. CASE Apply
    <3>1. applied' \subseteq [gate : 1..MaxGates, by : Requests \cup Claims]
      BY <2>2 DEF Apply, Going
    <3>2. /\ over' = TRUE \/ over' = over
          /\ \/ row' = [row EXCEPT !.status = "completed"]
             \/ row' = [row EXCEPT !.status = "fixing"]
             \/ row' = [row EXCEPT !.status = "running"]
      BY <2>2 DEF Apply
    <3>3. row' \in Rows /\ over' \in BOOLEAN
      BY <3>2, StatusType
    <3>4. fixed' \subseteq Requests /\ mine' = None /\ pc' \in Places
      BY <2>2 DEF Apply, Places
    <3>5. UNCHANGED <<selected, memory, ctx, slot, req, void, stopping, bounds>>
      BY <2>2 DEF Apply
    <3>6. QED
      BY <3>1, <3>3, <3>4, <3>5
  <2>3. CASE Invalidate
    BY <2>3 DEF Invalidate, Going, Places
  <2>4. CASE StepEnds
    <3>1. (over' = TRUE /\ row' = [row EXCEPT !.status = "completed"]) \/ (over' = over /\ row' = row)
      BY <2>4 DEF StepEnds
    <3>2. row' \in Rows /\ over' \in BOOLEAN
      BY <3>1, StatusType
    <3>3. pc' \in Places /\ UNCHANGED <<selected, memory, mine, ctx, slot, req, history, stopping, bounds>>
      BY <2>4 DEF StepEnds, Places
    <3>4. QED
      BY <3>2, <3>3
  <2>5. CASE ParkFails
    BY <2>5 DEF ParkFails, Places
  <2>6. CASE ContextFails
    BY <2>6 DEF ContextFails, Places
  <2>7. QED
    BY <1>2, <2>1, <2>2, <2>3, <2>4, <2>5, <2>6 DEF Step
<1>3. CASE AtGate
  <2>1. ASSUME NEW c \in Claims, ClaimGate(c) PROVE TypeOK'
    BY <2>1 DEF ClaimGate, AcceptGate, Recorded, WaitsAfter, ReservedAtAccept, Reserved, Rows, Places
  <2>2. CASE YieldAtGate
    BY <2>2 DEF YieldAtGate, Places
  <2>3. CASE Dequeue
    BY <2>3 DEF Dequeue, Places
  <2>4. CASE CtxDone
    BY <2>4 DEF CtxDone, Places
  <2>5. CASE ClaimFails
    BY <2>5 DEF ClaimFails, Places
  <2>6. CASE Consume
    BY <2>6 DEF Consume, Places
  <2>7. QED
    BY <1>3, <2>1, <2>2, <2>3, <2>4, <2>5, <2>6 DEF AtGate
<1>4. CASE Answer
  <2>1. CASE Dispatch
    BY <2>1 DEF Dispatch, Rows, Places
  <2>2. CASE DispatchFails
    <3>1. row' \in Rows
      BY <2>2 DEF DispatchFails, Rows
    <3>2. faults' \in 0..MaxFaults
      BY <2>2 DEF DispatchFails
    <3>3. QED
      BY <2>2, <3>1, <3>2 DEF DispatchFails, Places
  <2>3. CASE AcquireEnds
    <3>1. row' = row \/ row' = [row EXCEPT !.awaiting = FALSE]
      BY <2>3 DEF AcquireEnds
    <3>2. row' \in Rows
      BY <3>1, MarkerType
    <3>3. /\ answered' = FALSE /\ pc' \in Places
          /\ UNCHANGED <<over, selected, waiting, gate, chan, mine, ctx, slot, req, history, stopping, bounds>>
      BY <2>3 DEF AcquireEnds, Places
    <3>4. QED
      BY <3>2, <3>3
  <2>4. CASE EndGateWait
    <3>1. row' \in Rows
      BY <2>4 DEF EndGateWait, MarkerCleared, Rows
    <3>2. faults' \in 0..MaxFaults
      BY <2>4 DEF EndGateWait
    <3>3. QED
      BY <2>4, <3>1, <3>2 DEF EndGateWait, Places
  <2>5. CASE ClearGate
    BY <2>5 DEF ClearGate, Places
  <2>6. CASE FailRun
    BY <2>6 DEF FailRun, Rows, Places
  <2>7. QED
    BY <1>4, <2>1, <2>2, <2>3, <2>4, <2>5, <2>6 DEF Answer
<1>5. CASE Daemon
  <2>1. ASSUME Down, stops' \in 0..MaxStops, faults' \in 0..MaxFaults PROVE TypeOK'
    <3>1. req' \in [Requests -> [state : ReqStates, kind : Kinds, gate : 0..MaxGates]]
      BY <2>1 DEF Down, ReqStates
    <3>2. gate' \in 0..MaxGates
      BY <2>1 DEF Down
    <3>3. QED
      BY <2>1, <3>1, <3>2 DEF Down, Places
  <2>2. CASE Exit \/ Crash
    BY <2>1, <2>2 DEF Exit, Crash
  <2>3. CASE Register
    BY <2>3 DEF Register, Restored, WaitsAgain, Rows, Places
  <2>4. CASE ResumeInvalidated
    <3>1. row' \in Rows
      <4>1. PICK pending \in {None, row.pending} :
               row' = [row EXCEPT !.status = "running", !.pending = pending, !.awaiting = FALSE]
        BY <2>4 DEF ResumeInvalidated
      <4>2. pending \in Requests \cup Claims \cup {None}
        BY DEF Rows
      <4>3. QED
        BY <4>1, <4>2 DEF Rows
    <3>2. void' \subseteq Requests \cup Claims
      <4>1. Dropped(row.pending) \subseteq Requests \cup Claims /\ Dropped(chan) \subseteq Requests
        <5>1. row.pending \in Requests \cup Claims \cup {None} /\ chan \in Requests \cup {None}
          BY DEF Rows
        <5>2. QED
          BY <5>1 DEF Dropped
      <4>2. void' = void \cup Dropped(row.pending) \cup Dropped(chan)
        BY <2>4 DEF ResumeInvalidated
      <4>3. QED
        BY <4>1, <4>2
    <3>3. /\ waiting' = FALSE /\ chan' = None /\ answered' = FALSE /\ mine' = None /\ pc' \in Places
          /\ UNCHANGED <<over, selected, gate, ctx, slot, req, applied, fixed, stopping, bounds>>
      BY <2>4 DEF ResumeInvalidated, Places
    <3>4. QED
      BY <3>1, <3>2, <3>3
  <2>5. CASE FailStale
    <3>1. row' \in Rows
      BY <2>5 DEF FailStale, Rows
    <3>2. /\ over' = TRUE /\ pc' \in Places
          /\ UNCHANGED <<selected, memory, mine, ctx, slot, req, history, stopping, bounds>>
      BY <2>5 DEF FailStale, Places
    <3>3. QED
      BY <3>1, <3>2
  <2>6. CASE Shutdown
    BY <2>6 DEF Shutdown
  <2>7. CASE BeginResume \/ Resume \/ ResumeFails \/ ResumeEnds
    BY <2>7 DEF BeginResume, Resume, ResumeFails, ResumeEnds, Places
  <2>8. CASE Recheck
    BY <2>8 DEF Recheck, Places
  <2>9. QED
    BY <1>5, <2>2, <2>3, <2>4, <2>5, <2>6, <2>7, <2>8 DEF Daemon
<1>6. CASE Grant
  BY <1>6 DEF Grant
<1>7. CASE UNCHANGED vars
  BY <1>7 DEF vars
<1>8. QED
  BY <1>1, <1>2, <1>3, <1>4, <1>5, <1>6, <1>7 DEF Next

----------------------------------------------------------------------------
\* What is in the channel or in hand is the recorded claim, or an abort.  No handler
\* exchanges it: the executor waits no longer once it has been answered.
HandInv == NeverBlocks /\ InChannel /\ InHand /\ AtSlot /\ Going /\ Recovered /\ Stopped /\ Running /\ GateNamed /\ DecisionHeld

LEMMA HandStep == IInv /\ [Next]_vars => HandInv'
<1> SUFFICES ASSUME IInv, [Next]_vars PROVE HandInv'
  OBVIOUS
<1> USE Constants DEF IInv, TypeOK, NeverBlocks, InChannel, InHand, AtSlot, Going, Recovered, Stopped, Running, GateNamed,
                      DecisionHeld, HandInv, Answered, IsAbort, store, memory, Locked
<1>1. ASSUME NEW i \in Requests, Handler(i) PROVE HandInv'
  <2>1. CASE Send(i)
    BY <2>1 DEF Send
  <2>2. CASE Refuse(i)
    BY <2>2 DEF Refuse, Becomes
  <2>3. CASE RecordDecision(i)
    BY <2>3 DEF RecordDecision, Becomes, Up, AtItsGate
  <2>4. CASE Accept(i)
    <3>1. waiting /\ ~waiting' /\ chan' = i /\ pc' = pc /\ gate' = gate /\ mine' = mine
      BY <2>4 DEF Accept, AcceptGate, WaitsAfter, AtItsGate
    <3>2. row' = [row EXCEPT !.pending = i] /\ row.status = "parked"
      BY <2>4 DEF Accept, AcceptGate, Parked, Recorded
    <3>3. row'.pending = i /\ row'.status = row.status /\ row'.gate = row.gate
      BY <3>2 DEF Rows
    <3>4. DecisionHeld'
      BY <2>4 DEF Accept, Becomes
    <3>5. QED
      BY <3>1, <3>2, <3>3, <3>4
  <2>5. CASE AcceptFails(i)
    BY <2>5 DEF AcceptFails, Becomes
  <2>6. CASE AbortGate(i)
    BY <2>6 DEF AbortGate, Becomes
  <2>7. CASE Cancel(i)
    BY <2>7 DEF Cancel, Becomes
  <2>8. QED
    BY <1>1, <2>1, <2>2, <2>3, <2>4, <2>5, <2>6, <2>7 DEF Handler
<1>2. CASE Step
  BY <1>2 DEF Step, Park, ParkFails, StepEnds, Apply, Invalidate, ContextFails, Rows
<1>3. CASE AtGate
  <2>1. ASSUME NEW c \in Claims, ClaimGate(c) PROVE HandInv'
    BY <2>1 DEF ClaimGate, AcceptGate, Parked, Recorded, WaitsAfter, StillWaiting, Rows
  <2>2. CASE YieldAtGate \/ CtxDone \/ ClaimFails
    BY <2>2 DEF YieldAtGate, CtxDone, ClaimFails
  <2>3. CASE Dequeue
    BY <2>3 DEF Dequeue
  <2>4. CASE Consume
    BY <2>4 DEF Consume
  <2>5. QED
    BY <1>3, <2>1, <2>2, <2>3, <2>4 DEF AtGate
<1>4. CASE Answer
  <2>1. CASE Dispatch
    BY <2>1 DEF Dispatch, Rows
  <2>2. CASE DispatchFails \/ AcquireEnds
    BY <2>2 DEF DispatchFails, AcquireEnds, Rows
  <2>3. CASE EndGateWait
    BY <2>3 DEF EndGateWait, Rows
  <2>4. CASE ClearGate
    BY <2>4 DEF ClearGate
  <2>5. CASE FailRun
    BY <2>5 DEF FailRun, Rows
  <2>6. QED
    BY <1>4, <2>1, <2>2, <2>3, <2>4, <2>5 DEF Answer
<1>5. CASE Daemon
  <2>1. CASE Exit \/ Crash
    BY <2>1 DEF Exit, Crash, Down
  <2>2. CASE Register
    BY <2>2 DEF Register, Restored, WaitsAgain
  <2>3. CASE Resume
    BY <2>3 DEF Resume
  <2>4. CASE ResumeInvalidated
    BY <2>4 DEF ResumeInvalidated, Rows
  <2>5. CASE FailStale
    BY <2>5 DEF FailStale, Rows
  <2>6. CASE Shutdown \/ BeginResume \/ ResumeFails \/ ResumeEnds
    BY <2>6 DEF Shutdown, BeginResume, ResumeFails, ResumeEnds
  <2>7. CASE Recheck
    BY <2>7 DEF Recheck
  <2>8. QED
    BY <1>5, <2>1, <2>2, <2>3, <2>4, <2>5, <2>6, <2>7 DEF Daemon
<1>6. CASE Grant
  BY <1>6 DEF Grant
<1>7. CASE UNCHANGED vars
  BY <1>7 DEF vars
<1>8. QED
  BY <1>1, <1>2, <1>3, <1>4, <1>5, <1>6, <1>7 DEF Next

LEMMA Inductive == Spec => []IInv
<1>1. IInv /\ [Next]_vars => IInv'
  BY TypeStep, HandStep DEF IInv, HandInv
<1>2. QED
  BY InitInv, <1>1, PTL DEF Spec

\* In every reachable state, for any clients and any number of gates, stops and
\* faults, the row, the executor's memory and the requests are well typed.
THEOREM TypeCorrect == Spec => []TypeOK
<1>1. IInv => TypeOK
  BY DEF IInv
<1>2. QED
  BY Inductive, <1>1, PTL

----------------------------------------------------------------------------
\* A step that leaves the row's gate, status and response alone, and begins and ends
\* no dispatch, is none of the ledger's.
Unseen == /\ row'.gate = row.gate /\ row'.status = row.status /\ row'.pending = row.pending
          /\ applied' = applied /\ pc # "go" /\ pc' # "go"

LEMMA UnseenStep == Unseen => UNCHANGED Ledger!ledger
BY DEF Unseen, GatePhase, GateClaim, Ledger!ledger

\* A step that closes the row, and begins no dispatch, voids a gate or changes nothing.
Closes == /\ row'.gate = row.gate /\ row'.status # "parked" /\ pc' # "go" /\ applied' = applied

LEMMA ClosesStep == Closes => Ledger!Void \/ UNCHANGED Ledger!ledger
BY DEF Closes, GatePhase, GateClaim, Ledger!ledger, Ledger!Void

\* A claim that is recorded beside an open gate is the ledger's claim.
LEMMA AcceptStep ==
    ASSUME NEW c \in Requests \cup Claims, row \in Rows, AcceptGate(c), applied' = applied
    PROVE  Ledger!Claim(c)
<1>1. row' = [row EXCEPT !.pending = c] /\ row.status = "parked" /\ row.pending = None
  BY DEF AcceptGate, Parked, Recorded
<1>2. row'.status = "parked" /\ row'.pending = c /\ row'.gate = row.gate
  BY <1>1 DEF Rows
<1>3. c # None
  BY Constants
<1>4. QED
  BY <1>1, <1>2, <1>3 DEF GatePhase, GateClaim, Ledger!Claim

LEMMA LedgerInit == Init => Ledger!Init
BY DEF Init, Ledger!Init, GatePhase, GateClaim

LEMMA LedgerStep == IInv /\ [Next]_vars => [Ledger!Next]_(Ledger!ledger)
<1> DEFINE Goal == Ledger!Next \/ UNCHANGED Ledger!ledger
<1> SUFFICES ASSUME IInv, [Next]_vars PROVE Goal
  OBVIOUS
<1>a. row \in Rows /\ pc \in Places /\ mine \in Requests \cup Claims \cup {None}
  BY DEF IInv, TypeOK
<1>b. Unseen \/ Closes => Goal
  BY UnseenStep, ClosesStep DEF Ledger!Next
<1> USE DEF store, memory, history
<1>1. ASSUME NEW i \in Requests, Handler(i) PROVE Goal
  <2>1. CASE Accept(i)
    BY <2>1, <1>a, AcceptStep DEF Accept, Ledger!Next, history
  <2>2. CASE Send(i) \/ Refuse(i) \/ RecordDecision(i) \/ AcceptFails(i) \/ AbortGate(i) \/ Cancel(i)
    <3>1. UNCHANGED <<row, pc, applied>>
      BY <2>2 DEF Send, Refuse, RecordDecision, AcceptFails, AbortGate, Cancel
    <3>2. UNCHANGED mine
      BY <2>2 DEF Send, Refuse, RecordDecision, AcceptFails, AbortGate, Cancel
    <3>3. QED
      BY <3>1, <3>2 DEF GatePhase, GateClaim, Ledger!ledger
  <2>3. QED
    BY <1>1, <2>1, <2>2 DEF Handler
<1>2. CASE Step
  <2>1. CASE Park
    <3>1. row.status # "parked" /\ pc = "run"
      BY <2>1 DEF Park, IInv, Running
    <3>2. QED
      BY <2>1, <3>1 DEF Park, GatePhase, GateClaim, Ledger!Open, Ledger!Next
  <2>2. CASE Apply
    <3>1. row.status = "running" /\ mine # None /\ gate = row.gate /\ pc = "go"
      BY <2>2 DEF Apply, IInv, Going
    <3>2. row'.gate = row.gate /\ row'.status # "parked" /\ pc' # "go"
      BY <2>2, <1>a DEF Apply, Rows
    <3>3. Ledger!Apply
      BY <2>2, <3>1, <3>2 DEF Apply, GatePhase, GateClaim, Ledger!Apply
    <3>4. QED
      BY <3>3 DEF Ledger!Next
  <2>3. CASE Invalidate \/ ContextFails
    <3>1. Closes
      BY <2>3 DEF Invalidate, ContextFails, Closes, IInv, Going
    <3>2. QED
      BY <3>1, <1>b
  <2>4. CASE StepEnds
    <3>1. Closes \/ Unseen
      BY <2>4, <1>a DEF StepEnds, Closes, Unseen, Rows
    <3>2. QED
      BY <3>1, <1>b
  <2>5. CASE ParkFails
    <3>1. Unseen
      BY <2>5 DEF ParkFails, Unseen
    <3>2. QED
      BY <3>1, <1>b
  <2>6. QED
    BY <1>2, <2>1, <2>2, <2>3, <2>4, <2>5 DEF Step
<1>3. CASE AtGate
  <2>1. ASSUME NEW c \in Claims, ClaimGate(c) PROVE Goal
    BY <2>1, <1>a, AcceptStep DEF ClaimGate, Ledger!Next
  <2>2. CASE YieldAtGate \/ Dequeue \/ CtxDone \/ ClaimFails \/ Consume
    <3>1. Unseen
      BY <2>2 DEF YieldAtGate, Dequeue, CtxDone, ClaimFails, Consume, Unseen
    <3>2. QED
      BY <3>1, <1>b
  <2>3. QED
    BY <1>3, <2>1, <2>2 DEF AtGate
<1>4. CASE Answer
  <2>1. CASE Dispatch
    <3>1. row.status = "parked" /\ row.pending # None /\ mine = row.pending
      BY <2>1 DEF Dispatch, IInv, AtSlot
    <3>2. row'.gate = row.gate /\ row'.status = "running" /\ pc' = "go" /\ mine' = mine /\ applied' = applied
      BY <2>1, <1>a DEF Dispatch, Rows
    <3>3. QED
      BY <3>1, <3>2 DEF GatePhase, GateClaim, Ledger!ledger
  <2>2. CASE FailRun
    <3>1. Closes
      BY <2>2, <1>a DEF FailRun, Closes, Rows
    <3>2. QED
      BY <3>1, <1>b
  <2>3. CASE DispatchFails \/ AcquireEnds \/ EndGateWait \/ ClearGate
    <3>1. Unseen
      BY <2>3, <1>a DEF DispatchFails, AcquireEnds, EndGateWait, ClearGate, Unseen, Rows
    <3>2. QED
      BY <3>1, <1>b
  <2>4. QED
    BY <1>4, <2>1, <2>2, <2>3 DEF Answer
<1>5. CASE Daemon
  <2>1. CASE Exit \/ Crash
    <3>1. UNCHANGED <<row, applied>> /\ pc' = "off"
      BY <2>1 DEF Exit, Crash, Down
    <3>2. CASE row.status = "parked"
      BY <3>1, <3>2 DEF GatePhase, GateClaim, Ledger!ledger
    <3>3. CASE row.status # "parked"
      BY <3>1, <3>3, <1>b DEF Closes
    <3>4. QED
      BY <3>2, <3>3
  <2>2. CASE FailStale
    <3>1. Closes \/ Unseen
      BY <2>2, <1>a DEF FailStale, Closes, Unseen, Rows
    <3>2. QED
      BY <3>1, <1>b
  <2>3. CASE ResumeInvalidated
    <3>1. Closes
      BY <2>3, <1>a DEF ResumeInvalidated, Closes, Rows
    <3>2. QED
      BY <3>1, <1>b
  <2>4. CASE Shutdown
    BY <2>4 DEF Shutdown, GatePhase, GateClaim, Ledger!ledger
  <2>5. CASE Register \/ BeginResume \/ Resume \/ ResumeFails \/ ResumeEnds \/ Recheck
    <3>1. Unseen
      BY <2>5 DEF Register, BeginResume, Resume, ResumeFails, ResumeEnds, Recheck, Unseen
    <3>2. QED
      BY <3>1, <1>b
  <2>6. QED
    BY <1>5, <2>1, <2>2, <2>3, <2>4, <2>5 DEF Daemon
<1>6. CASE Grant
  BY <1>6 DEF Grant, GatePhase, GateClaim, Ledger!ledger
<1>7. CASE UNCHANGED vars
  BY <1>7 DEF vars, GatePhase, GateClaim, Ledger!ledger
<1>8. QED
  BY <1>1, <1>2, <1>3, <1>4, <1>5, <1>6, <1>7 DEF Next

\* The gates of a step keep the ledger's promise, for any clients and any number of
\* gates, stops and faults: one claim each, never exchanged, applied once or void.
THEOREM Refines == Spec => KeepsLedger
<1>1. QED
  BY LedgerInit, LedgerStep, Inductive, PTL DEF Spec, KeepsLedger, Ledger!Spec

(* What the ledger promises holds of the gates.  AppliedOnce is not inductive *)
(* by itself: the last gate's number must be the largest, which needs the     *)
(* types of LedgerType.                                                       *)

LedgerInv == Ledger!LedgerType /\ Ledger!AppliedOnce

LEMMA LedgerInvInit == Ledger!Init => LedgerInv
BY DEF Ledger!Init, LedgerInv, Ledger!LedgerType, Ledger!AppliedOnce

LEMMA LedgerInvStep == LedgerInv /\ [Ledger!Next]_(Ledger!ledger) => LedgerInv'
<1> SUFFICES ASSUME LedgerInv, [Ledger!Next]_(Ledger!ledger) PROVE LedgerInv'
  OBVIOUS
<1> USE DEF LedgerInv, Ledger!LedgerType, Ledger!AppliedOnce
<1>1. CASE Ledger!Open
  BY <1>1 DEF Ledger!Open
<1>2. ASSUME NEW c \in Requests \cup Claims, Ledger!Claim(c) PROVE LedgerInv'
  BY <1>2 DEF Ledger!Claim
<1>3. CASE Ledger!Apply
  <2> DEFINE entry == [gate |-> row.gate, by |-> GateClaim]
  <2>1. /\ GateClaim \in Requests \cup Claims /\ row.gate \in Nat /\ GatePhase' = "closed"
        /\ row'.gate = row.gate /\ GateClaim' = None /\ applied' = applied \cup {entry}
    BY <1>3 DEF Ledger!Apply
  <2>2. \A a \in applied : a.gate # row.gate
    BY <1>3 DEF Ledger!Apply
  <2>3. Ledger!LedgerType'
    BY <2>1
  <2>4. Ledger!AppliedOnce'
    BY <2>1, <2>2
  <2> QED BY <2>3, <2>4
<1>4. CASE Ledger!Void
  BY <1>4 DEF Ledger!Void
<1>5. CASE UNCHANGED Ledger!ledger
  BY <1>5 DEF Ledger!ledger
<1> QED BY <1>1, <1>2, <1>3, <1>4, <1>5 DEF Ledger!Next

\* No gate is applied twice and none that is still open was applied, whoever answers
\* it and however often the daemon stops: the ledger's promise, held by the gates.
THEOREM AppliedOnlyOnce == Spec => []Ledger!AppliedOnce
<1>1. LedgerInv => Ledger!AppliedOnce
  BY DEF LedgerInv
<1> QED BY LedgerInit, LedgerStep, Inductive, LedgerInvInit, LedgerInvStep, <1>1, PTL DEF Spec

----------------------------------------------------------------------------
(* The other safety properties, from Fits.                                    *)

\* An accepted request does not change any more.
LEMMA AcceptedStays ==
    ASSUME IInv, [Next]_vars, NEW j \in Requests, req[j].state = "accepted"
    PROVE  req'[j] = req[j]
<1> USE DEF IInv, TypeOK
<1>1. ASSUME NEW i \in Requests, Handler(i) PROVE req'[j] = req[j]
  <2>1. CASE i = j
    BY <1>1, <2>1 DEF Handler, Send, Refuse, RecordDecision, Accept, AcceptFails, AbortGate, Cancel
  <2>2. CASE i # j
    BY <1>1, <2>2 DEF Handler, Send, Refuse, RecordDecision, Accept, AcceptFails, AbortGate, Cancel, Becomes
  <2>3. QED
    BY <2>1, <2>2
<1>2. CASE Exit \/ Crash
  BY <1>2 DEF Exit, Crash, Down
<1>3. CASE Step \/ AtGate \/ Answer \/ Grant
  BY <1>3 DEF Step, Park, ParkFails, StepEnds, Apply, Invalidate, ContextFails,
              AtGate, YieldAtGate, Dequeue, CtxDone, ClaimGate, ClaimFails, Consume,
              Answer, Dispatch, DispatchFails, AcquireEnds, EndGateWait, ClearGate, FailRun, Grant
<1>4. CASE Shutdown \/ Register \/ FailStale \/ BeginResume \/ Resume \/ ResumeFails \/ ResumeEnds \/ ResumeInvalidated \/ Recheck
  BY <1>4 DEF Shutdown, Register, FailStale, BeginResume, Resume, ResumeFails, ResumeEnds, ResumeInvalidated, Recheck
<1>5. QED
  BY <1>1, <1>2, <1>3, <1>4 DEF Next, Daemon, vars

\* What becomes accepted was an answer, an abort or a cancellation a step before.
LEMMA BecomesAccepted ==
    ASSUME IInv, [Next]_vars, NEW j \in Requests, req'[j].state = "accepted", req[j].state # "accepted"
    PROVE  Accept(j) \/ AbortGate(j) \/ Cancel(j)
<1> USE DEF IInv, TypeOK
<1>1. ASSUME NEW i \in Requests, Handler(i) PROVE Accept(j) \/ AbortGate(j) \/ Cancel(j)
  <2>1. CASE i = j
    <3>1. ~Send(j) /\ ~Refuse(j) /\ ~RecordDecision(j) /\ ~AcceptFails(j)
      BY DEF Send, Refuse, RecordDecision, AcceptFails, Becomes
    <3>2. QED
      BY <1>1, <2>1, <3>1 DEF Handler
  <2>2. CASE i # j
    BY <1>1, <2>2 DEF Handler, Send, Refuse, RecordDecision, Accept, AcceptFails, AbortGate, Cancel, Becomes
  <2>3. QED
    BY <2>1, <2>2
<1>2. CASE Exit \/ Crash
  BY <1>2 DEF Exit, Crash, Down
<1>3. CASE Step \/ AtGate \/ Answer \/ Grant
  BY <1>3 DEF Step, Park, ParkFails, StepEnds, Apply, Invalidate, ContextFails,
              AtGate, YieldAtGate, Dequeue, CtxDone, ClaimGate, ClaimFails, Consume,
              Answer, Dispatch, DispatchFails, AcquireEnds, EndGateWait, ClearGate, FailRun, Grant
<1>4. CASE Shutdown \/ Register \/ FailStale \/ BeginResume \/ Resume \/ ResumeFails \/ ResumeEnds \/ ResumeInvalidated \/ Recheck
  BY <1>4 DEF Shutdown, Register, FailStale, BeginResume, Resume, ResumeFails, ResumeEnds, ResumeInvalidated, Recheck
<1>5. QED
  BY <1>1, <1>2, <1>3, <1>4 DEF Next, Daemon, vars

\* Everything but the gate's opening and its claims leaves a parked row's gate and
\* pending response alone.
RowKeeps == row'.status = "parked" =>
                row.status = "parked" /\ row'.pending = row.pending /\ row'.gate = row.gate
Claimed == (\E i \in Requests : Accept(i)) \/ (\E c \in Claims : ClaimGate(c))

LEMMA RowKept == ASSUME IInv, [Next]_vars PROVE RowKeeps \/ Park \/ Claimed
<1> USE DEF IInv, TypeOK, store
<1>1. ASSUME NEW i \in Requests, Handler(i) PROVE RowKeeps \/ Claimed
  BY <1>1 DEF RowKeeps, Claimed, Handler, Send, Refuse, RecordDecision, AcceptFails, AbortGate, Cancel
<1>2. CASE Step
  BY <1>2 DEF RowKeeps, Rows, Step, ParkFails, StepEnds, Apply, Invalidate, ContextFails
<1>3. CASE AtGate
  BY <1>3 DEF RowKeeps, Claimed, AtGate, YieldAtGate, Dequeue, CtxDone, ClaimFails, Consume
<1>4. CASE Answer
  BY <1>4 DEF RowKeeps, Rows, Answer, Dispatch, DispatchFails, AcquireEnds, EndGateWait, ClearGate, FailRun
<1>5. CASE Daemon \/ Grant
  BY <1>5 DEF RowKeeps, Rows, Daemon, Exit, Crash, Down, Shutdown, Register, FailStale, BeginResume, Resume, ResumeFails, ResumeEnds,
              ResumeInvalidated, Recheck, Grant
<1>6. CASE UNCHANGED vars
  BY <1>6 DEF RowKeeps, vars
<1>7. QED
  BY <1>1, <1>2, <1>3, <1>4, <1>5, <1>6 DEF Next

\* A claim in the executor's hands is applied at its gate, or is on its way there.
LEMMA GoKept ==
    ASSUME IInv, [Next]_vars
    PROVE  /\ pc' = "go" => Dispatch \/ (pc = "go" /\ mine' = mine /\ gate' = gate)
           /\ applied' = applied \/ Apply
<1> USE DEF store, memory, history
<1>1. ASSUME NEW i \in Requests, Handler(i)
      PROVE  applied' = applied /\ pc' = pc /\ mine' = mine /\ gate' = gate
  BY <1>1 DEF Handler, Send, Refuse, RecordDecision, Accept, AcceptFails, AbortGate, Cancel
<1>2. CASE Step
  BY <1>2 DEF Step, Park, ParkFails, StepEnds, Apply, Invalidate, ContextFails
<1>3. CASE AtGate
  BY <1>3 DEF AtGate, YieldAtGate, Dequeue, CtxDone, ClaimGate, ClaimFails, Consume
<1>4. CASE Answer
  BY <1>4 DEF Answer, DispatchFails, AcquireEnds, EndGateWait, ClearGate, FailRun, Dispatch
<1>5. CASE Daemon \/ Grant
  BY <1>5 DEF Daemon, Exit, Crash, Down, Shutdown, Register, FailStale, BeginResume, Resume, ResumeFails, ResumeEnds,
              ResumeInvalidated, Recheck, Grant
<1>6. CASE UNCHANGED vars
  BY <1>6 DEF vars
<1>7. QED
  BY <1>1, <1>2, <1>3, <1>4, <1>5, <1>6 DEF Next

LEMMA AnswersStep ==
    ASSUME IInv, AnswersFit, [Next]_vars
    PROVE  AnswersFit'
<1> USE Constants
<1>1. ASSUME NEW c, NEW g, Taken(c, g) PROVE c \in Requests => req'[c].state = "accepted" /\ req'[c].gate = g
  BY <1>1, AcceptedStays DEF Taken
<1>2. row'.status = "parked" => Taken(row.pending, row.gate)' 
  <2> SUFFICES ASSUME row'.status = "parked"
               PROVE  row'.pending \in Requests =>
                          req'[row'.pending].state = "accepted" /\ req'[row'.pending].gate = row'.gate
    BY DEF Taken
  <2>1. CASE RowKeeps
    BY <2>1, <1>1 DEF RowKeeps, AnswersFit
  <2>2. CASE Park
    BY <2>2 DEF Park
  <2>3. ASSUME NEW c \in Claims, ClaimGate(c) PROVE row'.pending \notin Requests
    BY <2>3 DEF ClaimGate, AcceptGate, Recorded, IInv, TypeOK, Rows
  <2>4. ASSUME NEW i \in Requests, Accept(i)
        PROVE  req'[row'.pending].state = "accepted" /\ req'[row'.pending].gate = row'.gate
    <3>1. row'.pending = i /\ row'.gate = row.gate /\ row.gate = gate
      BY <2>4 DEF Accept, AcceptGate, Recorded, Parked, IInv, TypeOK, Rows
    <3>2. req[i].gate = gate
      BY <2>4 DEF Accept, AtItsGate, IInv, DecisionHeld
    <3>3. req'[i] = [req[i] EXCEPT !.state = "accepted"]
      BY <2>4 DEF Accept, Becomes, IInv, TypeOK
    <3>4. req[i] \in [state : ReqStates, kind : Kinds, gate : 0..MaxGates]
      BY DEF IInv, TypeOK
    <3>5. QED
      BY <3>1, <3>2, <3>3, <3>4
  <2>5. QED
    BY <2>1, <2>2, <2>3, <2>4, RowKept DEF Claimed
<1>3. pc' = "go" => Taken(mine, gate)'
  <2> SUFFICES ASSUME pc' = "go"
               PROVE  mine' \in Requests => req'[mine'].state = "accepted" /\ req'[mine'].gate = gate'
    BY DEF Taken
  <2>1. CASE Dispatch
    <3>1. row.status = "parked" /\ row.gate = gate /\ mine = row.pending
      BY <2>1 DEF Dispatch, IInv, AtSlot
    <3>2. mine' = mine /\ gate' = gate
      BY <2>1 DEF Dispatch
    <3>3. Taken(mine, gate)
      BY <3>1 DEF AnswersFit
    <3>4. QED
      BY <3>2, <3>3, <1>1
  <2>2. CASE pc = "go" /\ mine' = mine /\ gate' = gate
    BY <2>2, <1>1 DEF AnswersFit
  <2>3. QED
    BY <2>1, <2>2, GoKept
<1>4. \A a \in applied' : Taken(a.by, a.gate)'
  <2> SUFFICES ASSUME NEW a \in applied'
               PROVE  a.by \in Requests => req'[a.by].state = "accepted" /\ req'[a.by].gate = a.gate
    BY DEF Taken
  <2>1. CASE a \in applied
    BY <2>1, <1>1 DEF AnswersFit
  <2>2. CASE a \notin applied
    <3>1. Apply
      BY <2>2, GoKept
    <3>2. a = [gate |-> gate, by |-> mine] /\ pc = "go"
      BY <2>2, <3>1 DEF Apply
    <3>3. Taken(mine, gate)
      BY <3>2 DEF AnswersFit
    <3>4. QED
      BY <3>2, <3>3, <1>1
  <2>3. QED
    BY <2>1, <2>2
<1>5. QED
  BY <1>2, <1>3, <1>4 DEF AnswersFit

\* What the executor knows of its gate, action by action.
LEMMA MemoryStep ==
    ASSUME IInv, IInv', MemoryFits, [Next]_vars
    PROVE  MemoryFits'
<1> USE Constants DEF IInv, TypeOK, MemoryFits, MemoryMatchesRow, Ended, AtAGate, store, memory, bounds
<1>1. ASSUME NEW i \in Requests, Handler(i) PROVE MemoryFits'
  <2>1. CASE Accept(i)
    <3>1. /\ row.status = "parked" /\ row.gate = gate /\ i # None /\ pc # "off" /\ ~over
          /\ UNCHANGED <<over, pc, gate, bounds>> /\ answered' /\ ~waiting'
      BY <2>1 DEF Accept, AcceptGate, WaitsAfter, Parked, Up
    <3>2. /\ row'.status = "parked" /\ row'.gate = row.gate /\ row'.pending = i /\ row'.awaiting = row.awaiting
      BY <2>1, <3>1 DEF Accept, AcceptGate, Recorded, Rows
    <3>3. pc \notin {"run", "go"}
      BY <3>1 DEF Running, Going
    <3>4. QED
      BY <3>1, <3>2, <3>3
  <2>2. CASE Send(i) \/ Refuse(i) \/ RecordDecision(i) \/ AcceptFails(i) \/ AbortGate(i) \/ Cancel(i)
    BY <2>2 DEF Send, Refuse, RecordDecision, AcceptFails, AbortGate, Cancel, Fault
  <2>3. QED
    BY <1>1, <2>1, <2>2 DEF Handler
<1>2. CASE Step
  BY <1>2 DEF Step, Park, ParkFails, StepEnds, Apply, Invalidate, ContextFails, Rows, Fault, Running, Going
<1>3. CASE AtGate
  <2>1. ASSUME NEW c \in Claims, ClaimGate(c) PROVE MemoryFits'
    BY <2>1 DEF ClaimGate, AcceptGate, Recorded, WaitsAfter, Parked, Rows
  <2>2. CASE YieldAtGate \/ Dequeue \/ CtxDone \/ ClaimFails \/ Consume
    BY <2>2 DEF YieldAtGate, Dequeue, CtxDone, ClaimFails, Consume, Fault, InHand
  <2>3. QED
    BY <1>3, <2>1, <2>2 DEF AtGate
<1>4. CASE Answer
  <2>1. CASE Dispatch
    BY <2>1 DEF Dispatch, Rows
  <2>2. CASE DispatchFails
    BY <2>2 DEF DispatchFails, Rows, Fault
  <2>3. CASE AcquireEnds
    BY <2>3 DEF AcquireEnds, Rows
  <2>4. CASE EndGateWait
    BY <2>4 DEF EndGateWait, MarkerCleared, Rows, Fault
  <2>5. CASE ClearGate
    BY <2>5 DEF ClearGate
  <2>6. CASE FailRun
    BY <2>6 DEF FailRun, Rows
  <2>7. QED
    BY <1>4, <2>1, <2>2, <2>3, <2>4, <2>5, <2>6 DEF Answer
<1>5. CASE Daemon
  <2>1. CASE Exit \/ Crash
    BY <2>1 DEF Exit, Crash, Down
  <2>2. CASE Register
    BY <2>2 DEF Register, Recoverable, Restored, WaitsAgain
  <2>3. CASE FailStale
    BY <2>3 DEF FailStale, Rows
  <2>4. CASE ResumeInvalidated
    BY <2>4 DEF ResumeInvalidated, Rows
  <2>5. CASE Shutdown \/ BeginResume \/ Resume \/ ResumeFails \/ ResumeEnds \/ Recheck
    BY <2>5 DEF Shutdown, BeginResume, Resume, ResumeFails, ResumeEnds, Recheck
  <2>6. QED
    BY <1>5, <2>1, <2>2, <2>3, <2>4, <2>5 DEF Daemon
<1>6. CASE Grant \/ UNCHANGED vars
  BY <1>6 DEF Grant, vars
<1>7. QED
  BY <1>1, <1>2, <1>3, <1>4, <1>5, <1>6 DEF Next

\* An answered gate keeps its place in the line for a slot.
LEMMA ClaimStep ==
    ASSUME IInv, MemoryFits, SlotClaimKept, [Next]_vars
    PROVE  SlotClaimKept'
<1> USE Constants DEF SlotClaimKept, Up, IInv, TypeOK, MemoryFits, MemoryMatchesRow, Ended, AtAGate, store, memory
<1>1. ASSUME NEW i \in Requests, Handler(i) PROVE SlotClaimKept'
  <2>1. CASE Accept(i)
    BY <2>1 DEF Accept, AcceptGate, ReservedAtAccept, Reserved
  <2>2. CASE Send(i) \/ Refuse(i) \/ RecordDecision(i) \/ AcceptFails(i) \/ AbortGate(i) \/ Cancel(i)
    BY <2>2 DEF Send, Refuse, RecordDecision, AcceptFails, AbortGate, Cancel
  <2>3. QED
    BY <1>1, <2>1, <2>2 DEF Handler
<1>2. CASE Step
  BY <1>2 DEF Step, Park, ParkFails, StepEnds, Apply, Invalidate, ContextFails
<1>3. CASE AtGate
  BY <1>3 DEF AtGate, YieldAtGate, MayYield, Dequeue, CtxDone, ClaimFails, Consume,
              ClaimGate, AcceptGate, ReservedAtAccept, Reserved
<1>4. CASE Answer
  BY <1>4 DEF Answer, Dispatch, DispatchFails, AcquireEnds, EndGateWait, ClearGate, FailRun
<1>5. CASE Daemon
  <2>1. CASE Exit \/ Crash
    BY <2>1 DEF Exit, Crash, Down
  <2>2. CASE Register \/ FailStale
    BY <2>2 DEF Register, FailStale, Stopped
  <2>3. CASE Shutdown \/ BeginResume \/ Resume \/ ResumeFails \/ ResumeEnds \/ ResumeInvalidated
    BY <2>3 DEF Shutdown, BeginResume, Resume, ResumeFails, ResumeEnds, ResumeInvalidated
  <2>4. CASE Recheck
    BY <2>4 DEF Recheck
  <2>5. QED
    BY <1>5, <2>1, <2>2, <2>3, <2>4 DEF Daemon
<1>6. CASE Grant \/ UNCHANGED vars
  BY <1>6 DEF Grant, vars
<1>7. QED
  BY <1>1, <1>2, <1>3, <1>4, <1>5, <1>6 DEF Next

\* Where an accepted answer is.
Found(i) == AnsweredBy(i) \/ (pc = "go" /\ mine = i) \/ i \in void \/ (\E a \in applied : a.by = i) \/ over \/ GivesUp

LEMMA FoundStep ==
    ASSUME IInv, MemoryFits, [Next]_vars, NEW j \in Requests, Found(j)
    PROVE  Found(j)'
<1> USE Constants DEF Found, AnsweredBy, GivesUp, IInv, TypeOK, MemoryFits, Ended, store, memory, history
<1>1. ASSUME NEW i \in Requests, Handler(i) PROVE Found(j)'
  <2>1. CASE Accept(i)
    BY <2>1 DEF Accept, AcceptGate, Parked, Rows
  <2>2. CASE Send(i) \/ Refuse(i) \/ RecordDecision(i) \/ AcceptFails(i) \/ AbortGate(i) \/ Cancel(i)
    BY <2>2 DEF Send, Refuse, RecordDecision, AcceptFails, AbortGate, Cancel
  <2>3. QED
    BY <1>1, <2>1, <2>2 DEF Handler
<1>2. CASE Step
  <2>1. CASE Park
    BY <2>1 DEF Park, Running
  <2>2. CASE Apply
    <3>1. [gate |-> gate, by |-> mine] \in applied' /\ applied \subseteq applied' /\ (over => over') /\ void' = void
      BY <2>2 DEF Apply
    <3>2. row.status = "running" /\ pc = "go"
      BY <2>2 DEF Apply, Going
    <3>3. mine = j \/ j \in void \/ (\E a \in applied : a.by = j) \/ over
      BY <3>2
    <3>4. mine = j => \E a \in applied' : a.by = j
      BY <3>1
    <3>5. QED
      BY <3>1, <3>3, <3>4
  <2>3. CASE ParkFails \/ StepEnds
    BY <2>3 DEF ParkFails, StepEnds, Running
  <2>4. CASE Invalidate \/ ContextFails
    BY <2>4 DEF Invalidate, ContextFails, Going
  <2>5. QED
    BY <1>2, <2>1, <2>2, <2>3, <2>4 DEF Step
<1>3. CASE AtGate
  <2>1. ASSUME NEW c \in Claims, ClaimGate(c) PROVE Found(j)'
    BY <2>1 DEF ClaimGate, AcceptGate, Parked, Rows
  <2>2. CASE YieldAtGate \/ Dequeue \/ CtxDone \/ ClaimFails \/ Consume
    BY <2>2 DEF YieldAtGate, Dequeue, CtxDone, ClaimFails, Consume
  <2>3. QED
    BY <1>3, <2>1, <2>2 DEF AtGate
<1>4. CASE Answer
  <2>1. CASE Dispatch
    BY <2>1 DEF Dispatch, AtSlot
  <2>2. CASE DispatchFails \/ AcquireEnds \/ EndGateWait \/ ClearGate
    BY <2>2 DEF DispatchFails, AcquireEnds, EndGateWait, ClearGate, Rows
  <2>3. CASE FailRun
    BY <2>3 DEF FailRun
  <2>4. QED
    BY <1>4, <2>1, <2>2, <2>3 DEF Answer
<1>5. CASE Daemon
  <2>1. CASE Exit \/ Crash
    BY <2>1 DEF Exit, Crash, Down, Going
  <2>2. CASE Register
    BY <2>2 DEF Register, Recoverable
  <2>3. CASE FailStale
    BY <2>3 DEF FailStale
  <2>4. CASE ResumeInvalidated
    BY <2>4 DEF ResumeInvalidated, Dropped
  <2>5. CASE Shutdown \/ BeginResume \/ Resume \/ ResumeFails \/ ResumeEnds \/ Recheck
    BY <2>5 DEF Shutdown, BeginResume, Resume, ResumeFails, ResumeEnds, Recheck
  <2>6. QED
    BY <1>5, <2>1, <2>2, <2>3, <2>4, <2>5 DEF Daemon
<1>6. CASE Grant \/ UNCHANGED vars
  BY <1>6 DEF Grant, vars
<1>7. QED
  BY <1>1, <1>2, <1>3, <1>4, <1>5, <1>6 DEF Next

LEMMA KeptStep ==
    ASSUME IInv, MemoryFits, KeptFits, [Next]_vars
    PROVE  KeptFits'
<1>1. SlotClaimKept'
  BY ClaimStep DEF KeptFits
<1>2. ASSUME NEW j \in Requests, req'[j].state = "cancelling" PROVE req'[j].kind = "abort"
  <2> USE DEF IInv, TypeOK
  <2>1. CASE req'[j] = req[j]
    BY <1>2, <2>1 DEF KeptFits
  <2>2. CASE req'[j] # req[j]
    <3>1. ASSUME NEW i \in Requests, Handler(i) PROVE req'[j].kind = "abort"
      <4>1. i = j
        BY <3>1, <2>2 DEF Handler, Send, Refuse, RecordDecision, Accept, AcceptFails, AbortGate, Cancel, Becomes
      <4>2. ~Send(j) /\ ~Refuse(j) /\ ~RecordDecision(j) /\ ~Accept(j) /\ ~AcceptFails(j) /\ ~Cancel(j)
        BY <1>2 DEF Send, Refuse, RecordDecision, Accept, AcceptFails, Cancel, Becomes
      <4>3. AbortGate(j)
        BY <3>1, <4>1, <4>2 DEF Handler
      <4>4. req[j] \in [state : ReqStates, kind : Kinds, gate : 0..MaxGates] /\ req[j].kind = "abort"
        BY <4>3 DEF AbortGate
      <4>5. QED
        BY <4>3, <4>4 DEF AbortGate, Becomes
    <3>2. CASE Exit \/ Crash
      BY <1>2, <2>2, <3>2 DEF Exit, Crash, Down
    <3>3. CASE Step \/ AtGate \/ Answer \/ Grant
      BY <2>2, <3>3 DEF Step, Park, ParkFails, StepEnds, Apply, Invalidate, ContextFails,
                  AtGate, YieldAtGate, Dequeue, CtxDone, ClaimGate, ClaimFails, Consume,
                  Answer, Dispatch, DispatchFails, AcquireEnds, EndGateWait, ClearGate, FailRun, Grant
    <3>4. CASE Shutdown \/ Register \/ FailStale \/ BeginResume \/ Resume \/ ResumeFails \/ ResumeEnds \/ ResumeInvalidated \/ Recheck
      BY <2>2, <3>4 DEF Shutdown, Register, FailStale, BeginResume, Resume, ResumeFails, ResumeEnds, ResumeInvalidated, Recheck
    <3>5. QED
      BY <2>2, <3>1, <3>2, <3>3, <3>4 DEF Next, Daemon, vars
  <2>3. QED
    BY <2>1, <2>2
<1>3. ASSUME NEW j \in Requests, req'[j].state = "accepted", req'[j].kind \in {"approve", "fix", "answer"}
      PROVE  Found(j)'
  <2>1. CASE req[j].state = "accepted"
    <3>1. req'[j] = req[j]
      BY <2>1, AcceptedStays
    <3>2. Found(j)
      BY <1>3, <2>1, <3>1 DEF KeptFits, Found
    <3>3. QED
      BY <3>2, FoundStep
  <2>2. CASE req[j].state # "accepted"
    <3>1. req[j] \in [state : ReqStates, kind : Kinds, gate : 0..MaxGates]
      BY DEF IInv, TypeOK
    <3>2. Accept(j) \/ AbortGate(j) \/ Cancel(j)
      BY <1>3, <2>2, BecomesAccepted
    <3>3. req'[j].kind = req[j].kind
      BY <3>1, <3>2 DEF Accept, AbortGate, Cancel, Becomes, IInv, TypeOK
    <3>4. Accept(j)
      BY <1>3, <3>2, <3>3 DEF AbortGate, Cancel, KeptFits
    <3>5. AnsweredBy(j)'
      BY <3>4 DEF AnsweredBy, Accept, AcceptGate, Recorded, Parked, IInv, TypeOK, Rows
    <3>6. QED
      BY <3>5 DEF Found
  <2>3. QED
    BY <2>1, <2>2
<1>4. QED
  BY <1>1, <1>2, <1>3 DEF KeptFits, Found

\* What was heeded still is, unless it was dropped with its gate or the context ended.
LEMMA HeededStays ==
    ASSUME IInv, StopsFit, [Next]_vars, NEW j \in Requests, Heeded(j), ctx' = "live", j \in stopping' \ void'
    PROVE  Heeded(j)'
<1>1. IsAbort(j) => IsAbort(j)'
  BY AcceptedStays DEF IsAbort
<1> USE Constants DEF Heeded, IInv, TypeOK, Answered, store, memory, history
<1>2. ASSUME NEW i \in Requests, Handler(i) PROVE Heeded(j)'
  <2>1. CASE Accept(i)
    <3>1. pc' = pc /\ (waiting \/ req[i].state = "recorded")
      BY <2>1 DEF Accept, AtItsGate
    <3>2. waiting
      BY <3>1 DEF DecisionHeld
    <3>3. QED
      BY <3>1, <3>2 DEF InHand
  <2>2. CASE AbortGate(i)
    BY <2>2, <1>1 DEF AbortGate, InHand
  <2>3. CASE Send(i) \/ Refuse(i) \/ RecordDecision(i) \/ AcceptFails(i) \/ Cancel(i)
    BY <2>3, <1>1 DEF Send, Refuse, RecordDecision, AcceptFails, Cancel
  <2>4. QED
    BY <1>2, <2>1, <2>2, <2>3 DEF Handler
<1>3. CASE Step
  BY <1>3, <1>1 DEF Step, Park, ParkFails, StepEnds, Apply, Invalidate, ContextFails
<1>4. CASE AtGate
  <2>1. ASSUME NEW c \in Claims, ClaimGate(c) PROVE Heeded(j)'
    BY <2>1, <1>1 DEF ClaimGate, AcceptGate, WaitsAfter, StillWaiting
  <2>2. CASE Dequeue
    BY <2>2, <1>1 DEF Dequeue
  <2>3. CASE Consume
    BY <2>3, <1>1 DEF Consume, IsAbort
  <2>4. CASE YieldAtGate \/ CtxDone \/ ClaimFails
    BY <2>4, <1>1 DEF YieldAtGate, CtxDone, ClaimFails
  <2>5. QED
    BY <1>4, <2>1, <2>2, <2>3, <2>4 DEF AtGate
<1>5. CASE Answer
  BY <1>5 DEF Answer, Dispatch, DispatchFails, AcquireEnds, EndGateWait, ClearGate, FailRun
<1>6. CASE Daemon
  <2>1. CASE Exit \/ Crash
    BY <2>1 DEF Exit, Crash, Down
  <2>2. CASE Register \/ FailStale \/ Shutdown \/ BeginResume \/ ResumeFails \/ ResumeEnds \/ Recheck
    BY <2>2, <1>1 DEF Register, FailStale, Shutdown, BeginResume, ResumeFails, ResumeEnds, Recheck
  <2>3. CASE Resume
    BY <2>3, <1>1 DEF Resume, Recovered
  <2>4. CASE ResumeInvalidated
    BY <2>4 DEF ResumeInvalidated, Dropped
  <2>5. QED
    BY <1>6, <2>1, <2>2, <2>3, <2>4 DEF Daemon
<1>7. CASE Grant \/ UNCHANGED vars
  BY <1>7, <1>1 DEF Grant, vars
<1>8. QED
  BY <1>2, <1>3, <1>4, <1>5, <1>6, <1>7 DEF Next

\* What becomes a stop request is an abort that the executor was handed, or a cancellation.
LEMMA NewStops ==
    ASSUME IInv, [Next]_vars
    PROVE  /\ void \subseteq void'
           /\ \/ stopping' \subseteq stopping /\ (ctx' = "live" => ctx = "live" \/ stopping' = {})
              \/ \E i \in Requests : AbortGate(i) \/ Cancel(i)
<1> USE DEF store, memory, history
<1>1. ASSUME NEW i \in Requests, Handler(i)
      PROVE  AbortGate(i) \/ Cancel(i) \/ UNCHANGED <<void, stopping, ctx>>
  BY <1>1 DEF Handler, Send, Refuse, RecordDecision, Accept, AcceptFails
<1>2. ASSUME NEW i \in Requests, AbortGate(i) \/ Cancel(i) PROVE void' = void
  BY <1>2 DEF AbortGate, Cancel
<1>3. CASE Step
  BY <1>3 DEF Step, Park, ParkFails, StepEnds, Apply, Invalidate, ContextFails
<1>4. CASE AtGate
  BY <1>4 DEF AtGate, YieldAtGate, Dequeue, CtxDone, ClaimGate, ClaimFails, Consume
<1>5. CASE Answer
  BY <1>5 DEF Answer, Dispatch, DispatchFails, AcquireEnds, EndGateWait, ClearGate, FailRun
<1>6. CASE Exit \/ Crash
  BY <1>6 DEF Exit, Crash, Down
<1>7. CASE Shutdown \/ Register \/ FailStale \/ BeginResume \/ Resume \/ ResumeFails \/ ResumeEnds \/ ResumeInvalidated \/ Recheck
  BY <1>7 DEF Shutdown, Register, FailStale, BeginResume, Resume, ResumeFails, ResumeEnds, ResumeInvalidated, Recheck
<1>8. CASE Grant \/ UNCHANGED vars
  BY <1>8 DEF Grant, vars
<1>9. QED
  BY <1>1, <1>2, <1>3, <1>4, <1>5, <1>6, <1>7, <1>8 DEF Next, Daemon

\* Where the executor may be while it takes responses.
LEMMA WaitPlaces ==
    ASSUME IInv, [Next]_vars, waiting',
           waiting => pc \in {"park", "wait", "recovering", "resuming", "stop", "clear", "end"}
    PROVE  pc' \in {"park", "wait", "recovering", "resuming", "stop", "clear", "end"}
<1> USE DEF IInv, Answered, store, memory
<1>1. ASSUME NEW i \in Requests, Handler(i) PROVE pc' = pc /\ waiting
  BY <1>1 DEF Handler, Send, Refuse, RecordDecision, Accept, AcceptGate, WaitsAfter, AcceptFails, AbortGate, Cancel
<1>2. CASE Step
  BY <1>2 DEF Step, Park, ParkFails, StepEnds, Apply, Invalidate, ContextFails
<1>3. CASE AtGate
  BY <1>3 DEF AtGate, YieldAtGate, Dequeue, CtxDone, ClaimGate, AcceptGate, WaitsAfter, ClaimFails, Consume, NeverBlocks
<1>4. CASE Answer
  BY <1>4 DEF Answer, Dispatch, DispatchFails, AcquireEnds, EndGateWait, ClearGate, FailRun, AtSlot
<1>5. CASE Exit \/ Crash
  BY <1>5 DEF Exit, Crash, Down
<1>6. CASE Shutdown \/ Register \/ FailStale \/ BeginResume \/ Resume \/ ResumeFails \/ ResumeEnds \/ ResumeInvalidated \/ Recheck
  BY <1>6 DEF Shutdown, Register, FailStale, BeginResume, Resume, ResumeFails, ResumeEnds, ResumeInvalidated, Recheck,
              Stopped, Recovered
<1>7. CASE Grant \/ UNCHANGED vars
  BY <1>7 DEF Grant, vars
<1>8. QED
  BY <1>1, <1>2, <1>3, <1>4, <1>5, <1>6, <1>7 DEF Next, Daemon

LEMMA StopsStep ==
    ASSUME IInv, IInv', MemoryFits, StopsFit, [Next]_vars
    PROVE  StopsFit'
<1>1. waiting' => pc' \in {"park", "wait", "recovering", "resuming", "stop", "clear", "end"}
  BY WaitPlaces DEF StopsFit
<1>2. ASSUME ctx' = "live", NEW j \in stopping' \ void' PROVE Heeded(j)'
  <2>1. j \in Requests
    BY <1>2 DEF IInv, TypeOK
  <2>2. CASE j \in stopping /\ ctx = "live"
    BY <1>2, <2>1, <2>2, NewStops, HeededStays DEF StopsFit
  <2>3. ASSUME NEW i \in Requests, AbortGate(i), ~(j \in stopping /\ ctx = "live") PROVE Heeded(j)'
    <3>1. j = i /\ pc # "recovering" /\ waiting /\ ~waiting' /\ chan' = i /\ Becomes(i, "accepted") /\ pc' = pc
      BY <1>2, <2>3 DEF AbortGate
    <3>2. req[i] \in [state : ReqStates, kind : Kinds, gate : 0..MaxGates] /\ req[i].kind = "abort"
      BY <2>3 DEF AbortGate, IInv, TypeOK
    <3>3. IsAbort(i)'
      BY <3>1, <3>2 DEF Becomes, IsAbort, IInv, TypeOK
    <3>4. QED
      BY <3>1, <3>3 DEF Heeded, StopsFit
  <2>4. ASSUME NEW i \in Requests, Cancel(i), ~(j \in stopping /\ ctx = "live") PROVE Heeded(j)'
    <3>1. over /\ pc # "off" /\ pc' = pc
      BY <1>2, <2>4 DEF Cancel, Aborted, Up
    <3>2. QED
      BY <3>1 DEF Heeded, MemoryFits, Ended
  <2>5. QED
    BY <1>2, <2>2, <2>3, <2>4, NewStops
<1>3. QED
  BY <1>1, <1>2 DEF StopsFit

LEMMA FitsInit == Init => Fits
<1> SUFFICES ASSUME Init PROVE Fits
  OBVIOUS
<1>1. AnswersFit
  BY DEF Init, AnswersFit
<1>2. MemoryFits
  BY DEF Init, MemoryFits, Ended, MemoryMatchesRow, AtAGate
<1>3. KeptFits
  BY DEF Init, KeptFits, SlotClaimKept
<1>4. StopsFit
  BY DEF Init, StopsFit
<1>5. QED
  BY <1>1, <1>2, <1>3, <1>4 DEF Fits

LEMMA Fitting == Spec => [](IInv /\ Fits)
<1>1. IInv /\ IInv' /\ Fits /\ [Next]_vars => Fits'
  BY AnswersStep, MemoryStep, KeptStep, StopsStep DEF Fits
<1>2. QED
  BY FitsInit, Inductive, <1>1, PTL DEF Spec

\* A response is applied only at the gate that its author saw, through restarts,
\* retargets and any number of later gates.
THEOREM AnswersItsOwn == Spec => []AnswersItsGate
<1>1. IInv /\ Fits => AnswersItsGate
  BY DEF Fits, AnswersFit, AnswersItsGate, Taken
<1>2. QED
  BY Fitting, <1>1, PTL

\* What the executor believes of its gate is what the row says, and a finished run shows
\* no gate, whatever writes fail.
THEOREM MemoryAgrees == Spec => []MemoryMatchesRow
<1>1. IInv /\ Fits => MemoryMatchesRow
  BY DEF Fits, MemoryFits
<1>2. QED
  BY Fitting, <1>1, PTL

\* No accepted answer is forgotten, and its run does not lose its place in the line for a
\* slot, through shutdowns, crashes and recoveries.
THEOREM NothingForgotten == Spec => []AcceptedKept
<1>1. IInv /\ Fits => AcceptedKept
  BY DEF Fits, KeptFits, AcceptedKept, GivesUp, Recoverable
<1>2. QED
  BY Fitting, <1>1, PTL

\* Once this daemon has accepted an abort or a cancellation, no answer is dispatched, but
\* for an abort that a recovery dropped with its gate because the PR had moved: that one is
\* acknowledged and has no effect, which is the executor's behaviour, and the only exception.
THEOREM AbortsWin == Spec => AbortWins
<1> DEFINE Won == DispatchStep => stopping \subseteq void
<1>1. ASSUME IInv, Fits, [Next]_vars PROVE Won
  <2> SUFFICES ASSUME row.status = "parked", pc' = "go"
               PROVE  stopping \subseteq void
    BY DEF DispatchStep
  <2>1. pc # "go"
    BY <1>1 DEF IInv, Going
  <2>2. Dispatch
    BY <1>1, <2>1, GoKept
  <2>3. pc = "slot" /\ ctx = "live"
    BY <2>2 DEF Dispatch, StillLive
  <2>4. QED
    BY <1>1, <2>3 DEF Fits, StopsFit, Heeded
<1>2. ASSUME IInv, Fits, [Next]_vars PROVE [Won]_vars
  BY <1>1, <1>2
<1>3. QED
  BY Fitting, <1>2, PTL DEF Spec, AbortWins

----------------------------------------------------------------------------
(* The selections of fix responses.                                           *)

\* A selection is of a fix response that named the gate it is recorded at; what reached
\* a fixer was applied at that gate; and neither was refused while no write has failed
\* and no daemon has stopped.
Decided(i) == req[i].kind = "fix" /\ req[i].state \in {"recorded", "accepted", "refused"}
FixedAtGate(i) == \E a \in applied : a.gate = req[i].gate /\ IsFix(a.by)
NoTrouble == faults = 0 /\ stops = 0
SelectionFits ==
    /\ waiting => gate = row.gate
    /\ \A i \in selected : Decided(i) /\ req[i].gate = row.gate
    /\ \A i \in fixed : Decided(i) /\ FixedAtGate(i)
    /\ NoTrouble => (\A i \in selected : req[i].state # "refused") /\ (\A i \in fixed : req[i].state = "accepted")

\* A decided response keeps its kind and its gate, and is refused only in trouble.
LEMMA DecidedStays ==
    ASSUME IInv, [Next]_vars, NEW j \in Requests, Decided(j)
    PROVE  /\ Decided(j)' /\ req'[j].gate = req[j].gate /\ req'[j].kind = req[j].kind
           /\ req[j].state = "accepted" => req'[j].state = "accepted"
           /\ NoTrouble' => NoTrouble /\ (req'[j].state = "refused" => req[j].state = "refused")
<1> USE DEF IInv, TypeOK, Decided, NoTrouble
<1>0. /\ req[j] \in [state : ReqStates, kind : Kinds, gate : 0..MaxGates]
      /\ stops \in Nat /\ faults \in Nat
  OBVIOUS
<1>1. ASSUME NEW i \in Requests, Handler(i)
      PROVE  /\ UNCHANGED stops /\ (faults' = faults \/ (AcceptFails(i) /\ faults' = faults + 1))
             /\ \/ req'[j] = req[j]
                \/ i = j /\ \/ req[j].state = "recorded" /\ req' = [req EXCEPT ![j].state = "accepted"]
                            \/ req[j].state = "recorded" /\ req' = [req EXCEPT ![j].state = "refused"] /\ faults' = faults + 1
  <2>1. CASE Send(i)
    BY <2>1 DEF Send, bounds
  <2>2. CASE Refuse(i)
    BY <2>2 DEF Refuse, Becomes, bounds
  <2>3. CASE RecordDecision(i)
    BY <2>3 DEF RecordDecision, Becomes, bounds
  <2>4. CASE Accept(i)
    BY <2>4 DEF Accept, Becomes, bounds
  <2>5. CASE AcceptFails(i)
    BY <2>5 DEF AcceptFails, Becomes, Fault
  <2>6. CASE AbortGate(i)
    BY <2>6 DEF AbortGate, Becomes, bounds
  <2>7. CASE Cancel(i)
    BY <2>7 DEF Cancel, Becomes, bounds
  <2> QED BY <1>1, <2>1, <2>2, <2>3, <2>4, <2>5, <2>6, <2>7 DEF Handler
<1>2. CASE \E i \in Requests : Handler(i)
  BY <1>0, <1>1, <1>2
<1>3. CASE Crash
  <2>1. stops' = stops + 1 /\ Down
    BY <1>3 DEF Crash
  <2>2. /\ req'[j].gate = req[j].gate /\ req'[j].kind = req[j].kind
        /\ req'[j].state = req[j].state \/ (req[j].state = "recorded" /\ req'[j].state = "refused")
    BY <1>0, <2>1 DEF Down
  <2> QED BY <1>0, <2>1, <2>2
<1>4. CASE Exit
  <2>1. UNCHANGED <<stops, faults>> /\ Down /\ ~Locked
    BY <1>4 DEF Exit, bounds
  <2>2. req[j].state \in {"accepted", "refused"}
    BY <2>1 DEF Locked
  <2>3. req'[j] = req[j]
    BY <2>1, <2>2 DEF Down
  <2> QED BY <2>1, <2>3
<1>5. CASE UNCHANGED req /\ (UNCHANGED bounds \/ stops' = stops + 1 \/ (stops' = stops /\ faults' = faults + 1))
  BY <1>0, <1>5 DEF bounds
<1>6. CASE Step
  BY <1>5, <1>6 DEF Step, Park, ParkFails, StepEnds, Apply, Invalidate, ContextFails, Fault, bounds
<1>7. CASE AtGate
  BY <1>5, <1>7 DEF AtGate, YieldAtGate, Dequeue, CtxDone, ClaimGate, ClaimFails, Consume, Fault, bounds
<1>8. CASE Answer
  BY <1>5, <1>8 DEF Answer, Dispatch, DispatchFails, AcquireEnds, EndGateWait, ClearGate, FailRun, Fault, bounds
<1>9. CASE Shutdown \/ Register \/ FailStale \/ BeginResume \/ Resume \/ ResumeFails \/ ResumeEnds \/ ResumeInvalidated \/ Recheck
  BY <1>5, <1>9 DEF Shutdown, Register, FailStale, BeginResume, Resume, ResumeFails, ResumeEnds, ResumeInvalidated, Recheck, bounds
<1>10. CASE Grant \/ UNCHANGED vars
  BY <1>5, <1>10 DEF Grant, vars, bounds
<1> QED BY <1>2, <1>3, <1>4, <1>6, <1>7, <1>8, <1>9, <1>10 DEF Next, Daemon

\* Who writes a selection, sends it to a fixer, or moves the gate.
LEMMA SelectionMoves ==
    ASSUME IInv, waiting => gate = row.gate, [Next]_vars
    PROVE  /\ waiting' => gate' = row'.gate
           /\ \/ UNCHANGED <<selected, fixed>> /\ row'.gate = row.gate /\ applied \subseteq applied'
              \/ Park
              \/ \E i \in Requests : RecordDecision(i) /\ row'.gate = row.gate
              \/ Apply /\ row'.gate = row.gate
<1> USE Constants DEF IInv, TypeOK, store, memory, history
<1>0. row \in Rows
  OBVIOUS
<1>1. ASSUME NEW i \in Requests, Handler(i)
      PROVE  /\ UNCHANGED <<gate, fixed, applied>> /\ row'.gate = row.gate /\ (waiting' => waiting)
             /\ selected' = selected \/ RecordDecision(i)
  <2>1. CASE Accept(i)
    BY <1>0, <2>1 DEF Accept, AcceptGate, WaitsAfter, Rows
  <2>2. CASE AbortGate(i)
    BY <2>2 DEF AbortGate
  <2>3. CASE Send(i) \/ Refuse(i) \/ RecordDecision(i) \/ AcceptFails(i) \/ Cancel(i)
    BY <2>3 DEF Send, Refuse, RecordDecision, AcceptFails, Cancel
  <2> QED BY <1>1, <2>1, <2>2, <2>3 DEF Handler
<1>2. CASE \E i \in Requests : Handler(i)
  BY <1>1, <1>2
<1>3. CASE Step
  <2>1. CASE Park
    BY <1>0, <2>1 DEF Park, Rows
  <2>2. CASE Apply
    BY <1>0, <2>2 DEF Apply, Rows
  <2>3. CASE ParkFails \/ StepEnds \/ Invalidate \/ ContextFails
    BY <1>0, <2>3 DEF ParkFails, StepEnds, Invalidate, ContextFails, Rows
  <2> QED BY <1>3, <2>1, <2>2, <2>3 DEF Step
<1>4. CASE AtGate
  <2>1. ASSUME NEW c \in Claims, ClaimGate(c)
        PROVE  /\ UNCHANGED <<selected, fixed, applied>> /\ row'.gate = row.gate /\ ~waiting'
    BY <1>0, <2>1 DEF ClaimGate, AcceptGate, WaitsAfter, Rows
  <2>2. CASE YieldAtGate \/ Dequeue \/ CtxDone \/ ClaimFails \/ Consume
    BY <2>2 DEF YieldAtGate, Dequeue, CtxDone, ClaimFails, Consume
  <2> QED BY <1>4, <2>1, <2>2 DEF AtGate
<1>5. CASE Answer
  <2>1. CASE Dispatch \/ DispatchFails
    <3>1. /\ UNCHANGED <<waiting, gate, selected, fixed, applied>>
          /\ \/ row' = [row EXCEPT !.status = "running", !.pending = None, !.awaiting = FALSE]
             \/ row' = [row EXCEPT !.awaiting = FALSE]
      BY <2>1 DEF Dispatch, DispatchFails
    <3>2. row'.gate = row.gate
      BY <1>0, <3>1 DEF Rows
    <3> QED BY <3>1, <3>2
  <2>2. CASE AcquireEnds
    BY <1>0, <2>2 DEF AcquireEnds, Rows
  <2>3. CASE EndGateWait
    <3>1. /\ UNCHANGED <<waiting, gate, selected, fixed, applied>>
          /\ row' = row \/ row' = [row EXCEPT !.awaiting = FALSE]
      BY <2>3 DEF EndGateWait, MarkerCleared
    <3>2. row'.gate = row.gate
      BY <1>0, <3>1 DEF Rows
    <3> QED BY <3>1, <3>2
  <2>4. CASE ClearGate \/ FailRun
    <3>1. /\ UNCHANGED <<gate, selected, fixed, applied>> /\ (waiting' => waiting)
          /\ row' = row \/ row' = [row EXCEPT !.status = "failed", !.pending = None]
      BY <2>4 DEF ClearGate, FailRun
    <3>2. row'.gate = row.gate
      BY <1>0, <3>1 DEF Rows
    <3> QED BY <3>1, <3>2
  <2> QED BY <1>5, <2>1, <2>2, <2>3, <2>4 DEF Answer
<1>6. CASE Daemon
  <2>1. CASE Exit \/ Crash
    BY <2>1 DEF Exit, Crash, Down
  <2>2. CASE Register
    BY <2>2 DEF Register
  <2>5. CASE FailStale
    <3>1. row'.gate = row.gate
      BY <1>0, <2>5 DEF FailStale, Rows
    <3>2. UNCHANGED <<waiting, gate, selected, fixed, applied>>
      BY <2>5 DEF FailStale
    <3> QED BY <3>1, <3>2
  <2>3. CASE ResumeInvalidated
    BY <1>0, <2>3 DEF ResumeInvalidated, Rows
  <2>4. CASE Shutdown \/ BeginResume \/ Resume \/ ResumeFails \/ ResumeEnds \/ Recheck
    BY <2>4 DEF Shutdown, BeginResume, Resume, ResumeFails, ResumeEnds, Recheck
  <2> QED BY <1>6, <2>1, <2>2, <2>3, <2>4, <2>5 DEF Daemon
<1>7. CASE Grant \/ UNCHANGED vars
  BY <1>7 DEF Grant, vars
<1> QED BY <1>2, <1>3, <1>4, <1>5, <1>6, <1>7 DEF Next

LEMMA SelectionStep ==
    ASSUME IInv, Fits, SelectionFits, [Next]_vars
    PROVE  SelectionFits'
<1>1. /\ waiting' => gate' = row'.gate
      /\ \/ UNCHANGED <<selected, fixed>> /\ row'.gate = row.gate /\ applied \subseteq applied'
         \/ Park
         \/ \E i \in Requests : RecordDecision(i) /\ row'.gate = row.gate
         \/ Apply /\ row'.gate = row.gate
  BY SelectionMoves DEF SelectionFits
<1>2. selected \subseteq Requests /\ fixed \subseteq Requests
  BY DEF IInv, TypeOK
<1>3. ASSUME NEW i \in selected
      PROVE  /\ i \in Requests /\ Decided(i)' /\ req'[i].gate = row.gate
             /\ NoTrouble' => req'[i].state # "refused"
  <2>1. i \in Requests /\ Decided(i) /\ req[i].gate = row.gate /\ (NoTrouble => req[i].state # "refused")
    BY <1>2, <1>3 DEF SelectionFits
  <2> QED BY <2>1, DecidedStays
<1>4. ASSUME applied \subseteq applied', NEW i \in fixed
      PROVE  Decided(i)' /\ FixedAtGate(i)' /\ (NoTrouble' => req'[i].state = "accepted")
  <2>1. i \in Requests /\ Decided(i) /\ FixedAtGate(i) /\ (NoTrouble => req[i].state = "accepted")
    BY <1>2, <1>4 DEF SelectionFits
  <2>2. /\ Decided(i)' /\ req'[i].gate = req[i].gate
        /\ NoTrouble' => req'[i].state = "accepted"
    BY <2>1, DecidedStays
  <2>3. PICK a \in applied : a.gate = req[i].gate /\ IsFix(a.by)
    BY <2>1 DEF FixedAtGate
  <2>4. a.by \in Requests /\ req[a.by].state = "accepted" /\ req[a.by].kind = "fix"
    BY <2>3 DEF IsFix, Fits, AnswersFit, Taken
  <2>5. req'[a.by] = req[a.by]
    BY <2>4, AcceptedStays
  <2>6. IsFix(a.by)'
    BY <2>4, <2>5 DEF IsFix
  <2>7. a \in applied' /\ a.gate = req'[i].gate
    BY <1>4, <2>2, <2>3
  <2> QED BY <2>2, <2>6, <2>7 DEF FixedAtGate
<1>5. CASE UNCHANGED <<selected, fixed>> /\ row'.gate = row.gate /\ applied \subseteq applied'
  BY <1>1, <1>3, <1>4, <1>5 DEF SelectionFits
<1>6. CASE Park
  <2>1. selected' = {} /\ fixed' = fixed /\ applied' = applied
    BY <1>6 DEF Park, history
  <2> QED BY <1>1, <1>4, <2>1 DEF SelectionFits
<1>7. ASSUME NEW i \in Requests, RecordDecision(i), row'.gate = row.gate
      PROVE  SelectionFits'
  <2>1. /\ selected' = selected \cup {i} /\ fixed' = fixed /\ applied' = applied
        /\ waiting /\ req[i].gate = gate /\ req[i].kind = "fix" /\ req' = [req EXCEPT ![i].state = "recorded"]
    BY <1>7 DEF RecordDecision, AtItsGate, Becomes, history
  <2>2. req'[i].state = "recorded" /\ req'[i].kind = "fix" /\ req'[i].gate = row.gate
    BY <2>1 DEF SelectionFits, IInv, TypeOK
  <2>3. Decided(i)'
    BY <2>2 DEF Decided
  <2> QED BY <1>1, <1>3, <1>4, <1>7, <2>1, <2>2, <2>3 DEF SelectionFits
<1>8. CASE Apply /\ row'.gate = row.gate
  <2>1. /\ pc = "go" /\ applied' = applied \cup {[gate |-> gate, by |-> mine]}
        /\ fixed' = IF IsFix(mine) THEN fixed \cup selected ELSE fixed
        /\ selected' = selected /\ req' = req /\ UNCHANGED bounds
    BY <1>8 DEF Apply
  <2>2. gate = row.gate /\ ~waiting
    BY <2>1 DEF IInv, Going, Fits, StopsFit
  <2>3. ASSUME NEW i \in selected, IsFix(mine)
        PROVE  Decided(i)' /\ FixedAtGate(i)' /\ (NoTrouble' => req'[i].state = "accepted")
    <3>1. i \in Requests /\ Decided(i)' /\ req'[i].gate = gate /\ (NoTrouble' => req'[i].state # "refused")
      BY <1>3, <2>2, <2>3
    <3>2. req[i].state # "recorded"
      BY <2>2, <3>1 DEF IInv, DecisionHeld
    <3>3. [gate |-> gate, by |-> mine] \in applied' /\ mine \in Requests /\ req'[mine].kind = "fix"
      BY <2>1, <2>3 DEF IsFix
    <3>4. FixedAtGate(i)'
      <4>1. PICK a : a = [gate |-> gate, by |-> mine]
        OBVIOUS
      <4>2. a \in applied' /\ a.gate = req'[i].gate /\ a.by \in Requests /\ req'[a.by].kind = "fix"
        BY <3>1, <3>3, <4>1
      <4> QED BY <4>2 DEF FixedAtGate, IsFix
    <3> QED BY <2>1, <3>1, <3>2, <3>4 DEF Decided
  <2>4. ASSUME NEW i \in fixed'
        PROVE  Decided(i)' /\ FixedAtGate(i)' /\ (NoTrouble' => req'[i].state = "accepted")
    <3>1. i \in fixed \/ (i \in selected /\ IsFix(mine))
      BY <2>1, <2>4
    <3>2. applied \subseteq applied'
      BY <2>1
    <3> QED BY <1>4, <2>3, <3>1, <3>2
  <2> QED BY <1>1, <1>3, <1>8, <2>1, <2>4 DEF SelectionFits
<1> QED BY <1>1, <1>5, <1>6, <1>7, <1>8

LEMMA Selections == Spec => []SelectionFits
<1>1. Init => SelectionFits
  BY DEF Init, SelectionFits
<1>2. IInv /\ Fits /\ SelectionFits /\ [Next]_vars => SelectionFits'
  BY SelectionStep
<1> QED BY Fitting, <1>1, <1>2, PTL DEF Spec

\* A selection never leaves its gate: whatever is refused, retried or recovered, what
\* reaches a fixer was chosen by a fix response to the very gate at which a fix response
\* was applied (persistResponseDecision writes into the round of the gate it validated, and
\* restorePendingDecision reads the decision of that round only).
THEOREM SelectionsStay ==
    Spec => [](\A i \in fixed : req[i].kind = "fix" /\ FixedAtGate(i))
<1>1. SelectionFits => \A i \in fixed : req[i].kind = "fix" /\ FixedAtGate(i)
  BY DEF SelectionFits, Decided
<1> QED BY Selections, <1>1, PTL

\* "Every item in it was chosen by a response the daemon accepted" (restorePendingDecision)
\* is true as long as no write is refused and no daemon stops, however responses, aborts,
\* ticks and cancellations race.
THEOREM AcceptedUnlessTrouble == Spec => [](NoTrouble => AppliedWasAccepted)
<1>1. SelectionFits => (NoTrouble => AppliedWasAccepted)
  BY DEF SelectionFits, AppliedWasAccepted
<1> QED BY Selections, <1>1, PTL
=============================================================================
