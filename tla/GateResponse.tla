---------------------------- MODULE GateResponse ----------------------------
(***************************************************************************)
(* One pipeline step at its approval gates: the executor goroutine that    *)
(* parks and waits (internal/pipeline/executor.go, gate_identity.go), the  *)
(* RPC handlers that answer it (slot.go, daemon/manager.go), the rows they *)
(* share in SQLite (db/step.go), and the daemon that stops, crashes and    *)
(* recovers the gate.  A critical section under Executor.mu is one action; *)
(* the lock is a state of its own only inside a fix response, which writes *)
(* its decision first and is accepted by a second write.                   *)
(*                                                                         *)
(* Gates are numbered: the number stands for the nonce that               *)
(* ParkStepForApproval mints, and for the round that the gate belongs to.  *)
(* The rest of the pipeline is abstract: when the step is done, so is the  *)
(* run.                                                                    *)
(***************************************************************************)
EXTENDS Integers, FiniteSets

CONSTANTS
    Requests,    \* responses and cancellations that clients send
    None,        \* no request
    MaxGates,    \* bound: gates opened
    MaxStops,    \* bound: shutdowns and crashes of the daemon
    MaxFaults,   \* bound: writes refused by a contended database
    MaxEvents    \* bound: gates, stops and faults together

Kinds  == {"approve", "fix", "answer", "abort", "cancel"}
Claims == {"reconcile", "resume"}         \* made by the executor's own ticks

ASSUME GateAssumption ==
    /\ None \notin Requests /\ Requests \cap Claims = {} /\ None \notin Claims
    /\ {MaxGates, MaxStops, MaxFaults, MaxEvents} \subseteq Nat

VARIABLES
    row,          \* the step's row, with the run's awaiting_agent_since
    over,         \* the run's row is terminal
    selected,     \* the fix responses whose selection the round's row records
    pc,           \* where the run's goroutine is; "off" when there is no daemon
    waiting,      \* Executor.waiting
    gate,         \* Executor.gate
    chan,         \* Executor.approvalCh, of capacity one
    answered,     \* Executor.slotWaitStep is set
    mine,         \* the response or claim in the goroutine's hands
    ctx,          \* the run's context: live, aborted or shutdown
    slot,         \* the run's slot: held, yielded or reserved
    req,          \* the clients' requests
    applied,      \* history: the claims applied, each with its gate
    fixed,        \* history: the fix responses whose selection reached a fixer
    void,         \* history: the claims, and the aborts, dropped because the PR moved
    stopping,     \* history: the aborts and cancellations that this daemon has accepted
    stops, faults \* the bounded events so far

store   == <<row, over, selected>>
memory  == <<waiting, gate, chan, answered>>
history == <<applied, fixed, void>>
bounds  == <<stops, faults>>
vars == <<store, pc, memory, mine, ctx, slot, req, history, stopping, bounds>>

Init ==
    /\ row = [status |-> "running", gate |-> 0, pending |-> None, awaiting |-> FALSE]
    /\ over = FALSE /\ selected = {}
    /\ pc = "run" /\ waiting = FALSE /\ gate = 0 /\ chan = None /\ answered = FALSE
    /\ mine = None /\ ctx = "live" /\ slot = "held"
    /\ req = [i \in Requests |-> [state |-> "new", kind |-> "approve", gate |-> 0]]
    /\ applied = {} /\ fixed = {} /\ void = {} /\ stopping = {}
    /\ stops = 0 /\ faults = 0

----------------------------------------------------------------------------
Up == pc # "off"
Locked == \E i \in Requests : req[i].state = "recorded"
Becomes(i, state) == req' = [req EXCEPT ![i].state = state]
Exhausted == row.gate + stops + faults >= MaxEvents
Fault == ~Exhausted /\ faults < MaxFaults /\ faults' = faults + 1
Reserved(s) == IF s = "yielded" THEN "reserved" ELSE s
Aborted(c)  == IF c = "live" THEN "aborted" ELSE c

\* A client answers the gate it sees; an abort or a cancellation names none.
Send(i) ==
    /\ req[i].state = "new" /\ ~over
    /\ \E k \in Kinds :
        /\ k \in {"approve", "fix", "answer"} => row.gate > 0
        /\ req' = [req EXCEPT ![i] = [state |-> "sent", kind |-> k, gate |-> row.gate]]
    /\ UNCHANGED <<store, pc, memory, mine, ctx, slot, history, stopping, bounds>>

\* Refused: another gate is parked, none is, the policy forbids the response, or
\* the daemon is gone.  The gate stays as it was.
Refuse(i) ==
    /\ req[i].state = "sent" /\ ~Locked
    /\ Becomes(i, "refused")
    /\ UNCHANGED <<store, pc, memory, mine, ctx, slot, history, stopping, bounds>>

\* validateGateLocked: the executor waits at the gate that the response names.
AnyGate(i) == waiting                               \* mutant of AtItsGate
AtItsGate(i) == waiting /\ req[i].gate = gate
Parked == row.status = "parked" /\ row.pending = None /\ row.gate = gate

\* A fix response writes its decision into the round, over what is recorded there.
RecordDecision(i) ==
    /\ Up /\ ~Locked /\ req[i].state = "sent" /\ req[i].kind = "fix"
    /\ AtItsGate(i)
    /\ selected' = selected \cup {i}
    /\ Becomes(i, "recorded")
    /\ UNCHANGED <<row, over, pc, memory, mine, ctx, slot, history, stopping, bounds>>

\* acceptApprovalGate: the claim is recorded beside the parked gate, and the run
\* reserves its slot.
NotReserved(s) == s                                 \* mutant of ReservedAtAccept
ReservedAtAccept(s) == Reserved(s)
RecordedLate(c) == None                             \* mutant of Recorded
Recorded(c) == c
WaitsAfter == FALSE
AcceptGate(c) ==
    /\ Parked
    /\ row' = [row EXCEPT !.pending = Recorded(c)]
    /\ slot' = ReservedAtAccept(slot)
    /\ answered' = TRUE /\ waiting' = WaitsAfter

Accept(i) ==
    /\ Up
    /\ \/ req[i].state = "recorded"
       \/ /\ ~Locked /\ req[i].state = "sent" /\ req[i].kind \in {"approve", "answer"}
          /\ AtItsGate(i)
    /\ AcceptGate(i)
    /\ chan' = i
    /\ Becomes(i, "accepted")
    /\ UNCHANGED <<over, selected, pc, gate, mine, ctx, history, stopping, bounds>>

\* SetStepPendingResponse fails: the client gets the error, the decision stays.
AcceptFails(i) ==
    /\ Up /\ req[i].state = "recorded" /\ Fault
    /\ Becomes(i, "refused")
    /\ UNCHANGED <<store, pc, memory, mine, ctx, slot, history, stopping, stops>>

\* An abort is a response of a waiting gate; once the gate is answered, or while its
\* run waits for its slot to be recovered (ownershipRecoveringGate), it cancels the run.
AbortGate(i) ==
    /\ Up /\ ~Locked /\ req[i].state = "sent" /\ req[i].kind = "abort"
    /\ IF pc = "recovering" \/ (~waiting /\ answered)
       THEN Becomes(i, "cancelling") /\ UNCHANGED <<waiting, chan, stopping>>
       ELSE /\ waiting
            /\ chan' = i /\ waiting' = FALSE
            /\ Becomes(i, "accepted") /\ stopping' = stopping \cup {i}
    /\ UNCHANGED <<store, pc, gate, answered, mine, ctx, slot, history, bounds>>

\* HandleCancel, cancelManagedRun: the first cause wins, a decided run is left alone.
Cancel(i) ==
    /\ Up
    /\ req[i].state = "cancelling" \/ (req[i].state = "sent" /\ req[i].kind = "cancel")
    /\ ctx' = IF over THEN ctx ELSE Aborted(ctx)
    /\ Becomes(i, "accepted") /\ stopping' = stopping \cup {i}
    /\ UNCHANGED <<store, pc, memory, mine, slot, history, bounds>>

----------------------------------------------------------------------------
\* executeStep parks: the gate is published under the lock, and then the goroutine
\* gives its slot back, unless the gate has been answered meanwhile.
Park ==
    /\ pc = "run" /\ ctx = "live" /\ ~Locked /\ row.gate < MaxGates /\ ~Exhausted
    /\ row' = [status |-> "parked", gate |-> row.gate + 1, pending |-> None, awaiting |-> TRUE]
    /\ selected' = {}
    /\ waiting' = TRUE /\ gate' = row.gate + 1 /\ chan' = None
    /\ pc' = "park"
    /\ UNCHANGED <<over, answered, mine, ctx, slot, req, history, stopping, bounds>>

ParkFails ==
    /\ pc = "run" /\ Fault /\ pc' = "stop"
    /\ UNCHANGED <<store, memory, mine, ctx, slot, req, history, stopping, stops>>

\* The step passes without a gate, or its context ends while it executes.
StepEnds ==
    /\ pc = "run"
    /\ \/ /\ row' = [row EXCEPT !.status = "completed"]
          /\ over' = TRUE /\ pc' = "end"
       \/ ctx # "live" /\ pc' = "stop" /\ UNCHANGED <<row, over>>
    /\ UNCHANGED <<selected, memory, mine, ctx, slot, req, history, stopping, bounds>>

MayYield == ~answered
YieldAtGate ==
    /\ pc = "park" /\ ~Locked
    /\ slot' = IF MayYield THEN "yielded" ELSE slot
    /\ pc' = "wait"
    /\ UNCHANGED <<store, memory, mine, ctx, req, history, stopping, bounds>>

\* waitForApprovalOrReconcile: a response, the end of the context, or a tick that
\* finds the gate obsolete (reconcile) or answerable (resume).
Dequeue ==
    /\ pc = "wait" /\ chan # None
    /\ mine' = chan /\ chan' = None /\ pc' = "hand"
    /\ UNCHANGED <<store, waiting, gate, answered, ctx, slot, req, history, stopping, bounds>>

CtxDone ==
    /\ pc = "wait" /\ ctx # "live" /\ ~Locked
    /\ waiting' = FALSE /\ chan' = None
    /\ pc' = IF ctx = "shutdown" THEN "end" ELSE "stop"
    /\ UNCHANGED <<store, gate, answered, mine, ctx, slot, req, history, stopping, bounds>>

StillWaiting == waiting
ClaimGate(c) ==
    /\ pc = "wait" /\ ~Locked /\ StillWaiting
    /\ AcceptGate(c)
    /\ mine' = c /\ pc' = "slot"
    /\ UNCHANGED <<over, selected, gate, chan, ctx, req, history, stopping, bounds>>

ClaimFails ==
    /\ pc = "wait" /\ waiting /\ ~Locked /\ Fault
    /\ pc' = "stop"
    /\ UNCHANGED <<store, memory, mine, ctx, slot, req, history, stopping, stops>>

\* consumeApprovalResponse: an abort, or a response to the gate in memory.
Consume ==
    /\ pc = "hand" /\ ~Locked
    /\ waiting' = FALSE /\ chan' = None
    /\ pc' = IF mine \in Requests /\ req[mine].kind = "abort" THEN "stop" ELSE "slot"
    /\ UNCHANGED <<store, gate, answered, mine, ctx, slot, req, history, stopping, bounds>>

----------------------------------------------------------------------------
\* The scheduler grants the reserved slot.
Grant ==
    /\ slot = "reserved" /\ slot' = "held"
    /\ UNCHANGED <<store, pc, memory, mine, ctx, req, history, stopping, bounds>>

\* acquireAnsweredGateSlot: with the slot, and a live context, dispatch begins in
\* one transaction; ResumeStepFromApproval may fail.
GrantedAnyway == TRUE                               \* mutant of StillLive
StillLive == ctx = "live"
Dispatch ==
    /\ pc = "slot" /\ slot = "held" /\ ~Locked /\ StillLive
    /\ row.status = "parked" /\ row.pending # None /\ row.gate = gate
    /\ row' = [row EXCEPT !.status = "running", !.pending = None, !.awaiting = FALSE]
    /\ answered' = FALSE /\ pc' = "go"
    /\ UNCHANGED <<over, selected, waiting, gate, chan, mine, ctx, slot, req, history, stopping, bounds>>

DispatchFails ==
    /\ pc = "slot" /\ slot = "held" /\ ~Locked /\ ctx = "live" /\ Fault
    /\ row' = [row EXCEPT !.awaiting = FALSE]
    /\ answered' = FALSE /\ pc' = "stop"
    /\ UNCHANGED <<over, selected, waiting, gate, chan, mine, ctx, slot, req, history, stopping, stops>>

\* The context ended before dispatch: a shutdown leaves the gate parked with its
\* recorded response, an abort ends the wait.
AcquireEnds ==
    /\ pc \in {"slot", "recheck"} /\ ctx # "live" /\ ~Locked
    /\ answered' = FALSE
    /\ IF ctx = "shutdown" THEN pc' = "end" /\ row' = row
                           ELSE pc' = "stop" /\ row' = [row EXCEPT !.awaiting = FALSE]
    /\ UNCHANGED <<over, selected, waiting, gate, chan, mine, ctx, slot, req, history, stopping, bounds>>

----------------------------------------------------------------------------
\* After dispatch: an approval or a reconciled gate completes the step, a fix and
\* an answer run it again, and so may a gate reconciled to a merged PR.
Completes(c) == c = "reconcile" \/ (c \in Requests /\ req[c].kind = "approve")
Reruns(c)    == ~Completes(c) \/ c = "reconcile"
IsFix(c)     == c \in Requests /\ req[c].kind = "fix"
Apply ==
    /\ pc = "go"
    /\ applied' = applied \cup {[gate |-> gate, by |-> mine]}
    /\ fixed' = IF IsFix(mine) THEN fixed \cup selected ELSE fixed
    /\ mine' = None
    /\ \/ /\ Completes(mine)
          /\ row' = [row EXCEPT !.status = "completed"] /\ over' = TRUE /\ pc' = "end"
       \/ /\ Reruns(mine)
          /\ row' = [row EXCEPT !.status = IF IsFix(mine) THEN "fixing" ELSE "running"]
          /\ over' = over /\ pc' = "run"
    /\ UNCHANGED <<selected, memory, ctx, slot, req, void, stopping, bounds>>

\* checkPRContext: the PR was retargeted, so the response has no authority and the
\* step runs again; or the check fails, and with it the run.
Invalidate ==
    /\ pc = "go"
    /\ void' = void \cup {mine} /\ mine' = None /\ pc' = "run"
    /\ UNCHANGED <<store, memory, ctx, slot, req, applied, fixed, stopping, bounds>>

ContextFails ==
    /\ pc = "go" /\ pc' = "stop"
    /\ UNCHANGED <<store, memory, mine, ctx, slot, req, history, stopping, bounds>>

\* endGateWait clears the run's marker, or logs that it could not; then
\* clearApprovalGate, then FailStep and FailRun.
MarkerCleared(marker) == FALSE
EndGateWait ==
    /\ pc = "stop" /\ ~Locked
    /\ \/ row' = [row EXCEPT !.awaiting = MarkerCleared(@)] /\ faults' = faults
       \/ row' = row /\ Fault
    /\ answered' = FALSE /\ pc' = "clear"
    /\ UNCHANGED <<over, selected, waiting, gate, chan, mine, ctx, slot, req, history, stopping, stops>>

ClearGate ==
    /\ pc = "clear" /\ ~Locked
    /\ waiting' = FALSE /\ chan' = None
    /\ pc' = "fail"
    /\ UNCHANGED <<store, gate, answered, mine, ctx, slot, req, history, stopping, bounds>>

FailRun ==
    /\ pc = "fail"
    /\ row' = [row EXCEPT !.status = "failed", !.pending = None]
    /\ over' = TRUE /\ pc' = "end" /\ mine' = None
    /\ UNCHANGED <<selected, memory, ctx, slot, req, history, stopping, bounds>>

----------------------------------------------------------------------------
\* The daemon is told to stop, or dies.
Shutdown ==
    /\ Up /\ ctx = "live" /\ stops < MaxStops /\ ~Exhausted
    /\ ctx' = "shutdown" /\ stops' = stops + 1
    /\ UNCHANGED <<store, pc, memory, mine, slot, req, history, stopping, faults>>

Down ==
    /\ pc' = "off"
    /\ waiting' = FALSE /\ gate' = 0 /\ chan' = None /\ answered' = FALSE
    /\ mine' = None /\ slot' = "yielded" /\ ctx' = "live" /\ stopping' = {}
    /\ req' = [i \in Requests |-> IF req[i].state \in {"sent", "recorded", "cancelling"}
                                  THEN [req[i] EXCEPT !.state = "refused"] ELSE req[i]]
    /\ UNCHANGED <<store, history>>

Exit  == pc = "end" /\ ctx = "shutdown" /\ ~Locked /\ Down /\ UNCHANGED bounds
Crash == Up /\ stops < MaxStops /\ ~Exhausted /\ Down /\ stops' = stops + 1 /\ faults' = faults

\* RegisterRecoveredGate takes a parked gate back as it was left: waiting, or
\* answered.  Any other unfinished run, or one that cannot be prepared, is failed.
Recoverable == row.status = "parked" /\ row.awaiting
TakesOver(c) == IF c = None THEN c ELSE "resume"    \* mutant of Restored
Restored(c) == c
WaitsAnyway(c) == TRUE                              \* mutant of WaitsAgain
WaitsAgain(c) == c = None
Register ==
    /\ pc = "off" /\ ~over /\ Recoverable
    /\ gate' = row.gate /\ slot' = "reserved" /\ pc' = "recovering"
    /\ mine' = Restored(row.pending)
    /\ waiting' = WaitsAgain(row.pending) /\ answered' = (row.pending # None)
    /\ UNCHANGED <<store, chan, ctx, req, history, stopping, bounds>>

FailStale ==
    /\ pc = "off"
    /\ row' = IF over THEN row ELSE [row EXCEPT !.status = "failed", !.awaiting = FALSE]
    /\ over' = TRUE /\ pc' = "end"
    /\ UNCHANGED <<selected, memory, mine, ctx, slot, req, history, stopping, bounds>>

\* Acquire returned, with the slot or because the context ended: the manager owns the
\* run (ownershipClaimed), and the executor its gate, before Resume has looked at it.
BeginResume ==
    /\ pc = "recovering" /\ (slot = "held" \/ ctx # "live")
    /\ pc' = "resuming"
    /\ UNCHANGED <<store, memory, mine, ctx, slot, req, history, stopping, bounds>>

\* Resume waits at an open gate, goes on with a recorded response, checks a recorded
\* reconciliation once more; or its check of the PR fails, and with it the run.
Resume ==
    /\ pc = "resuming" /\ ctx = "live"
    /\ pc' = IF mine = None THEN "park" ELSE IF mine = "reconcile" THEN "recheck" ELSE "hand"
    /\ UNCHANGED <<store, memory, mine, ctx, slot, req, history, stopping, bounds>>

ResumeFails ==
    /\ pc = "resuming" /\ ctx = "live" /\ pc' = "stop"
    /\ UNCHANGED <<store, memory, mine, ctx, slot, req, history, stopping, bounds>>

ResumeEnds ==
    /\ pc = "resuming" /\ ctx # "live" /\ ~Locked
    /\ chan' = None
    /\ pc' = IF ctx = "shutdown" THEN "end" ELSE "stop"
    /\ UNCHANGED <<store, waiting, gate, answered, mine, ctx, slot, req, history, stopping, bounds>>

\* The PR moved while the gate was parked: its response, recorded or in the channel,
\* is dropped, with an abort that came meanwhile, and the step runs again.  A rewind of
\* the target clears the recorded response, a retarget leaves it on the row that is no
\* longer parked.
DroppedAny(c) == {c}                                \* mutant of Dropped
Dropped(c) == {c} \ {None}
ResumeInvalidated ==
    /\ pc = "resuming" /\ ctx = "live" /\ ~Locked
    /\ \E pending \in {None, row.pending} :
          row' = [row EXCEPT !.status = "running", !.pending = pending, !.awaiting = FALSE]
    /\ void' = void \cup Dropped(row.pending) \cup Dropped(chan)
    /\ waiting' = FALSE /\ chan' = None /\ answered' = FALSE /\ mine' = None
    /\ pc' = "run"
    /\ UNCHANGED <<over, selected, gate, ctx, slot, req, applied, fixed, stopping, bounds>>

\* A recorded reconciliation is checked again, with the slot; a check that fails
\* yields the slot until the next tick.
Recheck ==
    /\ pc = "recheck" /\ ctx = "live"
    /\ \/ slot = "held" /\ pc' = "slot" /\ slot' = slot
       \/ slot = "held" /\ pc' = pc /\ slot' = "yielded"
       \/ slot = "yielded" /\ pc' = pc /\ slot' = "reserved"
    /\ UNCHANGED <<store, memory, mine, ctx, req, history, stopping, bounds>>

----------------------------------------------------------------------------
Handler(i) == \/ Send(i) \/ Refuse(i) \/ RecordDecision(i) \/ Accept(i) \/ AcceptFails(i)
              \/ AbortGate(i) \/ Cancel(i)
Step    == Park \/ ParkFails \/ StepEnds \/ Apply \/ Invalidate \/ ContextFails
AtGate  == YieldAtGate \/ Dequeue \/ CtxDone \/ (\E c \in Claims : ClaimGate(c)) \/ ClaimFails \/ Consume
Answer  == Dispatch \/ DispatchFails \/ AcquireEnds \/ EndGateWait \/ ClearGate \/ FailRun
Daemon  == \/ Shutdown \/ Exit \/ Crash \/ Register \/ FailStale
           \/ BeginResume \/ Resume \/ ResumeFails \/ ResumeEnds \/ ResumeInvalidated \/ Recheck
Next == (\E i \in Requests : Handler(i)) \/ Step \/ AtGate \/ Answer \/ Daemon \/ Grant

Spec == Init /\ [][Next]_vars

\* The goroutine, the handlers and the scheduler keep going, a stopped daemon is
\* started again, and a recheck succeeds in the end.  Nobody has to answer, and the
\* step has not to end.
Fairness ==
    /\ \A i \in Requests : WF_vars(Accept(i) \/ AcceptFails(i)) /\ WF_vars(req[i].state = "cancelling" /\ Cancel(i))
    /\ WF_vars(YieldAtGate) /\ WF_vars(Dequeue \/ CtxDone) /\ WF_vars(Consume)
    /\ WF_vars(Grant) /\ WF_vars(Dispatch \/ AcquireEnds)
    /\ WF_vars(Apply \/ Invalidate \/ ContextFails) /\ WF_vars(EndGateWait) /\ WF_vars(ClearGate) /\ WF_vars(FailRun)
    /\ WF_vars(pc = "run" /\ ctx # "live" /\ StepEnds)
    /\ WF_vars(Exit) /\ WF_vars(Register \/ FailStale)
    /\ WF_vars(BeginResume) /\ WF_vars(Resume \/ ResumeFails \/ ResumeEnds \/ ResumeInvalidated) /\ WF_vars(Recheck) /\ SF_vars(Recheck /\ pc' = "slot")

FairSpec == Spec /\ Fairness

----------------------------------------------------------------------------
Rows == [status : {"running", "parked", "fixing", "completed", "failed"}, gate : 0..MaxGates,
         pending : Requests \cup Claims \cup {None}, awaiting : BOOLEAN]
ReqStates == {"new", "sent", "recorded", "cancelling", "accepted", "refused"}
Places == {"off", "run", "park", "wait", "hand", "slot", "go", "stop", "clear", "fail", "recovering", "resuming",
           "recheck", "end"}

TypeOK ==
    /\ row \in Rows /\ over \in BOOLEAN /\ selected \subseteq Requests
    /\ pc \in Places /\ waiting \in BOOLEAN /\ gate \in 0..MaxGates
    /\ chan \in Requests \cup {None} /\ answered \in BOOLEAN
    /\ mine \in Requests \cup Claims \cup {None} /\ ctx \in {"live", "aborted", "shutdown"}
    /\ slot \in {"held", "yielded", "reserved"}
    /\ req \in [Requests -> [state : ReqStates, kind : Kinds, gate : 0..MaxGates]]
    /\ applied \subseteq [gate : 1..MaxGates, by : Requests \cup Claims]
    /\ fixed \subseteq Requests /\ void \subseteq Requests \cup Claims /\ stopping \subseteq Requests
    /\ stops \in 0..MaxStops /\ faults \in 0..MaxFaults

\* A response is applied only at the gate that its author saw (validateGateLocked,
\* acceptApprovalGate, decodePendingResponse).
AnswersItsGate == \A a \in applied : a.by \in Requests => req[a.by].gate = a.gate

\* What the executor believes of its gate is what the row says, from the moment the
\* gate is published until its wait has ended: which gate it is, that it is parked
\* and recoverable, and whether it has been answered.  A finished run shows no gate:
\* nothing is parked, and, unless a write failed, it does not wait for its agent.
AtAGate == pc \in {"park", "wait", "hand", "slot", "recheck", "recovering", "resuming"}
MemoryMatchesRow ==
    /\ AtAGate => /\ row.status = "parked" /\ row.awaiting /\ row.gate = gate
                  /\ answered <=> row.pending # None
                  /\ waiting => ~answered
    /\ over    => row.status # "parked" /\ (faults = 0 => ~row.awaiting)

AnsweredBy(i) == row.status = "parked" /\ row.pending = i

\* Nothing accepted is forgotten: an accepted answer is recorded beside the parked
\* gate, is being applied, was applied or dropped with its gate, or the run ended.
\* (A run found executing at startup is about to be failed.)  And an answered gate
\* never loses its place in the line for a slot to a new run (yieldSlotForGateWait),
\* but for a reconciliation whose second check failed.
SlotClaimKept == Up /\ answered /\ pc # "recheck" => slot # "yielded"
AcceptedKept ==
    /\ SlotClaimKept
    /\ \A i \in Requests :
        req[i].state = "accepted" /\ req[i].kind \in {"approve", "fix", "answer"} =>
            \/ AnsweredBy(i)
            \/ pc = "go" /\ mine = i
            \/ i \in void \/ \E a \in applied : a.by = i
            \/ over \/ pc \in {"stop", "clear", "fail"} \/ (pc = "off" /\ ~Recoverable)

\* A handler that holds the executor's lock never blocks on the full channel (part of the
\* inductive invariant, with which it is proved).
NeverBlocks == waiting => chan = None

\* "Never dispatch an accepted response after abort, even when Acquire returned a
\* slot successfully" (slot.go): no answer is dispatched once this daemon has accepted
\* an abort or a cancellation, unless it was an abort of a gate whose recovery found
\* that the PR had moved, which drops it with the gate (clearApprovalGate in Resume).
DispatchStep == row.status = "parked" /\ row'.status = "running" /\ pc' = "go"
AbortWins == [][DispatchStep => stopping \subseteq void]_vars

\* The gate as GateLedger sees it: the parked row and its pending response, then the
\* claim in the hands of the dispatching goroutine.
GatePhase == IF row.status = "parked" THEN IF row.pending = None THEN "open" ELSE "claimed"
             ELSE IF pc = "go" THEN "claimed" ELSE "closed"
GateClaim == IF row.status = "parked" THEN row.pending ELSE IF pc = "go" THEN mine ELSE None
Ledger == INSTANCE GateLedger WITH
    Claimants <- Requests \cup Claims, NoClaim <- None,
    gate <- row.gate, phase <- GatePhase, claim <- GateClaim, applied <- applied

\* Each gate is claimed once at most, its claim is never exchanged for another, and
\* what is applied at it is the claim, whatever the daemon's restarts.
KeepsLedger == Ledger!Spec

\* An accepted answer is dispatched, or the run ends, whatever stops and crashes.
AnswerServed == \A i \in Requests : AnsweredBy(i) ~> ~AnsweredBy(i)

\* "every item in it was chosen by a response the daemon accepted" (executor.go,
\* restorePendingDecision): no selection reaches a fixer that was refused.
AppliedWasAccepted == \A i \in fixed : req[i].state = "accepted"
=============================================================================
