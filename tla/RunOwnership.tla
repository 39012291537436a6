--------------------------- MODULE RunOwnership ---------------------------
(***************************************************************************)
(* Who owns a run: the table of internal/daemon/manager.go beside the rows *)
(* of the runs table.                                                      *)
(*                                                                         *)
(* A launch holds its branch's lock while it lists the branch's runs,      *)
(* inserts its own row, cancels the listed runs, waits until their work    *)
(* has stopped and is admitted: to a slot, or to the queue, from which a   *)
(* freed slot claims it later.  Each claimed run has a handle with the     *)
(* cause it was cancelled for and a signal that its work has stopped; the  *)
(* table keeps the run until its outcome is durable.  Aborts, supersession *)
(* and shutdown meet the run through the handle; a restart finds only the  *)
(* rows and the worktrees.                                                 *)
(*                                                                         *)
(* pc[r] is the place of the one goroutine that works for run r: first the *)
(* request that launches it, then the run's own.  RunManager.mu guards the *)
(* table, and every action is one of its critical sections or one write.   *)
(* The slots are used through what SlotScheduler shows of them: a freed    *)
(* slot goes to the resumed run that waited longest, then to the head of   *)
(* the queue, and whoever frees one also dispatches it.                    *)
(***************************************************************************)
EXTENDS Integers, FiniteSets, SequencesExt, Line

CONSTANTS
    Runs,          \* pipeline runs
    Branches,      \* repository branches
    Branch,        \* the branch of each run
    Slots,         \* daemon.max_concurrent_runs
    MaxGates,      \* bound: times that one run parks
    MaxEvents,     \* bound: aborts, shutdowns, deaths of the daemon, and times that the
                   \* database begins to refuse writes, all together
    NoRun          \* no run

ASSUME RunsAssumption  == /\ IsFiniteSet(Runs) /\ NoRun \notin Runs
                          /\ Branch \in [Runs -> Branches]
ASSUME BoundAssumption == /\ Slots \in Nat \ {0} /\ MaxGates \in Nat /\ MaxEvents \in Nat

VARIABLES
    row,         \* runs.status
    awaiting,    \* runs.awaiting_agent_since and its parked step: the run waits at a gate
    worktree,    \* the run's worktree exists
    order,       \* the queued runs in the order of queued_at
    store,       \* the database takes writes
    mode,        \* the daemon: down, starting (the queue is held), up, stopping
    recovered,   \* this start could end the stale rows
    table,       \* managedRun.state; absent when the run is not in the table
    cause,       \* context.Cause of the run's handle
    stopped,     \* runHandle.workloadDone is closed
    origin,      \* how this daemon came by the run: launched, restored or resumed
    lock,        \* the launch that holds each branch's lock
    todo, waits, \* a launch: predecessors to cancel, and to wait for
    slots,       \* runs that hold a slot
    line, queue, \* the scheduler's waiting resumed runs, and its queue
    retrying,    \* slotScheduler.retrying
    verdict,     \* the outcome the run's goroutine has decided on
    pc,          \* the place of the run's goroutine
    gates, spent \* the bounds used up

durable  == <<row, awaiting, worktree, order>>
daemon   == <<mode, recovered>>
handles  == <<cause, stopped, origin>>
launches == <<lock, todo, waits>>
capacity == <<slots, line, queue, retrying>>
bounds   == <<gates, spent>>
vars == <<durable, store, daemon, table, handles, launches, capacity, verdict, pc, bounds>>

Rows     == INSTANCE RunRow
Terminal == Rows!Terminal
Active   == Rows!Active
Owners   == {"absent", "queued", "claimed", "recovering", "finishing"}
Cancels  == {"superseded", "aborted"}
Causes   == {"none", "shutdown"} \cup Cancels
Places   == {"new", "begun", "cancelling", "unadmitted", "admitted", "queued", "setup", "refused", "settling",
             "starting", "work", "parked", "answered", "resuming", "committed", "failing", "unsettled",
             "stopped", "left", "leaving", "gone"}

Init ==
    /\ row = [r \in Runs |-> "none"] /\ awaiting = {} /\ worktree = {} /\ order = <<>>
    /\ store = "ok" /\ mode = "down" /\ recovered = TRUE
    /\ table = [r \in Runs |-> "absent"]
    /\ cause = [r \in Runs |-> "none"] /\ stopped = {} /\ origin = [r \in Runs |-> "launched"]
    /\ lock = [b \in Branches |-> NoRun]
    /\ todo = [r \in Runs |-> {}] /\ waits = [r \in Runs |-> {}]
    /\ slots = {} /\ line = <<>> /\ queue = <<>> /\ retrying = FALSE
    /\ verdict = [r \in Runs |-> "none"]
    /\ pc = [r \in Runs |-> "new"]
    /\ gates = [r \in Runs |-> 0] /\ spent = 0

----------------------------------------------------------------------------
Set(f, r, v)  == [f EXCEPT ![r] = v]
Goto(r, p)    == pc' = Set(pc, r, p)
Spend         == spent < MaxEvents /\ spent' = spent + 1
Served        == mode \in {"up", "stopping"}
Free          == Cardinality(slots) < Slots
Unlock(r)     == lock' = [b \in Branches |-> IF lock[b] = r THEN NoRun ELSE lock[b]]
\* The slot's Release: a held slot is free again, a claim to one is withdrawn.
Release(r)    == slots' = slots \ {r} /\ line' = Without(line, r) /\ UNCHANGED <<queue, retrying>>

----------------------------------------------------------------------------
\* The launch of a run.

\* The request takes the branch's lock; a daemon that shuts down refuses it.
Begin(r) ==
    /\ pc[r] = "new" /\ mode = "up" /\ lock[Branch[r]] = NoRun
    /\ lock' = [lock EXCEPT ![Branch[r]] = r]
    /\ Goto(r, "begun")
    /\ UNCHANGED <<durable, store, daemon, table, handles, todo, waits, capacity, verdict, bounds>>

\* activeRunIDs, and the insertion of the row: only the table's entries of the
\* branch change in between, and each is read again when it is cancelled.
Insert(r) ==
    /\ pc[r] = "begun" /\ store = "ok"
    /\ todo' = [todo EXCEPT ![r] = {q \in Runs : Branch[q] = Branch[r] /\ table[q] \notin {"absent", "finishing"}}]
    /\ row' = Set(row, r, "pending")
    /\ Goto(r, "cancelling")
    /\ UNCHANGED <<awaiting, worktree, order, store, daemon, table, handles, lock, waits, capacity, verdict, bounds>>

\* The row cannot be inserted: the launch fails and leaves nothing.
InsertFails(r) ==
    /\ pc[r] = "begun" /\ store # "ok"
    /\ Unlock(r) /\ Goto(r, "new")
    /\ UNCHANGED <<durable, store, daemon, table, handles, todo, waits, capacity, verdict, bounds>>

CancelRowOnly(q) ==   \* mutant of CancelQueued
    /\ table[q] = "queued" /\ store = "ok"
    /\ row' = Set(row, q, "cancelled")
    /\ order' = Without(order, q) /\ queue' = queue
    /\ table' = Set(table, q, "absent")
\* cancelManagedRun for a queued run: the row first, and only then the queue.
CancelQueued(q) ==
    /\ table[q] = "queued" /\ store = "ok"
    /\ row' = Set(row, q, "cancelled")
    /\ order' = Without(order, q) /\ queue' = Without(queue, q)
    /\ table' = Set(table, q, "absent")

\* cancelManagedRun for a run with a handle: the first cause is the run's.
Signal(q, why) ==
    /\ table[q] \in {"claimed", "recovering"}
    /\ cause' = IF cause[q] = "none" THEN Set(cause, q, why) ELSE cause

\* cancelRunIDs: one predecessor after the other, each by the state it is in now.
CancelNext(r) ==
    /\ pc[r] = "cancelling"
    /\ \E q \in todo[r] :
        /\ todo' = [todo EXCEPT ![r] = @ \ {q}]
        /\ \/ /\ CancelQueued(q) /\ Goto(q, "gone")
              /\ UNCHANGED <<cause, waits, slots, line, retrying>>
           \/ /\ Signal(q, "superseded")
              /\ waits' = [waits EXCEPT ![r] = @ \cup {q}]
              /\ UNCHANGED <<row, order, table, capacity, pc>>
           \/ /\ table[q] \in {"absent", "finishing"}
              /\ UNCHANGED <<row, order, table, cause, waits, capacity, pc>>
    /\ UNCHANGED <<awaiting, worktree, store, daemon, stopped, origin, lock, verdict, bounds>>

\* cancelRunIDs waits until every run it signalled has reported the end of its work.
NotAwaited(r) == TRUE   \* mutant of Awaited
Awaited(r)    == waits[r] \subseteq stopped

\* A queued predecessor cannot be cancelled, or the wait of thirty seconds for the
\* others runs out: the new run ends without having been admitted.
UnadmittedDropped(r) ==   \* mutant of Unadmitted
    /\ verdict' = Set(verdict, r, "failed")
    /\ todo' = [todo EXCEPT ![r] = {}] /\ waits' = [waits EXCEPT ![r] = {}]
    /\ Goto(r, "unadmitted")
    /\ UNCHANGED <<durable, store, daemon, table, handles, lock, capacity, bounds>>
Unadmitted(r) ==
    /\ table' = Set(table, r, "finishing")
    /\ verdict' = Set(verdict, r, "failed")
    /\ todo' = [todo EXCEPT ![r] = {}] /\ waits' = [waits EXCEPT ![r] = {}]
    /\ Goto(r, "unadmitted")
    /\ UNCHANGED <<durable, store, daemon, handles, lock, capacity, bounds>>
CancelFails(r) == /\ pc[r] = "cancelling" /\ store # "ok"
                  /\ \E q \in todo[r] : table[q] = "queued"
                  /\ Unadmitted(r)
WaitExpires(r) == /\ pc[r] = "cancelling" /\ todo[r] = {} /\ ~ Awaited(r)
                  /\ Unadmitted(r)

\* admitRun: a slot when one is free and nobody waits, the queue otherwise.
Admit(r) ==
    /\ pc[r] = "cancelling" /\ todo[r] = {} /\ Awaited(r)
    /\ Free /\ line = <<>> /\ queue = <<>>
    /\ slots' = slots \cup {r}
    /\ waits' = [waits EXCEPT ![r] = {}]
    /\ Goto(r, "admitted")
    /\ UNCHANGED <<durable, store, daemon, table, handles, lock, todo, line, queue, retrying, verdict, bounds>>

Full == ~ (Free /\ line = <<>> /\ queue = <<>>)
Enqueue(r) ==
    /\ pc[r] = "cancelling" /\ todo[r] = {} /\ Awaited(r)
    /\ Full /\ store = "ok"
    /\ row' = Set(row, r, "queued") /\ order' = Append(order, r)
    /\ table' = Set(table, r, "queued") /\ queue' = Append(queue, r)
    /\ waits' = [waits EXCEPT ![r] = {}]
    /\ Unlock(r) /\ Goto(r, "queued")
    /\ UNCHANGED <<awaiting, worktree, store, daemon, handles, todo, slots, line, retrying, verdict, bounds>>
EnqueueFails(r) ==
    /\ pc[r] = "cancelling" /\ todo[r] = {} /\ Awaited(r)
    /\ Full /\ store # "ok"
    /\ Unadmitted(r)

\* failUnadmittedRunSetup: the entry goes once the failure is written.
SettleUnadmitted(r) ==
    /\ pc[r] = "unadmitted" /\ store = "ok"
    /\ row' = IF row[r] = "pending" THEN Set(row, r, verdict[r]) ELSE row
    /\ table' = Set(table, r, "absent")
    /\ Unlock(r) /\ Goto(r, "gone")
    /\ UNCHANGED <<awaiting, worktree, order, store, daemon, handles, todo, waits, capacity, verdict, bounds>>

\* launchRun for a run that was admitted at once registers its handle.
Register(r) ==
    /\ pc[r] = "admitted"
    /\ table' = Set(table, r, "claimed")
    /\ Goto(r, "setup")
    /\ UNCHANGED <<durable, store, daemon, handles, launches, capacity, verdict, bounds>>

----------------------------------------------------------------------------
\* The queue.

\* startQueuedRun: the row is claimed and the handle registered in the section
\* that takes the run out of the queue.  The row is queued (QueuesAgree), so the
\* branch for a row that is not any more does not occur.
Dispatchable == Free /\ line = <<>> /\ queue # <<>> /\ ~ retrying /\ mode # "starting"
StartQueued(r) ==
    /\ Dispatchable /\ mode = "up" /\ store = "ok" /\ r = Head(queue) /\ row[r] = "queued"
    /\ queue' = Tail(queue) /\ slots' = slots \cup {r}
    /\ row' = Set(row, r, "pending") /\ order' = Without(order, r)
    /\ table' = Set(table, r, "claimed")
    /\ Goto(r, "setup")
    /\ UNCHANGED <<awaiting, worktree, store, daemon, handles, launches, line, retrying, verdict, bounds>>

\* A daemon that shuts down only drops the entry of its queue; the row stays queued.
DropQueued(r) ==
    /\ Dispatchable /\ mode = "stopping" /\ r = Head(queue)
    /\ queue' = Tail(queue)
    /\ UNCHANGED <<durable, store, daemon, table, handles, launches, slots, line, retrying, verdict, pc, bounds>>

\* The claim fails: the run keeps its place, and the queue waits for a second.
ClaimLoses ==   \* mutant of ClaimFails
    /\ Dispatchable /\ mode = "up" /\ store # "ok"
    /\ queue' = Tail(queue) /\ retrying' = TRUE
    /\ UNCHANGED <<durable, store, daemon, table, handles, launches, slots, line, verdict, pc, bounds>>
ClaimFails ==
    /\ Dispatchable /\ mode = "up" /\ store # "ok"
    /\ retrying' = TRUE
    /\ UNCHANGED <<durable, store, daemon, table, handles, launches, slots, line, queue, verdict, pc, bounds>>
RetryClaim ==
    /\ retrying /\ retrying' = FALSE
    /\ UNCHANGED <<durable, store, daemon, table, handles, launches, slots, line, queue, verdict, pc, bounds>>

----------------------------------------------------------------------------
\* Setup: launchRun from the registered handle to the goroutine that executes.

CreateWorktree(r) ==
    /\ pc[r] = "setup" /\ r \notin worktree
    /\ worktree' = worktree \cup {r}
    /\ UNCHANGED <<row, awaiting, order, store, daemon, table, handles, launches, capacity, verdict, pc, bounds>>

\* What a cancellation makes of a run; its own failures make it failed.
OutcomeRaw(why) == why   \* mutant of OutcomeOf
OutcomeOf(why)  == IF why \in Cancels THEN "cancelled" ELSE "failed"

\* Setup fails by itself or because its context was cancelled: the end of the work
\* is reported first, then the slot is free, then the outcome is written.
SetupFails(r) ==
    /\ pc[r] = "setup"
    /\ \E o \in {"failed", OutcomeOf(cause[r])} : verdict' = Set(verdict, r, o)
    /\ stopped' = stopped \cup {r}
    /\ Goto(r, "refused")
    /\ UNCHANGED <<durable, store, daemon, table, cause, origin, launches, capacity, bounds>>

\* A shutdown that began during setup: the executor must not start any more.
AttachRefused(r) ==
    /\ pc[r] = "setup" /\ r \in worktree /\ mode = "stopping"
    /\ cause' = IF cause[r] = "none" THEN Set(cause, r, "shutdown") ELSE cause
    /\ verdict' = Set(verdict, r, OutcomeOf(cause'[r]))
    /\ stopped' = stopped \cup {r}
    /\ Goto(r, "refused")
    /\ UNCHANGED <<durable, store, daemon, table, origin, launches, capacity, bounds>>

RefusedReleases(r) ==
    /\ pc[r] = "refused"
    /\ Release(r) /\ Goto(r, "settling")
    /\ UNCHANGED <<durable, store, daemon, table, handles, launches, verdict, bounds>>

\* failRunSetup, and terminalRunSettled marking the run as finishing.
SettleSetup(r) ==
    /\ pc[r] = "settling" /\ store = "ok"
    /\ row' = IF row[r] \in Active THEN Set(row, r, verdict[r]) ELSE row
    /\ table' = Set(table, r, "finishing")
    /\ Goto(r, "stopped")
    /\ UNCHANGED <<awaiting, worktree, order, store, daemon, handles, launches, capacity, verdict, bounds>>

\* The executor is attached and its goroutine counted; the request returns.
Attach(r) ==
    /\ pc[r] = "setup" /\ r \in worktree /\ mode # "stopping" /\ cause[r] = "none"
    /\ Unlock(r) /\ Goto(r, "starting")
    /\ UNCHANGED <<durable, store, daemon, table, handles, todo, waits, capacity, verdict, bounds>>

----------------------------------------------------------------------------
\* Execution: Execute and Resume as far as ownership is concerned.

Start(r) ==
    /\ pc[r] = "starting" /\ cause[r] = "none" /\ store = "ok"
    /\ row' = Set(row, r, "running")
    /\ Goto(r, "work")
    /\ UNCHANGED <<awaiting, worktree, order, store, daemon, table, handles, launches, capacity, verdict, bounds>>

\* The run waits at an approval gate without its slot.
Park(r) ==
    /\ pc[r] = "work" /\ cause[r] = "none" /\ store = "ok" /\ gates[r] < MaxGates
    /\ awaiting' = awaiting \cup {r} /\ gates' = [gates EXCEPT ![r] = @ + 1]
    /\ Release(r) /\ Goto(r, "parked")
    /\ UNCHANGED <<row, worktree, order, store, daemon, table, handles, launches, verdict, spent>>

\* A response reserves the slot the run goes on with.
Answer(r) ==
    /\ pc[r] = "parked" /\ cause[r] = "none" /\ mode = "up"
    /\ IF Free /\ line = <<>> THEN slots' = slots \cup {r} /\ line' = line
                              ELSE slots' = slots /\ line' = Append(line, r)
    /\ Goto(r, "answered")
    /\ UNCHANGED <<durable, store, daemon, table, handles, launches, queue, retrying, verdict, bounds>>
Grant ==
    /\ Free /\ line # <<>>
    /\ slots' = slots \cup {Head(line)} /\ line' = Tail(line)
    /\ UNCHANGED <<durable, store, daemon, table, handles, launches, queue, retrying, verdict, pc, bounds>>
GoOn(r) ==
    /\ pc[r] = "answered" /\ r \in slots /\ cause[r] = "none" /\ store = "ok"
    /\ awaiting' = awaiting \ {r} /\ Goto(r, "work")
    /\ UNCHANGED <<row, worktree, order, store, daemon, table, handles, launches, capacity, verdict, bounds>>

\* A recovered run has its slot, or was cancelled before it had: it waits at its gate
\* again, or goes on with the response its row holds.
Resume(r) ==
    /\ pc[r] = "resuming" /\ (r \in slots \/ cause[r] # "none")
    /\ table' = Set(table, r, "claimed")
    /\ \/ /\ cause[r] # "none" /\ Goto(r, "parked")
          /\ line' = Without(line, r) /\ UNCHANGED <<awaiting, slots, queue, retrying>>
       \/ /\ cause[r] = "none" /\ Goto(r, "parked")
          /\ Release(r) /\ UNCHANGED awaiting
       \/ /\ cause[r] = "none" /\ store = "ok" /\ Goto(r, "work")
          /\ awaiting' = awaiting \ {r} /\ UNCHANGED capacity
    /\ UNCHANGED <<row, worktree, order, store, daemon, handles, launches, verdict, bounds>>

\* completeRun; a shutdown that recorded its intent first makes the run fail.
Complete(r) ==
    /\ pc[r] = "work" /\ store = "ok"
    /\ \E o \in {"completed", IF cause[r] = "shutdown" THEN "failed" ELSE "completed"} : row' = Set(row, r, o)
    /\ Goto(r, "committed")
    /\ UNCHANGED <<awaiting, worktree, order, store, daemon, table, handles, launches, capacity, verdict, bounds>>

\* A failure of the run's own, a store that refuses to start or complete it included.
Fails(r) ==
    /\ pc[r] = "work" \/ (pc[r] = "starting" /\ store # "ok")
    /\ verdict' = Set(verdict, r, "failed")
    /\ Goto(r, "failing")
    /\ UNCHANGED <<durable, store, daemon, table, handles, launches, capacity, bounds>>

\* The run's context ends: it fails or is cancelled for the cause, unless a shutdown
\* found it waiting at a gate.
Waiting(r)     == pc[r] \in {"starting", "work", "parked", "answered"}
DeafAtGate(r)  == pc[r] \in {"starting", "work", "answered"}   \* mutant of Cancellable
TooLate(r)     == pc[r] = "committed" \/ Waiting(r)   \* mutant of Cancellable
Cancellable(r) == Waiting(r)
Leaves(r) == cause[r] = "shutdown" /\ r \in awaiting
Cancelled(r) ==
    /\ Cancellable(r) /\ cause[r] # "none" /\ ~ Leaves(r)
    /\ verdict' = Set(verdict, r, OutcomeOf(cause[r]))
    /\ line' = Without(line, r) /\ Goto(r, "failing")
    /\ UNCHANGED <<durable, store, daemon, table, handles, launches, slots, queue, retrying, bounds>>

\* The run's work is over: SetOnWorkloadDone's hook.  A resumed run's hook does not mark
\* the run as finishing: its goroutine does when Resume has returned.
WorkDone(r) ==
    /\ table' = IF origin[r] = "resumed" THEN table ELSE Set(table, r, "finishing")
    /\ Release(r)
    /\ stopped' = stopped \cup {r}

\* FailRun: the outcome is written and the hook runs after it; a store that refuses
\* the write delays the outcome and not the hook.
FailRun(r) ==
    /\ pc[r] = "failing" /\ store = "ok"
    /\ row' = Set(row, r, verdict[r]) /\ awaiting' = awaiting \ {r}
    /\ Goto(r, "committed")
    /\ UNCHANGED <<worktree, order, store, daemon, table, handles, launches, capacity, verdict, bounds>>
FailRefused(r) ==
    /\ pc[r] = "failing" /\ store # "ok"
    /\ WorkDone(r) /\ Goto(r, "unsettled")
    /\ UNCHANGED <<durable, store, daemon, cause, origin, launches, verdict, bounds>>
SettleTerminalWrite(r) ==
    /\ pc[r] = "unsettled" /\ store = "ok"
    /\ row' = Set(row, r, verdict[r]) /\ awaiting' = awaiting \ {r}
    /\ Goto(r, "stopped")
    /\ UNCHANGED <<worktree, order, store, daemon, table, handles, launches, capacity, verdict, bounds>>
ReportWorkloadDone(r) ==
    /\ pc[r] = "committed"
    /\ WorkDone(r) /\ Goto(r, "stopped")
    /\ UNCHANGED <<durable, store, daemon, cause, origin, launches, verdict, bounds>>

\* markFinishing after Resume has returned.
Return(r) ==
    /\ pc[r] = "stopped" /\ table[r] = "claimed"
    /\ table' = Set(table, r, "finishing")
    /\ UNCHANGED <<durable, store, daemon, handles, launches, capacity, verdict, pc, bounds>>

\* Custody ends when the outcome is durable: the worktree goes, and the table's entry.
Depart(r) ==
    /\ pc[r] = "stopped" /\ table[r] = "finishing" /\ row[r] \in Terminal
    /\ worktree' = worktree \ {r}
    /\ table' = Set(table, r, "absent")
    /\ Unlock(r) /\ Goto(r, "gone")
    /\ UNCHANGED <<row, awaiting, order, store, daemon, handles, todo, waits, capacity, verdict, bounds>>

\* A run that a shutdown found at its gate stays as it is for the next start.  Execute's
\* caller reports that its work stopped before it looks why; Resume's does not report.
Leave(r) ==
    /\ pc[r] \in {"parked", "answered"} /\ Leaves(r)
    /\ stopped' = IF origin[r] = "resumed" THEN stopped ELSE stopped \cup {r}
    /\ line' = Without(line, r) /\ Goto(r, "left")
    /\ UNCHANGED <<durable, store, daemon, table, cause, origin, launches, slots, queue, retrying, verdict, bounds>>
LeftReleases(r) ==
    /\ pc[r] = "left"
    /\ table' = Set(table, r, "finishing")
    /\ IF origin[r] = "resumed" THEN UNCHANGED capacity ELSE Release(r)
    /\ Goto(r, "leaving")
    /\ UNCHANGED <<durable, store, daemon, handles, launches, verdict, bounds>>
LeftDeparts(r) ==
    /\ pc[r] = "leaving" /\ store = "ok"
    /\ table' = Set(table, r, "absent")
    /\ Release(r) /\ Goto(r, "gone")
    /\ UNCHANGED <<durable, store, daemon, handles, launches, verdict, bounds>>

----------------------------------------------------------------------------
\* Clients, shutdown, death and start.

\* HandleCancel; a run in no table is an error, and a finishing one is left alone.
Abort(r) ==
    /\ Served /\ Spend
    /\ \/ /\ CancelQueued(r) /\ Goto(r, "gone")
          /\ UNCHANGED <<cause, slots, line, retrying>>
       \/ /\ Signal(r, "aborted")
          /\ UNCHANGED <<row, order, table, capacity, pc>>
    /\ UNCHANGED <<awaiting, worktree, store, daemon, stopped, origin, launches, verdict, gates>>

\* runCancelsLocked: the handles of the table, and the cause each keeps.
NobodyTold == cause   \* mutant of Told
Told == [r \in Runs |-> IF table[r] \in {"claimed", "recovering"} /\ cause[r] = "none" THEN "shutdown" ELSE cause[r]]

\* Shutdown: no run is admitted any more, and every handle is cancelled.
Shutdown ==
    /\ mode \in {"starting", "up"} /\ Spend
    /\ mode' = "stopping"
    /\ cause' = Told
    /\ UNCHANGED <<durable, store, recovered, table, stopped, origin, launches, capacity, verdict, pc, gates>>

\* What is in memory is lost; a request whose row was not inserted is forgotten.
Down ==
    /\ mode' = "down"
    /\ table' = [r \in Runs |-> "absent"]
    /\ cause' = [r \in Runs |-> "none"] /\ stopped' = {}
    /\ lock' = [b \in Branches |-> NoRun]
    /\ todo' = [r \in Runs |-> {}] /\ waits' = [r \in Runs |-> {}]
    /\ slots' = {} /\ line' = <<>> /\ queue' = <<>> /\ retrying' = FALSE
    /\ verdict' = [r \in Runs |-> "none"]
    /\ pc' = [r \in Runs |-> IF row[r] = "none" THEN "new" ELSE "gone"]
    /\ UNCHANGED <<durable, store, recovered, origin, gates>>

\* The goroutines that Shutdown waits for: runs', and those of launches from the queue.
\* A request that still launches its run is not among them.
Requested(r) == lock[Branch[r]] = r
SetupUncounted(r) == pc[r] \notin {"new", "queued", "gone", "setup", "refused", "settling"} /\ ~ Requested(r)   \* mutant of Counted
Counted(r)   == pc[r] \notin {"new", "queued", "gone"} /\ ~ Requested(r)
Exit  == /\ mode = "stopping" /\ ~ retrying
         /\ \A r \in Runs : ~ Counted(r)
         /\ Down /\ UNCHANGED spent
Crash == mode # "down" /\ Spend /\ Down

\* Recovery: a run that waits at a gate can be resumed when it is the only active one of
\* its branch, and is unless it cannot be prepared: its shutdown was recorded and never
\* settled (ReconcileRecoveredRun), or the configuration is gone.  All others that were
\* active have failed, and the queued ones are queued again.
Resumable(r) == /\ row[r] = "running" /\ r \in awaiting /\ r \in worktree
                /\ \A q \in Runs \ {r} : Branch[q] = Branch[r] => row[q] \notin Active
Restore(resumed) ==
    /\ table' = [r \in Runs |-> IF row[r] = "queued" THEN "queued"
                                ELSE IF r \in resumed THEN "recovering" ELSE "absent"]
    /\ pc' = [r \in Runs |-> IF row[r] = "queued" THEN "queued"
                             ELSE IF r \in resumed THEN "resuming" ELSE pc[r]]
    /\ origin' = [r \in Runs |-> IF row[r] = "queued" THEN "restored"
                                 ELSE IF r \in resumed THEN "resumed" ELSE "launched"]
    /\ queue' = order
    /\ line' \in SetToSeqs(resumed)
Recover(resumed) ==
    LET stale == IF store = "ok" THEN {r \in Runs : row[r] \in Active} \ resumed ELSE {}
    IN  /\ row' = [r \in Runs |-> IF r \in stale THEN "failed" ELSE row[r]]
        /\ awaiting' = awaiting \ stale
        /\ worktree' = {r \in worktree : row'[r] \notin Terminal}
        /\ Restore(resumed)
Boot ==
    /\ mode = "down" /\ mode' = "starting" /\ recovered' = (store = "ok")
    /\ \E resumed \in SUBSET {r \in Runs : store = "ok" /\ Resumable(r)} : Recover(resumed)
    /\ UNCHANGED <<order, store, cause, stopped, launches, slots, retrying, verdict, bounds>>

\* releaseQueue, once the daemon answers its clients.
Serve == /\ mode = "starting" /\ mode' = "up"
         /\ UNCHANGED <<durable, store, recovered, table, handles, launches, capacity, verdict, pc, bounds>>

Outage == /\ store = "ok" /\ Spend /\ store' = "refusing"
          /\ UNCHANGED <<durable, daemon, table, handles, launches, capacity, verdict, pc, gates>>
Heal   == /\ store # "ok" /\ store' = "ok"
          /\ UNCHANGED <<durable, daemon, table, handles, launches, capacity, verdict, pc, bounds>>

----------------------------------------------------------------------------
Launch(r)  == \/ Insert(r) \/ InsertFails(r) \/ CancelNext(r) \/ CancelFails(r) \/ WaitExpires(r)
              \/ Admit(r) \/ Enqueue(r) \/ EnqueueFails(r) \/ SettleUnadmitted(r) \/ Register(r)
Setup(r)   == \/ CreateWorktree(r) \/ SetupFails(r) \/ AttachRefused(r) \/ RefusedReleases(r)
              \/ SettleSetup(r) \/ Attach(r)
Execute(r) == \/ Start(r) \/ Park(r) \/ GoOn(r) \/ Resume(r) \/ Complete(r) \/ Fails(r) \/ Cancelled(r)
              \/ FailRun(r) \/ FailRefused(r) \/ SettleTerminalWrite(r) \/ ReportWorkloadDone(r) \/ Return(r)
              \/ Depart(r) \/ Leave(r) \/ LeftReleases(r) \/ LeftDeparts(r)
Step(r)    == Launch(r) \/ Setup(r) \/ Execute(r)
Queue      == \E r \in Runs : StartQueued(r) \/ DropQueued(r)
Next == \/ \E r \in Runs : Begin(r) \/ Step(r) \/ Answer(r) \/ Abort(r)
        \/ Queue \/ ClaimFails \/ RetryClaim \/ Grant
        \/ Shutdown \/ Exit \/ Crash \/ Boot \/ Serve \/ Outage \/ Heal

Spec == Init /\ [][Next]_vars

\* A goroutine that can go on does; commands end, waits expire, the database takes writes again and
\* whoever frees a slot dispatches it.  Nobody has to launch, answer or abort a run.
FairSpec == /\ Spec
            /\ \A r \in Runs : WF_vars(Step(r))
            /\ WF_vars(Queue) /\ WF_vars(RetryClaim) /\ WF_vars(Grant)
            /\ WF_vars(Exit) /\ WF_vars(Serve) /\ WF_vars(Heal)

----------------------------------------------------------------------------
\* Properties.

TypeOK ==
    /\ row \in [Runs -> Rows!Status] /\ awaiting \subseteq Runs /\ worktree \subseteq Runs /\ order \in Seq(Runs)
    /\ store \in {"ok", "refusing"} /\ mode \in {"down", "starting", "up", "stopping"} /\ recovered \in BOOLEAN
    /\ table \in [Runs -> Owners] /\ cause \in [Runs -> Causes] /\ stopped \subseteq Runs
    /\ origin \in [Runs -> {"launched", "restored", "resumed"}]
    /\ lock \in [Branches -> Runs \cup {NoRun}]
    /\ todo \in [Runs -> SUBSET Runs] /\ waits \in [Runs -> SUBSET Runs]
    /\ slots \subseteq Runs /\ line \in Seq(Runs) /\ queue \in Seq(Runs) /\ retrying \in BOOLEAN
    /\ verdict \in [Runs -> Terminal \cup {"none"}]
    /\ pc \in [Runs -> Places]
    /\ gates \in [Runs -> 0..MaxGates] /\ spent \in 0..MaxEvents

\* A run that has not ended belongs to somebody: to the request that launches it, to the table, or,
\* waiting at a gate, to the next start of a daemon that shuts down.  A start whose recovery could
\* not be written is the exception the code makes.
RowsOwned ==
    mode # "down" /\ recovered =>
        \A r \in Runs : row[r] \in Active \cup {"queued"} =>
            \/ table[r] # "absent"
            \/ pc[r] \in {"cancelling", "admitted"}
            \/ mode = "stopping" /\ row[r] = "running" /\ r \in awaiting

\* At work: from its admission until its handle reports that its work has stopped.
AtWork(r) == pc[r] = "admitted" \/ (table[r] \in {"claimed", "recovering"} /\ r \notin stopped)
Pairs     == {p \in Runs \X Runs : p[1] # p[2] /\ Branch[p[1]] = Branch[p[2]]}

\* Two runs of one branch are never at work together (supersession waits for the work of the run it
\* replaces), if one was not resumed and the other not restored to the queue by the same start.
ReplacementWaits ==
    \A p \in Pairs : AtWork(p[1]) /\ AtWork(p[2]) => {origin[p[1]], origin[p[2]]} = {"resumed", "restored"}

\* "startRunWithIntentSourceLocked enforces one active run per repo branch" (the comment in
\* pipeline/steps/push.go): no two runs of a branch are at work, however the daemon came by them.
OneActiveRun == \A p \in Pairs : ~ (AtWork(p[1]) /\ AtWork(p[2]))

\* The row, the table and the scheduler's queue say the same of a queued run, unless a shutdown has
\* dropped the queue: the row is cancelled or claimed together with the entry.
QueuesAgree ==
    mode \in {"starting", "up"} =>
        /\ queue = order
        /\ \A r \in Runs : /\ (row[r] = "queued") = (table[r] = "queued")
                           /\ (row[r] = "queued") = (Len(Without(order, r)) = Len(order) - 1)

\* Custody: an unfinished run keeps its worktree, through refused writes, shutdowns and deaths; the
\* limit is kept; and a slot is held by exactly the runs on their way to work, at work, or on the
\* way to the Release that follows.
WorktreeKept == \A r \in Runs : row[r] = "running" => r \in worktree
SlotsHeld ==
    /\ Cardinality(slots) <= Slots
    /\ \A r \in Runs : /\ pc[r] \in {"admitted", "setup", "starting", "work"} => r \in slots
                       /\ r \in slots => pc[r] \notin {"new", "begun", "cancelling", "unadmitted", "queued",
                                                       "settling", "unsettled", "stopped", "gone"}
CustodyKept == WorktreeKept /\ SlotsHeld

\* The rows live as their clients may expect: nothing is written over an outcome, and a run
\* starts once (the abstract specification RunRow).
RowsImplement == Rows!Spec

\* An orderly exit leaves nothing half done but a request's own launch: what was at work has its
\* outcome, or waits at a gate with its worktree.
ExitSettles ==
    [][mode = "stopping" /\ mode' = "down" /\ spent' = spent /\ recovered =>
          \A r \in Runs : row[r] \in Active => Requested(r) \/ (r \in awaiting /\ r \in worktree)]_vars

\* A cancellation that was accepted ends its run, if the daemon lives, however the run's goroutine,
\* the queue or the database go on.
CancelStops == \A r \in Runs : cause[r] \in Cancels ~> (row[r] \in Terminal \/ mode = "down")

\* A launch returns its branch's lock, whatever it waits for; and a queued run starts or is
\* cancelled, if the daemon lives.
LaunchReturns == \A r \in Runs : Requested(r) ~> ~ Requested(r)
QueuedServed  == \A r \in Runs : row[r] = "queued" ~> (row[r] # "queued" \/ mode = "down")
LaunchServed  == LaunchReturns /\ QueuedServed

\* An orderly shutdown ends.
ShutdownEnds == mode = "stopping" ~> mode = "down"
===========================================================================
