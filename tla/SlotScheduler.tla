--------------------------- MODULE SlotScheduler ---------------------------
(***************************************************************************)
(* The daemon's run-slot scheduler, internal/daemon/scheduler.go.          *)
(*                                                                         *)
(* A run holds one of daemon.max_concurrent_runs slots while it executes   *)
(* pipeline work.  It gives the slot back while it is parked at an         *)
(* approval gate or polls CI, and takes one again, ahead of every new run, *)
(* when it resumes.  The scheduler is shared by many goroutines and its    *)
(* operations are not atomic: a slot has a lock of its own (runSlot.mu),   *)
(* the counters and the two waiting lines have another (slotScheduler.mu), *)
(* and release, setHeld and releaseParked change the slot under the first  *)
(* lock and the counters later, under the second.  Every action below is   *)
(* one such critical section, run by one goroutine.                        *)
(*                                                                         *)
(* Goroutines: each run is its own main goroutine; Helpers are the RPC     *)
(* handlers that launch runs and accept gate responses, and the parallel   *)
(* agent invocations of a run; Watcher is the limit watcher.  pc[t] is the *)
(* place goroutine t has reached, and sub[t] the stack of the scheduler's  *)
(* own functions it runs before it goes on from there.                     *)
(***************************************************************************)
EXTENDS Integers, FiniteSets, Sequences, Line

CONSTANTS
    Runs,        \* pipeline runs
    Handlers,    \* RPC handlers: they launch runs and accept gate responses
    Agents,      \* concurrent agent invocations
    Watcher,     \* the goroutine of StartLimitWatcher
    Configs,     \* what the global config file may say: a max (0 is unlimited) and a hold
    Initial,     \* what it may say when the daemon starts
    MaxEdits,    \* bound: edits of the global config file
    Restored,    \* queued rows found at startup, in start order
    Recovered,   \* parked runs found at startup
    NoRun        \* no run

Helpers == Handlers \cup Agents
Threads == Runs \cup Helpers \cup {Watcher}

\* Where a goroutine can be: outside the scheduler, or about to run a section of
\* Yield (mark), tryAdmit (try), admitRun (enq, admitted), Reserve (answer, resv),
\* Acquire (acq, take, join, land, drop), waitForSlot (wait) or setHeld (count).
Outside == {"idle", "agent", "new", "queued", "work", "gate", "parked", "stop", "done"}
Inside  == {"mark", "try", "enq", "admitted", "answer", "acq", "resv", "take", "wait", "join",
            "count", "land", "drop"}
Places  == Outside \cup Inside
\* The functions on top of it: refresh giving back parked slots, the second section
\* of release, dispatch before its refresh, and dispatch in its loop.
Frames  == {"unpark", "settle", "disp", "loop"}

Jobs      == {"none", "admit", "respond", "agent"}
WaitKinds == {"none", "gate", "answered", "ci"}
Release   == [run : Runs \cup {NoRun}, held : BOOLEAN, yielded : BOOLEAN, pending : BOOLEAN, yield : BOOLEAN]

ASSUME LimitsAssumption  == /\ Configs \subseteq [max : Nat, hold : BOOLEAN] /\ Initial \subseteq Configs
                            /\ MaxEdits \in Nat
ASSUME ThreadsAssumption == /\ Runs \cap Helpers = {}
                            /\ Watcher \notin Runs \cup Helpers
                            /\ NoRun \notin Runs
                            /\ IsFiniteSet(Threads)
ASSUME StartAssumption   == /\ Restored \in Seq(Runs)
                            /\ \A i, j \in 1..Len(Restored) : Restored[i] = Restored[j] => i = j
                            /\ Recovered \subseteq Runs
                            /\ \A i \in 1..Len(Restored) : Restored[i] \notin Recovered

VARIABLES
    cfg, edits,                        \* the config file, and the edits made so far
    max, hold, active, yielded,        \* slotScheduler's counters and applied limits
    parked, prio, queued,              \* slotScheduler.parkedHeld, prio and queued
    retrying, startHold,               \* slotScheduler.retrying and held
    held, slotYielded, slotParked,     \* runSlot.held, yielded and parkedHeld
    pending, flight,                   \* runSlot.pending # nil, runSlot.flight # nil
    waiter,                            \* the run's slotWaiter: none, waiting or granted
    waitKind,                          \* what the run's executor waits for
    pc, sub, task,                     \* each goroutine's place and stack, a helper's task
    todo, freed, rel                   \* locals of refresh (parked, released) and release

config   == <<cfg, edits>>
limits   == <<max, hold>>
lines    == <<prio, queued>>
switches == <<retrying, startHold>>
counts   == <<active, yielded>>
slots    == <<held, slotYielded, slotParked>>
claims   == <<pending, flight, waiter>>
locals   == <<todo, freed, rel>>
vars == <<config, limits, lines, switches, counts, parked, slots, claims, waitKind, pc, sub, task, locals>>

NoRelease == [run |-> NoRun, held |-> FALSE, yielded |-> FALSE, pending |-> FALSE, yield |-> FALSE]
NoTask    == [kind |-> "none", run |-> NoRun]
RestoredRuns == {Restored[i] : i \in 1..Len(Restored)}

Init ==
    /\ cfg \in Initial /\ edits = 0
    /\ max = cfg.max /\ hold = cfg.hold /\ active = 0 /\ yielded = 0
    /\ parked = {} /\ prio = <<>> /\ queued = Restored
    /\ retrying = FALSE /\ startHold = TRUE
    /\ held = [r \in Runs |-> FALSE]
    /\ slotYielded = [r \in Runs |-> FALSE]
    /\ slotParked = [r \in Runs |-> FALSE]
    /\ pending = [r \in Runs |-> FALSE]
    /\ flight = [r \in Runs |-> FALSE]
    /\ waiter = [r \in Runs |-> "none"]
    /\ waitKind = [r \in Runs |-> IF r \in Recovered THEN "answered" ELSE "none"]
    /\ pc = [t \in Threads |-> IF t \notin Runs THEN "idle"
                               ELSE IF t \in Recovered THEN "parked"
                               ELSE IF t \in RestoredRuns THEN "queued" ELSE "new"]
    /\ sub = [t \in Threads |-> <<>>]
    /\ task = [h \in Helpers |-> NoTask]
    /\ todo = [t \in Threads |-> {}]
    /\ freed = [t \in Threads |-> FALSE]
    /\ rel = [t \in Threads |-> NoRelease]

----------------------------------------------------------------------------
\* Control flow of goroutine t: at a place with no scheduler function to finish,
\* or in such a function; going to a place, and leaving the topmost function.
At(t, place)   == sub[t] = <<>> /\ pc[t] = place
In(t, frame)   == sub[t] # <<>> /\ Head(sub[t]) = frame
Goto(t, place) == pc' = [pc EXCEPT ![t] = place]
Run(t, frames) == sub' = [sub EXCEPT ![t] = frames \o @]
Leave(t, frames) == sub' = [sub EXCEPT ![t] = frames \o Tail(@)]

\* The run goroutine t works for.
Target(t) == IF t \in Runs THEN t ELSE task[t].run

Capacity == max = 0 \/ active < max

\* The parked slots that refresh gives back: all, when the hold policy goes off.
ReleasingNone == {}                                 \* mutant of Releasing
Releasing == IF hold /\ ~cfg.hold THEN parked ELSE {}

\* refresh: read the limits and apply them in one step, under refreshMu.  The slots
\* to be released are given back next, before t goes on.
Refresh(t) ==
    /\ max' = cfg.max /\ hold' = cfg.hold
    /\ todo' = [todo EXCEPT ![t] = Releasing]
    /\ freed' = [freed EXCEPT ![t] = FALSE]
AfterRefresh(frames) == IF Releasing = {} THEN frames ELSE <<"unpark">> \o frames

\* releaseParked leaves alone a run that resumed since the snapshot.
StillParked(r) == held[r] /\ slotParked[r]

\* releaseParked's first section, for one parked slot of refresh's snapshot; after
\* the last one refresh dispatches if any was released, and returns.
ReleaseParked(t) ==
    /\ In(t, "unpark")
    /\ \/ /\ todo[t] = {}
          /\ Leave(t, IF freed[t] THEN <<"disp">> ELSE <<>>)
          /\ freed' = [freed EXCEPT ![t] = FALSE]
          /\ UNCHANGED <<slots, todo, rel>>
       \/ \E r \in todo[t] :
          /\ todo' = [todo EXCEPT ![t] = @ \ {r}]
          /\ IF StillParked(r)
             THEN /\ slotParked' = [slotParked EXCEPT ![r] = FALSE]
                  /\ held' = [held EXCEPT ![r] = FALSE]
                  /\ slotYielded' = [slotYielded EXCEPT ![r] = TRUE]
                  /\ rel' = [rel EXCEPT ![t] = [run |-> r, held |-> TRUE, yielded |-> FALSE,
                                                pending |-> FALSE, yield |-> TRUE]]
                  /\ freed' = [freed EXCEPT ![t] = TRUE]
                  /\ Run(t, <<"settle">>)
             ELSE UNCHANGED <<slots, rel, freed, sub>>
    /\ UNCHANGED <<config, limits, lines, switches, counts, parked, claims, waitKind, pc, task>>

\* cancelWaiterLocked: the waiter of r gives back its grant or leaves the line.
WaiterLeftInLine(r) == prio                         \* mutant of WithoutWaiter
WithoutWaiter(r) == Without(prio, r)
GrantKept(r) == 0                                               \* mutant of Granted
Granted(r) == IF waiter[r] = "granted" THEN 1 ELSE 0

\* The section under slotScheduler.mu of release and of releaseParked.
Settle(t) ==
    LET d == rel[t] IN
    /\ In(t, "settle")
    /\ parked' = parked \ {d.run}
    /\ IF d.pending
       THEN /\ waiter' = [waiter EXCEPT ![d.run] = "none"]
            /\ prio' = WithoutWaiter(d.run)
       ELSE UNCHANGED <<waiter, prio>>
    /\ active' = active - (IF d.held THEN 1 ELSE 0) - (IF d.pending THEN Granted(d.run) ELSE 0)
    /\ yielded' = yielded + (IF d.yield /\ ~d.yielded THEN 1
                             ELSE IF ~d.yield /\ d.yielded THEN -1 ELSE 0)
    /\ rel' = [rel EXCEPT ![t] = NoRelease]
    /\ Leave(t, <<>>)
    /\ UNCHANGED <<config, limits, queued, switches, slots, pending, flight, waitKind, pc, task,
                   todo, freed>>

\* What release takes and cancels, and where it goes after its second section.
ReservationKept(r, yield) == FALSE                  \* mutant of Cancels
Cancels(r, yield) == ~yield /\ pending[r]
NoDispatch == <<>>                                  \* mutant of ThenDispatch
ThenDispatch == <<"disp">>

\* release's first section, for run r by its own goroutine.
BeginRelease(r, yield) ==
    LET p == Cancels(r, yield) IN
    IF p \/ held[r] \/ (slotYielded[r] /\ ~yield)
    THEN /\ rel' = [rel EXCEPT ![r] = [run |-> r, held |-> held[r], yielded |-> slotYielded[r],
                                       pending |-> p, yield |-> yield]]
         /\ pending' = [pending EXCEPT ![r] = @ /\ yield]
         /\ slotParked' = [slotParked EXCEPT ![r] = FALSE]
         /\ held' = [held EXCEPT ![r] = FALSE]
         /\ slotYielded' = [slotYielded EXCEPT ![r] = yield]
         /\ Run(r, <<"settle">> \o ThenDispatch)
    ELSE UNCHANGED <<rel, pending, slots, sub>>

----------------------------------------------------------------------------
\* dispatch: refresh, then hand out free slots one per iteration.
Dispatch(t) ==
    /\ In(t, "disp")
    /\ Refresh(t)
    /\ Leave(t, AfterRefresh(<<"loop">>))
    /\ UNCHANGED <<config, lines, switches, counts, parked, slots, claims, waitKind, pc, task, rel>>

GrantResumed(t) ==
    /\ In(t, "loop") /\ Capacity /\ prio # <<>>
    /\ waiter' = [waiter EXCEPT ![Head(prio)] = "granted"]
    /\ prio' = Tail(prio)
    /\ active' = active + 1
    /\ UNCHANGED <<config, limits, queued, switches, yielded, parked, slots, pending, flight,
                   waitKind, pc, sub, task, locals>>

CanStart(t) == /\ In(t, "loop") /\ Capacity /\ prio = <<>> /\ queued # <<>>
               /\ ~retrying /\ ~startHold

\* start claimed the oldest queued run: its goroutine begins with the slot.
StartQueued(t) ==
    /\ CanStart(t)
    /\ LET r == Head(queued) IN
       /\ held' = [held EXCEPT ![r] = TRUE]
       /\ Goto(r, "work")
    /\ queued' = Tail(queued)
    /\ active' = active + 1
    /\ UNCHANGED <<config, limits, prio, switches, yielded, parked, slotYielded, slotParked, claims,
                   waitKind, sub, task, locals>>

\* start found the row no longer queued (or the daemon stopping): the run leaves
\* the line and the dispatching goroutine releases the fresh slot itself.
DropUnclaimed(t) ==
    /\ CanStart(t)
    /\ LET r == Head(queued) IN
       /\ rel' = [rel EXCEPT ![t] = [run |-> r, held |-> TRUE, yielded |-> FALSE,
                                     pending |-> FALSE, yield |-> FALSE]]
       /\ Goto(r, "done")
    /\ Run(t, <<"settle", "disp">>)
    /\ queued' = Tail(queued)
    /\ active' = active + 1
    /\ UNCHANGED <<config, limits, prio, switches, yielded, parked, slots, claims, waitKind,
                   task, todo, freed>>

\* The claim could not be written: the run keeps its place until a timer retries.
ClaimFails(t) ==
    /\ CanStart(t)
    /\ retrying' = TRUE
    /\ Leave(t, <<>>)
    /\ UNCHANGED <<config, limits, lines, startHold, counts, parked, slots, claims, waitKind, pc, task, locals>>

DispatchDone(t) ==
    /\ In(t, "loop")
    /\ \/ ~Capacity
       \/ prio = <<>> /\ (queued = <<>> \/ retrying \/ startHold)
    /\ Leave(t, <<>>)
    /\ UNCHANGED <<config, limits, lines, switches, counts, parked, slots, claims, waitKind, pc, task, locals>>

----------------------------------------------------------------------------
\* Places of a run's main goroutine, and of an agent invocation, after Acquire.
Working(t) == IF t \in Runs THEN "work" ELSE "agent"
Failing(t) == IF t \in Runs THEN "stop" ELSE "idle"

Doing(h, kind, r) == task[h] = [kind |-> kind, run |-> r]
\* Executor.mu of r is held by the handler that accepts a response to its gate.
GateLocked(r) == \E h \in Helpers : Doing(h, "respond", r)
\* An invocation is a call of its step, which does not go on before it returns.
AgentsNotJoined(r) == FALSE                         \* mutant of AgentsBusy
AgentsBusy(r) == \E h \in Helpers : Doing(h, "agent", r)
AdmitUnlocked == FALSE                              \* mutant of AdmitLocked
AdmitLocked   == \E h \in Helpers : task[h].kind = "admit"

\* mutant of Begin
BeginForgetsRun(h, kind, r) == At(h, "idle") /\ task' = [task EXCEPT ![h].kind = kind]
Begin(h, kind, r) == At(h, "idle") /\ task' = [task EXCEPT ![h] = [kind |-> kind, run |-> r]]
End(h) == task' = [task EXCEPT ![h] = NoTask]

\* The operator edits the config file.
EditConfig ==
    /\ edits < MaxEdits
    /\ cfg' \in Configs \ {cfg}
    /\ edits' = edits + 1
    /\ UNCHANGED <<limits, lines, switches, counts, parked, slots, claims, waitKind, pc, sub, task, locals>>

\* The limit watcher's tick.  It runs once startup has released the queue.
Tick ==
    /\ At(Watcher, "idle") /\ ~startHold
    /\ Run(Watcher, <<"disp">>)
    /\ UNCHANGED <<config, limits, lines, switches, counts, parked, slots, claims, waitKind, pc, task, locals>>

\* Startup releases the queue, or the claim-retry timer fires: both dispatch.
ReleaseQueue ==
    /\ At(Watcher, "idle") /\ startHold
    /\ startHold' = FALSE
    /\ Run(Watcher, <<"disp">>)
    /\ UNCHANGED <<config, limits, lines, retrying, counts, parked, slots, claims, waitKind, pc, task, locals>>

RetryClaim(h) ==
    /\ retrying /\ At(h, "idle")
    /\ retrying' = FALSE
    /\ Run(h, <<"disp">>)
    /\ UNCHANGED <<config, limits, lines, startHold, counts, parked, slots, claims, waitKind, pc, task, locals>>

\* admitRun, under admitMu: tryAdmit, or insertion into the start order.
Admit(h, r) ==
    /\ pc[r] = "new" /\ ~AdmitLocked
    /\ Begin(h, "admit", r)
    /\ Goto(h, "try") /\ Refresh(h) /\ Run(h, AfterRefresh(<<>>))
    /\ UNCHANGED <<config, lines, switches, counts, parked, slots, claims, waitKind, rel>>

TryAdmit(h) ==
    LET r == task[h].run IN
    /\ At(h, "try")
    /\ IF Capacity /\ prio = <<>> /\ queued = <<>>
       THEN /\ active' = active + 1
            /\ held' = [held EXCEPT ![r] = TRUE]
            /\ pc' = [pc EXCEPT ![h] = "idle", ![r] = "work"]
            /\ End(h)
       ELSE /\ pc' = [pc EXCEPT ![h] = "enq"]
            /\ UNCHANGED <<active, held, task>>
    /\ UNCHANGED <<config, limits, lines, switches, yielded, parked, slotYielded, slotParked, claims,
                   waitKind, sub, locals>>

\* The queued row is written, and the run enters the line; or the write fails
\* and the launch is refused.
Enqueue(h) ==
    LET r == task[h].run IN
    /\ At(h, "enq")
    /\ \/ /\ queued' = Append(queued, r)
          /\ pc' = [pc EXCEPT ![h] = "admitted", ![r] = "queued"]
          /\ Run(h, <<"disp">>)
       \/ /\ pc' = [pc EXCEPT ![h] = "admitted", ![r] = "done"]
          /\ UNCHANGED <<queued, sub>>
    /\ UNCHANGED <<config, limits, prio, switches, counts, parked, slots, claims, waitKind, task, locals>>

\* admitMu is released after the dispatch.
Admitted(h) ==
    /\ At(h, "admitted")
    /\ Goto(h, "idle") /\ End(h)
    /\ UNCHANGED <<config, limits, lines, switches, counts, parked, slots, claims, waitKind, sub, locals>>

\* cancelManagedRun of a queued run: removeQueuedLocked.
CancelQueued(r) ==
    /\ pc[r] = "queued"
    /\ queued' = Without(queued, r)
    /\ Goto(r, "done")
    /\ UNCHANGED <<config, limits, prio, switches, counts, parked, slots, claims, waitKind, sub, task, locals>>

----------------------------------------------------------------------------
\* The run parks at an approval gate: the gate is published, then yielded
\* unless it has been answered already.
Park(r) ==
    /\ At(r, "work") /\ ~AgentsBusy(r)
    /\ waitKind' = [waitKind EXCEPT ![r] = "gate"]
    /\ Goto(r, "gate")
    /\ UNCHANGED <<config, limits, lines, switches, counts, parked, slots, claims, sub, task, locals>>

YieldAtGate(r) ==
    /\ At(r, "gate") /\ ~GateLocked(r)
    /\ IF waitKind[r] = "answered"
       THEN Goto(r, "parked") /\ UNCHANGED <<limits, todo, freed, sub>>
       ELSE Goto(r, "mark") /\ Refresh(r) /\ Run(r, AfterRefresh(<<>>))
    /\ UNCHANGED <<config, lines, switches, counts, parked, slots, claims, waitKind, task, rel>>

\* The CI step polls: YieldSlot.
PollCI(r) ==
    /\ At(r, "work") /\ ~AgentsBusy(r)
    /\ waitKind' = [waitKind EXCEPT ![r] = "ci"]
    /\ Goto(r, "mark") /\ Refresh(r) /\ Run(r, AfterRefresh(<<>>))
    /\ UNCHANGED <<config, lines, switches, counts, parked, slots, claims, task, rel>>

\* markParkedHeld under both locks, else release(true).
Mark(r) ==
    /\ At(r, "mark")
    /\ Goto(r, "parked")
    /\ IF hold
       THEN /\ IF held[r] THEN /\ slotParked' = [slotParked EXCEPT ![r] = TRUE]
                               /\ parked' = parked \cup {r}
                          ELSE UNCHANGED <<slotParked, parked>>
            /\ UNCHANGED <<held, slotYielded, pending, rel, sub>>
       ELSE BeginRelease(r, TRUE) /\ UNCHANGED parked
    /\ UNCHANGED <<config, limits, lines, switches, counts, flight, waiter, waitKind, task, todo, freed>>

\* A run claims a slot once: not beside a reservation or a flight.
Unclaimed(r) == ~pending[r] /\ ~flight[r]

\* Reserve, under both locks: a held slot stops being parked; otherwise the run
\* takes a free slot or a place in the resumed line, once.
ReserveSlot(r) ==
    IF held[r]
    THEN /\ slotParked' = [slotParked EXCEPT ![r] = FALSE]
         /\ parked' = parked \ {r}
         /\ UNCHANGED <<pending, waiter, prio, active>>
    ELSE /\ UNCHANGED <<slotParked, parked>>
         /\ IF Unclaimed(r)
            THEN /\ pending' = [pending EXCEPT ![r] = TRUE]
                 /\ IF Capacity /\ prio = <<>>
                    THEN /\ active' = active + 1 /\ prio' = prio
                         /\ waiter' = [waiter EXCEPT ![r] = "granted"]
                    ELSE /\ prio' = Append(prio, r) /\ active' = active
                         /\ waiter' = [waiter EXCEPT ![r] = "waiting"]
            ELSE UNCHANGED <<pending, waiter, prio, active>>

\* A handler accepts a response to the published gate of r, and reserves.
Respond(h, r) ==
    /\ sub[r] = <<>> /\ pc[r] \in {"gate", "parked"} /\ waitKind[r] = "gate" /\ ~GateLocked(r)
    /\ Begin(h, "respond", r)
    /\ Goto(h, "answer") /\ Refresh(h) /\ Run(h, AfterRefresh(<<>>))
    /\ UNCHANGED <<config, lines, switches, counts, parked, slots, claims, waitKind, rel>>

Answer(h) ==
    /\ At(h, "answer")
    /\ ReserveSlot(task[h].run)
    /\ waitKind' = [waitKind EXCEPT ![task[h].run] = "answered"]
    /\ Goto(h, "idle") /\ End(h)
    /\ UNCHANGED <<config, limits, queued, switches, yielded, held, slotYielded, flight, sub, locals>>

----------------------------------------------------------------------------
\* Acquire: by the run's main goroutine when its wait is over (answered,
\* reconciled, or CI needs work) ...
Resume(r) ==
    /\ At(r, "parked") /\ ~GateLocked(r)
    /\ waitKind' = [waitKind EXCEPT ![r] = IF @ = "gate" THEN "answered" ELSE @]
    /\ Goto(r, "resv") /\ Refresh(r) /\ Run(r, AfterRefresh(<<>>))
    /\ UNCHANGED <<config, lines, switches, counts, parked, slots, claims, task, rel>>

\* ... and by every agent invocation of a working or polling run.
RunAgent(h, r) ==
    /\ sub[r] = <<>> /\ pc[r] \in {"work", "parked"} /\ waitKind[r] \in {"none", "ci"}
    /\ Begin(h, "agent", r)
    /\ Goto(h, "resv") /\ Refresh(h) /\ Run(h, AfterRefresh(<<>>))
    /\ UNCHANGED <<config, lines, switches, counts, parked, slots, claims, waitKind, rel>>

Again(t) ==
    /\ At(t, "acq")
    /\ Goto(t, "resv") /\ Refresh(t) /\ Run(t, AfterRefresh(<<>>))
    /\ UNCHANGED <<config, lines, switches, counts, parked, slots, claims, waitKind, task, rel>>

AcquireReserve(t) ==
    /\ At(t, "resv")
    /\ ReserveSlot(Target(t))
    /\ Goto(t, "take")
    /\ UNCHANGED <<config, limits, queued, switches, yielded, held, slotYielded, flight, waitKind, sub, task, locals>>

\* Acquire's section after Reserve: already held, another flight, or its own.
Take(t) ==
    LET r == Target(t) IN
    /\ At(t, "take")
    /\ IF held[r] THEN Goto(t, Working(t)) /\ UNCHANGED <<pending, flight>>
       ELSE IF flight[r] THEN Goto(t, "join") /\ UNCHANGED <<pending, flight>>
       ELSE IF ~pending[r] THEN Goto(t, "acq") /\ UNCHANGED <<pending, flight>>
       ELSE /\ pending' = [pending EXCEPT ![r] = FALSE]
            /\ flight' = [flight EXCEPT ![r] = TRUE]
            /\ Goto(t, "wait")
    /\ waitKind' = [waitKind EXCEPT ![r] = IF held[r] /\ t \in Runs THEN "none" ELSE @]
    /\ UNCHANGED <<config, limits, lines, switches, counts, parked, slots, waiter, sub, task, locals>>

AfterGrant(r) == IF slotYielded[r] THEN "count" ELSE "land"

\* waitForSlot sees the grant: setHeld's section under the slot's lock.
SetHeld(t) ==
    LET r == Target(t) IN
    /\ At(t, "wait") /\ waiter[r] = "granted"
    /\ held' = [held EXCEPT ![r] = TRUE]
    /\ slotYielded' = [slotYielded EXCEPT ![r] = FALSE]
    /\ waiter' = [waiter EXCEPT ![r] = "none"]
    /\ Goto(t, AfterGrant(r))
    /\ UNCHANGED <<config, limits, lines, switches, counts, parked, slotParked, pending, flight,
                   waitKind, sub, task, locals>>

\* setHeld's section under the scheduler's lock.
CountResumed(t) ==
    /\ At(t, "count")
    /\ yielded' = yielded - 1
    /\ Goto(t, "land")
    /\ UNCHANGED <<config, limits, lines, switches, active, parked, slots, claims, waitKind, sub, task, locals>>

\* waitForSlot sees its context end, even beside a grant (select picks either).
CancelWait(t) ==
    LET r == Target(t) IN
    /\ At(t, "wait")
    /\ active' = active - Granted(r)
    /\ prio' = WithoutWaiter(r)
    /\ waiter' = [waiter EXCEPT ![r] = "none"]
    /\ Goto(t, "drop") /\ Run(t, <<"disp">>)
    /\ UNCHANGED <<config, limits, queued, switches, yielded, parked, slots, pending, flight,
                   waitKind, task, locals>>

\* The flight ends, and every goroutine waiting on it looks again.
Land(t) ==
    LET r == Target(t) IN
    /\ sub[t] = <<>> /\ pc[t] \in {"land", "drop"}
    /\ flight' = [flight EXCEPT ![r] = FALSE]
    /\ pc' = [u \in Threads |->
                IF u = t THEN IF pc[t] = "land" THEN Working(t) ELSE Failing(t)
                ELSE IF pc[u] = "join" /\ Target(u) = r THEN "acq" ELSE pc[u]]
    /\ waitKind' = [waitKind EXCEPT ![r] = IF pc[t] = "land" /\ t \in Runs THEN "none" ELSE @]
    /\ IF pc[t] = "drop" /\ t \in Helpers THEN End(t) ELSE task' = task
    /\ UNCHANGED <<config, limits, lines, switches, counts, parked, slots, pending, waiter, sub, locals>>

CancelJoin(t) ==
    /\ At(t, "join")
    /\ Goto(t, Failing(t))
    /\ IF t \in Helpers THEN End(t) ELSE task' = task
    /\ UNCHANGED <<config, limits, lines, switches, counts, parked, slots, claims, waitKind, sub, locals>>

AgentDone(h) ==
    /\ At(h, "agent")
    /\ Goto(h, "idle") /\ End(h)
    /\ UNCHANGED <<config, limits, lines, switches, counts, parked, slots, claims, waitKind, sub, locals>>

\* The run ends (completed, failed, cancelled, aborted or panicked): Release.
Finish(r) ==
    /\ sub[r] = <<>> /\ pc[r] \in {"work", "gate", "parked", "stop"}
    /\ ~GateLocked(r) /\ ~AgentsBusy(r)
    /\ waitKind' = [waitKind EXCEPT ![r] = "none"]
    /\ Goto(r, "done") /\ BeginRelease(r, FALSE)
    /\ UNCHANGED <<config, limits, lines, switches, counts, parked, flight, waiter, task, todo, freed>>

----------------------------------------------------------------------------
Scheduler(t) == \/ ReleaseParked(t) \/ Settle(t) \/ Dispatch(t) \/ GrantResumed(t) \/ StartQueued(t)
                \/ DropUnclaimed(t) \/ ClaimFails(t) \/ DispatchDone(t)
Waiting(t)   == \/ Again(t) \/ AcquireReserve(t) \/ Take(t) \/ SetHeld(t) \/ CountResumed(t)
                \/ CancelWait(t) \/ Land(t) \/ CancelJoin(t)
RunStep(r)   == Park(r) \/ YieldAtGate(r) \/ PollCI(r) \/ Mark(r) \/ Resume(r) \/ Finish(r) \/ CancelQueued(r)
Handler(h)   == \/ \E r \in Runs : Admit(h, r) \/ Respond(h, r)
                \/ RetryClaim(h) \/ TryAdmit(h) \/ Enqueue(h) \/ Admitted(h) \/ Answer(h)
Agent(a)     == (\E r \in Runs : RunAgent(a, r)) \/ AgentDone(a)

Next == \/ EditConfig \/ Tick \/ ReleaseQueue
        \/ \E t \in Threads : Scheduler(t) \/ Waiting(t)
        \/ \E r \in Runs : RunStep(r)
        \/ \E h \in Handlers : Handler(h)
        \/ \E a \in Agents : Agent(a)

Spec == Init /\ [][Next]_vars

\* What a goroutine does by itself once it is inside the scheduler, or beside it in
\* the wrappers: it neither waits for a person nor for the end of its context.
Onward(t) == \/ Again(t) \/ AcquireReserve(t) \/ Take(t) \/ SetHeld(t) \/ CountResumed(t) \/ Land(t)
             \/ t \in Runs /\ (YieldAtGate(t) \/ Mark(t))
             \/ t \in Handlers /\ (TryAdmit(t) \/ Enqueue(t) \/ Admitted(t) \/ Answer(t))
             \/ t \in Agents /\ AgentDone(t)
GoesOn(t) == IF sub[t] # <<>> THEN Scheduler(t) ELSE pc[t] \in Inside \cup {"gate", "agent"} /\ Onward(t)

\* Goroutines keep running, a poll or an answered gate is resumed, a claim that is
\* retried succeeds in the end, the watcher ticks, and no run works, or goes round its
\* gates, for ever.  (Each run finishes once, so that strong fairness of "some run
\* finishes" is that of each of them.)
Fairness ==
    /\ \A t \in Threads : WF_vars(GoesOn(t))
    /\ SF_vars(\E t \in Threads : StartQueued(t) \/ DropUnclaimed(t))
    /\ \A r \in Runs : WF_vars(waitKind[r] \in {"answered", "ci"} /\ Resume(r))
    /\ SF_vars(\E r \in Runs : pc[r] \in {"work", "stop"} /\ Finish(r))
    /\ SF_vars(\E h \in Handlers : RetryClaim(h))
    /\ WF_vars(Tick) /\ WF_vars(ReleaseQueue)

FairSpec == Spec /\ Fairness

----------------------------------------------------------------------------
ConfigType   == cfg \in Configs /\ edits \in 0..MaxEdits
LimitsType   == max \in Nat /\ hold \in BOOLEAN
LinesType    == prio \in Seq(Runs) /\ queued \in Seq(Runs)
SwitchesType == retrying \in BOOLEAN /\ startHold \in BOOLEAN
CountsType   == active \in Int /\ yielded \in Int
SlotsType    == held \in [Runs -> BOOLEAN] /\ slotYielded \in [Runs -> BOOLEAN] /\ slotParked \in [Runs -> BOOLEAN]
ClaimsType   == /\ pending \in [Runs -> BOOLEAN] /\ flight \in [Runs -> BOOLEAN]
                /\ waiter \in [Runs -> {"none", "waiting", "granted"}]
StacksType   == sub \in [Threads -> Seq(Frames)]
ControlType  == /\ pc \in [Threads -> Places]
                /\ task \in [Helpers -> [kind : Jobs, run : Runs \cup {NoRun}]]
LocalsType   == todo \in [Threads -> SUBSET Runs] /\ freed \in [Threads -> BOOLEAN] /\ rel \in [Threads -> Release]
TypeOK == /\ ConfigType /\ LimitsType /\ LinesType /\ SwitchesType /\ CountsType /\ SlotsType /\ ClaimsType
          /\ StacksType /\ ControlType /\ LocalsType
          /\ parked \subseteq Runs /\ waitKind \in [Runs -> WaitKinds]

\* What the counter active has to stand for: slots held, slots granted to a
\* waiter that has not woken up, and slots whose release has passed its first
\* section only.
Used == {<<"held", r>> : r \in {q \in Runs : held[q]}}
        \cup {<<"granted", r>> : r \in {q \in Runs : waiter[q] = "granted"}}
        \cup {<<"leaving", t>> : t \in {u \in Threads : In(u, "settle") /\ rel[u].held}}

\* No slot is lost or counted twice, whatever the goroutines are in the middle of.
SlotsAccounted == active = Cardinality(Used)

\* A run that executes work, or an agent of it, holds the run's slot; and, until the
\* limit is edited, no more runs hold one than the limit allows.
WorkHoldsSlot ==
    /\ \A r \in Runs : At(r, "work") => held[r]
    /\ \A h \in Helpers : At(h, "agent") => held[task[h].run]
HoldersWithinLimit ==
    edits = 0 => max = 0 \/ Cardinality({r \in Runs : held[r]}) <= max
WorkWithinLimit == WorkHoldsSlot /\ HoldersWithinLimit

\* A run never claims a second slot: it has a waiter only while it holds none,
\* and one owner only: the reservation, the flight, or the release cancelling it.
\* And a finished run leaves nothing behind: no slot, no claim, no place in a line.
SingleClaim ==
    \A r \in Runs : waiter[r] # "none" =>
        /\ ~held[r]
        /\ pending[r] => ~flight[r]
        /\ \A t \in Threads :
            In(t, "settle") /\ rel[t].run = r /\ rel[t].pending => ~pending[r] /\ ~flight[r]

FinishedRunIsClean ==
    \A r \in Runs : pc[r] = "done" =>
        /\ ~held[r] /\ ~slotParked[r] /\ ~slotYielded[r] /\ ~pending[r] /\ ~flight[r]
        /\ r \notin {queued[i] : i \in 1..Len(queued)}
        /\ waiter[r] # "none" => \E t \in Threads : In(t, "settle") /\ rel[t].run = r
ClaimsSettled == SingleClaim /\ FinishedRunIsClean

\* Who has still to run a dispatch loop, now or on the way back from a call.
OwesDispatch(t) == \E i \in 1..Len(sub[t]) : sub[t][i] \in {"disp", "loop"}

\* No lost wakeup: until the limits are edited, a free slot and a run that may take
\* it never coexist unless some goroutine is about to dispatch.
NoLostWakeup ==
    /\ edits = 0 /\ Capacity
    /\ prio # <<>> \/ (queued # <<>> /\ ~retrying /\ ~startHold)
    => \E t \in Threads : OwesDispatch(t)

\* Start order: a new run starts only when no resumed run waits and no launch
\* that came before it is in the line, or on its way into the line.
Starts(r) == pc[r] \in {"new", "queued"} /\ pc'[r] = "work"
LaunchOrder ==
    [][\A r \in Runs : Starts(r) =>
        /\ prio = <<>>
        /\ queued = <<>> \/ Head(queued) = r
        /\ pc[r] = "new" => \A h \in Helpers : At(h, "enq") => task[h].run = r]_vars

\* A resumed run that waits in line gets its slot, unless parked runs may keep theirs.
ResumedRunServed ==
    \A r \in Runs : waiter[r] = "waiting" ~> waiter[r] # "waiting" \/ hold

\* An edit that makes room, or that lets parked runs yield, reaches the queued runs
\* without a restart and without any other event: the queue empties.
Room == cfg.max = 0 \/ cfg.max >= Cardinality(Runs) \/ ~cfg.hold
EditServesQueue == queued # <<>> /\ Room ~> queued = <<>> \/ ~Room
============================================================================
