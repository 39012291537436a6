# no-mistakes in TLA+

no-mistakes is a local daemon that validates a branch before it is published.
`git push no-mistakes` goes to a bare repository on the same machine; its hook
tells the daemon, which runs a pipeline (`intent → rebase → review → test →
document → lint → push → pr → ci`) in a worktree of its own, asks a person or
an agent when a step needs a decision, and pushes to the real remote when all
steps are done.  This directory holds specifications of the parts of that
daemon whose correctness rests on the order in which goroutines, clients,
writes and restarts happen, the TLC runs that check them on small instances,
and the theorems about them that TLAPS proves for every instance.

Paths below are relative to `src/`.  `PROJECT.json` maps every definition that
models code to the lines it models.

Contents: [the system](#the-system) · [modules](#modules) · [runs](#runs) ·
[bounds](#bounds) · [fairness](#fairness) · [proofs](#proofs) ·
[findings](#findings) · [what is not modelled](#what-is-not-modelled) ·
[plan](#plan)

## The system

The program is about 150 000 lines of Go without its tests, and roughly three
times that with them.  Its parts, with the state each keeps, who calls it, what
makes it hard, and what has to hold for it to be right:

### Run-slot scheduler (`internal/daemon/scheduler.go`, `internal/pipeline/slot.go`)

*State.* The applied limits (`max`, `hold`), the counters `active` and
`yielded`, the set `parkedHeld`, the line `prio` of resumed runs, the line
`queued` of new runs; for each run a `runSlot` with flags `held`, `yielded`,
`parkedHeld`, a reserved waiter and a flight.
*Operations.* `tryAdmit`, `enqueue`, `dispatch`, `refresh`; `Reserve`,
`Acquire`, `Yield`, `Release`, `releaseParked`.
*Callers.* The run manager (launches, the queue, the limit watcher, cancellation
of queued runs), the executor (gates, the CI poll), every agent invocation.
*Hard.* Two locks, and sections between which the flags and the counters
disagree; several goroutines of one run that ask for its slot; a cancellation
beside a grant; configuration edits at any time.
*Correct when* the counter stands for exactly the slots in use, a run has one
claim at most, work happens only with a slot, a finished run leaves nothing
behind, launches keep their order, and nobody waits beside a free slot.

### Agent limiter (`internal/pipeline/slot.go`, second half)

*State.* `limit`, `active` and a line of channels, one for the whole process.
*Hard.* A select between an admission and a cancellation that happen together;
the limit changes while invocations wait.
*Correct when* no place is lost or given twice, starts respect the limit, the
line is served in order, and nobody waits beside a free place.

### Approval gates (`internal/pipeline/executor.go`, `gate_identity.go`, `slot.go`, `internal/db/step.go`)

*State.* In SQLite: the step's status, the gate's nonce, the pending response,
the run's `awaiting_agent_since`, the round's recorded selection.  In the
executor, under one mutex: `waiting`, the gate's identity, a channel of
capacity one, `slotWaitStep`.
*Callers.* RPC handlers (`respond`, `abort`, `cancel`), the run's goroutine and
its reconciliation ticks, startup recovery, shutdown.
*Hard.* Memory and rows are written in several steps; the daemon may stop or
die between any two; a client answers what it saw a moment ago; an abort arrives
while an answered gate waits for a slot.
*Correct when* each gate is answered once, by the answer that was recorded, at
the gate its author saw, whatever restarts; an accepted answer is applied or the
run ends; an accepted abort wins, which a recovery can break (see the findings).

### Run events and live views (`internal/daemon/eventmailbox.go`, `manager.go`, `daemon.go`, `internal/ipc/events.go`, `internal/tui`)

*State.* The run's rows, a state revision per run, one bounded mailbox per
subscriber; in the view: the rows shown, the last revision, the subscription,
the read in flight.
*Hard.* The writer never blocks on a slow reader, so frames are dropped, evicted
and folded; snapshots are read in steps beside new writes; streams end, break,
and start again at revision zero after a restart.
*Correct when* no state change is lost silently: once nothing is under way, the
view shows the database; the end of the run is shown.

### Run manager (`internal/daemon/manager.go`)

*State.* The table of owned runs with one of four states (queued, claimed,
recovering, finishing), the branch locks, each run's cancel handle and its two
completion channels (workload, custody), the shutdown state.
*Hard.* A new push supersedes the branch's runs while dispatch claims them from
the queue; an abort races completion; shutdown races launches; an outcome cannot
be written.
*Correct when* one run per branch is at work, a decided outcome is never
overwritten, a cancellation reaches the run it was accepted for, and custody ends
only when the outcome is durable.

### Terminal settlement and commit statuses (`internal/pipeline/commit_status.go`, `steps/commit_status.go`, `executor.go`, `internal/db/status_validation.go`, `internal/daemon/controlled_shutdown.go`)

*State.* In SQLite: the run's outcome, the record of the shutdown that cancelled
it, the publication (last posted state, certificate, preservation), the steps'
proofs.  At the forge: the status of the published head.  In the process: one
lock for all runs, a queue of terminal writes the store refused, a queue of raw
shutdowns, a loop that retries both.
*Callers.* Every run that ends, every status that is reported, the planned
shutdown, the raw shutdown, the next start.
*Hard.* Whoever takes or releases the lock runs the writes of others; a store may
refuse one run's writes for ever; a POST may succeed and its answer be lost; a
cancelled watcher keeps its green status only with an exact certificate; a raw
shutdown overtakes a planned one.
*Correct when* a certificate is never about something the forge does not show,
a status that does not show the outcome is found by the next start, an outcome
is final, a raw shutdown leaves no green status behind what it cut short, and no
run waits for another run's broken write.

### Push notifications (`internal/daemon/push_notifications.go`, the launch path of `manager.go`, `internal/db/push_notification.go`)

*State.* The gate's ref; one file per notification (the previous run, whether it
was validated); the rows that bind it to its run or to a diagnostic; the runs of
the branch with their launch nonces.
*Callers.* The post-receive hook, the operator who replays, `rerun`, fresh
launches with a nonce.
*Hard.* Git moves the ref before the daemon hears of it; what it hears may come
late, twice, in another order, or after a crash; the configuration may not load;
the pipeline moves the same ref.
*Correct when* a notification starts one run however often it is delivered or
replayed, nothing newer is superseded by something older, a nonce has one run,
and what was retained is admitted in the end unless the branch moved on.

### Other parts

| Part | State that changes | What is hard | Here |
| --- | --- | --- | --- |
| step loop, restarts (`pipeline/executor.go`) | round, step index, selected findings | auto-fix limits, rewinding to an earlier step, recovery in the middle | planned |
| fix decisions (`pipeline/gate_response.go`, `findings.go`) | dispositions folded over a gate's rounds | refused and cancelled responses between accepted ones | planned |
| gate repository (`gate`, `refreconcile`) | mirrored refs | a crash between a push and its ref | planned |
| branch synchronisation (`branchsync`), push lease (`steps/push.go`) | local, gate and target heads | heads move between inspection and write | planned |
| CI monitor (`cimonitor`, `steps/ci.go`) | observation epochs, attempts | late and contradictory checks | planned |
| AXI driver (`cli/axi_drive.go`) | as the live view | the second subscriber of the same stream | planned |
| daemon lock (`daemon/lock.go`), bounded logs (`logstore`), retries (`netretry`), worktree reaping | lock, PID file and socket; log files; budgets; directories | small races | planned |
| database (`db`, `sqlitewrite`) | rows | contention | its operations are parts of the actions that call them |
| agents, code hosts, git, configuration, intent, wizard, update, evaluation | — | external programs, parsing, user interaction | not planned |

How they meet: hooks and clients call the run manager over IPC; the manager asks
the scheduler for a slot, starts an executor in a worktree and hands it the slot;
the executor writes rows and broadcasts each write through the manager to the
mailboxes; RPC handlers reach the executor's gate through the manager's table;
views read rows through `get_run` and frames through their mailbox.

## Modules

Control is kept — every guard, early return, error path and critical section —
and data is abstracted to what the properties tell apart.  One action is one
section of code under a lock, one write transaction, or one step between two of
them.  History variables are marked as such where they are declared.  Definitions
marked "mutant of" are not part of a specification: each is a plausible mistake
in the definition it names, and `PROJECT.json` says which property notices it.

**`SlotScheduler`.**  Goroutines are `Threads`: a run's main goroutine, handlers
that launch runs or accept responses, agent invocations, and the limit watcher.
`pc` is the place in the calling code; `sub` is a stack of the scheduler's own
functions, because `refresh`, `release` and `dispatch` call each other from
everywhere: `"unpark"` is `refresh` releasing parked slots, `"settle"` the second
section of `release`, `"disp"` and `"loop"` are `dispatch`.  `rel[t]` holds what
`release` copied under the slot's lock for its second section; that gap is the
source of most hazards here.  `Admit … Admitted` is `admitRun`, `Park`,
`YieldAtGate`, `PollCI` and `Mark` are the waits that yield, `Respond`/`Answer`
the reservation at an accepted response, `Resume … Land` is `Acquire`.
`startQueuedRun` is `StartQueued`, `DropUnclaimed` or `ClaimFails`.  The limits
file is `cfg`, edited at any time; `refresh` copies it.

**`SlotSchedulerInv`** states the inductive invariant of all its safety properties,
**`MCSlotScheduler`** its instances, **`SlotScheduler_proofs`** the theorems.
**`Line`** is leaving a line of runs wherever one stands in it, for the scheduler's
lines and the manager's queue; **`Line_proofs`** its typing.

**`AgentLimiter`**, **`MCAgentLimiter`**, **`AgentLimiter_proofs`.**  The
semaphore of agent subprocesses.  A closed channel is absence from the line.
`CtxDone` and `Proceed` are the two branches of the select, both enabled when
both are ready; `Leave` is the section that finds the waiter in the line or finds
it admitted.

**`GateLedger`** is the abstract specification: gates are opened, claimed once,
and the claim is applied or the gate is voided.  **`GateResponse`** is the
detailed one: an executor, its clients, its rows, and a daemon that stops, dies
and recovers.  A gate's number stands for its nonce.  `row` is what SQLite holds;
`waiting`, `gate`, `chan` and `answered` are the executor's memory; `mine` is the
response in the goroutine's hands; `slot` is the part of the run's slot that the
gate code can see.  A fix response is two writes (`RecordDecision`, `Accept`) and
holds the executor's mutex between them; every other response is one.
"approve" stands for `skip` as well: both complete the step.  `"reconcile"` and
`"resume"` are claims that the executor's own ticks make.  After `Dispatch` the
rest of the step is one choice: `Apply` (done, or run again), `Invalidate` (the
PR moved and the answer lost its authority) or `ContextFails`.  A recovered gate is
"recovering" while it waits for its slot, when an abort cancels the run, and
"resuming" from `BeginResume` on, when the manager has claimed the run and an abort
goes to the executor's channel, though the executor has yet to check the PR
(`Resume`, `ResumeFails`, `ResumeEnds`, `ResumeInvalidated`).
**`GateResponseInv`** holds the inductive invariant, **`GateResponse_proofs`** the
theorems of both.  `MaxEvents` bounds stops, crashes and
refused writes together.

`Grant` in `GateResponse` is `SlotScheduler` seen from one run; that a reserved
waiter is granted in the end is `ResumedRunServed` there, and a fairness
assumption here.

**`EventBroker`** is one run's rows, the goroutine that writes and announces
them, the revision, the mailbox and the wire of one subscriber.  A row's value is
its version; row 0 is the run.  `silent` marks rows whose last write no event
announces (inserted rows, rewound steps, a step closed with its run): the broker
promises nothing about them.  **`TuiView`** extends it with the subscriber:
`Connect`, `Receive`, the read in its three steps (`Sample`, `ReadRun`,
`ReadSteps`), `Reconciled`, `ReadFails`, `RetryReview`.  It is the composition of
two components that share the wire and the database.  **`TuiViewInv`** holds the
inductive invariant of the two, **`TuiView_proofs`** the theorems.

**`RunOwnership`** is the run manager: the table `m.runs` (`table`, `cause`,
`stopped`) beside the rows of several runs on several branches.  `pc[r]` is the
goroutine that works for a run: the request that launches it, from `Begin` to
`Attach`, then the run's own.  `Insert … Register` is
`startRunWithIntentSourceLocked` (`todo` is the snapshot of `activeRunIDs`,
`waits` the channels `cancelRunIDs` collected); `StartQueued`, `DropQueued`,
`ClaimFails` are the three ends of `startQueuedRun`; `CreateWorktree … Attach` is
`launchRun`; `Start … Depart` is what `Execute`, `Resume`, `FailRun` and
`completeRun` mean to the manager, in the order outcome, slot, signal, custody.
`Leave`, `LeftReleases`, `LeftDeparts` are the end of a run that a shutdown found
at its gate.  `Boot` is `recoverOnStartup` and the restored queue in one step,
because nobody is served before it ends.  The slots are used through what
`SlotScheduler` shows of them, an approval gate through parking and answering.
`store` is a database that refuses writes for a while: every write of an outcome
is repeated until it succeeds (`SettleTerminalWrite`), every other one fails its
operation.  **`RunRow`** is the abstract specification of the rows as clients see
them, **`RunOwnershipInv`** the inductive invariant, **`RunOwnership_proofs`** the
theorems, **`MCRunOwnership`** the instances.

**`StatusSettlement`** is the end of several runs and the statuses that speak for
them.  `row`, `record`, `pub` and `proof` are the database (`runs`,
`controlled_shutdown_runs`, the one active publication of a run, the proofs of the
present epoch, which are there or not); `host` is what the forge shows.
`lock`, `drain`, `rawq` and `queue` are `CommitStatusLock`, what its holder is
doing with the queues, and the two queues; a thread is a run, the raw shutdown
(`Shut`) or the recovery loop (`Loop`).  `Acquire`, the drain (`CancelRuns`,
`SupersedeUncommittedCancellations`, `RawRefused`, `DrainWrites`, `DrainRefused`),
`Acquired` and `Unlock` are `AcquireCommitStatusLock` and
`ReleaseCommitStatusLock`, each write of which is a step of its own, because it is
a transaction during which others cancel, bind and record.  `CompleteRun`,
`FailRun`, `SettleTerminalWrite` are the three places where an outcome is
written; `job[r]` is what `FailRun`'s closure has decided and carries into its
retry (`Retries`: the first attempt may have found the watcher's worktree changed).
`Reads`, `Posts`, `PutCommitStatusPublication` are the reporter;
`BindPlanned`, `PrepareControlledShutdown`, `CancelPlanned` the planned shutdown;
`RecordRawShutdown` and the raw queue the raw one; `Restart` is a crash, or the
exit, with the next start's recovery and its reports.  A stale or foreign
certificate is no certificate here; an inspection that fails is the second
disjunct of `TerminalWrite`.  **`StatusSettlementInv`** states the inductive
invariant, **`MCStatusSettlement`** the instance, **`StatusSettlement_proofs`** the
theorems.
`RunOwnership` has the same runs with their custody and without their statuses;
its `store` is `Refused` and the fault "refusal" here.

**`PushNotifications`** is one branch of a gate.  `push` is what Git accepted, in
order; `rec[i]` a retained notification with its rows (`ran`, the admitted run,
`diag`, the diagnostic one, `prev`, the run it found when it was retained);
`run[r]` the rows of `runs` that matter to later launches.  `job` is the launch
that holds the branch lock: `Receive` or `Replay` retains or finds the file,
`Validate` marks it, `Attach`, `ShareDiagnostic`, `Superfluous` and `Proceed` are
the ways out of `reattachReceivedRun`, `Diagnose`, `NoConfig`, `Insert`,
`Supersede`, `Admit` the rest of `startRunWithIntentSourceLocked`.  Pushes,
commits and publications of the running pipeline, ends of runs, edits of the
configuration and crashes happen between any two of these steps.  What becomes of
an admitted run, and how a superseded one stops, is `RunOwnership`.  `AskRerun`
resolves a rerun's head outside the lock, as `HandleRerun` does.
**`PushNotifications_proofs`** has the inductive invariant and the theorems.

## Runs

| Run | Module, config | What it asks |
| --- | --- | --- |
| `slots_safety` | `MCSlotScheduler`, `SlotScheduler_safety.cfg` | Two runs, two handlers, a parallel agent, one slot: can any order of sections lose or double a slot, let work go on without one, leave something behind a finished run, pass a launch in the line, or leave a free slot with no goroutine about to hand it out? |
| `slots_live` | `MCSlotScheduler`, `SlotScheduler_live.cfg` | From a startup with a queued and a recovered run and one edit, which adds a second slot or switches the hold policy: is every resumed run served, and does an edit that makes room reach the queue by itself?  216 thousand states. |
| `agents_limit` | `MCAgentLimiter`, `AgentLimiter.cfg` | Four invocations and a limit that changes at will between none, one, two and three. |
| `gate` | `GateResponseInv`, `GateResponse.cfg` | Two clients, two gates, and any three of two stops or crashes and a refused write: do memory and rows agree, is what was accepted kept and applied where it belongs, does an abort win, is the detailed gate an implementation of the ledger, and is an accepted answer dispatched or its run ended?  1.3 million states. |
| `gate_refused_fix` | `GateResponse`, `GateResponse_refused.cfg` | Expected violation: the selection of a refused fix response reaches the fixer. |
| `events` | `TuiView`, `TuiView.cfg` | A stream through a mailbox of two frames, with one of a log frame, a broken connection, a pruned run and a crash, and one failed read: is the view current whenever nothing is under way, and does it show the end of the run?  655 thousand states. |
| `events_reattach` | `TuiView`, `TuiView_crash.cfg` | Expected violation: after a restart of the daemon the view is attached and stays stale. |
| `ownership_safety` | `MCRunOwnership`, `RunOwnership_safety.cfg` | Three runs, two of them on one branch, one slot, and any two of abort, shutdown, death and outage: who owns a run, who is at work on a branch, who holds the slot and the worktree, and what becomes of the rows? |
| `ownership_live` | `MCRunOwnership`, `RunOwnership_live.cfg` | With two runs on one branch: do cancellations, launches, the queue and a shutdown come to their ends? |
| `ownership_restart` | `MCRunOwnership`, `RunOwnership_restart.cfg` | Expected violation: a shutdown during a supersession, and the start after it, leave two active runs on a branch. |
| `status` | `MCStatusSettlement`, `StatusSettlement.cfg` | A run that watches its checks or is parked, which a user may abort, beside one that works, left its validation to the forge, and whose writes the store refuses for good; one refused write, failed POST, timed-out lock or restart; both shutdowns: do the forge, the publication and the outcome tell the same, and is a write told its result though the other run's never lands?  1.06 million states. |
| `pushes` | `PushNotifications`, `PushNotifications.cfg` | Two pushes (either may create, move or delete the branch, with or without a nonce), two deliveries of either, two runs, one trouble (crash, failed step, or configuration that does not load): is each validated once, nothing newer replaced, everything admitted in the end?  931 thousand states. |

What the properties say, and the code behind them:

* **`SlotsAccounted`** — `active` counts the slots held, the grants whose waiter
  has not woken up, and the releases between their two sections, and nothing
  else.  **`ClaimsSettled`** (`SingleClaim`, `FinishedRunIsClean`) and
  **`WorkWithinLimit`** (`WorkHoldsSlot`, `HoldersWithinLimit`)
  relate the flags, the waiters and the places of several goroutines in the same
  way.  **`NoLostWakeup`** says that room and a waiter exist together only while
  a goroutine still owes a `dispatch`. **`LaunchOrder`** is `admitRun`'s promise
  that "a later launch can never be admitted into a slot that freed while an
  earlier launch was still on its way into the queue".
* **`NoIdlePlace`** and **`WaiterServed`** — the same questions for the agents'
  semaphore, with a limit that may be negative in the file.  `PlacesAccounted` and
  `WithinLimit` are proved and not run.
* **`MemoryMatchesRow`** — from the moment a gate is published until its wait is
  over, the executor's memory and the row name the same gate and agree whether
  it is answered, over crashes, and a run that ended shows no gate.
  **`AcceptedKept`**: an accepted answer is on the row, being applied, applied,
  dropped with its gate, or the run is ending, and the place it reserved in the
  scheduler is not given back (`SlotClaimKept`). **`AnswersItsGate`** is the promise
  of the comments in `gate_identity.go`.  **`AbortWins`** is that of `slot.go`, "never
  dispatch an accepted response after abort": once this daemon has accepted an abort or
  a cancellation nothing is dispatched, but for an abort that a recovery dropped with
  its gate.  **`KeepsLedger`** is the refinement.
* **`ViewTruthful`** — once nothing is under way the view shows the rows, but for
  rows no event announces (`ViewCurrent`), and a view that holds revision *n*
  has seen every write that revisions 1 to *n* announced (`RevisionSeen`); this is
  why `runSnapshot` samples before it reads.  The type invariant of `TuiView` holds
  the mailbox to its bounds, with an exact byte count after evictions.
  **`EndShown`**: the end of the run is shown, or the view says that it cannot
  read it, or the daemon has forgotten the run meanwhile (see the findings).
* **`RowsOwned`** — while the daemon runs, a row that is not terminal has an owner:
  a table entry, the launching request, or, at its gate, the next start.
  **`ReplacementWaits`** — runs of one branch are not at work together, because
  supersession waits for the work it replaces; the module states the one exception
  (finding 3).  **`QueuesAgree`** — row, table and queue say the same about a queued
  run, though an abort, a supersession and dispatch all take it out of the three.
  **`RowsImplement`** is the
  refinement: nothing is written over an outcome.  **`ExitSettles`**: `wg.Wait()`
  covers every run but one whose request is still launching it.
  **`CancelStops`**, **`LaunchServed`** and **`ShutdownEnds`** are the promises in
  time.  `CustodyKept` (what frees the slot is the end of the work, what frees the
  worktree is the durable outcome) is proved and not run.
* **`StatusTruthful`** — a certificate in the database is about a success that the
  forge shows, whatever became of the POSTs after it; and a decided run whose status
  on the forge is not its outcome is one that `CommitStatusRecoveryRunIDs` lists,
  unless its reporter is at work.  This is why the reporter revokes before it posts
  and records after it.  **`RawSupersedes`** — what a raw shutdown cancelled before
  its outcome was written does not complete and does not keep its green status,
  whichever of `completeRun`, a planned preservation and a settlement retried later
  writes the outcome.  **`OutcomeIsFinal`** — the queued write that lands late, the
  second shutdown and the next start change no outcome and take no preservation back.
  **`SettlementServed`** — a queued write whose store is healthy is answered, though
  the one before it in the queue is refused for ever.
* **`StartedByOne`** — the run that a notification started is the run it names, over
  crashes between any two steps.  **`ValidatedOnce`** — however often a push is
  delivered or replayed, after its run another one for the same update is started only
  when the branch has been elsewhere: a run of another commit, a validated push away
  from this one, or a launch that no push made; a nonce has one
  run.  **`NewerWorkKept`** — a notification supersedes nothing that is newer than
  itself.  **`PushServed`** — what was retained is admitted in the end, if the branch
  does not move on.

Two scheduler formulas are stated for `edits = 0` (`HoldersWithinLimit`,
`NoLostWakeup`).  A lowered limit interrupts nobody, and a raised one is applied
by whichever goroutine refreshes first, which may be one that does not dispatch
(`Reserve`, `Acquire`, `Yield`): the two-second watcher notices, which is what
`EditServesQueue` checks: room for all runs, or a policy that lets parked ones yield,
empties the queue unless it is edited away again.  Its mutant `ReleasingNone` forgets
the parked slots; without the watcher's dispatch TLC refutes it by a raised limit alone.

Deadlock is not checked where the system really stops: a finished run in
`GateResponse` and `TuiView`, all runs finished in `RunOwnership` and
`StatusSettlement`, the pushes and runs used up in `PushNotifications`.  The scheduler's runs check it.

## Bounds

* *Scheduler.*  One slot for two runs and two helpers is the smallest instance
  with contention between a launch, a resumption and a second goroutine of the
  same run; every property relates at most two runs and two goroutines.
  `Agents = {h1}` is a handler too, so it can launch a run and later work as its
  agent.  `slots_live` starts with a queued row and a recovered gate, one slot and
  either hold policy, and has one edit at any moment: to two slots, to no hold, or to
  hold (`OneOrTwo`, `OneSlot`).  No limit (0) and larger ones are in the theorems.
* *Limiter.*  Four invocations with limits up to three reach a line of three
  behind one, and a line of one behind three.
* *Gates.*  Two requests are enough for a client to answer, and another to
  answer, abort or cancel between any two steps; two gates for an answer that
  outlives its gate; two stops for a crash during recovery; one refused write for
  each of the error paths; three events in all, so that a refused write can meet
  two stops, or two stops another refusal's repetition.
* *Events.*  Mailboxes of one and two frames fill after one or two writes, which
  is what 64 frames and 1 MiB do later.  The passing run has frames of one size; in
  that of `events_reattach` sizes 1 and 2 make the byte bound and the frame bound
  bite separately, in the states TLC visits before it finds the violation.  Two
  versions of a row tell stale from current; one failed read, and one log frame,
  crash, broken connection or pruning (`MaxUses = 1`), are taken at any moment.  A
  rewind needs a second step, which this run does not have; the theorems cover it.
  `MaxTries` is 1 or 2 instead of 60.
* *Ownership.*  Every property relates at most two runs of a branch; the third run,
  of another branch, takes the slot that one of the two waits for, which fills the
  queue.  One gate per run gives parking, answering, leaving and resuming.  Two
  events reach a shutdown after an abort, a death during recovery, an outage while a
  run is being aborted; three million states.  `ownership_live` leaves the third
  run out and keeps the two events.
* *Settlement.*  Two runs are needed for one whose writes are refused for good to
  stand before another's in the queue; the third and fourth thread are the shutdown
  and the recovery loop.  The properties relate one run to its own status, record
  and publication; the other run only holds the lock, fills the queue and is in the
  snapshots.  Any one fault at any point suffices for a lost POST, a refused write,
  a restart; two of them would add a fault during a recovery.
* *Pushes.*  Two heads give a push, one that replaces it, and one that returns to
  the first; two deliveries give the duplicate, the reversal of order and the replay
  of the older one after the newer; two runs give a predecessor and its successor.
  One trouble gives the crash between retention and admission.

## Fairness

Nothing is assumed about people: nobody has to answer a gate, push, edit a file
or retry, and no step has to pass.  Assumed are that the Go scheduler runs a
goroutine that can go on (weak fairness of the sections inside a function, which
take no lock for long), that an agent and a step come to an end (deadlines, and
the run's context), that the limit watcher's ticker ticks, that a stopped daemon
is started again (the service manager, or the next CLI call), that a read which
can be answered is, and that a slot reserved is granted (shown for the scheduler
by `ResumedRunServed`).  Strong fairness is used where a step is enabled again
and again between others: claiming the oldest queued run and its retry timer
(`StartQueued`, `RetryClaim`: the database refuses a write for some time, not for
ever), ending a run that goes round its gates (`Finish`: the number of rounds is
bounded by the configuration), and the second check of a recorded reconciliation
(`Recheck`).  In `RunOwnership` each run's goroutine is fair as a whole: its waits are
those for a signal, a slot or the database, and the thirty seconds of a supersession
run out.  The database takes writes again (`Heal`); nothing is assumed about who
launches, answers, aborts or shuts down.  In `SlotScheduler` each goroutine is fair as a
whole where it goes on by itself (`GoesOn`), instead of section by section.

In `StatusSettlement` the recovery loop gets the lock again and again (strong
fairness: it waits in the lock's channel for fifteen seconds of every sixteen, and
no holder keeps it longer than one bounded POST), its timer fires, and a run in the
middle of settling or reporting goes on (weak fairness: a database transaction or a
POST with a deadline).  Nothing makes a run end or a shutdown happen, and the store
of the runs in `Refused` never recovers.  In `PushNotifications` a launch that holds the
branch lock goes on, a dead daemon is started again, a broken configuration is
repaired, and the operator replays a retained notification again and again while a
replay is possible, which is what the error message of `admitRetainedPushLocked`
tells them to do; without that, a notification whose admission failed stays where it
is.

## Proofs

TLAPS (SMT, Zenon and LS4) proves, for every value of the constants that the
modules' `ASSUME`s allow:

| Theorem | States |
| --- | --- |
| `SlotScheduler_proofs!TypeCorrect`, `OneClaimPerRun`, `CounterIsRight`, `WorkIsLimited`, `NoWakeupIsLost`, `StartsInOrder` | `[]TypeOK`, `[]ClaimsSettled`, `[]SlotsAccounted`, `[]WorkWithinLimit`, `[]NoLostWakeup`, `LaunchOrder`: all safety properties of the module, for any runs, handlers, agents, limits, restored queue and recovered gates |
| `AgentLimiter_proofs!TypeCorrect`, `Accounted`, `NobodyWaitsInVain`, `StartsWithinLimit` | `[]TypeOK`, `[]PlacesAccounted`, `[]NoIdlePlace`, `WithinLimit`, for any finite set of invocations and any limits |
| `GateResponse_proofs!AppliedOnlyOnce` | the abstract ledger applies each gate once at most |
| `GateResponse_proofs!TypeCorrect` | `Spec => []TypeOK`, for any clients and any bounds |
| `GateResponse_proofs!Refines` | `Spec => Ledger!Spec`: the detailed gate implements the ledger |
| `GateResponse_proofs!AnswersItsOwn`, `MemoryAgrees`, `NothingForgotten`, `AbortsWin` | `[]AnswersItsGate`, `[]MemoryMatchesRow`, `[]AcceptedKept`, `AbortWins`: the module's other safety properties but the one that is expected to fail |
| `GateResponse_proofs!AcceptedUnlessTrouble`, `SelectionsStay` | what is left of that one: `AppliedWasAccepted` holds while no write is refused and no daemon stops, and a selection never leaves its gate |
| `RunOwnership_proofs!TypeCorrect` | `Spec => []TypeOK`, for any runs, branches, slots and bounds |
| `RunOwnership_proofs!Refines` | `Spec => Rows!Spec`: the run manager implements `RunRow` |
| `RunOwnership_proofs!Waits`, `QueueKept`, `Owned`, `Custody`, `Settles` | `[]ReplacementWaits`, `[]QueuesAgree`, `[]RowsOwned`, `[]CustodyKept`, `ExitSettles`: all safety properties of the module but the one that is expected to fail |
| `RunOwnership_proofs!OnePerBranch` | what is left of that one: a branch has one contender, at work or queued, or one resumed and one restored by the present daemon, never three |
| `StatusSettlement_proofs!TypeCorrect`, `Truthful`, `Final`, `Supersedes` | `[]TypeOK`, `[]StatusTruthful`, `OutcomeIsFinal`, `RawSupersedes`: all safety properties of the module, for any runs, refusals and number of faults |
| `PushNotifications_proofs!TypeCorrect`, `OneRunPerNotification`, `ValidatedOnlyOnce`, `NewerKept` | `[]TypeOK`, `[]StartedByOne`, `[]ValidatedOnce`, `NewerWorkKept`: all safety properties of the module, for any commits, nonces, deliveries, runs and troubles |
| `TuiView_proofs!TypeCorrect`, `NothingLost` | `[]TypeOK`, `[]ViewTruthful`: all safety properties of the view and the broker but the one that is expected to fail, for any steps, frame sizes, mailbox and bounds |
| `TuiView_proofs!ReconcilesUnlessFailed` | what is left of that one: `ReattachReconciles` holds while the daemon has not crashed and has answered every read |
| `TuiView_proofs!NothingSkipped`, `EndIsTrue` | the stream's contract, whatever the mailbox evicts or folds; and a view that is over is right |

Assumptions: those declared in the modules (`LimitsAssumption`,
`ThreadsAssumption`, `StartAssumption`, `LimiterAssumption`, `GateAssumption`,
`RunsAssumption`, `BoundAssumption`, `Shape`, `PushAssumption`, `BrokerAssumption`,
`TuiAssumption`): the sets of actors are disjoint and, where
things are counted, finite; bounds and limits are integers; the restored queue has
no duplicates; every run has a branch.  TLC evaluates them in
every run.

The arguments:

* *Typing of the scheduler* is inductive by itself; the work is in the stacks
  (`FramesType`, `RunType`, `LeaveType`), in taking a run out of a line
  (`WithoutType`), and in one lemma per action.
* *Slots.*  A grant may turn into a held slot only if the run holds none, so the counter
  cannot be right unless claims are: a waiter has one owner, which is the reservation,
  the goroutine of the flight, or the release that cancels it (`ClaimsOK`, `FlightsOK`);
  a run that has not started or is over has no claim (`RunsOK`), and an agent or a
  response exists only while its run is at such a place (`HelpersOK`); a line holds each
  run once, and whoever waits in it still waits (`LinesOK`).  `ClaimsSettled` is
  inductive with these (`Claimed`), and `LaunchOrder` follows from them step by step.
  For `SlotsAccounted` one lemma splits the slots in use into those held, granted and
  leaving (`CountUsed`), three say what one run or goroutine changes in each
  (`HoldersChange`, `GranteesChange`, `LeavingChange`), and every action is then a sum that
  comes out (`Balance`).  `WorkWithinLimit` needs that refresh, which takes parked slots back,
  cannot meet one that is at work: a claim that was seen to be held is no longer parked
  (`WorkOK`).  For `NoLostWakeup` it is the frame left on a stack that matters: as long
  as the limits are not edited, a release always has the dispatch that follows it on its
  stack (`WakeupsOK`), and whoever makes a slot free or a run startable is about to run it
  (`Wakes`).  TLC checked `SlotSchedulerInv!IInv` on an instance without edits, with an
  agent and two handlers (480 000 states), and on one with an edit of the limits, a restored and
  a recovered run (1 500 000 states), before it was proved.
* *The limiter.*  `PlacesAccounted` is not inductive: a line with an invocation in
  it twice, or with one that is not waiting, would admit nobody new and count.
  `LineOK` excludes both.  `WakeStep` computes, once for all three callers of
  `wakeLocked`, how the line, the counter and the set of holders change together;
  `AddPrefix` counts the prefix that is admitted.  With the clamp in
  `SetMaxConcurrentAgents` the limit is a natural number, without which a negative
  limit would admit nobody for ever.
* *The ledger.*  A dispatched claim is in the goroutine's hands (`mine`), and the
  row no longer names it.  So the refinement needs to know, at each place between
  the channel and the dispatch, that what is in hand or in the channel is what the
  row records, or an abort, which the row never records (`InChannel`, `InHand`,
  `AtSlot`, `Recovered`); that a fix response that has written its decision still
  holds the gate open (`DecisionHeld`); and that memory is empty when the daemon
  is down (`Stopped`).  `GateResponseInv!IInv` is the conjunction; TLC checked it
  as an invariant of the instance of `gate` before it was proved.  Each
  action is then a step of the ledger or a stutter.
* *The gates' other properties* need `GateResponseInv!Fits` beside it.  An accepted
  request does not change (`AcceptedStays`), so the gate it names is the gate of the row
  that records it and of the dispatch that takes it over (`AnswersFit`).  Away from a
  gate nothing is answered and no marker is up (`MemoryFits`), which makes the row and
  the memory agree again at the next one.  An accepted answer that is no longer
  recorded was applied or dropped, or the row has left the gate before the run gave up
  (`GivesUp`), so that a crash there leaves nothing to recover without it.  And an
  accepted abort has ended the context, is in the channel or in hand (`Heeded`), from
  where the executor stops before it asks for a slot, or was dropped by a recovery
  (`StopsFit`).  An abort leaves the channel only with the gate (`HeededStays`): by the
  executor that takes it in hand, or by the one step that drops it, which adds it to
  `void`.  TLC checked both on the instance of `gate`.
* *Ownership.*  None of the properties is inductive, because each speaks of some of
  row, table, queue and slots, and it is the place of the run's goroutine that ties
  them.  `RunOwnershipInv!RunFits` says at each place what the row is, who has the
  run in the table, and whether its outcome is decided; from it follow the
  refinement (an outcome is only written where the row is still active), `RowsOwned`
  and `ExitSettles`.  `QueueFits` says that the stored order holds each queued run
  once; `Line_proofs` says what withdrawing a run does to such a line.  `SlotsFit`
  adds that a run in the line of the resumed holds no slot.  For `ReplacementWaits`
  the invariant has to say what a launch knows (`WaitsFit`): whoever contends for its
  branch, at work or in the queue, is still to be cancelled or is waited for, and
  nobody waited for returns to the queue.  Then a launch that has waited finds no
  rival (`JoinStep`); a start finds at most one queued and one resumable run of a
  branch (`BootRivals`), which is the exception of finding 3; no other step makes a
  rival (`CalmStep`).  TLC checked the invariant on the instance of
  `ownership_safety`, and on one with three runs of one branch and one event.
* *Settlement.*  A publication, the forge and an outcome agree only when nobody is
  between two of them, so `StatusSettlementInv!IInv` says what is known at each place
  of a report (`CertFits`, `FailureFits`): nothing is posted under a certificate, a
  posted failure is about a reason that lasts (`Failed`), and a parked run has shown
  nothing, because recovery may resume it as if nothing had happened.  A run that has
  still to decide has no outcome (`JobFits`), whose writes therefore come once: in
  the queue because it holds each run once (`QueueFits`).  For `RawSupersedes` the lock
  carries the argument (`LockFits`, `RawFits`): from the cancellations of a raw
  shutdown to its record whoever holds the lock is draining, so no outcome is
  written in between; and then each run that it cancelled is on the record, or leaves
  without an outcome.  TLC checked the invariant on the instance of `status`, and on
  ones with three faults and with a store that refuses nothing, or the shutdown.
* *Pushes.*  `NewerWorkKept` is decided long before a run is superseded: by the
  validation, which finds that the newest run is the notification's predecessor
  (`NothingNewer`: the one row it leaves out is the notification's own diagnostic,
  which is over and stays so), and by the branch lock, under which nothing newer
  becomes active until the new row is inserted and its predecessors are chosen
  (`ValidFits`).  The same holds of the nonce (`JobFits`: a launch on its way to its
  row has found no run of its nonce), and of `StartedByOne`: what is written into a
  notification is written where it names no admitted run yet (`Rewritten`,
  `Inserted`), so that no binding is lost.  `ValidatedOnce` needs to know why a launch
  was not reattached (`LaunchFits`).  If its push already has a run, the notification's
  predecessor is that run or a later one, since validation found nothing after it
  (`NothingAfter`, `Predecessor`).  If the predecessor has the same commit, its commits are not
  the one that the push came from (`CommitsFit`), so that only a validated return remains; and
  if it is a shared diagnostic, that one belongs to the same update (`DiagnosticsFit`), and
  the branch was elsewhere before it.  TLC checked the invariant on the instance
  of `pushes`, with three runs, and by simulation with four pushes, five deliveries and five runs.

* *The view.*  `ViewTruthful` speaks of a view that waits for nothing; the invariant
  says what one that waits has coming.  `Due` is the state frames on the wire and in the
  mailbox, and a row is `Good` for a view at some revision if its write is still to be
  announced, a gap is due, a due frame newer than the revision has the row's version, or
  the row is right and no such frame would undo that.  `ShownOK` claims it of what is
  shown, when no read is under way, and of what the read in flight would show if it were
  completed now (`Known`), when its reply will be accepted and is the last one asked for
  (`Settles`).  A view that follows its stream takes the next frame off `Due` and shows
  it; a frame that it skips is not newer than what it shows.  What makes that sound is
  order: frames come in the order of their revisions and of their row's versions
  (`InOrder`, `RevsOK`), the end of the run is the last of them (`EndOK`), and a mailbox
  that could not take a frame has a gap (`Announces`).  A broken connection may lose any
  frames, but then no view is `Live`, unless the end itself is still to be read, and the
  end is sent after all others (`CutEffect`).  For `RevisionSeen` the invariant adds that
  the revisions after the one shown are all due, or a gap stands for them
  (`FollowOK`), so that a frame that is applied skips none (`Passed`).  After a crash no
  new read succeeds, and a view attached anew has still to ask for one or was refused it
  (`CrashOK`), which is finding 1.  TLC checked the invariant on the instance of `events` before it was
  proved.  The mailbox's count is exact because a queued, delivered or evicted frame
  changes `SizeOf` by its size (`SizeOfAppend`, `SizeOfTail`, `SizeOfParts`); these are
  inductions over the ring's length, and the library's induction theorems need an
  operator.  `NatSetInduction` states induction for a set of numbers instead, from the
  well-foundedness of strict inclusion on finite sets, which needs none.

*What is left of the refuted promises.*  Each of the three properties that a run refutes holds
under a condition, which a theorem states, so that the finding is as narrow as it is said to be.
For `AppliedWasAccepted`, `SelectionFits` follows a selection from the round it is recorded in to
the fixer: it belongs to a fix response that named the row's gate, a decided response changes
only from recorded to accepted or refused (`DecidedStays`), and the refusals are a failed write
or a crash.  No response is between its two writes when its gate is dispatched, by `DecisionHeld`
and `StopsFit`.  For `ReattachReconciles`, a read fails only when the daemon has crashed or has
answered one with an error (`NoneFailed`), and `ViewTruthful` says the rest.  For `OneActiveRun`,
`RivalsFit` is already about queued runs too; of three contenders two would have come by their
places in the same way.  TLC checked the new invariants on the instances of `gate` and `events`.

`ValidatedOnce` was first a count: no more runs started by pushes than pushes accepted,
or launches made.  It holds on the instance of `pushes`, but not for every value of the constants:
with three pushes to a commit, away from it and back to it with a nonce, a late second delivery of
the first one starts a fourth run, before the third has started its own.  The property now says
what the code does guarantee, and the count is gone.

Only model-checked: liveness, because fairness and `ENABLED` are outside what the
prover's backends support (`EndShown`, `EditServesQueue` and the other properties of the form
"in the end").  The properties of the runs that are expected to fail are false as they stand; the
theorems above state under which conditions they hold.  No leaf of the proofs needs more than a
fraction of the provers' time limits: each proof module also passes with the limits cut to an eighth.

## Findings

1. **A stale view after a restart** (`events_reattach`).  Subscriptions dial a
   connection each; reads use the one that was dialed when the view started.  After
   a daemon restart the view reattaches, but its reconciliation fails.  Without a crash or
   a failed read it succeeds (`ReconcilesUnlessFailed`).
2. **The selection of a refused fix response** (`gate_refused_fix`).  The selection
   is recorded before the response is accepted; if the acceptance fails, the next
   fix response of the gate folds it in; so does one after a crash between the two writes.
   There is no other way (`AcceptedUnlessTrouble`), and no later gate is reached
   (`SelectionsStay`).
3. **Two active runs on a branch** (`ownership_restart`).  A push passes the shutdown
   check and inserts its row; the shutdown cancels the parked run that the push
   supersedes.  The parked run is left for recovery, and its goroutine reports that
   its work stopped before it looks why, so the push goes on and its run is queued.
   The next start finds one active row on the branch (queued rows are not counted),
   resumes the superseded run, restores its replacement to the queue and starts it
   beside the other.  It is one such pair on a branch, never three (`OnePerBranch`).

Three more are reached by other bounds or statements in the same modules.  *An abort
lost by a recovery*: once its slot is acquired, a recovered run is claimed
(`internal/daemon/manager.go:1210`), and an abort goes to the executor, which puts it
in its channel and acknowledges it (`internal/pipeline/executor.go:639`).  `Resume` may
still be checking the PR; if the PR moved, it drains the channel (`clearApprovalGate`,
`executor.go:1129`) and runs the step again with a live context, and a later answer is
dispatched.  `docs/src/content/docs/concepts/daemon.md:139` says of an abort "At a
parked, waiting gate it fails the run with the gate's existing `aborted by user` error".
TLC finds it in fifteen steps if `AbortWins` is stated as `stopping = {}` (`BeginResume`,
`AbortGate`, `ResumeInvalidated`, and the next gate's answer); it has no run of its own,
since the property says exactly what is left: no other abort is lost.  *A lagging view of a
forgotten run*: `closeSubscribers` forgets the revisions of long finished runs; their
snapshots carry revision 0, which a view that holds a positive revision refuses and
asks for again, without end (`EndShown` exempts it: `used["prunes"] > 0`).  *A slot
kept by a parked run*: `releaseParked` clears the slot's flags under the slot's lock
and later deletes the slot from `parkedHeld` under the scheduler's; a run that resumes
and parks again under a re-enabled hold policy in between loses its new entry, so that
the next switch to "off" does not find it (three edits, of which `slots_live` has one).

Five more come from `StatusSettlement` and `PushNotifications` and have no run of
their own:

* *A refused raw write holds up every outcome.*  With `Shut` in `Refused`,
  `SettlementServed` fails: a drain whose raw write is refused ends before it tries a
  terminal write, and takes the lock from its owner.  The comment at
  `internal/pipeline/commit_status.go:66` says that the fence "fences the RAW path
  alone: a different run's terminal write can still succeed".  It matters while the
  daemon stops with a database that refuses that one write.
* *A raw record for a run left to recovery.*  `Shutdown` snapshots the runs it owns;
  one of them that a planned shutdown leaves at its gate may be released
  (`ReleaseShutdownForRecovery`) before the raw write lands, which records the
  shutdown again.  The next start then fails it as an obsolete shutdown, which the
  comment at `internal/daemon/manager.go:3754` wants to exclude.
* *A second run for a push that creates its branch.*  `reattachReceivedRun` returns
  before any comparison when the old head is zero, so the second delivery of such a
  push supersedes and repeats the first one's run.  The documentation
  (`docs/src/content/docs/reference/cli.md:190`) has both sides: "duplicate delivery
  ... cannot create another run", and "ordinary ref creation ... start[s] new
  validation".  `ValidatedOnce` is about pushes that move an existing branch.
* *A delivery repeated after a return.*  When the branch has left a commit and come back,
  a second delivery of the push that first brought it there is current again, and
  `hasValidatedReturnTransition` lets it start a run, though the push that brought the
  branch back starts another if it carries a nonce.
* *A rerun that was overtaken.*  `HandleRerun` resolves its head before it has the
  branch lock; a push admitted in between is superseded by a rerun of the older head.

A planned shutdown has one more, in the run manager's part of it: while it is being
prepared, `startQueuedRun` takes runs off the queue in memory without starting them,
and if the preparation fails the daemon goes on without them until it is restarted.

Seen while reading, and not made into runs: a rewind of the pipeline
(`prepareRestart`) writes rows no event announces; a frame broadcast between a
snapshot's sampling and its read carries a newer revision and is applied over rows
that may be newer still, harmless because it is followed by the frames of those
rows; an abort accepted at a waiting gate is lost when shutdown's cancellation is
selected first; `RecoverStaleRunsExcept` leaves `pending_response` on the failed
step's row; a failed write of the awaiting marker in `endGateWait` is only logged
(the `faults` term in `MemoryMatchesRow`).

## What is not modelled

Within the modelled components: the wording and content of findings, prompts,
logs, diffs, telemetry and errors; the three surfaces that only display state
(`annotate`, `stats`, rendering); the parked-time accounting; agents' sessions and
reviewers' questions behind a gate (an `answer` is one kind of response);
validation of a response's finding identifiers (part of `Refuse`); other runs of
the same daemon in `GateResponse` and `EventBroker`, which meet this run only in
the scheduler; more than one subscriber, because mailboxes share nothing but the
frame that is published to each.

In `RunOwnership`: the planned shutdown and the durable record of a shutdown's intent
(`StatusSettlement`), whose effects are the choice of the outcome in `Complete` and that
of the parked runs that a start can prepare in `Boot` (a record that was never settled
fails them, as does a lost configuration); how a
request comes to launch a run (`PushNotifications`); yields of the CI poll, which the scheduler's module has; the sub-steps of
the hook that ends a run's work, and of `tryAdmit` beside `markQueued` (under `admitMu`;
`LaunchOrder` is about them); the sweep of processes, logs and evidence; panics, whose
path is that of a failure.  A row that dispatch finds unclaimable does not occur,
which is `QueuesAgree`.

In `StatusSettlement`: a database that is closed (its queues are then emptied with an
error); the settlements of setup failures, panics and an ending's attribution, which
take the same path; the pending report of a push, the recorded attempts of a push and
the retirement of publications, so that a run has one published head; a publication that
is not eligible for the checks of the forge; the contents of a certificate (digest,
epoch, proofs), of which a boolean is left: it is exact or it is not; the verdict the
planned shutdown returns; failing reads, and writes of the next start that fail; a
failure of the store itself as the run's error (`FailRunInfrastructure`), whose row is
that of any failure.

In `PushNotifications`: the file's checksum, its earlier versions and corrupt files
(refused as they are read); a retention that fails half way, which leaves no record; the
claims of launch receipts, owners, shipping pins, plans, profiles and the PR's base,
which add refusals; which runs that are over have completed, so that one of them may
answer its nonce again or be refused; the listing of notifications; the shutdown check; a failing launch
after admission (`Finish`); other branches, which share nothing.

Whole components: see the tables above and `PROJECT.json`.  Parsers, drivers of
external programs, code-host clients, configuration, prompts and platform files
have no state that interleavings could break.

## Plan

What a continuation would do, in the order in which it matters:

1. **Proofs**: every safety property that a passing run checks is proved; those of the
   modules below as they are written.
2. **BranchSync** — heads as nodes of a small commit graph, inspection, leases,
   the push that succeeds and loses its answer, the gate mirror.
3. **StepLoop** and **FixDecisions** — rounds, auto-fix limits, rewinds,
   supersession of steps, the dispositions folded over rounds; composed with
   GateResponse through its ledger.
4. **AxiDrive** — the second subscriber, on `EventBroker`.
5. **CIMonitor**, **DaemonLock**, **LogRotation**, the retry budget.

Each new module gets a type invariant, the properties of its hazards in
`PROJECT.json`, one mutant per property, and, where its argument is an invariant,
a proof.
