------------------------ MODULE RunOwnership_proofs ------------------------
(***************************************************************************)
(* What RunOwnership guarantees for any runs, branches and slots, and any  *)
(* number of aborts, shutdowns, deaths and refused writes: its states are  *)
(* well typed, its rows keep the promise of RunRow, nobody is lost between *)
(* the rows, the table and the queue, custody of slots and worktrees is    *)
(* kept, and the runs of a branch wait for each other.                     *)
(***************************************************************************)
EXTENDS RunOwnershipInv, Line_proofs, FiniteSetTheorems

\* A run that leaves the queue while it waits there.
LEMMA CancelQueuedType ==
    ASSUME TypeOK, NEW q \in Runs, CancelQueued(q)
    PROVE  /\ row' \in [Runs -> Rows!Status] /\ table' \in [Runs -> Owners]
           /\ order' \in Seq(Runs) /\ queue' \in Seq(Runs)
BY WithoutType DEF TypeOK, CancelQueued, Set, Owners, Rows!Status, Rows!Terminal, Rows!Active

\* A signal only names a cause.
LEMMA SignalType ==
    ASSUME TypeOK, NEW q \in Runs, NEW why \in Causes, Signal(q, why)
    PROVE  cause' \in [Runs -> Causes]
BY DEF TypeOK, Signal, Set

\* What is left when the daemon is down, is well typed.
LEMMA DownType ==
    ASSUME TypeOK, Down, spent' \in 0..MaxEvents
    PROVE  TypeOK'
<1>1. /\ row' = row /\ awaiting' = awaiting /\ worktree' = worktree /\ order' = order
      /\ store' = store /\ recovered' = recovered /\ origin' = origin /\ gates' = gates
  BY DEF Down, durable
<1>2. /\ table' \in [Runs -> Owners] /\ cause' \in [Runs -> Causes] /\ stopped' \subseteq Runs
      /\ lock' \in [Branches -> Runs \cup {NoRun}]
  BY DEF Down, Owners, Causes
<1>3. todo' \in [Runs -> SUBSET Runs] /\ waits' \in [Runs -> SUBSET Runs]
  BY DEF Down
<1>4. slots' \subseteq Runs /\ line' \in Seq(Runs) /\ queue' \in Seq(Runs) /\ retrying' \in BOOLEAN
  <2>1. <<>> \in Seq(Runs)
    BY EmptySeq
  <2>2. slots' = {} /\ line' = <<>> /\ queue' = <<>> /\ retrying' = FALSE
    BY DEF Down
  <2>3. QED
    BY <2>1, <2>2
<1>5. verdict' \in [Runs -> Terminal \cup {"none"}] /\ pc' \in [Runs -> Places] /\ mode' = "down"
  BY DEF Down, TypeOK, Places
<1>6. QED
  BY <1>1, <1>2, <1>3, <1>4, <1>5 DEF TypeOK

\* Any order of the resumed runs is a line.
LEMMA ResumedLine ==
    ASSUME NEW S \in SUBSET Runs, NEW s \in SetToSeqs(S)
    PROVE  s \in Seq(Runs) /\ Once(s) /\ InLine(s) \subseteq S
<1>1. Cardinality(S) \in Nat
  BY RunsAssumption, FS_Subset, FS_CardinalityType
<1>2. /\ s \in [1..Cardinality(S) -> S]
      /\ \A i, j \in 1..Cardinality(S) : i # j => s[i] # s[j]
  BY DEF SetToSeqs
<1>3. s \in Seq(Runs) /\ Len(s) = Cardinality(S)
  BY <1>1, <1>2
<1>4. QED
  BY <1>2, <1>3 DEF Once, InLine

\* Every step keeps the state well typed.
LEMMA TypeStep == TypeOK /\ [Next]_vars => TypeOK'
<1> SUFFICES ASSUME TypeOK, [Next]_vars PROVE TypeOK'
  OBVIOUS
<1> USE RunsAssumption, BoundAssumption, WithoutType
    DEF TypeOK, Goto, Set, Places, Owners, Causes, Cancels, Terminal, Active, Rows!Terminal, Rows!Active,
        Rows!Status,
        durable, daemon, handles, launches, capacity, bounds
<1>1. ASSUME NEW r \in Runs, Launch(r) PROVE TypeOK'
  <2>1. CASE Insert(r)
    BY <2>1 DEF Insert
  <2>2. CASE InsertFails(r)
    BY <2>2 DEF InsertFails, Unlock
  <2>3. CASE CancelNext(r)
    <3>1. PICK q \in todo[r] :
              /\ todo' = [todo EXCEPT ![r] = @ \ {q}]
              /\ \/ /\ CancelQueued(q) /\ Goto(q, "gone")
                    /\ UNCHANGED <<cause, waits, slots, line, retrying>>
                 \/ /\ Signal(q, "superseded")
                    /\ waits' = [waits EXCEPT ![r] = @ \cup {q}]
                    /\ UNCHANGED <<row, order, table, capacity, pc>>
                 \/ UNCHANGED <<row, order, table, cause, waits, capacity, pc>>
      BY <2>3 DEF CancelNext
    <3>2. q \in Runs /\ todo' \in [Runs -> SUBSET Runs]
      BY <3>1
    <3>3. UNCHANGED <<awaiting, worktree, store, daemon, stopped, origin, lock, verdict, bounds>>
      BY <2>3 DEF CancelNext
    <3>4. CASE CancelQueued(q) /\ Goto(q, "gone") /\ UNCHANGED <<cause, waits, slots, line, retrying>>
      BY <3>2, <3>3, <3>4, CancelQueuedType
    <3>5. CASE /\ Signal(q, "superseded") /\ waits' = [waits EXCEPT ![r] = @ \cup {q}]
               /\ UNCHANGED <<row, order, table, capacity, pc>>
      BY <3>2, <3>3, <3>5, SignalType
    <3>6. CASE UNCHANGED <<row, order, table, cause, waits, capacity, pc>>
      BY <3>2, <3>3, <3>6
    <3>7. QED
      BY <3>1, <3>4, <3>5, <3>6
  <2>4. CASE CancelFails(r)
    BY <2>4 DEF CancelFails, Unadmitted
  <2>5. CASE WaitExpires(r)
    BY <2>5 DEF WaitExpires, Unadmitted
  <2>6. CASE Admit(r)
    BY <2>6 DEF Admit
  <2>7. CASE Enqueue(r)
    BY <2>7 DEF Enqueue, Unlock
  <2>8. CASE EnqueueFails(r)
    BY <2>8 DEF EnqueueFails, Unadmitted
  <2>9. CASE SettleUnadmitted(r)
    BY <2>9 DEF SettleUnadmitted, Unlock
  <2>10. CASE Register(r)
    BY <2>10 DEF Register
  <2>11. QED
    BY <1>1, <2>1, <2>2, <2>3, <2>4, <2>5, <2>6, <2>7, <2>8, <2>9, <2>10 DEF Launch
<1>2. ASSUME NEW r \in Runs, Setup(r) PROVE TypeOK'
  <2>1. CASE CreateWorktree(r)
    BY <2>1 DEF CreateWorktree
  <2>2. CASE SetupFails(r)
    BY <2>2 DEF SetupFails, OutcomeOf
  <2>3. CASE AttachRefused(r)
    BY <2>3 DEF AttachRefused, OutcomeOf
  <2>4. CASE RefusedReleases(r)
    BY <2>4 DEF RefusedReleases, Release
  <2>5. CASE SettleSetup(r)
    BY <2>5 DEF SettleSetup
  <2>6. CASE Attach(r)
    BY <2>6 DEF Attach, Unlock
  <2>7. QED
    BY <1>2, <2>1, <2>2, <2>3, <2>4, <2>5, <2>6 DEF Setup
<1>3. ASSUME NEW r \in Runs, Execute(r) PROVE TypeOK'
  <2>1. CASE Start(r)
    BY <2>1 DEF Start
  <2>2. CASE Park(r)
    BY <2>2 DEF Park, Release
  <2>3. CASE GoOn(r)
    BY <2>3 DEF GoOn
  <2>4. CASE Resume(r)
    <3>1. UNCHANGED <<row, worktree, order, store, daemon, handles, launches, verdict, bounds>>
      BY <2>4 DEF Resume
    <3>2. table' \in [Runs -> Owners]
      BY <2>4 DEF Resume
    <3>3. awaiting' \subseteq Runs
      BY <2>4 DEF Resume
    <3>4. PICK place \in {"parked", "work"} : pc' = [pc EXCEPT ![r] = place]
      BY <2>4 DEF Resume
    <3>5. pc' \in [Runs -> Places]
      <4> HIDE WithoutType DEF Goto
      <4>1. place \in Places
        OBVIOUS
      <4>2. QED
        BY <3>4, <4>1
    <3>6. slots' \subseteq slots /\ line' \in {line, Without(line, r)} /\ queue' = queue /\ retrying' = retrying
      BY <2>4 DEF Resume, Release
    <3>7. slots' \subseteq Runs /\ line' \in Seq(Runs)
      BY <3>6
    <3>8. QED
      BY <3>1, <3>2, <3>6, <3>7, <3>3, <3>5
  <2>5. CASE Complete(r)
    BY <2>5 DEF Complete
  <2>6. CASE Fails(r)
    BY <2>6 DEF Fails
  <2>7. CASE Cancelled(r)
    BY <2>7 DEF Cancelled, OutcomeOf, Cancellable, Waiting, Leaves
  <2>8. CASE FailRun(r)
    BY <2>8 DEF FailRun
  <2>9. CASE FailRefused(r)
    BY <2>9 DEF FailRefused, WorkDone, Release
  <2>10. CASE SettleTerminalWrite(r)
    BY <2>10 DEF SettleTerminalWrite
  <2>11. CASE ReportWorkloadDone(r)
    BY <2>11 DEF ReportWorkloadDone, WorkDone, Release
  <2>12. CASE Return(r)
    BY <2>12 DEF Return
  <2>13. CASE Depart(r)
    BY <2>13 DEF Depart, Unlock
  <2>14. CASE Leave(r)
    BY <2>14 DEF Leave, Leaves
  <2>15. CASE LeftReleases(r)
    BY <2>15 DEF LeftReleases, Release
  <2>16. CASE LeftDeparts(r)
    BY <2>16 DEF LeftDeparts, Release
  <2>17. QED
    BY <1>3, <2>1, <2>2, <2>3, <2>4, <2>5, <2>6, <2>7, <2>8, <2>9, <2>10, <2>11, <2>12, <2>13, <2>14,
        <2>15, <2>16 DEF Execute
<1>4. ASSUME NEW r \in Runs, Begin(r) PROVE TypeOK'
  BY <1>4 DEF Begin
<1>5. ASSUME NEW r \in Runs, Answer(r) PROVE TypeOK'
  <2>1. line \in Seq(Runs)
    OBVIOUS
  <2>2. Append(line, r) \in Seq(Runs)
    BY <2>1, AppendProperties, Zenon
  <2>3. (slots' = slots \cup {r} /\ line' = line) \/ (slots' = slots /\ line' = Append(line, r))
    BY <1>5, Zenon DEF Answer
  <2>4. slots' \subseteq Runs /\ line' \in Seq(Runs)
    BY <2>2, <2>3
  <2>5. pc' \in [Runs -> Places]
    BY <1>5 DEF Answer
  <2>6. UNCHANGED <<durable, store, daemon, table, handles, launches, queue, retrying, verdict, bounds>>
    BY <1>5 DEF Answer
  <2>7. QED
    BY <2>4, <2>5, <2>6
<1>6. ASSUME NEW r \in Runs, Abort(r) PROVE TypeOK'
  <2>1. /\ UNCHANGED <<awaiting, worktree, store, daemon, stopped, origin, launches, verdict, gates>>
        /\ spent' \in 0..MaxEvents
    BY <1>6 DEF Abort, Spend
  <2>2. CASE CancelQueued(r) /\ Goto(r, "gone") /\ UNCHANGED <<cause, slots, line, retrying>>
    BY <2>1, <2>2, CancelQueuedType
  <2>3. CASE Signal(r, "aborted") /\ UNCHANGED <<row, order, table, capacity, pc>>
    BY <2>1, <2>3, SignalType
  <2>4. QED
    BY <1>6, <2>2, <2>3 DEF Abort
<1>7. ASSUME NEW r \in Runs, StartQueued(r) PROVE TypeOK'
  BY <1>7 DEF StartQueued, Dispatchable
<1>8. ASSUME NEW r \in Runs, DropQueued(r) PROVE TypeOK'
  BY <1>8 DEF DropQueued, Dispatchable
<1>9. CASE ClaimFails
  BY <1>9 DEF ClaimFails, Dispatchable
<1>10. CASE RetryClaim
  BY <1>10 DEF RetryClaim
<1>11. CASE Grant
  <2>1. Head(line) \in Runs /\ Tail(line) \in Seq(Runs)
    BY <1>11 DEF Grant
  <2>2. slots' \subseteq Runs /\ line' \in Seq(Runs)
    BY <1>11, <2>1 DEF Grant
  <2>3. UNCHANGED <<durable, store, daemon, table, handles, launches, queue, retrying, verdict, pc, bounds>>
    BY <1>11 DEF Grant
  <2>4. QED
    BY <2>2, <2>3
<1>12. CASE Shutdown
  BY <1>12 DEF Shutdown, Told, Spend
<1>13. CASE Exit
  BY <1>13, DownType DEF Exit
<1>14. CASE Crash
  <2>1. Down /\ spent' \in 0..MaxEvents
    BY <1>14 DEF Crash, Spend
  <2>2. QED
    BY <2>1, DownType
<1>15. CASE Boot
  <2>0. PICK resumed \in SUBSET {r \in Runs : store = "ok" /\ Resumable(r)} : Recover(resumed)
    BY <1>15 DEF Boot
  <2> DEFINE stale == IF store = "ok" THEN {r \in Runs : row[r] \in Active} \ resumed ELSE {}
  <2>1. /\ mode' = "starting" /\ recovered' = (store = "ok") /\ Restore(resumed)
        /\ row' = [r \in Runs |-> IF r \in stale THEN "failed" ELSE row[r]]
        /\ awaiting' = awaiting \ stale /\ worktree' = {r \in worktree : row'[r] \notin Terminal}
        /\ UNCHANGED <<order, store, cause, stopped, launches, slots, retrying, verdict, bounds>>
    BY <1>15, <2>0 DEF Boot, Recover
  <2>2. resumed \in SUBSET Runs
    OBVIOUS
  <2> HIDE DEF stale
  <2>3. row' \in [Runs -> Rows!Status] /\ awaiting' \subseteq Runs /\ worktree' \subseteq Runs
    BY <2>1
  <2>4. /\ table' \in [Runs -> Owners] /\ pc' \in [Runs -> Places]
        /\ origin' \in [Runs -> {"launched", "restored", "resumed"}]
    BY <2>1 DEF Restore
  <2>5. queue' \in Seq(Runs) /\ line' \in Seq(Runs)
    BY <2>1, <2>2, ResumedLine DEF Restore
  <2>6. QED
    BY <2>1, <2>3, <2>4, <2>5
<1>16. CASE Serve
  BY <1>16 DEF Serve
<1>17. CASE Outage
  BY <1>17 DEF Outage, Spend
<1>18. CASE Heal
  BY <1>18 DEF Heal
<1>19. CASE UNCHANGED vars
  BY <1>19 DEF vars
<1>20. QED
  BY <1>1, <1>2, <1>3, <1>4, <1>5, <1>6, <1>7, <1>8, <1>9, <1>10, <1>11, <1>12, <1>13, <1>14, <1>15, <1>16,
      <1>17, <1>18, <1>19 DEF Next, Step, Queue
----------------------------------------------------------------------------
\* A run that is cancelled while it waits in the queue has no goroutine afterwards.
LEMMA CancelQueuedFits ==
    ASSUME TypeOK, RunFits, DaemonFits, NEW q \in Runs, CancelQueued(q), Goto(q, "gone"), cause' = cause, mode # "down",
           UNCHANGED <<awaiting, worktree, daemon, verdict>>
    PROVE  (RunFits /\ DaemonFits)'
<1>1. /\ row' = [row EXCEPT ![q] = "cancelled"] /\ table' = [table EXCEPT ![q] = "absent"]
      /\ pc' = [pc EXCEPT ![q] = "gone"] /\ mode' = mode /\ recovered' = recovered
  BY DEF CancelQueued, Goto, Set, daemon
<1>2. QED
  BY <1>1 DEF TypeOK, RunFits, DaemonFits, RowFits, GoneFits, TableFits, GateFits, Unborn, Pending, AtGate,
      Failing, Ended,
              Deciding, Terminal, Active, Rows!Terminal, Rows!Active

\* A signal only names a cause, and never that of a shutdown.
LEMMA SignalFits ==
    ASSUME TypeOK, RunFits, DaemonFits, NEW q \in Runs, NEW why \in Cancels, Signal(q, why),
           UNCHANGED <<row, awaiting, worktree, daemon, table, verdict, pc>>
    PROVE  (RunFits /\ DaemonFits)'
<1>1. RunFits'
  BY DEF RunFits, RowFits, GoneFits, TableFits, GateFits, daemon
<1>2. DaemonFits'
  BY DEF TypeOK, DaemonFits, Signal, Set, Cancels, daemon
<1>3. QED
  BY <1>1, <1>2

\* The row, the table, the gate and the worktree of a run fit the place of its goroutine after
\* every step.
LEMMA FitsStep == TypeOK /\ RunFits /\ DaemonFits /\ [Next]_vars => (RunFits /\ DaemonFits)'
<1> SUFFICES ASSUME TypeOK, RunFits, DaemonFits, [Next]_vars PROVE (RunFits /\ DaemonFits)'
  OBVIOUS
<1> USE DEF TypeOK, Goto, Set, Cancels, Terminal, Active, Rows!Terminal, Rows!Active, RunFits, DaemonFits,
    RowFits, GoneFits, TableFits, GateFits,
        Unborn, Pending, AtGate, Failing, Ended, Deciding,
        durable, daemon, handles, launches, capacity, bounds
<1>1. ASSUME NEW r \in Runs, Launch(r) PROVE (RunFits /\ DaemonFits)'
  <2>1. CASE Insert(r)
    BY <2>1 DEF Insert
  <2>2. CASE InsertFails(r)
    BY <2>2 DEF InsertFails, Unlock
  <2>3. CASE CancelNext(r)
    <3>1. PICK q \in todo[r] :
              \/ CancelQueued(q) /\ Goto(q, "gone") /\ cause' = cause
              \/ Signal(q, "superseded") /\ UNCHANGED <<row, table, pc>>
              \/ UNCHANGED <<row, table, cause, pc>>
      BY <2>3 DEF CancelNext
    <3>2. q \in Runs /\ UNCHANGED <<awaiting, worktree, daemon, verdict>>
      BY <2>3 DEF CancelNext
    <3>3. CASE CancelQueued(q) /\ Goto(q, "gone") /\ cause' = cause
      <4>1. mode # "down"
        BY <2>3 DEF CancelNext
      <4>2. QED
        BY <3>2, <3>3, <4>1, CancelQueuedFits
    <3>4. CASE Signal(q, "superseded") /\ UNCHANGED <<row, table, pc>>
      BY <3>2, <3>4, SignalFits
    <3>5. CASE UNCHANGED <<row, table, cause, pc>>
      BY <3>2, <3>5
    <3>6. QED
      BY <3>1, <3>3, <3>4, <3>5
  <2>4. CASE CancelFails(r)
    BY <2>4 DEF CancelFails, Unadmitted
  <2>5. CASE WaitExpires(r)
    BY <2>5 DEF WaitExpires, Unadmitted
  <2>6. CASE Admit(r)
    BY <2>6 DEF Admit
  <2>7. CASE Enqueue(r)
    BY <2>7 DEF Enqueue, Unlock
  <2>8. CASE EnqueueFails(r)
    BY <2>8 DEF EnqueueFails, Unadmitted
  <2>9. CASE SettleUnadmitted(r)
    BY <2>9 DEF SettleUnadmitted, Unlock
  <2>10. CASE Register(r)
    BY <2>10 DEF Register
  <2>11. QED
    BY <1>1, <2>1, <2>2, <2>3, <2>4, <2>5, <2>6, <2>7, <2>8, <2>9, <2>10 DEF Launch
<1>2. ASSUME NEW r \in Runs, Setup(r) PROVE (RunFits /\ DaemonFits)'
  <2>1. CASE CreateWorktree(r)
    BY <2>1 DEF CreateWorktree
  <2>2. CASE SetupFails(r)
    BY <2>2 DEF SetupFails, OutcomeOf
  <2>3. CASE AttachRefused(r)
    BY <2>3 DEF AttachRefused, OutcomeOf
  <2>4. CASE RefusedReleases(r)
    BY <2>4 DEF RefusedReleases, Release
  <2>5. CASE SettleSetup(r)
    BY <2>5 DEF SettleSetup
  <2>6. CASE Attach(r)
    BY <2>6 DEF Attach, Unlock
  <2>7. QED
    BY <1>2, <2>1, <2>2, <2>3, <2>4, <2>5, <2>6 DEF Setup
<1>3. ASSUME NEW r \in Runs, Execute(r) PROVE (RunFits /\ DaemonFits)'
  <2>1. CASE Start(r)
    BY <2>1 DEF Start
  <2>2. CASE Park(r)
    BY <2>2 DEF Park, Release
  <2>3. CASE GoOn(r)
    BY <2>3 DEF GoOn
  <2>4. CASE Resume(r)
    BY <2>4 DEF Resume, Release
  <2>5. CASE Complete(r)
    BY <2>5 DEF Complete
  <2>6. CASE Fails(r)
    BY <2>6 DEF Fails
  <2>7. CASE Cancelled(r)
    BY <2>7 DEF Cancelled, OutcomeOf, Cancellable, Waiting, Leaves
  <2>8. CASE FailRun(r)
    BY <2>8 DEF FailRun
  <2>9. CASE FailRefused(r)
    BY <2>9 DEF FailRefused, WorkDone, Release
  <2>10. CASE SettleTerminalWrite(r)
    BY <2>10 DEF SettleTerminalWrite
  <2>11. CASE ReportWorkloadDone(r)
    BY <2>11 DEF ReportWorkloadDone, WorkDone, Release
  <2>12. CASE Return(r)
    BY <2>12 DEF Return
  <2>13. CASE Depart(r)
    BY <2>13 DEF Depart, Unlock
  <2>14. CASE Leave(r)
    BY <2>14 DEF Leave, Leaves
  <2>15. CASE LeftReleases(r)
    BY <2>15 DEF LeftReleases, Release
  <2>16. CASE LeftDeparts(r)
    BY <2>16 DEF LeftDeparts, Release
  <2>17. QED
    BY <1>3, <2>1, <2>2, <2>3, <2>4, <2>5, <2>6, <2>7, <2>8, <2>9, <2>10, <2>11, <2>12, <2>13, <2>14,
        <2>15, <2>16 DEF Execute
<1>4. ASSUME NEW r \in Runs, Begin(r) PROVE (RunFits /\ DaemonFits)'
  BY <1>4 DEF Begin
<1>5. ASSUME NEW r \in Runs, Answer(r) PROVE (RunFits /\ DaemonFits)'
  BY <1>5 DEF Answer
<1>6. ASSUME NEW r \in Runs, Abort(r) PROVE (RunFits /\ DaemonFits)'
  <2>1. UNCHANGED <<awaiting, worktree, store, daemon, stopped, origin, launches, verdict, gates>> /\ mode # "down"
    BY <1>6 DEF Abort, Served
  <2>2. CASE CancelQueued(r) /\ Goto(r, "gone") /\ cause' = cause
    BY <2>1, <2>2, CancelQueuedFits
  <2>3. CASE Signal(r, "aborted") /\ UNCHANGED <<row, table, pc>>
    BY <2>1, <2>3, SignalFits
  <2>4. QED
    BY <1>6, <2>2, <2>3 DEF Abort
<1>7. ASSUME NEW r \in Runs, StartQueued(r) PROVE (RunFits /\ DaemonFits)'
  BY <1>7 DEF StartQueued, Dispatchable
<1>8. ASSUME NEW r \in Runs, DropQueued(r) PROVE (RunFits /\ DaemonFits)'
  BY <1>8 DEF DropQueued, Dispatchable
<1>9. CASE ClaimFails
  BY <1>9 DEF ClaimFails, Dispatchable
<1>10. CASE RetryClaim
  BY <1>10 DEF RetryClaim
<1>11. CASE Grant
  BY <1>11 DEF Grant
<1>12. CASE Shutdown
  BY <1>12 DEF Shutdown, Told, Spend
<1>13. CASE Exit
  BY <1>13 DEF Exit, Down
<1>14. CASE Crash
  BY <1>14 DEF Crash, Down, Spend
<1>15. CASE Boot
  <2>0. PICK resumed \in SUBSET {r \in Runs : store = "ok" /\ Resumable(r)} : Recover(resumed)
    BY <1>15 DEF Boot
  <2> DEFINE stale == IF store = "ok" THEN {r \in Runs : row[r] \in Active} \ resumed ELSE {}
  <2>1. /\ mode = "down" /\ mode' = "starting" /\ recovered' = (store = "ok")
        /\ row' = [r \in Runs |-> IF r \in stale THEN "failed" ELSE row[r]]
        /\ awaiting' = awaiting \ stale /\ worktree' = {r \in worktree : row'[r] \notin Terminal}
        /\ table' = [r \in Runs |-> IF row[r] = "queued" THEN "queued"
                                    ELSE IF r \in resumed THEN "recovering" ELSE "absent"]
        /\ pc' = [r \in Runs |-> IF row[r] = "queued" THEN "queued"
                                 ELSE IF r \in resumed THEN "resuming" ELSE pc[r]]
        /\ cause' = cause /\ verdict' = verdict
    BY <1>15, <2>0 DEF Boot, Recover, Restore
  <2>2. \A r \in resumed : r \in Runs /\ row[r] = "running" /\ r \in awaiting /\ r \in worktree /\ r \notin stale
    BY <2>0 DEF Resumable
  <2>3. \A r \in stale : row[r] \in Active
    OBVIOUS
  <2>4. store = "ok" => \A r \in Runs \ resumed : row[r] \in Active => r \in stale
    OBVIOUS
  <2> HIDE DEF stale
  <2>5. ASSUME NEW r \in Runs PROVE (RowFits(r) /\ GoneFits(r) /\ TableFits(r) /\ GateFits(r))'
    <3>1. pc[r] \in {"new", "gone"} /\ (pc[r] = "new" => row[r] = "none")
      BY <2>1
    <3>2. CASE row[r] = "queued"
      BY <2>1, <2>2, <2>3, <3>1, <3>2
    <3>3. CASE r \in resumed
      <4>1. row'[r] = "running" /\ pc'[r] = "resuming" /\ table'[r] = "recovering"
        BY <2>1, <2>2, <3>3
      <4>2. r \in awaiting' /\ r \in worktree'
        BY <2>1, <2>2, <3>3, <4>1
      <4>3. QED
        BY <4>1, <4>2
    <3>4. CASE row[r] # "queued" /\ r \notin resumed
      <4>1. pc'[r] = pc[r] /\ table'[r] = "absent" /\ row'[r] = IF r \in stale THEN "failed" ELSE row[r]
        BY <2>1, <3>4
      <4>2. row'[r] = "none" \/ row'[r] \in Terminal \/ row'[r] = row[r]
        BY <4>1
      <4>3. store = "ok" => row'[r] \notin Active
        BY <4>1, <2>4, <3>4
      <4>4. row'[r] = "running" => r \in worktree'
        BY <4>1, <2>1
      <4>5. pc[r] = "new" => row'[r] = "none"
        BY <4>1, <2>3, <3>1
      <4>6. QED
        BY <4>1, <4>2, <4>3, <4>4, <4>5, <3>1, <3>4, <2>1
    <3>5. QED
      BY <3>2, <3>3, <3>4
  <2>6. DaemonFits'
    BY <2>1
  <2>7. QED
    BY <2>5, <2>6
<1>16. CASE Serve
  BY <1>16 DEF Serve
<1>17. CASE Outage
  BY <1>17 DEF Outage, Spend
<1>18. CASE Heal
  BY <1>18 DEF Heal
<1>19. CASE UNCHANGED vars
  BY <1>19 DEF vars
<1>20. QED
  BY <1>1, <1>2, <1>3, <1>4, <1>5, <1>6, <1>7, <1>8, <1>9, <1>10, <1>11, <1>12, <1>13, <1>14, <1>15, <1>16,
      <1>17, <1>18, <1>19 DEF Next, Step, Queue

----------------------------------------------------------------------------
\* Every step moves the rows as the abstract specification allows.
LEMMA RowsStep == TypeOK /\ RunFits /\ DaemonFits /\ [Next]_vars => [Rows!Next]_row
<1> SUFFICES ASSUME TypeOK, RunFits, DaemonFits, [Next]_vars PROVE [Rows!Next]_row
  OBVIOUS
<1> USE DEF TypeOK, Goto, Set, Cancels, Terminal, Active, Rows!Terminal, Rows!Active, RunFits, RowFits,
    TableFits,
        Unborn, Pending, AtGate, Failing, Ended, Deciding, Rows!Next, Rows!Moves,
        durable, daemon, handles, launches, capacity, bounds
<1>1. ASSUME NEW r \in Runs, Launch(r) PROVE [Rows!Next]_row
  <2>1. CASE Insert(r)
    BY <2>1 DEF Insert
  <2>2. CASE InsertFails(r)
    BY <2>2 DEF InsertFails, Unlock
  <2>3. CASE CancelNext(r)
    BY <2>3 DEF CancelNext, CancelQueued, Signal
  <2>4. CASE CancelFails(r)
    BY <2>4 DEF CancelFails, Unadmitted
  <2>5. CASE WaitExpires(r)
    BY <2>5 DEF WaitExpires, Unadmitted
  <2>6. CASE Admit(r)
    BY <2>6 DEF Admit
  <2>7. CASE Enqueue(r)
    BY <2>7 DEF Enqueue, Unlock
  <2>8. CASE EnqueueFails(r)
    BY <2>8 DEF EnqueueFails, Unadmitted
  <2>9. CASE SettleUnadmitted(r)
    BY <2>9 DEF SettleUnadmitted, Unlock
  <2>10. CASE Register(r)
    BY <2>10 DEF Register
  <2>11. QED
    BY <1>1, <2>1, <2>2, <2>3, <2>4, <2>5, <2>6, <2>7, <2>8, <2>9, <2>10 DEF Launch
<1>2. ASSUME NEW r \in Runs, Setup(r) PROVE [Rows!Next]_row
  <2>1. CASE CreateWorktree(r)
    BY <2>1 DEF CreateWorktree
  <2>2. CASE SetupFails(r)
    BY <2>2 DEF SetupFails, OutcomeOf
  <2>3. CASE AttachRefused(r)
    BY <2>3 DEF AttachRefused, OutcomeOf
  <2>4. CASE RefusedReleases(r)
    BY <2>4 DEF RefusedReleases, Release
  <2>5. CASE SettleSetup(r)
    BY <2>5 DEF SettleSetup
  <2>6. CASE Attach(r)
    BY <2>6 DEF Attach, Unlock
  <2>7. QED
    BY <1>2, <2>1, <2>2, <2>3, <2>4, <2>5, <2>6 DEF Setup
<1>3. ASSUME NEW r \in Runs, Execute(r) PROVE [Rows!Next]_row
  <2>1. CASE Start(r)
    BY <2>1 DEF Start
  <2>2. CASE Park(r)
    BY <2>2 DEF Park, Release
  <2>3. CASE GoOn(r)
    BY <2>3 DEF GoOn
  <2>4. CASE Resume(r)
    BY <2>4 DEF Resume, Release
  <2>5. CASE Complete(r)
    <3>1. PICK o \in {"completed", "failed"} : row' = [row EXCEPT ![r] = o]
      BY <2>5 DEF Complete
    <3>2. pc[r] = "work" /\ row[r] = "running"
      BY <2>5 DEF Complete
    <3>3. QED
      BY <3>1, <3>2
  <2>6. CASE Fails(r)
    BY <2>6 DEF Fails
  <2>7. CASE Cancelled(r)
    BY <2>7 DEF Cancelled, OutcomeOf, Cancellable, Waiting, Leaves
  <2>8. CASE FailRun(r)
    BY <2>8 DEF FailRun
  <2>9. CASE FailRefused(r)
    BY <2>9 DEF FailRefused, WorkDone, Release
  <2>10. CASE SettleTerminalWrite(r)
    BY <2>10 DEF SettleTerminalWrite
  <2>11. CASE ReportWorkloadDone(r)
    BY <2>11 DEF ReportWorkloadDone, WorkDone, Release
  <2>12. CASE Return(r)
    BY <2>12 DEF Return
  <2>13. CASE Depart(r)
    BY <2>13 DEF Depart, Unlock
  <2>14. CASE Leave(r)
    BY <2>14 DEF Leave, Leaves
  <2>15. CASE LeftReleases(r)
    BY <2>15 DEF LeftReleases, Release
  <2>16. CASE LeftDeparts(r)
    BY <2>16 DEF LeftDeparts, Release
  <2>17. QED
    BY <1>3, <2>1, <2>2, <2>3, <2>4, <2>5, <2>6, <2>7, <2>8, <2>9, <2>10, <2>11, <2>12, <2>13, <2>14,
        <2>15, <2>16 DEF Execute
<1>4. ASSUME NEW r \in Runs, Begin(r) PROVE [Rows!Next]_row
  BY <1>4 DEF Begin
<1>5. ASSUME NEW r \in Runs, Answer(r) PROVE [Rows!Next]_row
  BY <1>5 DEF Answer
<1>6. ASSUME NEW r \in Runs, Abort(r) PROVE [Rows!Next]_row
  BY <1>6 DEF Abort, CancelQueued, Signal, Spend, Served
<1>7. ASSUME NEW r \in Runs, StartQueued(r) PROVE [Rows!Next]_row
  BY <1>7 DEF StartQueued, Dispatchable
<1>8. ASSUME NEW r \in Runs, DropQueued(r) PROVE [Rows!Next]_row
  BY <1>8 DEF DropQueued, Dispatchable
<1>9. CASE ClaimFails
  BY <1>9 DEF ClaimFails, Dispatchable
<1>10. CASE RetryClaim
  BY <1>10 DEF RetryClaim
<1>11. CASE Grant
  BY <1>11 DEF Grant
<1>12. CASE Shutdown
  BY <1>12 DEF Shutdown, Told, Spend
<1>13. CASE Exit
  BY <1>13 DEF Exit, Down
<1>14. CASE Crash
  BY <1>14 DEF Crash, Down, Spend
<1>15. CASE Boot
  BY <1>15 DEF Boot, Recover, Restore
<1>16. CASE Serve
  BY <1>16 DEF Serve
<1>17. CASE Outage
  BY <1>17 DEF Outage, Spend
<1>18. CASE Heal
  BY <1>18 DEF Heal
<1>19. CASE UNCHANGED vars
  BY <1>19 DEF vars
<1>20. QED
  BY <1>1, <1>2, <1>3, <1>4, <1>5, <1>6, <1>7, <1>8, <1>9, <1>10, <1>11, <1>12, <1>13, <1>14, <1>15, <1>16,
      <1>17, <1>18, <1>19 DEF Next, Step, Queue

----------------------------------------------------------------------------
\* Every step keeps the rows, the queue and its order in agreement.
LEMMA QueueStep == TypeOK /\ RunFits /\ DaemonFits /\ QueueFits /\ [Next]_vars => QueueFits'
<1> SUFFICES ASSUME TypeOK, RunFits, DaemonFits, QueueFits, [Next]_vars PROVE QueueFits'
  OBVIOUS
<1> USE WithoutLine, HeadLeaves, AppendLine DEF TypeOK, Goto, Set, Cancels, Terminal, Active, Rows!Terminal,
    Rows!Active, RunFits, RowFits, TableFits,
        Unborn, Pending, AtGate, Failing, Ended, Deciding, QueueFits,
        durable, daemon, handles, launches, capacity, bounds
<1>1. ASSUME NEW r \in Runs, Launch(r) PROVE QueueFits'
  <2>1. CASE Insert(r)
    BY <2>1 DEF Insert
  <2>2. CASE InsertFails(r)
    BY <2>2 DEF InsertFails, Unlock
  <2>3. CASE CancelNext(r)
    <3>1. ASSUME NEW q \in Runs, CancelQueued(q), mode' = mode PROVE QueueFits'
      <4>1. /\ Once(order') /\ InLine(order') = InLine(order) \ {q} /\ (mode \in {"starting", "up"} => queue' = order')
            /\ row' = Set(row, q, "cancelled")
        BY <3>1 DEF CancelQueued
      <4> QED
        BY <3>1, <4>1
    <3>2. ASSUME NEW q \in Runs, UNCHANGED <<row, order, queue, mode>> PROVE QueueFits'
      BY <3>2
    <3>3. mode' = mode /\ todo[r] \subseteq Runs
      BY <2>3 DEF CancelNext
    <3>4. PICK q \in todo[r] : CancelQueued(q) \/ UNCHANGED <<row, order, queue>>
      BY <2>3 DEF CancelNext, Signal
    <3> QED
      BY <3>1, <3>2, <3>3, <3>4
  <2>4. CASE CancelFails(r)
    BY <2>4 DEF CancelFails, Unadmitted
  <2>5. CASE WaitExpires(r)
    BY <2>5 DEF WaitExpires, Unadmitted
  <2>6. CASE Admit(r)
    BY <2>6 DEF Admit
  <2>7. CASE Enqueue(r)
    BY <2>7 DEF Enqueue, Unlock
  <2>8. CASE EnqueueFails(r)
    BY <2>8 DEF EnqueueFails, Unadmitted
  <2>9. CASE SettleUnadmitted(r)
    <3>1. order' = order /\ queue' = queue /\ mode' = mode
      BY <2>9 DEF SettleUnadmitted
    <3>2. /\ verdict[r] \in Terminal /\ row[r] # "queued"
          /\ row' = row \/ row' = [row EXCEPT ![r] = verdict[r]]
      BY <2>9 DEF SettleUnadmitted
    <3>3. {q \in Runs : row'[q] = "queued"} = {q \in Runs : row[q] = "queued"}
      BY <3>2
    <3>4. QED
      BY <3>1, <3>3
  <2>10. CASE Register(r)
    BY <2>10 DEF Register
  <2>11. QED
    BY <1>1, <2>1, <2>2, <2>3, <2>4, <2>5, <2>6, <2>7, <2>8, <2>9, <2>10 DEF Launch
<1>2. ASSUME NEW r \in Runs, Setup(r) PROVE QueueFits'
  <2>1. CASE CreateWorktree(r)
    BY <2>1 DEF CreateWorktree
  <2>2. CASE SetupFails(r)
    BY <2>2 DEF SetupFails, OutcomeOf
  <2>3. CASE AttachRefused(r)
    BY <2>3 DEF AttachRefused, OutcomeOf
  <2>4. CASE RefusedReleases(r)
    BY <2>4 DEF RefusedReleases, Release
  <2>5. CASE SettleSetup(r)
    <3>1. order' = order /\ queue' = queue /\ mode' = mode
      BY <2>5 DEF SettleSetup
    <3>2. row[r] = "pending" /\ verdict[r] \in Terminal /\ row' = [row EXCEPT ![r] = verdict[r]]
      BY <2>5 DEF SettleSetup
    <3>3. {q \in Runs : row'[q] = "queued"} = {q \in Runs : row[q] = "queued"}
      BY <3>2
    <3>4. QED
      BY <3>1, <3>3
  <2>6. CASE Attach(r)
    BY <2>6 DEF Attach, Unlock
  <2>7. QED
    BY <1>2, <2>1, <2>2, <2>3, <2>4, <2>5, <2>6 DEF Setup
<1>3. ASSUME NEW r \in Runs, Execute(r) PROVE QueueFits'
  <2>1. CASE Start(r)
    BY <2>1 DEF Start
  <2>2. CASE Park(r)
    BY <2>2 DEF Park, Release
  <2>3. CASE GoOn(r)
    BY <2>3 DEF GoOn
  <2>4. CASE Resume(r)
    BY <2>4 DEF Resume, Release
  <2>5. CASE Complete(r)
    BY <2>5 DEF Complete
  <2>6. CASE Fails(r)
    BY <2>6 DEF Fails
  <2>7. CASE Cancelled(r)
    BY <2>7 DEF Cancelled, OutcomeOf, Cancellable, Waiting, Leaves
  <2>8. CASE FailRun(r)
    BY <2>8 DEF FailRun
  <2>9. CASE FailRefused(r)
    BY <2>9 DEF FailRefused, WorkDone, Release
  <2>10. CASE SettleTerminalWrite(r)
    BY <2>10 DEF SettleTerminalWrite
  <2>11. CASE ReportWorkloadDone(r)
    BY <2>11 DEF ReportWorkloadDone, WorkDone, Release
  <2>12. CASE Return(r)
    BY <2>12 DEF Return
  <2>13. CASE Depart(r)
    BY <2>13 DEF Depart, Unlock
  <2>14. CASE Leave(r)
    BY <2>14 DEF Leave, Leaves
  <2>15. CASE LeftReleases(r)
    BY <2>15 DEF LeftReleases, Release
  <2>16. CASE LeftDeparts(r)
    BY <2>16 DEF LeftDeparts, Release
  <2>17. QED
    BY <1>3, <2>1, <2>2, <2>3, <2>4, <2>5, <2>6, <2>7, <2>8, <2>9, <2>10, <2>11, <2>12, <2>13, <2>14,
        <2>15, <2>16 DEF Execute
<1>4. ASSUME NEW r \in Runs, Begin(r) PROVE QueueFits'
  BY <1>4 DEF Begin
<1>5. ASSUME NEW r \in Runs, Answer(r) PROVE QueueFits'
  BY <1>5 DEF Answer
<1>6. ASSUME NEW r \in Runs, Abort(r) PROVE QueueFits'
  <2>1. mode' = mode /\ mode # "down"
    BY <1>6 DEF Abort, Served
  <2>2. CASE CancelQueued(r)
    BY <1>6, <2>1, <2>2 DEF CancelQueued
  <2>3. CASE UNCHANGED <<row, order, queue>>
    BY <2>1, <2>3
  <2>4. QED
    BY <1>6, <2>2, <2>3 DEF Abort
<1>7. ASSUME NEW r \in Runs, StartQueued(r) PROVE QueueFits'
  BY <1>7 DEF StartQueued, Dispatchable
<1>8. ASSUME NEW r \in Runs, DropQueued(r) PROVE QueueFits'
  BY <1>8 DEF DropQueued, Dispatchable
<1>9. CASE ClaimFails
  BY <1>9 DEF ClaimFails, Dispatchable
<1>10. CASE RetryClaim
  BY <1>10 DEF RetryClaim
<1>11. CASE Grant
  BY <1>11 DEF Grant
<1>12. CASE Shutdown
  BY <1>12 DEF Shutdown, Told, Spend
<1>13. CASE Exit
  BY <1>13 DEF Exit, Down
<1>14. CASE Crash
  BY <1>14 DEF Crash, Down, Spend
<1>15. CASE Boot
  BY <1>15 DEF Boot, Recover, Restore
<1>16. CASE Serve
  BY <1>16 DEF Serve
<1>17. CASE Outage
  BY <1>17 DEF Outage, Spend
<1>18. CASE Heal
  BY <1>18 DEF Heal
<1>19. CASE UNCHANGED vars
  BY <1>19 DEF vars
<1>20. QED
  BY <1>1, <1>2, <1>3, <1>4, <1>5, <1>6, <1>7, <1>8, <1>9, <1>10, <1>11, <1>12, <1>13, <1>14, <1>15, <1>16,
      <1>17, <1>18, <1>19 DEF Next, Step, Queue

----------------------------------------------------------------------------
\* The slots are finitely many, and giving one or taking one back keeps the limit.
LEMMA SlotsCount ==
    ASSUME TypeOK, NEW r \in Runs
    PROVE  /\ Free => Cardinality(slots \cup {r}) <= Slots
           /\ Cardinality(slots) <= Slots => Cardinality(slots \ {r}) <= Slots
<1>1. IsFiniteSet(slots)
  BY RunsAssumption, FS_Subset DEF TypeOK
<1>2. Cardinality(slots) \in Nat /\ Slots \in Nat
  BY <1>1, BoundAssumption, FS_CardinalityType
<1>3. Free => Cardinality(slots \cup {r}) <= Slots
  <2>1. Cardinality(slots \cup {r}) = IF r \in slots THEN Cardinality(slots) ELSE Cardinality(slots) + 1
    BY <1>1, FS_AddElement
  <2>2. QED
    BY <1>2, <2>1 DEF Free
<1>4. IsFiniteSet(slots \ {r}) /\ Cardinality(slots \ {r}) <= Cardinality(slots) /\ Cardinality(slots \ {r}) \in Nat
  BY <1>1, FS_Subset, FS_CardinalityType
<1>5. QED
  BY <1>2, <1>3, <1>4

\* A run that releases its slot, or its claim to one, and goes where none is needed.
LEMMA ReleaseFits ==
    ASSUME TypeOK, SlotsFit, NEW r \in Runs, NEW p \in Places \ {"admitted", "setup", "starting", "work"},
           Release(r), Goto(r, p), \A q \in Runs : cause'[q] = cause[q], mode' = mode
    PROVE  SlotsFit'
<1> USE DEF TypeOK, SlotsFit
<1>1. slots' = slots \ {r} /\ line' = Without(line, r) /\ pc' = [pc EXCEPT ![r] = p]
  BY DEF Release, Goto, Set
<1>2. Once(line') /\ InLine(line') = InLine(line) \ {r} /\ (line = <<>> => line' = <<>>)
  <2>1. line \in Seq(Runs) /\ Once(line)
    OBVIOUS
  <2>2. Once(line') /\ InLine(line') = InLine(line) \ {r} /\ (r \notin InLine(line) => line' = line)
    BY <1>1, <2>1, WithoutLine
  <2>3. line = <<>> => r \notin InLine(line)
    BY DEF InLine
  <2>4. QED
    BY <2>2, <2>3
<1>3. SlotsHeld'
  <2>1. Cardinality(slots') <= Slots
    BY <1>1, SlotsCount DEF SlotsHeld
  <2>2. QED
    BY <1>1, <2>1 DEF SlotsHeld
<1>4. \A q \in InLine(line') : pc'[q] \in {"answered", "resuming"} /\ q \notin slots'
  <2>1. InLine(line) \subseteq Runs
    BY DEF InLine
  <2>2. QED
    BY <1>1, <1>2, <2>1
<1>5. \A q \in slots' : pc'[q] = "parked" => cause'[q] # "none"
  BY <1>1
<1>6. mode' = "down" => slots' = {} /\ line' = <<>>
  BY <1>1, <1>2
<1>7. QED
  BY <1>2, <1>3, <1>4, <1>5, <1>6

\* Slots.
\* A daemon that is down holds no slot.
LEMMA DownFits == ASSUME TypeOK, SlotsFit, Down PROVE SlotsFit'
<1>1. /\ slots' = {} /\ line' = <<>>
      /\ pc' = [r \in Runs |-> IF row[r] = "none" THEN "new" ELSE "gone"]
  BY DEF Down
<1>2. Cardinality(slots') <= Slots
  BY <1>1, FS_EmptySet, BoundAssumption
<1>3. SlotsHeld'
  BY <1>1, <1>2 DEF SlotsHeld
<1>4. Once(line') /\ InLine(line') = {}
  BY <1>1 DEF Once, InLine
<1>5. QED
  BY <1>1, <1>3, <1>4 DEF SlotsFit

\* Every step keeps the limit, and the slots with the runs that work.
LEMMA SlotsStep == TypeOK /\ RunFits /\ DaemonFits /\ SlotsFit /\ [Next]_vars => SlotsFit'
<1> SUFFICES ASSUME TypeOK, RunFits, DaemonFits, SlotsFit, [Next]_vars PROVE SlotsFit'
  OBVIOUS
<1> USE WithoutLine, HeadLeaves, AppendLine DEF TypeOK, Goto, Set, DaemonFits, SlotsFit, SlotsHeld,
        durable, daemon, handles, launches, capacity, bounds
<1>1. ASSUME NEW r \in Runs, Launch(r) PROVE SlotsFit'
  <2>1. CASE Insert(r)
    BY <2>1 DEF Insert
  <2>2. CASE InsertFails(r)
    BY <2>2 DEF InsertFails, Unlock
  <2>3. CASE CancelNext(r)
    <3>1. PICK q \in todo[r] :
              \/ CancelQueued(q) /\ Goto(q, "gone") /\ UNCHANGED <<cause, slots, line>>
              \/ Signal(q, "superseded") /\ UNCHANGED <<slots, line, pc>>
              \/ UNCHANGED <<cause, slots, line, pc>>
      BY <2>3 DEF CancelNext
    <3>2. q \in Runs /\ mode' = mode
      BY <2>3 DEF CancelNext
    <3>3. CASE CancelQueued(q) /\ Goto(q, "gone") /\ UNCHANGED <<cause, slots, line>>
      <4>1. pc[q] = "queued"
        BY <3>2, <3>3 DEF CancelQueued, RunFits, TableFits
      <4>2. QED
        BY <3>2, <3>3, <4>1
    <3>4. CASE Signal(q, "superseded") /\ UNCHANGED <<slots, line, pc>>
      BY <3>2, <3>4 DEF Signal
    <3>5. CASE UNCHANGED <<cause, slots, line, pc>>
      BY <3>2, <3>5
    <3>6. QED
      BY <3>1, <3>3, <3>4, <3>5
  <2>4. CASE CancelFails(r)
    BY <2>4 DEF CancelFails, Unadmitted
  <2>5. CASE WaitExpires(r)
    BY <2>5 DEF WaitExpires, Unadmitted
  <2>6. CASE Admit(r)
    <3>1. /\ Free /\ slots' = slots \cup {r} /\ line' = line /\ line = <<>> /\ pc' = [pc EXCEPT ![r] = "admitted"]
          /\ cause' = cause /\ mode' = mode /\ mode # "down"
      BY <2>6 DEF Admit
    <3>2. Cardinality(slots') <= Slots
      BY <3>1, SlotsCount
    <3>3. QED
      BY <3>1, <3>2 DEF InLine
  <2>7. CASE Enqueue(r)
    BY <2>7 DEF Enqueue, Unlock
  <2>8. CASE EnqueueFails(r)
    BY <2>8 DEF EnqueueFails, Unadmitted
  <2>9. CASE SettleUnadmitted(r)
    BY <2>9 DEF SettleUnadmitted, Unlock
  <2>10. CASE Register(r)
    BY <2>10 DEF Register
  <2>11. QED
    BY <1>1, <2>1, <2>2, <2>3, <2>4, <2>5, <2>6, <2>7, <2>8, <2>9, <2>10 DEF Launch
<1>2. ASSUME NEW r \in Runs, Setup(r) PROVE SlotsFit'
  <2>1. CASE CreateWorktree(r)
    BY <2>1 DEF CreateWorktree
  <2>2. CASE SetupFails(r)
    BY <2>2 DEF SetupFails, OutcomeOf
  <2>3. CASE AttachRefused(r)
    BY <2>3 DEF AttachRefused, OutcomeOf
  <2>4. CASE RefusedReleases(r)
    BY <2>4, ReleaseFits DEF Places, RefusedReleases
  <2>5. CASE SettleSetup(r)
    BY <2>5 DEF SettleSetup
  <2>6. CASE Attach(r)
    BY <2>6 DEF Attach, Unlock
  <2>7. QED
    BY <1>2, <2>1, <2>2, <2>3, <2>4, <2>5, <2>6 DEF Setup
<1>3. ASSUME NEW r \in Runs, Execute(r) PROVE SlotsFit'
  <2>1. CASE Start(r)
    BY <2>1 DEF Start
  <2>2. CASE Park(r)
    BY <2>2, ReleaseFits DEF Places, Park
  <2>3. CASE GoOn(r)
    BY <2>3 DEF GoOn
  <2>4. CASE Resume(r)
    <3>1. UNCHANGED <<mode, cause>> /\ pc[r] = "resuming" /\ (r \in slots \/ cause[r] # "none")
      BY <2>4 DEF Resume
    <3>2. CASE cause[r] # "none" /\ Goto(r, "parked") /\ line' = Without(line, r) /\ slots' = slots
      BY <3>1, <3>2
    <3>3. CASE Goto(r, "parked") /\ Release(r)
      BY <3>1, <3>3, ReleaseFits DEF Places
    <3>4. CASE cause[r] = "none" /\ Goto(r, "work") /\ slots' = slots /\ line' = line
      BY <3>1, <3>4
    <3>5. QED
      BY <2>4, <3>2, <3>3, <3>4 DEF Resume
  <2>5. CASE Complete(r)
    BY <2>5 DEF Complete
  <2>6. CASE Fails(r)
    BY <2>6 DEF Fails
  <2>7. CASE Cancelled(r)
    BY <2>7 DEF Cancelled, OutcomeOf, Cancellable, Waiting, Leaves
  <2>8. CASE FailRun(r)
    BY <2>8 DEF FailRun
  <2>9. CASE FailRefused(r)
    BY <2>9, ReleaseFits DEF Places, FailRefused, WorkDone
  <2>10. CASE SettleTerminalWrite(r)
    BY <2>10 DEF SettleTerminalWrite
  <2>11. CASE ReportWorkloadDone(r)
    BY <2>11, ReleaseFits DEF Places, ReportWorkloadDone, WorkDone
  <2>12. CASE Return(r)
    BY <2>12 DEF Return
  <2>13. CASE Depart(r)
    BY <2>13 DEF Depart, Unlock
  <2>14. CASE Leave(r)
    BY <2>14 DEF Leave, Leaves
  <2>15. CASE LeftReleases(r)
    <3>1. CASE origin[r] = "resumed"
      BY <2>15, <3>1 DEF LeftReleases
    <3>2. CASE origin[r] # "resumed"
      BY <2>15, <3>2, ReleaseFits DEF LeftReleases, Places
    <3>3. QED
      BY <3>1, <3>2
  <2>16. CASE LeftDeparts(r)
    BY <2>16, ReleaseFits DEF Places, LeftDeparts
  <2>17. QED
    BY <1>3, <2>1, <2>2, <2>3, <2>4, <2>5, <2>6, <2>7, <2>8, <2>9, <2>10, <2>11, <2>12, <2>13, <2>14,
        <2>15, <2>16 DEF Execute
<1>4. ASSUME NEW r \in Runs, Begin(r) PROVE SlotsFit'
  BY <1>4 DEF Begin
<1>5. ASSUME NEW r \in Runs, Answer(r) PROVE SlotsFit'
  <2>1. /\ pc[r] = "parked" /\ cause[r] = "none" /\ pc' = [pc EXCEPT ![r] = "answered"]
        /\ cause' = cause /\ mode' = mode /\ mode # "down"
    BY <1>5 DEF Answer
  <2>2. r \notin slots /\ r \notin InLine(line)
    BY <2>1
  <2>3. CASE Free /\ slots' = slots \cup {r} /\ line' = line
    <3>1. Cardinality(slots') <= Slots
      BY <2>3, SlotsCount
    <3>2. QED
      BY <2>1, <2>2, <2>3, <3>1
  <2>4. CASE slots' = slots /\ line' = Append(line, r)
    BY <2>1, <2>2, <2>4
  <2>5. QED
    BY <1>5, <2>3, <2>4 DEF Answer
<1>6. ASSUME NEW r \in Runs, Abort(r) PROVE SlotsFit'
  <2>1. mode' = mode
    BY <1>6 DEF Abort
  <2>2. CASE CancelQueued(r) /\ Goto(r, "gone") /\ UNCHANGED <<cause, slots, line>>
    <3>1. pc[r] = "queued"
      BY <2>2 DEF CancelQueued, RunFits, TableFits
    <3>2. QED
      BY <2>1, <2>2, <3>1
  <2>3. CASE Signal(r, "aborted") /\ UNCHANGED <<slots, line, pc>>
    BY <2>1, <2>3 DEF Signal
  <2>4. QED
    BY <1>6, <2>2, <2>3 DEF Abort
<1>7. ASSUME NEW r \in Runs, StartQueued(r) PROVE SlotsFit'
  <2>1. /\ Free /\ row[r] = "queued" /\ slots' = slots \cup {r} /\ line' = line
        /\ pc' = [pc EXCEPT ![r] = "setup"] /\ cause' = cause /\ mode' = mode /\ mode # "down"
    BY <1>7 DEF StartQueued, Dispatchable
  <2>2. pc[r] \notin {"answered", "resuming"}
    BY <2>1 DEF RunFits, RowFits, AtGate
  <2>3. Cardinality(slots') <= Slots
    BY <2>1, SlotsCount
  <2>4. QED
    BY <2>1, <2>2, <2>3
<1>8. ASSUME NEW r \in Runs, DropQueued(r) PROVE SlotsFit'
  BY <1>8 DEF DropQueued, Dispatchable
<1>9. CASE ClaimFails
  BY <1>9 DEF ClaimFails, Dispatchable
<1>10. CASE RetryClaim
  BY <1>10 DEF RetryClaim
<1>11. CASE Grant
  <2> DEFINE h == Head(line)
  <2>1. /\ line # <<>> /\ Free /\ slots' = slots \cup {h} /\ line' = Tail(line)
        /\ pc' = pc /\ cause' = cause /\ mode' = mode
    BY <1>11 DEF Grant
  <2>2. h \in Runs /\ h \in InLine(line)
    BY <2>1 DEF InLine
  <2>3. Without(line, h) = line'
    BY <2>1, HeadLeaves
  <2>4. Once(line') /\ InLine(line') = InLine(line) \ {h}
    BY <2>3, WithoutLine
  <2> HIDE DEF h
  <2>5. Cardinality(slots') <= Slots
    BY <2>1, <2>2, SlotsCount
  <2>6. QED
    BY <2>1, <2>2, <2>4, <2>5
<1>12. CASE Shutdown
  BY <1>12 DEF Shutdown, Told, Spend
<1>13. CASE Exit
  BY <1>13, DownFits DEF Exit
<1>14. CASE Crash
  BY <1>14, DownFits DEF Crash
<1>15. CASE Boot
  <2>0. PICK resumed \in SUBSET {r \in Runs : store = "ok" /\ Resumable(r)} : Recover(resumed)
    BY <1>15 DEF Boot
  <2>1. /\ mode = "down" /\ mode' = "starting" /\ slots' = slots /\ cause' = cause
        /\ line' \in SetToSeqs(resumed)
        /\ pc' = [r \in Runs |-> IF row[r] = "queued" THEN "queued"
                                 ELSE IF r \in resumed THEN "resuming" ELSE pc[r]]
    BY <1>15, <2>0 DEF Boot, Recover, Restore
  <2>2. resumed \in SUBSET Runs /\ \A r \in resumed : row[r] = "running"
    BY <2>0 DEF Resumable
  <2>3. Once(line') /\ InLine(line') \subseteq resumed
    BY <2>1, <2>2, ResumedLine
  <2>4. slots = {}
    BY <2>1
  <2>5. \A r \in Runs : pc'[r] \notin {"admitted", "setup", "starting", "work"}
    BY <2>1
  <2>6. QED
    BY <2>1, <2>2, <2>3, <2>4, <2>5
<1>16. CASE Serve
  BY <1>16 DEF Serve
<1>17. CASE Outage
  BY <1>17 DEF Outage, Spend
<1>18. CASE Heal
  BY <1>18 DEF Heal
<1>19. CASE UNCHANGED vars
  BY <1>19 DEF vars
<1>20. QED
  BY <1>1, <1>2, <1>3, <1>4, <1>5, <1>6, <1>7, <1>8, <1>9, <1>10, <1>11, <1>12, <1>13, <1>14, <1>15, <1>16,
      <1>17, <1>18, <1>19 DEF Next, Step, Queue

----------------------------------------------------------------------------
\* Every step keeps resumed runs out of the queue and out of launches.
LEMMA OriginStep == TypeOK /\ RunFits /\ DaemonFits /\ BranchFits /\ [Next]_vars => OriginFits'
<1> SUFFICES ASSUME TypeOK, RunFits, DaemonFits, BranchFits, [Next]_vars PROVE OriginFits'
  OBVIOUS
<1> USE DEF TypeOK, Goto, Set, DaemonFits, RunFits, RowFits, TableFits, GoneFits, Launching, Unborn, Pending,
    BranchFits, durable, daemon, handles, launches, capacity, bounds, OriginFits, AtGate, Deciding, Ended,
    Failing, Terminal, Active, Rows!Terminal, Rows!Active
<1>1. ASSUME NEW r \in Runs, Launch(r) PROVE OriginFits'
  <2>1. CASE Insert(r)
    BY <2>1 DEF Insert
  <2>2. CASE InsertFails(r)
    BY <2>2 DEF InsertFails, Unlock
  <2>3. CASE CancelNext(r)
    BY <2>3 DEF CancelNext, CancelQueued, Signal
  <2>4. CASE CancelFails(r)
    BY <2>4 DEF CancelFails, Unadmitted
  <2>5. CASE WaitExpires(r)
    BY <2>5 DEF WaitExpires, Unadmitted
  <2>6. CASE Admit(r)
    BY <2>6 DEF Admit
  <2>7. CASE Enqueue(r)
    BY <2>7 DEF Enqueue, Unlock
  <2>8. CASE EnqueueFails(r)
    BY <2>8 DEF EnqueueFails, Unadmitted
  <2>9. CASE SettleUnadmitted(r)
    BY <2>9 DEF SettleUnadmitted, Unlock
  <2>10. CASE Register(r)
    BY <2>10 DEF Register
  <2>11. QED
    BY <1>1, <2>1, <2>2, <2>3, <2>4, <2>5, <2>6, <2>7, <2>8, <2>9, <2>10 DEF Launch
<1>2. ASSUME NEW r \in Runs, Setup(r) PROVE OriginFits'
  <2>1. CASE CreateWorktree(r)
    BY <2>1 DEF CreateWorktree
  <2>2. CASE SetupFails(r)
    BY <2>2 DEF SetupFails, OutcomeOf
  <2>3. CASE AttachRefused(r)
    BY <2>3 DEF AttachRefused, OutcomeOf
  <2>4. CASE RefusedReleases(r)
    BY <2>4 DEF RefusedReleases, Release
  <2>5. CASE SettleSetup(r)
    <3>1. row[r] \in Active => verdict[r] \notin {"none", "queued"}
      BY <2>5 DEF SettleSetup
    <3>2. /\ pc' = [pc EXCEPT ![r] = "stopped"] /\ origin' = origin
          /\ row' = IF row[r] \in Active THEN [row EXCEPT ![r] = verdict[r]] ELSE row
      BY <2>5 DEF SettleSetup
    <3>3. QED
      BY <3>1, <3>2
  <2>6. CASE Attach(r)
    BY <2>6 DEF Attach, Unlock
  <2>7. QED
    BY <1>2, <2>1, <2>2, <2>3, <2>4, <2>5, <2>6 DEF Setup
<1>3. ASSUME NEW r \in Runs, Execute(r) PROVE OriginFits'
  <2>1. CASE Start(r)
    BY <2>1 DEF Start
  <2>2. CASE Park(r)
    BY <2>2 DEF Park, Release
  <2>3. CASE GoOn(r)
    BY <2>3 DEF GoOn
  <2>4. CASE Resume(r)
    BY <2>4 DEF Resume, Release
  <2>5. CASE Complete(r)
    BY <2>5 DEF Complete
  <2>6. CASE Fails(r)
    BY <2>6 DEF Fails
  <2>7. CASE Cancelled(r)
    BY <2>7 DEF Cancelled, OutcomeOf, Cancellable, Waiting, Leaves
  <2>8. CASE FailRun(r)
    BY <2>8 DEF FailRun
  <2>9. CASE FailRefused(r)
    BY <2>9 DEF FailRefused, WorkDone, Release
  <2>10. CASE SettleTerminalWrite(r)
    BY <2>10 DEF SettleTerminalWrite
  <2>11. CASE ReportWorkloadDone(r)
    BY <2>11 DEF ReportWorkloadDone, WorkDone, Release
  <2>12. CASE Return(r)
    BY <2>12 DEF Return
  <2>13. CASE Depart(r)
    BY <2>13 DEF Depart, Unlock
  <2>14. CASE Leave(r)
    BY <2>14 DEF Leave, Leaves
  <2>15. CASE LeftReleases(r)
    BY <2>15 DEF LeftReleases, Release
  <2>16. CASE LeftDeparts(r)
    BY <2>16 DEF LeftDeparts, Release
  <2>17. QED
    BY <1>3, <2>1, <2>2, <2>3, <2>4, <2>5, <2>6, <2>7, <2>8, <2>9, <2>10, <2>11, <2>12, <2>13, <2>14,
        <2>15, <2>16 DEF Execute
<1>4. ASSUME NEW r \in Runs, Begin(r) PROVE OriginFits'
  BY <1>4 DEF Begin
<1>5. ASSUME NEW r \in Runs, Answer(r) PROVE OriginFits'
  BY <1>5 DEF Answer
<1>6. ASSUME NEW r \in Runs, Abort(r) PROVE OriginFits'
  BY <1>6 DEF Abort, CancelQueued, Signal, Spend, Served
<1>7. ASSUME NEW r \in Runs, StartQueued(r) PROVE OriginFits'
  BY <1>7 DEF StartQueued, Dispatchable
<1>8. ASSUME NEW r \in Runs, DropQueued(r) PROVE OriginFits'
  BY <1>8 DEF DropQueued, Dispatchable
<1>9. CASE ClaimFails
  BY <1>9 DEF ClaimFails, Dispatchable
<1>10. CASE RetryClaim
  BY <1>10 DEF RetryClaim
<1>11. CASE Grant
  BY <1>11 DEF Grant
<1>12. CASE Shutdown
  BY <1>12 DEF Shutdown, Told, Spend
<1>13. CASE Exit
  BY <1>13 DEF Exit, Down
<1>14. CASE Crash
  BY <1>14 DEF Crash, Down, Spend
<1>15. CASE Boot
  <2>0. PICK resumed \in SUBSET {r \in Runs : store = "ok" /\ Resumable(r)} : Recover(resumed)
    BY <1>15 DEF Boot
  <2> DEFINE stale == IF store = "ok" THEN {r \in Runs : row[r] \in Active} \ resumed ELSE {}
  <2>1. /\ row' = [r \in Runs |-> IF r \in stale THEN "failed" ELSE row[r]]
        /\ pc' = [r \in Runs |-> IF row[r] = "queued" THEN "queued"
                                 ELSE IF r \in resumed THEN "resuming" ELSE pc[r]]
        /\ origin' = [r \in Runs |-> IF row[r] = "queued" THEN "restored"
                                     ELSE IF r \in resumed THEN "resumed" ELSE "launched"]
    BY <1>15, <2>0 DEF Boot, Recover, Restore
  <2>2. \A r \in resumed : row[r] = "running"
    BY <2>0 DEF Resumable
  <2> HIDE DEF stale
  <2>3. QED
    BY <2>1, <2>2
<1>16. CASE Serve
  BY <1>16 DEF Serve
<1>17. CASE Outage
  BY <1>17 DEF Outage, Spend
<1>18. CASE Heal
  BY <1>18 DEF Heal
<1>19. CASE UNCHANGED vars
  BY <1>19 DEF vars
<1>20. QED
  BY <1>1, <1>2, <1>3, <1>4, <1>5, <1>6, <1>7, <1>8, <1>9, <1>10, <1>11, <1>12, <1>13, <1>14, <1>15, <1>16,
      <1>17, <1>18, <1>19 DEF Next, Step, Queue

\* Every step keeps the branch's lock with the launch that took it.
LEMMA LockStep == TypeOK /\ RunFits /\ DaemonFits /\ BranchFits /\ [Next]_vars => LockFits'
<1> SUFFICES ASSUME TypeOK, RunFits, DaemonFits, BranchFits, [Next]_vars PROVE LockFits'
  OBVIOUS
<1> USE RunsAssumption DEF TypeOK, Goto, Set, DaemonFits, RunFits, RowFits, TableFits, GoneFits, Launching,
    Unborn, Pending, BranchFits, durable, daemon, handles, launches, capacity, bounds, LockFits
<1>1. ASSUME NEW r \in Runs, Launch(r) PROVE LockFits'
  <2>1. CASE Insert(r)
    BY <2>1 DEF Insert
  <2>2. CASE InsertFails(r)
    BY <2>2 DEF InsertFails, Unlock
  <2>3. CASE CancelNext(r)
    BY <2>3 DEF CancelNext, CancelQueued, Signal
  <2>4. CASE CancelFails(r)
    BY <2>4 DEF CancelFails, Unadmitted
  <2>5. CASE WaitExpires(r)
    BY <2>5 DEF WaitExpires, Unadmitted
  <2>6. CASE Admit(r)
    BY <2>6 DEF Admit
  <2>7. CASE Enqueue(r)
    BY <2>7 DEF Enqueue, Unlock
  <2>8. CASE EnqueueFails(r)
    BY <2>8 DEF EnqueueFails, Unadmitted
  <2>9. CASE SettleUnadmitted(r)
    BY <2>9 DEF SettleUnadmitted, Unlock
  <2>10. CASE Register(r)
    BY <2>10 DEF Register
  <2>11. QED
    BY <1>1, <2>1, <2>2, <2>3, <2>4, <2>5, <2>6, <2>7, <2>8, <2>9, <2>10 DEF Launch
<1>2. ASSUME NEW r \in Runs, Setup(r) PROVE LockFits'
  <2>1. CASE CreateWorktree(r)
    BY <2>1 DEF CreateWorktree
  <2>2. CASE SetupFails(r)
    BY <2>2 DEF SetupFails, OutcomeOf
  <2>3. CASE AttachRefused(r)
    BY <2>3 DEF AttachRefused, OutcomeOf
  <2>4. CASE RefusedReleases(r)
    BY <2>4 DEF RefusedReleases, Release
  <2>5. CASE SettleSetup(r)
    BY <2>5 DEF SettleSetup
  <2>6. CASE Attach(r)
    BY <2>6 DEF Attach, Unlock
  <2>7. QED
    BY <1>2, <2>1, <2>2, <2>3, <2>4, <2>5, <2>6 DEF Setup
<1>3. ASSUME NEW r \in Runs, Execute(r) PROVE LockFits'
  <2>1. CASE Start(r)
    BY <2>1 DEF Start
  <2>2. CASE Park(r)
    BY <2>2 DEF Park, Release
  <2>3. CASE GoOn(r)
    BY <2>3 DEF GoOn
  <2>4. CASE Resume(r)
    BY <2>4 DEF Resume, Release
  <2>5. CASE Complete(r)
    BY <2>5 DEF Complete
  <2>6. CASE Fails(r)
    BY <2>6 DEF Fails
  <2>7. CASE Cancelled(r)
    BY <2>7 DEF Cancelled, OutcomeOf, Cancellable, Waiting, Leaves
  <2>8. CASE FailRun(r)
    BY <2>8 DEF FailRun
  <2>9. CASE FailRefused(r)
    BY <2>9 DEF FailRefused, WorkDone, Release
  <2>10. CASE SettleTerminalWrite(r)
    BY <2>10 DEF SettleTerminalWrite
  <2>11. CASE ReportWorkloadDone(r)
    BY <2>11 DEF ReportWorkloadDone, WorkDone, Release
  <2>12. CASE Return(r)
    BY <2>12 DEF Return
  <2>13. CASE Depart(r)
    BY <2>13 DEF Depart, Unlock
  <2>14. CASE Leave(r)
    BY <2>14 DEF Leave, Leaves
  <2>15. CASE LeftReleases(r)
    BY <2>15 DEF LeftReleases, Release
  <2>16. CASE LeftDeparts(r)
    BY <2>16 DEF LeftDeparts, Release
  <2>17. QED
    BY <1>3, <2>1, <2>2, <2>3, <2>4, <2>5, <2>6, <2>7, <2>8, <2>9, <2>10, <2>11, <2>12, <2>13, <2>14,
        <2>15, <2>16 DEF Execute
<1>4. ASSUME NEW r \in Runs, Begin(r) PROVE LockFits'
  BY <1>4 DEF Begin
<1>5. ASSUME NEW r \in Runs, Answer(r) PROVE LockFits'
  BY <1>5 DEF Answer
<1>6. ASSUME NEW r \in Runs, Abort(r) PROVE LockFits'
  BY <1>6 DEF Abort, CancelQueued, Signal, Spend, Served
<1>7. ASSUME NEW r \in Runs, StartQueued(r) PROVE LockFits'
  BY <1>7 DEF StartQueued, Dispatchable
<1>8. ASSUME NEW r \in Runs, DropQueued(r) PROVE LockFits'
  BY <1>8 DEF DropQueued, Dispatchable
<1>9. CASE ClaimFails
  BY <1>9 DEF ClaimFails, Dispatchable
<1>10. CASE RetryClaim
  BY <1>10 DEF RetryClaim
<1>11. CASE Grant
  BY <1>11 DEF Grant
<1>12. CASE Shutdown
  BY <1>12 DEF Shutdown, Told, Spend
<1>13. CASE Exit
  <2>1. \A r \in Runs : pc'[r] \in {"new", "gone"}
    BY <1>13 DEF Exit, Down
  <2>2. QED
    BY <2>1
<1>14. CASE Crash
  <2>1. \A r \in Runs : pc'[r] \in {"new", "gone"}
    BY <1>14 DEF Crash, Down
  <2>2. QED
    BY <2>1
<1>15. CASE Boot
  BY <1>15 DEF Boot, Recover, Restore
<1>16. CASE Serve
  BY <1>16 DEF Serve
<1>17. CASE Outage
  BY <1>17 DEF Outage, Spend
<1>18. CASE Heal
  BY <1>18 DEF Heal
<1>19. CASE UNCHANGED vars
  BY <1>19 DEF vars
<1>20. QED
  BY <1>1, <1>2, <1>3, <1>4, <1>5, <1>6, <1>7, <1>8, <1>9, <1>10, <1>11, <1>12, <1>13, <1>14, <1>15, <1>16,
      <1>17, <1>18, <1>19 DEF Next, Step, Queue

\* A running daemon finds a queued run in its table.
LEMMA QueuedPlace ==
    ASSUME TypeOK, RunFits, mode # "down", NEW r \in Runs, row[r] = "queued"
    PROVE  pc[r] = "queued" /\ table[r] = "queued"
BY DEF TypeOK, RunFits, RowFits, GoneFits, TableFits, Places, Unborn, Pending, AtGate, Failing, Ended,
       Active, Terminal, Rows!Active, Rows!Terminal

\* Every step keeps rivals of a launch among those it still has to cancel or waits for.
LEMMA WaitsStep == TypeOK /\ RunFits /\ DaemonFits /\ BranchFits /\ [Next]_vars => (\A s \in Runs : WaitsFit(s))'
<1> SUFFICES ASSUME TypeOK, RunFits, DaemonFits, BranchFits, [Next]_vars PROVE (\A s \in Runs : WaitsFit(s))'
  OBVIOUS
<1> USE RunsAssumption
    DEF BranchFits, TypeOK, Goto, Set, DaemonFits, RunFits, RowFits, TableFits, GoneFits, Launching,
        Unborn, Pending, Contends, AtWork, LockFits, OriginFits, durable, daemon, handles, launches,
        capacity, bounds, WaitsFit
<1>1. ASSUME NEW r \in Runs, Launch(r) PROVE (\A s \in Runs : WaitsFit(s))'
  <2>1. CASE Insert(r)
    BY <2>1 DEF Insert
  <2>2. CASE InsertFails(r)
    BY <2>2 DEF InsertFails, Unlock
  <2>3. CASE CancelNext(r)
    BY <2>3 DEF CancelNext, CancelQueued, Signal
  <2>4. CASE CancelFails(r)
    BY <2>4 DEF CancelFails, Unadmitted
  <2>5. CASE WaitExpires(r)
    BY <2>5 DEF WaitExpires, Unadmitted
  <2>6. CASE Admit(r)
    BY <2>6 DEF Admit
  <2>7. CASE Enqueue(r)
    BY <2>7 DEF Enqueue, Unlock
  <2>8. CASE EnqueueFails(r)
    BY <2>8 DEF EnqueueFails, Unadmitted
  <2>9. CASE SettleUnadmitted(r)
    BY <2>9 DEF SettleUnadmitted, Unlock
  <2>10. CASE Register(r)
    BY <2>10 DEF Register
  <2>11. QED
    BY <1>1, <2>1, <2>2, <2>3, <2>4, <2>5, <2>6, <2>7, <2>8, <2>9, <2>10 DEF Launch
<1>2. ASSUME NEW r \in Runs, Setup(r) PROVE (\A s \in Runs : WaitsFit(s))'
  <2>1. CASE CreateWorktree(r)
    BY <2>1 DEF CreateWorktree
  <2>2. CASE SetupFails(r)
    BY <2>2 DEF SetupFails, OutcomeOf
  <2>3. CASE AttachRefused(r)
    BY <2>3 DEF AttachRefused, OutcomeOf
  <2>4. CASE RefusedReleases(r)
    BY <2>4 DEF RefusedReleases, Release
  <2>5. CASE SettleSetup(r)
    BY <2>5 DEF SettleSetup
  <2>6. CASE Attach(r)
    BY <2>6 DEF Attach, Unlock
  <2>7. QED
    BY <1>2, <2>1, <2>2, <2>3, <2>4, <2>5, <2>6 DEF Setup
<1>3. ASSUME NEW r \in Runs, Execute(r) PROVE (\A s \in Runs : WaitsFit(s))'
  <2>1. CASE Start(r)
    BY <2>1 DEF Start
  <2>2. CASE Park(r)
    BY <2>2 DEF Park, Release
  <2>3. CASE GoOn(r)
    BY <2>3 DEF GoOn
  <2>4. CASE Resume(r)
    <3>1. /\ table[r] = "recovering" /\ table' = [table EXCEPT ![r] = "claimed"]
          /\ UNCHANGED <<mode, stopped, todo, waits>>
      BY <2>4 DEF Resume
    <3>2. pc[r] = "resuming" /\ (pc' = [pc EXCEPT ![r] = "parked"] \/ pc' = [pc EXCEPT ![r] = "work"])
      BY <2>4 DEF Resume
    <3>3. \A q \in Runs : Contends(q)' => Contends(q)
      BY <3>1, <3>2 DEF Contends, AtWork
    <3>4. \A q \in Runs : pc'[q] = pc[q] \/ (q = r /\ pc'[q] \in {"parked", "work"})
      BY <3>2
    <3> HIDE DEF RunFits, RowFits, TableFits, GoneFits, Contends
    <3>5. ASSUME NEW s \in Runs PROVE WaitsFit(s)'
      <4>1. WaitsFit(s)
        OBVIOUS
      <4>2. pc'[s] = "cancelling" => pc[s] = "cancelling"
        BY <3>4
      <4>3. \A q \in waits'[s] : pc'[q] \notin {"new", "queued"} \cup Launching
        BY <3>1, <3>4, <4>1
      <4>4. QED
        BY <3>1, <3>3, <4>1, <4>2, <4>3
    <3>6. QED
      BY <3>5
  <2>5. CASE Complete(r)
    BY <2>5 DEF Complete
  <2>6. CASE Fails(r)
    BY <2>6 DEF Fails
  <2>7. CASE Cancelled(r)
    BY <2>7 DEF Cancelled, OutcomeOf, Cancellable, Waiting, Leaves
  <2>8. CASE FailRun(r)
    BY <2>8 DEF FailRun
  <2>9. CASE FailRefused(r)
    BY <2>9 DEF FailRefused, WorkDone, Release
  <2>10. CASE SettleTerminalWrite(r)
    BY <2>10 DEF SettleTerminalWrite
  <2>11. CASE ReportWorkloadDone(r)
    BY <2>11 DEF ReportWorkloadDone, WorkDone, Release
  <2>12. CASE Return(r)
    BY <2>12 DEF Return
  <2>13. CASE Depart(r)
    BY <2>13 DEF Depart, Unlock
  <2>14. CASE Leave(r)
    BY <2>14 DEF Leave, Leaves
  <2>15. CASE LeftReleases(r)
    BY <2>15 DEF LeftReleases, Release
  <2>16. CASE LeftDeparts(r)
    BY <2>16 DEF LeftDeparts, Release
  <2>17. QED
    BY <1>3, <2>1, <2>2, <2>3, <2>4, <2>5, <2>6, <2>7, <2>8, <2>9, <2>10, <2>11, <2>12, <2>13, <2>14,
        <2>15, <2>16 DEF Execute
<1>4. ASSUME NEW r \in Runs, Begin(r) PROVE (\A s \in Runs : WaitsFit(s))'
  BY <1>4 DEF Begin
<1>5. ASSUME NEW r \in Runs, Answer(r) PROVE (\A s \in Runs : WaitsFit(s))'
  BY <1>5 DEF Answer
<1>6. ASSUME NEW r \in Runs, Abort(r) PROVE (\A s \in Runs : WaitsFit(s))'
  BY <1>6 DEF Abort, CancelQueued, Signal, Spend, Served
<1>7. ASSUME NEW r \in Runs, StartQueued(r) PROVE (\A s \in Runs : WaitsFit(s))'
  <2>1. table[r] = "queued"
    BY <1>7, QueuedPlace DEF StartQueued
  <2>2. QED
    BY <1>7, <2>1 DEF StartQueued, Dispatchable
<1>8. ASSUME NEW r \in Runs, DropQueued(r) PROVE (\A s \in Runs : WaitsFit(s))'
  BY <1>8 DEF DropQueued, Dispatchable
<1>9. CASE ClaimFails
  BY <1>9 DEF ClaimFails, Dispatchable
<1>10. CASE RetryClaim
  BY <1>10 DEF RetryClaim
<1>11. CASE Grant
  BY <1>11 DEF Grant
<1>12. CASE Shutdown
  BY <1>12 DEF Shutdown, Told, Spend
<1>13. CASE Exit
  BY <1>13 DEF Exit, Down
<1>14. CASE Crash
  BY <1>14 DEF Crash, Down, Spend
<1>15. CASE Boot
  <2>1. mode = "down" /\ waits' = waits /\ stopped' = stopped
    BY <1>15 DEF Boot
  <2>2. \A r \in Runs : pc'[r] \in {"new", "gone", "queued", "resuming"}
    BY <1>15, <2>1 DEF Boot, Recover, Restore
  <2>3. \A r \in Runs : waits[r] = {}
    BY <2>1
  <2>4. QED
    BY <2>1, <2>2, <2>3
<1>16. CASE Serve
  BY <1>16 DEF Serve
<1>17. CASE Outage
  BY <1>17 DEF Outage, Spend
<1>18. CASE Heal
  BY <1>18 DEF Heal
<1>19. CASE UNCHANGED vars
  BY <1>19 DEF vars
<1>20. QED
  BY <1>1, <1>2, <1>3, <1>4, <1>5, <1>6, <1>7, <1>8, <1>9, <1>10, <1>11, <1>12, <1>13, <1>14, <1>15, <1>16,
      <1>17, <1>18, <1>19 DEF Next, Step, Queue

----------------------------------------------------------------------------
\* A step after which nobody contends who did not contend before, and one by which run r, and no
\* other, may begin to contend, because nobody else contends on its branch.
Calm     == /\ origin' = origin
            /\ \A q \in Runs : (Contends(q)' => Contends(q)) /\ (row'[q] = "queued" => row[q] = "queued")
Joins(r) == /\ origin' = origin
            /\ \A q \in Runs \ {r} : (Contends(q)' => Contends(q)) /\ (row'[q] = "queued" => row[q] = "queued")
            /\ \A q \in Runs \ {r} : Branch[q] = Branch[r] => ~ Contends(q) /\ row[q] # "queued"

\* No new rival, no new pair of rivals.
LEMMA CalmRivals == ASSUME OneQueued, RivalsFit, Calm PROVE (OneQueued /\ RivalsFit)'
BY DEF OneQueued, RivalsFit, Calm, Rivals

\* Who joins a branch on which nobody contends has no rival.
LEMMA JoinRivals == ASSUME OneQueued, RivalsFit, NEW r \in Runs, Joins(r) PROVE (OneQueued /\ RivalsFit)'
BY DEF OneQueued, RivalsFit, Joins, Rivals

NewRival == Boot \/ \E r \in Runs : Admit(r) \/ Enqueue(r)

\* Only an admission, a place in the queue and a start of the daemon bring a new rival.
LEMMA CalmStep == TypeOK /\ RunFits /\ DaemonFits /\ BranchFits /\ [Next]_vars => Calm \/ NewRival
<1> SUFFICES ASSUME TypeOK, RunFits, DaemonFits, BranchFits, [Next]_vars PROVE Calm \/ NewRival
  OBVIOUS
<1> USE QueuedPlace DEF TypeOK, Goto, Set, DaemonFits, RunFits, RowFits, TableFits, GoneFits, Launching,
    Unborn, Pending, Deciding, Failing, Terminal, Rows!Terminal, Contends, AtWork, BranchFits, OriginFits,
    Calm,
        durable, daemon, handles, launches, capacity, bounds
<1>1. ASSUME NEW r \in Runs, Launch(r) PROVE Calm \/ NewRival
  <2>1. CASE Insert(r)
    BY <2>1 DEF Insert
  <2>2. CASE InsertFails(r)
    BY <2>2 DEF InsertFails, Unlock
  <2>3. CASE CancelNext(r)
    BY <2>3 DEF CancelNext, CancelQueued, Signal
  <2>4. CASE CancelFails(r)
    BY <2>4 DEF CancelFails, Unadmitted
  <2>5. CASE WaitExpires(r)
    BY <2>5 DEF WaitExpires, Unadmitted
  <2>6. CASE Admit(r)
    BY <2>6 DEF NewRival
  <2>7. CASE Enqueue(r)
    BY <2>7 DEF NewRival
  <2>8. CASE EnqueueFails(r)
    BY <2>8 DEF EnqueueFails, Unadmitted
  <2>9. CASE SettleUnadmitted(r)
    <3>1. verdict[r] # "queued"
      BY <2>9 DEF SettleUnadmitted
    <3>2. QED
      BY <2>9, <3>1 DEF SettleUnadmitted, Unlock
  <2>10. CASE Register(r)
    BY <2>10 DEF Register
  <2>11. QED
    BY <1>1, <2>1, <2>2, <2>3, <2>4, <2>5, <2>6, <2>7, <2>8, <2>9, <2>10 DEF Launch
<1>2. ASSUME NEW r \in Runs, Setup(r) PROVE Calm \/ NewRival
  <2>1. CASE CreateWorktree(r)
    BY <2>1 DEF CreateWorktree
  <2>2. CASE SetupFails(r)
    BY <2>2 DEF SetupFails, OutcomeOf
  <2>3. CASE AttachRefused(r)
    BY <2>3 DEF AttachRefused, OutcomeOf
  <2>4. CASE RefusedReleases(r)
    BY <2>4 DEF RefusedReleases, Release
  <2>5. CASE SettleSetup(r)
    <3>1. verdict[r] # "queued"
      BY <2>5 DEF SettleSetup
    <3>2. QED
      BY <2>5, <3>1 DEF SettleSetup
  <2>6. CASE Attach(r)
    BY <2>6 DEF Attach, Unlock
  <2>7. QED
    BY <1>2, <2>1, <2>2, <2>3, <2>4, <2>5, <2>6 DEF Setup
<1>3. ASSUME NEW r \in Runs, Execute(r) PROVE Calm \/ NewRival
  <2>1. CASE Start(r)
    BY <2>1 DEF Start
  <2>2. CASE Park(r)
    BY <2>2 DEF Park, Release
  <2>3. CASE GoOn(r)
    BY <2>3 DEF GoOn
  <2>4. CASE Resume(r)
    BY <2>4 DEF Resume, Release
  <2>5. CASE Complete(r)
    BY <2>5 DEF Complete
  <2>6. CASE Fails(r)
    BY <2>6 DEF Fails
  <2>7. CASE Cancelled(r)
    BY <2>7 DEF Cancelled, OutcomeOf, Cancellable, Waiting, Leaves
  <2>8. CASE FailRun(r)
    <3>1. verdict[r] # "queued"
      BY <2>8 DEF FailRun
    <3>2. QED
      BY <2>8, <3>1 DEF FailRun
  <2>9. CASE FailRefused(r)
    BY <2>9 DEF FailRefused, WorkDone, Release
  <2>10. CASE SettleTerminalWrite(r)
    <3>1. verdict[r] # "queued"
      BY <2>10 DEF SettleTerminalWrite
    <3>2. QED
      BY <2>10, <3>1 DEF SettleTerminalWrite
  <2>11. CASE ReportWorkloadDone(r)
    BY <2>11 DEF ReportWorkloadDone, WorkDone, Release
  <2>12. CASE Return(r)
    BY <2>12 DEF Return
  <2>13. CASE Depart(r)
    BY <2>13 DEF Depart, Unlock
  <2>14. CASE Leave(r)
    BY <2>14 DEF Leave, Leaves
  <2>15. CASE LeftReleases(r)
    BY <2>15 DEF LeftReleases, Release
  <2>16. CASE LeftDeparts(r)
    BY <2>16 DEF LeftDeparts, Release
  <2>17. QED
    BY <1>3, <2>1, <2>2, <2>3, <2>4, <2>5, <2>6, <2>7, <2>8, <2>9, <2>10, <2>11, <2>12, <2>13, <2>14,
        <2>15, <2>16 DEF Execute
<1>4. ASSUME NEW r \in Runs, Begin(r) PROVE Calm \/ NewRival
  BY <1>4 DEF Begin
<1>5. ASSUME NEW r \in Runs, Answer(r) PROVE Calm \/ NewRival
  BY <1>5 DEF Answer
<1>6. ASSUME NEW r \in Runs, Abort(r) PROVE Calm \/ NewRival
  BY <1>6 DEF Abort, CancelQueued, Signal, Spend, Served
<1>7. ASSUME NEW r \in Runs, StartQueued(r) PROVE Calm \/ NewRival
  BY <1>7 DEF StartQueued, Dispatchable
<1>8. ASSUME NEW r \in Runs, DropQueued(r) PROVE Calm \/ NewRival
  BY <1>8 DEF DropQueued, Dispatchable
<1>9. CASE ClaimFails
  BY <1>9 DEF ClaimFails, Dispatchable
<1>10. CASE RetryClaim
  BY <1>10 DEF RetryClaim
<1>11. CASE Grant
  BY <1>11 DEF Grant
<1>12. CASE Shutdown
  BY <1>12 DEF Shutdown, Told, Spend
<1>13. CASE Exit
  BY <1>13 DEF Exit, Down
<1>14. CASE Crash
  BY <1>14 DEF Crash, Down, Spend
<1>15. CASE Boot
  BY <1>15 DEF NewRival
<1>16. CASE Serve
  BY <1>16 DEF Serve
<1>17. CASE Outage
  BY <1>17 DEF Outage, Spend
<1>18. CASE Heal
  BY <1>18 DEF Heal
<1>19. CASE UNCHANGED vars
  BY <1>19 DEF vars
<1>20. QED
  BY <1>1, <1>2, <1>3, <1>4, <1>5, <1>6, <1>7, <1>8, <1>9, <1>10, <1>11, <1>12, <1>13, <1>14, <1>15, <1>16,
      <1>17, <1>18, <1>19 DEF Next, Step, Queue

\* A launch that is admitted, or queued, finds nobody left of those whom it replaces.
LEMMA JoinStep ==
    ASSUME TypeOK, RunFits, DaemonFits, BranchFits, NEW r \in Runs, Admit(r) \/ Enqueue(r)
    PROVE  Joins(r)
<1> USE DEF TypeOK, durable, daemon, handles, launches, capacity, bounds
<1>1. /\ pc[r] = "cancelling" /\ todo[r] = {} /\ waits[r] \subseteq stopped
      /\ mode' = mode /\ origin' = origin /\ stopped' = stopped
  BY DEF Admit, Enqueue, Awaited
<1>2. mode # "down"
  BY <1>1 DEF DaemonFits
<1>3. /\ \A q \in Runs \ {r} : table'[q] = table[q] /\ pc'[q] = pc[q] /\ row'[q] = row[q]
  BY DEF Admit, Enqueue, Goto, Set
<1>4. ASSUME NEW q \in Runs \ {r}, Branch[q] = Branch[r] PROVE ~ Contends(q)
  <2>1. SUFFICES ASSUME Contends(q) PROVE FALSE
    OBVIOUS
  <2>2. q \in waits[r] /\ q \in stopped
    BY <1>1, <1>4, <2>1 DEF BranchFits, WaitsFit
  <2>3. pc[q] # "queued" /\ pc[q] # "admitted"
    BY <2>2 DEF BranchFits, WaitsFit, Launching
  <2>4. table[q] # "queued"
    BY <2>3 DEF RunFits, TableFits
  <2>5. QED
    BY <2>1, <2>2, <2>3, <2>4 DEF Contends, AtWork
<1>5. ASSUME NEW q \in Runs \ {r}, Branch[q] = Branch[r] PROVE row[q] # "queued"
  BY <1>2, <1>4, <1>5, QueuedPlace DEF Contends
<1>6. \A q \in Runs \ {r} : (Contends(q)' => Contends(q)) /\ (row'[q] = "queued" => row[q] = "queued")
  BY <1>1, <1>3 DEF Contends, AtWork
<1>7. QED
  BY <1>1, <1>4, <1>5, <1>6 DEF Joins

\* A start resumes one run of a branch at most, and restores one at most to the queue.
LEMMA BootRivals ==
    ASSUME TypeOK, RunFits, DaemonFits, BranchFits, Boot
    PROVE  (OneQueued /\ RivalsFit)'
<1>0. PICK resumed \in SUBSET {r \in Runs : store = "ok" /\ Resumable(r)} : Recover(resumed)
  BY DEF Boot
<1> DEFINE stale == IF store = "ok" THEN {r \in Runs : row[r] \in Active} \ resumed ELSE {}
<1>1. /\ mode = "down"
      /\ row' = [r \in Runs |-> IF r \in stale THEN "failed" ELSE row[r]]
      /\ table' = [r \in Runs |-> IF row[r] = "queued" THEN "queued"
                                  ELSE IF r \in resumed THEN "recovering" ELSE "absent"]
      /\ pc' = [r \in Runs |-> IF row[r] = "queued" THEN "queued"
                               ELSE IF r \in resumed THEN "resuming" ELSE pc[r]]
      /\ origin' = [r \in Runs |-> IF row[r] = "queued" THEN "restored"
                                   ELSE IF r \in resumed THEN "resumed" ELSE "launched"]
  BY <1>0 DEF Boot, Recover, Restore
<1>2. \A p, q \in Runs : p \in resumed /\ q \in resumed => ~ Rivals(p, q)
  BY <1>0 DEF Resumable, Rivals, Active, Rows!Active
<1>3. \A r \in resumed : row[r] = "running"
  BY <1>0 DEF Resumable
<1> HIDE DEF stale
<1>4. \A p, q \in Runs : Rivals(p, q) => ~ (row[p] = "queued" /\ row[q] = "queued")
  BY DEF BranchFits, OneQueued
<1>5. \A r \in Runs : row'[r] = "queued" => row[r] = "queued"
  BY <1>1
<1>6. \A r \in Runs : Contends(r)' => row[r] = "queued" \/ r \in resumed
  BY <1>1 DEF Contends, AtWork, DaemonFits
<1>7. \A r \in Runs : /\ row[r] = "queued" => origin'[r] = "restored"
                      /\ r \in resumed => origin'[r] = "resumed"
  BY <1>1, <1>3
<1>8. OneQueued'
  BY <1>4, <1>5 DEF OneQueued, Rivals
<1>9. ASSUME NEW p \in Runs, NEW q \in Runs, Rivals(p, q), Contends(p)', Contends(q)'
      PROVE  {origin'[p], origin'[q]} = {"resumed", "restored"}
  <2>1. CASE row[p] = "queued" /\ q \in resumed
    BY <1>7, <2>1
  <2>2. CASE row[q] = "queued" /\ p \in resumed
    BY <1>7, <2>2
  <2>3. QED
    BY <1>2, <1>4, <1>6, <1>9, <2>1, <2>2
<1>10. QED
  BY <1>8, <1>9 DEF RivalsFit, Rivals

\* Every step keeps the promise to any two runs of a branch.
LEMMA RivalsStep == TypeOK /\ RunFits /\ DaemonFits /\ BranchFits /\ [Next]_vars => (OneQueued /\ RivalsFit)'
<1> SUFFICES ASSUME TypeOK, RunFits, DaemonFits, BranchFits, [Next]_vars PROVE (OneQueued /\ RivalsFit)'
  OBVIOUS
<1>1. OneQueued /\ RivalsFit
  BY DEF BranchFits
<1>2. CASE Calm
  BY <1>1, <1>2, CalmRivals
<1>3. CASE Boot
  BY <1>3, BootRivals
<1>4. ASSUME NEW r \in Runs, Admit(r) \/ Enqueue(r) PROVE (OneQueued /\ RivalsFit)'
  BY <1>1, <1>4, JoinStep, JoinRivals
<1>5. QED
  BY <1>2, <1>3, <1>4, CalmStep DEF NewRival

----------------------------------------------------------------------------
\* The invariant holds when the daemon first starts.
LEMMA InitInv == Init => IInv
<1> SUFFICES ASSUME Init PROVE IInv
  OBVIOUS
<1> USE DEF Init
<1>1. TypeOK
  <2>1. <<>> \in Seq(Runs) /\ 0 \in 0..MaxGates /\ 0 \in 0..MaxEvents
    BY EmptySeq, BoundAssumption
  <2>2. QED
    BY <2>1, RunsAssumption DEF TypeOK, Owners, Causes, Places, Rows!Status
<1>2. RunFits /\ DaemonFits
  BY DEF RunFits, DaemonFits, RowFits, GoneFits, TableFits, GateFits, Unborn, Pending, AtGate, Failing,
      Ended, Deciding
<1>3. QueueFits
  BY DEF QueueFits, Once, InLine
<1>4. SlotsFit
  <2>1. Cardinality(slots) <= Slots
    BY FS_EmptySet, BoundAssumption
  <2>2. QED
    BY <2>1 DEF SlotsFit, SlotsHeld, Once, InLine
<1>5. BranchFits
  BY DEF BranchFits, OriginFits, LockFits, OneQueued, RivalsFit, WaitsFit, Contends, AtWork, Launching
<1>6. QED
  BY <1>1, <1>2, <1>3, <1>4, <1>5 DEF IInv

\* The invariant is inductive.
LEMMA Inductive == Spec => []IInv
<1>1. IInv /\ [Next]_vars => IInv'
  BY TypeStep, FitsStep, QueueStep, SlotsStep, OriginStep, LockStep, WaitsStep, RivalsStep DEF IInv, BranchFits
<1>2. QED
  BY InitInv, <1>1, PTL DEF Spec

\* Every reachable state is well typed, for any runs, branches, slots and bounds.
THEOREM TypeCorrect == Spec => []TypeOK
<1>1. IInv => TypeOK
  BY DEF IInv
<1>2. QED
  BY Inductive, <1>1, PTL

\* The rows live as RunRow says, over aborts, supersessions, shutdowns, deaths and refused
\* writes: nothing is written over an outcome.
THEOREM Refines == Spec => RowsImplement
<1>1. Init => Rows!Init
  BY DEF Init, Rows!Init
<1>2. IInv /\ [Next]_vars => [Rows!Next]_row
  BY RowsStep DEF IInv
<1>3. QED
  BY Inductive, <1>1, <1>2, PTL DEF Spec, RowsImplement, Rows!Spec

\* The row, the table and the queue agree on who is queued, whatever takes a run out of them.
THEOREM QueueKept == Spec => []QueuesAgree
<1>1. IInv => QueuesAgree
  <2> SUFFICES ASSUME IInv, mode \in {"starting", "up"}, NEW r \in Runs
               PROVE  /\ queue = order
                      /\ (row[r] = "queued") = (table[r] = "queued")
                      /\ (row[r] = "queued") = (Len(Without(order, r)) = Len(order) - 1)
    BY DEF QueuesAgree, IInv, QueueFits
  <2>1. order \in Seq(Runs) /\ Once(order) /\ InLine(order) = {q \in Runs : row[q] = "queued"} /\ queue = order
    BY DEF IInv, TypeOK, QueueFits
  <2>2. row[r] = "queued" <=> table[r] = "queued"
    BY QueuedPlace DEF IInv, RunFits, RowFits, TableFits
  <2>3. CASE row[r] = "queued"
    BY <2>1, <2>2, <2>3, WithoutLine
  <2>4. CASE row[r] # "queued"
    <3>1. Without(order, r) = order
      BY <2>1, <2>4, WithoutLine
    <3>2. Len(order) \in Nat
      BY <2>1
    <3>3. QED
      BY <2>1, <2>2, <2>4, <3>1, <3>2
  <2>5. QED
    BY <2>3, <2>4
<1>2. QED
  BY Inductive, <1>1, PTL

\* A run that has not ended has an owner while the daemon runs.
THEOREM Owned == Spec => []RowsOwned
<1>1. IInv => RowsOwned
  BY DEF IInv, RowsOwned, RunFits, TableFits, GoneFits, RowFits, Unborn, Active, Rows!Active
<1>2. QED
  BY Inductive, <1>1, PTL

\* Slots stay with the runs that work, within the limit, and worktrees with the runs that
\* have not ended.
THEOREM Custody == Spec => []CustodyKept
<1>1. IInv => CustodyKept
  BY DEF IInv, CustodyKept, WorktreeKept, SlotsFit, RunFits, GateFits
<1>2. QED
  BY Inductive, <1>1, PTL

\* No two runs of a branch are at work together, but for the exception of a restart.
THEOREM Waits == Spec => []ReplacementWaits
<1>1. IInv => ReplacementWaits
  <2> SUFFICES ASSUME IInv, NEW p \in Pairs, AtWork(p[1]), AtWork(p[2])
               PROVE  {origin[p[1]], origin[p[2]]} = {"resumed", "restored"}
    BY DEF ReplacementWaits
  <2>1. p[1] \in Runs /\ p[2] \in Runs /\ Rivals(p[1], p[2])
    BY DEF Pairs, Rivals
  <2>2. QED
    BY <2>1 DEF IInv, BranchFits, RivalsFit, Contends
<1>2. QED
  BY Inductive, <1>1, PTL

\* A daemon that shuts down comes down by its orderly exit, or dies.
LEMMA OnlyExit ==
    ASSUME TypeOK, [Next]_vars, mode = "stopping", mode' = "down", spent' = spent
    PROVE  Exit
<1> USE DEF daemon
<1>1. ASSUME NEW r \in Runs, Launch(r) PROVE mode' = mode
  BY <1>1 DEF Launch, Insert, InsertFails, CancelNext, CancelFails, WaitExpires, Admit, Enqueue,
      EnqueueFails, SettleUnadmitted, Register, Unadmitted
<1>2. ASSUME NEW r \in Runs, Setup(r) PROVE mode' = mode
  BY <1>2 DEF Setup, CreateWorktree, SetupFails, AttachRefused, RefusedReleases, SettleSetup, Attach
<1>3. ASSUME NEW r \in Runs, Execute(r) PROVE mode' = mode
  BY <1>3 DEF Execute, Start, Park, GoOn, Resume, Complete, Fails, Cancelled, FailRun, FailRefused,
      SettleTerminalWrite, ReportWorkloadDone, Return, Depart, Leave, LeftReleases, LeftDeparts
<1>4. ASSUME NEW r \in Runs, Begin(r) \/ Answer(r) \/ Abort(r) \/ StartQueued(r) \/ DropQueued(r) PROVE mode'
   = mode
  BY <1>4 DEF Begin, Answer, Abort, StartQueued, DropQueued
<1>5. CASE ClaimFails \/ RetryClaim \/ Grant \/ Outage \/ Heal
  BY <1>5 DEF ClaimFails, RetryClaim, Grant, Outage, Heal
<1>6. CASE Shutdown \/ Boot \/ Serve
  BY <1>6 DEF Shutdown, Boot, Serve
<1>7. CASE Crash
  <2>1. spent' = spent + 1
    BY <1>7 DEF Crash, Spend
  <2>2. spent \in Nat
    BY BoundAssumption DEF TypeOK
  <2>3. QED
    BY <2>1, <2>2
<1>8. CASE UNCHANGED vars
  BY <1>8 DEF vars
<1>9. QED
  BY <1>1, <1>2, <1>3, <1>4, <1>5, <1>6, <1>7, <1>8 DEF Next, Step, Queue

\* An orderly exit leaves a run that has not ended only at its gate, with its worktree, or to the
\* request that still launches it.
THEOREM Settles == Spec => ExitSettles
<1>1. IInv /\ [Next]_vars =>
          [mode = "stopping" /\ mode' = "down" /\ spent' = spent /\ recovered =>
              \A r \in Runs : row[r] \in Active => Requested(r) \/ (r \in awaiting /\ r \in worktree)]_vars
  <2> SUFFICES ASSUME IInv, [Next]_vars, mode = "stopping", mode' = "down", spent' = spent, recovered,
                      NEW r \in Runs, row[r] \in Active, ~ Requested(r)
               PROVE  r \in awaiting /\ r \in worktree
    OBVIOUS
  <2>1. Exit
    BY OnlyExit DEF IInv
  <2>2. pc[r] \in {"new", "queued", "gone"}
    BY <2>1 DEF Exit, Counted
  <2>3. pc[r] = "gone"
    BY <2>2 DEF IInv, RunFits, RowFits, Unborn, Active, Rows!Active
  <2>4. row[r] = "running" /\ r \in awaiting
    BY <2>3 DEF IInv, RunFits, GoneFits
  <2>5. QED
    BY <2>4 DEF IInv, RunFits, GateFits
<1>2. QED
  BY Inductive, <1>1, PTL DEF Spec, ExitSettles

\* A branch has one contender, at work or in the queue to be, whatever is superseded,
\* cancelled, restored or resumed; but for one pair: a run that the present daemon resumed,
\* and one that it restored to the queue.
Contenders(p, q) == p # q /\ Branch[p] = Branch[q] /\ Contends(p) /\ Contends(q)
OneContender ==
    /\ \A p, q \in Runs : Contenders(p, q) => {origin[p], origin[q]} = {"resumed", "restored"}
    /\ \A p, q, r \in Runs : Contenders(p, q) /\ Contenders(p, r) => q = r

\* A launch leaves no rival on its branch, not even one that is still queued
\* (startRunWithIntentSourceLocked), and a restart leaves a branch at most a resumed run and
\* its queued replacement, never three (recoverableParkedRuns).
THEOREM OnePerBranch == Spec => []OneContender
<1>1. ASSUME RivalsFit, NEW p \in Runs, NEW q \in Runs, Contenders(p, q)
      PROVE  {origin[p], origin[q]} = {"resumed", "restored"}
  BY <1>1 DEF RivalsFit, Rivals, Contenders
<1>2. ASSUME RivalsFit, NEW p \in Runs, NEW q \in Runs, NEW r \in Runs, Contenders(p, q), Contenders(p, r)
      PROVE  q = r
  <2> SUFFICES ASSUME q # r PROVE FALSE
    OBVIOUS
  <2>1. Contenders(q, r)
    BY <1>2 DEF Contenders
  <2>2. /\ {origin[p], origin[q]} = {"resumed", "restored"}
        /\ {origin[p], origin[r]} = {"resumed", "restored"}
        /\ {origin[q], origin[r]} = {"resumed", "restored"}
    BY <1>1, <1>2, <2>1
  <2> QED BY <2>2
<1>3. IInv => OneContender
  BY <1>1, <1>2 DEF IInv, BranchFits, OneContender
<1>4. QED
  BY Inductive, <1>3, PTL
=============================================================================
