---------------------- MODULE PushNotifications_proofs ----------------------
(***************************************************************************)
(* What PushNotifications guarantees for any commits, nonces and bounds:   *)
(* its states are well typed, a run that a notification started is the one *)
(* it names, a push is not validated again while the branch stays, a nonce *)
(* has one run, and a notification cancels no work newer than itself.      *)
(***************************************************************************)
EXTENDS PushNotifications, TLAPS

\* A retained notification is about a push that moved the branch, and a diagnostic row of
\* its own is no work.
RecFits == \A i \in 1..count.rec :
              /\ rec[i].push \in 1..count.push /\ push[rec[i].push].new # Zero
              /\ rec[i].diag > rec[i].prev => run[rec[i].diag].status = "over"
HeadFits == \A r \in Made : run[r].head \in Heads

\* A launch on its way: there is room for its run, and nobody else starts one.
Launching == {"retained", "checked", "fresh"}
JobFits ==
    /\ job.at \in Launching => count.run < MaxRuns /\ job.new \in Heads
    /\ job.at \in {"retained", "checked"} => job.rec # 0
    /\ job.at = "made" => job.run \in Made /\ run[job.run].status = "pending"
    /\ ~up => job.at = "idle"
    /\ job.at \in {"checked", "fresh"} => WithNonce(job.nonce) = {}

\* A launch that was validated has no run yet, and no work is newer than its notification;
\* nor is any that it goes on to cancel.
ValidFits ==
    job.rec # 0 =>
        /\ job.at \in {"checked", "fresh"} => /\ rec[job.rec].ran = 0
                                              /\ \A r \in Active : r <= rec[job.rec].prev
        /\ \A r \in job.preds : r <= rec[job.rec].prev

IInv == TypeOK /\ RecFits /\ HeadFits /\ JobFits /\ ValidFits /\ StartedByOne /\ NonceHasOneRun

-----------------------------------------------------------------------------
(* The initial states.                                                        *)
LEMMA InitStep == Init => IInv
<1> SUFFICES ASSUME Init PROVE IInv
  OBVIOUS
<1> USE PushAssumption
<1>1. count = [push |-> 0, rec |-> 0, run |-> 0, trouble |-> 0] /\ Made = {}
  BY DEF Init, Made
<1>2. TypeOK
  <2>1. tip \in Heads \cup {Zero} /\ asked \in Commits /\ up \in BOOLEAN /\ bad \in BOOLEAN
    BY DEF Init, Commits
  <2>2. count \in Counts
    BY <1>1 DEF Counts
  <2>3. push \in [Pushes -> Updates]
    BY DEF Init, NoPush, Updates, NoNonce
  <2>4. rec \in [Records -> Notifications]
    BY <1>1 DEF Init, NoRec, Retain, Notifications
  <2>5. run \in [Runs -> Rows]
    BY <1>1 DEF Init, NoRun, Rows, Statuses, Commits, NoNonce
  <2>6. job \in Launch
    BY <1>1 DEF Init, Idle, Begin, Launch, Commits, NoNonce
  <2> QED
    BY <2>1, <2>2, <2>3, <2>4, <2>5, <2>6 DEF TypeOK
<1>3. RecFits /\ HeadFits /\ StartedByOne /\ NonceHasOneRun
  BY <1>1 DEF RecFits, HeadFits, StartedByOne, NonceHasOneRun
<1>4. JobFits /\ ValidFits
  BY DEF Init, JobFits, ValidFits, Idle, Begin, Launching
<1> QED
  BY <1>2, <1>3, <1>4 DEF IInv

-----------------------------------------------------------------------------
(* The frame of an action.                                                    *)

\* The counts go up by one, and what was well typed stays so.
LEMMA Grows ==
    ASSUME TypeOK, count' \in Counts, count'.push >= count.push, count'.rec >= count.rec, count'.run >= count.run
    PROVE  /\ Notifications \subseteq Notifications' /\ Rows \subseteq Rows' /\ Launch \subseteq Launch'
           /\ UNCHANGED rec => rec' \in [Records -> Notifications']
           /\ UNCHANGED run => run' \in [Runs -> Rows']
           /\ UNCHANGED job => job' \in Launch'
<1> USE PushAssumption
<1>1. /\ count.push \in Nat /\ count'.push \in Nat /\ count.rec \in Nat /\ count'.rec \in Nat
      /\ count.run \in Nat /\ count'.run \in Nat
  BY DEF TypeOK, Counts
<1>2. 0..count.push \subseteq 0..count'.push /\ 0..count.rec \subseteq 0..count'.rec
      /\ 0..count.run \subseteq 0..count'.run /\ Made \subseteq Made'
  BY <1>1 DEF Made
<1>3. Notifications \subseteq Notifications'
  BY <1>2 DEF Notifications
<1>4. Rows \subseteq Rows'
  BY <1>2 DEF Rows
<1>5. Launch \subseteq Launch'
  BY <1>2 DEF Launch
<1> QED
  BY <1>3, <1>4, <1>5 DEF TypeOK

LEMMA CountsUp ==
    ASSUME TypeOK
    PROVE  /\ Counted("push") /\ count.push < MaxPushes =>
                 count' \in Counts /\ count' = [count EXCEPT !.push = @ + 1] /\ count'.push = count.push + 1
                 /\ count'.rec = count.rec /\ count'.run = count.run
           /\ Counted("rec") /\ count.rec < MaxRecords =>
                 count' \in Counts /\ count'.rec = count.rec + 1
                 /\ count'.push = count.push /\ count'.run = count.run
           /\ Counted("run") /\ count.run < MaxRuns =>
                 count' \in Counts /\ count'.run = count.run + 1
                 /\ count'.push = count.push /\ count'.rec = count.rec
           /\ Trouble => count' \in Counts /\ count'.push = count.push /\ count'.rec = count.rec
                         /\ count'.run = count.run
           /\ count.push \in 0..MaxPushes /\ count.rec \in 0..MaxRecords /\ count.run \in 0..MaxRuns
BY PushAssumption DEF TypeOK, Counts, Counted, Trouble

\* What the type says of the parts of the state.
LEMMA Types ==
    ASSUME TypeOK
    PROVE  /\ count.push \in 0..MaxPushes /\ count.rec \in 0..MaxRecords /\ count.run \in 0..MaxRuns
           /\ \A i \in Records : /\ rec[i] \in Notifications /\ rec[i].push \in 0..count.push
                                 /\ rec[i].prev \in 0..count.run /\ rec[i].ran \in 0..count.run
                                 /\ rec[i].diag \in 0..count.run
           /\ \A r \in Runs : run[r] \in Rows /\ run[r].by \in 0..count.rec
           /\ \A p \in Pushes : push[p] \in Updates
           /\ job.rec \in 0..count.rec /\ job.run \in 0..count.run /\ job.preds \subseteq Made
           /\ Made \subseteq Runs /\ 1..count.rec \subseteq Records /\ 1..count.push \subseteq Pushes
<1> USE PushAssumption
<1>1. count.push \in 0..MaxPushes /\ count.rec \in 0..MaxRecords /\ count.run \in 0..MaxRuns
  BY DEF TypeOK, Counts
<1>2. Made \subseteq Runs /\ 1..count.rec \subseteq Records /\ 1..count.push \subseteq Pushes
  BY <1>1 DEF Made, Runs, Records, Pushes
<1>3. \A i \in Records : rec[i] \in Notifications
  BY DEF TypeOK
<1>4. \A r \in Runs : run[r] \in Rows
  BY DEF TypeOK
<1>5. \A p \in Pushes : push[p] \in Updates
  BY DEF TypeOK
<1>6. job \in Launch
  BY DEF TypeOK
<1>7. \A x \in Notifications : /\ x.push \in 0..count.push /\ x.prev \in 0..count.run
                               /\ x.ran \in 0..count.run /\ x.diag \in 0..count.run
  BY DEF Notifications
<1>8. \A x \in Rows : x.by \in 0..count.rec
  BY DEF Rows
<1>9. job.rec \in 0..count.rec /\ job.run \in 0..count.run /\ job.preds \subseteq Made
  BY <1>6 DEF Launch
<1> QED
  BY <1>1, <1>2, <1>3, <1>4, <1>5, <1>7, <1>8, <1>9

\* The counts of pushes, records and runs stay.
SameCounts == count' \in Counts /\ count'.push = count.push /\ count'.rec = count.rec /\ count'.run = count.run

LEMMA CountsStay == ASSUME TypeOK, UNCHANGED count \/ Trouble PROVE SameCounts
<1>1. CASE UNCHANGED count
  BY <1>1 DEF SameCounts, TypeOK
<1>2. CASE Trouble
  BY <1>2, CountsUp DEF SameCounts
<1> QED
  BY <1>1, <1>2

\* An unlocked branch has nothing to say of a launch.
LEMMA Unlocked ==
    ASSUME TypeOK, count' \in Counts, Unlock
    PROVE  job' \in Launch' /\ JobFits' /\ ValidFits'
<1>1. 0 \in 0..count'.rec /\ 0 \in 0..count'.run
  BY PushAssumption DEF Counts
<1>2. job' \in Launch'
  BY <1>1 DEF Unlock, Idle, Begin, Launch, Commits, NoNonce
<1>3. JobFits' /\ ValidFits'
  BY DEF Unlock, Idle, Begin, JobFits, ValidFits, Launching
<1> QED
  BY <1>2, <1>3

\* The rows move on: what was over stays over, and nothing else of a row that the
\* notifications, the nonces and the launches rest on changes.
RowsMove ==
    /\ run' \in [Runs -> Rows]
    /\ \A r \in Made : /\ run'[r].nonce = run[r].nonce /\ run'[r].by = run[r].by /\ run'[r].head \in Heads
                       /\ run[r].status = "over" => run'[r].status = "over"

LEMMA RowsStay == ASSUME IInv, UNCHANGED run PROVE RowsMove
BY DEF IInv, TypeOK, HeadFits, RowsMove

\* Rows that move on, with the notifications and the counts as they are.
LEMMA Moved ==
    ASSUME IInv, SameCounts, UNCHANGED <<rec, push>>, RowsMove
    PROVE  /\ RecFits' /\ HeadFits' /\ StartedByOne' /\ NonceHasOneRun'
           /\ Made' = Made /\ \A n : WithNonce(n)' = WithNonce(n)
           /\ Notifications' = Notifications /\ Rows' = Rows /\ Launch' = Launch
           /\ rec' \in [Records -> Notifications'] /\ run' \in [Runs -> Rows'] /\ push' \in [Pushes -> Updates]
<1>0. TypeOK
  BY DEF IInv
<1>1. Made' = Made
  BY DEF SameCounts, Made
<1>2. \A n : WithNonce(n)' = WithNonce(n)
  BY <1>1 DEF WithNonce, RowsMove
<1>3. Notifications' = Notifications /\ Rows' = Rows /\ Launch' = Launch
  BY <1>1 DEF SameCounts, Notifications, Rows, Launch
<1>4. HeadFits'
  BY <1>1 DEF HeadFits, RowsMove
<1>5. StartedByOne'
  BY <1>1 DEF IInv, StartedByOne, RowsMove
<1>6. NonceHasOneRun'
  BY <1>1 DEF IInv, NonceHasOneRun, RowsMove
<1>7. RecFits'
  <2> SUFFICES ASSUME NEW i \in 1..count.rec
               PROVE  /\ rec[i].push \in 1..count.push /\ push[rec[i].push].new # Zero
                      /\ rec[i].diag > rec[i].prev => run'[rec[i].diag].status = "over"
    BY DEF RecFits, SameCounts
  <2>1. /\ rec[i].push \in 1..count.push /\ push[rec[i].push].new # Zero
        /\ rec[i].diag > rec[i].prev => run[rec[i].diag].status = "over"
    BY DEF IInv, RecFits
  <2>2. rec[i].diag > rec[i].prev => rec[i].diag \in Made
    BY <1>0, Types DEF Made
  <2> QED
    BY <2>1, <2>2 DEF RowsMove
<1>8. /\ rec' \in [Records -> Notifications'] /\ run' \in [Runs -> Rows'] /\ push' \in [Pushes -> Updates]
  BY <1>0, <1>3 DEF TypeOK, RowsMove
<1> QED
  BY <1>1, <1>2, <1>3, <1>4, <1>5, <1>6, <1>7, <1>8

\* The same, with the launch as it is or given up.
LEMMA MovedIdle ==
    ASSUME IInv, SameCounts, UNCHANGED <<rec, push>>, RowsMove, Unlock,
           tip' \in Heads \cup {Zero}, asked' \in Commits, up' \in BOOLEAN, bad' \in BOOLEAN
    PROVE  IInv'
<1>1. job' \in Launch' /\ JobFits' /\ ValidFits'
  BY Unlocked DEF IInv, SameCounts
<1>2. count' \in Counts
  BY DEF SameCounts
<1> QED
  BY <1>1, <1>2, Moved DEF IInv, TypeOK

LEMMA MovedOnly ==
    ASSUME IInv, SameCounts, UNCHANGED <<rec, push>>, RowsMove, UNCHANGED job,
           tip' \in Heads \cup {Zero}, asked' \in Commits, up' \in BOOLEAN, bad' \in BOOLEAN,
           up' = up \/ up', Active' \subseteq Active,
           job.at = "made" => run'[job.run].status = run[job.run].status
    PROVE  IInv'
<1>1. job' \in Launch'
  BY Moved DEF IInv, TypeOK
<1>2. JobFits'
  BY Moved DEF IInv, JobFits, Launching, SameCounts
<1>3. ValidFits'
  BY DEF IInv, ValidFits
<1>4. count' \in Counts
  BY DEF SameCounts
<1> QED
  BY <1>1, <1>2, <1>3, <1>4, Moved DEF IInv, TypeOK

-----------------------------------------------------------------------------
(* The daemon, the config and the runs.                                       *)

LEMMA FinishStep == ASSUME IInv, NEW r \in Runs, Finish(r) PROVE IInv'
<1>1. r \in Made /\ r \in Runs /\ run[r].status = "active" /\ run' = [run EXCEPT ![r].status = "over"]
  BY DEF Finish, Active, Ended
<1>2. RowsMove
  <2>1. run' \in [Runs -> Rows]
    BY <1>1 DEF IInv, TypeOK, Rows, Statuses
  <2> QED
    BY <1>1, <2>1 DEF IInv, TypeOK, RowsMove, HeadFits, Rows
<1>3. job.at = "made" => run'[job.run].status = run[job.run].status
  BY <1>1 DEF IInv, JobFits
<1>4. Active' \subseteq Active
  BY <1>1 DEF Active, Made, Finish, IInv, TypeOK
<1> QED
  BY <1>2, <1>3, <1>4, CountsStay, MovedOnly DEF Finish, gate, host, IInv, TypeOK

LEMMA CommitStep == ASSUME IInv, NEW r \in Runs, NEW h \in Heads, Commit(r, h) PROVE IInv'
<1>1. r \in Made /\ run' = [run EXCEPT ![r].head = h]
  BY DEF Commit, Active
<1>2. RowsMove
  <2>1. run' \in [Runs -> Rows]
    BY <1>1 DEF IInv, TypeOK, Rows, Commits
  <2> QED
    BY <1>1, <2>1 DEF IInv, TypeOK, RowsMove, HeadFits, Rows
<1>3. \A o \in Runs : run'[o].status = run[o].status
  BY <1>1 DEF IInv, TypeOK, Rows
<1>4. job.at = "made" => run'[job.run].status = run[job.run].status
  BY <1>3, Types DEF IInv, JobFits
<1>5. Active' \subseteq Active
  BY <1>3, Types DEF Active, Made, Commit, IInv
<1> QED
  BY <1>2, <1>4, <1>5, CountsStay, MovedOnly DEF Commit, gate, host, IInv, TypeOK

LEMMA PublishStep == ASSUME IInv, NEW r \in Runs, Publish(r) PROVE IInv'
<1>1. r \in Made /\ run' = [run EXCEPT ![r].pushed = run[r].head]
  BY DEF Publish, Active
<1>2. run[r].head \in Heads
  BY <1>1 DEF IInv, HeadFits
<1>3. RowsMove
  <2>1. run' \in [Runs -> Rows]
    BY <1>1, <1>2 DEF IInv, TypeOK, Rows, Commits
  <2> QED
    BY <1>1, <2>1 DEF IInv, TypeOK, RowsMove, HeadFits, Rows
<1>4. \A o \in Runs : run'[o].status = run[o].status
  BY <1>1 DEF IInv, TypeOK, Rows
<1>5. job.at = "made" => run'[job.run].status = run[job.run].status
  BY <1>4, Types DEF IInv, JobFits
<1>6. Active' \subseteq Active
  BY <1>4, Types DEF Active, Made, Publish, IInv
<1>7. tip' \in Heads \cup {Zero}
  BY <1>2 DEF Publish, IInv, TypeOK
<1> QED
  BY <1>3, <1>5, <1>6, <1>7, CountsStay, MovedOnly DEF Publish, host, IInv, TypeOK

LEMMA StartStep == ASSUME IInv, Start PROVE IInv'
<1>1. job.at = "idle"
  BY DEF Start, IInv, JobFits
<1>2. PICK lost \in SUBSET Active :
        run' = [r \in Runs |-> IF r \in lost \cup Pending THEN [run[r] EXCEPT !.status = "over"] ELSE run[r]]
  BY DEF Start
<1>3. \A r \in Runs : /\ run[r] \in Rows
                     /\ (run'[r] = run[r] \/ run'[r] = [run[r] EXCEPT !.status = "over"])
  BY <1>2, Types DEF IInv
<1>4. \A r \in Runs : [run[r] EXCEPT !.status = "over"] \in Rows
  BY Types DEF IInv, Rows, Statuses
<1>5. run' \in [Runs -> Rows]
  BY <1>2, <1>4 DEF IInv, TypeOK
<1>6. \A r \in Runs : /\ run'[r].nonce = run[r].nonce /\ run'[r].by = run[r].by
                     /\ run'[r].head = run[r].head
                     /\ run'[r].status \in {run[r].status, "over"}
  <2> SUFFICES ASSUME NEW r \in Runs
               PROVE  /\ run'[r].nonce = run[r].nonce /\ run'[r].by = run[r].by
                      /\ run'[r].head = run[r].head
                      /\ run'[r].status \in {run[r].status, "over"}
    OBVIOUS
  <2>1. CASE run'[r] = run[r]
    BY <2>1
  <2>2. CASE run'[r] = [run[r] EXCEPT !.status = "over"]
    BY <1>3, <2>2 DEF Rows
  <2> QED
    BY <1>3, <2>1, <2>2
<1>7. RowsMove
  <2>2. Made \subseteq Runs
    BY Types DEF IInv
  <2> QED
    BY <1>5, <1>6, <2>2 DEF IInv, RowsMove, HeadFits
<1>8. Active' \subseteq Active
  <2>2. Made \subseteq Runs /\ Made' = Made
    BY Types DEF IInv, Made, Start
  <2> QED
    BY <1>6, <2>2 DEF Active
<1> QED
  BY <1>1, <1>7, <1>8, CountsStay, MovedOnly DEF Start, gate, host, IInv, TypeOK

LEMMA ConfigStep == ASSUME IInv, Break \/ Repair PROVE IInv'
<1>1. /\ UNCHANGED <<asked, gate, rec, run, job, up>> /\ bad' \in BOOLEAN
      /\ (UNCHANGED count \/ Trouble)
  BY DEF Break, Repair
<1>2. Active' \subseteq Active
  BY <1>1, CountsStay DEF Active, Made, SameCounts, IInv
<1> QED
  BY <1>1, <1>2, CountsStay, RowsStay, MovedOnly DEF gate, host, IInv, TypeOK

LEMMA CrashStep == ASSUME IInv, Crash PROVE IInv'
BY CountsStay, RowsStay, MovedIdle DEF Crash, gate, IInv, TypeOK, Commits

LEMMA AskRerunStep == ASSUME IInv, AskRerun PROVE IInv'
<1>1. UNCHANGED <<tip, push, rec, run, job, up, bad, count>>
  BY DEF AskRerun, gate, host
<1>2. count.run \in Made
  BY Types DEF AskRerun, Made, IInv
<1>3. asked' \in Commits
  BY <1>2 DEF AskRerun, RerunHeads, IInv, TypeOK, HeadFits, Commits
<1>4. Active' \subseteq Active
  BY <1>1 DEF Active, Made
<1> QED
  BY <1>1, <1>3, <1>4, CountsStay, RowsStay, MovedOnly DEF IInv, TypeOK

-----------------------------------------------------------------------------
(* A launch up to its row.                                                    *)

\* A launch that ends without a row.
LEMMA GivenUpStep ==
    ASSUME IInv, Answer \/ Refuse \/ Superfluous \/ NoConfig \/ InsertFails
    PROVE  IInv'
<1>1. /\ UNCHANGED <<asked, gate, rec, run, host>> /\ Unlock
      /\ (UNCHANGED count \/ Trouble)
  BY DEF Answer, Refuse, Superfluous, NoConfig, InsertFails
<1> QED
  BY <1>1, CountsStay, RowsStay, MovedIdle DEF gate, host, IInv, TypeOK

\* What a launch begins as.
LEMMA Begun ==
    ASSUME IInv, NEW place \in {"retained", "fresh"}, NEW i \in 0..count.rec, NEW h \in Heads,
           NEW n \in NoNonce,
           job' = Begin(place, i, h, n)
    PROVE  /\ job' \in Launch /\ job'.at = place /\ job'.rec = i /\ job'.new = h /\ job'.nonce = n
           /\ job'.preds = {}
<1>1. place \in {"idle", "retained", "checked", "fresh", "made"} /\ h \in Commits
  BY DEF Commits
<1>2. 0 \in 0..count.run /\ {} \in SUBSET Made
  BY Types, PushAssumption DEF IInv
<1> QED
  BY <1>1, <1>2 DEF Launch, Begin

\* The runs of the branch and the counts are as they are when a launch begins, and no
\* launch was on its way.
LEMMA BegunStep ==
    ASSUME IInv, UNCHANGED <<gate, rec, run, host, count>>, asked' \in Commits, up,
           job'.at \in {"retained", "fresh"}, job' \in Launch, count.run < MaxRuns, job'.new \in Heads,
           job'.at = "retained" => job'.rec # 0, job'.at = "fresh" => job'.rec = 0 /\ WithNonce(job'.nonce) = {},
           job'.preds = {}
    PROVE  IInv'
<1>1. SameCounts /\ RowsMove
  BY CountsStay, RowsStay DEF IInv
<1>2. JobFits'
  BY <1>1, Moved DEF JobFits, Launching, SameCounts, gate, host
<1>3. ValidFits'
  BY DEF ValidFits
<1>4. job' \in Launch'
  BY <1>1, Moved DEF gate
<1> QED
  BY <1>1, <1>2, <1>3, <1>4, Moved DEF IInv, TypeOK, SameCounts, gate, host

LEMMA ReplayStep == ASSUME IInv, NEW i \in Records, Replay(i) PROVE IInv'
<1> USE PushAssumption
<1>1. /\ i \in 1..count.rec /\ rec[i].push \in 1..count.push /\ NewOf(i) \in Heads
      /\ NonceOf(i) \in NoNonce
  <2>1. i \in 1..count.rec
    BY Types DEF Replay, Records, IInv
  <2>2. rec[i].push \in 1..count.push /\ push[rec[i].push].new # Zero
    BY <2>1 DEF IInv, RecFits
  <2>3. push[rec[i].push] \in Updates
    BY <2>2, Types DEF IInv
  <2> QED
    BY <2>1, <2>2, <2>3 DEF Updates, NewOf, NonceOf
<1>2. job' = Begin("retained", i, NewOf(i), NonceOf(i)) /\ i \in 0..count.rec
  BY <1>1, Types DEF Replay, IInv
<1>3. /\ job' \in Launch /\ job'.at = "retained" /\ job'.rec = i /\ job'.new = NewOf(i)
      /\ job'.preds = {} /\ i # 0
  BY <1>1, <1>2, Begun
<1> QED
  BY <1>1, <1>3, BegunStep DEF Replay, At, IInv, TypeOK

LEMMA RerunStep == ASSUME IInv, Rerun PROVE IInv'
<1>1. asked \in Heads
  BY DEF Rerun, IInv, TypeOK, Commits
<1>2. /\ job' \in Launch /\ job'.at = "fresh" /\ job'.rec = 0 /\ job'.new = asked
      /\ job'.preds = {} /\ job'.nonce = None
  <2>1. job' = Begin("fresh", 0, asked, None)
    BY DEF Rerun
  <2>2. 0 \in 0..count.rec
    BY Types, PushAssumption DEF IInv
  <2> QED
    BY <1>1, <2>1, <2>2, Begun DEF NoNonce
<1>3. WithNonce(None) = {}
  BY DEF WithNonce
<1> QED
  BY <1>1, <1>2, <1>3, BegunStep DEF Rerun, At, Commits

LEMMA StartFreshStep == ASSUME IInv, NEW n \in Nonces, StartFresh(n) PROVE IInv'
<1>1. tip \in Heads
  BY DEF StartFresh, IInv, TypeOK
<1>2. /\ job' \in Launch /\ job'.at = "fresh" /\ job'.rec = 0 /\ job'.new = tip
      /\ job'.preds = {} /\ job'.nonce = n
  <2>1. job' = Begin("fresh", 0, tip, n)
    BY DEF StartFresh
  <2>2. 0 \in 0..count.rec
    BY Types, PushAssumption DEF IInv
  <2> QED
    BY <1>1, <2>1, <2>2, Begun DEF NoNonce
<1> QED
  BY <1>1, <1>2, BegunStep DEF StartFresh, At, IInv, TypeOK

LEMMA ProceedStep == ASSUME IInv, Proceed PROVE IInv'
<1>1. SameCounts /\ RowsMove /\ UNCHANGED <<tip, asked, rec, push, run, up, bad, count>>
  BY CountsStay, RowsStay DEF Proceed, IInv, gate, host
<1>2. job.at = "checked" /\ up /\ job' = [job EXCEPT !.at = "fresh"]
  BY DEF Proceed, At, Goto
<1>3. /\ job' \in Launch /\ job'.at = "fresh" /\ job'.rec = job.rec /\ job'.new = job.new
      /\ job'.preds = job.preds /\ job'.nonce = job.nonce
  BY <1>2 DEF IInv, TypeOK, Launch
<1>4. JobFits'
  BY <1>1, <1>2, <1>3, Moved DEF IInv, JobFits, Launching
<1>5. ValidFits'
  BY <1>1, <1>2, <1>3 DEF IInv, ValidFits, Active, Made
<1> QED
  BY <1>1, <1>3, <1>4, <1>5, Moved DEF IInv, TypeOK, SameCounts

\* A notification is written again: its push and its predecessor stay, and it still
\* names the run that it started.
LEMMA Rewritten ==
    ASSUME IInv, UNCHANGED <<run, push, count>>,
           NEW i \in 1..count.rec, NEW x \in Notifications, rec' = [rec EXCEPT ![i] = x],
           x.push = rec[i].push, x.prev = rec[i].prev, x.diag \in {rec[i].diag, rec[i].prev},
           \A r \in Made : run[r].by = i => r \in {x.ran, x.diag}
    PROVE  /\ RecFits' /\ HeadFits' /\ StartedByOne' /\ NonceHasOneRun'
           /\ Made' = Made /\ Active' = Active /\ \A n : WithNonce(n)' = WithNonce(n)
           /\ Launch' = Launch /\ count' \in Counts
           /\ rec' \in [Records -> Notifications'] /\ run' \in [Runs -> Rows'] /\ push' \in [Pushes -> Updates]
<1> USE PushAssumption
<1>1. i \in Records /\ rec[i].prev \in Nat
  BY Types DEF IInv
<1>2. /\ Made' = Made /\ Active' = Active /\ Launch' = Launch /\ Rows' = Rows /\ Notifications' = Notifications
      /\ \A n : WithNonce(n)' = WithNonce(n)
  BY DEF Made, Active, Launch, Rows, Notifications, WithNonce
<1>3. HeadFits' /\ NonceHasOneRun'
  BY DEF IInv, HeadFits, NonceHasOneRun, Made
<1>4. rec' \in [Records -> Notifications'] /\ rec'[i] = x /\ \A j \in Records : j # i => rec'[j] = rec[j]
  BY <1>1, <1>2 DEF IInv, TypeOK
<1>5. RecFits'
  BY <1>1, <1>4, Types DEF IInv, RecFits
<1>6. StartedByOne'
  <2> SUFFICES ASSUME NEW r \in Made, run[r].by # 0
               PROVE  r \in {rec'[run[r].by].ran, rec'[run[r].by].diag}
    BY <1>2 DEF StartedByOne
  <2>1. run[r].by \in Records
    BY Types DEF IInv
  <2>2. CASE run[r].by = i
    BY <2>2, <1>4
  <2>3. CASE run[r].by # i
    BY <2>1, <2>3, <1>4 DEF IInv, StartedByOne
  <2> QED
    BY <2>2, <2>3
<1> QED
  BY <1>2, <1>3, <1>4, <1>5, <1>6 DEF IInv, TypeOK

\* What a launch of a notification is about.
LEMMA OfRecord ==
    ASSUME IInv, job.at \in {"retained", "checked"}
    PROVE  /\ job.rec \in 1..count.rec /\ job.rec \in Records /\ rec[job.rec] \in Notifications /\ job.rec # 0
BY Types, PushAssumption DEF IInv, JobFits

LEMMA BindNonceStep == ASSUME IInv, BindNonce PROVE IInv'
<1>1. job.at = "retained" /\ rec[job.rec].ran = 0 /\ UNCHANGED <<asked, tip, push, run, up, bad, count>> /\ Unlock
  BY DEF BindNonce, Unanswered, At, gate, host
<1>2. PICK r \in Made : rec' = [rec EXCEPT ![job.rec].validated = TRUE, ![job.rec].ran = r]
  BY DEF BindNonce, WithNonce
<1> DEFINE x == [rec[job.rec] EXCEPT !.validated = TRUE, !.ran = r]
<1>3. job.rec \in Records /\ rec[job.rec] \in Notifications /\ job.rec \in 1..count.rec
  BY <1>1, OfRecord
<1>4. r \in 0..count.run
  BY Types DEF Made, IInv
<1>5. /\ x \in Notifications /\ x.push = rec[job.rec].push /\ x.prev = rec[job.rec].prev
      /\ x.diag = rec[job.rec].diag /\ x.ran = r
  BY <1>3, <1>4 DEF Notifications
<1>6. rec' = [rec EXCEPT ![job.rec] = x]
  BY <1>2, <1>3 DEF IInv, TypeOK
<1>7. \A o \in Made : run[o].by = job.rec => o \in {x.ran, x.diag}
  <2> SUFFICES ASSUME NEW o \in Made, run[o].by = job.rec
               PROVE  o = x.diag
    OBVIOUS
  <2>1. o \in {rec[job.rec].ran, rec[job.rec].diag} /\ o # 0
    BY <1>3, Types DEF IInv, StartedByOne, Made
  <2> QED
    BY <1>1, <1>5, <2>1
<1> HIDE DEF x
<1>8. job' \in Launch' /\ JobFits' /\ ValidFits'
  BY <1>1, Unlocked DEF IInv, TypeOK
<1> QED
  BY <1>1, <1>3, <1>5, <1>6, <1>7, <1>8, Rewritten DEF IInv, TypeOK

LEMMA AttachStep == ASSUME IInv, Attach PROVE IInv'
<1>1. job.at = "checked" /\ UNCHANGED <<asked, tip, push, run, up, bad, count>> /\ Unlock
  BY DEF Attach, At, gate, host
<1>2. job.rec \in Records /\ rec[job.rec] \in Notifications /\ job.rec \in 1..count.rec
  BY <1>1, OfRecord
<1>3. rec[job.rec].ran = 0
  BY <1>1, <1>2, OfRecord DEF IInv, ValidFits
<1> DEFINE x == [rec[job.rec] EXCEPT !.ran = rec[job.rec].prev]
<1>4. /\ x \in Notifications /\ x.push = rec[job.rec].push /\ x.prev = rec[job.rec].prev
      /\ x.diag = rec[job.rec].diag
  BY <1>2 DEF Notifications
<1>5. rec' = [rec EXCEPT ![job.rec] = x]
  BY <1>2 DEF Attach, IInv, TypeOK
<1>6. \A o \in Made : run[o].by = job.rec => o \in {x.ran, x.diag}
  <2> SUFFICES ASSUME NEW o \in Made, run[o].by = job.rec
               PROVE  o = x.diag
    OBVIOUS
  <2>1. o \in {rec[job.rec].ran, rec[job.rec].diag} /\ o # 0
    BY <1>2, OfRecord, <1>1, Types DEF IInv, StartedByOne, Made
  <2> QED
    BY <1>3, <1>4, <2>1
<1> HIDE DEF x
<1>7. job' \in Launch' /\ JobFits' /\ ValidFits'
  BY <1>1, Unlocked DEF IInv, TypeOK
<1> QED
  BY <1>1, <1>2, <1>4, <1>5, <1>6, <1>7, Rewritten DEF IInv, TypeOK

LEMMA ShareDiagnosticStep == ASSUME IInv, ShareDiagnostic PROVE IInv'
<1>1. /\ job.at = "checked" /\ up /\ UNCHANGED <<asked, tip, push, run, up, bad, count>>
      /\ job' = [job EXCEPT !.at = "fresh"] /\ rec[job.rec].diag \in {0, rec[job.rec].prev}
  BY DEF ShareDiagnostic, At, Goto, gate, host
<1>2. job.rec \in Records /\ rec[job.rec] \in Notifications /\ job.rec \in 1..count.rec /\ job.rec # 0
  BY <1>1, OfRecord
<1>3. rec[job.rec].ran = 0
  BY <1>1, <1>2 DEF IInv, ValidFits
<1> DEFINE x == [rec[job.rec] EXCEPT !.diag = rec[job.rec].prev]
<1>4. /\ x \in Notifications /\ x.push = rec[job.rec].push /\ x.prev = rec[job.rec].prev
      /\ x.diag = rec[job.rec].prev /\ x.ran = 0
  BY <1>2, <1>3 DEF Notifications
<1>5. rec' = [rec EXCEPT ![job.rec] = x]
  BY <1>2 DEF ShareDiagnostic, IInv, TypeOK
<1>6. \A o \in Made : run[o].by = job.rec => o \in {x.ran, x.diag}
  <2> SUFFICES ASSUME NEW o \in Made, run[o].by = job.rec
               PROVE  o = x.diag
    OBVIOUS
  <2>1. o \in {rec[job.rec].ran, rec[job.rec].diag} /\ o # 0
    BY <1>2, Types DEF IInv, StartedByOne, Made
  <2> QED
    BY <1>1, <1>3, <1>4, <2>1
<1> HIDE DEF x
<1>7. /\ job' \in Launch /\ job'.at = "fresh" /\ job'.rec = job.rec /\ job'.new = job.new
      /\ job'.preds = job.preds /\ job'.nonce = job.nonce
  BY <1>1 DEF IInv, TypeOK, Launch
<1>8. rec'[job.rec] = x
  BY <1>2, <1>5 DEF IInv, TypeOK
<1>9. JobFits'
  BY <1>1, <1>2, <1>4, <1>5, <1>6, <1>7, Rewritten DEF IInv, JobFits, Launching
<1>10. ValidFits'
  BY <1>1, <1>2, <1>4, <1>7, <1>8 DEF IInv, ValidFits, Active, Made
<1> QED
  BY <1>1, <1>2, <1>4, <1>5, <1>6, <1>7, <1>9, <1>10, Rewritten DEF IInv, TypeOK

-----------------------------------------------------------------------------
(* The validation of a notification.                                          *)

\* The newest run is its predecessor, but for the run that LatestFor leaves out.
LEMMA NothingAfter ==
    ASSUME IInv, NEW i \in 1..count.rec, LatestFor(i) = rec[i].prev
    PROVE  \A r \in Made : r <= rec[i].prev \/ r = rec[i].diag
<1> USE PushAssumption
<1> DEFINE others == {r \in Made : r # rec[i].diag \/ r = rec[i].prev}
           IsLast(n) == n \in others /\ \A o \in others : o <= n
<1>1. count.run \in Nat /\ rec[i].diag \in Nat /\ rec[i].prev \in Nat /\ Made = 1..count.run
  BY Types DEF IInv, Made
<1> SUFFICES ASSUME NEW r \in Made, r # rec[i].diag PROVE r <= rec[i].prev
  OBVIOUS
<1>2. r \in others
  OBVIOUS
<1>3. PICK last : IsLast(last)
  <2>1. CASE count.run \in others
    BY <2>1, <1>1
  <2>2. CASE count.run \notin others
    <3>1. count.run = rec[i].diag
      BY <2>2, <1>1
    <3>2. count.run - 1 \in Made /\ count.run - 1 # rec[i].diag
      BY <3>1, <1>1
    <3>3. IsLast(count.run - 1)
      BY <2>2, <3>2, <1>1
    <3> QED
      BY <3>3
  <2> QED
    BY <2>1, <2>2
<1>4. LatestFor(i) = CHOOSE n \in others : \A o \in others : o <= n
  BY <1>2 DEF LatestFor
<1>5. IsLast(LatestFor(i))
  BY <1>3, <1>4
<1> QED
  BY <1>2, <1>5

\* No work is newer than the notification: its own diagnostic is over.
LEMMA NothingNewer ==
    ASSUME IInv, NEW i \in 1..count.rec, LatestFor(i) = rec[i].prev
    PROVE  \A r \in Active : r <= rec[i].prev
<1>1. rec[i].diag \in Nat /\ rec[i].prev \in Nat
  BY Types DEF IInv
<1> SUFFICES ASSUME NEW r \in Active, r = rec[i].diag PROVE r <= rec[i].prev
  BY NothingAfter DEF Active
<1>2. ~(rec[i].diag > rec[i].prev)
  BY DEF Active, IInv, RecFits
<1> QED
  BY <1>1, <1>2

LEMMA ValidateStep == ASSUME IInv, Validate PROVE IInv'
<1>1. /\ job.at = "retained" /\ up /\ rec[job.rec].ran = 0 /\ job' = [job EXCEPT !.at = "checked"]
      /\ UNCHANGED <<asked, tip, push, run, up, bad, count>> /\ WithNonce(job.nonce) = {}
      /\ LatestFor(job.rec) = rec[job.rec].prev
  BY DEF Validate, Unanswered, At, Goto, Current, gate, host
<1>2. job.rec \in Records /\ rec[job.rec] \in Notifications /\ job.rec \in 1..count.rec /\ job.rec # 0
  BY <1>1, OfRecord
<1> DEFINE x == [rec[job.rec] EXCEPT !.validated = TRUE]
<1>3. /\ x \in Notifications /\ x.push = rec[job.rec].push /\ x.prev = rec[job.rec].prev
      /\ x.diag = rec[job.rec].diag /\ x.ran = rec[job.rec].ran
  BY <1>2 DEF Notifications
<1>4. rec' = [rec EXCEPT ![job.rec] = x]
  BY <1>2 DEF Validate, IInv, TypeOK
<1>5. \A o \in Made : run[o].by = job.rec => o \in {x.ran, x.diag}
  BY <1>2, <1>3 DEF IInv, StartedByOne
<1> HIDE DEF x
<1>6. /\ job' \in Launch /\ job'.at = "checked" /\ job'.rec = job.rec /\ job'.new = job.new
      /\ job'.preds = job.preds /\ job'.nonce = job.nonce
  BY <1>1 DEF IInv, TypeOK, Launch
<1>7. rec'[job.rec] = x
  BY <1>2, <1>4 DEF IInv, TypeOK
<1>8. JobFits'
  BY <1>1, <1>2, <1>3, <1>4, <1>5, <1>6, Rewritten DEF IInv, JobFits, Launching
<1>9. ValidFits'
  <2>1. \A r \in Active : r <= rec[job.rec].prev
    BY <1>1, <1>2, NothingNewer
  <2> QED
    BY <1>1, <1>2, <1>3, <1>6, <1>7, <2>1 DEF IInv, ValidFits, Active, Made
<1> QED
  BY <1>1, <1>2, <1>3, <1>4, <1>5, <1>6, <1>8, <1>9, Rewritten DEF IInv, TypeOK

-----------------------------------------------------------------------------
(* The row of a launch, and its admission.                                    *)

\* A row is inserted and the notification bound to it: ran or diag becomes the new run.
LEMMA Inserted ==
    ASSUME IInv, NEW status \in {"pending", "over"}, NEW field \in {"ran", "diag"},
           InsertRun(status, field), job.at = "fresh",
           job.rec # 0 => rec[job.rec].ran = 0 /\ (field = "diag" => rec[job.rec].diag = 0),
           field = "diag" <=> status = "over"
    PROVE  /\ count' \in Counts /\ count'.run = count.run + 1 /\ count'.push = count.push /\ count'.rec = count.rec
           /\ UNCHANGED <<tip, push, asked, up, bad>>
           /\ Made' = Made \cup {count.run + 1} /\ Launch \subseteq Launch' /\ count.run + 1 \in Runs \ Made
           /\ rec' \in [Records -> Notifications'] /\ run' \in [Runs -> Rows'] /\ push' \in [Pushes -> Updates]
           /\ \A r \in Made : run'[r] = run[r]
           /\ run'[count.run + 1].status = status
           /\ \A i \in Records : rec'[i].prev = rec[i].prev
           /\ RecFits' /\ HeadFits' /\ StartedByOne' /\ NonceHasOneRun'
<1> USE PushAssumption
<1> DEFINE new == count.run + 1
           row == [status |-> status, submitted |-> job.new, head |-> job.new, pushed |-> None,
                   nonce |-> job.nonce, by |-> job.rec]
<1>0. TypeOK
  BY DEF IInv
<1>1. count.run < MaxRuns /\ job.new \in Heads /\ WithNonce(job.nonce) = {}
  BY DEF IInv, JobFits, Launching
<1>2. /\ count' \in Counts /\ count'.run = new /\ count'.push = count.push /\ count'.rec = count.rec
      /\ count.run \in Nat
  BY <1>0, <1>1, CountsUp DEF InsertRun
<1>3. UNCHANGED <<tip, push, asked, up, bad>> /\ run' = [run EXCEPT ![new] = row]
  BY DEF InsertRun, gate, host
<1>4. Made' = Made \cup {new} /\ new \in Runs /\ new \notin Made
  BY <1>1, <1>2 DEF Made, Runs
<1>5. /\ Notifications \subseteq Notifications' /\ Rows \subseteq Rows' /\ Launch \subseteq Launch'
  BY <1>0, <1>2, Grows, Types
<1>6. job.rec \in 0..count.rec /\ job.nonce \in NoNonce
  BY <1>0 DEF TypeOK, Launch
<1>7. row \in Rows'
  BY <1>1, <1>2, <1>6 DEF Rows, Statuses, Commits
<1>8. run' \in [Runs -> Rows']
  BY <1>0, <1>3, <1>5, <1>7 DEF TypeOK
<1>9. (\A r \in Made : run'[r] = run[r]) /\ run'[new] = row
  BY <1>0, <1>3, <1>4, Types DEF TypeOK
<1> HIDE DEF row
<1>10. row.status = status /\ row.head \in Heads /\ row.nonce = job.nonce /\ row.by = job.rec
  BY <1>1 DEF row
<1>11. ASSUME job.rec = 0
       PROVE  /\ rec' \in [Records -> Notifications'] /\ (\A i \in Records : rec'[i].prev = rec[i].prev)
                  /\ RecFits' /\ StartedByOne'
  <2>1. rec' = rec
    BY <1>11 DEF InsertRun, Binding
  <2>2. rec' \in [Records -> Notifications']
    BY <1>0, <1>5, <2>1 DEF TypeOK
  <2>3. RecFits'
    <3> SUFFICES ASSUME NEW i \in 1..count.rec
                 PROVE  /\ rec[i].push \in 1..count.push /\ push[rec[i].push].new # Zero
                        /\ rec[i].diag > rec[i].prev => run'[rec[i].diag].status = "over"
      BY <1>2, <1>3, <2>1 DEF RecFits
    <3>1. rec[i].diag > rec[i].prev => rec[i].diag \in Made
      BY <1>0, Types DEF Made
    <3> QED
      BY <1>9, <3>1 DEF IInv, RecFits
  <2>4. StartedByOne'
    BY <1>4, <1>9, <1>10, <1>11, <2>1 DEF IInv, StartedByOne
  <2> QED
    BY <2>1, <2>2, <2>3, <2>4
<1>12. ASSUME job.rec # 0
       PROVE  /\ rec' \in [Records -> Notifications'] /\ (\A i \in Records : rec'[i].prev = rec[i].prev)
                  /\ RecFits' /\ StartedByOne'
  <2> DEFINE x == [rec[job.rec] EXCEPT ![field] = new]
  <2>1. job.rec \in Records /\ job.rec \in 1..count.rec /\ rec[job.rec] \in Notifications
    BY <1>0, <1>6, <1>12, Types
  <2>2. x \in Notifications' /\ x.push = rec[job.rec].push /\ x.prev = rec[job.rec].prev
        /\ new \in {x.ran, x.diag} /\ (rec[job.rec].diag # 0 => x.diag = rec[job.rec].diag)
        /\ x.diag \in {rec[job.rec].diag, new} /\ (x.diag = new => status = "over")
    <3>1. new \in 0..count'.run /\ rec[job.rec].ran = 0 /\ (field = "diag" => rec[job.rec].diag = 0)
      BY <1>2, <1>12
    <3>2. rec[job.rec].diag # new
      BY <2>1, <1>2 DEF Notifications
    <3>3. CASE field = "ran"
      <4>1. x = [rec[job.rec] EXCEPT !.ran = new]
        BY <3>3
      <4> QED
        BY <4>1, <2>1, <1>5, <3>1, <3>2, <3>3 DEF Notifications
    <3>4. CASE field = "diag"
      <4>1. x = [rec[job.rec] EXCEPT !.diag = new]
        BY <3>4
      <4> QED
        BY <4>1, <2>1, <1>5, <3>1, <3>2, <3>4 DEF Notifications
    <3> QED
      BY <3>3, <3>4
  <2>3. rec' = [rec EXCEPT ![job.rec] = x]
    BY <1>12, <2>1, <1>0 DEF InsertRun, Binding, TypeOK
  <2> HIDE DEF x
  <2>4. rec' \in [Records -> Notifications'] /\ rec'[job.rec] = x /\ \A j \in Records : j # job.rec => rec'[j] = rec[j]
    BY <1>0, <1>5, <2>1, <2>2, <2>3 DEF TypeOK
  <2>5. \A i \in Records : rec'[i].prev = rec[i].prev
    BY <2>2, <2>4
  <2>6. RecFits'
    <3> SUFFICES ASSUME NEW i \in 1..count.rec
                 PROVE  /\ rec'[i].push \in 1..count.push /\ push[rec'[i].push].new # Zero
                        /\ rec'[i].diag > rec'[i].prev => run'[rec'[i].diag].status = "over"
      BY <1>2, <1>3 DEF RecFits
    <3>1. i \in Records
      BY <1>0, Types
    <3>2. /\ rec[i].push \in 1..count.push /\ push[rec[i].push].new # Zero
          /\ rec[i].diag > rec[i].prev => rec[i].diag \in Made /\ run[rec[i].diag].status = "over"
      BY <1>0, Types DEF Made, IInv, RecFits
    <3>3. CASE i # job.rec
      BY <3>1, <3>2, <3>3, <2>4, <1>9
    <3>4. CASE i = job.rec
      BY <3>1, <3>2, <3>4, <2>2, <2>4, <1>9, <1>10
    <3> QED
      BY <3>3, <3>4
  <2>7. StartedByOne'
    <3> SUFFICES ASSUME NEW r \in Made', run'[r].by # 0
                 PROVE  r \in {rec'[run'[r].by].ran, rec'[run'[r].by].diag}
      BY DEF StartedByOne
    <3>1. CASE r = new
      BY <3>1, <1>9, <1>10, <2>2, <2>4
    <3>2. CASE r # new
      <4>1. r \in Made /\ run'[r] = run[r] /\ run[r].by \in Records /\ r # 0
        BY <3>2, <1>0, <1>4, <1>9, Types DEF Made
      <4>2. r \in {rec[run[r].by].ran, rec[run[r].by].diag}
        BY <4>1 DEF IInv, StartedByOne
      <4>3. CASE run[r].by = job.rec
        BY <4>1, <4>2, <4>3, <1>12, <2>2, <2>4
      <4>4. CASE run[r].by # job.rec
        BY <4>1, <4>2, <4>4, <2>4
      <4> QED
        BY <4>3, <4>4
    <3> QED
      BY <3>1, <3>2
  <2> QED
    BY <2>4, <2>5, <2>6, <2>7
<1>13. HeadFits'
  BY <1>4, <1>9, <1>10 DEF IInv, HeadFits
<1>14. NonceHasOneRun'
  <2> SUFFICES ASSUME NEW r \in Made', NEW o \in Made', run'[r].nonce # None, run'[r].nonce = run'[o].nonce
               PROVE  r = o
    BY DEF NonceHasOneRun
  <2>1. \A q \in Made : job.nonce # None => run[q].nonce # job.nonce
    BY <1>1 DEF WithNonce
  <2>2. CASE r \in Made /\ o \in Made
    BY <2>2, <1>9 DEF IInv, NonceHasOneRun
  <2>3. CASE r = new \/ o = new
    BY <2>1, <2>3, <1>4, <1>9, <1>10
  <2> QED
    BY <2>2, <2>3, <1>4
<1>15. push' \in [Pushes -> Updates]
  BY <1>0, <1>3 DEF TypeOK
<1> QED
  BY <1>2, <1>3, <1>4, <1>5, <1>8, <1>9, <1>10, <1>11, <1>12, <1>13, <1>14, <1>15

LEMMA InsertStep == ASSUME IInv, Insert PROVE IInv'
<1> USE PushAssumption
<1>1. job.at = "fresh" /\ up /\ InsertRun("pending", "ran")
  BY DEF Insert, At
<1>2. job.rec # 0 => rec[job.rec].ran = 0 /\ \A r \in Active : r <= rec[job.rec].prev
  BY <1>1 DEF IInv, ValidFits
<1>3. /\ count' \in Counts /\ count'.run = count.run + 1 /\ count'.rec = count.rec
      /\ UNCHANGED <<tip, push, asked, up, bad>>
      /\ Made' = Made \cup {count.run + 1} /\ Launch \subseteq Launch'
      /\ rec' \in [Records -> Notifications'] /\ run' \in [Runs -> Rows'] /\ push' \in [Pushes -> Updates]
      /\ run'[count.run + 1].status = "pending"
      /\ \A i \in Records : rec'[i].prev = rec[i].prev
      /\ RecFits' /\ HeadFits' /\ StartedByOne' /\ NonceHasOneRun'
  BY <1>1, <1>2, Inserted
<1>4. job' = [job EXCEPT !.at = "made", !.run = count.run + 1, !.preds = Active]
  BY DEF Insert
<1>5. Active \in SUBSET Made' /\ count.run + 1 \in 0..count'.run
  BY <1>3, Types DEF Active, IInv
<1>6. job \in Launch'
  BY <1>3 DEF IInv, TypeOK
<1>7. /\ job' \in Launch' /\ job'.at = "made" /\ job'.run = count.run + 1 /\ job'.preds = Active
      /\ job'.rec = job.rec
  BY <1>4, <1>5, <1>6 DEF Launch
<1>8. JobFits'
  BY <1>1, <1>3, <1>7 DEF JobFits, Launching
<1>9. ValidFits'
  <2>1. job.rec # 0 => job.rec \in Records
    BY Types DEF IInv
  <2> QED
    BY <1>2, <1>3, <1>7, <2>1 DEF ValidFits
<1> QED
  BY <1>3, <1>7, <1>8, <1>9 DEF IInv, TypeOK

LEMMA DiagnoseStep == ASSUME IInv, Diagnose PROVE IInv'
<1>1. job.at = "fresh" /\ InsertRun("over", "diag") /\ (job.rec # 0 => rec[job.rec].diag = 0) /\ Unlock
  BY DEF Diagnose, At
<1>2. job.rec # 0 => rec[job.rec].ran = 0
  BY <1>1 DEF IInv, ValidFits
<1>3. /\ count' \in Counts /\ UNCHANGED <<tip, push, asked, up, bad>>
      /\ rec' \in [Records -> Notifications'] /\ run' \in [Runs -> Rows'] /\ push' \in [Pushes -> Updates]
      /\ RecFits' /\ HeadFits' /\ StartedByOne' /\ NonceHasOneRun'
  BY <1>1, <1>2, Inserted
<1>4. job' \in Launch' /\ JobFits' /\ ValidFits'
  BY <1>1, <1>3, Unlocked DEF IInv
<1> QED
  BY <1>3, <1>4 DEF IInv, TypeOK

\* One row changes its status, which was not "over".
LEMMA Settled ==
    ASSUME IInv, NEW r \in Made, NEW s \in Statuses, run[r].status # "over" \/ s = "over",
           run' = [run EXCEPT ![r].status = s]
    PROVE  RowsMove /\ run'[r].status = s /\ \A o \in Runs : o # r => run'[o] = run[o]
<1>1. r \in Runs
  BY Types DEF IInv
<1>2. run' \in [Runs -> Rows]
  BY <1>1 DEF IInv, TypeOK, Rows
<1> QED
  BY <1>1, <1>2, Types DEF IInv, TypeOK, RowsMove, HeadFits, Rows

LEMMA SupersedeStep == ASSUME IInv, NEW r \in Runs, Supersede(r) PROVE IInv'
<1>1. /\ job.at = "made" /\ up /\ r \in job.preds /\ r \in Made /\ job' = [job EXCEPT !.preds = @ \ {r}]
      /\ UNCHANGED <<tip, push, asked, rec, up, bad, count>>
      /\ run' = IF run[r].status = "active" THEN [run EXCEPT ![r].status = "superseded"] ELSE run
  BY Types DEF Supersede, At, gate, host, IInv
<1>2. RowsMove /\ \A o \in Runs : run[o].status # "active" => run'[o] = run[o]
  <2>1. CASE run[r].status = "active"
    BY <1>1, <2>1, Settled DEF Statuses
  <2>2. CASE run[r].status # "active"
    BY <1>1, <2>2, RowsStay
  <2> QED
    BY <2>1, <2>2
<1>3. SameCounts
  BY <1>1, CountsStay DEF IInv
<1>4. /\ job' \in Launch /\ job'.at = "made" /\ job'.rec = job.rec /\ job'.run = job.run
      /\ job'.preds \subseteq job.preds
  BY <1>1 DEF IInv, TypeOK, Launch
<1>5. JobFits'
  <2>1. job.run \in Made /\ run[job.run].status = "pending" /\ job.run \in Runs
    BY <1>1, Types DEF IInv, JobFits
  <2>2. Made' = Made
    BY <1>1 DEF Made
  <2> QED
    BY <1>1, <1>2, <1>4, <2>1, <2>2 DEF JobFits, Launching
<1>6. ValidFits'
  BY <1>1, <1>4 DEF IInv, ValidFits
<1>7. /\ RecFits' /\ HeadFits' /\ StartedByOne' /\ NonceHasOneRun' /\ Launch' = Launch
      /\ rec' \in [Records -> Notifications'] /\ run' \in [Runs -> Rows'] /\ push' \in [Pushes -> Updates]
  BY <1>1, <1>2, <1>3, Moved
<1> QED
  BY <1>1, <1>4, <1>5, <1>6, <1>7 DEF IInv, TypeOK

LEMMA AdmissionStep == ASSUME IInv, Admit \/ AdmissionFails PROVE IInv'
<1>1. /\ job.at = "made" /\ Unlock /\ UNCHANGED <<tip, push, asked, rec, up, bad>>
      /\ (UNCHANGED count \/ Trouble)
  BY DEF Admit, AdmissionFails, At, gate, host
<1>2. job.run \in Made /\ run[job.run].status = "pending"
  BY <1>1 DEF IInv, JobFits
<1>3. PICK s \in {"active", "over"} : run' = [run EXCEPT ![job.run].status = s]
  BY DEF Admit, AdmissionFails, Ended
<1>4. RowsMove
  BY <1>2, <1>3, Settled DEF Statuses
<1> QED
  BY <1>1, <1>4, CountsStay, MovedIdle DEF IInv, TypeOK

-----------------------------------------------------------------------------
(* Git and the hook.                                                          *)

LEMMA PushStep ==
    ASSUME IInv, NEW h \in Heads \cup {Zero}, NEW n \in Nonces \cup {None}, Push(h, n)
    PROVE  IInv'
<1> USE PushAssumption
<1> DEFINE new == count.push + 1
           update == [old |-> tip, new |-> h, nonce |-> n]
<1>0. TypeOK
  BY DEF IInv
<1>1. /\ count.push < MaxPushes /\ push' = [push EXCEPT ![new] = update] /\ tip' = h /\ Counted("push")
      /\ UNCHANGED <<asked, rec, run, job, up, bad>>
  BY DEF Push, host
<1>2. /\ count' \in Counts /\ count'.push = new /\ count'.rec = count.rec /\ count'.run = count.run
      /\ count.push \in Nat
  BY <1>0, <1>1, CountsUp
<1>3. /\ rec' \in [Records -> Notifications'] /\ run' \in [Runs -> Rows'] /\ job' \in Launch'
      /\ Made' = Made
  BY <1>0, <1>1, <1>2, Grows, Types DEF Made
<1>4. /\ push' \in [Pushes -> Updates] /\ \A p \in 1..count.push : push'[p] = push[p]
  <2>1. update \in Updates
    BY <1>0 DEF TypeOK, Updates, NoNonce
  <2>2. push \in [Pushes -> Updates] /\ 1..count.push \subseteq Pushes /\ new \notin 1..count.push
    BY <1>0, <1>2, Types DEF TypeOK
  <2> HIDE DEF update
  <2> QED
    BY <1>1, <2>1, <2>2
<1>5. TypeOK'
  BY <1>0, <1>1, <1>2, <1>3, <1>4 DEF TypeOK
<1>6. RecFits'
  BY <1>1, <1>2, <1>4 DEF IInv, RecFits
<1>7. HeadFits' /\ StartedByOne' /\ NonceHasOneRun'
  BY <1>1, <1>3 DEF IInv, HeadFits, StartedByOne, NonceHasOneRun
<1>8. JobFits'
  BY <1>1, <1>2, <1>3 DEF IInv, JobFits, Launching, WithNonce
<1>9. ValidFits'
  BY <1>1, <1>3 DEF IInv, ValidFits, Active
<1> QED
  BY <1>5, <1>6, <1>7, <1>8, <1>9 DEF IInv

LEMMA ReceiveStep == ASSUME IInv, NEW p \in Pushes, Receive(p) PROVE IInv'
<1> USE PushAssumption
<1> DEFINE new == count.rec + 1
           x == [push |-> p, prev |-> count.run, validated |-> FALSE, ran |-> 0, diag |-> 0]
<1>0. TypeOK
  BY DEF IInv
<1>1. /\ up /\ p <= count.push /\ push[p].new # Zero /\ count.rec < MaxRecords /\ count.run < MaxRuns
      /\ rec' = [rec EXCEPT ![new] = x] /\ Counted("rec")
      /\ UNCHANGED <<asked, tip, push, run, up, bad>>
  BY DEF Receive, Retain, Deletion, At, gate, host
<1>2. /\ count' \in Counts /\ count'.rec = new /\ count'.push = count.push /\ count'.run = count.run
      /\ count.rec \in Nat /\ count.run \in Nat
  BY <1>0, <1>1, CountsUp, Types
<1>3. /\ Notifications' = Notifications /\ run' \in [Runs -> Rows'] /\ Launch \subseteq Launch'
      /\ Made' = Made
  BY <1>0, <1>1, <1>2, Grows, Types DEF Made, Notifications
<1>4. p \in 1..count.push /\ x \in Notifications /\ new \in Records
  BY <1>0, <1>1, <1>2, Types DEF Notifications, Pushes, Records
<1>5. /\ rec' \in [Records -> Notifications'] /\ rec'[new] = x
      /\ \A i \in 1..count.rec : rec'[i] = rec[i]
  BY <1>0, <1>1, <1>2, <1>3, <1>4, Types DEF TypeOK
<1>6. /\ job' \in Launch' /\ job'.at = "retained" /\ job'.rec = new /\ job'.new \in Heads /\ job'.preds = {}
  <2>1. push[p] \in Updates /\ push[p].new \in Heads /\ push[p].nonce \in NoNonce
    BY <1>0, <1>1, Types DEF Updates
  <2>2. job' = Begin("retained", new, push[p].new, push[p].nonce)
    BY DEF Receive
  <2>3. new \in 0..count'.rec /\ 0 \in 0..count'.run /\ {} \in SUBSET Made'
    BY <1>2
  <2> QED
    BY <2>1, <2>2, <2>3 DEF Launch, Begin, Commits
<1>7. TypeOK'
  BY <1>0, <1>1, <1>2, <1>3, <1>5, <1>6 DEF TypeOK
<1>8. RecFits'
  <2> SUFFICES ASSUME NEW i \in 1..new
               PROVE  /\ rec'[i].push \in 1..count.push /\ push[rec'[i].push].new # Zero
                      /\ rec'[i].diag > rec'[i].prev => run[rec'[i].diag].status = "over"
    BY <1>1, <1>2 DEF RecFits
  <2>1. CASE i = new
    BY <1>1, <1>2, <1>4, <1>5, <2>1
  <2>2. CASE i # new
    <3>1. i \in 1..count.rec
      BY <1>2, <2>2
    <3> QED
      BY <1>5, <3>1 DEF IInv, RecFits
  <2> QED
    BY <2>1, <2>2
<1>9. HeadFits' /\ NonceHasOneRun'
  BY <1>1, <1>3 DEF IInv, HeadFits, NonceHasOneRun
<1>10. StartedByOne'
  <2>1. \A r \in Made : run[r].by # 0 => run[r].by \in 1..count.rec
    BY <1>0, Types
  <2> QED
    BY <1>1, <1>3, <1>5, <2>1 DEF IInv, StartedByOne
<1>11. JobFits' /\ ValidFits'
  BY <1>1, <1>2, <1>6 DEF JobFits, ValidFits, Launching
<1> QED
  BY <1>7, <1>8, <1>9, <1>10, <1>11 DEF IInv

-----------------------------------------------------------------------------
(* The theorems.                                                              *)

LEMMA LaunchesStep == ASSUME IInv, Launches PROVE IInv'
BY GivenUpStep, BindNonceStep, ValidateStep, AttachStep, ShareDiagnosticStep, ProceedStep, DiagnoseStep, InsertStep,
   SupersedeStep, AdmissionStep DEF Launches

LEMMA NextStep == ASSUME IInv, [Next]_vars PROVE IInv'
<1>1. CASE \E h \in Heads \cup {Zero}, n \in Nonces \cup {None} : Push(h, n)
  BY <1>1, PushStep
<1>2. CASE (\E p \in Pushes : Receive(p)) \/ (\E i \in Records : Replay(i))
  BY <1>2, ReceiveStep, ReplayStep
<1>3. CASE AskRerun \/ Rerun \/ \E n \in Nonces : StartFresh(n)
  BY <1>3, AskRerunStep, RerunStep, StartFreshStep
<1>4. CASE Launches \/ InsertFails \/ AdmissionFails
  BY <1>4, LaunchesStep, GivenUpStep, AdmissionStep
<1>5. CASE \E r \in Runs : Publish(r) \/ Finish(r) \/ \E h \in Heads : Commit(r, h)
  BY <1>5, PublishStep, FinishStep, CommitStep
<1>6. CASE Crash \/ Start \/ Break \/ Repair
  BY <1>6, CrashStep, StartStep, ConfigStep
<1>7. CASE UNCHANGED vars
  <2>1. UNCHANGED <<tip, push, rec, run, job, asked, up, bad, count>>
    BY <1>7 DEF vars, gate, host
  <2>2. Active' = Active
    BY <2>1 DEF Active, Made
  <2> QED
    BY <2>1, <2>2, CountsStay, RowsStay, MovedOnly DEF IInv, TypeOK
<1> QED
  BY <1>1, <1>2, <1>3, <1>4, <1>5, <1>6, <1>7 DEF Next

\* Every state of the pushes of a branch satisfies the inductive invariant.
LEMMA Invariant == Spec => []IInv
BY InitStep, NextStep, PTL DEF Spec

\* The state of the pushes, the notifications, the runs and the launch has its type, and
\* the counts name what is in use.
THEOREM TypeCorrect == Spec => []TypeOK
<1>1. IInv => TypeOK
  BY DEF IInv
<1> QED
  BY Invariant, <1>1, PTL

\* A notification starts one run: the one that it names, as admitted or as its diagnostic
\* (InsertRunWithAllOptions binds the file in the transaction that inserts the row).
THEOREM OneRunPerNotification == Spec => []StartedByOne
<1>1. IInv => StartedByOne
  BY DEF IInv
<1> QED
  BY Invariant, <1>1, PTL

\* The runs that a notification's run supersedes were there when it was retained: its
\* validation saw no newer one, and the branch lock keeps it so until the row is inserted.
THEOREM NewerKept == Spec => NewerWorkKept
<1> DEFINE Kept == \A r \in Made : run[r].status = "active" /\ run'[r].status = "superseded" /\ job.rec # 0
                                  => r <= rec[job.rec].prev
<1>1. ASSUME IInv, [Next]_vars PROVE Kept
  <2> SUFFICES ASSUME NEW r \in Made, run[r].status = "active", run'[r].status = "superseded", job.rec # 0
               PROVE  r <= rec[job.rec].prev
    OBVIOUS
  <2>1. r \in Runs /\ run[r] \in Rows
    BY <1>1, Types DEF IInv
  <2>2. run'[r] # run[r]
    OBVIOUS
  <2>3. CASE \E o \in Runs : Supersede(o)
    <3>1. PICK o \in Runs : Supersede(o)
      BY <2>3
    <3>2. o = r
      <4>1. o # r => run'[r] = run[r]
        BY <1>1, <3>1, <2>1 DEF Supersede, IInv, TypeOK
      <4> QED
        BY <2>2, <4>1
    <3> QED
      BY <1>1, <3>1, <3>2 DEF Supersede, IInv, ValidFits
  <2>4. CASE Insert \/ Diagnose
    <3>1. PICK row : run' = [run EXCEPT ![count.run + 1] = row]
      BY <2>4 DEF Insert, Diagnose, InsertRun
    <3>2. r # count.run + 1
      BY <1>1, Types, PushAssumption DEF Made, IInv
    <3> QED
      BY <1>1, <2>1, <2>2, <3>1, <3>2 DEF IInv, TypeOK
  <2>5. CASE Admit \/ AdmissionFails
    BY <1>1, <2>1, <2>5 DEF Admit, AdmissionFails, Ended, IInv, TypeOK, Rows
  <2>6. CASE \E o \in Runs : Publish(o) \/ Finish(o) \/ \E h \in Heads : Commit(o, h)
    <3>1. PICK o \in Runs : Publish(o) \/ Finish(o) \/ \E h \in Heads : Commit(o, h)
      BY <2>6
    <3> QED
      BY <1>1, <2>1, <3>1 DEF Publish, Finish, Commit, Ended, IInv, TypeOK, Rows
  <2>7. CASE Start
    BY <2>1, <2>7 DEF Start, Rows
  <2>8. CASE UNCHANGED run
    BY <2>2, <2>8
  <2> QED
    BY <1>1, <2>3, <2>4, <2>5, <2>6, <2>7, <2>8
    DEF Next, Launches, Push, Receive, Replay, AskRerun, Rerun, StartFresh, Answer, BindNonce, Validate, Refuse,
        Attach, ShareDiagnostic, Superfluous, Proceed, NoConfig, InsertFails, Crash, Break, Repair, vars
<1>2. ASSUME IInv, [Next]_vars PROVE [Kept]_vars
  BY <1>1, <1>2
<1> QED
  BY Invariant, <1>2, PTL DEF Spec, NewerWorkKept

-----------------------------------------------------------------------------
(* No push is validated again.                                                *)

\* A push moves the branch.  A run has the commit and the nonce of the notification that
\* started it, which was retained before.  A diagnostic that notifications share belongs to
\* their update, has no nonce and was not admitted.
MovesFit == \A p \in 1..count.push : push[p].old # push[p].new
OriginsFit ==
    \A r \in Made : run[r].by # 0 =>
        /\ rec[run[r].by].prev < r
        /\ run[r].submitted = NewOf(run[r].by) /\ run[r].nonce = NonceOf(run[r].by)
DiagnosticsFit ==
    \A i \in 1..count.rec : rec[i].diag # 0 =>
        /\ run[rec[i].diag].by # 0 /\ ~Started(rec[i].diag) /\ run[rec[i].diag].nonce = None
        /\ UpdateOf(rec[i].diag) = push[rec[i].push]

\* A pipeline's commits are new: none is the commit that an earlier run's push came from.
CommitsFit ==
    \A r, q \in Made : r <= q /\ run[r].by # 0 =>
        /\ UpdateOf(r).old = run[q].head => run[q].head = run[q].submitted
        /\ UpdateOf(r).old = run[q].pushed => run[q].pushed = run[q].submitted

\* A launch knows its notification; validated, nothing came after it; and not reattached, it
\* does not repeat a run.
LaunchFits ==
    job.rec # 0 /\ job.at \in Launching =>
        /\ job.new = NewOf(job.rec) /\ job.nonce = NonceOf(job.rec)
        /\ job.at = "checked" => \A r \in Made : r <= rec[job.rec].prev \/ r = rec[job.rec].diag
        /\ job.at = "fresh" =>
              \A r \in Made : Repeats(r, push[rec[job.rec].push]) => Away(r, count.run, job.new)

Standing == MovesFit /\ OriginsFit /\ DiagnosticsFit /\ CommitsFit /\ NoneRepeated
Once == Standing /\ LaunchFits

LEMMA OnceInit == Init => Once
<1> SUFFICES ASSUME Init PROVE Once
  OBVIOUS
<1>1. count.push = 0 /\ count.rec = 0 /\ count.run = 0 /\ Made = {} /\ job.rec = 0
  BY DEF Init, Made, Idle, Begin
<1> QED
  BY <1>1 DEF Once, Standing, MovesFit, OriginsFit, DiagnosticsFit, CommitsFit, LaunchFits, NoneRepeated

\* What no step changes: the pushes that were accepted, what a notification is about and that
\* it was validated, and where a run comes from.
Remains ==
    /\ 1..count.push \subseteq 1..count'.push /\ 1..count.rec \subseteq 1..count'.rec /\ Made \subseteq Made'
    /\ \A p \in 1..count.push : push'[p] = push[p]
    /\ \A i \in 1..count.rec : /\ rec'[i].push = rec[i].push /\ rec'[i].prev = rec[i].prev
                               /\ rec[i].validated => rec'[i].validated
    /\ \A r \in Made : /\ run'[r].by = run[r].by /\ run'[r].submitted = run[r].submitted
                       /\ run'[r].nonce = run[r].nonce

\* Neither what it means for a notification or a run to be about a push, nor that the branch
\* was elsewhere.
LEMMA StillAbout ==
    ASSUME IInv, Remains
    PROVE  /\ \A i \in 1..count.rec : /\ NewOf(i)' = NewOf(i) /\ OldOf(i)' = OldOf(i) /\ NonceOf(i)' = NonceOf(i)
                                      /\ push'[rec'[i].push] = push[rec[i].push]
           /\ \A r \in Made : run[r].by # 0 => run[r].by \in 1..count.rec /\ UpdateOf(r)' = UpdateOf(r)
<1>1. \A i \in 1..count.rec : rec[i].push \in 1..count.push /\ push'[rec'[i].push] = push[rec[i].push]
  BY DEF IInv, RecFits, Remains
<1>2. \A r \in Made : run[r].by # 0 => run[r].by \in 1..count.rec
  BY Types, PushAssumption DEF IInv
<1>3. \A i \in 1..count.rec : /\ NewOf(i)' = NewOf(i) /\ OldOf(i)' = OldOf(i) /\ NonceOf(i)' = NonceOf(i)
  BY <1>1 DEF NewOf, OldOf, NonceOf
<1>4. \A r \in Made : run[r].by # 0 => UpdateOf(r)' = UpdateOf(r)
  BY <1>1, <1>2 DEF UpdateOf, Remains
<1> QED
  BY <1>1, <1>2, <1>3, <1>4

LEMMA StillAway ==
    ASSUME IInv, Remains, NEW r \in Made, NEW last \in Made \cup {0}, NEW h, Away(r, last, h)
    PROVE  Away(r, last, h)'
<1>1. PICK q \in r..last : \/ run[q].by = 0 \/ run[q].submitted # h
                           \/ \E j \in 1..count.rec : rec[j].validated /\ rec[j].prev = q /\ OldOf(j) = h
  BY DEF Away
<1>2. q \in Made
  BY Types, PushAssumption DEF Made, IInv
<1>3. CASE run[q].by = 0 \/ run[q].submitted # h
  BY <1>2, <1>3 DEF Remains, Away
<1>4. ASSUME NEW j \in 1..count.rec, rec[j].validated, rec[j].prev = q, OldOf(j) = h
      PROVE  Away(r, last, h)'
  <2>1. j \in 1..count'.rec /\ rec'[j].validated /\ rec'[j].prev = q /\ OldOf(j)' = h
    BY <1>4, StillAbout DEF Remains
  <2> QED
    BY <2>1 DEF Away
<1> QED
  BY <1>1, <1>3, <1>4

\* No run is started by its notification, nor shared as a diagnostic, that was not before.
SameStarts ==
    /\ \A r \in Made : Started(r)' => Started(r)
    /\ \A i \in 1..count.rec : rec'[i].diag = rec[i].diag
    /\ \A i \in 1..count'.rec : i \notin 1..count.rec => rec'[i].diag = 0

\* A commit that no push came from, or the one that the run had.
NewCommits ==
    \A q \in Made : /\ run'[q].head = run[q].head \/ \A p \in 1..count.push : push[p].old # run'[q].head
                    /\ run'[q].pushed \in {run[q].pushed, run[q].head}

LEMMA CommitsStay == ASSUME IInv, CommitsFit, Remains, NewCommits, Made' = Made PROVE CommitsFit'
<1> SUFFICES ASSUME NEW r \in Made, NEW q \in Made, r <= q, run'[r].by # 0
             PROVE  /\ UpdateOf(r)' .old = run'[q].head => run'[q].head = run'[q].submitted
                    /\ UpdateOf(r)' .old = run'[q].pushed => run'[q].pushed = run'[q].submitted
  BY DEF CommitsFit
<1>1. run[r].by \in 1..count.rec /\ UpdateOf(r)' = UpdateOf(r) /\ run[r].by # 0
  BY StillAbout DEF Remains
<1>2. rec[run[r].by].push \in 1..count.push
  BY <1>1 DEF IInv, RecFits
<1>3. /\ UpdateOf(r).old = run[q].head => run[q].head = run[q].submitted
      /\ UpdateOf(r).old = run[q].pushed => run[q].pushed = run[q].submitted
  BY <1>1 DEF CommitsFit
<1>4. run'[q].submitted = run[q].submitted
  BY DEF Remains
<1>5. run'[q].head # run[q].head => UpdateOf(r).old # run'[q].head
  BY <1>2 DEF NewCommits, UpdateOf
<1>6. run'[q].pushed \in {run[q].pushed, run[q].head}
  BY DEF NewCommits
<1> QED
  BY <1>1, <1>3, <1>4, <1>5, <1>6

LEMMA OriginsStay == ASSUME IInv, OriginsFit, Remains, Made' = Made PROVE OriginsFit'
<1> SUFFICES ASSUME NEW r \in Made, run'[r].by # 0
             PROVE  /\ rec'[run'[r].by].prev < r
                    /\ run'[r].submitted = push'[rec'[run'[r].by].push].new
                    /\ run'[r].nonce = push'[rec'[run'[r].by].push].nonce
  BY DEF OriginsFit, NewOf, NonceOf
<1>1. run'[r].by = run[r].by /\ run[r].by \in 1..count.rec
  BY StillAbout DEF Remains
<1>2. push'[rec'[run'[r].by].push] = push[rec[run[r].by].push]
  BY <1>1, StillAbout
<1>3. /\ rec[run[r].by].prev < r /\ run[r].submitted = push[rec[run[r].by].push].new
      /\ run[r].nonce = push[rec[run[r].by].push].nonce
  BY <1>1 DEF OriginsFit, NewOf, NonceOf
<1>4. /\ rec'[run'[r].by].prev = rec[run[r].by].prev
      /\ run'[r].submitted = run[r].submitted /\ run'[r].nonce = run[r].nonce
  BY <1>1 DEF Remains
<1> QED
  BY <1>2, <1>3, <1>4

LEMMA DiagnosticsStay ==
    ASSUME IInv, DiagnosticsFit, Remains, SameStarts
    PROVE  DiagnosticsFit'
<1> SUFFICES ASSUME NEW i \in 1..count'.rec, rec'[i].diag # 0
             PROVE  (/\ run[rec[i].diag].by # 0 /\ ~Started(rec[i].diag) /\ run[rec[i].diag].nonce = None
                     /\ UpdateOf(rec[i].diag) = push[rec[i].push])'
  BY DEF DiagnosticsFit
<1>0. PICK d \in Nat : d = rec'[i].diag
  BY Types, PushAssumption DEF SameStarts, IInv
<1>1. i \in 1..count.rec /\ rec[i].diag = d /\ d # 0
  BY <1>0 DEF SameStarts
<1>2. d \in Made
  BY <1>1, Types, PushAssumption DEF IInv, Made
<1>3. run[d].by # 0 /\ ~Started(d) /\ run[d].nonce = None /\ UpdateOf(d) = push[rec[i].push]
  BY <1>1 DEF DiagnosticsFit
<1>4. UpdateOf(d)' = UpdateOf(d) /\ push'[rec'[i].push] = push[rec[i].push]
  BY <1>1, <1>2, <1>3, StillAbout
<1>5. ~Started(d)' /\ run'[d].by # 0 /\ run'[d].nonce = None
  BY <1>2, <1>3 DEF SameStarts, Remains
<1> QED
  BY <1>0, <1>3, <1>4, <1>5 DEF Started, UpdateOf

LEMMA RepeatStays ==
    ASSUME IInv, NoneRepeated, Remains, \A r \in Made : Started(r)' => Started(r),
           NEW r \in Made, NEW o \in Made, r < o, run'[o].by # 0, Repeats(r, UpdateOf(o))'
    PROVE  Away(r, o - 1, run[o].submitted)'
<1>1. run[o].by # 0 /\ UpdateOf(o)' = UpdateOf(o) /\ run'[o].submitted = run[o].submitted
  BY StillAbout DEF Remains
<1>2. Started(r) /\ run[r].by # 0 /\ UpdateOf(r)' = UpdateOf(r)
  BY StillAbout DEF Repeats, Started
<1>3. Repeats(r, UpdateOf(o))
  BY <1>1, <1>2 DEF Repeats
<1>4. Away(r, o - 1, run[o].submitted)
  BY <1>1, <1>3 DEF NoneRepeated
<1>5. o - 1 \in Made \cup {0}
  BY Types, PushAssumption DEF Made, IInv
<1>6. PICK h : h = run[o].submitted
  OBVIOUS
<1>7. Away(r, o - 1, h)
  BY <1>4, <1>6
<1>8. Away(r, o - 1, h)'
  BY <1>5, <1>7, StillAway
<1> QED
  BY <1>1, <1>6, <1>8 DEF Away

LEMMA NoneRepeatedStays ==
    ASSUME IInv, NoneRepeated, Remains, \A r \in Made : Started(r)' => Started(r), Made' = Made
    PROVE  NoneRepeated'
BY RepeatStays DEF NoneRepeated

LEMMA StandingStays ==
    ASSUME IInv, Standing, Remains, SameStarts, NewCommits, Made' = Made, MovesFit'
    PROVE  Standing'
BY OriginsStay, DiagnosticsStay, CommitsStay, NoneRepeatedStays DEF Standing, SameStarts

\* A step that starts no run, and leaves the launch or ends it.
LEMMA OnceStays ==
    ASSUME IInv, Once, Remains, SameStarts, NewCommits, Made' = Made, count'.run = count.run, MovesFit',
           UNCHANGED job \/ job'.at \notin Launching
    PROVE  Once'
<1>1. Standing'
  BY StandingStays DEF Once
<1>2. CASE UNCHANGED job
  <2> SUFFICES ASSUME job.rec # 0, job.at \in Launching PROVE LaunchFits'
    BY <1>1, <1>2 DEF Once, LaunchFits
  <2>1. job.rec \in 1..count.rec /\ job.rec \in Records
    BY Types, PushAssumption DEF IInv
  <2>2. /\ NewOf(job.rec)' = NewOf(job.rec) /\ NonceOf(job.rec)' = NonceOf(job.rec)
        /\ push'[rec'[job.rec].push] = push[rec[job.rec].push]
    BY <1>2, <2>1, StillAbout DEF NewOf, NonceOf
  <2>3. ASSUME job.at = "checked", NEW r \in Made
        PROVE  r <= rec'[job.rec].prev \/ r = rec'[job.rec].diag
    BY <1>2, <2>1, <2>3 DEF Once, LaunchFits, Remains, SameStarts, Launching
  <2>4. ASSUME job.at = "fresh", NEW r \in Made, Repeats(r, push[rec[job.rec].push])'
        PROVE  Away(r, count.run, job.new)'
    <3>1. Started(r) /\ run[r].by # 0 /\ UpdateOf(r)' = UpdateOf(r)
      BY <2>4, StillAbout DEF SameStarts, Repeats, Started
    <3>2. Repeats(r, push[rec[job.rec].push])
      BY <1>2, <2>2, <2>4, <3>1 DEF Repeats
    <3>3. Away(r, count.run, job.new)
      BY <2>4, <3>2 DEF Once, LaunchFits, Launching
    <3>4. count.run \in Made \cup {0}
      BY Types, PushAssumption DEF Made, IInv
    <3>5. PICK last, h : last = count.run /\ h = job.new
      OBVIOUS
    <3>6. last \in Made \cup {0} /\ Away(r, last, h)
      BY <3>3, <3>4, <3>5
    <3>7. Away(r, last, h)'
      BY <3>6, StillAway
    <3> QED
      BY <1>2, <3>5, <3>7 DEF Away
  <2> QED
    BY <1>2, <2>1, <2>2, <2>3, <2>4 DEF Once, LaunchFits
<1>3. CASE job'.at \notin Launching
  BY <1>1, <1>3 DEF Once, LaunchFits, Launching
<1> QED
  BY <1>2, <1>3

-----------------------------------------------------------------------------
(* The steps that write no notification.                                      *)

\* The rows move on in their status only.
SameRows ==
    \A r \in Made : /\ run'[r].by = run[r].by /\ run'[r].submitted = run[r].submitted
                    /\ run'[r].nonce = run[r].nonce /\ run'[r].head = run[r].head /\ run'[r].pushed = run[r].pushed

LEMMA RowsOnly ==
    ASSUME IInv, Once, SameCounts, UNCHANGED <<rec, push>>, SameRows, UNCHANGED job \/ job'.at \notin Launching
    PROVE  Once'
<1>1. Made' = Made /\ count'.run = count.run
  BY DEF Made, SameCounts
<1>2. Remains
  BY <1>1 DEF Remains, SameCounts, SameRows
<1>3. SameStarts
  BY <1>1 DEF SameStarts, SameCounts, SameRows, Started
<1>4. NewCommits /\ MovesFit'
  BY <1>1 DEF NewCommits, SameRows, Once, Standing, MovesFit, SameCounts
<1> QED
  BY <1>1, <1>2, <1>3, <1>4, OnceStays

LEMMA StatusOnly ==
    ASSUME IInv, Once, SameCounts, UNCHANGED <<rec, push>>, UNCHANGED job \/ job'.at \notin Launching,
           NEW r \in Made, NEW s \in Statuses, run' = [run EXCEPT ![r].status = s]
    PROVE  Once'
<1>1. \A o \in Made : run[o] \in Rows
  BY Types DEF IInv
<1>2. SameRows
  <2> SUFFICES ASSUME NEW o \in Made
               PROVE  /\ run'[o].by = run[o].by /\ run'[o].submitted = run[o].submitted
                      /\ run'[o].nonce = run[o].nonce /\ run'[o].head = run[o].head
                      /\ run'[o].pushed = run[o].pushed
    BY DEF SameRows
  <2>1. run'[o] = IF o = r THEN [run[o] EXCEPT !.status = s] ELSE run[o]
    BY Types DEF IInv, TypeOK
  <2> QED
    BY <1>1, <2>1 DEF Rows
<1> QED
  BY <1>2, RowsOnly

LEMMA OnceDaemon == ASSUME IInv, Once, Crash \/ AskRerun \/ Break \/ Repair \/ UNCHANGED vars PROVE Once'
<1>1. UNCHANGED <<rec, push, run>> /\ (UNCHANGED count \/ Trouble)
  BY DEF Crash, AskRerun, Break, Repair, vars, gate
<1>2. UNCHANGED job \/ job'.at = "idle"
  BY DEF Crash, AskRerun, Break, Repair, vars, Unlock, Idle, Begin
<1> QED
  BY <1>1, <1>2, CountsStay, RowsOnly DEF IInv, SameRows, Launching

LEMMA OnceStart == ASSUME IInv, Once, Start PROVE Once'
<1>1. \A r \in Made : /\ run[r] \in Rows /\ r \in Runs
                     /\ (run'[r] = run[r] \/ run'[r] = [run[r] EXCEPT !.status = "over"])
  BY Types DEF IInv, Start
<1>2. SameRows
  <2> SUFFICES ASSUME NEW r \in Made
               PROVE  /\ run'[r].by = run[r].by /\ run'[r].submitted = run[r].submitted
                      /\ run'[r].nonce = run[r].nonce /\ run'[r].head = run[r].head
                      /\ run'[r].pushed = run[r].pushed
    BY DEF SameRows
  <2> QED
    BY <1>1 DEF Rows
<1> QED
  BY <1>2, CountsStay, RowsOnly DEF Start, gate, IInv

LEMMA OnceStatus ==
    ASSUME IInv, Once, (\E r \in Runs : Supersede(r) \/ Finish(r)) \/ Admit \/ AdmissionFails PROVE Once'
<1>1. CASE \E r \in Runs : Supersede(r)
  <2>1. PICK r \in Runs : Supersede(r)
    BY <1>1
  <2>2. job'.at = "made" /\ r \in Made /\ SameCounts /\ UNCHANGED <<rec, push>>
    BY <2>1, CountsStay, Types DEF Supersede, At, IInv, TypeOK, Launch, gate
  <2>3. CASE UNCHANGED run
    BY <2>2, <2>3, RowsOnly DEF SameRows, Launching
  <2>4. CASE run' = [run EXCEPT ![r].status = "superseded"]
    BY <2>2, <2>4, StatusOnly DEF Statuses, Launching
  <2> QED
    BY <2>1, <2>3, <2>4 DEF Supersede
<1>2. CASE \E r \in Runs : Finish(r)
  BY <1>2, CountsStay, StatusOnly DEF Finish, Ended, Active, gate, IInv, Statuses
<1>3. CASE Admit \/ AdmissionFails
  <2>1. job'.at = "idle" /\ job.run \in Made /\ SameCounts /\ UNCHANGED <<rec, push>>
    BY <1>3, CountsStay DEF Admit, AdmissionFails, At, Unlock, Idle, Begin, IInv, JobFits, gate
  <2>2. PICK s \in {"active", "over"} : run' = [run EXCEPT ![job.run].status = s]
    BY <1>3 DEF Admit, AdmissionFails, Ended
  <2> QED
    BY <2>1, <2>2, StatusOnly DEF Statuses, Launching
<1> QED
  BY <1>1, <1>2, <1>3

LEMMA OnceGivenUp ==
    ASSUME IInv, Once, Answer \/ Refuse \/ Superfluous \/ NoConfig \/ InsertFails
    PROVE  Once'
<1>1. /\ UNCHANGED <<rec, push, run>> /\ job'.at = "idle" /\ (UNCHANGED count \/ Trouble)
  BY DEF Answer, Refuse, Superfluous, NoConfig, InsertFails, Unlock, Idle, Begin, gate
<1> QED
  BY <1>1, CountsStay, RowsOnly DEF IInv, SameRows, Launching

LEMMA OnceCommit ==
    ASSUME IInv, Once, NEW r \in Runs, Publish(r) \/ \E h \in Heads : Commit(r, h)
    PROVE  Once'
<1>1. /\ r \in Made /\ UNCHANGED <<rec, push, job, count>> /\ Made' = Made
  BY DEF Publish, Commit, Active, gate, Made
<1>2. \A q \in Made : run[q] \in Rows
  BY Types DEF IInv
<1>3. \A q \in Made : /\ run'[q].by = run[q].by /\ run'[q].submitted = run[q].submitted
                      /\ run'[q].nonce = run[q].nonce
  <2> SUFFICES ASSUME NEW q \in Made
               PROVE  /\ run'[q].by = run[q].by /\ run'[q].submitted = run[q].submitted
                      /\ run'[q].nonce = run[q].nonce
    OBVIOUS
  <2>1. \/ run'[q] = run[q] \/ run'[q] = [run[q] EXCEPT !.pushed = run[q].head]
        \/ \E h \in Heads : run'[q] = [run[q] EXCEPT !.head = h]
    BY Types DEF Publish, Commit, IInv, TypeOK
  <2> QED
    BY <1>2, <2>1 DEF Rows
<1>4. NewCommits
  <2> SUFFICES ASSUME NEW q \in Made
               PROVE  /\ run'[q].head = run[q].head \/ \A p \in 1..count.push : push[p].old # run'[q].head
                      /\ run'[q].pushed \in {run[q].pushed, run[q].head}
    BY DEF NewCommits
  <2>1. CASE Publish(r)
    <3>1. run'[q] = run[q] \/ run'[q] = [run[q] EXCEPT !.pushed = run[q].head]
      BY <2>1, Types DEF Publish, IInv, TypeOK
    <3> QED
      BY <1>2, <3>1 DEF Rows
  <2>2. ASSUME NEW h \in Heads, Commit(r, h)
        PROVE  /\ run'[q].head = run[q].head \/ \A p \in 1..count.push : push[p].old # run'[q].head
               /\ run'[q].pushed \in {run[q].pushed, run[q].head}
    <3>1. run'[q] = run[q] \/ run'[q] = [run[q] EXCEPT !.head = h]
      BY <2>2, Types DEF Commit, IInv, TypeOK
    <3>2. \A p \in 1..count.push : push[p].old # h
      BY <2>2 DEF Commit, Known
    <3> QED
      BY <1>2, <3>1, <3>2 DEF Rows
  <2> QED
    BY <2>1, <2>2
<1>5. Remains /\ SameStarts /\ MovesFit'
  BY <1>1, <1>3 DEF Remains, SameStarts, Started, Once, Standing, MovesFit
<1> QED
  BY <1>1, <1>4, <1>5, OnceStays

LEMMA OncePush ==
    ASSUME IInv, Once, NEW h \in Heads \cup {Zero}, NEW n \in Nonces \cup {None}, Push(h, n)
    PROVE  Once'
<1> DEFINE new == count.push + 1
           update == [old |-> tip, new |-> h, nonce |-> n]
<1>1. /\ push' = [push EXCEPT ![new] = update] /\ h # tip /\ UNCHANGED <<rec, run, job>>
      /\ count'.push = new /\ count'.rec = count.rec /\ count'.run = count.run
      /\ count.push \in Nat /\ new \in Pushes
  BY CountsUp, PushAssumption DEF Push, IInv, Pushes, host
<1>2. \A p \in Pushes : push'[p] = IF p = new THEN update ELSE push[p]
  BY <1>1 DEF IInv, TypeOK
<1>3. 1..count'.push = (1..count.push) \cup {new} /\ new \notin 1..count.push /\ 1..count.push \subseteq Pushes
  BY <1>1, Types DEF IInv
<1>4. Made' = Made
  BY <1>1 DEF Made
<1>5. MovesFit'
  BY <1>1, <1>2, <1>3 DEF Once, Standing, MovesFit
<1> HIDE DEF new, update
<1>6. Remains
  BY <1>1, <1>2, <1>3, <1>4 DEF Remains
<1>7. SameStarts /\ NewCommits
  BY <1>1 DEF SameStarts, Started, NewCommits
<1> QED
  BY <1>1, <1>4, <1>5, <1>6, <1>7, OnceStays

-----------------------------------------------------------------------------
(* A launch begins.                                                           *)

LEMMA OnceReceive == ASSUME IInv, Once, NEW p \in Pushes, Receive(p) PROVE Once'
<1> DEFINE new == count.rec + 1
           x == [push |-> p, prev |-> count.run, validated |-> FALSE, ran |-> 0, diag |-> 0]
<1>1. /\ rec' = [rec EXCEPT ![new] = x] /\ UNCHANGED <<push, run>>
      /\ count'.rec = new /\ count'.push = count.push /\ count'.run = count.run
      /\ count.rec \in Nat /\ new \in Records
  BY CountsUp, PushAssumption DEF Receive, Retain, IInv, Records, gate
<1>2. \A i \in Records : rec'[i] = IF i = new THEN x ELSE rec[i]
  BY <1>1 DEF IInv, TypeOK
<1>3. 1..count'.rec = (1..count.rec) \cup {new} /\ new \notin 1..count.rec /\ 1..count.rec \subseteq Records
  BY <1>1, Types DEF IInv
<1>4. Made' = Made /\ MovesFit'
  BY <1>1 DEF Made, Once, Standing, MovesFit
<1>5. x.diag = 0 /\ x.push = p
  OBVIOUS
<1> HIDE DEF new, x
<1>6. Remains /\ NewCommits
  BY <1>1, <1>2, <1>3, <1>4 DEF Remains, NewCommits
<1>7. SameStarts
  <2>1. \A r \in Made : run[r].by # 0 => run[r].by \in 1..count.rec
    BY Types, PushAssumption DEF IInv
  <2> QED
    BY <1>1, <1>2, <1>3, <1>5, <2>1 DEF SameStarts, Started
<1>8. LaunchFits'
  <2>1. job' = Begin("retained", new, push[p].new, push[p].nonce)
    BY DEF Receive, new
  <2>2. job'.at = "retained" /\ job'.rec = new /\ job'.new = push[p].new /\ job'.nonce = push[p].nonce
    BY <2>1 DEF Begin
  <2>3. rec'[new].push = p /\ push' = push
    BY <1>1, <1>2, <1>5
  <2> QED
    BY <2>2, <2>3 DEF LaunchFits, NewOf, NonceOf
<1> QED
  BY <1>4, <1>6, <1>7, <1>8, StandingStays DEF Once

LEMMA OnceBegun ==
    ASSUME IInv, Once, (\E i \in Records : Replay(i)) \/ Rerun \/ \E n \in Nonces : StartFresh(n)
    PROVE  Once'
<1>1. UNCHANGED <<push, rec, run, count>> /\ Made' = Made
  BY DEF Replay, Rerun, StartFresh, gate, Made
<1>2. Standing'
  <2>1. Remains /\ SameStarts /\ NewCommits /\ MovesFit'
    BY <1>1 DEF Remains, SameStarts, Started, NewCommits, Once, Standing, MovesFit
  <2> QED
    BY <1>1, <2>1, StandingStays DEF Once
<1>3. LaunchFits'
  <2>1. ASSUME NEW i \in Records, Replay(i) PROVE LaunchFits'
    <3>1. job'.at = "retained" /\ job'.rec = i /\ job'.new = NewOf(i) /\ job'.nonce = NonceOf(i)
      BY <2>1 DEF Replay, Begin
    <3> QED
      BY <1>1, <3>1 DEF LaunchFits, NewOf, NonceOf
  <2>2. CASE Rerun \/ \E n \in Nonces : StartFresh(n)
    BY <2>2 DEF Rerun, StartFresh, Begin, LaunchFits
  <2> QED
    BY <2>1, <2>2
<1> QED
  BY <1>2, <1>3 DEF Once

\* A notification is written again, about the same push and retained as before.
LEMMA RewrittenStays ==
    ASSUME IInv, Once, UNCHANGED <<run, push, count>>,
           NEW i \in 1..count.rec, NEW x \in Notifications, rec' = [rec EXCEPT ![i] = x],
           x.push = rec[i].push, x.prev = rec[i].prev, rec[i].validated => x.validated,
           \A r \in Made : run[r].by = i /\ r = x.ran => r = rec[i].ran
    PROVE  /\ Remains /\ NewCommits /\ MovesFit' /\ Made' = Made
           /\ \A r \in Made : Started(r)' => Started(r)
           /\ \A j \in 1..count.rec : rec'[j] = IF j = i THEN x ELSE rec[j]
           /\ x.diag = rec[i].diag => Standing'
<1>1. Made' = Made /\ MovesFit'
  BY DEF Made, Once, Standing, MovesFit
<1>2. \A j \in 1..count.rec : rec'[j] = IF j = i THEN x ELSE rec[j]
  BY Types DEF IInv, TypeOK
<1>3. Remains /\ NewCommits
  BY <1>1, <1>2 DEF Remains, NewCommits
<1>4. \A r \in Made : Started(r)' => Started(r)
  <2>1. \A r \in Made : run[r].by # 0 => run[r].by \in 1..count.rec
    BY Types, PushAssumption DEF IInv
  <2> QED
    BY <1>2, <2>1 DEF Started
<1>5. ASSUME x.diag = rec[i].diag PROVE Standing'
  <2>1. SameStarts
    BY <1>2, <1>4, <1>5 DEF SameStarts
  <2> QED
    BY <1>1, <1>3, <2>1, StandingStays DEF Once
<1> QED
  BY <1>1, <1>2, <1>3, <1>4, <1>5

LEMMA OnceValidate == ASSUME IInv, Once, Validate PROVE Once'
<1>1. /\ job.at = "retained" /\ job' = [job EXCEPT !.at = "checked"]
      /\ UNCHANGED <<push, run, count>> /\ LatestFor(job.rec) = rec[job.rec].prev
  BY DEF Validate, Unanswered, At, Goto, Current, gate
<1>2. job.rec \in Records /\ rec[job.rec] \in Notifications /\ job.rec \in 1..count.rec /\ job.rec # 0
  BY <1>1, OfRecord
<1> DEFINE x == [rec[job.rec] EXCEPT !.validated = TRUE]
<1>3. /\ x \in Notifications /\ x.push = rec[job.rec].push /\ x.prev = rec[job.rec].prev
      /\ x.diag = rec[job.rec].diag /\ x.ran = rec[job.rec].ran /\ x.validated
  BY <1>2 DEF Notifications
<1>4. rec' = [rec EXCEPT ![job.rec] = x]
  BY <1>2 DEF Validate, IInv, TypeOK
<1> HIDE DEF x
<1>5. /\ Standing' /\ Made' = Made /\ \A j \in 1..count.rec : rec'[j] = IF j = job.rec THEN x ELSE rec[j]
  <2> DEFINE i == job.rec
  <2>1. UNCHANGED <<run, push, count>> /\ i \in 1..count.rec /\ x \in Notifications /\ rec' = [rec EXCEPT ![i] = x]
    BY <1>1, <1>2, <1>3, <1>4
  <2>2. /\ x.push = rec[i].push /\ x.prev = rec[i].prev /\ (rec[i].validated => x.validated) /\ x.diag = rec[i].diag
        /\ \A r \in Made : run[r].by = i /\ r = x.ran => r = rec[i].ran
    BY <1>3
  <2> HIDE DEF i
  <2>3. Standing' /\ Made' = Made /\ \A j \in 1..count.rec : rec'[j] = IF j = i THEN x ELSE rec[j]
    BY <2>1, <2>2, RewrittenStays
  <2> QED
    BY <2>3 DEF i
<1>6. /\ job'.at = "checked" /\ job'.rec = job.rec /\ job'.new = job.new /\ job'.nonce = job.nonce
  BY <1>1 DEF IInv, TypeOK, Launch
<1>7. job.new = NewOf(job.rec) /\ job.nonce = NonceOf(job.rec)
  BY <1>1, <1>2 DEF Once, LaunchFits, Launching
<1>8. \A r \in Made : r <= rec[job.rec].prev \/ r = rec[job.rec].diag
  BY <1>1, <1>2, NothingAfter
<1>9. LaunchFits'
  BY <1>1, <1>2, <1>3, <1>5, <1>6, <1>7, <1>8 DEF LaunchFits, NewOf, NonceOf
<1> QED
  BY <1>5, <1>9 DEF Once

\* A run of a nonce is no diagnostic, and the run before a notification is not its own.
LEMMA OnceAnswered == ASSUME IInv, Once, BindNonce \/ Attach PROVE Once'
<1>1. /\ job.at \in {"retained", "checked"} /\ UNCHANGED <<push, run, count>> /\ job'.at = "idle"
  BY DEF BindNonce, Attach, Unanswered, At, Unlock, Idle, Begin, gate
<1>2. job.rec \in Records /\ rec[job.rec] \in Notifications /\ job.rec \in 1..count.rec /\ job.rec # 0
  BY <1>1, OfRecord
<1>3. PICK x \in Notifications :
          /\ rec' = [rec EXCEPT ![job.rec] = x] /\ x.push = rec[job.rec].push /\ x.prev = rec[job.rec].prev
          /\ x.diag = rec[job.rec].diag /\ (rec[job.rec].validated => x.validated)
          /\ (x.ran = rec[job.rec].prev \/ (x.ran \in Made /\ run[x.ran].nonce # None))
  <2>1. CASE BindNonce
    <3>1. PICK r \in Made : /\ rec' = [rec EXCEPT ![job.rec].validated = TRUE, ![job.rec].ran = r]
                            /\ run[r].nonce # None
      BY <2>1 DEF BindNonce, WithNonce
    <3> DEFINE y == [rec[job.rec] EXCEPT !.validated = TRUE, !.ran = r]
    <3>2. r \in 0..count.run
      BY Types, PushAssumption DEF Made, IInv
    <3>3. /\ y \in Notifications /\ y.push = rec[job.rec].push /\ y.prev = rec[job.rec].prev
          /\ y.diag = rec[job.rec].diag /\ y.validated /\ y.ran = r
      BY <1>2, <3>2 DEF Notifications
    <3>4. rec' = [rec EXCEPT ![job.rec] = y]
      BY <1>2, <3>1 DEF IInv, TypeOK
    <3> QED
      BY <3>1, <3>3, <3>4
  <2>2. CASE Attach
    <3> DEFINE y == [rec[job.rec] EXCEPT !.ran = rec[job.rec].prev]
    <3>1. /\ y \in Notifications /\ y.push = rec[job.rec].push /\ y.prev = rec[job.rec].prev
          /\ y.diag = rec[job.rec].diag /\ y.validated = rec[job.rec].validated /\ y.ran = rec[job.rec].prev
      BY <1>2 DEF Notifications
    <3>2. rec' = [rec EXCEPT ![job.rec] = y]
      BY <1>2, <2>2 DEF Attach, IInv, TypeOK
    <3> QED
      BY <3>1, <3>2
  <2> QED
    BY <2>1, <2>2
<1>4. ASSUME NEW r \in Made, run[r].by = job.rec, r = x.ran PROVE r = rec[job.rec].ran
  <2>1. rec[job.rec].prev < r
    BY <1>2, <1>4 DEF Once, Standing, OriginsFit
  <2>2. run[r].nonce # None /\ r # 0 /\ r \in {rec[job.rec].ran, rec[job.rec].diag}
    BY <1>2, <1>3, <1>4, <2>1, Types, PushAssumption DEF IInv, StartedByOne, Made
  <2>3. r # rec[job.rec].diag
    BY <1>2, <2>2 DEF Once, Standing, DiagnosticsFit
  <2> QED
    BY <2>2, <2>3
<1>5. Standing'
  BY <1>1, <1>2, <1>3, <1>4, RewrittenStays
<1>6. LaunchFits'
  BY <1>1 DEF LaunchFits, Launching
<1> QED
  BY <1>5, <1>6 DEF Once

-----------------------------------------------------------------------------
(* A launch that does not repeat a run.                                       *)

\* What a validated launch finds in a run that its push already started: the notification's
\* predecessor is that run or a later one.
LEMMA Predecessor ==
    ASSUME IInv, Once, job.at = "checked", NEW r \in Made, Repeats(r, push[rec[job.rec].push])
    PROVE  r <= rec[job.rec].prev /\ rec[job.rec].prev \in Made
<1>1. job.rec \in 1..count.rec /\ job.rec \in Records /\ job.rec # 0
  BY OfRecord
<1>2. r # rec[job.rec].diag
  BY <1>1, Types, PushAssumption DEF Repeats, Once, Standing, DiagnosticsFit, Made, IInv
<1>3. r <= rec[job.rec].prev
  BY <1>1, <1>2 DEF Once, LaunchFits, Launching
<1> QED
  BY <1>1, <1>3, Types, PushAssumption DEF Made, IInv

LEMMA OnceProceed == ASSUME IInv, Once, Proceed PROVE Once'
<1>1. /\ job.at = "checked" /\ job' = [job EXCEPT !.at = "fresh"] /\ UNCHANGED <<push, rec, run, count>>
      /\ ~Reattaches(job.rec)
  BY DEF Proceed, At, Goto, gate
<1>2. job.rec \in Records /\ rec[job.rec] \in Notifications /\ job.rec \in 1..count.rec /\ job.rec # 0
  BY <1>1, OfRecord
<1>3. /\ job'.at = "fresh" /\ job'.rec = job.rec /\ job'.new = job.new /\ job'.nonce = job.nonce
  BY <1>1 DEF IInv, TypeOK, Launch
<1>4. job.new = NewOf(job.rec) /\ job.nonce = NonceOf(job.rec)
  BY <1>1, <1>2 DEF Once, LaunchFits, Launching
<1>5. Standing' /\ Made' = Made
  <2>1. Remains /\ SameStarts /\ NewCommits /\ MovesFit' /\ Made' = Made
    BY <1>1 DEF Remains, SameStarts, Started, NewCommits, Once, Standing, MovesFit, Made
  <2> QED
    BY <2>1, StandingStays DEF Once
<1>6. ASSUME NEW r \in Made, Repeats(r, push[rec[job.rec].push])
      PROVE  Away(r, count.run, job.new)
  <2> DEFINE q == rec[job.rec].prev
             p == rec[job.rec].push
  <2>1. r <= q /\ q \in Made /\ q \in r..count.run
    BY <1>1, <1>6, Predecessor, Types, PushAssumption DEF Made, IInv
  <2>2. /\ p \in 1..count.push /\ push[p] \in Updates /\ push[p].old # push[p].new /\ push[p].old \in Heads
        /\ OldOf(job.rec) = push[p].old /\ NewOf(job.rec) = push[p].new
    BY <1>2, <1>6, Types DEF IInv, RecFits, Once, Standing, MovesFit, Updates, Repeats, OldOf, NewOf
  <2>3. run[r].by # 0 /\ run[r].by \in 1..count.rec /\ UpdateOf(r) = push[p]
    BY <1>6, Types, PushAssumption DEF Repeats, Started, IInv
  <2> HIDE DEF p
  <2>4. NonceOf(job.rec) = None
    <3>1. run[r].nonce = NonceOf(run[r].by) /\ NonceOf(run[r].by) = NonceOf(job.rec)
      BY <2>3 DEF Once, Standing, OriginsFit, UpdateOf, NonceOf, p
    <3>2. WithNonce(job.nonce) = {}
      BY <1>1 DEF IInv, JobFits
    <3> QED
      BY <1>4, <3>1, <3>2 DEF WithNonce
  <2>5. CASE run[q].by = 0 \/ run[q].submitted # job.new
    BY <2>1, <2>5 DEF Away
  <2>6. CASE run[q].submitted = job.new
    <3>1. OldOf(job.rec) \notin {run[q].head, run[q].pushed} /\ OldOf(job.rec) # Zero
      <4>1. /\ push[p].old = run[q].head => run[q].head = run[q].submitted
            /\ push[p].old = run[q].pushed => run[q].pushed = run[q].submitted
        BY <2>1, <2>3 DEF Once, Standing, CommitsFit
      <4> QED
        BY <4>1, <1>4, <2>2, <2>6, PushAssumption
    <3>2. q # 0
      BY <2>1, Types, PushAssumption DEF Made, IInv
    <3>3. Left(job.rec)
      BY <1>1, <1>4, <2>4, <2>6, <3>1, <3>2 DEF Reattaches
    <3>4. PICK j \in 1..count.rec : /\ rec[j].validated /\ rec[j].prev = q
                                    /\ OldOf(j) = NewOf(job.rec)
      <4> DEFINE S == {NewOf(job.rec)}
      <4>1. S \in SUBSET (Heads \cup {Zero}) /\ OldOf(job.rec) \notin S
        BY <2>2 DEF Updates
      <4>2. ~(\A j \in {j \in 1..count.rec : j # job.rec /\ rec[j].validated /\ rec[j].prev = rec[job.rec].prev} :
                 OldOf(j) \in S => NewOf(j) \in S)
        BY <3>3, <4>1 DEF Left
      <4> QED
        BY <4>2
    <3> QED
      BY <1>4, <2>1, <3>4 DEF Away
  <2> QED
    BY <2>5, <2>6
<1>7. LaunchFits'
  <2>1. /\ NewOf(job.rec)' = NewOf(job.rec) /\ NonceOf(job.rec)' = NonceOf(job.rec)
        /\ \A r, n, h : Away(r, n, h)' <=> Away(r, n, h)
        /\ \A r, u : Repeats(r, u)' <=> Repeats(r, u)
    BY <1>1 DEF NewOf, NonceOf, Away, OldOf, Repeats, Started, UpdateOf
  <2> QED
    BY <1>1, <1>3, <1>4, <1>5, <1>6, <2>1 DEF LaunchFits
<1> QED
  BY <1>5, <1>7 DEF Once

LEMMA OnceShares == ASSUME IInv, Once, ShareDiagnostic PROVE Once'
<1>1. /\ job.at = "checked" /\ job' = [job EXCEPT !.at = "fresh"] /\ UNCHANGED <<push, run, count>>
      /\ Reattaches(job.rec)
  BY DEF ShareDiagnostic, At, Goto, gate
<1>2. job.rec \in Records /\ rec[job.rec] \in Notifications /\ job.rec \in 1..count.rec /\ job.rec # 0
  BY <1>1, OfRecord
<1>3. /\ job'.at = "fresh" /\ job'.rec = job.rec /\ job'.new = job.new /\ job'.nonce = job.nonce
  BY <1>1 DEF IInv, TypeOK, Launch
<1>4. job.new = NewOf(job.rec) /\ job.nonce = NonceOf(job.rec)
  BY <1>1, <1>2 DEF Once, LaunchFits, Launching
<1>5. PICK q \in Made : q = rec[job.rec].prev
  BY <1>1, <1>2, Types, PushAssumption DEF Reattaches, IInv, Made
\* The diagnostic that it shares is one of the same update.
<1>6. /\ run[q].by # 0 /\ ~Started(q) /\ run[q].nonce = None /\ UpdateOf(q) = push[rec[job.rec].push]
      /\ run[q].submitted = job.new
  <2>1. PICK j \in 1..count.rec : /\ q \in {rec[j].ran, rec[j].diag} /\ rec[j].ran = 0
                                  /\ push[rec[j].push] = push[rec[job.rec].push]
    BY <1>5 DEF ShareDiagnostic, Alike
  <2>2. rec[j].diag = q /\ rec[j].diag # 0
    BY <1>5, <2>1, Types, PushAssumption DEF Made, IInv
  <2>3. /\ run[q].by # 0 /\ ~Started(q) /\ run[q].nonce = None /\ UpdateOf(q) = push[rec[job.rec].push]
    BY <2>1, <2>2 DEF Once, Standing, DiagnosticsFit
  <2>4. run[q].submitted = NewOf(run[q].by)
    BY <1>5, <2>3 DEF Once, Standing, OriginsFit
  <2> QED
    BY <1>4, <2>3, <2>4 DEF UpdateOf, NewOf
<1> DEFINE x == [rec[job.rec] EXCEPT !.diag = rec[job.rec].prev]
<1>7. /\ x \in Notifications /\ x.push = rec[job.rec].push /\ x.prev = rec[job.rec].prev
      /\ x.diag = q /\ x.ran = rec[job.rec].ran /\ x.validated = rec[job.rec].validated
  BY <1>2, <1>5 DEF Notifications
<1>8. rec' = [rec EXCEPT ![job.rec] = x]
  BY <1>2 DEF ShareDiagnostic, IInv, TypeOK
<1> HIDE DEF x
<1>9. /\ Remains /\ NewCommits /\ MovesFit' /\ Made' = Made
      /\ \A r \in Made : Started(r)' => Started(r)
      /\ \A j \in 1..count.rec : rec'[j] = IF j = job.rec THEN x ELSE rec[j]
  <2> DEFINE i == job.rec
  <2>1. UNCHANGED <<run, push, count>> /\ i \in 1..count.rec /\ x \in Notifications /\ rec' = [rec EXCEPT ![i] = x]
    BY <1>1, <1>2, <1>7, <1>8
  <2>2. /\ x.push = rec[i].push /\ x.prev = rec[i].prev /\ (rec[i].validated => x.validated)
        /\ \A r \in Made : run[r].by = i /\ r = x.ran => r = rec[i].ran
    BY <1>7
  <2> HIDE DEF i
  <2>3. /\ Remains /\ NewCommits /\ MovesFit' /\ Made' = Made
        /\ \A r \in Made : Started(r)' => Started(r)
        /\ \A j \in 1..count.rec : rec'[j] = IF j = i THEN x ELSE rec[j]
    BY <2>1, <2>2, RewrittenStays
  <2> QED
    BY <2>3 DEF i
<1>10. DiagnosticsFit'
  <2> SUFFICES ASSUME NEW i \in 1..count.rec, rec'[i].diag # 0
               PROVE  (/\ run[rec[i].diag].by # 0 /\ ~Started(rec[i].diag) /\ run[rec[i].diag].nonce = None
                       /\ UpdateOf(rec[i].diag) = push[rec[i].push])'
    BY <1>1 DEF DiagnosticsFit
  <2>1. PICK d : d = rec'[i].diag
    OBVIOUS
  <2>2. /\ d \in Made /\ run[d].by # 0 /\ ~Started(d) /\ run[d].nonce = None
        /\ UpdateOf(d) = push[rec[i].push]
    <3>1. CASE i = job.rec
      BY <1>2, <1>5, <1>6, <1>7, <1>9, <2>1, <3>1
    <3>2. CASE i # job.rec
      <4>1. rec[i].diag = d /\ d # 0
        BY <1>9, <2>1, <3>2
      <4> QED
        BY <4>1, Types, PushAssumption DEF Once, Standing, DiagnosticsFit, IInv, Made
    <3> QED
      BY <3>1, <3>2
  <2>3. UpdateOf(d)' = UpdateOf(d) /\ push'[rec'[i].push] = push[rec[i].push]
    BY <1>9, <2>2, StillAbout
  <2>4. ~Started(d)' /\ run'[d].by # 0 /\ run'[d].nonce = None
    BY <1>9, <2>2 DEF Remains
  <2> QED
    BY <2>1, <2>2, <2>3, <2>4 DEF Started, UpdateOf
<1>11. OriginsFit' /\ CommitsFit'
  BY <1>9, OriginsStay, CommitsStay DEF Once, Standing
<1>12. NoneRepeated'
  BY <1>9, NoneRepeatedStays DEF Once, Standing
<1>13. ASSUME NEW r \in Made, Repeats(r, push[rec[job.rec].push])'
       PROVE  Away(r, count.run, job.new)'
  <2>1. Started(r) /\ run[r].by # 0 /\ UpdateOf(r)' = UpdateOf(r) /\ push'[rec'[job.rec].push] = push[rec[job.rec].push]
    BY <1>2, <1>9, <1>13, StillAbout DEF Repeats, Started
  <2>2. Repeats(r, push[rec[job.rec].push]) /\ Repeats(r, UpdateOf(q))
    BY <1>3, <1>6, <1>13, <2>1 DEF Repeats
  <2>3. r < q /\ q \in 1..count.run /\ r \in 1..count.run /\ count.run \in Nat
    <3>1. r <= q
      BY <1>1, <1>5, <2>2, Predecessor
    <3>2. r # q
      BY <1>6, <2>1
    <3> QED
      BY <1>5, <3>1, <3>2, Types, PushAssumption DEF Made, IInv
  <2>4. Away(r, q - 1, run[q].submitted)
    BY <1>5, <1>6, <2>2, <2>3 DEF Once, Standing, NoneRepeated
  <2>5. PICK last, h : last = count.run /\ h = job.new
    OBVIOUS
  <2>6. Away(r, last, h) /\ last \in Made
    BY <1>6, <2>3, <2>4, <2>5 DEF Away, Made
  <2>7. Away(r, last, h)'
    BY <1>9, <2>6, StillAway
  <2> QED
    BY <1>1, <1>3, <2>5, <2>7 DEF Away
<1>14. LaunchFits'
  <2>1. /\ push'[rec'[job.rec].push] = push[rec[job.rec].push]
        /\ job'.new = push'[rec'[job.rec].push].new /\ job'.nonce = push'[rec'[job.rec].push].nonce
    BY <1>2, <1>3, <1>4, <1>9, StillAbout DEF NewOf, NonceOf
  <2>2. PICK i : i = job.rec
    OBVIOUS
  <2> QED
    BY <1>1, <1>3, <1>9, <1>13, <2>1, <2>2 DEF LaunchFits, NewOf, NonceOf, Repeats, Started, UpdateOf, Away, OldOf
<1> QED
  BY <1>9, <1>10, <1>11, <1>12, <1>14 DEF Once, Standing

\* The row of a launch: its notification had no run and no diagnostic where the new one goes,
\* and its push starts no run again without the branch having been elsewhere.
LEMMA OnceInserted == ASSUME IInv, Once, Insert \/ Diagnose PROVE Once'
<1>0. PICK new : new = count.run + 1
  OBVIOUS
<1>1. job.at = "fresh" /\ job'.at \notin Launching
  <2>1. CASE Insert
    BY <2>1 DEF Insert, At, Launching, IInv, TypeOK, Launch
  <2>2. CASE Diagnose
    BY <2>2 DEF Diagnose, At, Unlock, Idle, Begin, Launching
  <2> QED
    BY <2>1, <2>2
<1>2. job.rec # 0 => job.rec \in 1..count.rec /\ job.rec \in Records /\ rec[job.rec].ran = 0
  BY <1>1, Types, PushAssumption DEF IInv, ValidFits
<1>3. PICK status \in {"pending", "over"}, field \in {"ran", "diag"} :
          /\ InsertRun(status, field) /\ (field = "diag" <=> status = "over")
          /\ field = "diag" => job.nonce = None /\ (job.rec # 0 => rec[job.rec].diag = 0)
  BY DEF Insert, Diagnose
<1>4. /\ count'.run = new /\ count'.push = count.push /\ count'.rec = count.rec /\ push' = push
      /\ Made' = Made \cup {new} /\ new \in Runs \ Made /\ \A r \in Made : run'[r] = run[r]
  BY <1>0, <1>1, <1>2, <1>3, Inserted
<1>5. /\ run'[new].by = job.rec /\ run'[new].submitted = job.new /\ run'[new].nonce = job.nonce
      /\ run'[new].head = job.new /\ run'[new].pushed = None
  BY <1>0, <1>3, <1>4 DEF InsertRun, IInv, TypeOK
<1>6. /\ \A i \in 1..count.rec : i # job.rec => rec'[i] = rec[i]
      /\ job.rec # 0 => /\ rec'[job.rec].push = rec[job.rec].push /\ rec'[job.rec].prev = rec[job.rec].prev
                        /\ rec'[job.rec].validated = rec[job.rec].validated
                        /\ rec'[job.rec].ran = (IF field = "ran" THEN new ELSE 0)
                        /\ rec'[job.rec].diag = (IF field = "diag" THEN new ELSE rec[job.rec].diag)
  <2>1. CASE job.rec = 0
    BY <1>0, <1>3, <2>1 DEF InsertRun, Binding
  <2>2. CASE job.rec # 0
    <3>1. rec' = [rec EXCEPT ![job.rec][field] = new] /\ rec[job.rec] \in Notifications
      BY <1>0, <1>2, <1>3, <2>2, Types DEF InsertRun, Binding, IInv
    <3>2. \A i \in Records : rec'[i] = IF i = job.rec THEN [rec[i] EXCEPT ![field] = new] ELSE rec[i]
      BY <1>2, <2>2, <3>1 DEF IInv, TypeOK
    <3>3. 1..count.rec \subseteq Records
      BY Types DEF IInv
    <3>4. CASE field = "ran"
      BY <1>2, <2>2, <3>1, <3>2, <3>3, <3>4 DEF Notifications
    <3>5. CASE field = "diag"
      BY <1>2, <2>2, <3>1, <3>2, <3>3, <3>5 DEF Notifications
    <3> QED
      BY <3>4, <3>5
  <2> QED
    BY <2>1, <2>2
<1>7. new \notin Made /\ count.run \in Nat /\ Made = 1..count.run /\ new # 0
  BY <1>0, <1>4, Types, PushAssumption DEF Made, IInv
<1>8. Remains
  BY <1>2, <1>4, <1>6 DEF Remains
<1>9. \A r \in Made : /\ Started(r)' => Started(r)
                      /\ run[r].by # 0 => run[r].by \in 1..count.rec /\ UpdateOf(r)' = UpdateOf(r)
  <2> SUFFICES ASSUME NEW r \in Made, run[r].by # 0, Started(r)' PROVE Started(r)
    BY <1>8, StillAbout DEF Started, Remains
  <2>1. run[r].by \in 1..count.rec /\ run'[r].by = run[r].by /\ r = rec'[run[r].by].ran
    BY <1>8, StillAbout DEF Started, Remains
  <2>2. run[r].by # job.rec
    BY <1>6, <1>7, <2>1
  <2> QED
    BY <1>6, <2>1, <2>2 DEF Started
<1>10. job.rec # 0 => /\ UpdateOf(new)' = push[rec[job.rec].push] /\ push'[rec'[job.rec].push] = push[rec[job.rec].push]
                      /\ job.new = push[rec[job.rec].push].new /\ job.nonce = push[rec[job.rec].push].nonce
  BY <1>1, <1>2, <1>5, <1>8, StillAbout DEF UpdateOf, Once, LaunchFits, Launching, NewOf, NonceOf
<1>11. MovesFit'
  BY <1>4 DEF Once, Standing, MovesFit
<1>12. OriginsFit'
  <2> SUFFICES ASSUME NEW r \in Made', run'[r].by # 0
               PROVE  (/\ rec[run[r].by].prev < r
                       /\ run[r].submitted = NewOf(run[r].by) /\ run[r].nonce = NonceOf(run[r].by))'
    BY DEF OriginsFit
  <2>1. PICK i : i = run'[r].by
    OBVIOUS
  <2>2. CASE r = new
    <3>1. rec[job.rec].prev < new
      BY <1>2, <1>5, <1>7, <2>2, <1>0, Types DEF IInv
    <3> QED
      BY <1>2, <1>5, <1>6, <1>10, <2>2, <3>1 DEF NewOf, NonceOf
  <2>3. CASE r \in Made
    <3>1. run'[r] = run[r] /\ run[r].by \in 1..count.rec
      BY <1>4, <1>9, <2>3
    <3>2. /\ rec[run[r].by].prev < r
          /\ run[r].submitted = NewOf(run[r].by) /\ run[r].nonce = NonceOf(run[r].by)
      BY <2>3, <3>1 DEF Once, Standing, OriginsFit
    <3>3. push'[rec'[run[r].by].push] = push[rec[run[r].by].push] /\ rec'[run[r].by].prev = rec[run[r].by].prev
      BY <1>8, <3>1, StillAbout DEF Remains
    <3> QED
      BY <3>1, <3>2, <3>3 DEF NewOf, NonceOf
  <2> QED
    BY <1>4, <2>2, <2>3
<1>13. DiagnosticsFit'
  <2> SUFFICES ASSUME NEW i \in 1..count.rec, rec'[i].diag # 0
               PROVE  (/\ run[rec[i].diag].by # 0 /\ ~Started(rec[i].diag) /\ run[rec[i].diag].nonce = None
                       /\ UpdateOf(rec[i].diag) = push[rec[i].push])'
    BY <1>4 DEF DiagnosticsFit
  <2>1. PICK d : d = rec'[i].diag
    OBVIOUS
  <2>2. CASE d = new
    <3>1. i = job.rec /\ field = "diag"
      <4>1. rec[i].diag # new
        BY <1>7, <1>0, Types DEF IInv
      <4>2. i = job.rec
        BY <1>6, <2>1, <2>2, <4>1
      <4>3. job.rec # 0
        BY <4>2
      <4>4. rec'[job.rec].diag = (IF field = "diag" THEN new ELSE rec[job.rec].diag)
        BY <1>6, <4>3
      <4> QED
        BY <2>1, <2>2, <4>1, <4>2, <4>4
    <3>2. ~Started(new)'
      BY <1>2, <1>5, <1>6, <1>7, <3>1 DEF Started
    <3> QED
      BY <1>2, <1>3, <1>5, <1>10, <2>1, <2>2, <3>1, <3>2 DEF Started, UpdateOf
  <2>3. CASE d # new
    <3>1. rec[i].diag = d /\ d # 0
      BY <1>6, <2>1, <2>3
    <3>2. /\ d \in Made /\ run[d].by # 0 /\ ~Started(d) /\ run[d].nonce = None
          /\ UpdateOf(d) = push[rec[i].push]
      BY <3>1, Types, PushAssumption DEF Once, Standing, DiagnosticsFit, IInv, Made
    <3>3. UpdateOf(d)' = UpdateOf(d) /\ push'[rec'[i].push] = push[rec[i].push] /\ ~Started(d)'
      BY <1>8, <1>9, <3>2, StillAbout
    <3> QED
      BY <1>4, <2>1, <3>2, <3>3 DEF Started, UpdateOf
  <2> QED
    BY <2>2, <2>3
<1>14. CommitsFit'
  <2> SUFFICES ASSUME NEW r \in Made', NEW q \in Made', r <= q, run'[r].by # 0
               PROVE  /\ UpdateOf(r)' .old = run'[q].head => run'[q].head = run'[q].submitted
                      /\ UpdateOf(r)' .old = run'[q].pushed => run'[q].pushed = run'[q].submitted
    BY DEF CommitsFit
  <2>1. CASE q = new
    <3>1. UpdateOf(r)' .old # None
      <4>1. UpdateOf(r)' \in Updates
        <5>1. CASE r = new
          BY <1>2, <1>5, <1>10, <2>1, <5>1, Types DEF IInv, RecFits
        <5>2. CASE r # new
          BY <1>4, <1>9, <5>2, Types DEF IInv, RecFits, UpdateOf
        <5> QED
          BY <5>1, <5>2
      <4> QED
        BY <4>1, PushAssumption DEF Updates
    <3> QED
      BY <1>5, <2>1, <3>1
  <2>2. CASE q # new
    <3>1. q \in Made /\ r \in Made
      BY <1>0, <1>4, <1>7, <2>2
    <3>2. run'[q] = run[q] /\ UpdateOf(r)' = UpdateOf(r) /\ run[r].by # 0
      BY <1>4, <1>9, <3>1
    <3> QED
      BY <3>1, <3>2 DEF Once, Standing, CommitsFit
  <2> QED
    BY <2>1, <2>2
<1>15. NoneRepeated'
  <2> SUFFICES ASSUME NEW r \in Made', NEW o \in Made', r < o, run'[o].by # 0, Repeats(r, UpdateOf(o))'
               PROVE  Away(r, o - 1, run[o].submitted)'
    BY DEF NoneRepeated
  <2>1. CASE o = new
    <3>1. r \in Made /\ o - 1 = count.run /\ count.run \in Made
      BY <1>0, <1>4, <1>7, <2>1
    <3>2. Repeats(r, push[rec[job.rec].push])
      <4>1. UpdateOf(r)' = push[rec[job.rec].push] /\ Started(r) /\ run[r].by # 0
        BY <1>5, <1>9, <1>10, <2>1, <3>1 DEF Repeats, Started
      <4> QED
        BY <1>5, <1>9, <1>10, <2>1, <3>1, <4>1 DEF Repeats
    <3>3. PICK last, h : last = count.run /\ h = job.new
      OBVIOUS
    <3>4. Away(r, last, h)
      BY <1>1, <1>5, <2>1, <3>1, <3>2, <3>3 DEF Once, LaunchFits, Launching
    <3>5. Away(r, last, h)'
      BY <1>8, <3>1, <3>3, <3>4, StillAway
    <3> QED
      BY <1>5, <2>1, <3>1, <3>3, <3>5 DEF Away
  <2>2. CASE o # new
    <3>1. o \in Made /\ r \in Made
      BY <1>0, <1>4, <1>7, <2>2
    <3> QED
      BY <1>8, <1>9, <3>1, RepeatStays DEF Once, Standing
  <2> QED
    BY <2>1, <2>2
<1>16. LaunchFits'
  BY <1>1 DEF LaunchFits
<1> QED
  BY <1>11, <1>12, <1>13, <1>14, <1>15, <1>16 DEF Once, Standing

LEMMA OnceNext == ASSUME IInv, Once, [Next]_vars PROVE Once'
<1>1. CASE (\E h \in Heads \cup {Zero}, n \in Nonces \cup {None} : Push(h, n)) \/ \E p \in Pushes : Receive(p)
  BY <1>1, OncePush, OnceReceive
<1>2. CASE (\E i \in Records : Replay(i)) \/ Rerun \/ \E n \in Nonces : StartFresh(n)
  BY <1>2, OnceBegun
<1>3. CASE Answer \/ Refuse \/ Superfluous \/ NoConfig \/ InsertFails
  BY <1>3, OnceGivenUp
<1>4. CASE BindNonce \/ Attach \/ Validate \/ ShareDiagnostic \/ Proceed
  BY <1>4, OnceAnswered, OnceValidate, OnceShares, OnceProceed
<1>5. CASE Insert \/ Diagnose
  BY <1>5, OnceInserted
<1>6. CASE (\E r \in Runs : Supersede(r) \/ Finish(r)) \/ Admit \/ AdmissionFails
  BY <1>6, OnceStatus
<1>7. CASE \E r \in Runs : Publish(r) \/ \E h \in Heads : Commit(r, h)
  BY <1>7, OnceCommit
<1>8. CASE AskRerun \/ Crash \/ Start \/ Break \/ Repair \/ UNCHANGED vars
  BY <1>8, OnceDaemon, OnceStart
<1> QED
  BY <1>1, <1>2, <1>3, <1>4, <1>5, <1>6, <1>7, <1>8 DEF Next, Launches

\* After the run of a push that moved the branch, a run for the same update is started only
\* when the branch has been elsewhere, whatever is delivered again, replayed, lost with a
\* crash or only diagnosed (reattachReceivedRun); and a nonce has one run.
THEOREM ValidatedOnlyOnce == Spec => []ValidatedOnce
<1>1. IInv /\ Once /\ [Next]_vars => Once'
  BY OnceNext
<1>2. IInv /\ Once => ValidatedOnce
  BY DEF IInv, Once, Standing, ValidatedOnce
<1> QED
  BY Invariant, OnceInit, <1>1, <1>2, PTL DEF Spec
=============================================================================
