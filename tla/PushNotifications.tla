------------------------- MODULE PushNotifications -------------------------
(***************************************************************************)
(* The pushes of one branch of a gate, internal/daemon/                    *)
(* push_notifications.go and the launch path of manager.go.                *)
(*                                                                         *)
(* Git moves the gate's ref first; the post-receive hook then tells the    *)
(* daemon, which may be down, may be told late, twice or in another order. *)
(* The daemon retains what it heard in a file, and admits it: a run's row  *)
(* is inserted together with the binding of the file to it, the runs it    *)
(* replaces are cancelled, and it is queued or started.  A file that was   *)
(* not admitted can be replayed.  Every launch of the branch holds its     *)
(* lock, so at most one is between its steps (job); the ref, the runs, the *)
(* configuration and the life of the daemon move meanwhile.                *)
(***************************************************************************)
EXTENDS Integers, FiniteSets

CONSTANTS
    Heads,       \* commits
    Zero,        \* the head of a deleted branch
    Nonces,      \* launch nonces
    None,        \* no nonce, no head
    MaxPushes,   \* bound: updates of the ref by git push
    MaxRecords,  \* bound: deliveries of the hook
    MaxTwice,    \* bound: deliveries of one push
    MaxRuns,     \* bound: runs of the branch
    MaxTroubles  \* bound: crashes, failing steps and edits that break the config

Pushes  == 1..MaxPushes
Records == 1..MaxRecords
Runs    == 1..MaxRuns

ASSUME PushAssumption ==
    /\ Zero \notin Heads /\ None \notin Heads /\ None \notin Nonces /\ None # Zero
    /\ {MaxPushes, MaxRecords, MaxTwice, MaxRuns, MaxTroubles} \subseteq Nat

VARIABLES
    tip,      \* refs/heads/<branch> in the gate
    push,     \* the ref updates that git accepted, in order
    rec,      \* the retained notifications, with their rows in push_notifications
    run,      \* the branch's runs
    job,      \* the launch that holds the branch lock
    asked,    \* the head that a rerun resolved and waits with for the lock
    up, bad,  \* the daemon runs; its global config does not load
    count     \* how many pushes, records and runs there are, and the troubles

gate == <<tip, push>>
host == <<up, bad>>
vars == <<gate, rec, run, job, asked, host, count>>

NoPush == [old |-> Zero, new |-> Zero, nonce |-> None]
Retain(p, latest) == [push |-> p, prev |-> latest, validated |-> FALSE, ran |-> 0, diag |-> 0]
NoRec  == Retain(0, 0)
NoRun  == [status |-> "none", submitted |-> None, head |-> None, pushed |-> None, nonce |-> None, by |-> 0]
Begin(place, i, head, nonce) == [at |-> place, rec |-> i, new |-> head, nonce |-> nonce, run |-> 0, preds |-> {}]
Idle   == Begin("idle", 0, None, None)

Init ==
    /\ tip \in Heads \cup {Zero} /\ push = [p \in Pushes |-> NoPush]
    /\ rec = [i \in Records |-> NoRec] /\ run = [r \in Runs |-> NoRun]
    /\ job = Idle /\ asked = None /\ up = TRUE /\ bad = FALSE
    /\ count = [push |-> 0, rec |-> 0, run |-> 0, trouble |-> 0]

----------------------------------------------------------------------------
Made    == 1..count.run
Active  == {r \in Made : run[r].status = "active"}
Pending == {r \in Made : run[r].status = "pending"}
NewOf(i)   == push[rec[i].push].new
OldOf(i)   == push[rec[i].push].old
NonceOf(i) == push[rec[i].push].nonce

Counted(what) == count' = [count EXCEPT ![what] = @ + 1]
Trouble == count.trouble < MaxTroubles /\ Counted("trouble")
At(place) == up /\ job.at = place
Goto(place) == job' = [job EXCEPT !.at = place]
Unlock == job' = Idle

\* The newest run of the branch, left out a record's own diagnostic row.
DiagnosticCounts(i) == count.run                    \* mutant of LatestFor
LatestFor(i) ==
    LET others == {r \in Made : r # rec[i].diag \/ r = rec[i].prev}
    IN  IF others = {} THEN 0 ELSE CHOOSE r \in others : \A o \in others : o <= r

\* validateNotification: the ref is still at the pushed commit, and the record is
\* admitted or no run came after it was retained.
HeadOnly(i) == tip = NewOf(i)                       \* mutant of Current
Current(i) == tip = NewOf(i) /\ (rec[i].ran # 0 \/ LatestFor(i) = rec[i].prev)

\* GetRunByLaunchNonce.
WithNonce(n) == {r \in Made : n # None /\ run[r].nonce = n}

----------------------------------------------------------------------------
\* Git accepts an update, or the deletion, of the branch; it reports none that leaves
\* the ref where it was.
Push(h, n) ==
    /\ count.push < MaxPushes /\ h # tip /\ (h = Zero => n = None)
    /\ push' = [push EXCEPT ![count.push + 1] = [old |-> tip, new |-> h, nonce |-> n]]
    /\ tip' = h /\ Counted("push")
    /\ UNCHANGED <<asked, rec, run, job, host>>

NoDeletion(p) == FALSE                              \* mutant of Deletion
Deletion(p) == p.new = Zero

\* HandlePushReceived, to the file that retainPush leaves; a deletion starts nothing.
Receive(p) ==
    /\ At("idle") /\ p <= count.push /\ ~Deletion(push[p])
    /\ count.rec < MaxRecords /\ count.run < MaxRuns
    /\ Cardinality({i \in 1..count.rec : rec[i].push = p}) < MaxTwice
    /\ rec' = [rec EXCEPT ![count.rec + 1] = Retain(p, count.run)]
    /\ job' = Begin("retained", count.rec + 1, push[p].new, push[p].nonce)
    /\ Counted("rec")
    /\ UNCHANGED <<asked, gate, run, host>>

\* ReplayPushNotification, to the lock and the first validation under it.
Replay(i) ==
    /\ At("idle") /\ i <= count.rec /\ count.run < MaxRuns /\ Current(i)
    /\ job' = Begin("retained", i, NewOf(i), NonceOf(i))
    /\ UNCHANGED <<asked, gate, rec, run, host, count>>

\* HandleRerun resolves the head before it has the lock: the gate's, or that of a
\* finished run that did not publish it.
RerunHeads ==
    LET last == run[count.run]
    IN  {tip} \cup IF last.status \in {"over", "superseded"} /\ last.head # last.pushed
                      /\ (last.pushed = None => last.head # last.submitted)
                   THEN {last.head} ELSE {}

AskRerun ==
    /\ up /\ asked = None /\ tip # Zero /\ count.run \in 1..(MaxRuns - 1)
    /\ asked' \in RerunHeads
    /\ UNCHANGED <<gate, rec, run, job, host, count>>

Rerun ==
    /\ At("idle") /\ asked # None /\ count.run < MaxRuns
    /\ job' = Begin("fresh", 0, asked, None)
    /\ asked' = None
    /\ UNCHANGED <<gate, rec, run, host, count>>

\* A fresh launch at the ref, with a nonce of its own, has no notification either.
StartFresh(n) ==
    /\ At("idle") /\ count.run < MaxRuns /\ tip # Zero /\ WithNonce(n) = {}
    /\ job' = Begin("fresh", 0, tip, n)
    /\ UNCHANGED <<asked, gate, rec, run, host, count>>

\* admitRetainedPushLocked: an admitted record is answered with its run.
Answer ==
    /\ At("retained") /\ rec[job.rec].ran # 0
    /\ Unlock
    /\ UNCHANGED <<asked, gate, rec, run, host, count>>

Unanswered == At("retained") /\ rec[job.rec].ran = 0

\* startFreshLaunchLocked: the nonce has its run already.  One that is over may have
\* completed, or failed, which runAdmissionError refuses to answer with (Refuse).
BindNonce ==
    /\ Unanswered /\ Current(job.rec)
    /\ \E r \in WithNonce(job.nonce) :
        /\ run[r].submitted = job.new
        /\ rec' = [rec EXCEPT ![job.rec].validated = TRUE, ![job.rec].ran = r]
    /\ Unlock
    /\ UNCHANGED <<asked, gate, run, host, count>>

\* validateAndMarkNotification, and its refusals.
Validate ==
    /\ Unanswered /\ Current(job.rec) /\ WithNonce(job.nonce) = {}
    /\ rec' = [rec EXCEPT ![job.rec].validated = TRUE]
    /\ Goto("checked")
    /\ UNCHANGED <<asked, gate, run, host, count>>

Refuse ==
    /\ Unanswered
    /\ Current(job.rec) => \E r \in WithNonce(job.nonce) : run[r].submitted # job.new \/ run[r].status = "over"
    /\ Unlock
    /\ UNCHANGED <<asked, gate, rec, run, host, count>>

\* hasValidatedReturnTransition: validated records of the same predecessor lead from
\* the pushed commit to the one that the ref came from, which is in all that they reach.
Left(i) ==
    LET Steps == {j \in 1..count.rec : j # i /\ rec[j].validated /\ rec[j].prev = rec[i].prev}
        Reached(S) == NewOf(i) \in S /\ \A j \in Steps : OldOf(j) \in S => NewOf(j) \in S
    IN  \A S \in SUBSET (Heads \cup {Zero}) : Reached(S) => OldOf(i) \in S

\* reattachReceivedRun: the previous run was started for the commit pushed now, and
\* the ref did not come back to it from anywhere else.
NeverReattaches(i) == FALSE                         \* mutant of Reattaches
Reattaches(i) ==
    LET prev == run[rec[i].prev]
    IN  /\ rec[i].prev # 0 /\ NonceOf(i) = None /\ OldOf(i) # Zero
        /\ prev.submitted = NewOf(i) /\ OldOf(i) \notin {prev.head, prev.pushed}
        /\ ~Left(i)

\* The other deliveries of the same push that name the previous run.
Alike(i) == {j \in 1..count.rec : /\ j # i /\ rec[i].prev \in {rec[j].ran, rec[j].diag}
                                  /\ push[rec[j].push] = push[rec[i].push]}

Attach ==
    /\ At("checked") /\ Reattaches(job.rec)
    /\ \E j \in Alike(job.rec) : rec[j].ran # 0
    /\ rec' = [rec EXCEPT ![job.rec].ran = rec[job.rec].prev]
    /\ Unlock
    /\ UNCHANGED <<asked, gate, run, host, count>>

ShareDiagnostic ==
    /\ At("checked") /\ Reattaches(job.rec) /\ rec[job.rec].diag \in {0, rec[job.rec].prev}
    /\ \E j \in Alike(job.rec) : rec[j].ran = 0
    /\ rec' = [rec EXCEPT ![job.rec].diag = rec[job.rec].prev]
    /\ Goto("fresh")
    /\ UNCHANGED <<asked, gate, run, host, count>>

Superfluous ==
    /\ At("checked") /\ Reattaches(job.rec)
    /\ \A j \in Alike(job.rec) : rec[j].ran = 0 /\ rec[job.rec].diag \notin {0, rec[job.rec].prev}
    /\ Unlock
    /\ UNCHANGED <<asked, gate, rec, run, host, count>>

Proceed ==
    /\ At("checked") /\ ~Reattaches(job.rec)
    /\ Goto("fresh")
    /\ UNCHANGED <<asked, gate, rec, run, host, count>>

\* InsertRunWithAllOptions: one transaction inserts the row and binds the record.
BoundLater(field) == rec                            \* mutant of Binding
Binding(field) ==
    IF job.rec = 0 THEN rec ELSE [rec EXCEPT ![job.rec][field] = count.run + 1]
InsertRun(status, field) ==
    /\ run' = [run EXCEPT ![count.run + 1] =
                  [status |-> status, submitted |-> job.new, head |-> job.new, pushed |-> None,
                   nonce |-> job.nonce, by |-> job.rec]]
    /\ rec' = Binding(field) /\ Counted("run")
    /\ UNCHANGED <<asked, gate, host>>

\* The config does not load: nothing is admitted; a failed row tells why where no
\* active run and no earlier diagnostic does.
Diagnose ==
    /\ At("fresh") /\ bad
    /\ Active \cup Pending = {} /\ job.nonce = None /\ (job.rec # 0 => rec[job.rec].diag = 0)
    /\ InsertRun("over", "diag") /\ Unlock

NoConfig ==
    /\ At("fresh") /\ bad
    /\ Active \cup Pending # {} \/ job.nonce # None \/ (job.rec # 0 /\ rec[job.rec].diag # 0)
    /\ Unlock
    /\ UNCHANGED <<asked, gate, rec, run, host, count>>

Insert ==
    /\ At("fresh") /\ ~bad
    /\ InsertRun("pending", "ran")
    /\ job' = [job EXCEPT !.at = "made", !.run = count.run + 1, !.preds = Active]

InsertFails ==
    /\ At("fresh") /\ Trouble /\ Unlock
    /\ UNCHANGED <<asked, gate, rec, run, host>>

\* cancelRunIDs: the snapshot names candidates; one may have ended meanwhile.
Supersede(r) ==
    /\ At("made") /\ r \in job.preds
    /\ job' = [job EXCEPT !.preds = @ \ {r}]
    /\ run' = IF run[r].status = "active" THEN [run EXCEPT ![r].status = "superseded"] ELSE run
    /\ UNCHANGED <<asked, gate, rec, host, count>>

Ended(r) == [run EXCEPT ![r].status = "over"]

\* admitRun queues or starts it.  A predecessor that can not be cancelled, or a queue
\* that can not be written, settles the new run through failUnadmittedRunSetup.
Admit ==
    /\ At("made") /\ job.preds = {}
    /\ run' = [run EXCEPT ![job.run].status = "active"] /\ Unlock
    /\ UNCHANGED <<asked, gate, rec, host, count>>

AdmissionFails ==
    /\ At("made") /\ Trouble /\ run' = Ended(job.run) /\ Unlock
    /\ UNCHANGED <<asked, gate, rec, host>>

----------------------------------------------------------------------------
\* What the run of the branch does meanwhile: a pipeline commit, its publication with
\* the mirrored gate ref, its end.
Known(h) == \/ h = tip
            \/ \E r \in Made : h \in {run[r].submitted, run[r].head, run[r].pushed}
            \/ \E p \in 1..count.push : h \in {push[p].old, push[p].new}
Commit(r, h) ==
    /\ up /\ r \in Active /\ ~Known(h)
    /\ run' = [run EXCEPT ![r].head = h]
    /\ UNCHANGED <<asked, gate, rec, job, host, count>>

Publish(r) ==
    /\ up /\ r \in Active /\ run[r].pushed # run[r].head
    /\ run' = [run EXCEPT ![r].pushed = run[r].head]
    /\ tip' \in {tip} \cup IF tip \in {run[r].submitted, run[r].pushed} THEN {run[r].head} ELSE {}
    /\ UNCHANGED <<asked, push, rec, job, host, count>>

Finish(r) ==
    /\ up /\ r \in Active
    /\ run' = Ended(r)
    /\ UNCHANGED <<asked, gate, rec, job, host, count>>

\* The daemon dies and starts again: the rows between insertion and admission fail, and
\* so do the runs that can not be recovered.
Crash ==
    /\ up /\ Trouble /\ up' = FALSE /\ Unlock /\ asked' = None
    /\ UNCHANGED <<gate, rec, run, bad>>

Start ==
    /\ ~up /\ up' = TRUE
    /\ \E lost \in SUBSET Active :
        run' = [r \in Runs |-> IF r \in lost \cup Pending THEN [run[r] EXCEPT !.status = "over"] ELSE run[r]]
    /\ UNCHANGED <<asked, gate, rec, job, bad, count>>

Break  == ~bad /\ Trouble /\ bad' = TRUE /\ UNCHANGED <<asked, gate, rec, run, job, up>>
Repair == bad /\ bad' = FALSE /\ UNCHANGED <<asked, gate, rec, run, job, up, count>>

Launches == Answer \/ BindNonce \/ Validate \/ Refuse
            \/ Attach \/ ShareDiagnostic \/ Superfluous \/ Proceed
            \/ Diagnose \/ NoConfig \/ Insert \/ (\E r \in Runs : Supersede(r)) \/ Admit

Next ==
    \/ \E h \in Heads \cup {Zero}, n \in Nonces \cup {None} : Push(h, n)
    \/ \E p \in Pushes : Receive(p)
    \/ \E i \in Records : Replay(i)
    \/ AskRerun \/ Rerun \/ \E n \in Nonces : StartFresh(n)
    \/ Launches \/ InsertFails \/ AdmissionFails
    \/ \E r \in Runs : Publish(r) \/ Finish(r) \/ \E h \in Heads : Commit(r, h)
    \/ Crash \/ Start \/ Break \/ Repair

Spec == Init /\ [][Next]_vars

\* A launch goes on, a dead daemon is started, a config is repaired, and the operator
\* replays what is pending until it is answered.
FairSpec ==
    /\ Spec /\ WF_vars(Launches) /\ WF_vars(Start) /\ WF_vars(Repair)
    /\ \A i \in Records : SF_vars(Replay(i))

----------------------------------------------------------------------------
Commits  == Heads \cup {None}
NoNonce  == Nonces \cup {None}
Statuses == {"none", "pending", "active", "superseded", "over"}

Updates       == [old : Heads \cup {Zero}, new : Heads \cup {Zero}, nonce : NoNonce]
Notifications == [push : 0..count.push, prev : 0..count.run, validated : BOOLEAN,
                  ran : 0..count.run, diag : 0..count.run]
Rows          == [status : Statuses, submitted : Commits, head : Commits, pushed : Commits,
                  nonce : NoNonce, by : 0..count.rec]
Launch        == [at : {"idle", "retained", "checked", "fresh", "made"}, rec : 0..count.rec, new : Commits,
                  nonce : NoNonce, run : 0..count.run, preds : SUBSET Made]
Counts        == [push : 0..MaxPushes, rec : 0..MaxRecords, run : 0..MaxRuns, trouble : 0..MaxTroubles]

\* The state has its type; the counts name the pushes, records and runs in use.
TypeOK ==
    /\ tip \in Heads \cup {Zero} /\ asked \in Commits /\ up \in BOOLEAN /\ bad \in BOOLEAN
    /\ count \in Counts /\ push \in [Pushes -> Updates] /\ rec \in [Records -> Notifications]
    /\ run \in [Runs -> Rows] /\ job \in Launch

\* A run that a notification started is the one run that the notification names, as
\* admitted or as its diagnostic, through crashes, replays and repeated deliveries: no
\* notification starts two (InsertRunWithAllOptions and PushNotificationRuns).
StartedByOne ==
    \A r \in Made : run[r].by # 0 => r \in {rec[run[r].by].ran, rec[run[r].by].diag}

\* Repeated and late deliveries do not start a push's validation again: after the run of
\* a push that moved the branch, the next run for the same update comes only when the
\* branch has been elsewhere, by a run of another commit, a validated push away from
\* this one or a launch that no push made (reattachReceivedRun).  And a nonce has one
\* run: its launches, pushed and fresh, are one (startFreshLaunchLocked).
UpdateOf(r) == push[rec[run[r].by].push]
Away(r, last, h) ==
    \E q \in r..last :
        \/ run[q].by = 0 \/ run[q].submitted # h
        \/ \E j \in 1..count.rec : rec[j].validated /\ rec[j].prev = q /\ OldOf(j) = h
Started(r)    == run[r].by # 0 /\ r = rec[run[r].by].ran
Repeats(r, u) == Started(r) /\ UpdateOf(r) = u /\ u.old # Zero
NonceHasOneRun == \A r, o \in Made : run[r].nonce # None /\ run[r].nonce = run[o].nonce => r = o
NoneRepeated ==
    \A r, o \in Made : r < o /\ run[o].by # 0 /\ Repeats(r, UpdateOf(o)) => Away(r, o - 1, run[o].submitted)
ValidatedOnce == NonceHasOneRun /\ NoneRepeated

\* A notification cancels no work that is newer than itself: what its run supersedes
\* was there when it was retained (validateNotification before the insert).
NewerWorkKept ==
    [][\A r \in Made : run[r].status = "active" /\ run'[r].status = "superseded" /\ job.rec # 0
                       => r <= rec[job.rec].prev]_vars

\* A retained push is admitted once the trouble is over, unless the branch has moved on:
\* its ref, or with a run other than the push's own diagnostic; or unless its commit was
\* the previous run's or its nonce has a run (ReplayPushNotification).
MovedOn(i) == \/ tip # NewOf(i) \/ \E r \in Made : r > rec[i].prev /\ r # rec[i].diag
              \/ rec[i].prev # 0 /\ run[rec[i].prev].submitted = NewOf(i)
              \/ WithNonce(NonceOf(i)) # {}
PushServed ==
    \A i \in Records :
        i <= count.rec ~> i <= count.rec /\ (rec[i].ran # 0 \/ MovedOn(i) \/ count.run = MaxRuns)
=============================================================================
