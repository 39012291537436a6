------------------------- MODULE StatusSettlement -------------------------
(* How a run's outcome and the commit status that speaks for it are settled   *)
(* when runs end, are cancelled, and the daemon stops.  One lock, held across *)
(* a terminal decision or a POST, orders them; two queues beside it hold the  *)
(* writes the store refused and the record of a raw shutdown, and whoever     *)
(* holds the lock drains them.  pipeline/commit_status.go, FailRun and        *)
(* completeRun of executor.go, the reporter of steps/commit_status.go, the    *)
(* transactions of db/status_validation.go, and both shutdowns of the daemon. *)
EXTENDS Naturals, Sequences, FiniteSets

CONSTANTS Runs, None, Shut, Loop,   \* Shut records a raw shutdown, Loop retries
          Phases,        \* what each run may be doing when the story starts
  Cancels,       \* how users and pushes may cancel it
          Unvalidated,   \* runs whose push left the validation to the checks of the forge
  Refused,       \* whose write the store refuses for good: runs, or Shut
          Faults, MaxFaults  \* which faults may happen, and how many in all

ASSUME Shape == /\ Refused \subseteq Runs \cup {Shut} /\ Unvalidated \subseteq Runs
                /\ \A r \in Runs : Phases[r] \subseteq {"working", "watching", "parked"}
                /\ \A r \in Runs : Cancels[r] \subseteq {"abort", "superseded"}
                /\ Faults \subseteq {"refusal", "post", "timeout", "start"} /\ MaxFaults \in Nat
                /\ Shut # Loop /\ {Shut, Loop} \cap Runs = {} /\ None \notin Runs \cup {Shut, Loop}

Threads  == Runs \cup {Shut, Loop}
Outcomes == {"completed", "failed", "cancelled", "interrupted"}

VARIABLES
  row, record, pub, proof,   \* the database: runs, controlled_shutdown_runs, the
                             \* publication, the step proofs of the present epoch
  host,                      \* the status the forge shows for the published head
  phase, cause,              \* what the run is doing; why its context is cancelled
  shutdown, plan, bound, snap, sent, \* shutdownState and the two shutdowns' snapshots
  lock, drain, rawq, queue,  \* CommitStatusLock, its holder's drain, the two queues
  pc, job,
  faults

db      == <<row, record, pub, proof>>
daemon  == <<shutdown, plan, bound, snap, sent>>
locking == <<lock, drain, rawq, queue>>
vars    == <<db, host, phase, cause, daemon, locking, pc, job, faults>>

Terminal(r) == row[r] \in Outcomes
Owned       == {r \in Runs : pc[r] \notin {"gone", "left"}}

PreserveCleared(p) == [p EXCEPT !.preserve = FALSE]
\* A publication without its strict certificate and the preservation it carries.
Revoked(p) == [p EXCEPT !.cert = FALSE, !.preserve = FALSE]
Preserved(p) == p.preserve /\ p.cert /\ p.last = "success"

Off     == [at |-> "off", tried |-> {}]
NoJob   == [kind |-> "none", err |-> "own", status |-> "failed", explicit |-> FALSE,
            controlled |-> FALSE, reports |-> 0, state |-> "pending", cert |-> FALSE]

Told    == [NoJob EXCEPT !.reports = 2]   \* FailRun reports, and the run's goroutine again

Fault(f)      == f \in Faults /\ faults < MaxFaults /\ faults' = faults + 1
NoFault       == UNCHANGED faults
\* A write of t's: the store takes it, or refuses it, now and then or for good.
Taken(t)   == t \notin Refused /\ NoFault
Refuses(t) == IF t \in Refused THEN NoFault ELSE Fault("refusal")

Init ==
    /\ row = [r \in Runs |-> "running"] /\ record = [r \in Runs |-> "none"]
    /\ pub = [r \in Runs |-> [validated |-> r \notin Unvalidated, last |-> "pending", cert |-> FALSE, preserve |-> FALSE]]
    /\ proof = [r \in Runs |-> TRUE] /\ host = [r \in Runs |-> "pending"]
    /\ phase \in {f \in [Runs -> {"working", "watching", "parked"}] : \A r \in Runs : f[r] \in Phases[r]} /\ cause = [r \in Runs |-> "none"]
    /\ shutdown = "idle" /\ plan = "idle" /\ bound = {} /\ snap = {} /\ sent = FALSE
    /\ lock = None /\ drain = Off /\ rawq = FALSE /\ queue = <<>>
    /\ pc = [t \in Threads |-> IF t \in Runs THEN "run" ELSE "off"]
    /\ job = [r \in Runs |-> NoJob]
    /\ faults = 0

-----------------------------------------------------------------------------
(* The lock.  A thread that wants it drains the queues before it works under  *)
(* it and again before it lets go.                                            *)
Wants(t)   == pc[t] \in {"complete", "fail", "report", "lock"}
Free(t)    == lock # t
Holds(t)   == lock = t /\ drain.at = "off"
Draining   == lock # None /\ drain.at # "off"
Releases   == drain' = [at |-> "release", tried |-> {}] /\ UNCHANGED <<lock, rawq>>

\* The context of a run's own report ends with the run's cancellation.
Expired(t) == t \in Runs /\ pc[t] = "report" /\ ~Terminal(t) /\ cause[t] # "none"

\* Where the reporter goes when it is done, and where a thread goes that is
\* refused the lock: a completion becomes a failure, a failure is settled later.
AfterReport(r) == IF ~Terminal(r) THEN "run"
                  ELSE IF job[r].reports > 1 THEN "report" ELSE "depart"
Unlocked(t) == CASE pc[t] = "complete" -> "fail"
                 [] pc[t] = "fail"     -> "settle"
                 [] pc[t] = "report"   -> AfterReport(t)
                 [] t = Shut           -> "end"
                 [] t = Loop           -> "check"
OwnFailure(r) == [job[r] EXCEPT !.kind = "fail", !.err = "own", !.status = "failed",
                                !.explicit = FALSE, !.controlled = FALSE]
AlwaysOneLess(r) == [NoJob EXCEPT !.reports = job[r].reports - 1]
OneLess(r) == [NoJob EXCEPT !.reports = IF job[r].reports > 0 THEN job[r].reports - 1 ELSE 0]
GivesUp(t, p) ==
    /\ pc' = [p EXCEPT ![t] = Unlocked(t)]
    /\ job' = CASE pc[t] = "complete" -> [job EXCEPT ![t] = OwnFailure(t)]
                [] pc[t] = "report"   -> [job EXCEPT ![t] = OneLess(t)]
                [] OTHER              -> job

\* With nothing queued the drain of a fresh holder is over as it begins.
Acquire(t) ==
    /\ Wants(t) /\ lock = None /\ lock' = t
    /\ drain' = IF rawq \/ queue # <<>> \/ Expired(t) THEN [at |-> "acquire", tried |-> {}] ELSE Off
    /\ UNCHANGED <<db, host, phase, cause, daemon, rawq, queue, pc, job, faults>>

\* Fifteen seconds behind the lock, or the context of a report is cancelled.
TimesOut(t) ==
    /\ Wants(t) /\ Free(t)
    /\ \/ lock # None /\ Fault("timeout")
       \/ Expired(t) /\ NoFault
    /\ GivesUp(t, pc)
    /\ UNCHANGED <<db, host, phase, cause, daemon, locking>>

LoopStarted(p) == [p EXCEPT ![Loop] = IF @ = "off" THEN "lock" ELSE @]

\* The raw settlement is first.  Its write cancels the runs, once, and then
\* records the shutdown for those that have no outcome yet.
CancelRuns ==
    /\ Draining /\ rawq /\ ~sent /\ sent' = TRUE
    /\ cause' = [r \in Runs |-> IF r \in snap /\ cause[r] = "none" THEN "raw" ELSE cause[r]]
    /\ UNCHANGED <<db, host, phase, shutdown, plan, bound, snap, locking, pc, job, faults>>

Superseded == {r \in snap : ~Terminal(r)}
SupersedeUncommittedCancellations ==
    /\ Draining /\ rawq /\ sent /\ Taken(Shut)
    /\ record' = [r \in Runs |-> IF r \in Superseded THEN "raw" ELSE record[r]]
    /\ pub' = [r \in Runs |-> IF r \in Superseded THEN Revoked(pub[r]) ELSE pub[r]]
    /\ proof' = [r \in Runs |-> proof[r] /\ r \notin Superseded]
    /\ rawq' = FALSE
    /\ UNCHANGED <<row, host, phase, cause, daemon, lock, drain, queue, pc, job>>

\* A refused raw write ends the drain before any terminal write is tried, and
\* with it the attempt to take the lock.
RawRefused ==
    /\ Draining /\ rawq /\ sent /\ Refuses(Shut)
    /\ lock' = None /\ drain' = Off
    /\ IF drain.at = "acquire" THEN GivesUp(lock, LoopStarted(pc))
                               ELSE pc' = LoopStarted(pc) /\ UNCHANGED job
    /\ UNCHANGED <<db, host, phase, cause, daemon, rawq, queue>>

-----------------------------------------------------------------------------
(* The durable outcomes.                                                      *)
RecordIneligibleTerminal(r, status) ==
    IF row[r] = "cancelled" /\ Preserved(pub[r]) THEN UNCHANGED <<row, pub>>
    ELSE row' = [row EXCEPT ![r] = status] /\ pub' = [pub EXCEPT ![r] = Revoked(@)]

\* The proof is read again in the transaction, and the planned record with it.
Certified(r) == proof[r] /\ record[r] # "raw" /\ (job[r].controlled => record[r] = "planned")
TerminalizeCertifiedWatcher(r, status) ==
    IF Terminal(r) THEN UNCHANGED <<row, pub>>
    ELSE /\ row' = [row EXCEPT ![r] = status]
         /\ pub' = [pub EXCEPT ![r] =
              IF ~Certified(r) THEN Revoked(@)
              ELSE IF @.cert /\ @.last = "success" THEN [@ EXCEPT !.preserve = TRUE] ELSE @]

\* A raw shutdown takes over the outcome of what it may have cancelled.
TakenOver(r) == record[r] = "raw" /\ job[r].err = "cancel"
Explicit(r)  == job[r].explicit /\ ~TakenOver(r) /\ phase[r] = "watching"
Status(r)    == IF TakenOver(r) THEN "failed" ELSE job[r].status

\* FailRun's write; an inspection that cannot prove the watcher's worktree
\* unchanged makes the outcome an ordinary one.
TerminalWrite(r) ==
    \/ Explicit(r) /\ TerminalizeCertifiedWatcher(r, Status(r))
    \/ RecordIneligibleTerminal(r, Status(r))

\* A refused write is tried again with what it had decided.
Retries(r) ==
    \E explicit \in {FALSE, Explicit(r)} :
        job' = [job EXCEPT ![r].status = Status(r), ![r].explicit = explicit]

ReleaseShutdownForRecovery(r) ==
    /\ record' = [record EXCEPT ![r] = IF Terminal(r) THEN @ ELSE "none"]
    /\ pub' = [pub EXCEPT ![r] = IF Terminal(r) THEN @ ELSE Revoked(@)]
    /\ proof' = [proof EXCEPT ![r] = Terminal(r) /\ @]
    /\ UNCHANGED row

-----------------------------------------------------------------------------
(* The terminal queue, behind the raw one: a drain tries each write once, and *)
(* one that is refused goes to the back.                                      *)
Tried == queue # <<>> /\ Head(queue) \in drain.tried
Due == Draining /\ ~rawq /\ queue # <<>> /\ ~Tried

DrainWrites ==
    LET r == Head(queue) IN
    /\ Due /\ Taken(r)
    /\ IF job[r].kind = "leave" THEN ReleaseShutdownForRecovery(r)
                                ELSE TerminalWrite(r) /\ UNCHANGED <<record, proof>>
    /\ queue' = Tail(queue)
    /\ pc' = [pc EXCEPT ![r] = IF job[r].kind = "leave" THEN "depart" ELSE "report"]
    /\ job' = IF job[r].kind = "leave" THEN job ELSE [job EXCEPT ![r] = Told]
    /\ UNCHANGED <<host, phase, cause, daemon, lock, drain, rawq>>

KeepsItsTurn ==
    LET r == Head(queue) IN
    /\ Due /\ Refuses(r)
    /\ drain' = [drain EXCEPT !.tried = @ \cup {r}]
    /\ pc' = LoopStarted(pc)
    /\ UNCHANGED <<db, host, phase, cause, daemon, lock, rawq, queue, job>>

DrainRefused ==
    LET r == Head(queue) IN
    /\ Due /\ Refuses(r)
    /\ queue' = Append(Tail(queue), r)
    /\ drain' = [drain EXCEPT !.tried = @ \cup {r}]
    /\ IF job[r].kind = "leave" THEN UNCHANGED job ELSE Retries(r)
    /\ pc' = LoopStarted(pc)
    /\ UNCHANGED <<db, host, phase, cause, daemon, lock, rawq>>

Drained == Draining /\ ~rawq /\ (queue = <<>> \/ Tried)
\* The holder goes to its work, or lets go of a lock it took too late, ...
Acquired ==
    /\ Drained /\ drain.at = "acquire" /\ NoFault
    /\ IF Expired(lock) THEN Releases /\ GivesUp(lock, pc)
                        ELSE drain' = Off /\ UNCHANGED <<lock, rawq, pc, job>>
    /\ UNCHANGED <<db, host, phase, cause, daemon, queue>>
\* ... or has done its work, and unlocks.
Unlock ==
    /\ Drained /\ drain.at = "release"
    /\ lock' = None /\ drain' = Off
    /\ UNCHANGED <<db, host, phase, cause, daemon, rawq, queue, pc, job, faults>>

SettleTerminalWrite(r) ==
    /\ pc[r] = "settle" /\ Free(r)
    /\ queue' = Append(queue, r)
    /\ IF lock = None THEN lock' = r /\ drain' = [at |-> "release", tried |-> {}]
                      ELSE UNCHANGED <<lock, drain>>
    /\ pc' = [LoopStarted(pc) EXCEPT ![r] = "await"]
    /\ UNCHANGED <<db, host, phase, cause, daemon, rawq, job, faults>>

\* The recovery loop takes the lock every second until both queues are empty.
LoopTicks ==
    \/ /\ pc[Loop] = "lock" /\ Holds(Loop) /\ Releases
       /\ pc' = [pc EXCEPT ![Loop] = "check"]
       /\ UNCHANGED <<db, host, phase, cause, daemon, queue, job, faults>>
    \/ /\ pc[Loop] = "check" /\ Free(Loop)
       /\ pc' = [pc EXCEPT ![Loop] = IF ~rawq /\ queue = <<>> THEN "off" ELSE "lock"]
       /\ UNCHANGED <<db, host, phase, cause, daemon, locking, job, faults>>

-----------------------------------------------------------------------------
(* A run.                                                                     *)
Goes(r, p) == pc' = [pc EXCEPT ![r] = p]
Works(r)   == pc[r] = "run" /\ Free(r)

\* The user cancels a run, or a newer push supersedes it.
Cancelled(r) ==
    /\ pc[r] \in {"run", "report", "post", "put", "complete"} /\ ~Terminal(r) /\ cause[r] = "none"
    /\ \E c \in Cancels[r] : cause' = [cause EXCEPT ![r] = c]
    /\ UNCHANGED <<db, host, phase, daemon, locking, pc, job, faults>>

\* The gate is answered; a repair of a watched head begins with its proof gone.
Answered(r) ==
    /\ Works(r) /\ phase[r] = "parked" /\ phase' = [phase EXCEPT ![r] = "watching"]
    /\ UNCHANGED <<db, host, cause, daemon, locking, pc, job, faults>>
InvalidateStatusValidation(r) ==
    /\ Works(r) /\ phase[r] = "watching" /\ proof[r]
    /\ proof' = [proof EXCEPT ![r] = FALSE] /\ pub' = [pub EXCEPT ![r] = Revoked(@)]
    /\ UNCHANGED <<row, record, host, phase, cause, daemon, locking, pc, job, faults>>

\* The checks of the published head have passed.
PublishedHeadValidated(r) ==
    /\ Works(r) /\ phase[r] = "watching" /\ cause[r] = "none" /\ Goes(r, "report")
    /\ UNCHANGED <<db, host, phase, cause, daemon, locking, job, faults>>

Completes(r) ==
    /\ Works(r) /\ phase[r] # "parked" /\ cause[r] = "none" /\ Goes(r, "complete")
    /\ UNCHANGED <<db, host, phase, cause, daemon, locking, job, faults>>

CompletesAnyway(r) ==
    /\ pc[r] = "complete" /\ Holds(r) /\ Releases /\ Taken(r)
    /\ row' = [row EXCEPT ![r] = "completed"] /\ Goes(r, "report")
    /\ job' = [job EXCEPT ![r] = [NoJob EXCEPT !.reports = 1]]
    /\ UNCHANGED <<record, pub, proof, host, phase, cause, daemon, queue>>

\* completeRun under the lock; one that fails there is a failure of the run.
CompleteRun(r) ==
    /\ pc[r] = "complete" /\ Holds(r) /\ Releases
    /\ \/ /\ Taken(r)
          /\ IF record[r] = "raw" THEN RecordIneligibleTerminal(r, "failed")
             ELSE row' = [row EXCEPT ![r] = "completed"] /\ UNCHANGED pub
          /\ Goes(r, "report")
          /\ job' = [job EXCEPT ![r] = IF record[r] = "raw" THEN Told ELSE [NoJob EXCEPT !.reports = 1]]
       \/ Refuses(r) /\ Goes(r, "fail") /\ job' = [job EXCEPT ![r] = OwnFailure(r)] /\ UNCHANGED <<row, pub>>
    /\ UNCHANGED <<record, proof, host, phase, cause, daemon, queue>>

\* The run fails by itself, whatever has cancelled it meanwhile.
Fails(r) ==
    /\ Works(r) /\ phase[r] # "parked" /\ Goes(r, "fail")
    /\ job' = [job EXCEPT ![r] = OwnFailure(r)]
    /\ UNCHANGED <<db, host, phase, cause, daemon, locking, faults>>

\* The run stops for its cancellation.  What FailRun reads before it takes the
\* lock: whose cancellation this is, and whether the planned record binds it.
Controlled(r) == cause[r] = "planned" /\ record[r] = "planned"
CertifiedWatcher(r) == Controlled(r) /\ pub[r].cert /\ pub[r].last = "success"
LeftForRecovery(r) ==
    /\ cause[r] \in {"planned", "raw"}
    /\ phase[r] = "parked" \/ (phase[r] = "watching" /\ ~CertifiedWatcher(r))
Stops(r) ==
    /\ Works(r) /\ cause[r] # "none"
    /\ IF LeftForRecovery(r)
       THEN Goes(r, "settle") /\ job' = [job EXCEPT ![r].kind = "leave"]
       ELSE /\ Goes(r, "fail")
            /\ job' = [job EXCEPT ![r] =
                 [@ EXCEPT !.kind = "fail", !.err = "cancel",
                           !.status = IF cause[r] \in {"abort", "superseded"} \/ Controlled(r)
                                      THEN "cancelled" ELSE "failed",
                           !.explicit = cause[r] = "abort" \/ Controlled(r),
                           !.controlled = Controlled(r)]]
    /\ UNCHANGED <<db, host, phase, cause, daemon, locking, faults>>

FailRun(r) ==
    /\ pc[r] = "fail" /\ Holds(r) /\ Releases
    /\ \/ Taken(r) /\ TerminalWrite(r) /\ Goes(r, "report") /\ job' = [job EXCEPT ![r] = Told]
       \/ Refuses(r) /\ Retries(r) /\ Goes(r, "settle") /\ UNCHANGED <<row, pub>>
    /\ UNCHANGED <<record, proof, host, phase, cause, daemon, queue>>

\* The outcome is durable, or the run is left for the next start.
Departs(r) ==
    /\ pc[r] = "depart" /\ Free(r)
    /\ Goes(r, IF job[r].kind = "leave" THEN "left" ELSE "gone")
    /\ job' = [job EXCEPT ![r] = NoJob]
    /\ UNCHANGED <<db, host, phase, cause, daemon, locking, faults>>

-----------------------------------------------------------------------------
(* The reporter: it reads the outcome again under the lock, takes the old     *)
(* certificate away, posts, and notes what it posted.  A run that still goes  *)
(* on reports the success of its checks, which validates the head.            *)
ReportedState(r) ==
    IF record[r] = "raw" \/ row[r] \in {"failed", "cancelled", "interrupted"}
       \/ (row[r] = "completed" /\ ~pub[r].validated)
    THEN "failure" ELSE "success"
NewCertificate(r) == ReportedState(r) = "success" /\ proof[r]
StateIsPosted(r) == ReportedState(r) = pub[r].last /\ (NewCertificate(r) => pub[r].cert)
NothingToReport(r) ==
    \/ row[r] = "cancelled" /\ Preserved(pub[r])
    \/ /\ ReportedState(r) = pub[r].last
       /\ NewCertificate(r) => pub[r].cert

ReportsBack(r) == Releases /\ Goes(r, AfterReport(r)) /\ job' = [job EXCEPT ![r] = OneLess(r)]

\* The success that a run still at work reports validates the head first.
Validates(r) == [pub[r] EXCEPT !.validated = @ \/ (~Terminal(r) /\ ReportedState(r) = "success")]

RevokeStatusCertificate(r) ==
    /\ pub' = [pub EXCEPT ![r] = Revoked(Validates(r))]
    /\ Goes(r, "post")
    /\ job' = [job EXCEPT ![r].state = ReportedState(r), ![r].cert = NewCertificate(r)]
    /\ UNCHANGED <<lock, drain, rawq>>

Reads(r) ==
    /\ pc[r] = "report" /\ Holds(r)
    /\ \/ NothingToReport(r) /\ ReportsBack(r) /\ NoFault /\ UNCHANGED pub
       \/ /\ ~NothingToReport(r) /\ Fault("refusal") /\ ReportsBack(r)
          /\ pub' \in {pub, [pub EXCEPT ![r] = Validates(r)]}
       \/ ~NothingToReport(r) /\ NoFault /\ RevokeStatusCertificate(r)
    /\ UNCHANGED <<row, record, proof, host, phase, cause, daemon, queue>>

\* The forge takes the status; or the answer is an error, and it may have.
PostFails(r) == IF ~Terminal(r) /\ cause[r] # "none" THEN NoFault ELSE Fault("post")
Posts(r) ==
    /\ pc[r] = "post"
    /\ \/ host' = [host EXCEPT ![r] = job[r].state] /\ Goes(r, "put") /\ NoFault
          /\ UNCHANGED <<lock, drain, rawq, job>>
       \/ host' \in {host, [host EXCEPT ![r] = job[r].state]} /\ PostFails(r) /\ ReportsBack(r)
    /\ UNCHANGED <<db, phase, cause, daemon, queue>>

PutCommitStatusPublication(r) ==
    /\ pc[r] = "put" /\ ReportsBack(r)
    /\ \/ NoFault /\ pub' = [pub EXCEPT ![r].last = job[r].state, ![r].cert = job[r].cert, ![r].preserve = FALSE]
       \/ Fault("refusal") /\ UNCHANGED pub
    /\ UNCHANGED <<row, record, proof, host, phase, cause, daemon, queue>>

-----------------------------------------------------------------------------
(* The daemon stops, as planned or at once, and starts again.                 *)
BindPlanned ==
    /\ plan = "idle" /\ shutdown = "idle"
    /\ shutdown' = "planned" /\ plan' = "bound" /\ bound' = Owned
    /\ UNCHANGED <<db, host, phase, cause, snap, sent, locking, pc, job, faults>>

\* Outside the lock; it does not replace the record of a raw shutdown.
PrepareControlledShutdown ==
    /\ plan = "bound"
    /\ \/ /\ \A r \in bound : record[r] # "raw"
          /\ record' = [r \in Runs |-> IF r \in bound THEN "planned" ELSE record[r]]
          /\ plan' = "recorded" /\ UNCHANGED shutdown /\ NoFault
       \/ /\ \/ NoFault /\ \E r \in bound : record[r] = "raw"
             \/ Fault("refusal")
          /\ shutdown' = (IF shutdown = "planned" THEN "idle" ELSE shutdown)
          /\ plan' = "idle" /\ UNCHANGED record
    /\ UNCHANGED <<row, pub, proof, host, phase, cause, bound, snap, sent, locking, pc, job>>

CancelPlanned ==
    /\ plan = "recorded" /\ plan' = "sent" /\ bound' = {}
    /\ cause' = [r \in Runs |-> IF shutdown # "raw" /\ r \in bound /\ cause[r] = "none"
                                THEN "planned" ELSE cause[r]]
    /\ UNCHANGED <<db, host, phase, shutdown, snap, sent, locking, pc, job, faults>>

\* A signal, or the planned shutdown once it has drained.
RecordRawShutdown ==
    /\ pc[Shut] = "off" /\ shutdown' = "raw" /\ snap' = Owned
    /\ IF Owned = {} THEN Goes(Shut, "end") /\ UNCHANGED rawq
                     ELSE Goes(Shut, "lock") /\ rawq' = TRUE
    /\ UNCHANGED <<db, host, phase, cause, plan, bound, sent, lock, drain, queue, job, faults>>
RawSettled ==
    /\ pc[Shut] = "lock" /\ Holds(Shut) /\ Releases /\ Goes(Shut, "end")
    /\ UNCHANGED <<db, host, phase, cause, daemon, queue, job, faults>>

\* The process ends, crashed or stopped.  The next start resumes a parked run,
\* or fails it if a shutdown that is not its own is still on record; every other
\* run is settled, and the statuses that do not show an outcome are reported.
Shown(r) == IF \/ row[r] = "completed" /\ pub[r].validated
               \/ row[r] = "cancelled" /\ pub[r].preserve /\ pub[r].cert
            THEN "success" ELSE "failure"
Listed(r) == Terminal(r) /\ pub[r].last # Shown(r)
Resumable == {r \in Runs : ~Terminal(r) /\ phase[r] = "parked" /\ record[r] = "none"}
RecoveredAs(r, resumed) ==
    IF Terminal(r) \/ r \in resumed THEN row[r]
    ELSE IF phase[r] = "watching" THEN "interrupted" ELSE "failed"

Restart ==
    /\ Fault("start")
    /\ \E resumed \in SUBSET Resumable :
         /\ row' = [r \in Runs |-> RecoveredAs(r, resumed)]
         /\ record' = [r \in Runs |-> IF ~Terminal(r) /\ phase[r] = "parked" THEN "none" ELSE record[r]]
         /\ pub' = [r \in Runs |-> IF Terminal(r) THEN pub[r] ELSE Revoked(pub[r])]
         /\ proof' = [r \in Runs |-> Terminal(r) /\ proof[r]]
         /\ pc' = [t \in Threads |-> IF t \notin Runs THEN "off"
                                     ELSE IF t \in resumed THEN "run"
                                     ELSE IF Terminal(t) /\ ~Listed(t) THEN "gone" ELSE "report"]
         /\ job' = [r \in Runs |-> [NoJob EXCEPT !.reports = 1]]
    /\ cause' = [r \in Runs |-> "none"]
    /\ shutdown' = "idle" /\ plan' = "idle" /\ bound' = {} /\ snap' = {} /\ sent' = FALSE
    /\ lock' = None /\ drain' = Off /\ rawq' = FALSE /\ queue' = <<>>
    /\ UNCHANGED <<host, phase>>

-----------------------------------------------------------------------------
Settles(r)   == SettleTerminalWrite(r) \/ CompleteRun(r) \/ FailRun(r) \/ Departs(r)
Reports(r)   == Reads(r) \/ Posts(r) \/ PutCommitStatusPublication(r)
Proceeds(r)  == Answered(r) \/ InvalidateStatusValidation(r) \/ PublishedHeadValidated(r)
                \/ Completes(r) \/ Fails(r)
Drains       == CancelRuns \/ SupersedeUncommittedCancellations \/ RawRefused \/ DrainWrites
                \/ DrainRefused \/ Acquired \/ Unlock
PlannedShutdown == BindPlanned \/ PrepareControlledShutdown \/ CancelPlanned
RawShutdown     == RecordRawShutdown \/ RawSettled

Next ==
    \/ \E t \in Threads : Acquire(t) \/ TimesOut(t)
    \/ Drains \/ LoopTicks
    \/ \E r \in Runs : Cancelled(r) \/ Proceeds(r) \/ Stops(r) \/ Settles(r) \/ Reports(r)
    \/ PlannedShutdown \/ RawShutdown \/ Restart

Spec == Init /\ [][Next]_vars

\* The recovery loop gets the lock again and again, whoever holds it goes on, and
\* its timer fires.  Nothing makes a run end, the daemon stop, or another thread
\* get the lock.
Fairness ==
    /\ SF_vars(Acquire(Loop)) /\ WF_vars(Drains) /\ WF_vars(LoopTicks)
    /\ \A r \in Runs : WF_vars(Settles(r) \/ Reports(r))
    /\ WF_vars(RawSettled)

FairSpec == Spec /\ Fairness

-----------------------------------------------------------------------------
Publications == [validated : BOOLEAN, last : {"pending", "success", "failure"},
                 cert : BOOLEAN, preserve : BOOLEAN]
Jobs == [kind : {"none", "fail", "leave"}, err : {"own", "cancel"}, status : {"failed", "cancelled"},
         explicit : BOOLEAN, controlled : BOOLEAN, reports : 0..2,
         state : {"pending", "success", "failure"}, cert : BOOLEAN]
Pcs  == {"off", "run", "complete", "fail", "settle", "await", "report", "post", "put",
         "depart", "left", "gone", "lock", "end", "check"}

StoreTyped  == /\ row \in [Runs -> Outcomes \cup {"running"}] /\ record \in [Runs -> {"none", "planned", "raw"}]
               /\ pub \in [Runs -> Publications] /\ proof \in [Runs -> BOOLEAN]
HostTyped   == host \in [Runs -> {"pending", "success", "failure"}]
RunsTyped   == /\ phase \in [Runs -> {"working", "watching", "parked"}]
               /\ cause \in [Runs -> {"none", "planned", "raw", "abort", "superseded"}]
DaemonTyped == /\ shutdown \in {"idle", "planned", "raw"} /\ plan \in {"idle", "bound", "recorded", "sent"}
               /\ bound \subseteq Runs /\ snap \subseteq Runs /\ sent \in BOOLEAN
LockTyped   == /\ lock \in Threads \cup {None} /\ rawq \in BOOLEAN
               /\ drain \in [at : {"off", "acquire", "release"}, tried : SUBSET Runs]
QueueTyped  == queue \in Seq(Runs)
PcTyped     == pc \in [Threads -> Pcs]
JobTyped    == job \in [Runs -> Jobs] /\ faults \in Nat
\* The database, the forge, the daemon's memory and the threads are well typed.
TypeOK == /\ StoreTyped /\ HostTyped /\ RunsTyped /\ DaemonTyped
          /\ LockTyped /\ QueueTyped /\ PcTyped /\ JobTyped

\* A certificate in the database is about a success the forge shows: it is taken
\* away before anything else is posted, whatever becomes of that POST.
ProofIsShown ==
    \A r \in Runs : /\ pub[r].cert => host[r] = "success" /\ pub[r].last = "success"
                    /\ pub[r].preserve => pub[r].cert

\* And a decided run whose status on the forge is not its outcome, and that no
\* reporter is posting, is one the next start will find and report.
UnshownIsListed ==
    \A r \in Runs : Terminal(r) /\ pc[r] \notin {"post", "put"} /\ host[r] # Shown(r) => Listed(r)
StatusTruthful == ProofIsShown /\ UnshownIsListed

\* A run that a raw shutdown cancelled before its outcome was written neither
\* completes in this daemon nor keeps its green status.
RawSupersedes ==
    [][\A r \in Runs : sent /\ r \in snap /\ ~Terminal(r)
         => row'[r] # "completed" /\ ~(row'[r] = "cancelled" /\ Preserved(pub'[r]))]_vars

\* An outcome is final: no later write, shutdown or start changes it, nor takes
\* the green status from a cancelled watcher that kept it.
OutcomeIsFinal ==
    [][\A r \in Runs : Terminal(r) =>
         /\ row'[r] = row[r]
         /\ row[r] = "cancelled" /\ Preserved(pub[r]) => Preserved(pub'[r])]_vars

\* A settled write whose store is healthy is told its caller, though the store
\* refuses another run's for ever.
SettlementServed ==
    \A r \in Runs \ Refused : (pc[r] = "await") ~> (pc[r] # "await")
=============================================================================
