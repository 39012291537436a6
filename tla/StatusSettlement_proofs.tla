---------------------- MODULE StatusSettlement_proofs ----------------------
(***************************************************************************)
(* What StatusSettlement guarantees for any runs, whatever is refused for  *)
(* good and however many faults there are: its states are well typed, the  *)
(* certificates and the forge agree with the outcomes, an outcome is       *)
(* final, and a raw shutdown leaves no success behind what it cut short.   *)
(***************************************************************************)
EXTENDS StatusSettlementInv, TLAPS

-----------------------------------------------------------------------------
(* Well-typed publications and jobs.                                          *)
LEMMA RevokedType == ASSUME NEW p \in Publications PROVE Revoked(p) \in Publications
BY DEF Publications, Revoked

LEMMA NoJobType == NoJob \in Jobs
BY DEF Jobs, NoJob

LEMMA ReportsType == ASSUME NEW j \in Jobs, NEW n \in 0..2 PROVE [j EXCEPT !.reports = n] \in Jobs
BY DEF Jobs

LEMMA ToldType == Told \in Jobs /\ [NoJob EXCEPT !.reports = 1] \in Jobs
<1>1. 1 \in 0..2 /\ 2 \in 0..2
  OBVIOUS
<1> QED
  BY <1>1, NoJobType, ReportsType, Zenon DEF Told

LEMMA OwnFailureType == ASSUME NEW r \in Runs, job[r] \in Jobs PROVE OwnFailure(r) \in Jobs
<1>1. \A j \in Jobs : [j EXCEPT !.kind = "fail", !.err = "own", !.status = "failed",
                              !.explicit = FALSE, !.controlled = FALSE] \in Jobs
  BY DEF Jobs
<1> QED
  BY <1>1, Zenon DEF OwnFailure

LEMMA OneLessType == ASSUME NEW r \in Runs, job[r] \in Jobs PROVE OneLess(r) \in Jobs
<1> DEFINE n == IF job[r].reports > 0 THEN job[r].reports - 1 ELSE 0
<1>1. n \in 0..2
  BY DEF Jobs
<1> QED
  BY <1>1, NoJobType, ReportsType DEF OneLess

LEMMA StatusType == ASSUME NEW r \in Runs, job[r] \in Jobs PROVE Status(r) \in {"failed", "cancelled"}
BY DEF Jobs, Status

-----------------------------------------------------------------------------
(* The initial states.                                                        *)
LEMMA InitStep == Init => IInv
<1> SUFFICES ASSUME Init PROVE IInv
  OBVIOUS
<1>1. StoreTyped /\ HostTyped /\ RunsTyped /\ DaemonTyped
  BY DEF Init, Outcomes, Publications, StoreTyped, HostTyped, RunsTyped, DaemonTyped
<1>2. LockTyped
  <2>1. Off \in [at : {"off", "acquire", "release"}, tried : SUBSET Runs]
    BY DEF Off
  <2> QED
    BY <2>1 DEF Init, LockTyped
<1>3. QueueTyped /\ PcTyped
  BY DEF Init, Pcs, QueueTyped, PcTyped
<1>4. JobTyped
  <2>1. faults \in Nat
    BY DEF Init
  <2> QED
    BY <2>1, NoJobType, Zenon DEF Init, JobTyped
<1>5. PlaceFits
  BY Shape DEF Init, PlaceFits, Places, Threads
<1>6. LockFits /\ QueueFits /\ RawFits
  BY Shape DEF Init, LockFits, QueueFits, RawFits, Posting, Threads, Off
<1>7. RunFits
  BY DEF Init, RunFits, JobFits, CertFits, FailureFits, Failed, NoJob, Terminal, Outcomes, Posting, Undecided, Threads
<1> QED
  BY <1>1, <1>2, <1>3, <1>4, <1>5, <1>6, <1>7 DEF IInv, TypeOK

-----------------------------------------------------------------------------
(* The frame of an action.                                                    *)
RunFit(r) == JobFits(r) /\ CertFits(r) /\ FailureFits(r)

\* What an action leaves alone stays as it was.
LEMMA RunFrame ==
    ASSUME NEW r \in Runs, RunFit(r), row'[r] = row[r], record'[r] = record[r], pub'[r] = pub[r],
           host'[r] = host[r], phase'[r] = phase[r], pc'[r] = pc[r], job'[r] = job[r]
    PROVE  RunFit(r)'
BY DEF RunFit, JobFits, CertFits, FailureFits, Failed, Terminal

LEMMA RunsFrame ==
    ASSUME RunFits, UNCHANGED <<row, record, pub, host, phase, pc, job>> PROVE RunFits'
BY RunFrame DEF RunFits, RunFit

LEMMA TypeFrame ==
    ASSUME TypeOK
    PROVE  /\ UNCHANGED <<row, record, pub, proof>> => StoreTyped'
           /\ UNCHANGED host => HostTyped'
           /\ UNCHANGED <<phase, cause>> => RunsTyped'
           /\ UNCHANGED <<shutdown, plan, bound, snap, sent>> => DaemonTyped'
           /\ UNCHANGED <<lock, drain, rawq>> => LockTyped'
           /\ UNCHANGED queue => QueueTyped'
           /\ UNCHANGED pc => PcTyped'
           /\ UNCHANGED <<job, faults>> => JobTyped'
BY DEF TypeOK, StoreTyped, HostTyped, RunsTyped, DaemonTyped, LockTyped, QueueTyped, PcTyped, JobTyped

LEMMA PlaceFrame == ASSUME PlaceFits, UNCHANGED pc PROVE PlaceFits'
BY DEF PlaceFits

LEMMA QueueFrame == ASSUME QueueFits, UNCHANGED <<queue, pc>> PROVE QueueFits'
BY DEF QueueFits

LEMMA FaultTyped == ASSUME JobTyped, NoFault \/ \E f \in Faults : Fault(f) PROVE faults' \in Nat
BY DEF NoFault, Fault, JobTyped

-----------------------------------------------------------------------------
(* Waiting for the lock.                                                      *)
LEMMA AcquireStep == ASSUME IInv, NEW t \in Threads, Acquire(t) PROVE IInv'
<1>1. TypeOK'
  <2>1. LockTyped'
    BY DEF Acquire, IInv, TypeOK, LockTyped, Off
  <2>2. /\ UNCHANGED <<row, record, pub, proof>> /\ UNCHANGED host /\ UNCHANGED <<phase, cause>>
        /\ UNCHANGED <<shutdown, plan, bound, snap, sent>> /\ UNCHANGED queue
        /\ UNCHANGED pc /\ UNCHANGED <<job, faults>>
    BY DEF Acquire, db, daemon
  <2> QED
    BY <2>1, <2>2, TypeFrame, Zenon DEF IInv, TypeOK
<1>2. PlaceFits' /\ QueueFits' /\ RunFits'
  BY PlaceFrame, QueueFrame, RunsFrame DEF Acquire, IInv, db
<1>3. LockFits'
  BY Shape DEF Acquire, IInv, LockFits, Wants, Off, Holds, Threads, Posting
<1>4. RawFits'
  BY DEF Acquire, IInv, RawFits, Off, Terminal, db, daemon
<1> QED
  BY <1>1, <1>2, <1>3, <1>4 DEF IInv

\* A thread that does not get the lock goes to a place that fits its run's outcome.
LEMMA UnlockedFits ==
    ASSUME IInv, NEW t \in Threads, Wants(t)
    PROVE  /\ t \in Runs => Unlocked(t) \in {"fail", "settle", "run", "report", "depart"}
           /\ t = Shut => Unlocked(t) = "end"
           /\ t = Loop => Unlocked(t) = "check"
BY Shape DEF IInv, PlaceFits, Places, Wants, Unlocked, AfterReport, Threads

LEMMA GivesUpRuns ==
    ASSUME IInv, NEW t \in Threads, Wants(t), NEW p \in {pc, LoopStarted(pc)}, GivesUp(t, p),
           UNCHANGED <<row, record, pub, host, phase>>
    PROVE  RunFits'
<1> SUFFICES ASSUME NEW r \in Runs PROVE RunFit(r)'
  BY DEF RunFits, RunFit
<1>1. RunFit(r) /\ job \in [Runs -> Jobs]
  BY DEF IInv, TypeOK, RunFits, RunFit, JobTyped
<1>2. CASE r # t
  <2>1. pc'[r] = pc[r] /\ job'[r] = job[r]
    BY <1>2, Shape DEF GivesUp, LoopStarted, IInv, TypeOK, PcTyped, JobTyped, Threads
  <2> QED
    BY <1>1, <2>1, RunFrame
<1>3. CASE r = t
  <2>1. pc'[r] = Unlocked(r)
    BY <1>3, Shape DEF GivesUp, LoopStarted, IInv, TypeOK, PcTyped, Threads
  <2>2. CASE pc[r] = "complete"
    <3>1. pc'[r] = "fail"
      BY <2>1, <2>2, Shape DEF Unlocked
    <3>2. job'[r] = OwnFailure(r)
      BY <1>1, <1>3, <2>2 DEF GivesUp
    <3>3. job'[r].explicit = FALSE /\ job'[r].status = "failed" /\ job'[r].cert = job[r].cert /\ job'[r].state = job[r].state
      BY <1>1, <3>2 DEF OwnFailure, Jobs
    <3> QED
      BY <1>1, <2>2, <3>1, <3>3 DEF RunFit, JobFits, CertFits, FailureFits, Failed, Terminal, Posting, Undecided
  <2>3. CASE pc[r] = "fail"
    <3>1. pc'[r] = "settle"
      BY <2>1, <2>3, Shape DEF Unlocked
    <3>2. job'[r] = job[r]
      BY <1>3, <2>3 DEF GivesUp
    <3> QED
      BY <1>1, <2>3, <3>1, <3>2 DEF RunFit, JobFits, CertFits, FailureFits, Failed, Terminal, Posting, Undecided
  <2>4. CASE pc[r] = "report"
    <3>1. pc'[r] = AfterReport(r)
      BY <2>1, <2>4, Shape DEF Unlocked
    <3>2. job'[r] = OneLess(r)
      BY <1>1, <1>3, <2>4 DEF GivesUp
    <3>3. job'[r].explicit = FALSE /\ job'[r].status = "failed" /\ job'[r].kind = "none"
      BY <3>2 DEF OneLess, NoJob
    <3> QED
      BY <1>1, <2>4, <3>1, <3>3 DEF RunFit, JobFits, CertFits, FailureFits, Failed, Terminal, Posting, Undecided, AfterReport
  <2> QED
    BY <1>3, <2>2, <2>3, <2>4, Shape DEF Wants, IInv, PlaceFits, Places
<1> QED
  BY <1>2, <1>3

LEMMA GivesUpPlaces ==
    ASSUME IInv, NEW t \in Threads, Wants(t), NEW p \in {pc, LoopStarted(pc)}, GivesUp(t, p)
    PROVE  /\ PcTyped' /\ job' \in [Runs -> Jobs] /\ PlaceFits'
           /\ \A u \in Threads : u # t /\ pc[u] # "off" => pc'[u] = pc[u]
           /\ \A r \in Runs : r # t => pc'[r] = pc[r]
           /\ pc'[t] \in {"fail", "settle", "run", "report", "depart", "end", "check"}
           /\ pc'[Shut] = "off" => pc[Shut] = "off"
<1> USE Shape
<1>1. pc \in [Threads -> Pcs] /\ job \in [Runs -> Jobs] /\ PlaceFits
  BY DEF IInv, TypeOK, PcTyped, JobTyped
<1>2. Unlocked(t) \in {"fail", "settle", "run", "report", "depart", "end", "check"}
  BY UnlockedFits DEF Threads
<1>3. /\ p \in [Threads -> Pcs]
      /\ \A u \in Threads : u # Loop \/ pc[u] # "off" => p[u] = pc[u]
      /\ p[Loop] \in {"off", "lock", "check"}
  BY <1>1 DEF LoopStarted, Threads, Pcs, PlaceFits
<1>4. pc' = [p EXCEPT ![t] = Unlocked(t)]
  BY DEF GivesUp
<1>5. PcTyped'
  BY <1>2, <1>3, <1>4 DEF PcTyped, Pcs
<1>6. pc[t] # "off"
  BY DEF Wants
<1>7. \A u \in Threads : u # t => pc'[u] = p[u]
  BY <1>3, <1>4
<1>8. pc'[t] = Unlocked(t)
  BY <1>3, <1>4
<1>9. job' \in [Runs -> Jobs]
  <2>1. CASE pc[t] = "complete"
    <3>1. t \in Runs
      BY <1>1, <2>1 DEF PlaceFits, Threads
    <3>2. job' = [job EXCEPT ![t] = OwnFailure(t)]
      BY <2>1 DEF GivesUp
    <3> QED
      BY <1>1, <3>1, <3>2, OwnFailureType, Zenon
  <2>2. CASE pc[t] = "report"
    <3>1. t \in Runs
      BY <1>1, <2>2 DEF PlaceFits, Threads
    <3>2. job' = [job EXCEPT ![t] = OneLess(t)]
      BY <2>2 DEF GivesUp
    <3> QED
      BY <1>1, <3>1, <3>2, OneLessType, Zenon
  <2> QED
    BY <1>1, <2>1, <2>2 DEF GivesUp
<1>10. PlaceFits'
  BY <1>1, <1>3, <1>7, <1>8, UnlockedFits DEF PlaceFits, Places, Threads
<1> QED
  BY <1>2, <1>3, <1>5, <1>6, <1>7, <1>8, <1>9, <1>10 DEF Threads, Places

LEMMA GivesUpQueue ==
    ASSUME IInv, NEW t \in Threads, Wants(t), NEW p \in {pc, LoopStarted(pc)}, GivesUp(t, p), UNCHANGED queue
    PROVE  QueueFits'
<1>1. \A r \in Runs : pc[r] = "await" => pc'[r] = pc[r]
  BY GivesUpPlaces DEF Wants
<1>2. \A i \in 1..Len(queue) : queue[i] \in Runs
  BY DEF IInv, TypeOK, QueueTyped
<1> QED
  BY <1>1, <1>2 DEF IInv, QueueFits

LEMMA TimesOutStep == ASSUME IInv, NEW t \in Threads, TimesOut(t) PROVE IInv'
<1> USE DEF TimesOut
<1>1. /\ Wants(t) /\ GivesUp(t, pc) /\ lock # t
      /\ UNCHANGED <<row, record, pub, proof>> /\ UNCHANGED host /\ UNCHANGED <<phase, cause>>
      /\ UNCHANGED <<shutdown, plan, bound, snap, sent>> /\ UNCHANGED <<lock, drain, rawq>> /\ UNCHANGED queue
  BY DEF db, daemon, locking, Free
<1>2. /\ PcTyped' /\ job' \in [Runs -> Jobs] /\ PlaceFits'
      /\ \A u \in Threads : u # t /\ pc[u] # "off" => pc'[u] = pc[u]
      /\ \A r \in Runs : r # t => pc'[r] = pc[r]
      /\ pc'[t] \in {"fail", "settle", "run", "report", "depart", "end", "check"}
      /\ pc'[Shut] = "off" => pc[Shut] = "off"
  BY <1>1, GivesUpPlaces
<1>3. TypeOK'
  <2>1. faults' \in Nat
    BY DEF IInv, TypeOK, JobTyped, Fault, NoFault
  <2> QED
    BY <1>1, <1>2, <2>1, TypeFrame, Zenon DEF IInv, TypeOK, JobTyped
<1>4. RunFits' /\ QueueFits'
  BY <1>1, GivesUpRuns, GivesUpQueue
<1>5. LockFits'
  <2>1. ASSUME lock # None PROVE Wants(lock)' \/ drain'.at = "release" \/ pc'[lock] \in Posting
    BY <1>1, <1>2, <2>1 DEF IInv, TypeOK, LockTyped, LockFits, Wants, Posting
  <2> QED
    BY <1>1, <1>2, <2>1 DEF IInv, LockFits, Holds, Posting
<1>6. RawFits'
  BY <1>1, <1>2 DEF IInv, RawFits, Terminal, Wants
<1> QED
  BY <1>2, <1>3, <1>4, <1>5, <1>6 DEF IInv

-----------------------------------------------------------------------------
(* The drains.                                                                *)
LEMMA LoopStarts ==
    ASSUME PcTyped, PlaceFits
    PROVE  /\ LoopStarted(pc) \in [Threads -> Pcs]
           /\ \A u \in Threads : u # Loop \/ pc[u] # "off" => LoopStarted(pc)[u] = pc[u]
           /\ LoopStarted(pc)[Loop] \in {"lock", "check"}
           /\ pc[Loop] = "off" => LoopStarted(pc)[Loop] = "lock"
BY Shape DEF PcTyped, PlaceFits, LoopStarted, Threads, Pcs

LEMMA LoopStartsStep ==
    ASSUME IInv, pc' = LoopStarted(pc)
    PROVE  /\ PcTyped' /\ PlaceFits' /\ \A r \in Runs : pc'[r] = pc[r]
           /\ \A u \in Threads : pc[u] # "off" => pc'[u] = pc[u]
           /\ pc'[Shut] = pc[Shut]
<1>1. PcTyped /\ PlaceFits
  BY DEF IInv, TypeOK
<1>2. /\ pc' \in [Threads -> Pcs]
      /\ \A u \in Threads : u # Loop \/ pc[u] # "off" => pc'[u] = pc[u]
      /\ pc'[Loop] \in {"lock", "check"}
  BY <1>1, LoopStarts
<1>3. \A r \in Runs : pc'[r] = pc[r]
  BY <1>2, Shape DEF Threads
<1> QED
  BY <1>1, <1>2, <1>3, Shape DEF PcTyped, PlaceFits, Threads

\* While the queues are drained nobody posts, and a holder that has not worked yet wants the lock.
LEMMA DrainFits ==
    ASSUME IInv, Draining
    PROVE  /\ lock \in Threads /\ \A r \in Runs : pc[r] \notin Posting
           /\ drain.at = "acquire" => Wants(lock)
BY DEF IInv, TypeOK, LockTyped, PlaceFits, LockFits, Draining, Holds, Posting, Threads

LEMMA CancelRunsStep == ASSUME IInv, CancelRuns PROVE IInv'
<1> USE DEF CancelRuns
<1>1. /\ UNCHANGED <<row, record, pub, proof>> /\ UNCHANGED host /\ UNCHANGED phase
      /\ UNCHANGED <<shutdown, plan, bound, snap>> /\ UNCHANGED <<lock, drain, rawq>> /\ UNCHANGED queue
      /\ UNCHANGED pc /\ UNCHANGED <<job, faults>> /\ rawq /\ sent' = TRUE
  BY DEF db, locking
<1>2. TypeOK'
  <2>1. RunsTyped'
    BY DEF IInv, TypeOK, RunsTyped
  <2>2. DaemonTyped'
    BY <1>1 DEF IInv, TypeOK, DaemonTyped
  <2> QED
    BY <1>1, <2>1, <2>2, TypeFrame, Zenon DEF IInv, TypeOK
<1>3. PlaceFits' /\ QueueFits' /\ RunFits'
  BY <1>1, PlaceFrame, QueueFrame, RunsFrame DEF IInv
<1>4. LockFits'
  BY <1>1 DEF IInv, LockFits, Wants, Holds
<1>5. RawFits'
  BY <1>1 DEF IInv, RawFits, Draining
<1> QED
  BY <1>2, <1>3, <1>4, <1>5 DEF IInv

LEMMA SupersedeStep == ASSUME IInv, SupersedeUncommittedCancellations PROVE IInv'
<1> USE DEF SupersedeUncommittedCancellations
<1>1. /\ UNCHANGED row /\ UNCHANGED host /\ UNCHANGED <<phase, cause>>
      /\ UNCHANGED <<shutdown, plan, bound, snap, sent>> /\ UNCHANGED <<lock, drain>> /\ UNCHANGED queue
      /\ UNCHANGED pc /\ UNCHANGED <<job, faults>> /\ rawq' = FALSE
  BY DEF daemon, Taken, NoFault
<1>2. TypeOK'
  <2>1. StoreTyped'
    <3>1. row' \in [Runs -> Outcomes \cup {"running"}] /\ record' \in [Runs -> {"none", "planned", "raw"}]
          /\ proof' \in [Runs -> BOOLEAN]
      BY <1>1 DEF IInv, TypeOK, StoreTyped
    <3>2. pub' \in [Runs -> Publications]
      BY RevokedType DEF IInv, TypeOK, StoreTyped
    <3> QED
      BY <3>1, <3>2 DEF StoreTyped
  <2>2. LockTyped'
    BY <1>1 DEF IInv, TypeOK, LockTyped
  <2> QED
    BY <1>1, <2>1, <2>2, TypeFrame, Zenon DEF IInv, TypeOK
<1>3. PlaceFits' /\ QueueFits'
  BY <1>1, PlaceFrame, QueueFrame DEF IInv
<1>4. LockFits'
  BY <1>1 DEF IInv, LockFits, Wants, Holds
<1>5. RunFits'
  <2> SUFFICES ASSUME NEW r \in Runs PROVE RunFit(r)'
    BY DEF RunFits, RunFit
  <2>1. RunFit(r) /\ pub[r] \in Publications
    BY DEF IInv, TypeOK, StoreTyped, RunFits, RunFit
  <2>2. CASE r \notin Superseded
    BY <1>1, <2>1, <2>2, RunFrame
  <2>3. CASE r \in Superseded
    <3>1. record'[r] = "raw" /\ pub'[r] = Revoked(pub[r]) /\ ~Terminal(r)
      BY <2>3 DEF Superseded
    <3>2. ~pub'[r].cert /\ ~pub'[r].preserve /\ pub'[r].last = pub[r].last
      BY <2>1, <3>1 DEF Revoked, Publications
    <3> QED
      BY <1>1, <2>1, <3>1, <3>2 DEF RunFit, JobFits, CertFits, FailureFits, Failed, Terminal, Outcomes
  <2> QED
    BY <2>2, <2>3
<1>6. RawFits'
  BY <1>1 DEF IInv, RawFits, Superseded, Terminal
<1> QED
  BY <1>2, <1>3, <1>4, <1>5, <1>6 DEF IInv

LEMMA RawRefusedStep == ASSUME IInv, RawRefused PROVE IInv'
<1> USE DEF RawRefused
<1>1. /\ UNCHANGED <<row, record, pub, proof>> /\ UNCHANGED host /\ UNCHANGED <<phase, cause>>
      /\ UNCHANGED <<shutdown, plan, bound, snap, sent>> /\ UNCHANGED rawq /\ UNCHANGED queue
      /\ lock' = None /\ drain' = Off /\ rawq /\ Draining
  BY DEF db, daemon
<1>2. faults' \in Nat /\ LockTyped'
  <2>1. faults' \in Nat
    BY DEF IInv, TypeOK, JobTyped, Refuses, Fault, NoFault
  <2> QED
    BY <1>1, <2>1 DEF IInv, TypeOK, LockTyped, Off
<1>3. lock \in Threads /\ \A r \in Runs : pc[r] \notin Posting
  BY <1>1, DrainFits
<1>4. /\ PcTyped' /\ job' \in [Runs -> Jobs] /\ PlaceFits' /\ RunFits' /\ QueueFits'
      /\ \A r \in Runs : pc'[r] \notin Posting
      /\ pc'[Shut] = "off" => pc[Shut] = "off"
  <2>1. CASE drain.at = "acquire"
    <3>1. GivesUp(lock, LoopStarted(pc)) /\ Wants(lock)
      BY <1>1, <2>1, DrainFits
    <3>2. /\ PcTyped' /\ job' \in [Runs -> Jobs] /\ PlaceFits'
          /\ \A r \in Runs : r # lock => pc'[r] = pc[r]
          /\ pc'[lock] \in {"fail", "settle", "run", "report", "depart", "end", "check"}
          /\ pc'[Shut] = "off" => pc[Shut] = "off"
      BY <1>3, <3>1, GivesUpPlaces
    <3>3. RunFits' /\ QueueFits'
      BY <1>1, <1>3, <3>1, GivesUpRuns, GivesUpQueue
    <3> QED
      BY <1>3, <3>2, <3>3 DEF Posting
  <2>2. CASE drain.at # "acquire"
    <3>1. pc' = LoopStarted(pc) /\ UNCHANGED job
      BY <2>2
    <3>2. PcTyped' /\ PlaceFits' /\ (\A r \in Runs : pc'[r] = pc[r]) /\ pc'[Shut] = pc[Shut]
      BY <3>1, LoopStartsStep
    <3>3. RunFits'
      BY <1>1, <3>1, <3>2, RunFrame DEF IInv, RunFits, RunFit
    <3>4. QueueFits'
      BY <1>1, <3>2 DEF IInv, TypeOK, QueueTyped, QueueFits
    <3> QED
      BY <1>3, <3>1, <3>2, <3>3, <3>4 DEF IInv, TypeOK, JobTyped
  <2> QED
    BY <2>1, <2>2
<1>5. TypeOK'
  BY <1>1, <1>2, <1>4, TypeFrame, Zenon DEF IInv, TypeOK, JobTyped
<1>6. LockFits'
  BY <1>1, <1>4 DEF LockFits, Off
<1>7. RawFits'
  BY <1>1, <1>4 DEF IInv, RawFits
<1> QED
  BY <1>4, <1>5, <1>6, <1>7 DEF IInv

LEMMA GoesStep ==
    ASSUME IInv, NEW r \in Runs, NEW x \in Places, pc' = [pc EXCEPT ![r] = x]
    PROVE  /\ PcTyped' /\ PlaceFits' /\ pc'[r] = x
           /\ \A u \in Threads : u # r => pc'[u] = pc[u]
           /\ \A q \in Runs : q # r => pc'[q] = pc[q]
           /\ pc'[Shut] = pc[Shut]
<1>1. pc \in [Threads -> Pcs] /\ PlaceFits
  BY DEF IInv, TypeOK, PcTyped
<1>2. pc' \in [Threads -> Pcs] /\ pc'[r] = x /\ \A u \in Threads : u # r => pc'[u] = pc[u]
  BY <1>1 DEF Pcs, Places, Threads
<1> QED
  BY <1>1, <1>2, Shape DEF PcTyped, PlaceFits, Threads

\* A terminal write decides a failure or a cancellation; it keeps a certificate at most, and
\* preserves it only for a certified watcher.
LEMMA RecordsIneligible ==
    ASSUME IInv, NEW r \in Runs, ~Terminal(r), NEW s \in {"failed", "cancelled"}, RecordIneligibleTerminal(r, s)
    PROVE  /\ row' = [row EXCEPT ![r] = s]
           /\ pub' = [pub EXCEPT ![r] = Revoked(@)]
BY DEF RecordIneligibleTerminal, Terminal, Outcomes

LEMMA TerminalWrites ==
    ASSUME IInv, NEW r \in Runs, ~Terminal(r), TerminalWrite(r)
    PROVE  \E p \in Publications :
              /\ row' = [row EXCEPT ![r] = Status(r)] /\ pub' = [pub EXCEPT ![r] = p]
              /\ p.last = pub[r].last /\ p.validated = pub[r].validated
              /\ p.cert => pub[r].cert
              /\ p.preserve => p.cert /\ Explicit(r) /\ Certified(r)
<1>1. pub \in [Runs -> Publications] /\ pub[r] \in Publications
  BY DEF IInv, TypeOK, StoreTyped
<1>2. Revoked(pub[r]) \in Publications /\ Revoked(pub[r]).last = pub[r].last
      /\ Revoked(pub[r]).validated = pub[r].validated
      /\ ~Revoked(pub[r]).cert /\ ~Revoked(pub[r]).preserve
  BY <1>1, RevokedType DEF Revoked, Publications
<1>3. Status(r) \in {"failed", "cancelled"}
  BY StatusType DEF IInv, TypeOK, JobTyped
<1>4. pub[r].preserve => pub[r].cert
  BY DEF IInv, RunFits, CertFits
<1>5. CASE RecordIneligibleTerminal(r, Status(r))
  <2>1. row' = [row EXCEPT ![r] = Status(r)] /\ pub' = [pub EXCEPT ![r] = Revoked(pub[r])]
    BY <1>1, <1>3, <1>5, RecordsIneligible
  <2> QED
    BY <1>2, <2>1
<1>6. CASE Explicit(r) /\ TerminalizeCertifiedWatcher(r, Status(r))
  <2> DEFINE p == IF ~Certified(r) THEN Revoked(pub[r])
                  ELSE IF pub[r].cert /\ pub[r].last = "success" THEN [pub[r] EXCEPT !.preserve = TRUE] ELSE pub[r]
  <2>1. row' = [row EXCEPT ![r] = Status(r)] /\ pub' = [pub EXCEPT ![r] = p]
    BY <1>1, <1>6 DEF TerminalizeCertifiedWatcher
  <2>2. [pub[r] EXCEPT !.preserve = TRUE] \in Publications
    BY <1>1 DEF Publications
  <2>3. p \in Publications
    BY <1>1, <1>2, <2>2
  <2>4. p.last = pub[r].last /\ p.validated = pub[r].validated /\ (p.cert => pub[r].cert)
    BY <1>1, <1>2 DEF Publications
  <2>5. p.preserve => p.cert /\ Explicit(r) /\ Certified(r)
    BY <1>1, <1>2, <1>4, <1>6 DEF Publications
  <2> HIDE DEF p
  <2> QED
    BY <2>1, <2>3, <2>4, <2>5
<1> QED
  BY <1>5, <1>6 DEF TerminalWrite

\* The run whose outcome is written goes on to report it.
LEMMA DecidedFits ==
    ASSUME IInv, NEW r \in Runs, ~Terminal(r), pc[r] \in Undecided, NEW p \in Publications,
           row'[r] \in {"failed", "cancelled"}, pub'[r] = p, p.last = pub[r].last,
           p.cert => pub[r].cert, p.preserve => p.cert,
           job'[r] = Told, pc'[r] = "report", UNCHANGED <<record, host, phase>>
    PROVE  RunFit(r)'
<1>1. RunFit(r)
  BY DEF IInv, RunFits, RunFit
<1>2. job'[r].explicit = FALSE /\ job'[r].status = "failed"
  BY DEF Told, NoJob
<1>3. Terminal(r)' /\ Failed(r)'
  BY DEF Terminal, Outcomes, Failed
<1> QED
  BY <1>1, <1>2, <1>3 DEF RunFit, JobFits, CertFits, FailureFits, Posting, Undecided

LEMMA QueueHead ==
    ASSUME IInv, queue # <<>>
    PROVE  /\ Head(queue) \in Runs /\ pc[Head(queue)] = "await" /\ ~Terminal(Head(queue))
           /\ Tail(queue) \in Seq(Runs)
           /\ \A i \in 1..Len(Tail(queue)) : Tail(queue)[i] = queue[i + 1] /\ Tail(queue)[i] # Head(queue)
           /\ Len(Tail(queue)) = Len(queue) - 1
<1>1. queue \in Seq(Runs) /\ QueueFits
  BY DEF IInv, TypeOK, QueueTyped
<1>2. Head(queue) = queue[1] /\ Len(queue) \in Nat /\ Len(queue) >= 1
  BY <1>1
<1>3. Head(queue) \in Runs /\ pc[Head(queue)] = "await"
  BY <1>1, <1>2 DEF QueueFits
<1>4. ~Terminal(Head(queue))
  BY <1>3 DEF IInv, RunFits, JobFits, Undecided
<1>5. Tail(queue) \in Seq(Runs) /\ Len(Tail(queue)) = Len(queue) - 1
      /\ \A i \in 1..Len(Tail(queue)) : Tail(queue)[i] = queue[i + 1]
  BY <1>1
<1>6. \A i \in 1..Len(Tail(queue)) : Tail(queue)[i] # Head(queue)
  BY <1>1, <1>2, <1>5 DEF QueueFits
<1> QED
  BY <1>3, <1>4, <1>5, <1>6

LEMMA DrainWritesStep == ASSUME IInv, DrainWrites PROVE IInv'
<1> USE DEF DrainWrites, Due
<1> SUFFICES ASSUME NEW r \in Runs, r = Head(queue) PROVE IInv'
  BY QueueHead
<1> DEFINE leaves == job[r].kind = "leave"
<1>1. /\ Draining /\ ~rawq /\ queue # <<>> /\ queue' = Tail(queue)
      /\ UNCHANGED host /\ UNCHANGED <<phase, cause>>
      /\ UNCHANGED <<shutdown, plan, bound, snap, sent>> /\ UNCHANGED <<lock, drain, rawq>> /\ UNCHANGED faults
      /\ pc' = [pc EXCEPT ![r] = IF leaves THEN "depart" ELSE "report"]
      /\ job' = IF leaves THEN job ELSE [job EXCEPT ![r] = Told]
  BY DEF daemon, Taken, NoFault
<1>2. r \in Runs /\ pc[r] = "await" /\ ~Terminal(r)
  BY <1>1, QueueHead
<1>3. /\ PcTyped' /\ PlaceFits' /\ pc'[r] = IF leaves THEN "depart" ELSE "report"
      /\ \A u \in Threads : u # r => pc'[u] = pc[u]
      /\ \A q \in Runs : q # r => pc'[q] = pc[q]
      /\ pc'[Shut] = pc[Shut]
  <2> DEFINE place == IF leaves THEN "depart" ELSE "report"
  <2>1. place \in Places
    BY DEF Places
  <2>2. pc' = [pc EXCEPT ![r] = place]
    BY <1>1
  <2> HIDE DEF place
  <2>3. /\ PcTyped' /\ PlaceFits' /\ pc'[r] = place
        /\ \A u \in Threads : u # r => pc'[u] = pc[u]
        /\ \A q \in Runs : q # r => pc'[q] = pc[q]
        /\ pc'[Shut] = pc[Shut]
    BY <2>1, <2>2, GoesStep
  <2> QED
    BY <2>3 DEF place
<1>4. QueueTyped' /\ QueueFits'
  <2>1. /\ Tail(queue) \in Seq(Runs) /\ Len(Tail(queue)) = Len(queue) - 1
        /\ \A i \in 1..Len(Tail(queue)) : Tail(queue)[i] = queue[i + 1] /\ Tail(queue)[i] # r
    BY <1>1, QueueHead
  <2>2. queue \in Seq(Runs) /\ QueueFits
    BY DEF IInv, TypeOK, QueueTyped
  <2>3. \A i \in 1..Len(Tail(queue)) : i + 1 \in 1..Len(queue) /\ Tail(queue)[i] \in Runs
    BY <2>1, <2>2
  <2>4. \A i \in 1..Len(queue') : pc'[queue'[i]] = "await"
    BY <1>1, <1>3, <2>1, <2>2, <2>3 DEF QueueFits
  <2>5. \A i, j \in 1..Len(queue') : queue'[i] = queue'[j] => i = j
    BY <1>1, <2>1, <2>2, <2>3 DEF QueueFits
  <2> QED
    BY <1>1, <2>1, <2>4, <2>5 DEF QueueTyped, QueueFits
<1>5. JobTyped'
  <2>1. job \in [Runs -> Jobs] /\ faults \in Nat
    BY DEF IInv, TypeOK, JobTyped
  <2>2. job' \in [Runs -> Jobs]
    BY <1>1, <1>2, <2>1, ToldType, Zenon
  <2> QED
    BY <1>1, <2>1, <2>2 DEF JobTyped
<1>6. StoreTyped' /\ RunFits'
  <2>1. StoreTyped /\ RunFit(r) /\ pub[r] \in Publications /\ job \in [Runs -> Jobs]
    BY <1>2 DEF IInv, TypeOK, StoreTyped, JobTyped, RunFits, RunFit
  <2>2. CASE leaves
    <3>1. /\ record' = [record EXCEPT ![r] = "none"] /\ pub' = [pub EXCEPT ![r] = Revoked(@)]
          /\ proof' = [proof EXCEPT ![r] = FALSE] /\ UNCHANGED row /\ UNCHANGED job
      BY <1>1, <1>2, <2>2 DEF ReleaseShutdownForRecovery
    <3>2. Revoked(pub[r]) \in Publications /\ Revoked(pub[r]).last = pub[r].last
          /\ ~Revoked(pub[r]).cert /\ ~Revoked(pub[r]).preserve
      BY <2>1, RevokedType DEF Revoked, Publications
    <3>3. StoreTyped'
      BY <1>2, <2>1, <3>1, <3>2 DEF StoreTyped
    <3>4. RunFit(r)'
      <4>1. pub'[r] = Revoked(pub[r])
        BY <1>2, <2>1, <3>1 DEF StoreTyped
      <4>2. /\ pc'[r] = "depart" /\ pc[r] = "await" /\ row' = row /\ record'[r] = "none" /\ host' = host
            /\ job' = job /\ phase' = phase /\ ~Terminal(r) /\ (Terminal(r)' <=> Terminal(r))
        BY <1>1, <1>2, <1>3, <2>1, <2>2, <3>1 DEF StoreTyped, Terminal, IInv, TypeOK
      <4>3. JobFits(r)'
        BY <2>1, <2>2, <4>2 DEF RunFit, JobFits, Undecided
      <4>4. CertFits(r)'
        BY <2>1, <3>2, <4>1, <4>2 DEF RunFit, CertFits, Posting
      <4>5. FailureFits(r)'
        BY <2>1, <2>2, <3>2, <4>1, <4>2 DEF RunFit, FailureFits, Failed, Terminal, Outcomes, Posting
      <4> QED
        BY <4>3, <4>4, <4>5 DEF RunFit
    <3>5. \A q \in Runs : q # r => RunFit(q)'
      <4> SUFFICES ASSUME NEW q \in Runs, q # r PROVE RunFit(q)'
        OBVIOUS
      <4>1. RunFit(q)
        BY DEF IInv, RunFits, RunFit
      <4>2. record'[q] = record[q] /\ pub'[q] = pub[q]
        BY <1>2, <2>1, <3>1 DEF StoreTyped
      <4> QED
        BY <1>1, <1>3, <3>1, <4>1, <4>2, RunFrame
    <3> QED
      BY <3>3, <3>4, <3>5 DEF RunFits, RunFit
  <2>3. CASE ~leaves
    <3>1. TerminalWrite(r) /\ UNCHANGED <<record, proof>> /\ job' = [job EXCEPT ![r] = Told]
      BY <1>1, <2>3
    <3>2. PICK p \in Publications :
              /\ row' = [row EXCEPT ![r] = Status(r)] /\ pub' = [pub EXCEPT ![r] = p]
              /\ p.last = pub[r].last /\ (p.cert => pub[r].cert) /\ (p.preserve => p.cert)
      BY <1>2, <3>1, TerminalWrites
    <3>3. Status(r) \in {"failed", "cancelled"}
      BY <1>2, <2>1, StatusType
    <3>4. StoreTyped'
      BY <1>2, <2>1, <3>1, <3>2, <3>3 DEF StoreTyped, Outcomes
    <3>5. RunFit(r)'
      <4>1. pub'[r] = p /\ row'[r] = Status(r) /\ job'[r] = Told
        BY <1>2, <2>1, <3>1, <3>2 DEF StoreTyped
      <4> QED
        BY <1>1, <1>2, <1>3, <2>3, <3>1, <3>2, <3>3, <4>1, DecidedFits DEF Undecided
    <3>6. \A q \in Runs : q # r => RunFit(q)'
      <4> SUFFICES ASSUME NEW q \in Runs, q # r PROVE RunFit(q)'
        OBVIOUS
      <4>1. RunFit(q)
        BY DEF IInv, RunFits, RunFit
      <4>2. row'[q] = row[q] /\ pub'[q] = pub[q] /\ job'[q] = job[q]
        BY <1>2, <2>1, <3>1, <3>2 DEF StoreTyped
      <4> QED
        BY <1>1, <1>3, <3>1, <4>1, <4>2, RunFrame
    <3> QED
      BY <3>4, <3>5, <3>6 DEF RunFits, RunFit
  <2> QED
    BY <2>2, <2>3
<1>7. TypeOK'
  BY <1>1, <1>3, <1>4, <1>5, <1>6, TypeFrame, Zenon DEF IInv, TypeOK
<1>8. LockFits'
  <2>1. lock \in Threads /\ \A q \in Runs : pc[q] \notin Posting
    BY <1>1, DrainFits
  <2>2. \A q \in Runs : pc'[q] \notin Posting
    BY <1>2, <1>3, <2>1 DEF Posting
  <2>3. Wants(lock)' \/ drain'.at = "release"
    <3>1. CASE drain.at = "acquire"
      <4>1. Wants(lock)
        BY <1>1, <3>1, DrainFits
      <4> QED
        BY <1>1, <1>2, <1>3, <2>1, <4>1 DEF Wants
    <3>2. CASE drain.at # "acquire"
      BY <1>1, <3>2 DEF IInv, TypeOK, LockTyped, Draining
    <3> QED
      BY <3>1, <3>2
  <2> QED
    BY <1>1, <2>1, <2>2, <2>3, Shape DEF LockFits, Draining, Threads
<1>9. RawFits'
  <2> SUFFICES ASSUME NEW q \in Runs, sent', ~rawq', q \in snap', ~Terminal(q)'
               PROVE  record'[q] = "raw" \/ pc'[q] \in {"depart", "left"}
    BY <1>1, <1>3 DEF IInv, RawFits
  <2>1. record \in [Runs -> {"none", "planned", "raw"}] /\ row \in [Runs -> Outcomes \cup {"running"}]
    BY DEF IInv, TypeOK, StoreTyped
  <2>2. CASE leaves
    <3>1. record' = [record EXCEPT ![r] = "none"] /\ UNCHANGED row
      BY <1>1, <1>2, <2>2 DEF ReleaseShutdownForRecovery
    <3>2. CASE q = r
      BY <1>3, <2>2, <3>2
    <3>3. CASE q # r
      BY <1>1, <1>3, <2>1, <3>1, <3>3 DEF IInv, RawFits, Terminal
    <3> QED
      BY <3>2, <3>3
  <2>3. CASE ~leaves
    <3>1. TerminalWrite(r) /\ UNCHANGED record
      BY <1>1, <2>3
    <3>2. row' = [row EXCEPT ![r] = Status(r)] /\ Status(r) \in {"failed", "cancelled"}
      <4>1. row' = [row EXCEPT ![r] = Status(r)]
        BY <1>2, <3>1, TerminalWrites
      <4> QED
        BY <1>2, <4>1, StatusType DEF IInv, TypeOK, JobTyped
    <3>3. q # r /\ row'[q] = row[q]
      BY <1>2, <2>1, <3>2 DEF Terminal, Outcomes
    <3> QED
      BY <1>1, <1>3, <3>1, <3>3 DEF IInv, RawFits, Terminal
  <2> QED
    BY <2>2, <2>3
<1> QED
  BY <1>3, <1>4, <1>6, <1>7, <1>8, <1>9 DEF IInv

\* A step of one run leaves the others as they were.
LEMMA OneRun ==
    ASSUME IInv, NEW r \in Runs, RunFit(r)',
           \A q \in Runs : q # r => /\ row'[q] = row[q] /\ record'[q] = record[q] /\ pub'[q] = pub[q]
                                    /\ host'[q] = host[q] /\ phase'[q] = phase[q] /\ pc'[q] = pc[q]
                                    /\ job'[q] = job[q]
    PROVE  RunFits'
BY RunFrame DEF IInv, RunFits, RunFit

\* A refused write keeps what it had decided, and its place behind the others.
LEMMA RetriesFit ==
    ASSUME IInv, NEW r \in Runs, Retries(r)
    PROVE  /\ job' \in [Runs -> Jobs] /\ \A q \in Runs : q # r => job'[q] = job[q]
           /\ job'[r].explicit \/ job'[r].status = "cancelled" => job'[r].err = "cancel"
           /\ job'[r].kind = job[r].kind
<1>1. job \in [Runs -> Jobs] /\ job[r] \in Jobs /\ JobFits(r)
  BY DEF IInv, TypeOK, JobTyped, RunFits
<1>2. PICK x \in {FALSE, Explicit(r)} : job' = [job EXCEPT ![r].status = Status(r), ![r].explicit = x]
  BY DEF Retries
<1>3. Status(r) \in {"failed", "cancelled"} /\ x \in BOOLEAN
  BY <1>1, StatusType DEF Explicit, Jobs
<1>4. (x => job[r].explicit) /\ (Status(r) = "cancelled" => job[r].status = "cancelled")
  BY <1>1 DEF Explicit, Status, Jobs
<1> DEFINE j == [job[r] EXCEPT !.status = Status(r), !.explicit = x]
<1>5. j \in Jobs /\ j.err = job[r].err /\ j.explicit = x /\ j.status = Status(r) /\ j.kind = job[r].kind
  BY <1>1, <1>3 DEF Jobs
<1>6. job' = [job EXCEPT ![r] = j]
  BY <1>1, <1>2 DEF Jobs
<1> HIDE DEF j
<1>7. job' \in [Runs -> Jobs] /\ job'[r] = j /\ \A q \in Runs : q # r => job'[q] = job[q]
  BY <1>1, <1>5, <1>6
<1>8. j.explicit \/ j.status = "cancelled" => j.err = "cancel"
  BY <1>1, <1>4, <1>5 DEF JobFits
<1> QED
  BY <1>5, <1>7, <1>8

LEMMA DrainRefusedStep == ASSUME IInv, DrainRefused PROVE IInv'
<1> USE DEF DrainRefused, Due
<1> SUFFICES ASSUME NEW r \in Runs, r = Head(queue) PROVE IInv'
  BY QueueHead
<1>1. /\ Draining /\ ~rawq /\ queue # <<>> /\ queue' = Append(Tail(queue), r)
      /\ UNCHANGED <<row, record, pub, proof>> /\ UNCHANGED host /\ UNCHANGED <<phase, cause>>
      /\ UNCHANGED <<shutdown, plan, bound, snap, sent>> /\ UNCHANGED <<lock, rawq>>
      /\ drain' = [drain EXCEPT !.tried = @ \cup {r}] /\ pc' = LoopStarted(pc)
      /\ UNCHANGED job \/ Retries(r)
  BY DEF db, daemon
<1>2. PcTyped' /\ PlaceFits' /\ (\A q \in Runs : pc'[q] = pc[q]) /\ pc'[Shut] = pc[Shut]
      /\ (\A u \in Threads : pc[u] # "off" => pc'[u] = pc[u]) /\ pc[r] = "await"
  BY <1>1, LoopStartsStep, QueueHead
<1>3. /\ job' \in [Runs -> Jobs] /\ \A q \in Runs : q # r => job'[q] = job[q]
      /\ job'[r].explicit \/ job'[r].status = "cancelled" => job'[r].err = "cancel"
  <2>1. CASE UNCHANGED job
    BY <2>1 DEF IInv, TypeOK, JobTyped, RunFits, JobFits
  <2>2. CASE Retries(r)
    BY <2>2, RetriesFit
  <2> QED
    BY <1>1, <2>1, <2>2
<1>4. faults' \in Nat /\ LockTyped' /\ drain'.at = drain.at
  <2>1. faults' \in Nat
    BY DEF IInv, TypeOK, JobTyped, Refuses, Fault, NoFault
  <2> QED
    BY <1>1, <2>1 DEF IInv, TypeOK, LockTyped
<1>5. RunFits'
  <2>1. RunFit(r)
    BY DEF IInv, RunFits, RunFit
  <2>2. RunFit(r)'
    BY <1>1, <1>2, <1>3, <2>1 DEF RunFit, JobFits, CertFits, FailureFits, Failed, Terminal, Posting, Undecided
  <2> QED
    BY <1>1, <1>2, <1>3, <2>2, OneRun
<1>6. QueueTyped' /\ QueueFits'
  <2> DEFINE n == Len(queue)
  <2>1. /\ Tail(queue) \in Seq(Runs) /\ Len(Tail(queue)) = n - 1
        /\ \A i \in 1..Len(Tail(queue)) : Tail(queue)[i] = queue[i + 1] /\ Tail(queue)[i] # r
    BY <1>1, QueueHead
  <2>2. queue \in Seq(Runs) /\ QueueFits /\ n \in Nat /\ n >= 1
    BY <1>1 DEF IInv, TypeOK, QueueTyped
  <2>3. /\ queue' \in Seq(Runs) /\ Len(queue') = n /\ queue'[n] = r
        /\ \A i \in 1..(n - 1) : queue'[i] = queue[i + 1] /\ queue'[i] # r
    BY <1>1, <2>1, <2>2
  <2>4. \A i \in 1..n : queue'[i] \in Runs /\ pc[queue'[i]] = "await"
    BY <1>2, <2>2, <2>3 DEF QueueFits
  <2>5. \A i, j \in 1..n : queue'[i] = queue'[j] => i = j
    BY <2>2, <2>3 DEF QueueFits
  <2> QED
    BY <1>2, <2>3, <2>4, <2>5 DEF QueueTyped, QueueFits
<1>7. TypeOK'
  BY <1>1, <1>2, <1>3, <1>4, <1>6, TypeFrame, Zenon DEF IInv, TypeOK, JobTyped
<1>8. LockFits'
  <2>1. lock \in Threads /\ (\A q \in Runs : pc'[q] \notin Posting) /\ (drain.at = "acquire" => Wants(lock))
    BY <1>1, <1>2, DrainFits
  <2>2. Wants(lock)' \/ drain'.at = "release"
    BY <1>1, <1>2, <1>4, <2>1 DEF IInv, TypeOK, LockTyped, Draining, Wants
  <2> QED
    BY <1>1, <2>1, <2>2, Shape DEF LockFits, Threads
<1>9. RawFits'
  BY <1>1, <1>2, <1>4 DEF IInv, RawFits, Terminal
<1> QED
  BY <1>2, <1>5, <1>6, <1>7, <1>8, <1>9 DEF IInv

LEMMA AcquiredStep == ASSUME IInv, Acquired PROVE IInv'
<1> USE DEF Acquired, Drained
<1>1. /\ Draining /\ ~rawq /\ drain.at = "acquire" /\ UNCHANGED <<lock, rawq>>
      /\ UNCHANGED <<row, record, pub, proof>> /\ UNCHANGED host /\ UNCHANGED <<phase, cause>>
      /\ UNCHANGED <<shutdown, plan, bound, snap, sent>> /\ UNCHANGED queue /\ UNCHANGED faults
  BY DEF db, daemon, Releases, NoFault
<1>2. lock \in Threads /\ Wants(lock) /\ \A r \in Runs : pc[r] \notin Posting
  BY <1>1, DrainFits
<1>3. LockTyped'
  <2>1. drain' \in {Off, [at |-> "release", tried |-> {}]}
    BY DEF Releases
  <2> QED
    BY <1>1, <2>1 DEF IInv, TypeOK, LockTyped, Off
<1>4. CASE Expired(lock)
  <2>1. GivesUp(lock, pc) /\ drain'.at = "release"
    BY <1>4 DEF Releases
  <2>2. /\ PcTyped' /\ job' \in [Runs -> Jobs] /\ PlaceFits'
        /\ \A r \in Runs : r # lock => pc'[r] = pc[r]
        /\ pc'[lock] \in {"fail", "settle", "run", "report", "depart", "end", "check"}
        /\ pc'[Shut] = "off" => pc[Shut] = "off"
    BY <1>2, <2>1, GivesUpPlaces
  <2>3. RunFits' /\ QueueFits'
    BY <1>1, <1>2, <2>1, GivesUpRuns, GivesUpQueue
  <2>4. TypeOK'
    BY <1>1, <1>3, <2>2, TypeFrame, Zenon DEF IInv, TypeOK, JobTyped
  <2>5. LockFits'
    BY <1>1, <1>2, <2>1, <2>2, Shape DEF LockFits, Posting, Threads
  <2>6. RawFits'
    BY <1>1, <1>2, <2>1, <2>2 DEF IInv, RawFits, Terminal, Wants
  <2> QED
    BY <2>2, <2>3, <2>4, <2>5, <2>6 DEF IInv
<1>5. CASE ~Expired(lock)
  <2>1. UNCHANGED pc /\ UNCHANGED job /\ drain' = Off
    BY <1>5
  <2>2. TypeOK'
    BY <1>1, <1>3, <2>1, TypeFrame, Zenon DEF IInv, TypeOK, JobTyped
  <2>3. PlaceFits' /\ QueueFits' /\ RunFits'
    BY <1>1, <2>1, PlaceFrame, QueueFrame, RunsFrame DEF IInv
  <2>4. LockFits'
    BY <1>1, <1>2, <2>1, Shape DEF LockFits, Wants, Off, Threads
  <2>5. RawFits'
    BY <1>1, <2>1 DEF IInv, RawFits, Terminal
  <2> QED
    BY <2>2, <2>3, <2>4, <2>5 DEF IInv
<1> QED
  BY <1>4, <1>5

LEMMA UnlockStep == ASSUME IInv, Unlock PROVE IInv'
<1> USE DEF Unlock, Drained
<1>1. /\ Draining /\ ~rawq /\ lock' = None /\ drain' = Off /\ UNCHANGED rawq
      /\ UNCHANGED <<row, record, pub, proof>> /\ UNCHANGED host /\ UNCHANGED <<phase, cause>>
      /\ UNCHANGED <<shutdown, plan, bound, snap, sent>> /\ UNCHANGED queue /\ UNCHANGED pc /\ UNCHANGED <<job, faults>>
  BY DEF db, daemon
<1>2. LockTyped'
  BY <1>1 DEF IInv, TypeOK, LockTyped, Off
<1>3. TypeOK'
  BY <1>1, <1>2, TypeFrame, Zenon DEF IInv, TypeOK
<1>4. PlaceFits' /\ QueueFits' /\ RunFits'
  BY <1>1, PlaceFrame, QueueFrame, RunsFrame DEF IInv
<1>5. LockFits'
  BY <1>1, DrainFits DEF LockFits, Off
<1>6. RawFits'
  BY <1>1 DEF IInv, RawFits, Terminal
<1> QED
  BY <1>3, <1>4, <1>5, <1>6 DEF IInv

LEMMA SettleStep == ASSUME IInv, NEW r \in Runs, SettleTerminalWrite(r) PROVE IInv'
<1> USE DEF SettleTerminalWrite
<1>1. /\ pc[r] = "settle" /\ lock # r /\ queue' = Append(queue, r)
      /\ UNCHANGED <<row, record, pub, proof>> /\ UNCHANGED host /\ UNCHANGED <<phase, cause>>
      /\ UNCHANGED <<shutdown, plan, bound, snap, sent>> /\ UNCHANGED rawq /\ UNCHANGED <<job, faults>>
      /\ \/ lock = None /\ lock' = r /\ drain' = [at |-> "release", tried |-> {}]
         \/ lock # None /\ UNCHANGED <<lock, drain>>
      /\ pc' = [LoopStarted(pc) EXCEPT ![r] = "await"]
  BY DEF db, daemon, Free
<1>2. /\ PcTyped' /\ PlaceFits' /\ pc'[r] = "await" /\ pc'[Shut] = pc[Shut]
      /\ \A u \in Threads : u # r /\ pc[u] # "off" => pc'[u] = pc[u]
      /\ \A q \in Runs : q # r => pc'[q] = pc[q]
  <2>1. PcTyped /\ PlaceFits /\ pc \in [Threads -> Pcs]
    BY DEF IInv, TypeOK, PcTyped
  <2>2. /\ LoopStarted(pc) \in [Threads -> Pcs]
        /\ \A u \in Threads : u # Loop \/ pc[u] # "off" => LoopStarted(pc)[u] = pc[u]
        /\ LoopStarted(pc)[Loop] \in {"lock", "check"}
    BY <2>1, LoopStarts
  <2>3. /\ pc' \in [Threads -> Pcs] /\ pc'[r] = "await"
        /\ \A u \in Threads : u # r => pc'[u] = LoopStarted(pc)[u]
    BY <1>1, <2>2 DEF Threads, Pcs
  <2> QED
    BY <2>1, <2>2, <2>3, Shape DEF PcTyped, PlaceFits, Places, Threads
<1>3. QueueTyped' /\ QueueFits'
  <2> DEFINE n == Len(queue)
  <2>1. queue \in Seq(Runs) /\ QueueFits /\ n \in Nat
    BY DEF IInv, TypeOK, QueueTyped
  <2>2. /\ queue' \in Seq(Runs) /\ Len(queue') = n + 1 /\ queue'[n + 1] = r
        /\ \A i \in 1..n : queue'[i] = queue[i] /\ queue[i] \in Runs
    BY <1>1, <2>1
  <2>3. \A i \in 1..n : queue[i] # r
    BY <1>1, <2>1 DEF QueueFits
  <2>4. \A i \in 1..(n + 1) : pc'[queue'[i]] = "await"
    BY <1>2, <2>1, <2>2, <2>3 DEF QueueFits
  <2>5. \A i, j \in 1..(n + 1) : queue'[i] = queue'[j] => i = j
    BY <2>1, <2>2, <2>3 DEF QueueFits
  <2> QED
    BY <2>2, <2>4, <2>5 DEF QueueTyped, QueueFits
<1>4. LockTyped'
  BY <1>1 DEF IInv, TypeOK, LockTyped, Threads
<1>5. TypeOK'
  BY <1>1, <1>2, <1>3, <1>4, TypeFrame, Zenon DEF IInv, TypeOK
<1>6. RunFits'
  <2>1. RunFit(r)
    BY DEF IInv, RunFits, RunFit
  <2>2. RunFit(r)'
    BY <1>1, <1>2, <2>1 DEF RunFit, JobFits, CertFits, FailureFits, Failed, Terminal, Posting, Undecided
  <2> QED
    BY <1>1, <1>2, <2>2, OneRun
<1>7. LockFits'
  <2>1. CASE lock = None
    <3>1. \A q \in Runs : pc'[q] \notin Posting
      BY <1>1, <1>2, <2>1, Shape DEF IInv, LockFits, Holds, Posting
    <3> QED
      BY <1>1, <2>1, <3>1, Shape DEF LockFits
  <2>2. CASE lock # None
    <3>1. UNCHANGED <<lock, drain>> /\ lock \in Threads /\ lock # r
      BY <1>1, <2>2 DEF IInv, TypeOK, LockTyped
    <3>2. Wants(lock)' \/ drain'.at = "release" \/ pc'[lock] \in Posting
      BY <1>2, <2>2, <3>1 DEF IInv, LockFits, Wants, Posting
    <3>3. \A q \in Runs : pc'[q] \in Posting => Holds(q)'
      BY <1>2, <3>1 DEF IInv, LockFits, Holds, Posting
    <3> QED
      BY <2>2, <3>1, <3>2, <3>3 DEF LockFits
  <2> QED
    BY <2>1, <2>2
<1>8. RawFits'
  BY <1>1, <1>2 DEF IInv, RawFits, Terminal
<1> QED
  BY <1>2, <1>3, <1>5, <1>6, <1>7, <1>8 DEF IInv

LEMMA LoopTicksStep == ASSUME IInv, LoopTicks PROVE IInv'
<1> USE DEF LoopTicks
<1>1. /\ pc[Loop] \in {"lock", "check"} /\ (pc[Loop] = "check" => lock # Loop) /\ UNCHANGED rawq
      /\ UNCHANGED <<row, record, pub, proof>> /\ UNCHANGED host /\ UNCHANGED <<phase, cause>>
      /\ UNCHANGED <<shutdown, plan, bound, snap, sent>> /\ UNCHANGED queue /\ UNCHANGED <<job, faults>>
      /\ UNCHANGED lock
      /\ \/ lock = Loop /\ drain.at = "off" /\ drain' = [at |-> "release", tried |-> {}]
         \/ pc[Loop] = "check" /\ UNCHANGED drain
      /\ \E x \in {"off", "lock", "check"} : pc' = [pc EXCEPT ![Loop] = x]
  BY DEF db, daemon, locking, Releases, Holds, Free
<1>2. /\ PcTyped' /\ PlaceFits' /\ pc'[Shut] = pc[Shut] /\ \A q \in Runs : pc'[q] = pc[q]
      /\ \A u \in Threads : u # Loop => pc'[u] = pc[u]
  BY <1>1, Shape DEF IInv, TypeOK, PcTyped, Pcs, PlaceFits, Threads
<1>3. LockTyped'
  BY <1>1 DEF IInv, TypeOK, LockTyped
<1>4. TypeOK'
  BY <1>1, <1>2, <1>3, TypeFrame, Zenon DEF IInv, TypeOK
<1>5. RunFits'
  BY <1>1, <1>2, RunFrame DEF IInv, RunFits, RunFit
<1>6. QueueFits'
  BY <1>1, <1>2 DEF IInv, TypeOK, QueueTyped, QueueFits
<1>7. LockFits'
  <2>1. \A q \in Runs : pc'[q] \in Posting => Holds(q)'
    BY <1>1, <1>2, Shape DEF IInv, LockFits, Holds
  <2>2. ASSUME lock # None PROVE Wants(lock)' \/ drain'.at = "release" \/ pc'[lock] \in Posting
    BY <1>1, <1>2, <2>2 DEF IInv, TypeOK, LockTyped, LockFits, Wants, Posting
  <2>3. lock' = None => drain'.at = "off"
    BY <1>1, Shape DEF IInv, LockFits
  <2> QED
    BY <1>1, <2>1, <2>2, <2>3 DEF LockFits
<1>8. RawFits'
  BY <1>1, <1>2 DEF IInv, RawFits, Terminal
<1> QED
  BY <1>2, <1>4, <1>5, <1>6, <1>7, <1>8 DEF IInv

-----------------------------------------------------------------------------
(* A run beside the lock.                                                     *)
LEMMA AsideFits ==
    ASSUME IInv, NEW r \in Runs, pc[r] \in {"run", "depart"}, Free(r),
           NEW x \in Places \ {"post", "put", "await"}, pc' = [pc EXCEPT ![r] = x],
           pc[r] = "depart" /\ ~Terminal(r) => x = "left",
           UNCHANGED <<row, record, lock, drain, rawq, queue, sent, snap>>
    PROVE  /\ PcTyped' /\ PlaceFits' /\ QueueFits' /\ LockFits' /\ RawFits'
           /\ pc'[r] = x /\ \A q \in Runs : q # r => pc'[q] = pc[q]
<1>1. /\ PcTyped' /\ PlaceFits' /\ pc'[r] = x /\ pc'[Shut] = pc[Shut]
      /\ \A u \in Threads : u # r => pc'[u] = pc[u]
      /\ \A q \in Runs : q # r => pc'[q] = pc[q]
  BY GoesStep
<1>2. QueueFits'
  <2>1. \A i \in 1..Len(queue) : queue[i] \in Runs
    BY DEF IInv, TypeOK, QueueTyped
  <2> QED
    BY <1>1, <2>1 DEF IInv, QueueFits
<1>3. LockFits'
  <2>1. ASSUME lock # None PROVE Wants(lock)' \/ drain'.at = "release" \/ pc'[lock] \in Posting
    BY <1>1, <2>1 DEF IInv, TypeOK, LockTyped, LockFits, Wants, Posting, Free
  <2> QED
    BY <1>1, <2>1 DEF IInv, LockFits, Holds, Posting
<1>4. RawFits'
  BY <1>1 DEF IInv, RawFits, Terminal
<1> QED
  BY <1>1, <1>2, <1>3, <1>4

LEMMA CancelledStep == ASSUME IInv, NEW r \in Runs, Cancelled(r) PROVE IInv'
<1>1. /\ UNCHANGED <<row, record, pub, proof>> /\ UNCHANGED host /\ UNCHANGED phase
      /\ UNCHANGED <<shutdown, plan, bound, snap, sent>> /\ UNCHANGED <<lock, drain, rawq>> /\ UNCHANGED queue
      /\ UNCHANGED pc /\ UNCHANGED <<job, faults>>
      /\ \E c \in Cancels[r] : cause' = [cause EXCEPT ![r] = c]
  BY DEF Cancelled, db, daemon, locking
<1>2. TypeOK'
  <2>1. RunsTyped'
    BY <1>1, Shape DEF IInv, TypeOK, RunsTyped
  <2> QED
    BY <1>1, <2>1, TypeFrame, Zenon DEF IInv, TypeOK
<1>3. PlaceFits' /\ QueueFits' /\ RunFits'
  BY <1>1, PlaceFrame, QueueFrame, RunsFrame DEF IInv
<1>4. LockFits' /\ RawFits'
  BY <1>1 DEF IInv, LockFits, RawFits, Wants, Holds, Terminal
<1> QED
  BY <1>2, <1>3, <1>4 DEF IInv

LEMMA AnsweredStep == ASSUME IInv, NEW r \in Runs, Answered(r) PROVE IInv'
<1>1. /\ UNCHANGED <<row, record, pub, proof>> /\ UNCHANGED host /\ UNCHANGED cause
      /\ UNCHANGED <<shutdown, plan, bound, snap, sent>> /\ UNCHANGED <<lock, drain, rawq>> /\ UNCHANGED queue
      /\ UNCHANGED pc /\ UNCHANGED <<job, faults>>
      /\ phase' = [phase EXCEPT ![r] = "watching"] /\ pc[r] = "run"
  BY DEF Answered, Works, db, daemon, locking
<1>2. RunsTyped'
  BY <1>1 DEF IInv, TypeOK, RunsTyped
<1>3. TypeOK'
  BY <1>1, <1>2, TypeFrame, Zenon DEF IInv, TypeOK
<1>4. PlaceFits' /\ QueueFits'
  BY <1>1, PlaceFrame, QueueFrame DEF IInv
<1>5. RunFits'
  <2>1. RunFit(r) /\ phase'[r] = "watching" /\ \A q \in Runs : q # r => phase'[q] = phase[q]
    BY <1>1 DEF IInv, TypeOK, RunsTyped, RunFits, RunFit
  <2>2. RunFit(r)'
    BY <1>1, <2>1 DEF RunFit, JobFits, CertFits, FailureFits, Failed, Terminal
  <2> QED
    BY <1>1, <2>1, <2>2, OneRun
<1>6. LockFits' /\ RawFits'
  BY <1>1 DEF IInv, LockFits, RawFits, Wants, Holds, Terminal
<1> QED
  BY <1>3, <1>4, <1>5, <1>6 DEF IInv

LEMMA InvalidateStep == ASSUME IInv, NEW r \in Runs, InvalidateStatusValidation(r) PROVE IInv'
<1>1. /\ UNCHANGED <<row, record>> /\ UNCHANGED host /\ UNCHANGED <<phase, cause>>
      /\ UNCHANGED <<shutdown, plan, bound, snap, sent>> /\ UNCHANGED <<lock, drain, rawq>> /\ UNCHANGED queue
      /\ UNCHANGED pc /\ UNCHANGED <<job, faults>>
      /\ proof' = [proof EXCEPT ![r] = FALSE] /\ pub' = [pub EXCEPT ![r] = Revoked(@)]
  BY DEF InvalidateStatusValidation, daemon, locking
<1>2. StoreTyped /\ RunFit(r) /\ pub[r] \in Publications
  BY DEF IInv, TypeOK, StoreTyped, RunFits, RunFit
<1>3. /\ Revoked(pub[r]) \in Publications /\ Revoked(pub[r]).last = pub[r].last
      /\ Revoked(pub[r]).validated = pub[r].validated
      /\ ~Revoked(pub[r]).cert /\ ~Revoked(pub[r]).preserve
  BY <1>2, RevokedType DEF Revoked, Publications
<1>4. StoreTyped' /\ pub'[r] = Revoked(pub[r]) /\ \A q \in Runs : q # r => pub'[q] = pub[q]
  BY <1>1, <1>2, <1>3 DEF StoreTyped
<1>5. TypeOK'
  BY <1>1, <1>4, TypeFrame, Zenon DEF IInv, TypeOK
<1>6. PlaceFits' /\ QueueFits'
  BY <1>1, PlaceFrame, QueueFrame DEF IInv
<1>7. RunFits'
  <2>1. RunFit(r)'
    BY <1>1, <1>2, <1>3, <1>4 DEF RunFit, JobFits, CertFits, FailureFits, Failed, Terminal
  <2> QED
    BY <1>1, <1>4, <2>1, OneRun
<1>8. LockFits' /\ RawFits'
  BY <1>1 DEF IInv, LockFits, RawFits, Wants, Holds, Terminal
<1> QED
  BY <1>5, <1>6, <1>7, <1>8 DEF IInv

\* A run at work goes to its report, to its completion or to its failure.
LEMMA GoesOn ==
    ASSUME IInv, NEW r \in Runs, Works(r), NEW x \in {"report", "complete", "fail"}, Goes(r, x),
           x = "report" => phase[r] = "watching",
           UNCHANGED <<row, record, pub, proof, host, phase, cause, shutdown, plan, bound, snap, sent,
                       lock, drain, rawq, queue, faults>>,
           job' = job \/ job' = [job EXCEPT ![r] = OwnFailure(r)]
    PROVE  IInv'
<1>1. /\ PcTyped' /\ PlaceFits' /\ QueueFits' /\ LockFits' /\ RawFits'
      /\ pc'[r] = x /\ \A q \in Runs : q # r => pc'[q] = pc[q]
  <2>1. x \in Places \ {"post", "put", "await"} /\ pc[r] = "run" /\ Free(r) /\ pc' = [pc EXCEPT ![r] = x]
    BY DEF Places, Works, Goes
  <2> QED
    BY <2>1, AsideFits
<1>2. job \in [Runs -> Jobs] /\ faults \in Nat /\ RunFit(r) /\ OwnFailure(r) \in Jobs
  BY OwnFailureType DEF IInv, TypeOK, JobTyped, RunFits, RunFit
<1>3. JobTyped'
  <2>1. job' \in [Runs -> Jobs]
    BY <1>2, Zenon
  <2> QED
    BY <1>2, <2>1 DEF JobTyped
<1>4. TypeOK'
  BY <1>1, <1>3, TypeFrame, Zenon DEF IInv, TypeOK
<1>5. RunFits'
  <2>1. /\ job'[r].explicit \/ job'[r].status = "cancelled" => job'[r].err = "cancel"
        /\ \A q \in Runs : q # r => job'[q] = job[q]
    <3>1. CASE job' = job
      BY <1>2, <3>1 DEF RunFit, JobFits
    <3>2. CASE job' = [job EXCEPT ![r] = OwnFailure(r)]
      <4>1. job'[r] = OwnFailure(r) /\ \A q \in Runs : q # r => job'[q] = job[q]
        BY <1>2, <3>2, Zenon
      <4>2. OwnFailure(r).explicit = FALSE /\ OwnFailure(r).status = "failed"
        BY <1>2 DEF OwnFailure, Jobs
      <4> QED
        BY <4>1, <4>2
    <3> QED
      BY <3>1, <3>2
  <2>2. RunFit(r)'
    BY <1>1, <1>2, <2>1
       DEF Works, RunFit, JobFits, CertFits, FailureFits, Failed, Terminal, Posting, Undecided
  <2> QED
    BY <1>1, <2>1, <2>2, OneRun
<1> QED
  BY <1>1, <1>4, <1>5 DEF IInv

LEMMA ProceedsStep == ASSUME IInv, NEW r \in Runs, Proceeds(r) PROVE IInv'
<1>1. CASE PublishedHeadValidated(r)
  BY <1>1, GoesOn DEF PublishedHeadValidated, db, daemon, locking
<1>2. CASE Completes(r)
  BY <1>2, GoesOn DEF Completes, db, daemon, locking
<1>3. CASE Fails(r)
  BY <1>3, GoesOn DEF Fails, db, daemon, locking
<1> QED
  BY <1>1, <1>2, <1>3, AnsweredStep, InvalidateStep DEF Proceeds

LEMMA StopsStep == ASSUME IInv, NEW r \in Runs, Stops(r) PROVE IInv'
<1> USE DEF Stops
<1> DEFINE leaves == LeftForRecovery(r)
           x == IF leaves THEN "settle" ELSE "fail"
           cancels == cause[r] \in {"abort", "superseded"} \/ Controlled(r)
           explicit == cause[r] = "abort" \/ Controlled(r)
           j == IF leaves THEN [job[r] EXCEPT !.kind = "leave"]
                ELSE [job[r] EXCEPT !.kind = "fail", !.err = "cancel",
                                    !.status = IF cancels THEN "cancelled" ELSE "failed",
                                    !.explicit = explicit, !.controlled = Controlled(r)]
<1>1. /\ UNCHANGED <<row, record, pub, proof>> /\ UNCHANGED host /\ UNCHANGED <<phase, cause>>
      /\ UNCHANGED <<shutdown, plan, bound, snap, sent>> /\ UNCHANGED <<lock, drain, rawq>> /\ UNCHANGED queue
      /\ UNCHANGED faults /\ pc[r] = "run" /\ Free(r) /\ pc' = [pc EXCEPT ![r] = x]
  BY DEF Works, Goes, db, daemon, locking
<1>2. job \in [Runs -> Jobs] /\ job[r] \in Jobs /\ faults \in Nat /\ RunFit(r)
  BY DEF IInv, TypeOK, JobTyped, RunFits, RunFit
<1>3. explicit \in BOOLEAN /\ Controlled(r) \in BOOLEAN
  BY DEF Controlled
<1>4. j \in Jobs /\ (j.explicit \/ j.status = "cancelled" => j.err = "cancel")
  BY <1>2, <1>3 DEF Jobs, RunFit, JobFits
<1>5. job' = [job EXCEPT ![r] = j]
  BY <1>2
<1> HIDE DEF j, explicit, cancels
<1>6. job' \in [Runs -> Jobs] /\ job'[r] = j /\ \A q \in Runs : q # r => job'[q] = job[q]
  BY <1>2, <1>4, <1>5
<1>7. /\ PcTyped' /\ PlaceFits' /\ QueueFits' /\ LockFits' /\ RawFits'
      /\ pc'[r] = x /\ \A q \in Runs : q # r => pc'[q] = pc[q]
  <2>1. x \in Places \ {"post", "put", "await"}
    BY DEF Places
  <2> QED
    BY <1>1, <2>1, AsideFits
<1>8. TypeOK'
  BY <1>1, <1>2, <1>6, <1>7, TypeFrame, Zenon DEF IInv, TypeOK, JobTyped
<1>9. RunFits'
  <2>1. RunFit(r)'
    BY <1>1, <1>2, <1>4, <1>6, <1>7
       DEF RunFit, JobFits, CertFits, FailureFits, Failed, Terminal, Posting, Undecided
  <2> QED
    BY <1>1, <1>6, <1>7, <2>1, OneRun
<1> QED
  BY <1>7, <1>8, <1>9 DEF IInv

LEMMA DepartsStep == ASSUME IInv, NEW r \in Runs, Departs(r) PROVE IInv'
<1> USE DEF Departs
<1> DEFINE x == IF job[r].kind = "leave" THEN "left" ELSE "gone"
<1>1. /\ UNCHANGED <<row, record, pub, proof>> /\ UNCHANGED host /\ UNCHANGED <<phase, cause>>
      /\ UNCHANGED <<shutdown, plan, bound, snap, sent>> /\ UNCHANGED <<lock, drain, rawq>> /\ UNCHANGED queue
      /\ UNCHANGED faults /\ pc[r] = "depart" /\ Free(r) /\ pc' = [pc EXCEPT ![r] = x]
      /\ job' = [job EXCEPT ![r] = NoJob]
  BY DEF Goes, db, daemon, locking
<1>2. job \in [Runs -> Jobs] /\ faults \in Nat /\ RunFit(r) /\ (Terminal(r) <=> job[r].kind # "leave")
  BY <1>1 DEF IInv, TypeOK, JobTyped, RunFits, RunFit, JobFits
<1>3. job' \in [Runs -> Jobs] /\ job'[r] = NoJob /\ \A q \in Runs : q # r => job'[q] = job[q]
  BY <1>1, <1>2, NoJobType, Zenon
<1>4. NoJob.explicit = FALSE /\ NoJob.status = "failed"
  BY DEF NoJob
<1>5. /\ PcTyped' /\ PlaceFits' /\ QueueFits' /\ LockFits' /\ RawFits'
      /\ pc'[r] = x /\ \A q \in Runs : q # r => pc'[q] = pc[q]
  <2>1. x \in Places \ {"post", "put", "await"}
    BY DEF Places
  <2>2. ~Terminal(r) => x = "left"
    BY <1>2
  <2> QED
    BY <1>1, <2>1, <2>2, AsideFits
<1>6. TypeOK'
  BY <1>1, <1>2, <1>3, <1>5, TypeFrame, Zenon DEF IInv, TypeOK, JobTyped
<1>7. RunFits'
  <2>1. RunFit(r)'
    BY <1>1, <1>2, <1>3, <1>4, <1>5
       DEF RunFit, JobFits, CertFits, FailureFits, Failed, Terminal, Posting, Undecided
  <2> QED
    BY <1>1, <1>3, <1>5, <2>1, OneRun
<1> QED
  BY <1>5, <1>6, <1>7 DEF IInv

-----------------------------------------------------------------------------
(* The holder of the lock at its work.                                        *)
Working == {"complete", "fail", "report", "post", "put"}

LEMMA HolderFits ==
    ASSUME IInv, NEW r \in Runs, pc[r] \in Working, Holds(r),
           NEW x \in Places \ {"await"}, pc' = [pc EXCEPT ![r] = x],
           IF x \in Posting THEN UNCHANGED drain ELSE drain' = [at |-> "release", tried |-> {}],
           UNCHANGED <<lock, rawq, queue, sent, snap, record>>,
           \A q \in Runs : ~Terminal(q)' => ~Terminal(q)
    PROVE  /\ PcTyped' /\ PlaceFits' /\ QueueFits' /\ LockFits' /\ LockTyped' /\ RawFits'
           /\ pc'[r] = x /\ \A q \in Runs : q # r => pc'[q] = pc[q]
<1>1. /\ PcTyped' /\ PlaceFits' /\ pc'[r] = x /\ pc'[Shut] = pc[Shut]
      /\ \A u \in Threads : u # r => pc'[u] = pc[u]
      /\ \A q \in Runs : q # r => pc'[q] = pc[q]
  BY GoesStep
<1>2. QueueFits'
  <2>1. \A i \in 1..Len(queue) : queue[i] \in Runs
    BY DEF IInv, TypeOK, QueueTyped
  <2> QED
    BY <1>1, <2>1 DEF IInv, QueueFits, Working
<1>3. LockFits'
  BY <1>1, Shape DEF IInv, LockFits, Holds, Posting
<1>4. LockTyped'
  <2>1. CASE x \in Posting
    BY <2>1 DEF IInv, TypeOK, LockTyped
  <2>2. CASE x \notin Posting
    BY <2>2 DEF IInv, TypeOK, LockTyped
  <2> QED
    BY <2>1, <2>2
<1>5. RawFits'
  <2>1. ~(sent /\ rawq)
    BY Shape DEF IInv, RawFits, Holds
  <2>2. \A q \in Runs : sent /\ ~rawq /\ q \in snap /\ ~Terminal(q)
                          => record[q] = "raw" \/ (q # r /\ pc[q] \in {"depart", "left"})
    BY DEF IInv, RawFits, Working
  <2>3. \A q \in Runs : (sent /\ ~rawq /\ q \in snap /\ ~Terminal(q) => record[q] = "raw" \/ pc[q] \in {"depart", "left"})'
    BY <1>1, <2>2
  <2> QED
    BY <1>1, <2>1, <2>3 DEF IInv, RawFits
<1> QED
  BY <1>1, <1>2, <1>3, <1>4, <1>5

LEMMA CompleteRunStep == ASSUME IInv, NEW r \in Runs, CompleteRun(r) PROVE IInv'
<1> USE DEF CompleteRun
<1>1. /\ UNCHANGED <<record, proof>> /\ UNCHANGED host /\ UNCHANGED <<phase, cause>>
      /\ UNCHANGED <<shutdown, plan, bound, snap, sent>> /\ UNCHANGED <<lock, rawq>> /\ UNCHANGED queue
      /\ pc[r] = "complete" /\ Holds(r) /\ drain' = [at |-> "release", tried |-> {}]
  BY DEF Releases, daemon
<1>2. StoreTyped /\ job \in [Runs -> Jobs] /\ RunFit(r) /\ ~Terminal(r) /\ pub[r] \in Publications
  BY <1>1 DEF IInv, TypeOK, StoreTyped, JobTyped, RunFits, RunFit, JobFits, Undecided
<1>3. faults' \in Nat
  BY DEF IInv, TypeOK, JobTyped, Taken, Refuses, Fault, NoFault
<1>4. SUFFICES ASSUME NEW x \in {"report", "fail"}, Goes(r, x), NEW j \in Jobs, job' = [job EXCEPT ![r] = j],
                      NEW s \in Outcomes \cup {"running"}, row' = [row EXCEPT ![r] = s],
                      NEW p \in Publications, pub' = [pub EXCEPT ![r] = p],
                      \/ x = "report" /\ s = "failed" /\ p = Revoked(pub[r]) /\ j = Told
                      \/ x = "report" /\ s = "completed" /\ p = pub[r] /\ record[r] # "raw"
                         /\ j = [NoJob EXCEPT !.reports = 1]
                      \/ x = "fail" /\ s = row[r] /\ p = pub[r] /\ j = OwnFailure(r)
               PROVE  IInv'
  <2>1. CASE Taken(r) /\ record[r] = "raw" /\ RecordIneligibleTerminal(r, "failed") /\ Goes(r, "report")
             /\ job' = [job EXCEPT ![r] = Told]
    <3>1. row' = [row EXCEPT ![r] = "failed"] /\ pub' = [pub EXCEPT ![r] = Revoked(pub[r])]
      BY <1>2, <2>1, RecordsIneligible
    <3>2. Revoked(pub[r]) \in Publications /\ Told \in Jobs /\ "failed" \in Outcomes
      BY <1>2, RevokedType, ToldType DEF Outcomes
    <3> QED
      BY <1>4, <2>1, <3>1, <3>2
  <2>2. CASE Taken(r) /\ record[r] # "raw" /\ row' = [row EXCEPT ![r] = "completed"] /\ UNCHANGED pub
             /\ Goes(r, "report") /\ job' = [job EXCEPT ![r] = [NoJob EXCEPT !.reports = 1]]
    <3>1. pub' = [pub EXCEPT ![r] = pub[r]]
      BY <1>2, <2>2 DEF StoreTyped
    <3>2. [NoJob EXCEPT !.reports = 1] \in Jobs /\ "completed" \in Outcomes
      BY ToldType DEF Outcomes
    <3> QED
      BY <1>2, <1>4, <2>2, <3>1, <3>2
  <2>3. CASE Refuses(r) /\ Goes(r, "fail") /\ job' = [job EXCEPT ![r] = OwnFailure(r)] /\ UNCHANGED <<row, pub>>
    <3>1. pub' = [pub EXCEPT ![r] = pub[r]] /\ row' = [row EXCEPT ![r] = row[r]]
          /\ row[r] \in Outcomes \cup {"running"}
      BY <1>2, <2>3 DEF StoreTyped
    <3>2. OwnFailure(r) \in Jobs
      BY <1>2, OwnFailureType
    <3> QED
      BY <1>2, <1>4, <2>3, <3>1, <3>2
  <2> QED
    BY <2>1, <2>2, <2>3
<1>5. /\ row'[r] = s /\ pub'[r] = p /\ job'[r] = j /\ job' \in [Runs -> Jobs] /\ StoreTyped'
      /\ \A q \in Runs : q # r => row'[q] = row[q] /\ pub'[q] = pub[q] /\ job'[q] = job[q]
  BY <1>1, <1>2, <1>4 DEF StoreTyped
<1>6. s \in Outcomes \/ s = row[r]
  BY <1>4 DEF Outcomes
<1>7. /\ PcTyped' /\ PlaceFits' /\ QueueFits' /\ LockFits' /\ LockTyped' /\ RawFits'
      /\ pc'[r] = x /\ \A q \in Runs : q # r => pc'[q] = pc[q]
  <2>1. x \in Places \ {"await"} /\ x \notin Posting /\ pc[r] \in Working /\ pc' = [pc EXCEPT ![r] = x]
    BY <1>1, <1>4 DEF Places, Posting, Working, Goes
  <2>2. \A q \in Runs : ~Terminal(q)' => ~Terminal(q)
    BY <1>2, <1>5, <1>6 DEF Terminal
  <2> QED
    BY <1>1, <2>1, <2>2, HolderFits
<1>8. TypeOK'
  BY <1>1, <1>3, <1>5, <1>7, TypeFrame, Zenon DEF IInv, TypeOK, JobTyped
<1>9. RunFits'
  <2>1. CASE x = "report" /\ s = "failed" /\ p = Revoked(pub[r]) /\ j = Told
    <3>1. p.last = pub[r].last /\ ~p.cert /\ ~p.preserve
      BY <1>2, <2>1 DEF Revoked, Publications
    <3>2. RunFit(r)'
      BY <1>1, <1>2, <1>5, <1>7, <2>1, <3>1, DecidedFits DEF Undecided
    <3> QED
      BY <1>1, <1>5, <1>7, <3>2, OneRun
  <2>2. CASE x = "report" /\ s = "completed" /\ p = pub[r] /\ record[r] # "raw" /\ j = [NoJob EXCEPT !.reports = 1]
    <3>1. j.explicit = FALSE /\ j.status = "failed"
      BY <2>2 DEF NoJob
    <3>2. host[r] # "failure" /\ pub[r].last # "failure"
      BY <1>1, <1>2, <2>2 DEF RunFit, FailureFits, Failed, Terminal, Outcomes
    <3>3. Terminal(r)' /\ phase'[r] = phase[r] /\ record'[r] = record[r] /\ host'[r] = host[r]
      BY <1>1, <1>5, <2>2 DEF Terminal, Outcomes
    <3>4. RunFit(r)'
      BY <1>1, <1>2, <1>5, <1>7, <2>2, <3>1, <3>2, <3>3
         DEF RunFit, JobFits, CertFits, FailureFits, Posting, Undecided
    <3> QED
      BY <1>1, <1>5, <1>7, <3>4, OneRun
  <2>3. CASE x = "fail" /\ s = row[r] /\ p = pub[r] /\ j = OwnFailure(r)
    <3>1. j.explicit = FALSE /\ j.status = "failed"
      BY <1>2, <2>3 DEF OwnFailure, Jobs
    <3>2. RunFit(r)'
      BY <1>1, <1>2, <1>5, <1>7, <2>3, <3>1
         DEF RunFit, JobFits, CertFits, FailureFits, Failed, Terminal, Posting, Undecided
    <3> QED
      BY <1>1, <1>5, <1>7, <3>2, OneRun
  <2> QED
    BY <1>4, <2>1, <2>2, <2>3
<1> QED
  BY <1>7, <1>8, <1>9 DEF IInv

LEMMA FailRunStep == ASSUME IInv, NEW r \in Runs, FailRun(r) PROVE IInv'
<1> USE DEF FailRun
<1>1. /\ UNCHANGED <<record, proof>> /\ UNCHANGED host /\ UNCHANGED <<phase, cause>>
      /\ UNCHANGED <<shutdown, plan, bound, snap, sent>> /\ UNCHANGED <<lock, rawq>> /\ UNCHANGED queue
      /\ pc[r] = "fail" /\ Holds(r) /\ drain' = [at |-> "release", tried |-> {}]
  BY DEF Releases, daemon
<1>2. StoreTyped /\ job \in [Runs -> Jobs] /\ RunFit(r) /\ ~Terminal(r) /\ pub[r] \in Publications
  BY <1>1 DEF IInv, TypeOK, StoreTyped, JobTyped, RunFits, RunFit, JobFits, Undecided
<1>3. faults' \in Nat
  BY DEF IInv, TypeOK, JobTyped, Taken, Refuses, Fault, NoFault
<1>4. CASE TerminalWrite(r) /\ Goes(r, "report") /\ job' = [job EXCEPT ![r] = Told]
  <2>1. PICK p \in Publications :
            /\ row' = [row EXCEPT ![r] = Status(r)] /\ pub' = [pub EXCEPT ![r] = p]
            /\ p.last = pub[r].last /\ (p.cert => pub[r].cert) /\ (p.preserve => p.cert)
    BY <1>2, <1>4, TerminalWrites
  <2>2. Status(r) \in {"failed", "cancelled"}
    BY <1>2, StatusType
  <2>3. /\ row'[r] = Status(r) /\ pub'[r] = p /\ StoreTyped'
        /\ \A q \in Runs : q # r => row'[q] = row[q] /\ pub'[q] = pub[q]
    BY <1>1, <1>2, <2>1, <2>2 DEF StoreTyped, Outcomes
  <2>4. job'[r] = Told /\ job' \in [Runs -> Jobs] /\ \A q \in Runs : q # r => job'[q] = job[q]
    BY <1>2, <1>4, ToldType, Zenon
  <2>5. /\ PcTyped' /\ PlaceFits' /\ QueueFits' /\ LockFits' /\ LockTyped' /\ RawFits'
        /\ pc'[r] = "report" /\ \A q \in Runs : q # r => pc'[q] = pc[q]
    <3>1. "report" \in Places \ {"await"} /\ "report" \notin Posting /\ pc[r] \in Working
          /\ pc' = [pc EXCEPT ![r] = "report"]
      BY <1>1, <1>4 DEF Places, Posting, Working, Goes
    <3>2. \A q \in Runs : ~Terminal(q)' => ~Terminal(q)
      BY <1>2, <2>3 DEF Terminal
    <3> QED
      BY <1>1, <3>1, <3>2, HolderFits
  <2>6. TypeOK'
    BY <1>1, <1>3, <2>3, <2>4, <2>5, TypeFrame, Zenon DEF IInv, TypeOK, JobTyped
  <2>7. RunFits'
    <3>1. RunFit(r)'
      BY <1>1, <1>2, <2>1, <2>2, <2>3, <2>4, <2>5, DecidedFits DEF Undecided
    <3> QED
      BY <1>1, <2>3, <2>4, <2>5, <3>1, OneRun
  <2> QED
    BY <2>5, <2>6, <2>7 DEF IInv
<1>5. CASE Retries(r) /\ Goes(r, "settle") /\ UNCHANGED <<row, pub>>
  <2>1. /\ job' \in [Runs -> Jobs] /\ \A q \in Runs : q # r => job'[q] = job[q]
        /\ job'[r].explicit \/ job'[r].status = "cancelled" => job'[r].err = "cancel"
    BY <1>5, RetriesFit
  <2>2. /\ PcTyped' /\ PlaceFits' /\ QueueFits' /\ LockFits' /\ LockTyped' /\ RawFits'
        /\ pc'[r] = "settle" /\ \A q \in Runs : q # r => pc'[q] = pc[q]
    <3>1. "settle" \in Places \ {"await"} /\ "settle" \notin Posting /\ pc[r] \in Working
          /\ pc' = [pc EXCEPT ![r] = "settle"]
      BY <1>1, <1>5 DEF Places, Posting, Working, Goes
    <3>2. \A q \in Runs : ~Terminal(q)' => ~Terminal(q)
      BY <1>5 DEF Terminal
    <3> QED
      BY <1>1, <3>1, <3>2, HolderFits
  <2>3. TypeOK'
    BY <1>1, <1>3, <1>5, <2>1, <2>2, TypeFrame, Zenon DEF IInv, TypeOK, JobTyped
  <2>4. RunFits'
    <3>1. RunFit(r)'
      BY <1>1, <1>2, <1>5, <2>1, <2>2
         DEF RunFit, JobFits, CertFits, FailureFits, Failed, Terminal, Posting, Undecided
    <3> QED
      BY <1>1, <1>5, <2>1, <2>2, <3>1, OneRun
  <2> QED
    BY <2>2, <2>3, <2>4 DEF IInv
<1> QED
  BY <1>4, <1>5

-----------------------------------------------------------------------------
(* The reporter.                                                              *)
LEMMA ReportedBackFits ==
    ASSUME IInv, NEW r \in Runs, pc[r] \in {"report", "post", "put"}, Holds(r), ReportsBack(r),
           UNCHANGED <<row, record, sent, snap, queue>>
    PROVE  /\ PcTyped' /\ PlaceFits' /\ QueueFits' /\ LockFits' /\ LockTyped' /\ RawFits'
           /\ job' \in [Runs -> Jobs] /\ \A q \in Runs : q # r => pc'[q] = pc[q] /\ job'[q] = job[q]
           /\ job'[r].explicit = FALSE /\ job'[r].status = "failed" /\ job'[r].kind = "none"
           /\ pc'[r] = IF Terminal(r) THEN IF job[r].reports > 1 THEN "report" ELSE "depart" ELSE "run"
<1>1. /\ AfterReport(r) \in Places \ {"await"} /\ AfterReport(r) \notin Posting /\ pc[r] \in Working
      /\ pc' = [pc EXCEPT ![r] = AfterReport(r)] /\ UNCHANGED <<lock, rawq>>
      /\ drain' = [at |-> "release", tried |-> {}]
  BY DEF ReportsBack, Releases, Goes, AfterReport, Places, Posting, Working
<1>2. \A q \in Runs : ~Terminal(q)' => ~Terminal(q)
  BY DEF Terminal
<1>3. /\ PcTyped' /\ PlaceFits' /\ QueueFits' /\ LockFits' /\ LockTyped' /\ RawFits'
      /\ pc'[r] = AfterReport(r) /\ \A q \in Runs : q # r => pc'[q] = pc[q]
  BY <1>1, <1>2, HolderFits
<1>4. job \in [Runs -> Jobs] /\ OneLess(r) \in Jobs
  BY OneLessType DEF IInv, TypeOK, JobTyped
<1>5. job' \in [Runs -> Jobs] /\ job'[r] = OneLess(r) /\ \A q \in Runs : q # r => job'[q] = job[q]
  BY <1>4, Zenon DEF ReportsBack
<1>6. OneLess(r).explicit = FALSE /\ OneLess(r).status = "failed" /\ OneLess(r).kind = "none"
  BY DEF OneLess, NoJob
<1> QED
  BY <1>3, <1>5, <1>6 DEF AfterReport

LEMMA ReadsStep == ASSUME IInv, NEW r \in Runs, Reads(r) PROVE IInv'
<1> USE DEF Reads
<1>1. /\ UNCHANGED <<row, record, proof>> /\ UNCHANGED host /\ UNCHANGED <<phase, cause>>
      /\ UNCHANGED <<shutdown, plan, bound, snap, sent>> /\ UNCHANGED <<lock, rawq>> /\ UNCHANGED queue
      /\ pc[r] = "report" /\ Holds(r)
  BY DEF ReportsBack, RevokeStatusCertificate, Releases, daemon
<1>2. StoreTyped /\ job \in [Runs -> Jobs] /\ RunFit(r) /\ pub[r] \in Publications
  BY DEF IInv, TypeOK, StoreTyped, JobTyped, RunFits, RunFit
<1>3. faults' \in Nat
  BY DEF IInv, TypeOK, JobTyped, Fault, NoFault
<1>4. /\ Validates(r) \in Publications /\ Validates(r).last = pub[r].last /\ Validates(r).cert = pub[r].cert
      /\ Validates(r).preserve = pub[r].preserve
      /\ Terminal(r) => Validates(r).validated = pub[r].validated
  BY <1>2 DEF Validates, Publications
<1>5. CASE ReportsBack(r) /\ pub' \in {pub, [pub EXCEPT ![r] = Validates(r)]}
  <2>1. /\ PcTyped' /\ PlaceFits' /\ QueueFits' /\ LockFits' /\ LockTyped' /\ RawFits'
        /\ job' \in [Runs -> Jobs] /\ \A q \in Runs : q # r => pc'[q] = pc[q] /\ job'[q] = job[q]
        /\ job'[r].explicit = FALSE /\ job'[r].status = "failed" /\ job'[r].kind = "none"
        /\ pc'[r] = IF Terminal(r) THEN IF job[r].reports > 1 THEN "report" ELSE "depart" ELSE "run"
    BY <1>1, <1>5, ReportedBackFits
  <2>2. /\ StoreTyped' /\ pub'[r].last = pub[r].last /\ pub'[r].cert = pub[r].cert
        /\ pub'[r].preserve = pub[r].preserve /\ (Terminal(r) => pub'[r].validated = pub[r].validated)
        /\ \A q \in Runs : q # r => pub'[q] = pub[q]
    BY <1>1, <1>2, <1>4, <1>5 DEF StoreTyped
  <2>3. TypeOK'
    BY <1>1, <1>3, <2>1, <2>2, TypeFrame, Zenon DEF IInv, TypeOK, JobTyped
  <2>4. RunFits'
    <3>1. RunFit(r)'
      BY <1>1, <1>2, <2>1, <2>2
         DEF RunFit, JobFits, CertFits, FailureFits, Failed, Terminal, Outcomes, Posting, Undecided
    <3> QED
      BY <1>1, <2>1, <2>2, <3>1, OneRun
  <2> QED
    BY <2>1, <2>3, <2>4 DEF IInv
<1>6. CASE ~NothingToReport(r) /\ RevokeStatusCertificate(r)
  <2>1. /\ pub' = [pub EXCEPT ![r] = Revoked(Validates(r))] /\ pc' = [pc EXCEPT ![r] = "post"]
        /\ job' = [job EXCEPT ![r].state = ReportedState(r), ![r].cert = NewCertificate(r)]
        /\ UNCHANGED drain
    BY <1>6 DEF RevokeStatusCertificate, Goes
  <2>2. /\ PcTyped' /\ PlaceFits' /\ QueueFits' /\ LockFits' /\ LockTyped' /\ RawFits'
        /\ pc'[r] = "post" /\ \A q \in Runs : q # r => pc'[q] = pc[q]
    <3>1. "post" \in Places \ {"await"} /\ "post" \in Posting /\ pc[r] \in Working
      BY <1>1 DEF Places, Posting, Working
    <3>2. \A q \in Runs : ~Terminal(q)' => ~Terminal(q)
      BY <1>1 DEF Terminal
    <3> QED
      BY <1>1, <2>1, <3>1, <3>2, HolderFits
  <2>3. /\ Revoked(Validates(r)) \in Publications
        /\ Revoked(Validates(r)).last = pub[r].last /\ ~Revoked(Validates(r)).cert
        /\ ~Revoked(Validates(r)).preserve
        /\ Terminal(r) => Revoked(Validates(r)).validated = pub[r].validated
    BY <1>4, RevokedType DEF Revoked, Publications
  <2>4. /\ StoreTyped' /\ pub'[r] = Revoked(Validates(r)) /\ \A q \in Runs : q # r => pub'[q] = pub[q]
    BY <1>1, <1>2, <2>1, <2>3 DEF StoreTyped
  <2>5. /\ ReportedState(r) \in {"success", "failure"} /\ NewCertificate(r) \in BOOLEAN
        /\ NewCertificate(r) => ReportedState(r) = "success"
    BY <1>2 DEF ReportedState, NewCertificate, StoreTyped
  <2>6. /\ job' \in [Runs -> Jobs] /\ job'[r].state = ReportedState(r) /\ job'[r].cert = NewCertificate(r)
        /\ job'[r].explicit = job[r].explicit /\ job'[r].status = job[r].status /\ job'[r].err = job[r].err
        /\ \A q \in Runs : q # r => job'[q] = job[q]
    <3> DEFINE j == [job[r] EXCEPT !.state = ReportedState(r), !.cert = NewCertificate(r)]
    <3>1. /\ j \in Jobs /\ j.state = ReportedState(r) /\ j.cert = NewCertificate(r)
          /\ j.explicit = job[r].explicit /\ j.status = job[r].status /\ j.err = job[r].err
      <4> DEFINE s == ReportedState(r)
                 c == NewCertificate(r)
      <4>1. job[r] \in Jobs /\ s \in {"success", "failure"} /\ c \in BOOLEAN
        BY <1>2, <2>5
      <4> HIDE DEF s, c
      <4>2. /\ [job[r] EXCEPT !.state = s, !.cert = c] \in Jobs
            /\ [job[r] EXCEPT !.state = s, !.cert = c].state = s
            /\ [job[r] EXCEPT !.state = s, !.cert = c].cert = c
            /\ [job[r] EXCEPT !.state = s, !.cert = c].explicit = job[r].explicit
            /\ [job[r] EXCEPT !.state = s, !.cert = c].status = job[r].status
            /\ [job[r] EXCEPT !.state = s, !.cert = c].err = job[r].err
        BY <4>1 DEF Jobs
      <4> QED
        BY <4>2 DEF s, c
    <3>2. job' = [job EXCEPT ![r] = j]
      BY <1>2, <2>1 DEF Jobs
    <3> HIDE DEF j
    <3> QED
      BY <1>2, <3>1, <3>2
  <2>7. TypeOK'
    BY <1>1, <1>3, <2>2, <2>4, <2>6, TypeFrame, Zenon DEF IInv, TypeOK, JobTyped
  <2>8. RunFits'
    <3>1. ReportedState(r) = "failure" => Failed(r)
      BY DEF ReportedState, Failed
    <3>2. Failed(r) => ReportedState(r) = "failure"
      BY <1>1 DEF ReportedState, Failed
    <3>3. pub[r].last # "failure"
      BY <1>2, <1>6, <3>2 DEF RunFit, FailureFits, NothingToReport, NewCertificate
    <3>4. Terminal(r) \/ phase[r] # "parked"
      BY <1>1, <1>2 DEF RunFit, JobFits
    <3>5. Failed(r) => Failed(r)'
      BY <1>1, <2>2, <2>3, <2>4 DEF Failed, Terminal, Outcomes
    <3>6. JobFits(r)'
      BY <1>1, <1>2, <2>2, <2>6 DEF RunFit, JobFits, Terminal, Undecided
    <3>7. CertFits(r)'
      BY <1>1, <1>2, <2>2, <2>3, <2>4, <2>5, <2>6 DEF RunFit, CertFits, Posting
    <3>8. FailureFits(r)'
      BY <1>1, <1>2, <2>2, <2>3, <2>4, <2>6, <3>1, <3>3, <3>4, <3>5 DEF RunFit, FailureFits, Terminal
    <3> QED
      BY <1>1, <2>2, <2>4, <2>6, <3>6, <3>7, <3>8, OneRun DEF RunFit
  <2> QED
    BY <2>2, <2>7, <2>8 DEF IInv
<1> QED
  BY <1>5, <1>6

LEMMA PostsStep == ASSUME IInv, NEW r \in Runs, Posts(r) PROVE IInv'
<1> USE DEF Posts
<1>1. /\ UNCHANGED <<row, record, pub, proof>> /\ UNCHANGED <<phase, cause>>
      /\ UNCHANGED <<shutdown, plan, bound, snap, sent>> /\ UNCHANGED <<lock, rawq>> /\ UNCHANGED queue
      /\ pc[r] = "post"
  BY DEF ReportsBack, Releases, db, daemon
<1>2. /\ RunFit(r) /\ Holds(r) /\ ~pub[r].cert /\ job[r].state \in {"success", "failure"}
      /\ job \in [Runs -> Jobs] /\ host \in [Runs -> {"pending", "success", "failure"}]
  BY <1>1 DEF IInv, TypeOK, HostTyped, JobTyped, Jobs, LockFits, RunFits, RunFit, CertFits, Posting
<1>3. faults' \in Nat
  BY DEF IInv, TypeOK, JobTyped, PostFails, Fault, NoFault
<1>4. HostTyped' /\ host'[r] \in {host[r], job[r].state} /\ \A q \in Runs : q # r => host'[q] = host[q]
  BY <1>2 DEF HostTyped
<1>5. CASE host' = [host EXCEPT ![r] = job[r].state] /\ Goes(r, "put") /\ UNCHANGED <<drain, job>>
  <2>1. /\ PcTyped' /\ PlaceFits' /\ QueueFits' /\ LockFits' /\ LockTyped' /\ RawFits'
        /\ pc'[r] = "put" /\ \A q \in Runs : q # r => pc'[q] = pc[q]
    <3>1. "put" \in Places \ {"await"} /\ "put" \in Posting /\ pc[r] \in Working /\ pc' = [pc EXCEPT ![r] = "put"]
      BY <1>1, <1>5 DEF Places, Posting, Working, Goes
    <3>2. \A q \in Runs : ~Terminal(q)' => ~Terminal(q)
      BY <1>1 DEF Terminal
    <3> QED
      BY <1>1, <1>2, <1>5, <3>1, <3>2, HolderFits
  <2>2. TypeOK'
    BY <1>1, <1>2, <1>3, <1>4, <1>5, <2>1, TypeFrame, Zenon DEF IInv, TypeOK, JobTyped
  <2>3. RunFits'
    <3>1. host'[r] = job[r].state
      BY <1>2, <1>5
    <3>2. RunFit(r)'
      BY <1>1, <1>2, <1>5, <2>1, <3>1
         DEF RunFit, JobFits, CertFits, FailureFits, Failed, Terminal, Posting, Undecided
    <3> QED
      BY <1>1, <1>4, <1>5, <2>1, <3>2, OneRun
  <2> QED
    BY <2>1, <2>2, <2>3 DEF IInv
<1>6. CASE ReportsBack(r)
  <2>1. /\ PcTyped' /\ PlaceFits' /\ QueueFits' /\ LockFits' /\ LockTyped' /\ RawFits'
        /\ job' \in [Runs -> Jobs] /\ \A q \in Runs : q # r => pc'[q] = pc[q] /\ job'[q] = job[q]
        /\ job'[r].explicit = FALSE /\ job'[r].status = "failed" /\ job'[r].kind = "none"
        /\ pc'[r] = IF Terminal(r) THEN IF job[r].reports > 1 THEN "report" ELSE "depart" ELSE "run"
    BY <1>1, <1>2, <1>6, ReportedBackFits
  <2>2. TypeOK'
    BY <1>1, <1>3, <1>4, <2>1, TypeFrame, Zenon DEF IInv, TypeOK, JobTyped
  <2>3. RunFits'
    <3>1. JobFits(r)'
      BY <1>1, <2>1 DEF JobFits, Terminal, Undecided
    <3>2. CertFits(r)'
      BY <1>1, <1>2, <2>1 DEF RunFit, CertFits, Posting
    <3>3. FailureFits(r)'
      BY <1>1, <1>2, <1>4, <2>1 DEF RunFit, FailureFits, Failed, Terminal, Posting
    <3> QED
      BY <1>1, <1>4, <2>1, <3>1, <3>2, <3>3, OneRun DEF RunFit
  <2> QED
    BY <2>1, <2>2, <2>3 DEF IInv
<1> QED
  BY <1>5, <1>6

LEMMA PutStep == ASSUME IInv, NEW r \in Runs, PutCommitStatusPublication(r) PROVE IInv'
<1> USE DEF PutCommitStatusPublication
<1>1. /\ UNCHANGED <<row, record, proof>> /\ UNCHANGED host /\ UNCHANGED <<phase, cause>>
      /\ UNCHANGED <<shutdown, plan, bound, snap, sent>> /\ UNCHANGED <<lock, rawq>> /\ UNCHANGED queue
      /\ pc[r] = "put" /\ ReportsBack(r)
  BY DEF ReportsBack, Releases, daemon
<1>2. /\ RunFit(r) /\ Holds(r) /\ ~pub[r].cert /\ job[r].state \in {"success", "failure"}
      /\ StoreTyped /\ job \in [Runs -> Jobs] /\ pub[r] \in Publications /\ job[r].cert \in BOOLEAN
  BY <1>1 DEF IInv, TypeOK, StoreTyped, JobTyped, Jobs, LockFits, RunFits, RunFit, CertFits, Posting
<1>3. faults' \in Nat
  BY DEF IInv, TypeOK, JobTyped, Fault, NoFault
<1>4. /\ PcTyped' /\ PlaceFits' /\ QueueFits' /\ LockFits' /\ LockTyped' /\ RawFits'
      /\ job' \in [Runs -> Jobs] /\ \A q \in Runs : q # r => pc'[q] = pc[q] /\ job'[q] = job[q]
      /\ job'[r].explicit = FALSE /\ job'[r].status = "failed" /\ job'[r].kind = "none"
      /\ pc'[r] = IF Terminal(r) THEN IF job[r].reports > 1 THEN "report" ELSE "depart" ELSE "run"
  BY <1>1, <1>2, ReportedBackFits
<1>5. PICK p \in Publications :
          /\ pub' = [pub EXCEPT ![r] = p] /\ p.validated = pub[r].validated
          /\ \/ p.last = job[r].state /\ p.cert = job[r].cert /\ p.preserve = FALSE
             \/ p = pub[r]
  <2>1. CASE pub' = [pub EXCEPT ![r].last = job[r].state, ![r].cert = job[r].cert, ![r].preserve = FALSE]
    <3> DEFINE p == [pub[r] EXCEPT !.last = job[r].state, !.cert = job[r].cert, !.preserve = FALSE]
    <3>1. /\ p \in Publications /\ p.validated = pub[r].validated
          /\ p.last = job[r].state /\ p.cert = job[r].cert /\ p.preserve = FALSE
      BY <1>2 DEF Publications
    <3>2. pub' = [pub EXCEPT ![r] = p]
      BY <1>2, <2>1 DEF StoreTyped, Publications
    <3> HIDE DEF p
    <3> QED
      BY <3>1, <3>2
  <2>2. CASE UNCHANGED pub
    <3>1. pub' = [pub EXCEPT ![r] = pub[r]]
      BY <1>2, <2>2 DEF StoreTyped
    <3> QED
      BY <1>2, <3>1
  <2> QED
    BY <2>1, <2>2
<1>6. StoreTyped' /\ pub'[r] = p /\ \A q \in Runs : q # r => pub'[q] = pub[q]
  BY <1>1, <1>2, <1>5 DEF StoreTyped
<1>7. TypeOK'
  BY <1>1, <1>3, <1>4, <1>6, TypeFrame, Zenon DEF IInv, TypeOK, JobTyped
<1>8. RunFits'
  <2>1. JobFits(r)'
    BY <1>1, <1>4 DEF JobFits, Terminal, Undecided
  <2>2. CertFits(r)'
    BY <1>1, <1>2, <1>4, <1>5, <1>6 DEF RunFit, CertFits, Posting
  <2>3. FailureFits(r)'
    BY <1>1, <1>2, <1>4, <1>5, <1>6 DEF RunFit, CertFits, FailureFits, Failed, Terminal, Posting
  <2> QED
    BY <1>1, <1>4, <1>6, <2>1, <2>2, <2>3, OneRun DEF RunFit
<1> QED
  BY <1>4, <1>7, <1>8 DEF IInv

-----------------------------------------------------------------------------
(* The daemon stops and starts.                                               *)
LEMMA BindPlannedStep == ASSUME IInv, BindPlanned PROVE IInv'
<1>1. /\ UNCHANGED <<row, record, pub, proof>> /\ UNCHANGED host /\ UNCHANGED <<phase, cause>>
      /\ UNCHANGED <<snap, sent>> /\ UNCHANGED <<lock, drain, rawq>> /\ UNCHANGED queue
      /\ UNCHANGED pc /\ UNCHANGED <<job, faults>>
      /\ shutdown' = "planned" /\ plan' = "bound" /\ bound' = Owned
  BY DEF BindPlanned, db, locking
<1>2. DaemonTyped'
  BY <1>1 DEF IInv, TypeOK, DaemonTyped, Owned
<1>3. TypeOK'
  BY <1>1, <1>2, TypeFrame, Zenon DEF IInv, TypeOK
<1>4. PlaceFits' /\ QueueFits' /\ RunFits'
  BY <1>1, PlaceFrame, QueueFrame, RunsFrame DEF IInv
<1>5. LockFits' /\ RawFits'
  BY <1>1 DEF IInv, LockFits, RawFits, Wants, Holds, Terminal
<1> QED
  BY <1>3, <1>4, <1>5 DEF IInv

LEMMA PrepareStep == ASSUME IInv, PrepareControlledShutdown PROVE IInv'
<1> USE DEF PrepareControlledShutdown
<1>1. /\ UNCHANGED <<row, pub, proof>> /\ UNCHANGED host /\ UNCHANGED <<phase, cause>>
      /\ UNCHANGED <<bound, snap, sent>> /\ UNCHANGED <<lock, drain, rawq>> /\ UNCHANGED queue
      /\ UNCHANGED pc /\ UNCHANGED job
  BY DEF locking
<1>2. faults' \in Nat /\ JobTyped'
  <2>1. faults' \in Nat
    BY DEF IInv, TypeOK, JobTyped, Fault, NoFault
  <2> QED
    BY <1>1, <2>1 DEF IInv, TypeOK, JobTyped
<1>3. DaemonTyped'
  BY <1>1 DEF IInv, TypeOK, DaemonTyped
<1>4. /\ record' \in [Runs -> {"none", "planned", "raw"}]
      /\ \A r \in Runs : record'[r] = "raw" <=> record[r] = "raw"
  BY DEF IInv, TypeOK, StoreTyped
<1>5. StoreTyped'
  BY <1>1, <1>4 DEF IInv, TypeOK, StoreTyped
<1>6. TypeOK'
  BY <1>1, <1>2, <1>3, <1>5, TypeFrame, Zenon DEF IInv, TypeOK
<1>7. PlaceFits' /\ QueueFits'
  BY <1>1, PlaceFrame, QueueFrame DEF IInv
<1>8. RunFits'
  <2> SUFFICES ASSUME NEW r \in Runs PROVE RunFit(r)'
    BY DEF RunFits, RunFit
  <2>1. RunFit(r)
    BY DEF IInv, RunFits, RunFit
  <2> QED
    BY <1>1, <1>4, <2>1 DEF RunFit, JobFits, CertFits, FailureFits, Failed, Terminal
<1>9. LockFits' /\ RawFits'
  BY <1>1, <1>4 DEF IInv, LockFits, RawFits, Wants, Holds, Terminal
<1> QED
  BY <1>6, <1>7, <1>8, <1>9 DEF IInv

LEMMA CancelPlannedStep == ASSUME IInv, CancelPlanned PROVE IInv'
<1> USE DEF CancelPlanned
<1>1. /\ UNCHANGED <<row, record, pub, proof>> /\ UNCHANGED host /\ UNCHANGED phase
      /\ UNCHANGED <<shutdown, snap, sent>> /\ UNCHANGED <<lock, drain, rawq>> /\ UNCHANGED queue
      /\ UNCHANGED pc /\ UNCHANGED <<job, faults>> /\ plan' = "sent" /\ bound' = {}
  BY DEF db, locking
<1>2. RunsTyped' /\ DaemonTyped'
  BY <1>1 DEF IInv, TypeOK, RunsTyped, DaemonTyped
<1>3. TypeOK'
  BY <1>1, <1>2, TypeFrame, Zenon DEF IInv, TypeOK
<1>4. PlaceFits' /\ QueueFits' /\ RunFits'
  BY <1>1, PlaceFrame, QueueFrame, RunsFrame DEF IInv
<1>5. LockFits' /\ RawFits'
  BY <1>1 DEF IInv, LockFits, RawFits, Wants, Holds, Terminal
<1> QED
  BY <1>3, <1>4, <1>5 DEF IInv

\* The thread that records the raw shutdown goes from its place to the next.
LEMMA ShutGoes ==
    ASSUME IInv, NEW x \in {"lock", "end"}, Goes(Shut, x)
    PROVE  /\ PcTyped' /\ PlaceFits' /\ pc'[Shut] = x
           /\ \A u \in Threads : u # Shut => pc'[u] = pc[u]
           /\ \A r \in Runs : pc'[r] = pc[r]
<1>1. pc \in [Threads -> Pcs] /\ PlaceFits /\ Shut \in Threads /\ Loop \in Threads /\ Shut # Loop
  BY Shape DEF IInv, TypeOK, PcTyped, Threads
<1>2. pc' \in [Threads -> Pcs] /\ pc'[Shut] = x /\ \A u \in Threads : u # Shut => pc'[u] = pc[u]
  BY <1>1 DEF Goes, Pcs
<1>3. \A r \in Runs : pc'[r] = pc[r]
  BY <1>2, Shape DEF Threads
<1> QED
  BY <1>1, <1>2, <1>3 DEF PcTyped, PlaceFits

LEMMA RecordRawStep == ASSUME IInv, RecordRawShutdown PROVE IInv'
<1> USE DEF RecordRawShutdown
<1>1. /\ UNCHANGED <<row, record, pub, proof>> /\ UNCHANGED host /\ UNCHANGED <<phase, cause>>
      /\ UNCHANGED <<plan, bound, sent>> /\ UNCHANGED <<lock, drain>> /\ UNCHANGED queue /\ UNCHANGED <<job, faults>>
      /\ shutdown' = "raw" /\ snap' = Owned /\ pc[Shut] = "off"
      /\ \/ Goes(Shut, "end") /\ UNCHANGED rawq
         \/ Goes(Shut, "lock") /\ rawq' = TRUE
  BY DEF db
<1>2. /\ PcTyped' /\ PlaceFits' /\ pc'[Shut] # "off"
      /\ \A u \in Threads : u # Shut => pc'[u] = pc[u]
      /\ \A r \in Runs : pc'[r] = pc[r]
  BY <1>1, ShutGoes
<1>3. DaemonTyped' /\ LockTyped'
  BY <1>1 DEF IInv, TypeOK, DaemonTyped, LockTyped, Owned
<1>4. TypeOK'
  BY <1>1, <1>2, <1>3, TypeFrame, Zenon DEF IInv, TypeOK
<1>5. RunFits'
  BY <1>1, <1>2, RunFrame DEF IInv, RunFits, RunFit
<1>6. QueueFits'
  BY <1>1, <1>2 DEF IInv, TypeOK, QueueTyped, QueueFits
<1>7. LockFits'
  <2>1. ASSUME lock # None PROVE Wants(lock)' \/ drain'.at = "release" \/ pc'[lock] \in Posting
    BY <1>1, <1>2, <2>1 DEF IInv, TypeOK, LockTyped, LockFits, Wants, Posting
  <2> QED
    BY <1>1, <1>2, <2>1 DEF IInv, LockFits, Holds
<1>8. RawFits'
  BY <1>1, <1>2 DEF IInv, RawFits
<1> QED
  BY <1>2, <1>4, <1>5, <1>6, <1>7, <1>8 DEF IInv

LEMMA RawSettledStep == ASSUME IInv, RawSettled PROVE IInv'
<1> USE DEF RawSettled
<1>1. /\ UNCHANGED <<row, record, pub, proof>> /\ UNCHANGED host /\ UNCHANGED <<phase, cause>>
      /\ UNCHANGED <<shutdown, plan, bound, snap, sent>> /\ UNCHANGED <<lock, rawq>> /\ UNCHANGED queue
      /\ UNCHANGED <<job, faults>> /\ Goes(Shut, "end") /\ drain' = [at |-> "release", tried |-> {}]
      /\ lock = Shut /\ drain.at = "off" /\ pc[Shut] = "lock"
  BY DEF db, daemon, Releases, Holds
<1>2. /\ PcTyped' /\ PlaceFits' /\ pc'[Shut] # "off"
      /\ \A u \in Threads : u # Shut => pc'[u] = pc[u]
      /\ \A r \in Runs : pc'[r] = pc[r]
  BY <1>1, ShutGoes
<1>3. LockTyped'
  BY <1>1 DEF IInv, TypeOK, LockTyped
<1>4. TypeOK'
  BY <1>1, <1>2, <1>3, TypeFrame, Zenon DEF IInv, TypeOK
<1>5. RunFits'
  BY <1>1, <1>2, RunFrame DEF IInv, RunFits, RunFit
<1>6. QueueFits'
  BY <1>1, <1>2 DEF IInv, TypeOK, QueueTyped, QueueFits
<1>7. LockFits'
  BY <1>1, <1>2, Shape DEF IInv, LockFits, Holds
<1>8. RawFits'
  BY <1>1, <1>2, Shape DEF IInv, RawFits, Terminal
<1> QED
  BY <1>2, <1>4, <1>5, <1>6, <1>7, <1>8 DEF IInv

LEMMA RestartStep == ASSUME IInv, Restart PROVE IInv'
<1> DEFINE J == [NoJob EXCEPT !.reports = 1]
<1>1. PICK resumed \in SUBSET Resumable :
         /\ row' = [r \in Runs |-> RecoveredAs(r, resumed)]
         /\ record' = [r \in Runs |-> IF ~Terminal(r) /\ phase[r] = "parked" THEN "none" ELSE record[r]]
         /\ pub' = [r \in Runs |-> IF Terminal(r) THEN pub[r] ELSE Revoked(pub[r])]
         /\ proof' = [r \in Runs |-> Terminal(r) /\ proof[r]]
         /\ pc' = [t \in Threads |-> IF t \notin Runs THEN "off"
                                     ELSE IF t \in resumed THEN "run"
                                     ELSE IF Terminal(t) /\ ~Listed(t) THEN "gone" ELSE "report"]
         /\ job' = [r \in Runs |-> J]
  BY Zenon DEF Restart
<1>2. /\ cause' = [r \in Runs |-> "none"] /\ UNCHANGED host /\ UNCHANGED phase
      /\ shutdown' = "idle" /\ plan' = "idle" /\ bound' = {} /\ snap' = {} /\ sent' = FALSE
      /\ lock' = None /\ drain' = Off /\ rawq' = FALSE /\ queue' = <<>>
  BY DEF Restart
<1>3. J \in Jobs /\ J.explicit = FALSE /\ J.status = "failed"
  BY ToldType DEF NoJob
<1> HIDE DEF J
<1>4. StoreTyped /\ RunsTyped
  BY DEF IInv, TypeOK
<1>5. faults' \in Nat
  BY DEF Restart, IInv, TypeOK, JobTyped, Fault
<1>6. StoreTyped'
  <2>1. /\ record' \in [Runs -> {"none", "planned", "raw"}] /\ proof' \in [Runs -> BOOLEAN]
        /\ row' \in [Runs -> Outcomes \cup {"running"}]
    BY <1>1, <1>4 DEF StoreTyped, Terminal, RecoveredAs, Outcomes
  <2>2. pub' \in [Runs -> Publications]
    BY <1>1, <1>4, RevokedType DEF StoreTyped
  <2> QED
    BY <2>1, <2>2 DEF StoreTyped
<1>7. TypeOK'
  <2>1. PcTyped'
    BY <1>1 DEF PcTyped, Pcs
  <2>2. JobTyped'
    <3>1. job' \in [Runs -> Jobs]
      BY <1>1, <1>3, Zenon
    <3> QED
      BY <1>5, <3>1 DEF JobTyped
  <2>3. DaemonTyped' /\ QueueTyped'
    <3>1. shutdown' = "idle" /\ plan' = "idle" /\ bound' = {} /\ snap' = {} /\ sent' = FALSE
      BY <1>2
    <3>2. DaemonTyped'
      BY <3>1 DEF DaemonTyped
    <3>3. QueueTyped'
      <4>1. queue' = <<>>
        BY <1>2
      <4> QED
        BY <4>1 DEF QueueTyped
    <3> QED
      BY <3>2, <3>3
  <2>4. RunsTyped'
    BY <1>2, <1>4 DEF RunsTyped
  <2>5. LockTyped'
    <3>1. Off \in [at : {"off", "acquire", "release"}, tried : SUBSET Runs]
      BY DEF Off
    <3> QED
      BY <1>2, <3>1 DEF LockTyped
  <2>6. HostTyped'
    <3>1. UNCHANGED host /\ HostTyped
      BY <1>2 DEF IInv, TypeOK
    <3> QED
      BY <3>1 DEF HostTyped
  <2> QED
    BY <1>6, <2>1, <2>2, <2>3, <2>4, <2>5, <2>6 DEF TypeOK
<1>8. PlaceFits'
  BY <1>1, Shape DEF PlaceFits, Places, Threads
<1>9. LockFits' /\ QueueFits' /\ RawFits'
  <2>1. \A r \in Runs : pc'[r] \notin Posting
    BY <1>1 DEF Posting, Threads
  <2> QED
    BY <1>2, <2>1 DEF LockFits, QueueFits, RawFits, Off
<1>10. RunFits'
  <2> SUFFICES ASSUME NEW r \in Runs PROVE RunFit(r)'
    BY DEF RunFits, RunFit
  <2>1. RunFit(r) /\ pub[r] \in Publications
    BY <1>4 DEF IInv, StoreTyped, RunFits, RunFit
  <2>2. /\ row'[r] = RecoveredAs(r, resumed) /\ job'[r] = J
        /\ record'[r] = IF ~Terminal(r) /\ phase[r] = "parked" THEN "none" ELSE record[r]
        /\ pub'[r] = IF Terminal(r) THEN pub[r] ELSE Revoked(pub[r])
        /\ pc'[r] = IF r \in resumed THEN "run" ELSE IF Terminal(r) /\ ~Listed(r) THEN "gone" ELSE "report"
        /\ host'[r] = host[r] /\ phase'[r] = phase[r]
    BY <1>1, <1>2 DEF Threads
  <2>3. r \in resumed => ~Terminal(r) /\ phase[r] = "parked" /\ record[r] = "none"
    BY <1>1 DEF Resumable
  <2>4. CASE Terminal(r)
    <3>1. /\ row'[r] = row[r] /\ record'[r] = record[r] /\ pub'[r] = pub[r] /\ pc'[r] \in {"gone", "report"}
          /\ Terminal(r)'
      BY <2>2, <2>3, <2>4 DEF RecoveredAs, Terminal
    <3> QED
      BY <1>3, <2>1, <2>2, <2>4, <3>1
         DEF RunFit, JobFits, CertFits, FailureFits, Failed, Posting, Undecided
  <2>5. CASE ~Terminal(r)
    <3>1. pub'[r].last = pub[r].last /\ ~pub'[r].cert /\ ~pub'[r].preserve
      BY <2>1, <2>2, <2>5 DEF Revoked, Publications
    <3>2. CASE r \in resumed
      <4>1. row'[r] = row[r] /\ pc'[r] = "run" /\ record'[r] = "none" /\ ~Terminal(r)'
        BY <2>2, <2>3, <3>2 DEF RecoveredAs, Terminal
      <4>2. host[r] = "pending"
        BY <1>4, <2>1, <2>3, <2>5, <3>2 DEF RunFit, FailureFits
      <4> QED
        BY <1>3, <2>1, <2>2, <2>5, <3>1, <4>1, <4>2
           DEF RunFit, JobFits, CertFits, FailureFits, Failed, Posting, Undecided, Terminal, Outcomes
    <3>3. CASE r \notin resumed
      <4>1. row'[r] \in {"interrupted", "failed"} /\ pc'[r] = "report" /\ Terminal(r)' /\ Failed(r)'
        BY <2>2, <2>5, <3>3 DEF RecoveredAs, Terminal, Outcomes, Failed
      <4> QED
        BY <1>3, <2>1, <2>2, <3>1, <4>1
           DEF RunFit, JobFits, CertFits, FailureFits, Posting, Undecided
    <3> QED
      BY <3>2, <3>3
  <2> QED
    BY <2>4, <2>5
<1> QED
  BY <1>7, <1>8, <1>9, <1>10 DEF IInv

-----------------------------------------------------------------------------
(* The invariant.                                                             *)
LEMMA IdleStep == ASSUME IInv, UNCHANGED vars PROVE IInv'
<1>1. /\ UNCHANGED <<row, record, pub, proof>> /\ UNCHANGED host /\ UNCHANGED <<phase, cause>>
      /\ UNCHANGED <<shutdown, plan, bound, snap, sent>> /\ UNCHANGED <<lock, drain, rawq>> /\ UNCHANGED queue
      /\ UNCHANGED pc /\ UNCHANGED <<job, faults>>
  BY DEF vars, db, daemon, locking
<1>2. TypeOK'
  BY <1>1, TypeFrame, Zenon DEF IInv, TypeOK
<1>3. PlaceFits' /\ QueueFits' /\ RunFits'
  BY <1>1, PlaceFrame, QueueFrame, RunsFrame DEF IInv
<1>4. LockFits' /\ RawFits'
  BY <1>1 DEF IInv, LockFits, RawFits, Wants, Holds, Terminal
<1> QED
  BY <1>2, <1>3, <1>4 DEF IInv

LEMMA NextStep == IInv /\ [Next]_vars => IInv'
<1> SUFFICES ASSUME IInv, Next PROVE IInv'
  BY IdleStep
<1>1. ASSUME NEW t \in Threads, Acquire(t) \/ TimesOut(t) PROVE IInv'
  BY <1>1, AcquireStep, TimesOutStep
<1>2. CASE Drains
  BY <1>2, CancelRunsStep, SupersedeStep, RawRefusedStep, DrainWritesStep, DrainRefusedStep, AcquiredStep, UnlockStep
     DEF Drains
<1>3. CASE LoopTicks
  BY <1>3, LoopTicksStep
<1>4. ASSUME NEW r \in Runs, Cancelled(r) \/ Proceeds(r) \/ Stops(r) \/ Settles(r) \/ Reports(r) PROVE IInv'
  BY <1>4, CancelledStep, ProceedsStep, StopsStep, SettleStep, CompleteRunStep, FailRunStep, DepartsStep,
     ReadsStep, PostsStep, PutStep DEF Settles, Reports
<1>5. CASE PlannedShutdown \/ RawShutdown
  BY <1>5, BindPlannedStep, PrepareStep, CancelPlannedStep, RecordRawStep, RawSettledStep
     DEF PlannedShutdown, RawShutdown
<1>6. CASE Restart
  BY <1>6, RestartStep
<1> QED
  BY <1>1, <1>2, <1>3, <1>4, <1>5, <1>6 DEF Next

-----------------------------------------------------------------------------
(* The theorems.                                                              *)

\* Every reachable state satisfies the inductive invariant.
THEOREM Invariant == Spec => []IInv
<1>1. Init => IInv
  BY InitStep
<1>2. IInv /\ [Next]_vars => IInv'
  BY NextStep
<1> QED
  BY <1>1, <1>2, PTL DEF Spec

\* The state is well typed.
THEOREM TypeCorrect == Spec => []TypeOK
<1>1. IInv => TypeOK
  BY DEF IInv
<1> QED
  BY <1>1, Invariant, PTL

LEMMA FitsAreTruthful == IInv => StatusTruthful
<1> SUFFICES ASSUME IInv PROVE StatusTruthful
  OBVIOUS
<1>1. ProofIsShown
  BY DEF IInv, RunFits, CertFits, ProofIsShown
<1>2. UnshownIsListed
  <2> SUFFICES ASSUME NEW r \in Runs, Terminal(r), pc[r] \notin Posting, host[r] # Shown(r), pub[r].last = Shown(r)
               PROVE  FALSE
    BY DEF UnshownIsListed, Listed, Posting
  <2>1. CertFits(r) /\ FailureFits(r) /\ host[r] \in {"pending", "success", "failure"}
    BY DEF IInv, RunFits, TypeOK, HostTyped
  <2>2. Shown(r) \in {"success", "failure"}
    BY DEF Shown
  <2>3. CASE Shown(r) = "failure"
    BY <2>1, <2>3 DEF FailureFits
  <2>4. CASE Shown(r) = "success"
    <3>1. host[r] = "failure"
      BY <2>1, <2>4 DEF FailureFits
    <3>2. ~pub[r].cert
      BY <2>1, <3>1 DEF CertFits
    <3>3. row[r] = "completed" /\ pub[r].validated
      BY <2>4, <3>2 DEF Shown
    <3>4. Failed(r) /\ record[r] # "raw"
      BY <2>1, <3>1, <3>3 DEF FailureFits
    <3> QED
      BY <3>3, <3>4 DEF Failed, Terminal, Outcomes
  <2> QED
    BY <2>2, <2>3, <2>4
<1> QED
  BY <1>1, <1>2 DEF StatusTruthful

\* A certificate is about a success the forge shows, and the next start finds every decided
\* run whose outcome the forge does not show, whatever report, POST or write was lost.
THEOREM Truthful == Spec => []StatusTruthful
BY FitsAreTruthful, Invariant, PTL

\* The steps that touch an outcome or a publication.
LEMMA Writers ==
    ASSUME Next
    PROVE  \/ UNCHANGED <<row, pub>>
           \/ SupersedeUncommittedCancellations \/ DrainWrites \/ Restart
           \/ \E r \in Runs : \/ InvalidateStatusValidation(r) \/ CompleteRun(r) \/ FailRun(r)
                              \/ Reads(r) \/ PutCommitStatusPublication(r)
<1>1. ASSUME NEW t \in Threads, Acquire(t) \/ TimesOut(t) PROVE UNCHANGED <<row, pub>>
  BY <1>1 DEF Acquire, TimesOut, db
<1>2. CancelRuns \/ RawRefused \/ DrainRefused \/ Acquired \/ Unlock \/ LoopTicks => UNCHANGED <<row, pub>>
  BY DEF CancelRuns, RawRefused, DrainRefused, Acquired, Unlock, LoopTicks, db
<1>3. ASSUME NEW r \in Runs,
             Cancelled(r) \/ Answered(r) \/ PublishedHeadValidated(r) \/ Completes(r) \/ Fails(r) \/ Stops(r)
               \/ SettleTerminalWrite(r) \/ Departs(r) \/ Posts(r)
      PROVE  UNCHANGED <<row, pub>>
  BY <1>3 DEF Cancelled, Answered, PublishedHeadValidated, Completes, Fails, Stops, SettleTerminalWrite, Departs,
              Posts, db
<1>4. PlannedShutdown \/ RawShutdown => UNCHANGED <<row, pub>>
  BY DEF PlannedShutdown, RawShutdown, BindPlanned, PrepareControlledShutdown, CancelPlanned, RecordRawShutdown,
         RawSettled, db
<1> QED
  BY <1>1, <1>2, <1>3, <1>4 DEF Next, Drains, Proceeds, Settles, Reports

\* What the database holds of a run without an outcome, after a terminal write of another.
LEMMA DrainWritesOne ==
    ASSUME IInv, DrainWrites
    PROVE  \E q \in Runs : /\ ~Terminal(q) /\ pc[q] = "await" /\ ~rawq
                           /\ \A r \in Runs : r # q => row'[r] = row[r] /\ pub'[r] = pub[r]
                           /\ UNCHANGED row \/ TerminalWrite(q)
<1> USE DEF DrainWrites, Due
<1> SUFFICES ASSUME NEW q \in Runs, q = Head(queue), ~Terminal(q), pc[q] = "await"
             PROVE  /\ \A r \in Runs : r # q => row'[r] = row[r] /\ pub'[r] = pub[r]
                    /\ UNCHANGED row \/ TerminalWrite(q)
  BY QueueHead
<1>1. StoreTyped
  BY DEF IInv, TypeOK
<1>2. CASE job[q].kind = "leave"
  <2>1. pub' = [pub EXCEPT ![q] = Revoked(@)] /\ UNCHANGED row
    BY <1>2 DEF ReleaseShutdownForRecovery
  <2> QED
    BY <1>1, <2>1 DEF StoreTyped
<1>3. CASE job[q].kind # "leave"
  <2>1. TerminalWrite(q)
    BY <1>3
  <2>2. PICK p \in Publications : row' = [row EXCEPT ![q] = Status(q)] /\ pub' = [pub EXCEPT ![q] = p]
    BY <2>1, TerminalWrites
  <2> QED
    BY <1>1, <2>1, <2>2 DEF StoreTyped
<1> QED
  BY <1>2, <1>3

LEMMA OutcomeKept ==
    ASSUME IInv, Next, NEW r \in Runs, Terminal(r)
    PROVE  row'[r] = row[r] /\ (row[r] = "cancelled" /\ Preserved(pub[r]) => Preserved(pub'[r]))
<1>1. StoreTyped /\ RunFit(r)
  BY DEF IInv, TypeOK, RunFits, RunFit
<1>2. CASE UNCHANGED <<row, pub>>
  BY <1>2
<1>3. CASE SupersedeUncommittedCancellations
  <2>1. r \notin Superseded
    BY DEF Superseded
  <2> QED
    BY <1>3, <2>1 DEF SupersedeUncommittedCancellations
<1>4. CASE DrainWrites
  BY <1>4, DrainWritesOne
<1>5. CASE Restart
  BY <1>5 DEF Restart, RecoveredAs
<1>6. ASSUME NEW q \in Runs, InvalidateStatusValidation(q) PROVE row'[r] = row[r] /\ pub'[r] = pub[r]
  <2>1. q # r
    BY <1>1, <1>6 DEF InvalidateStatusValidation, Works, RunFit, JobFits, Undecided
  <2> QED
    BY <1>1, <1>6, <2>1 DEF InvalidateStatusValidation, StoreTyped
<1>7. ASSUME NEW q \in Runs, CompleteRun(q) PROVE row'[r] = row[r] /\ pub'[r] = pub[r]
  <2>1. q # r
    BY <1>1, <1>7 DEF CompleteRun, RunFit, JobFits, Undecided
  <2> QED
    BY <1>1, <1>7, <2>1 DEF CompleteRun, RecordIneligibleTerminal, StoreTyped
<1>8. ASSUME NEW q \in Runs, FailRun(q) PROVE row'[r] = row[r] /\ pub'[r] = pub[r]
  <2>1. q # r /\ pc[q] = "fail" /\ ~Terminal(q)
    BY <1>1, <1>8 DEF FailRun, IInv, RunFits, RunFit, JobFits, Undecided
  <2>2. CASE TerminalWrite(q)
    <3>1. PICK p \in Publications : row' = [row EXCEPT ![q] = Status(q)] /\ pub' = [pub EXCEPT ![q] = p]
      BY <2>1, <2>2, TerminalWrites
    <3> QED
      BY <1>1, <2>1, <3>1 DEF StoreTyped
  <2>3. CASE UNCHANGED <<row, pub>>
    BY <2>3
  <2> QED
    BY <1>8, <2>2, <2>3 DEF FailRun
<1>9. ASSUME NEW q \in Runs, Reads(q)
      PROVE  row'[r] = row[r] /\ (row[r] = "cancelled" /\ Preserved(pub[r]) => pub'[r] = pub[r])
  <2>1. CASE q # r
    BY <1>1, <1>9, <2>1 DEF Reads, RevokeStatusCertificate, StoreTyped
  <2>2. CASE q = r
    BY <1>9, <2>2 DEF Reads, NothingToReport
  <2> QED
    BY <2>1, <2>2
<1>10. ASSUME NEW q \in Runs, PutCommitStatusPublication(q)
       PROVE  row'[r] = row[r] /\ (Preserved(pub[r]) => pub'[r] = pub[r])
  <2>1. CASE q # r
    BY <1>1, <1>10, <2>1 DEF PutCommitStatusPublication, StoreTyped
  <2>2. CASE q = r
    BY <1>1, <1>10, <2>2 DEF PutCommitStatusPublication, RunFit, CertFits, Posting, Preserved
  <2> QED
    BY <2>1, <2>2
<1> QED
  BY <1>2, <1>3, <1>4, <1>5, <1>6, <1>7, <1>8, <1>9, <1>10, Writers

\* An outcome is final, and so is the green status that a cancelled watcher keeps.
THEOREM Final == Spec => OutcomeIsFinal
<1>1. IInv /\ [Next]_vars =>
        [\A r \in Runs : Terminal(r) =>
           /\ row'[r] = row[r]
           /\ row[r] = "cancelled" /\ Preserved(pub[r]) => Preserved(pub'[r])]_vars
  BY OutcomeKept
<1> QED
  BY <1>1, Invariant, PTL DEF Spec, OutcomeIsFinal

LEMMA RawKept ==
    ASSUME IInv, Next, NEW r \in Runs, sent, r \in snap, ~Terminal(r)
    PROVE  row'[r] # "completed" /\ ~(row'[r] = "cancelled" /\ Preserved(pub'[r]))
<1>1. StoreTyped /\ RunFit(r) /\ row[r] = "running"
  BY DEF IInv, TypeOK, StoreTyped, RunFits, RunFit, Terminal
<1>2. row'[r] = row[r] => row'[r] # "completed" /\ row'[r] # "cancelled"
  BY <1>1
<1>3. ASSUME ~rawq, pc[r] \notin {"depart", "left"}, TerminalWrite(r)
      PROVE  row'[r] # "completed" /\ ~(row'[r] = "cancelled" /\ Preserved(pub'[r]))
  <2>1. record[r] = "raw"
    BY <1>3 DEF IInv, RawFits
  <2>2. PICK p \in Publications : /\ row' = [row EXCEPT ![r] = Status(r)] /\ pub' = [pub EXCEPT ![r] = p]
                                  /\ p.preserve => Certified(r)
    BY <1>3, TerminalWrites
  <2>3. ~p.preserve
    BY <2>1, <2>2 DEF Certified
  <2>4. Status(r) \in {"failed", "cancelled"}
    BY StatusType DEF IInv, TypeOK, JobTyped
  <2> QED
    BY <1>1, <2>2, <2>3, <2>4 DEF StoreTyped, Preserved
<1>4. ASSUME Holds(r) PROVE ~rawq
  BY <1>4, Shape DEF IInv, RawFits, Holds
<1>5. CASE UNCHANGED <<row, pub>> \/ SupersedeUncommittedCancellations
  BY <1>2, <1>5 DEF SupersedeUncommittedCancellations
<1>6. CASE DrainWrites
  <2>1. PICK q \in Runs : /\ ~Terminal(q) /\ pc[q] = "await" /\ ~rawq
                          /\ r # q => row'[r] = row[r]
                          /\ UNCHANGED row \/ TerminalWrite(q)
    BY <1>6, DrainWritesOne
  <2> QED
    BY <1>2, <1>3, <2>1
<1>7. CASE Restart
  BY <1>1, <1>7 DEF Restart, RecoveredAs
<1>8. ASSUME NEW q \in Runs, InvalidateStatusValidation(q) \/ Reads(q) \/ PutCommitStatusPublication(q)
      PROVE  row'[r] = row[r]
  BY <1>8 DEF InvalidateStatusValidation, Reads, PutCommitStatusPublication
<1>9. ASSUME NEW q \in Runs, CompleteRun(q) PROVE row'[r] # "completed" /\ row'[r] # "cancelled"
  <2>1. CASE q # r
    BY <1>1, <1>2, <1>9, <2>1 DEF CompleteRun, RecordIneligibleTerminal, StoreTyped
  <2>2. CASE q = r
    <3>1. record[r] = "raw"
      BY <1>4, <1>9, <2>2 DEF CompleteRun, IInv, RawFits
    <3> QED
      BY <1>1, <1>2, <1>9, <2>2, <3>1 DEF CompleteRun, RecordIneligibleTerminal, StoreTyped
  <2> QED
    BY <2>1, <2>2
<1>10. ASSUME NEW q \in Runs, FailRun(q)
       PROVE  row'[r] # "completed" /\ ~(row'[r] = "cancelled" /\ Preserved(pub'[r]))
  <2>1. pc[q] = "fail" /\ Holds(q) /\ ~Terminal(q)
    BY <1>10 DEF FailRun, IInv, RunFits, JobFits, Undecided
  <2>2. CASE UNCHANGED <<row, pub>>
    BY <1>2, <2>2
  <2>3. CASE TerminalWrite(q) /\ q = r
    BY <1>3, <1>4, <2>1, <2>3
  <2>4. CASE TerminalWrite(q) /\ q # r
    <3>1. row' = [row EXCEPT ![q] = Status(q)]
      BY <2>1, <2>4, TerminalWrites
    <3> QED
      BY <1>1, <1>2, <2>4, <3>1 DEF StoreTyped
  <2> QED
    BY <1>10, <2>2, <2>3, <2>4 DEF FailRun
<1> QED
  BY <1>2, <1>5, <1>6, <1>7, <1>8, <1>9, <1>10, Writers

\* What a raw shutdown cancelled before its outcome was written neither completes nor keeps a
\* green status, in whatever order the settlements reach the store.
THEOREM Supersedes == Spec => RawSupersedes
<1>1. IInv /\ [Next]_vars =>
        [\A r \in Runs : sent /\ r \in snap /\ ~Terminal(r)
           => row'[r] # "completed" /\ ~(row'[r] = "cancelled" /\ Preserved(pub'[r]))]_vars
  BY RawKept
<1> QED
  BY <1>1, Invariant, PTL DEF Spec, RawSupersedes
=============================================================================
