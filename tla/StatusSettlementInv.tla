------------------------ MODULE StatusSettlementInv ------------------------
(***************************************************************************)
(* The inductive invariant of StatusSettlement: what is known of a thread  *)
(* at each place, of the lock and its queues, and of a run's outcome, its  *)
(* publication and the forge beside each other.                            *)
(***************************************************************************)
EXTENDS StatusSettlement

Places    == {"run", "complete", "fail", "settle", "await", "report", "post", "put",
              "depart", "left", "gone"}
Undecided == {"run", "complete", "fail", "settle", "await", "left"}
Posting   == {"post", "put"}

PlaceFits == /\ \A r \in Runs : pc[r] \in Places
             /\ pc[Shut] \in {"off", "lock", "end"} /\ pc[Loop] \in {"off", "lock", "check"}

\* A thread holds the lock where it wants it, or where it posts; it posts nowhere else.
LockFits ==
    /\ lock = None => drain.at = "off"
    /\ lock # None => Wants(lock) \/ (drain.at = "release") \/ pc[lock] \in Posting
    /\ \A r \in Runs : pc[r] \in Posting => Holds(r)

\* The queue holds runs that wait for it, each once.
QueueFits ==
    /\ \A i \in 1..Len(queue) : pc[queue[i]] = "await"
    /\ \A i, j \in 1..Len(queue) : queue[i] = queue[j] => i = j

\* Only a cancellation is explicit, or an outcome of "cancelled"; and who still has to decide
\* has no outcome.
JobFits(r) ==
    /\ job[r].explicit \/ job[r].status = "cancelled" => job[r].err = "cancel"
    /\ pc[r] \in Undecided => ~Terminal(r)
    /\ pc[r] = "depart" => (Terminal(r) <=> job[r].kind # "leave")
    /\ pc[r] = "report" /\ ~Terminal(r) => phase[r] = "watching"

\* The certificate beside the forge, also in the middle of a report.
CertFits(r) ==
    /\ pub[r].cert => host[r] = "success" /\ pub[r].last = "success"
    /\ pub[r].preserve => pub[r].cert
    /\ pc[r] \in Posting => ~pub[r].cert /\ job[r].state # "pending"
                            /\ (job[r].cert => job[r].state = "success")
    /\ pc[r] = "put" => host[r] = job[r].state

\* What has made the status of a run a failure lasts: a run without an outcome is then on the
\* record of a raw shutdown, or leaves.
Failed(r) == \/ record[r] = "raw" \/ row[r] \in {"failed", "cancelled", "interrupted"}
             \/ row[r] = "completed" /\ ~pub[r].validated
             \/ ~Terminal(r) /\ pc[r] \in {"depart", "left"}
FailureFits(r) ==
    /\ host[r] = "failure" \/ (pc[r] \in Posting /\ job[r].state = "failure") => Failed(r)
    /\ pub[r].last = "failure" => host[r] = "failure" /\ pc[r] \notin Posting
    /\ pub[r].last = "success" => host[r] # "pending"
    /\ host[r] # "pending" \/ pc[r] \in Posting => Terminal(r) \/ phase[r] # "parked"
    /\ row[r] = "completed" => record[r] # "raw"

\* Between the cancellations of a raw shutdown and its record nobody works under the lock; then
\* what it cancelled is on its record, unless it leaves.
RawFits ==
    /\ pc[Shut] = "off" => ~rawq /\ ~sent
    /\ sent /\ rawq /\ lock # None => drain.at # "off"
    /\ \A r \in Runs : sent /\ ~rawq /\ r \in snap /\ ~Terminal(r)
                        => record[r] = "raw" \/ pc[r] \in {"depart", "left"}

RunFits == \A r \in Runs : JobFits(r) /\ CertFits(r) /\ FailureFits(r)
IInv == TypeOK /\ PlaceFits /\ LockFits /\ QueueFits /\ RunFits /\ RawFits
=============================================================================
