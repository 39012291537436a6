-------------------------- MODULE RunOwnershipInv --------------------------
(***************************************************************************)
(* The inductive invariant of RunOwnership: what is known of a run at each *)
(* place of its goroutine.  The place tells the row, who has the run in    *)
(* the table, whether its outcome has been decided, and whether it has a   *)
(* worktree and a slot; the rows tell the queue.                           *)
(***************************************************************************)
EXTENDS RunOwnership

\* The rows a run can have at a place.
Unborn   == {"new", "begun"}
Pending  == {"cancelling", "unadmitted", "admitted", "setup", "refused", "settling", "starting"}
AtGate   == {"parked", "answered", "resuming", "left", "leaving"}
Failing  == {"failing", "unsettled"}
Ended    == {"committed", "stopped"}
Deciding == {"unadmitted", "refused", "settling"} \cup Failing

RowFits(r) ==
    /\ pc[r] \in Unborn  => row[r] = "none"
    /\ pc[r] = "queued"  => row[r] = "queued"
    /\ pc[r] \in Pending => row[r] = "pending"
    /\ pc[r] \in AtGate \cup {"work"} => row[r] = "running"
    /\ pc[r] \in Failing => row[r] \in Active
    /\ pc[r] \in Ended   => row[r] \in Terminal
    /\ pc[r] \in Deciding => verdict[r] \in Terminal

\* A run that has no goroutine and has not ended waits for the next start of the daemon.
GoneFits(r) ==
    pc[r] = "gone" /\ mode # "down" =>
        /\ row[r] # "queued"
        /\ recovered /\ row[r] \in Active => mode = "stopping" /\ row[r] = "running" /\ r \in awaiting

\* The table has the runs that have a goroutine of their own, and the queued ones.
TableFits(r) ==
    /\ table[r] = "queued" <=> pc[r] = "queued"
    /\ table[r] = "absent" <=> pc[r] \in Unborn \cup {"cancelling", "admitted", "gone"}
    /\ pc[r] = "unadmitted" => table[r] = "finishing"
    /\ pc[r] = "resuming"   => table[r] = "recovering"

\* A run at its gate is marked, and what may still run has its worktree.
GateFits(r) ==
    /\ pc[r] \in AtGate => r \in awaiting
    /\ pc[r] \in {"left", "leaving"} => mode = "stopping"
    /\ row[r] = "running" \/ pc[r] = "starting" => r \in worktree

RunFits    == \A r \in Runs : RowFits(r) /\ GoneFits(r) /\ TableFits(r) /\ GateFits(r)
DaemonFits == /\ mode = "down" => \A r \in Runs : pc[r] \in {"new", "gone"}
              /\ \A r \in Runs : cause[r] = "shutdown" => mode = "stopping"

\* The stored order of the queue is that of the queued rows, and the queue is that order until a
\* shutdown drops it.
QueueFits == /\ Once(order) /\ InLine(order) = {r \in Runs : row[r] = "queued"}
             /\ mode \in {"starting", "up"} => queue = order

\* Who stands in the line of the resumed, and who may hold a slot: a run whose resumption was
\* cancelled waits at its gate with the slot it had.
SlotsFit == /\ SlotsHeld
            /\ Once(line) /\ \A r \in InLine(line) : pc[r] \in {"answered", "resuming"} /\ r \notin slots
            /\ \A r \in slots : pc[r] = "parked" => cause[r] # "none"
            /\ mode = "down" => slots = {} /\ line = <<>>

\* Who is at work on a branch, or waits in the queue to be.
Rivals(p, q) == p # q /\ Branch[p] = Branch[q]
Launching   == {"begun", "cancelling", "unadmitted", "admitted"}
Contends(r) == AtWork(r) \/ table[r] = "queued"
OriginFits  == \A r \in Runs : origin[r] = "resumed" =>
                   row[r] \notin {"none", "queued"} /\ pc[r] \notin {"new"} \cup Launching
LockFits    == \A r \in Runs : pc[r] \in Launching => lock[Branch[r]] = r
OneQueued   == \A p, q \in Runs : Rivals(p, q) => ~ (row[p] = "queued" /\ row[q] = "queued")

\* A launch knows whom it replaces: who contends is still to be cancelled, or waited for, and who
\* is waited for does not return to the queue.
WaitsFit(r) ==
    /\ pc[r] = "cancelling" =>
          \A q \in Runs \ {r} : Branch[q] = Branch[r] /\ Contends(q) => q \in todo[r] \cup waits[r]
    /\ mode = "down" => waits[r] = {}
    /\ \A q \in waits[r] : pc[q] \notin {"new", "queued"} \cup Launching

\* Two that contend on one branch were resumed and restored by the same start.
RivalsFit == \A p, q \in Runs :
                 Rivals(p, q) /\ Contends(p) /\ Contends(q) => {origin[p], origin[q]} = {"resumed", "restored"}

BranchFits == /\ OriginFits /\ LockFits /\ OneQueued /\ RivalsFit
              /\ \A r \in Runs : WaitsFit(r)

IInv == TypeOK /\ RunFits /\ DaemonFits /\ QueueFits /\ SlotsFit /\ BranchFits
============================================================================
