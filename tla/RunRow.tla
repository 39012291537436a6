------------------------------ MODULE RunRow ------------------------------
(***************************************************************************)
(* What a client of the daemon may rely on about the rows of the runs      *)
(* table, whatever the daemon does in memory and however often it dies: a  *)
(* run waits in the queue only before it starts, starts once, and its      *)
(* outcome, once written, is never written again.                          *)
(***************************************************************************)

CONSTANT Runs     \* pipeline runs

VARIABLE row      \* runs.status; "none" before the row is inserted

Terminal == {"completed", "failed", "cancelled"}
Active   == {"pending", "running"}
Status   == {"none", "queued"} \cup Active \cup Terminal

Init == row = [r \in Runs |-> "none"]

\* Insertion; a full daemon queues; a free slot claims; the executor starts.
Moves == {<<"none", "pending">>, <<"pending", "queued">>, <<"queued", "pending">>,
          <<"queued", "cancelled">>, <<"pending", "running">>} \cup (Active \X Terminal)

\* Any set of rows may move at once: recovery ends all stale rows in one write.
Next == /\ row' = [r \in Runs |-> row'[r]]
        /\ \A r \in Runs : row'[r] = row[r] \/ <<row[r], row'[r]>> \in Moves

Spec == Init /\ [][Next]_row
===========================================================================
