------------------------------ MODULE TuiView ------------------------------
(***************************************************************************)
(* The terminal UI's live view of a run (internal/tui): it subscribes to   *)
(* the run's events, applies each one that is newer than what it shows,    *)
(* reads the whole run again when the stream says that something was left  *)
(* out, and subscribes again when the stream ends.  Its reads go through   *)
(* one connection that it opened when it started (Model.client), while     *)
(* each subscription dials a connection of its own.                        *)
(***************************************************************************)
EXTENDS EventBroker

CONSTANTS MaxTries,    \* maxResubscribeTries
          MaxFails     \* bound: reads that fail on a healthy connection

ASSUME TuiAssumption == MaxTries \in Nat /\ MaxFails \in Nat

VARIABLES
    view, over,      \* the versions shown, and Model.done
    stateRev,        \* Model.stateRev
    link, tries,     \* the subscription's state, Model.resubscribeTries
    read,            \* the get_run in flight, if any (Model.reconcilePending)
    again, retry,    \* Model.reconcileAgain and reviewRetryReconcile
    broken, fails    \* a read timed out on Model.client; the reads that failed

shown  == <<view, over, stateRev>>
subscription == <<link, tries>>
reads  == <<read, again, retry, broken, fails>>
vars   == <<brokerVars, shown, subscription, reads>>

\* get_run in runSnapshot: asked, revision sampled, run row read, step rows read.
NoRead  == [at |-> "none", rev |-> 0, view |-> [r \in Rows |-> 0], over |-> FALSE]
Asked   == [NoRead EXCEPT !.at = "asked"]
Pending == read.at # "none"

\* Model.client was dialed once: it works until the daemon goes or a read times out.
ClientWorks == ~broken /\ used["crashes"] = 0

Init ==
    /\ BrokerInit
    /\ view = [r \in Rows |-> 0] /\ over = FALSE /\ stateRev = 0
    /\ link = "dialing" /\ tries = 0
    /\ read = NoRead /\ again = FALSE /\ retry = FALSE /\ broken = FALSE /\ fails = 0

----------------------------------------------------------------------------
\* reconcileCmd: one read in flight, and at most one more to follow it.
NotAgain == again                                   \* mutant of OneMore
OneMore == TRUE
Reconcile ==
    IF Pending THEN again' = OneMore /\ UNCHANGED <<read, retry>>
    ELSE read' = Asked /\ retry' = FALSE /\ again' = again

\* startResubscribe, from t tries and revision n: forget the stream's revision.
Forgotten(n) == 0
GivesUp(t) == t >= MaxTries
Resubscribe(t, n) ==
    IF GivesUp(t) THEN link' = "closed" /\ tries' = t /\ stateRev' = n
    ELSE link' = "dialing" /\ tries' = t + 1 /\ stateRev' = Forgotten(n)

\* subscribeCmd: a new mailbox, or an error while the daemon is down.
Connect ==
    /\ link = "dialing" /\ up
    /\ mb' = NewMailbox /\ sub' = "on" /\ wire' = <<>>
    /\ link' = "attached"
    /\ UNCHANGED <<store, broker, used, shown, tries, reads>>

ConnectFails ==
    /\ link = "dialing" /\ ~up
    /\ Resubscribe(tries, stateRev)
    /\ UNCHANGED <<brokerVars, view, over, reads>>

\* applyEvent: a state frame applies only when it is newer than what is shown; an
\* unknown step's forces a read.
Fresh(e) == e.rev > stateRev
Unknown(r) == r \in Dynamic /\ view[r] = 0
Apply(e) ==
    IF ~IsState(e) \/ ~Fresh(e) THEN UNCHANGED <<shown, read, again, retry>>
    ELSE /\ stateRev' = e.rev
         /\ IF Unknown(e.row) THEN Reconcile /\ UNCHANGED <<view, over>>
            ELSE /\ view' = [view EXCEPT ![e.row] = e.val]
                 /\ over' = (over \/ e.end)
                 /\ UNCHANGED <<read, again, retry>>

\* eventMsg, and subscriptionErrMsg at the end of the stream, which waits for a
\* read in flight.  A view that is over reads no further frame.
Receive ==
    /\ link = "attached" /\ ~over /\ wire # <<>>
    /\ wire' = Tail(wire)
    /\ LET e == Head(wire) IN
       IF e.class = "gap" THEN Reconcile /\ UNCHANGED <<shown, subscription>>
       ELSE IF e.class # "eof" THEN Apply(e) /\ UNCHANGED subscription
       ELSE /\ IF Pending THEN link' = "closed" /\ UNCHANGED <<stateRev, tries>> ELSE Resubscribe(tries, stateRev)
            /\ UNCHANGED <<view, over, read, again, retry>>
    /\ UNCHANGED <<store, broker, used, mb, sub, broken, fails>>

----------------------------------------------------------------------------
\* get_run: runSnapshot samples the revision, then the read takes the run row and
\* then the step rows.
Sample ==
    /\ read.at = "asked" /\ ClientWorks /\ up
    /\ read' = [read EXCEPT !.at = "sampled", !.rev = rev]
    /\ UNCHANGED <<brokerVars, shown, subscription, again, retry, broken, fails>>

ReadRun ==
    /\ read.at = "sampled" /\ ClientWorks /\ up
    /\ read' = [read EXCEPT !.at = "run", !.view[0] = db[0], !.over = ended]
    /\ UNCHANGED <<brokerVars, shown, subscription, again, retry, broken, fails>>

Stamped(n) == n
ReadSteps ==
    /\ read.at = "run" /\ ClientWorks /\ up
    /\ read' = [read EXCEPT !.at = "reply", !.rev = Stamped(@),
                            !.view = [r \in Rows |-> IF r = 0 THEN @[0] ELSE db[r]]]
    /\ UNCHANGED <<brokerVars, shown, subscription, again, retry, broken, fails>>

\* The end of runReconciledMsg, with t tries and revision n: read once more if that
\* was asked for meanwhile, else subscribe again if the stream has ended.
EndForgotten(more, finished) == FALSE               \* mutant of StreamLost
StreamLost(more, finished) == ~more /\ link = "closed" /\ ~finished
Settled(more, finished, t, n) ==
    /\ again' = FALSE
    /\ read' = IF more THEN Asked ELSE NoRead
    /\ IF StreamLost(more, finished) THEN Resubscribe(t, n)
       ELSE link' = link /\ tries' = t /\ stateRev' = n

\* applySnapshot refuses a snapshot older than what is shown, which is read again.
Accepts(n) == n >= stateRev
Reconciled ==
    LET ok == Accepts(read.rev)
        finished == over \/ (ok /\ read.over) IN
    /\ read.at = "reply"
    /\ view' = IF ok THEN read.view ELSE view
    /\ over' = finished /\ retry' = FALSE
    /\ Settled(again \/ ~ok, finished, 0, IF ok THEN read.rev ELSE stateRev)
    /\ UNCHANGED <<brokerVars, broken, fails>>

\* The daemon answers with an error, or too late (the connection is then of no
\* more use), or is gone.
ReadFails ==
    /\ Pending
    /\ \/ ~ClientWorks /\ UNCHANGED <<broken, fails>>
       \/ ClientWorks /\ fails < MaxFails /\ fails' = fails + 1 /\ broken' \in BOOLEAN
    /\ retry' = TRUE
    /\ Settled(FALSE, over, tries, stateRev)
    /\ UNCHANGED <<brokerVars, view, over>>

\* The user asks for the read to be tried again.
RetryReview ==
    /\ retry /\ ~Pending
    /\ read' = Asked /\ retry' = FALSE
    /\ UNCHANGED <<brokerVars, shown, subscription, again, broken, fails>>

----------------------------------------------------------------------------
Broker == BrokerNext /\ UNCHANGED <<shown, subscription, reads>>
Snapshot == Sample \/ ReadRun \/ ReadSteps
Next == Broker \/ Connect \/ ConnectFails \/ Receive \/ Snapshot \/ Reconciled \/ ReadFails \/ RetryReview

Spec == Init /\ [][Next]_vars

\* The stream and its reader keep going, reads are answered, a crashed daemon is
\* restarted.  Nothing makes the run go on, or the user retry.
Fairness ==
    /\ WF_vars((Broadcast \/ CloseSubscribers) /\ UNCHANGED <<shown, subscription, reads>>)
    /\ WF_vars(Deliver /\ UNCHANGED <<shown, subscription, reads>>)
    /\ WF_vars(Restart /\ UNCHANGED <<shown, subscription, reads>>)
    /\ WF_vars(Connect \/ ConnectFails) /\ WF_vars(Receive)
    /\ WF_vars(Snapshot) /\ WF_vars(Reconciled) /\ WF_vars(~ClientWorks /\ ReadFails)

FairSpec == Spec /\ Fairness

----------------------------------------------------------------------------
Frames == [class : {"gap", "state", "activity", "eof"}, row : Rows, val : Nat, end : BOOLEAN,
           rev : Nat, size : Nat]
Reads  == [at : {"none", "asked", "sampled", "run", "reply"}, rev : Nat, view : [Rows -> Nat], over : BOOLEAN]
Mailboxes == [ring : Seq(Frames), bytes : Nat, gap : BOOLEAN, gapRev : Nat, closed : BOOLEAN]

\* The state has its type.  The mailbox never exceeds its bounds, and its byte count
\* is exact (hasRoomLocked, evictActivityLocked).
MailboxBounded ==
    /\ Len(mb.ring) <= MaxEvents /\ mb.bytes <= MaxBytes
    /\ mb.bytes = SizeOf(mb.ring)
TypeOK ==
    /\ MailboxBounded
    /\ hist \in Seq([row : Rows, val : Nat])
    /\ db \in [Rows -> Nat] /\ ended \in BOOLEAN /\ unsent \subseteq Rows /\ silent \subseteq Rows
    /\ rev \in Nat /\ book \in {"live", "closed", "unknown"} /\ up \in BOOLEAN
    /\ mb \in Mailboxes /\ sub \in {"on", "off"} /\ wire \in Seq(Frames)
    /\ used \in [DOMAIN Bounds -> Nat]
    /\ view \in [Rows -> Nat] /\ over \in BOOLEAN /\ stateRev \in Nat
    /\ link \in {"dialing", "attached", "closed"} /\ tries \in 0..MaxTries
    /\ read \in Reads /\ {again, retry, broken} \subseteq BOOLEAN /\ fails \in 0..MaxFails

\* Nothing is under way: no write to announce, no frame or gap queued for an
\* attached view, no read in flight.
Quiet ==
    /\ unsent = {} /\ ~Pending
    /\ over \/ (link = "attached" /\ sub = "on" /\ wire = <<>> /\ mb.ring = <<>> /\ ~mb.gap)

\* No state change is silently lost ("ClassState is never silently lost",
\* eventmailbox.go:20): once nothing is under way, the view shows the database,
\* but for rows written without an event and for a view that reports a failed read.
ViewCurrent == Quiet /\ ~retry => \A r \in Rows \ silent : view[r] = db[r]

\* And a revision is never ahead of what it stands for ("every event at or below the
\* sampled revision already has its write reflected in the read", daemon.go:1725):
\* a view that holds revision n has seen, in the rows it shows, every write that
\* revisions 1 to n of this daemon announced.
RevisionSeen ==
    used["crashes"] = 0 /\ sub = "on" /\ ~Pending /\ ~retry =>
        \A n \in DOMAIN hist : n <= stateRev => view[hist[n].row] >= hist[n].val
ViewTruthful == ViewCurrent /\ RevisionSeen

\* The end of the run is shown, unless the view reports that it cannot read it, or
\* the daemon, many runs later, has forgotten the run.
EndShown == ended ~> over \/ retry \/ (link = "closed" /\ tries >= MaxTries) \/ used["prunes"] > 0

\* "After a dropped connection, the TUI retries with a bounded delay and reconciles
\* when it reattaches" (concepts/daemon.md:110).
ReattachReconciles == Quiet => \A r \in Rows \ silent : view[r] = db[r]
=============================================================================
