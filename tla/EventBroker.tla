---------------------------- MODULE EventBroker ----------------------------
(***************************************************************************)
(* One run's event stream inside the daemon: the run's rows in SQLite, the *)
(* goroutine that writes them and then broadcasts, the state revision, and *)
(* one subscriber's mailbox (internal/daemon/eventmailbox.go, Subscribe,   *)
(* broadcast and closeSubscribers of manager.go) with the frames sent down *)
(* its socket.  The subscriber is modelled in a module that extends this   *)
(* one.                                                                    *)
(*                                                                         *)
(* A row's value is abstracted to its version: the number of times it was  *)
(* written.  Row 0 is the run row, row n the n-th step's.                  *)
(***************************************************************************)
EXTENDS Integers, Sequences, FiniteSetsExt

CONSTANTS
    NSteps,      \* steps of the pipeline
    Dynamic,     \* steps a subscriber does not know of until it reads their rows
    Sizes,       \* accounting sizes of frames
    MaxEvents,   \* mailboxMaxEvents
    MaxBytes,    \* mailboxMaxBytes
    WireMax,     \* frames the socket and the subscriber's channel hold
    MaxWrites,   \* bound: versions of a row
    MaxRevs,     \* bound: state events before the last
    MaxLogs,     \* bound: log chunks
    MaxRewinds,  \* bound: rewinds of the pipeline to an earlier step
    MaxCrashes,  \* bound: daemon crashes
    MaxDrops,    \* bound: broken event connections
    MaxPrunes,   \* bound: prunings of the finished runs' bookkeeping
    MaxUses      \* bound: of the last five in all

Steps == 1..NSteps
Rows  == 0..NSteps

ASSUME BrokerAssumption ==
    /\ NSteps \in Nat /\ Dynamic \subseteq Steps
    /\ Sizes \subseteq Nat \ {0} /\ MaxEvents \in Nat /\ MaxBytes \in Nat /\ WireMax \in Nat
    /\ {MaxWrites, MaxRevs, MaxLogs, MaxRewinds, MaxCrashes, MaxDrops, MaxPrunes, MaxUses} \subseteq Nat

VARIABLES
    db, ended,        \* each row's version, and whether the run row is terminal
    unsent,           \* rows written by the run's goroutine and not yet broadcast
    silent,           \* rows whose latest write is announced by no event
    rev, book,        \* stateRevs of the run, and whether completedRuns holds it
    hist,             \* history: the version that each revision announced, of which row
    up,               \* the daemon is running
    mb, sub,          \* the subscriber's mailbox, and whether its stream is running
    wire,             \* frames sent to the subscriber and not yet read
    used              \* how often each bounded action was taken

store  == <<db, ended, unsent, silent>>
broker == <<rev, book, up, hist>>
stream == <<mb, sub, wire>>
brokerVars == <<store, broker, stream, used>>

Frame(class, row, val, end, at, size) ==
    [class |-> class, row |-> row, val |-> val, end |-> end, rev |-> at, size |-> size]
Gap(at) == Frame("gap", 0, 0, FALSE, at, 0)
Eof     == Frame("eof", 0, 0, FALSE, 0, 0)

Bounds == [logs |-> MaxLogs, rewinds |-> MaxRewinds, crashes |-> MaxCrashes,
           drops |-> MaxDrops, prunes |-> MaxPrunes]
Uses      == MapThenSumSet(LAMBDA what : used[what], DOMAIN used)
Use(what) == used[what] < Bounds[what] /\ Uses < MaxUses /\ used' = [used EXCEPT ![what] = @ + 1]

----------------------------------------------------------------------------
\* The mailbox of a new subscription opens gapped; a completed run's is closed.
NewMailbox == [ring |-> <<>>, bytes |-> 0, gap |-> TRUE, gapRev |-> rev, closed |-> book = "closed"]
NoMailbox  == [ring |-> <<>>, bytes |-> 0, gap |-> FALSE, gapRev |-> 0, closed |-> TRUE]

IsState(e) == e.class = "state"
HasRoom(m, size) == Len(m.ring) < MaxEvents /\ m.bytes + size <= MaxBytes
Uncounted(m, e)  == [m EXCEPT !.ring = Append(@, e)]                          \* mutant of Queued
Queued(m, e)     == [m EXCEPT !.ring = Append(@, e), !.bytes = @ + e.size]
Folded(m, e)     == [m EXCEPT !.gap = TRUE, !.gapRev = IF e.rev > @ THEN e.rev ELSE @]

\* The frames of a ring at these places, in their order; and a ring's accounting size.
Only(ring, places) ==
    [n \in 1..Cardinality(places) |->
        ring[CHOOSE i \in places : Cardinality(places \cap (1..i)) = n]]
SizeOf(ring) ==
    LET sum[n \in 0..Len(ring)] == IF n = 0 THEN 0 ELSE sum[n - 1] + ring[n].size
    IN  sum[Len(ring)]

\* evictActivityLocked scans the ring from its front and drops the activity it
\* finds, until a state frame of this size has room.
Activity(ring, n) == {i \in 1..n : ~IsState(ring[i])}
Scanned(m, n) ==
    LET gone == Activity(m.ring, n)
    IN  [m EXCEPT !.ring = Only(@, DOMAIN @ \ gone), !.bytes = @ - SizeOf(Only(m.ring, gone))]
Evicted(m, size) ==
    LET enough == {n \in 1..Len(m.ring) : HasRoom(Scanned(m, n), size)}
    IN  Scanned(m, IF enough = {} THEN Len(m.ring) ELSE Min(enough))

\* publish: activity is dropped when there is no room; a state frame is queued,
\* at the expense of queued activity, or folded into the gap.
QueueBehindGap(m, e) == IF HasRoom(m, e.size) THEN Queued(m, e) ELSE Folded(m, e)
PublishState(m, e) ==
    LET r == IF HasRoom(m, e.size) THEN m ELSE Evicted(m, e.size) IN
    IF m.gap THEN Folded(m, e)
    ELSE IF HasRoom(r, e.size) THEN Queued(r, e) ELSE Folded(r, e)
Publish(m, e) ==
    IF m.closed THEN m
    ELSE IF IsState(e) THEN PublishState(m, e)
    ELSE IF HasRoom(m, e.size) THEN Queued(m, e) ELSE m

\* next: the gap first, then the ring, then the end of a closed stream.
Deliver ==
    /\ sub = "on" /\ Len(wire) < WireMax
    /\ \/ /\ mb.gap
          /\ wire' = Append(wire, Gap(mb.gapRev))
          /\ mb' = [mb EXCEPT !.gap = FALSE, !.gapRev = 0] /\ sub' = sub
       \/ /\ ~mb.gap /\ mb.ring # <<>>
          /\ wire' = Append(wire, Head(mb.ring))
          /\ mb' = [mb EXCEPT !.ring = Tail(@), !.bytes = @ - Head(mb.ring).size] /\ sub' = sub
       \/ /\ ~mb.gap /\ mb.ring = <<>> /\ mb.closed
          /\ wire' = Append(wire, Eof) /\ mb' = NoMailbox /\ sub' = "off"
    /\ UNCHANGED <<store, broker, used>>

----------------------------------------------------------------------------
\* The run's goroutine.  It broadcasts each write before it makes the next one;
\* the writes that no event announces are marked.
CanWrite    == up /\ ~ended /\ unsent = {}
Inserted    == \A d \in Dynamic : db[d] > 0
Started(s)  == db[s] > (IF s \in Dynamic THEN 1 ELSE 0)
Written(rows) == [r \in Rows |-> IF r \in rows THEN db[r] + 1 ELSE db[r]]
Room(rows)  == \A r \in rows : db[r] < MaxWrites

\* Execute inserts the step rows, the dynamic gates' too.
InsertSteps ==
    /\ CanWrite /\ ~Inserted
    /\ db' = Written(Dynamic) /\ silent' = silent \cup Dynamic
    /\ UNCHANGED <<ended, unsent, broker, stream, used>>

\* A step starts, parks, is fixed, or ends; or the run row gets a PR or CI readiness.
Write(r) ==
    /\ CanWrite /\ Inserted /\ Room({r}) /\ rev < MaxRevs
    /\ db' = Written({r}) /\ unsent' = {r} /\ silent' = silent \ {r}
    /\ UNCHANGED <<ended, broker, stream, used>>

\* prepareRestart: ResetStepsFrom, and for strict shipping the CI readiness.
ResetRows(s) == {r \in s..NSteps : Started(r)}
Rewind(s) ==
    /\ CanWrite /\ \E c \in (s + 1)..NSteps : Started(c)
    /\ Use("rewinds")
    /\ \E run \in {{}, {0}} :
        /\ Room(ResetRows(s) \cup run)
        /\ db' = Written(ResetRows(s) \cup run) /\ unsent' = run
        /\ silent' = (silent \cup ResetRows(s)) \ run
    /\ UNCHANGED <<ended, broker, stream>>

\* FailRun or completeRun: one transaction ends the run and closes a step that
\* is still executing.
EndRun ==
    /\ CanWrite
    /\ \E closing \in {{}} \cup {{s} : s \in Steps} :
        /\ \A s \in closing : Started(s)
        /\ Room(closing)
        /\ db' = Written(closing \cup {0}) /\ silent' = (silent \cup closing) \ {0}
    /\ ended' = TRUE /\ unsent' = {0}
    /\ UNCHANGED <<broker, stream, used>>

\* broadcast: stamp the next revision and publish, under subMu.
Stamp(n) == n + 1
Broadcast ==
    /\ up
    /\ \E r \in unsent, size \in Sizes :
        /\ rev' = Stamp(rev)
        /\ mb' = Publish(mb, Frame("state", r, db[r], r = 0 /\ ended, Stamp(rev), size))
        /\ hist' = Append(hist, [row |-> r, val |-> db[r]])
    /\ unsent' = {}
    /\ UNCHANGED <<db, ended, silent, book, up, sub, wire, used>>

Log ==
    /\ CanWrite /\ Use("logs")
    /\ \E size \in Sizes : mb' = Publish(mb, Frame("activity", 0, 0, FALSE, 0, size))
    /\ UNCHANGED <<store, broker, sub, wire>>

\* close is soft: what is queued still drains.
Closed(m) == [m EXCEPT !.closed = TRUE]
CloseSubscribers ==
    /\ up /\ ended /\ unsent = {} /\ book = "live"
    /\ book' = "closed" /\ mb' = Closed(mb)
    /\ UNCHANGED <<store, rev, up, hist, sub, wire, used>>

\* Many runs later the daemon forgets that this one completed, and its revision.
Prune ==
    /\ up /\ book = "closed" /\ Use("prunes")
    /\ book' = "unknown" /\ rev' = 0 /\ hist' = <<>>
    /\ UNCHANGED <<store, up, stream>>

\* The event connection breaks: the mailbox is released, frames may be lost.
Cut == /\ mb' = NoMailbox /\ sub' = "off"
       /\ IF sub = "on" THEN \E k \in 0..Len(wire) : wire' = Append(SubSeq(wire, 1, k), Eof)
                        ELSE wire' = wire
DropStream ==
    /\ sub = "on" /\ Use("drops") /\ Cut
    /\ UNCHANGED <<store, broker>>

Crash ==
    /\ up /\ Use("crashes") /\ Cut
    /\ up' = FALSE /\ rev' = 0 /\ hist' = <<>> /\ book' = "unknown" /\ unsent' = {}
    /\ UNCHANGED <<db, ended, silent>>

\* Startup recovers the run or, before any client can connect, fails it.
Restart ==
    /\ ~up /\ up' = TRUE
    /\ \/ book' = (IF ended THEN "unknown" ELSE "live") /\ UNCHANGED store
       \/ /\ ~ended /\ ended' = TRUE /\ book' = "unknown"
          /\ db' = Written({0}) /\ UNCHANGED <<unsent, silent>>
    /\ UNCHANGED <<rev, hist, stream, used>>

----------------------------------------------------------------------------
BrokerInit ==
    /\ db = [r \in Rows |-> 0] /\ ended = FALSE /\ unsent = {} /\ silent = {}
    /\ rev = 0 /\ hist = <<>> /\ book = "live" /\ up = TRUE
    /\ mb = NoMailbox /\ sub = "off" /\ wire = <<>>
    /\ used = [b \in DOMAIN Bounds |-> 0]

Writer     == InsertSteps \/ (\E r \in Rows : Write(r)) \/ (\E s \in Steps : Rewind(s)) \/ EndRun
BrokerNext == \/ Writer \/ Broadcast \/ Log \/ CloseSubscribers \/ Prune
              \/ Deliver \/ DropStream \/ Crash \/ Restart
============================================================================
