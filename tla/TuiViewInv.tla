----------------------------- MODULE TuiViewInv -----------------------------
(***************************************************************************)
(* The inductive invariant of TuiView.  ViewTruthful speaks of a view that *)
(* has nothing to wait for; what makes it hold is what is still due to a   *)
(* view that has: every row that it shows wrongly has a write to announce, *)
(* a gap, or a frame that is still fresh when it comes, and the read in    *)
(* flight, if it is to be accepted, leaves no less than that.              *)
(***************************************************************************)
EXTENDS TuiView

Uncrashed == used["crashes"] = 0

\* Of a sequence of frames: its state frames, that they come in the order of their
\* revisions, and that there is a gap in it, or one before this frame.
States(s)  == {s[n] : n \in {k \in 1..Len(s) : IsState(s[k])}}
Ascends(s) == \A n, m \in 1..Len(s) : n < m /\ IsState(s[n]) /\ IsState(s[m]) => s[n].rev < s[m].rev
HasGap(s)  == \E n \in 1..Len(s) : s[n].class = "gap"
GapBefore(s, e) == \E n \in 1..Len(s) : s[n].class = "gap" /\ \A m \in 1..n : s[m] # e

\* The state frames that are still to be read, sent or queued, and whether a gap is.
Due       == States(wire) \cup States(mb.ring)
GapDue    == mb.gap \/ HasGap(wire)
Gapped(e) == GapBefore(wire, e) \/ (mb.gap /\ e \notin States(wire))

\* The frames come in the order of their revisions, and of their row's versions.
InOrder ==
    /\ Ascends(wire) /\ Ascends(mb.ring)
    /\ \A e \in States(wire), f \in States(mb.ring) : e.rev < f.rev
    /\ \A e, f \in Due : e.row = f.row /\ e.rev < f.rev => e.val < f.val
    /\ \A e \in Due : e.val <= db[e.row] /\ (e.row \in unsent => e.val < db[e.row])
    /\ \A e \in Due : e.rev > 0

\* The connection: nothing follows the end of a stream, nor is there anything without
\* one, and no frame but state and activity is queued.
LinkOK ==
    /\ sub = "on" => link = "attached" /\ up /\ \A n \in 1..Len(wire) : wire[n].class # "eof"
    /\ sub = "on" /\ mb.closed => book # "live"
    /\ sub = "off" => mb = NoMailbox
    /\ link # "attached" => sub = "off" /\ wire = <<>>
    /\ \A n \in 1..Len(wire) : wire[n].class = "eof" => n = Len(wire)
    /\ \A n \in 1..Len(mb.ring) : mb.ring[n].class \in {"state", "activity"}

\* The daemon: a run that goes on is in its books.
DaemonOK ==
    /\ ~up => unsent = {} /\ sub = "off" /\ book = "unknown"
    /\ up /\ (~ended \/ unsent # {}) => book = "live"
    /\ Uncrashed => up
    /\ \A r, s \in unsent : r = s
    /\ ended => unsent \subseteq {0}
    /\ over => ended

\* Revisions: those of this daemon count what was announced.
HistOK ==
    /\ rev = Len(hist) /\ (book = "unknown" => hist = <<>>)
    /\ \A n \in 1..Len(hist) : /\ hist[n].val <= db[hist[n].row]
                               /\ hist[n].row \in unsent => hist[n].val < db[hist[n].row]
    /\ \A n, m \in 1..Len(hist) : n < m /\ hist[n].row = hist[m].row => hist[n].val < hist[m].val
RevsOK ==
    /\ book # "unknown" /\ (sub = "on" \/ Uncrashed) => \A e \in Due : e.rev <= rev
    /\ book # "unknown" /\ Uncrashed =>
          /\ stateRev <= rev /\ read.rev <= rev
          /\ \A e \in Due : hist[e.rev].row = e.row /\ hist[e.rev].val = e.val

\* The end of the run is the last state that there is to tell.
EndOK ==
    /\ \A e \in Due : e.end => e.row = 0 /\ ended /\ unsent = {} /\ e.val = db[0]
    /\ \A n \in 1..Len(wire) : IsState(wire[n]) /\ wire[n].end =>
           /\ mb.ring = <<>> /\ ~mb.gap
           /\ \A m \in 1..Len(wire) : m > n => wire[m].class = "eof"
    /\ \A n \in 1..Len(mb.ring) : IsState(mb.ring[n]) /\ mb.ring[n].end => n = Len(mb.ring)

\* The read in flight, and what its reply would show if it were completed now.
Known == [r \in Rows |-> IF read.at = "reply" \/ (read.at = "run" /\ r = 0) THEN read.view[r] ELSE db[r]]
ReadOK ==
    /\ read.over => read.at \in {"run", "reply"} /\ ended /\ Known = db
    /\ Pending => ~retry
    /\ again => Pending
    /\ read.at \in {"none", "asked"} => read.rev = 0

\* After a crash no read succeeds: a view that was attached anew will ask for one.
CrashOK ==
    ~Uncrashed /\ sub = "on" =>
        \/ GapDue \/ (~Pending /\ retry) \/ (Pending /\ (again \/ read.at = "asked"))

----------------------------------------------------------------------------
\* A view v at revision n has row r right, or has something due that will correct it.
Good(v, n, r) ==
    \/ r \in unsent \/ GapDue
    \/ \E e \in Due : e.rev > n /\ e.row = r /\ e.val = db[r]
    \/ v[r] = db[r] /\ \A e \in Due : e.rev > n => e.row # r
AllGood(v, n) == \A r \in Rows \ silent : Good(v, n, r)
AllRight(v)   == \A r \in Rows \ silent : v[r] = db[r]

\* The stream goes on, or all that it had to tell was sent.
Live    == sub = "on" \/ \E e \in Due : e.end
Begun   == read.at \in {"sampled", "run", "reply"}
Settles == Begun /\ ~again /\ read.rev >= stateRev      \* its reply will be accepted and last
Idle    == ~Pending /\ ~retry

ShownOK ==
    /\ ~over /\ Live /\ Idle => AllGood(view, stateRev)
    /\ ~over /\ Live /\ Settles /\ ~(read.at = "sampled" /\ ended) /\ ~read.over => AllGood(Known, read.rev)
OverOK ==
    /\ over /\ Idle => AllRight(view)
    /\ over /\ read.at \in {"run", "reply"} /\ ~read.over =>
           link = "attached" /\ (Settles => AllRight(Known))

\* A view at revision n has seen each write that the revisions up to n announced; and
\* the revisions that follow n are all due, but for those that a gap stands for.
Seen(v, n) == \A m \in 1..Len(hist) : m <= n => v[hist[m].row] >= hist[m].val
DueAt(m)   == \E e \in Due : e.rev = m
Unbroken(n) ==
    /\ \A e \in Due : \A m \in n + 1..e.rev - 1 : DueAt(m) \/ Gapped(e)
    /\ \A m \in n + 1..rev : DueAt(m) \/ GapDue
SeenOK ==
    Uncrashed =>
        /\ Idle /\ (sub = "on" \/ link = "dialing") => Seen(view, stateRev)
        /\ Begun => Seen(Known, read.rev)
FollowOK ==
    Uncrashed /\ sub = "on" /\ book # "unknown" =>
        /\ Idle => Unbroken(stateRev)
        /\ Settles => Unbroken(read.rev)

IInv ==
    /\ TypeOK
    /\ LinkOK /\ DaemonOK /\ InOrder /\ HistOK /\ RevsOK /\ EndOK /\ ReadOK /\ CrashOK
    /\ ShownOK /\ OverOK /\ SeenOK /\ FollowOK
=============================================================================
