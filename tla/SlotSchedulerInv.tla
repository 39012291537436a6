-------------------------- MODULE SlotSchedulerInv --------------------------
(***************************************************************************)
(* The inductive invariant of SlotScheduler.  SlotsAccounted is not        *)
(* inductive alone: a grant may become a held slot only if the run holds   *)
(* none, so a run must have one waiter at most, one owner of it, and none  *)
(* at all before it starts and once its release has begun.  Work keeps its *)
(* slot because only a parked slot may be taken away, and a claim that has *)
(* been seen to be held is no longer parked; a wakeup is not lost because  *)
(* whoever frees a slot has the dispatch that follows on its stack.        *)
(***************************************************************************)
EXTENDS SlotScheduler

AcquirePlaces == {"acq", "resv", "take", "wait", "join", "count", "land", "drop"}
RunPlaces     == {"new", "queued", "work", "gate", "parked", "stop", "done", "mark"} \cup AcquirePlaces

\* A helper's place tells its task, and only a helper has one.
HelperPlace(h) ==
    \/ pc[h] = "idle" /\ task[h] = NoTask
    \/ /\ task[h].run \in Runs
       /\ \/ pc[h] \in {"try", "enq", "admitted"} /\ task[h].kind = "admit"
          \/ pc[h] = "answer" /\ task[h].kind = "respond"
          \/ pc[h] \in {"agent"} \cup AcquirePlaces /\ task[h].kind = "agent"
PlacesOK == /\ pc[Watcher] = "idle"
            /\ \A r \in Runs : pc[r] \in RunPlaces
            /\ \A h \in Helpers : HelperPlace(h)

\* A response is accepted only at a gate; agents run only in a run's lifetime, and
\* only one launch at a time is being admitted, of a run that has not started.
HelpersOK ==
    /\ \A h \in Helpers : task[h].kind = "respond" => pc[task[h].run] \in {"gate", "parked"}
    /\ \A h \in Helpers : task[h].kind = "agent" => pc[task[h].run] \in {"work", "parked", "stop"} \cup AcquirePlaces
    /\ \A h \in Helpers : pc[h] \in {"try", "enq"} => pc[task[h].run] = "new"
    /\ \A g, h \in Helpers : task[g].kind = "admit" /\ task[h].kind = "admit" => g = h

\* A run that has not started, or has finished, has no slot and no claim to one; only the
\* waiter of a finished run may still have to be withdrawn.  A parked slot is held.
Clean(r) == ~held[r] /\ ~slotYielded[r] /\ ~slotParked[r] /\ ~pending[r] /\ ~flight[r]
RunsOK ==
    \A r \in Runs : /\ pc[r] \in {"new", "queued"} => Clean(r) /\ waiter[r] = "none"
                    /\ pc[r] = "done" => Clean(r)
                    /\ slotParked[r] => held[r]

LinesOK == /\ Once(queued) /\ \A r \in InLine(queued) : pc[r] = "queued"
           /\ Once(prio) /\ \A r \in InLine(prio) : waiter[r] = "waiting"

\* The second section of release follows its first one: nothing is called in between.
StacksOK == \A t \in Threads : sub[t] # <<>> => "settle" \notin InLine(Tail(sub[t]))

\* The goroutine of the run's flight.
Owner(t) == pc[t] \in {"wait", "count", "land", "drop"}
FlightsOK ==
    /\ \A t \in Threads : Owner(t) => flight[Target(t)]
    /\ \A r \in Runs : flight[r] => \E t \in Threads : Owner(t) /\ Target(t) = r
    /\ \A t, u \in Threads : Owner(t) /\ Owner(u) /\ Target(t) = Target(u) => t = u
    /\ \A t \in Threads : pc[t] \in {"count", "land", "drop"} => waiter[Target(t)] = "none"
ClaimsOK ==
    /\ \A r \in Runs : waiter[r] # "none" => ~held[r] /\ (pending[r] \/ flight[r] \/ rel[r].pending)
    /\ \A r \in Runs : pending[r] => ~flight[r]
    /\ \A t \in Threads : rel[t].pending => In(t, "settle") /\ rel[t].run = t /\ pc[t] = "done"

\* Work has a slot that refresh may not take away.  From Reserve on, a slot that is
\* held is no longer parked.
WorkOK == \A t \in Threads :
    /\ pc[t] \in {"work", "agent", "count", "land"} => held[Target(t)]
    /\ pc[t] \in {"work", "agent", "count", "land", "take"} => ~slotParked[Target(t)]

\* Until the limits are edited, no more slots are given out than there are.
LimitOK == edits = 0 => max = cfg.max /\ hold = cfg.hold /\ (max = 0 \/ active <= max)

\* Until then no parked slot is released, and a dispatch follows every other release.
WakeupsOK ==
    edits = 0 => \A t \in Threads :
        /\ "unpark" \notin InLine(sub[t])
        /\ In(t, "settle") => "disp" \in InLine(Tail(sub[t]))

IInv == /\ TypeOK /\ PlacesOK /\ HelpersOK /\ RunsOK /\ LinesOK /\ StacksOK /\ FlightsOK /\ ClaimsOK
        /\ SlotsAccounted /\ WorkOK /\ LimitOK /\ WakeupsOK /\ NoLostWakeup
=============================================================================
