------------------------ MODULE SlotScheduler_proofs ------------------------
(***************************************************************************)
(* What SlotScheduler guarantees for every set of runs and goroutines,     *)
(* every limit and any number of config edits.                             *)
(***************************************************************************)
EXTENDS SlotSchedulerInv, Line_proofs, FiniteSetTheorems

\* The stacks that the scheduler's calls push are sequences of frames.
LEMMA FramesType ==
  /\ <<>> \in Seq(Frames) /\ \A f \in Frames : <<f>> \in Seq(Frames)
  /\ \A f, g \in Frames : <<f, g>> \in Seq(Frames)
  /\ \A fs \in Seq(Frames) : AfterRefresh(fs) \in Seq(Frames)
<1>1. \A fs \in Seq(Frames) : AfterRefresh(fs) \in Seq(Frames)
  <2>1. ASSUME NEW fs \in Seq(Frames) PROVE <<"unpark">> \o fs \in Seq(Frames)
    <3>1. <<"unpark">> \in Seq(Frames)
      BY DEF Frames
    <3>2. QED
      BY <3>1
  <2>2. QED
    BY <2>1 DEF AfterRefresh
<1>2. QED
  BY <1>1

\* Calling functions of the scheduler keeps every stack well-formed.
LEMMA RunType ==
  ASSUME sub \in [Threads -> Seq(Frames)], NEW t \in Threads, NEW frames \in Seq(Frames), Run(t, frames)
  PROVE  sub' \in [Threads -> Seq(Frames)]
<1>1. frames \o sub[t] \in Seq(Frames)
  OBVIOUS
<1>2. QED
  BY <1>1 DEF Run

\* Returning from the topmost function keeps every stack well-formed.
LEMMA LeaveType ==
  ASSUME sub \in [Threads -> Seq(Frames)], NEW t \in Threads, NEW frames \in Seq(Frames), Leave(t, frames),
         sub[t] # <<>>
  PROVE  sub' \in [Threads -> Seq(Frames)]
<1>1. Tail(sub[t]) \in Seq(Frames)
  OBVIOUS
<1>2. frames \o Tail(sub[t]) \in Seq(Frames)
  BY <1>1
<1>3. QED
  BY <1>2 DEF Leave

TypeInv == TypeOK /\ PlacesOK

\* The scheduler starts, with restored and recovered runs, in a well-typed state.
LEMMA TypeInvInit == Init => TypeInv
<1> SUFFICES ASSUME Init PROVE TypeInv
  OBVIOUS
<1>1. ConfigType
  BY LimitsAssumption DEF Init, ConfigType
<1>9. LimitsType /\ SwitchesType /\ CountsType
  <2>1. cfg.max \in Nat /\ cfg.hold \in BOOLEAN
    BY LimitsAssumption DEF Init
  <2>2. max = cfg.max /\ hold = cfg.hold /\ retrying = FALSE /\ startHold = TRUE /\ active = 0 /\ yielded = 0
    BY DEF Init
  <2>3. LimitsType
    BY <2>1, <2>2, Zenon DEF LimitsType
  <2>4. SwitchesType
    BY <2>2, Zenon DEF SwitchesType
  <2>5. CountsType
    BY <2>2 DEF CountsType
  <2>6. QED
    BY <2>3, <2>4, <2>5
<1>7. LinesType
  BY StartAssumption DEF Init, LinesType
<1>8. SlotsType /\ ClaimsType /\ parked \subseteq Runs /\ waitKind \in [Runs -> WaitKinds]
  BY DEF Init, SlotsType, ClaimsType, WaitKinds
<1>2. ControlType
  BY DEF Init, ControlType, Threads, Places, Outside, NoTask, Jobs
<1>3. StacksType
  BY FramesType DEF Init, StacksType
<1>4. LocalsType
  BY DEF Init, LocalsType, Release, NoRelease
<1>5. PlacesOK
  <2>1. pc[Watcher] = "idle" /\ \A h \in Helpers : pc[h] = "idle" /\ task[h] = NoTask
    BY ThreadsAssumption DEF Init, Threads
  <2>2. \A r \in Runs : pc[r] \in RunPlaces
    BY ThreadsAssumption DEF Init, Threads, RunPlaces
  <2>3. QED
    BY <2>1, <2>2 DEF PlacesOK, HelperPlace
<1>6. QED
  BY <1>1, <1>2, <1>3, <1>4, <1>5, <1>7, <1>8, <1>9 DEF TypeInv, TypeOK

\* A part of the state that a step leaves alone keeps its type.
LEMMA Kept ==
  ASSUME TypeOK
  PROVE  /\ UNCHANGED config => ConfigType'
         /\ UNCHANGED limits => LimitsType'
         /\ UNCHANGED lines => LinesType'
         /\ UNCHANGED switches => SwitchesType'
         /\ UNCHANGED counts => CountsType'
         /\ UNCHANGED slots => SlotsType'
         /\ UNCHANGED claims => ClaimsType'
         /\ UNCHANGED sub => StacksType'
         /\ UNCHANGED locals => LocalsType'
         /\ UNCHANGED pc /\ UNCHANGED task => ControlType' /\ (PlacesOK => PlacesOK')
  BY DEF TypeOK, ConfigType, LimitsType, LinesType, SwitchesType, CountsType, SlotsType, ClaimsType, StacksType,
         ControlType, LocalsType, config, limits, lines, switches, counts, slots, claims, locals, PlacesOK, HelperPlace

\* refresh applies configured limits and snapshots a set of runs.
LEMMA RefreshType ==
  ASSUME TypeOK, NEW t \in Threads, Refresh(t), UNCHANGED rel
  PROVE  LimitsType' /\ LocalsType'
  BY LimitsAssumption DEF TypeOK, ConfigType, Refresh, LimitsType, LocalsType, Releasing

\* Reserve keeps the slots, claims, counters and lines well-typed.
LEMMA ReserveType ==
  ASSUME TypeOK, NEW r \in Runs, ReserveSlot(r), UNCHANGED <<held, slotYielded, flight, queued, yielded>>
  PROVE  SlotsType' /\ ClaimsType' /\ LinesType' /\ CountsType' /\ parked' \subseteq Runs
<1> USE DEF ReserveSlot, TypeOK
<1>1. SlotsType' /\ parked' \subseteq Runs
  BY DEF SlotsType
<1>2. ClaimsType'
  BY DEF ClaimsType
<1>3. LinesType'
  <2>1. Append(prio, r) \in Seq(Runs)
    BY DEF LinesType
  <2>2. prio' = prio \/ prio' = Append(prio, r)
    OBVIOUS
  <2>3. QED
    BY <2>1, <2>2 DEF LinesType
<1>4. CountsType'
  BY DEF CountsType
<1>5. QED
  BY <1>1, <1>2, <1>3, <1>4

\* release's first section keeps the slots well-typed and records a release.
LEMMA BeginReleaseType ==
  ASSUME TypeOK, NEW r \in Runs, NEW yield \in BOOLEAN, BeginRelease(r, yield), UNCHANGED <<flight, waiter, todo, freed>>
  PROVE  SlotsType' /\ ClaimsType' /\ LocalsType' /\ StacksType'
<1> USE DEF BeginRelease, TypeOK, slots
<1>1. SlotsType'
  BY DEF SlotsType
<1>2. ClaimsType'
  BY DEF ClaimsType, Cancels
<1>3. LocalsType'
  <2> DEFINE d == [run |-> r, held |-> held[r], yielded |-> slotYielded[r], pending |-> Cancels(r, yield), yield |-> yield]
  <2>1. d \in Release
    BY DEF Release, Cancels, ClaimsType, SlotsType
  <2>2. rel' = rel \/ rel' = [rel EXCEPT ![r] = d]
    OBVIOUS
  <2> HIDE DEF d
  <2>3. QED
    BY <2>1, <2>2 DEF LocalsType
<1>4. StacksType'
  <2>1. r \in Threads
    BY DEF Threads
  <2>2. <<"settle">> \o ThenDispatch \in Seq(Frames)
    BY DEF Frames, ThenDispatch
  <2>3. CASE UNCHANGED sub
    BY <2>3 DEF StacksType
  <2>4. CASE Run(r, <<"settle">> \o ThenDispatch)
    BY <2>1, <2>2, <2>4, RunType DEF StacksType
  <2>5. QED
    BY <2>3, <2>4
<1>5. QED
  BY <1>1, <1>2, <1>3, <1>4

\* Every section of the scheduler's own functions keeps the types.
LEMMA TypeScheduler == ASSUME TypeInv, NEW t \in Threads, Scheduler(t) PROVE TypeInv'
<1> USE DEF TypeInv
<1>0. StacksType'
  <2>1. ASSUME NEW f \in Seq(Frames), Run(t, f) PROVE StacksType'
    BY <2>1, RunType DEF TypeOK, StacksType
  <2>2. ASSUME NEW f \in Seq(Frames), Leave(t, f), sub[t] # <<>> PROVE StacksType'
    BY <2>2, LeaveType DEF TypeOK, StacksType
  <2>3. UNCHANGED sub => StacksType'
    BY Kept
  <2>4. <<"settle">> \in Seq(Frames) /\ <<"settle", "disp">> \in Seq(Frames) /\ <<"disp">> \in Seq(Frames)
        /\ AfterRefresh(<<"loop">>) \in Seq(Frames) /\ <<>> \in Seq(Frames)
    BY FramesType DEF Frames
  <2>5. QED
    BY <2>1, <2>2, <2>3, <2>4 DEF Scheduler, ReleaseParked, Settle, Dispatch, GrantResumed, StartQueued, CanStart, DropUnclaimed,
          ClaimFails, DispatchDone, In
<1>1. CASE ReleaseParked(t)
  <2>1. SlotsType'
    BY <1>1 DEF ReleaseParked, TypeOK, SlotsType, LocalsType, slots
  <2>2. LocalsType'
    <3>1. \A r \in Runs : [run |-> r, held |-> TRUE, yielded |-> FALSE, pending |-> FALSE, yield |-> TRUE] \in Release
      BY DEF Release
    <3>2. rel' \in [Threads -> Release]
      BY <1>1, <3>1 DEF ReleaseParked, TypeOK, LocalsType
    <3>3. todo' \in [Threads -> SUBSET Runs] /\ freed' \in [Threads -> BOOLEAN]
      BY <1>1 DEF ReleaseParked, TypeOK, LocalsType
    <3>4. QED
      BY <3>2, <3>3 DEF LocalsType
  <2>3. QED
    BY <1>0, <1>1, <2>1, <2>2, Kept DEF ReleaseParked, TypeOK
<1>2. CASE Settle(t)
  <2>1. LinesType'
    BY <1>2, WithoutType DEF Settle, WithoutWaiter, TypeOK, LinesType
  <2>2. CountsType'
    BY <1>2 DEF Settle, TypeOK, CountsType, Granted
  <2>3. ClaimsType'
    BY <1>2 DEF Settle, TypeOK, ClaimsType
  <2>4. LocalsType'
    BY <1>2 DEF Settle, TypeOK, LocalsType, Release, NoRelease
  <2>5. QED
    BY <1>0, <1>2, <2>1, <2>2, <2>3, <2>4, Kept DEF Settle, TypeOK
<1>3. CASE Dispatch(t)
  BY <1>0, <1>3, RefreshType, Kept DEF Dispatch, TypeOK
<1>4. CASE GrantResumed(t)
  <2>1. Head(prio) \in Runs /\ LinesType'
    BY <1>4 DEF GrantResumed, TypeOK, LinesType
  <2>2. ClaimsType' /\ CountsType'
    BY <1>4, <2>1 DEF GrantResumed, TypeOK, ClaimsType, CountsType
  <2>3. QED
    BY <1>0, <1>4, <2>1, <2>2, Kept DEF GrantResumed, TypeOK
<1>5. CASE StartQueued(t)
  <2>1. Head(queued) \in Runs /\ LinesType'
    BY <1>5 DEF StartQueued, CanStart, TypeOK, LinesType
  <2>2. CountsType'
    BY <1>5 DEF StartQueued, TypeOK, CountsType
  <2>3. SlotsType'
    BY <1>5, <2>1 DEF StartQueued, TypeOK, SlotsType
  <2>4. LocalsType'
    BY <1>5, <2>1 DEF StartQueued, TypeOK, LocalsType, locals
  <2>5. ControlType' /\ PlacesOK'
    BY <1>5, <2>1, ThreadsAssumption
       DEF StartQueued, Goto, TypeOK, ControlType, Places, Outside, Threads, PlacesOK, HelperPlace, RunPlaces
  <2>6. QED
    BY <1>0, <1>5, <2>1, <2>2, <2>3, <2>4, <2>5, Kept DEF StartQueued, TypeOK
<1>7. CASE DropUnclaimed(t)
  <2>1. Head(queued) \in Runs /\ LinesType'
    BY <1>7 DEF DropUnclaimed, CanStart, TypeOK, LinesType
  <2>2. CountsType'
    BY <1>7 DEF DropUnclaimed, TypeOK, CountsType
  <2>3. SlotsType'
    BY <1>7, <2>1 DEF DropUnclaimed, TypeOK, SlotsType, slots
  <2>4. LocalsType'
    BY <1>7, <2>1 DEF DropUnclaimed, TypeOK, LocalsType, Release
  <2>5. ControlType' /\ PlacesOK'
    BY <1>7, <2>1, ThreadsAssumption
       DEF DropUnclaimed, Goto, TypeOK, ControlType, Places, Outside, Threads, PlacesOK, HelperPlace, RunPlaces
  <2>6. QED
    BY <1>0, <1>7, <2>1, <2>2, <2>3, <2>4, <2>5, Kept DEF DropUnclaimed, TypeOK
<1>6. CASE ClaimFails(t) \/ DispatchDone(t)
  <2>1. SwitchesType'
    BY <1>6 DEF ClaimFails, DispatchDone, TypeOK, SwitchesType, switches
  <2>2. QED
    BY <1>0, <1>6, <2>1, Kept DEF ClaimFails, DispatchDone, TypeOK
<1>8. QED
  BY <1>1, <1>2, <1>3, <1>4, <1>5, <1>6, <1>7 DEF Scheduler

\* The goroutine of a launch or of an accepted response works for a run.
LEMMA HelperRun == ASSUME TypeInv, NEW h \in Helpers PROVE pc[h] # "idle" => task[h].run \in Runs
  BY DEF TypeInv, PlacesOK, HelperPlace

\* A run, and a helper that keeps its task, may go to the places of their kind.
LEMMA RunGoes ==
  ASSUME TypeInv, NEW r \in Runs, NEW place \in RunPlaces, Goto(r, place), UNCHANGED task
  PROVE  ControlType' /\ PlacesOK'
<1>1. ControlType'
  BY DEF TypeInv, TypeOK, ControlType, Goto, RunPlaces, AcquirePlaces, Places, Inside, Outside
<1>2. PlacesOK'
  BY ThreadsAssumption DEF TypeInv, TypeOK, ControlType, PlacesOK, HelperPlace, Goto, Threads
<1>3. QED
  BY <1>1, <1>2

\* An idle helper that begins a task may go to the places of its kind.
LEMMA HelperGoes ==
  ASSUME TypeInv, NEW h \in Helpers, NEW place \in Places, NEW job \in Jobs, NEW r \in Runs \cup {NoRun},
         Goto(h, place), task' = [task EXCEPT ![h] = [kind |-> job, run |-> r]],
         \/ place = "idle" /\ job = "none" /\ r = NoRun
         \/ /\ r \in Runs
            /\ \/ place \in {"try", "enq", "admitted"} /\ job = "admit"
               \/ place = "answer" /\ job = "respond"
               \/ place \in {"agent"} \cup AcquirePlaces /\ job = "agent"
  PROVE  ControlType' /\ PlacesOK'
<1>1. ControlType'
  BY DEF TypeInv, TypeOK, ControlType, Goto
<1>2. PlacesOK'
  <2>1. pc'[Watcher] = "idle" /\ \A q \in Runs : pc'[q] \in RunPlaces
    BY ThreadsAssumption DEF TypeInv, TypeOK, ControlType, PlacesOK, Goto, Threads
  <2>2. HelperPlace(h)'
    BY DEF TypeInv, TypeOK, ControlType, Goto, Threads, HelperPlace, NoTask
  <2>3. \A g \in Helpers : g # h => HelperPlace(g)'
    BY DEF TypeInv, TypeOK, ControlType, Goto, Threads, HelperPlace, PlacesOK
  <2>4. QED
    BY <2>1, <2>2, <2>3 DEF PlacesOK
<1>3. QED
  BY <1>1, <1>2

\* A helper that keeps or ends its task stays at the places of its kind.
LEMMA HelperMoves ==
  ASSUME TypeInv, NEW h \in Helpers, NEW place \in Places, Goto(h, place), UNCHANGED task,
         task[h].run \in Runs,
         \/ place \in {"try", "enq", "admitted"} /\ task[h].kind = "admit"
         \/ place = "answer" /\ task[h].kind = "respond"
         \/ place \in {"agent"} \cup AcquirePlaces /\ task[h].kind = "agent"
  PROVE  ControlType' /\ PlacesOK'
<1>1. ControlType'
  BY DEF TypeInv, TypeOK, ControlType, Goto
<1>2. pc'[Watcher] = "idle" /\ \A q \in Runs : pc'[q] \in RunPlaces
  BY ThreadsAssumption DEF TypeInv, TypeOK, ControlType, PlacesOK, Goto, Threads
<1>3. \A g \in Helpers : HelperPlace(g)'
  BY DEF TypeInv, TypeOK, ControlType, Goto, Threads, HelperPlace, PlacesOK
<1>4. QED
  BY <1>1, <1>2, <1>3 DEF PlacesOK

\* Only runs and agents are inside Acquire, each for a run.
LEMMA AcquirerRun ==
  ASSUME TypeInv, NEW t \in Threads, pc[t] \in AcquirePlaces
  PROVE  Target(t) \in Runs /\ (t \in Runs \/ (t \in Helpers /\ task[t].kind = "agent" /\ task[t].run \in Runs))
<1>1. t # Watcher
  BY DEF TypeInv, PlacesOK, AcquirePlaces
<1>2. t \in Runs \/ t \in Helpers
  BY <1>1 DEF Threads
<1>3. CASE t \in Runs
  BY <1>3 DEF Target
<1>4. CASE t \in Helpers
  BY <1>4, ThreadsAssumption DEF TypeInv, PlacesOK, HelperPlace, Target, AcquirePlaces
<1>5. QED
  BY <1>2, <1>3, <1>4

\* A goroutine inside Acquire goes only to the places Acquire has.
LEMMA AcquirerMoves ==
  ASSUME TypeInv, NEW t \in Threads, pc[t] \in AcquirePlaces, NEW place \in AcquirePlaces, Goto(t, place), UNCHANGED task
  PROVE  ControlType' /\ PlacesOK'
<1>1. place \in RunPlaces /\ place \in Places
  BY DEF RunPlaces, AcquirePlaces, Places, Inside
<1>2. QED
  BY <1>1, AcquirerRun, RunGoes, HelperMoves

\* Entering a call of the scheduler keeps the stacks well-formed.
LEMMA CallType ==
  ASSUME TypeOK, NEW t \in Threads
  PROVE  /\ UNCHANGED sub => StacksType'
         /\ Run(t, <<"disp">>) => StacksType'
         /\ Run(t, AfterRefresh(<<>>)) => StacksType'
<1>1. <<"disp">> \in Seq(Frames) /\ AfterRefresh(<<>>) \in Seq(Frames)
  BY FramesType DEF Frames
<1>2. QED
  BY <1>1, RunType, Kept DEF TypeOK, StacksType

\* Config edits, the watcher's tick and the release of the queue keep the types.
LEMMA TypeDaemon ==
  ASSUME TypeInv, EditConfig \/ Tick \/ ReleaseQueue \/ \E h \in Helpers : RetryClaim(h)
  PROVE  TypeInv'
<1> USE DEF TypeInv
<1>1. CASE EditConfig
  <2>1. ConfigType'
    BY <1>1, LimitsAssumption DEF EditConfig, TypeOK, ConfigType
  <2>2. QED
    BY <1>1, <2>1, Kept DEF EditConfig, TypeOK
<1>2. CASE Tick
  BY <1>2, CallType, Kept DEF Tick, TypeOK, Threads
<1>3. CASE ReleaseQueue
  <2>1. SwitchesType'
    BY <1>3 DEF ReleaseQueue, TypeOK, SwitchesType
  <2>2. QED
    BY <1>3, <2>1, CallType, Kept DEF ReleaseQueue, TypeOK, Threads
<1>4. ASSUME NEW h \in Helpers, RetryClaim(h) PROVE TypeInv'
  <2>1. SwitchesType'
    BY <1>4 DEF RetryClaim, TypeOK, SwitchesType
  <2>2. QED
    BY <1>4, <2>1, CallType, Kept DEF RetryClaim, TypeOK, Threads
<1>5. QED
  BY <1>1, <1>2, <1>3, <1>4

\* Admission of a launch, and the retry of a claim, keep the types.
LEMMA TypeAdmission ==
  ASSUME TypeInv, NEW h \in Helpers,
         (\E r \in Runs : Admit(h, r)) \/ TryAdmit(h) \/ Enqueue(h) \/ Admitted(h)
  PROVE  TypeInv'
<1> USE DEF TypeInv
<1>0. h \in Threads
  BY DEF Threads
<1>1. ASSUME NEW r \in Runs, Admit(h, r) PROVE TypeInv'
  <2>1. ControlType' /\ PlacesOK'
    BY <1>1, HelperGoes DEF Admit, Begin, Places, Inside, Jobs
  <2>2. QED
    BY <1>0, <1>1, <2>1, RefreshType, CallType, Kept DEF Admit, TypeOK
<1>2. CASE TryAdmit(h)
  <2>1. task[h].run \in Runs /\ task[h].kind = "admit"
    BY <1>2 DEF TryAdmit, At, PlacesOK, HelperPlace, AcquirePlaces
  <2>2. SlotsType'
    BY <1>2, <2>1 DEF TryAdmit, TypeOK, SlotsType
  <2>5. CountsType'
    BY <1>2 DEF TryAdmit, TypeOK, CountsType
  <2>3. ControlType' /\ PlacesOK'
    <3>1. CASE pc' = [pc EXCEPT ![h] = "enq"] /\ task' = task
      BY <2>1, <3>1, HelperMoves DEF Goto, Places, Inside
    <3>2. CASE pc' = [pc EXCEPT ![h] = "idle", ![task[h].run] = "work"] /\ End(h)
      BY <2>1, <3>2, ThreadsAssumption
         DEF End, NoTask, TypeOK, ControlType, Places, Outside, Threads, PlacesOK, HelperPlace, RunPlaces, Jobs
    <3>3. QED
      BY <1>2, <3>1, <3>2 DEF TryAdmit
  <2>4. QED
    BY <1>2, <1>0, <2>2, <2>3, <2>5, CallType, Kept DEF TryAdmit, TypeOK
<1>3. CASE Enqueue(h)
  <2>1. task[h].run \in Runs /\ task[h].kind = "admit"
    BY <1>3 DEF Enqueue, At, PlacesOK, HelperPlace, AcquirePlaces
  <2>2. LinesType'
    <3>1. Append(queued, task[h].run) \in Seq(Runs)
      BY <2>1 DEF TypeOK, LinesType
    <3>2. QED
      BY <1>3, <3>1 DEF Enqueue, TypeOK, LinesType
  <2>3. ControlType' /\ PlacesOK'
    BY <1>3, <2>1, ThreadsAssumption
       DEF Enqueue, TypeOK, ControlType, Places, Outside, Inside, Threads, PlacesOK, HelperPlace, RunPlaces
  <2>4. QED
    BY <1>3, <1>0, <2>2, <2>3, CallType, Kept DEF Enqueue, TypeOK
<1>4. CASE Admitted(h)
  <2>1. ControlType' /\ PlacesOK'
    BY <1>4, HelperGoes DEF Admitted, End, NoTask, Places, Outside, Jobs
  <2>2. QED
    BY <1>4, <1>0, <2>1, CallType, Kept DEF Admitted, TypeOK
<1>5. QED
  BY <1>1, <1>2, <1>3, <1>4

\* Accepting a response to a gate keeps the types.
LEMMA TypeResponse ==
  ASSUME TypeInv, NEW h \in Helpers, (\E r \in Runs : Respond(h, r) \/ RunAgent(h, r)) \/ Answer(h) \/ AgentDone(h)
  PROVE  TypeInv'
<1> USE DEF TypeInv
<1>0. h \in Threads
  BY DEF Threads
<1>1. ASSUME NEW r \in Runs, Respond(h, r) PROVE TypeInv'
  <2>1. ControlType' /\ PlacesOK'
    BY <1>1, HelperGoes DEF Respond, Begin, Places, Inside, Jobs
  <2>2. QED
    BY <1>0, <1>1, <2>1, RefreshType, CallType, Kept DEF Respond, TypeOK
<1>2. ASSUME NEW r \in Runs, RunAgent(h, r) PROVE TypeInv'
  <2>1. ControlType' /\ PlacesOK'
    BY <1>2, HelperGoes DEF RunAgent, Begin, Places, Inside, Jobs, AcquirePlaces
  <2>2. QED
    BY <1>0, <1>2, <2>1, RefreshType, CallType, Kept DEF RunAgent, TypeOK
<1>3. CASE Answer(h)
  <2>1. task[h].run \in Runs
    BY <1>3, HelperRun DEF Answer, At
  <2>2. SlotsType' /\ ClaimsType' /\ LinesType' /\ CountsType' /\ parked' \subseteq Runs
    BY <1>3, <2>1, ReserveType DEF Answer
  <2>3. waitKind' \in [Runs -> WaitKinds]
    BY <1>3, <2>1 DEF Answer, TypeOK, WaitKinds
  <2>4. ControlType' /\ PlacesOK'
    BY <1>3, HelperGoes DEF Answer, End, NoTask, Places, Outside, Jobs
  <2>5. QED
    BY <1>3, <2>2, <2>3, <2>4, Kept DEF Answer, TypeOK
<1>4. CASE AgentDone(h)
  <2>1. ControlType' /\ PlacesOK'
    BY <1>4, HelperGoes DEF AgentDone, End, NoTask, Places, Outside, Jobs
  <2>2. QED
    BY <1>4, <2>1, Kept DEF AgentDone, TypeOK
<1>5. QED
  BY <1>1, <1>2, <1>3, <1>4

\* Every step of a run's main goroutine keeps the types.
LEMMA TypeRun == ASSUME TypeInv, NEW r \in Runs, RunStep(r) PROVE TypeInv'
<1> USE DEF TypeInv
<1>0. r \in Threads /\ \A place \in {"work", "gate", "parked", "mark", "resv", "done"} : place \in RunPlaces
  BY DEF Threads, RunPlaces, AcquirePlaces
<1>1. waitKind' \in [Runs -> WaitKinds]
  BY DEF RunStep, Park, YieldAtGate, PollCI, Mark, Resume, Finish, CancelQueued, TypeOK, WaitKinds
<1>2. CASE Park(r)
  BY <1>0, <1>1, <1>2, RunGoes, Kept DEF Park, TypeOK
<1>3. CASE YieldAtGate(r)
  <2>1. ControlType' /\ PlacesOK'
    BY <1>0, <1>3, RunGoes DEF YieldAtGate
  <2>2. LimitsType' /\ LocalsType'
    BY <1>0, <1>3, RefreshType, Kept DEF YieldAtGate, limits, locals
  <2>3. QED
    BY <1>0, <1>1, <1>3, <2>1, <2>2, CallType, Kept DEF YieldAtGate, TypeOK
<1>4. CASE PollCI(r)
  BY <1>0, <1>1, <1>4, RunGoes, RefreshType, CallType, Kept DEF PollCI, TypeOK
<1>5. CASE Mark(r)
  <2>1. CASE hold
    <3>1. SlotsType' /\ ClaimsType' /\ LocalsType' /\ StacksType' /\ parked' \subseteq Runs
      BY <1>5, <2>1 DEF Mark, TypeOK, SlotsType, ClaimsType, LocalsType, StacksType
    <3>2. QED
      BY <1>0, <1>1, <1>5, <3>1, RunGoes, Kept DEF Mark, TypeOK
  <2>2. CASE ~hold
    BY <1>0, <1>1, <1>5, <2>2, BeginReleaseType, RunGoes, Kept DEF Mark, TypeOK
  <2>3. QED
    BY <2>1, <2>2
<1>6. CASE Resume(r)
  BY <1>0, <1>1, <1>6, RunGoes, RefreshType, CallType, Kept DEF Resume, TypeOK
<1>7. CASE Finish(r)
  BY <1>0, <1>1, <1>7, BeginReleaseType, RunGoes, Kept DEF Finish, TypeOK
<1>8. CASE CancelQueued(r)
  <2>1. LinesType'
    BY <1>8, WithoutType DEF CancelQueued, TypeOK, LinesType
  <2>2. QED
    BY <1>0, <1>1, <1>8, <2>1, RunGoes, Kept DEF CancelQueued, TypeOK
<1>9. QED
  BY <1>2, <1>3, <1>4, <1>5, <1>6, <1>7, <1>8 DEF RunStep

\* Every section of Acquire, waitForSlot and setHeld keeps the types.
LEMMA TypeWaiting == ASSUME TypeInv, NEW t \in Threads, Waiting(t) PROVE TypeInv'
<1> USE DEF TypeInv
<1> DEFINE r == Target(t)
<1>0. pc[t] \in AcquirePlaces /\ \A place \in {"resv", "take", "join", "acq", "wait", "count", "land", "drop"} : place \in AcquirePlaces
  BY DEF Waiting, Again, AcquireReserve, Take, SetHeld, CountResumed, CancelWait, Land, CancelJoin, At, AcquirePlaces
<1>1. r \in Runs
  BY <1>0, AcquirerRun
<1> HIDE DEF r
<1>2. CASE Again(t)
  BY <1>0, <1>2, AcquirerMoves, RefreshType, CallType, Kept DEF Again, TypeOK
<1>3. CASE AcquireReserve(t)
  BY <1>0, <1>1, <1>3, AcquirerMoves, ReserveType, Kept DEF AcquireReserve, TypeOK, r
<1>4. CASE Take(t)
  <2>1. ClaimsType'
    BY <1>1, <1>4 DEF Take, TypeOK, ClaimsType, r
  <2>2. waitKind' \in [Runs -> WaitKinds]
    BY <1>1, <1>4 DEF Take, TypeOK, WaitKinds, r
  <2>3. ControlType' /\ PlacesOK'
    <3>1. CASE held[r]
      <4>1. CASE t \in Runs
        BY <1>4, <3>1, <4>1, RunGoes DEF Take, Working, RunPlaces, r
      <4>2. CASE t \notin Runs
        BY <1>0, <1>4, <3>1, <4>2, AcquirerRun, HelperMoves DEF Take, Working, Places, Outside, r
      <4>3. QED
        BY <4>1, <4>2
    <3>2. CASE ~held[r]
      BY <1>0, <1>4, <3>2, AcquirerMoves DEF Take, r
    <3>3. QED
      BY <3>1, <3>2
  <2>4. QED
    BY <1>4, <2>1, <2>2, <2>3, Kept DEF Take, TypeOK
<1>5. CASE SetHeld(t)
  <2>1. SlotsType' /\ ClaimsType'
    BY <1>1, <1>5 DEF SetHeld, TypeOK, SlotsType, ClaimsType, r
  <2>2. ControlType' /\ PlacesOK'
    BY <1>0, <1>5, AcquirerMoves DEF SetHeld, AfterGrant
  <2>3. QED
    BY <1>5, <2>1, <2>2, Kept DEF SetHeld, TypeOK
<1>6. CASE CountResumed(t)
  <2>1. CountsType'
    BY <1>6 DEF CountResumed, TypeOK, CountsType
  <2>2. QED
    BY <1>0, <1>6, <2>1, AcquirerMoves, Kept DEF CountResumed, TypeOK
<1>7. CASE CancelWait(t)
  <2>1. ClaimsType'
    BY <1>1, <1>7 DEF CancelWait, TypeOK, ClaimsType, r
  <2>2. LinesType'
    BY <1>7, WithoutType DEF CancelWait, WithoutWaiter, TypeOK, LinesType
  <2>3. CountsType'
    BY <1>7 DEF CancelWait, Granted, TypeOK, CountsType
  <2>4. QED
    BY <1>0, <1>7, <2>1, <2>2, <2>3, AcquirerMoves, CallType, Kept DEF CancelWait, TypeOK
<1>8. CASE Land(t)
  <2>1. ClaimsType'
    BY <1>1, <1>8 DEF Land, TypeOK, ClaimsType, r
  <2>2. waitKind' \in [Runs -> WaitKinds]
    BY <1>1, <1>8 DEF Land, TypeOK, WaitKinds, r
  <2>3. ControlType'
    <3>1. pc' \in [Threads -> Places]
      BY <1>8 DEF Land, TypeOK, ControlType, Working, Failing, Places, Outside, Inside
    <3>2. task' \in [Helpers -> [kind : Jobs, run : Runs \cup {NoRun}]]
      BY <1>8 DEF Land, End, NoTask, TypeOK, ControlType, Jobs
    <3>3. QED
      BY <3>1, <3>2 DEF ControlType
  <2>4. PlacesOK'
    <3>1. \A u \in Threads : pc'[u] = IF u = t THEN IF pc[t] = "land" THEN Working(t) ELSE Failing(t)
                                    ELSE IF pc[u] = "join" /\ Target(u) = r THEN "acq" ELSE pc[u]
      BY <1>8 DEF Land, r
    <3>2. pc'[Watcher] = "idle" /\ \A q \in Runs : pc'[q] \in RunPlaces
      BY <1>0, <3>1 DEF PlacesOK, Threads, Working, Failing, RunPlaces, AcquirePlaces
    <3>3. ASSUME NEW h \in Helpers PROVE HelperPlace(h)'
      <4>1. h \in Threads /\ h \notin Runs /\ HelperPlace(h)
        BY ThreadsAssumption DEF Threads, PlacesOK
      <4>2. CASE h = t
        <5>1. task[h].run \in Runs /\ task[h].kind = "agent"
          BY <1>0, <4>1, <4>2, AcquirerRun
        <5>2. CASE pc[t] = "land"
          BY <1>8, <3>1, <4>1, <4>2, <5>1, <5>2 DEF Land, Working, HelperPlace
        <5>3. CASE pc[t] = "drop"
          BY <1>8, <3>1, <4>1, <4>2, <5>3 DEF Land, Failing, End, HelperPlace, TypeOK, ControlType
        <5>4. QED
          BY <1>8, <5>2, <5>3 DEF Land
      <4>3. CASE h # t
        <5>1. task'[h] = task[h]
          BY <1>8, <4>3 DEF Land, End, TypeOK, ControlType
        <5>2. pc'[h] = pc[h] \/ (pc[h] = "join" /\ pc'[h] = "acq")
          BY <3>1, <4>1, <4>3
        <5>3. QED
          BY <4>1, <5>1, <5>2 DEF HelperPlace, AcquirePlaces
      <4>4. QED
        BY <4>2, <4>3
    <3>4. QED
      BY <3>2, <3>3 DEF PlacesOK
  <2>5. QED
    BY <1>8, <2>1, <2>2, <2>3, <2>4, Kept DEF Land, TypeOK
<1>9. CASE CancelJoin(t)
  <2>1. ControlType' /\ PlacesOK'
    <3>1. CASE t \in Runs
      BY <1>9, <3>1, ThreadsAssumption, RunGoes DEF CancelJoin, Failing, RunPlaces
    <3>2. CASE t \in Helpers
      BY <1>9, <3>2, ThreadsAssumption, HelperGoes DEF CancelJoin, Failing, End, NoTask, Places, Outside, Jobs
    <3>3. QED
      BY <1>0, <3>1, <3>2, AcquirerRun
  <2>2. QED
    BY <1>9, <2>1, Kept DEF CancelJoin, TypeOK
<1>10. QED
  BY <1>2, <1>3, <1>4, <1>5, <1>6, <1>7, <1>8, <1>9 DEF Waiting

\* The typing invariant is inductive: every step of every goroutine keeps it.
LEMMA TypeNext == ASSUME TypeInv, [Next]_vars PROVE TypeInv'
<1>1. CASE UNCHANGED vars
  BY <1>1, Kept DEF vars, TypeInv, TypeOK
<1>2. ASSUME NEW h \in Handlers, Handler(h) PROVE TypeInv'
  BY <1>2, TypeAdmission, TypeResponse, TypeDaemon DEF Handler, Helpers
<1>3. ASSUME NEW a \in Agents, Agent(a) PROVE TypeInv'
  BY <1>3, TypeResponse DEF Agent, Helpers
<1>4. QED
  BY <1>1, <1>2, <1>3, TypeScheduler, TypeWaiting, TypeRun, TypeDaemon DEF Next

\* Every variable keeps its type, and each goroutine stays at the places of its kind.
THEOREM TypeCorrect == Spec => []TypeOK
<1>1. TypeInv => TypeOK
  BY DEF TypeInv
<1>2. QED
  BY <1>1, TypeInvInit, TypeNext, PTL DEF Spec

----------------------------------------------------------------------------
(***************************************************************************)
(* The accounts.  Whose slot is held, granted, or between the two sections *)
(* of its release; and how calls and returns change what is on a stack.    *)
(***************************************************************************)
Holders  == {r \in Runs : held[r]}
Grantees == {r \in Runs : waiter[r] = "granted"}
Due(t)   == In(t, "settle")
Leaving  == {t \in Threads : Due(t) /\ rel[t].held}

\* Naming what kind of thing each member of a set is does not change their number.
LEMMA Tagged ==
    ASSUME NEW S, IsFiniteSet(S), NEW tag
    PROVE  IsFiniteSet({<<tag, x>> : x \in S}) /\ Cardinality({<<tag, x>> : x \in S}) = Cardinality(S)
<1> DEFINE T == {<<tag, x>> : x \in S}
           f == [x \in S |-> <<tag, x>>]
<1>1. f \in Bijection(S, T)
  <2>1. f \in [S -> T]
    OBVIOUS
  <2>2. \A x, y \in S : f[x] = f[y] => x = y
    OBVIOUS
  <2>3. \A y \in T : \E x \in S : f[x] = y
    OBVIOUS
  <2> HIDE DEF f, T
  <2>4. QED
    BY <2>1, <2>2, <2>3 DEF Bijection, Injection, Surjection, IsInjective
<1>2. ExistsBijection(S, T)
  BY <1>1 DEF ExistsBijection
<1> HIDE DEF f, T
<1>3. QED
  BY <1>2, FS_Bijection DEF T

\* The three groups are made of goroutines, of which there are finitely many.
LEMMA GroupsFinite == IsFiniteSet(Holders) /\ IsFiniteSet(Grantees) /\ IsFiniteSet(Leaving)
<1>1. Holders \subseteq Threads /\ Grantees \subseteq Threads /\ Leaving \subseteq Threads
  BY DEF Holders, Grantees, Leaving, Threads
<1>2. QED
  BY <1>1, ThreadsAssumption, FS_Subset

\* The counter stands for three groups, which are counted one by one.
LEMMA CountUsed ==
    /\ Cardinality(Used) = Cardinality(Holders) + Cardinality(Grantees) + Cardinality(Leaving)
    /\ Cardinality(Holders) \in Nat /\ Cardinality(Grantees) \in Nat /\ Cardinality(Leaving) \in Nat
<1> DEFINE H == {<<"held", r>> : r \in Holders}
           G == {<<"granted", r>> : r \in Grantees}
           L == {<<"leaving", t>> : t \in Leaving}
<1>1. Used = H \cup G \cup L
  BY DEF Used, Holders, Grantees, Leaving, Due
<1>2. /\ IsFiniteSet(H) /\ Cardinality(H) = Cardinality(Holders)
      /\ IsFiniteSet(G) /\ Cardinality(G) = Cardinality(Grantees)
      /\ IsFiniteSet(L) /\ Cardinality(L) = Cardinality(Leaving)
  BY GroupsFinite, Tagged
<1>3. H \cap G = {} /\ (H \cup G) \cap L = {}
  OBVIOUS
<1> HIDE DEF H, G, L
<1>4. IsFiniteSet(H \cup G) /\ Cardinality(H \cup G) = Cardinality(H) + Cardinality(G)
  <2>1. Cardinality(H \cap G) = 0
    BY <1>3, FS_EmptySet
  <2>2. /\ IsFiniteSet(H \cup G)
        /\ Cardinality(H \cup G) = Cardinality(H) + Cardinality(G) - Cardinality(H \cap G)
    BY <1>2, FS_Union
  <2>3. Cardinality(H) \in Nat /\ Cardinality(G) \in Nat
    BY <1>2, FS_CardinalityType
  <2>4. QED
    BY <2>1, <2>2, <2>3
<1>5. Cardinality(Used) = Cardinality(H \cup G) + Cardinality(L)
  <2>1. Cardinality((H \cup G) \cap L) = 0
    BY <1>3, FS_EmptySet
  <2>2. Cardinality((H \cup G) \cup L) = Cardinality(H \cup G) + Cardinality(L) - Cardinality((H \cup G) \cap L)
    BY <1>2, <1>4, FS_Union
  <2>3. Cardinality(H \cup G) \in Nat /\ Cardinality(L) \in Nat
    BY <1>2, <1>4, FS_CardinalityType
  <2>4. QED
    BY <1>1, <2>1, <2>2, <2>3
<1>6. Cardinality(Holders) \in Nat /\ Cardinality(Grantees) \in Nat /\ Cardinality(Leaving) \in Nat
  BY GroupsFinite, FS_CardinalityType
<1>7. QED
  BY <1>2, <1>4, <1>5, <1>6

\* Who stands in two lines put together, and in a line without its head.
LEMMA Together ==
    ASSUME NEW S, NEW s \in Seq(S), NEW u \in Seq(S)
    PROVE  InLine(s \o u) = InLine(s) \cup InLine(u)
<1>1. /\ Len(s) \in Nat /\ Len(u) \in Nat /\ Len(s \o u) = Len(s) + Len(u)
      /\ \A i \in 1..Len(s) + Len(u) : (s \o u)[i] = IF i <= Len(s) THEN s[i] ELSE u[i - Len(s)]
  BY ConcatProperties
<1> DEFINE v == s \o u
<1>2. Len(v) = Len(s) + Len(u) /\ \A i \in 1..Len(s) + Len(u) : v[i] = IF i <= Len(s) THEN s[i] ELSE u[i - Len(s)]
  BY <1>1
<1> HIDE DEF v
<1>3. ASSUME NEW x \in InLine(v) PROVE x \in InLine(s) \cup InLine(u)
  <2>1. PICK i \in 1..Len(s) + Len(u) : x = v[i]
    BY <1>2 DEF InLine
  <2>2. CASE i <= Len(s)
    <3>1. i \in 1..Len(s) /\ x = s[i]
      BY <1>1, <1>2, <2>1, <2>2
    <3>2. QED
      BY <3>1 DEF InLine
  <2>3. CASE i > Len(s)
    <3>1. i - Len(s) \in 1..Len(u) /\ x = u[i - Len(s)]
      BY <1>1, <1>2, <2>1, <2>3
    <3>2. QED
      BY <3>1 DEF InLine
  <2>4. QED
    BY <1>1, <2>2, <2>3
<1>4. ASSUME NEW x \in InLine(s) PROVE x \in InLine(v)
  <2>1. PICK i \in 1..Len(s) : x = s[i]
    BY <1>4 DEF InLine
  <2>2. i \in 1..Len(v) /\ v[i] = x
    BY <1>1, <1>2, <2>1
  <2>3. QED
    BY <2>2 DEF InLine
<1>5. ASSUME NEW x \in InLine(u) PROVE x \in InLine(v)
  <2>1. PICK i \in 1..Len(u) : x = u[i]
    BY <1>5 DEF InLine
  <2>2. i + Len(s) \in 1..Len(v) /\ v[i + Len(s)] = x
    BY <1>1, <1>2, <2>1
  <2>3. QED
    BY <2>2 DEF InLine
<1>6. QED
  BY <1>3, <1>4, <1>5 DEF v

LEMMA Headed ==
    ASSUME NEW S, NEW s \in Seq(S), s # <<>>
    PROVE  InLine(s) = {Head(s)} \cup InLine(Tail(s))
<1>1. /\ Len(s) \in Nat /\ Len(s) >= 1 /\ Head(s) = s[1] /\ Tail(s) \in Seq(S) /\ Len(Tail(s)) = Len(s) - 1
      /\ \A i \in 1..Len(Tail(s)) : Tail(s)[i] = s[i + 1]
  BY HeadTailProperties
<1>2. ASSUME NEW x \in InLine(s) PROVE x = Head(s) \/ x \in InLine(Tail(s))
  <2>1. PICK i \in 1..Len(s) : x = s[i]
    BY <1>2 DEF InLine
  <2>2. CASE i # 1
    <3>1. i - 1 \in 1..Len(Tail(s)) /\ Tail(s)[i - 1] = x
      BY <1>1, <2>1, <2>2
    <3>2. QED
      BY <3>1 DEF InLine
  <2>3. QED
    BY <1>1, <2>1, <2>2
<1>3. ASSUME NEW x \in InLine(Tail(s)) PROVE x \in InLine(s)
  <2>1. PICK i \in 1..Len(Tail(s)) : x = Tail(s)[i]
    BY <1>3 DEF InLine
  <2>2. i + 1 \in 1..Len(s) /\ s[i + 1] = x
    BY <1>1, <2>1
  <2>3. QED
    BY <2>2 DEF InLine
<1>4. Head(s) \in InLine(s)
  BY <1>1 DEF InLine
<1>5. QED
  BY <1>2, <1>3, <1>4

\* What is pushed comes before what was there.
LEMMA Pushed ==
    ASSUME NEW s \in Seq(Frames), NEW u \in Seq(Frames)
    PROVE  /\ <<"settle">> \o u # <<>> /\ Head(<<"settle">> \o u) = "settle" /\ Tail(<<"settle">> \o u) = u
           /\ (<<"settle">> \o s) \o u = <<"settle">> \o (s \o u)
<1>1. "settle" \in Frames
  BY DEF Frames
<1>2. <<"settle">> \in Seq(Frames)
  BY <1>1
<1>3. (<<"settle">> \o s) \o u = <<"settle">> \o (s \o u)
  BY <1>2, ConcatAssociative
<1>4. <<"settle">> \o u # <<>> /\ Head(<<"settle">> \o u) = "settle" /\ Tail(<<"settle">> \o u) = u
  BY <1>1
<1>5. QED
  BY <1>3, <1>4

\* A stack that holds no second section of a release has none due; a stack that has none
\* on top holds none at all, since only the topmost frame may be one.
LEMMA Plain ==
    ASSUME NEW s \in Seq(Frames), "settle" \notin InLine(s)
    PROVE  ~(s # <<>> /\ Head(s) = "settle") /\ (s # <<>> => "settle" \notin InLine(Tail(s)))
  BY Headed
LEMMA Covered ==
    ASSUME NEW s \in Seq(Frames), s # <<>> => Head(s) # "settle" /\ "settle" \notin InLine(Tail(s))
    PROVE  "settle" \notin InLine(s)
<1>1. CASE s = <<>>
  BY <1>1 DEF InLine
<1>2. CASE s # <<>>
  BY <1>2, Headed
<1>3. QED
  BY <1>1, <1>2

\* What a step of t may do to the stacks: leave the second sections of release that are
\* due as they are, make one due, or finish one.
Steady    == StacksOK' /\ \A u \in Threads : Due(u)' <=> Due(u)
Enters(t) == StacksOK' /\ ~Due(t) /\ Due(t)' /\ \A u \in Threads \ {t} : Due(u)' <=> Due(u)
Exits(t)  == StacksOK' /\ Due(t) /\ ~Due(t)' /\ \A u \in Threads \ {t} : Due(u)' <=> Due(u)

\* Steps that call nothing, that call functions which are no releases, that call a
\* release, and that return from the topmost function.
LEMMA NoCall == ASSUME StacksOK, UNCHANGED sub PROVE Steady
  BY DEF Steady, StacksOK, Due, In

LEMMA Calls ==
    ASSUME StacksType, StacksOK, NEW t \in Threads, ~Due(t),
           NEW fs \in Seq(Frames), "settle" \notin InLine(fs), Run(t, fs)
    PROVE  Steady
<1> DEFINE s == fs \o sub[t]
<1>1. sub[t] \in Seq(Frames)
  BY DEF StacksType
<1>2. "settle" \notin InLine(sub[t])
  BY <1>1, Covered DEF Due, In, StacksOK
<1>3. s \in Seq(Frames) /\ "settle" \notin InLine(s)
  BY <1>1, <1>2, Together
<1>4. sub'[t] = s /\ \A u \in Threads \ {t} : sub'[u] = sub[u]
  BY DEF StacksType, Run
<1> HIDE DEF s
<1>5. ~(s # <<>> /\ Head(s) = "settle") /\ (s # <<>> => "settle" \notin InLine(Tail(s)))
  BY <1>3, Plain
<1>6. QED
  BY <1>4, <1>5 DEF Steady, StacksOK, Due, In

LEMMA Releases ==
    ASSUME StacksType, StacksOK, NEW t \in Threads, ~Due(t),
           NEW fs \in Seq(Frames), "settle" \notin InLine(fs), Run(t, <<"settle">> \o fs)
    PROVE  Enters(t)
<1> DEFINE s == (<<"settle">> \o fs) \o sub[t]
<1>1. sub[t] \in Seq(Frames)
  BY DEF StacksType
<1>2. "settle" \notin InLine(sub[t])
  BY <1>1, Covered DEF Due, In, StacksOK
<1>3. fs \o sub[t] \in Seq(Frames) /\ "settle" \notin InLine(fs \o sub[t])
  BY <1>1, <1>2, Together
<1>4. sub'[t] = s /\ \A u \in Threads \ {t} : sub'[u] = sub[u]
  BY DEF StacksType, Run
<1>6. s # <<>> /\ Head(s) = "settle" /\ Tail(s) = fs \o sub[t]
  <2> DEFINE u == sub[t]
             w == fs \o u
  <2>1. w \in Seq(Frames) /\ u \in Seq(Frames) /\ s = (<<"settle">> \o fs) \o u
    BY <1>1, <1>3
  <2> HIDE DEF s, u
  <2>2. s = <<"settle">> \o w
    BY <2>1, Pushed
  <2> HIDE DEF w
  <2>3. s # <<>> /\ Head(s) = "settle" /\ Tail(s) = w
    BY <2>1, <2>2, Pushed
  <2>4. QED
    BY <2>3 DEF w, u
<1> HIDE DEF s
<1>7. Due(t)' /\ \A u \in Threads \ {t} : Due(u)' <=> Due(u)
  BY <1>4, <1>6 DEF Due, In
<1>8. StacksOK'
  BY <1>3, <1>4, <1>6 DEF StacksOK
<1>9. QED
  BY <1>7, <1>8 DEF Enters

LEMMA Returns ==
    ASSUME StacksType, StacksOK, NEW t \in Threads, sub[t] # <<>>,
           NEW fs \in Seq(Frames), "settle" \notin InLine(fs), Leave(t, fs)
    PROVE  IF Due(t) THEN Exits(t) ELSE Steady
<1> DEFINE s == fs \o Tail(sub[t])
<1>1. Tail(sub[t]) \in Seq(Frames) /\ "settle" \notin InLine(Tail(sub[t]))
  <2>1. sub[t] \in Seq(Frames)
    BY DEF StacksType
  <2>2. Tail(sub[t]) \in Seq(Frames)
    BY <2>1, HeadTailProperties
  <2>3. QED
    BY <2>2 DEF StacksOK
<1>2. s \in Seq(Frames) /\ "settle" \notin InLine(s)
  <2> DEFINE u == Tail(sub[t])
  <2>1. u \in Seq(Frames) /\ "settle" \notin InLine(u) /\ s = fs \o u
    BY <1>1
  <2> HIDE DEF s, u
  <2>2. s \in Seq(Frames) /\ InLine(s) = InLine(fs) \cup InLine(u)
    BY <2>1, Together
  <2>3. QED
    BY <2>1, <2>2
<1>3. sub'[t] = s /\ \A u \in Threads \ {t} : sub'[u] = sub[u]
  BY DEF StacksType, Leave
<1> HIDE DEF s
<1>4. ~(s # <<>> /\ Head(s) = "settle") /\ (s # <<>> => "settle" \notin InLine(Tail(s)))
  BY <1>2, Plain
<1>5. ~Due(t)' /\ \A u \in Threads \ {t} : Due(u)' <=> Due(u)
  BY <1>3, <1>4 DEF Due, In
<1>6. StacksOK'
  BY <1>3, <1>4 DEF StacksOK
<1>7. QED
  BY <1>5, <1>6 DEF Steady, Exits

\* The calls of this module, as stacks.
LEMMA CallFrames ==
    /\ InLine(<<>>) = {} /\ \A f \in Frames : InLine(<<f>>) = {f}
    /\ \A f, g \in Frames : InLine(<<f, g>>) = {f, g}
    /\ \A fs \in Seq(Frames) : InLine(AfterRefresh(fs)) \subseteq {"unpark"} \cup InLine(fs)
    /\ <<"settle">> = <<"settle">> \o <<>> /\ <<"settle", "disp">> = <<"settle">> \o <<"disp">>
<1>1. InLine(<<>>) = {} /\ \A f \in Frames : InLine(<<f>>) = {f}
  BY DEF InLine
<1>2. \A f, g \in Frames : InLine(<<f, g>>) = {f, g}
  <2>1. ASSUME NEW f, NEW g PROVE InLine(<<f, g>>) = {f, g}
    <3>1. 1..Len(<<f, g>>) = {1, 2} /\ <<f, g>>[1] = f /\ <<f, g>>[2] = g
      OBVIOUS
    <3>2. QED
      BY <3>1 DEF InLine
  <2>2. QED
    BY <2>1
<1>3. ASSUME NEW fs \in Seq(Frames) PROVE InLine(AfterRefresh(fs)) \subseteq {"unpark"} \cup InLine(fs)
  <2> DEFINE u == <<"unpark">>
  <2>1. u \in Seq(Frames) /\ InLine(u) = {"unpark"}
    BY <1>1 DEF Frames
  <2>2. AfterRefresh(fs) = IF Releasing = {} THEN fs ELSE u \o fs
    BY Zenon DEF AfterRefresh
  <2> HIDE DEF u
  <2>3. InLine(u \o fs) = {"unpark"} \cup InLine(fs)
    BY <2>1, Together
  <2>4. QED
    BY <2>2, <2>3
<1>4. <<"settle">> = <<"settle">> \o <<>> /\ <<"settle", "disp">> = <<"settle">> \o <<"disp">>
  OBVIOUS
<1>5. QED
  BY <1>1, <1>2, <1>3, <1>4

\* The stacks that are called hold no second section of a release.
LEMMA CalmFrames ==
    /\ <<>> \in Seq(Frames) /\ "settle" \notin InLine(<<>>)
    /\ <<"disp">> \in Seq(Frames) /\ "settle" \notin InLine(<<"disp">>)
    /\ \A fs \in {<<>>, <<"loop">>} : AfterRefresh(fs) \in Seq(Frames) /\ "settle" \notin InLine(AfterRefresh(fs))
<1>1. "settle" \in Frames /\ "disp" \in Frames /\ "loop" \in Frames
  BY DEF Frames
<1>2. \A f \in Frames : <<f>> \in Seq(Frames)
  OBVIOUS
<1>3. InLine(<<>>) = {} /\ InLine(<<"disp">>) = {"disp"} /\ InLine(<<"loop">>) = {"loop"}
  BY <1>1, CallFrames
<1>4. <<>> \in Seq(Frames) /\ <<"disp">> \in Seq(Frames) /\ <<"loop">> \in Seq(Frames)
  BY <1>1, <1>2
<1>5. ASSUME NEW fs \in Seq(Frames), "settle" \notin InLine(fs)
      PROVE  AfterRefresh(fs) \in Seq(Frames) /\ "settle" \notin InLine(AfterRefresh(fs))
  BY <1>5, FramesType, CallFrames
<1>6. QED
  BY <1>3, <1>4, <1>5

\* What releaseParked does to the slot of a run it finds still parked.
Unparks(t, r) ==
    /\ r \in todo[t] /\ StillParked(r)
    /\ slotParked' = [slotParked EXCEPT ![r] = FALSE]
    /\ held' = [held EXCEPT ![r] = FALSE]
    /\ slotYielded' = [slotYielded EXCEPT ![r] = TRUE]
    /\ rel' = [rel EXCEPT ![t] = [run |-> r, held |-> TRUE, yielded |-> FALSE, pending |-> FALSE, yield |-> TRUE]]

\* The sections of the scheduler's functions, by what they do to the releases that are due.
LEMMA SchedulerStacks ==
    ASSUME StacksType, StacksOK, NEW t \in Threads
    PROVE  /\ Settle(t) => Exits(t)
           /\ DropUnclaimed(t) => Enters(t)
           /\ ReleaseParked(t) => \/ Steady /\ UNCHANGED <<slots, rel>>
                                  \/ Enters(t) /\ \E r \in todo[t] : Unparks(t, r)
           /\ Dispatch(t) \/ GrantResumed(t) \/ StartQueued(t) \/ ClaimFails(t) \/ DispatchDone(t) => Steady
<1>1. ASSUME In(t, "settle"), Leave(t, <<>>) PROVE Exits(t)
  BY <1>1, CalmFrames, Returns DEF In, Due
<1>2. ASSUME sub[t] # <<>>, Head(sub[t]) # "settle", NEW fs \in Seq(Frames), "settle" \notin InLine(fs), Leave(t, fs)
      PROVE  Steady
  BY <1>2, Returns DEF In, Due
<1>3. Settle(t) => Exits(t)
  BY <1>1 DEF Settle
<1>4. ASSUME ReleaseParked(t)
      PROVE  \/ Steady /\ UNCHANGED <<slots, rel>>
             \/ Enters(t) /\ \E r \in todo[t] : Unparks(t, r)
  <2>1. sub[t] # <<>> /\ Head(sub[t]) # "settle" /\ ~Due(t)
    BY <1>4 DEF ReleaseParked, In, Due
  <2>2. ASSUME Leave(t, IF freed[t] THEN <<"disp">> ELSE <<>>) PROVE Steady
    <3>1. CASE freed[t]
      <4>1. Leave(t, <<"disp">>)
        BY <2>2, <3>1
      <4>2. QED
        BY <1>2, <2>1, <4>1, CalmFrames
    <3>2. CASE ~freed[t]
      <4>1. Leave(t, <<>>)
        BY <2>2, <3>2
      <4>2. QED
        BY <1>2, <2>1, <4>1, CalmFrames
    <3>3. QED
      BY <3>1, <3>2
  <2>3. ASSUME Run(t, <<"settle">>) PROVE Enters(t)
    BY <2>1, <2>3, CalmFrames, CallFrames, Releases
  <2>4. UNCHANGED sub => Steady
    BY NoCall
  <2>5. QED
    BY <1>4, <2>2, <2>3, <2>4 DEF ReleaseParked, Unparks, slots
<1>5. ASSUME DropUnclaimed(t) PROVE Enters(t)
  <2>1. ~Due(t) /\ Run(t, <<"settle">> \o <<"disp">>)
    BY <1>5, CallFrames DEF DropUnclaimed, CanStart, In, Due
  <2>2. QED
    BY <2>1, CalmFrames, Releases
<1>6. Dispatch(t) => Steady
  <2>1. ASSUME Dispatch(t) PROVE Leave(t, AfterRefresh(<<"loop">>)) /\ sub[t] # <<>> /\ Head(sub[t]) # "settle"
    BY <2>1 DEF Dispatch, In
  <2>2. QED
    BY <1>2, <2>1, CalmFrames
<1>7. ASSUME GrantResumed(t) \/ StartQueued(t) PROVE Steady
  BY <1>7, NoCall DEF GrantResumed, StartQueued
<1>8. ASSUME ClaimFails(t) \/ DispatchDone(t) PROVE Steady
  <2>1. Leave(t, <<>>) /\ sub[t] # <<>> /\ Head(sub[t]) # "settle"
    BY <1>8 DEF ClaimFails, DispatchDone, CanStart, In
  <2>2. QED
    BY <1>2, <2>1, CalmFrames
<1>9. QED
  BY <1>3, <1>4, <1>5, <1>6, <1>7, <1>8

\* A goroutine with an empty stack has no release due, and may call anything but one.
LEMMA OuterCalls ==
    ASSUME StacksType, StacksOK, NEW t \in Threads, sub[t] = <<>>
    PROVE  /\ ~Due(t)
           /\ UNCHANGED sub \/ Run(t, <<"disp">>) \/ Run(t, AfterRefresh(<<>>)) => Steady
<1>1. ~Due(t)
  BY DEF Due, In
<1>2. UNCHANGED sub => Steady
  BY NoCall
<1>3. Run(t, <<"disp">>) \/ Run(t, AfterRefresh(<<>>)) => Steady
  BY <1>1, CalmFrames, Calls
<1>4. QED
  BY <1>1, <1>2, <1>3

\* release's first section calls the second one when it took or cancelled something.
Frees(r, yield) == Cancels(r, yield) \/ held[r] \/ (slotYielded[r] /\ ~yield)
LEMMA ReleaseStacks ==
    ASSUME StacksType, StacksOK, NEW r \in Runs, sub[r] = <<>>, NEW yield \in BOOLEAN, BeginRelease(r, yield)
    PROVE  IF Frees(r, yield) THEN Enters(r) ELSE Steady /\ UNCHANGED <<rel, pending, slots>>
<1>1. r \in Threads /\ ~Due(r)
  BY OuterCalls DEF Threads, Due, In
<1>2. CASE Frees(r, yield)
  <2>1. Run(r, <<"settle">> \o <<"disp">>)
    BY <1>2 DEF BeginRelease, Frees, ThenDispatch
  <2>2. QED
    BY <1>1, <1>2, <2>1, CalmFrames, Releases
<1>3. CASE ~Frees(r, yield)
  BY <1>3, NoCall DEF BeginRelease, Frees
<1>4. QED
  BY <1>2, <1>3

----------------------------------------------------------------------------
(***************************************************************************)
(* Who claims what: every part of the invariant but the counter.           *)
(***************************************************************************)
Claimed == TypeInv /\ HelpersOK /\ RunsOK /\ LinesOK /\ StacksOK /\ FlightsOK /\ ClaimsOK

\* What the types say, in one place for the steps below.
LEMMA TypeFacts ==
    ASSUME TypeInv
    PROVE  /\ pc \in [Threads -> Places] /\ task \in [Helpers -> [kind : Jobs, run : Runs \cup {NoRun}]]
           /\ held \in [Runs -> BOOLEAN] /\ slotYielded \in [Runs -> BOOLEAN] /\ slotParked \in [Runs -> BOOLEAN]
           /\ pending \in [Runs -> BOOLEAN] /\ flight \in [Runs -> BOOLEAN]
           /\ waiter \in [Runs -> {"none", "waiting", "granted"}]
           /\ rel \in [Threads -> Release] /\ todo \in [Threads -> SUBSET Runs]
           /\ prio \in Seq(Runs) /\ queued \in Seq(Runs) /\ active \in Int /\ StacksType
  BY DEF TypeInv, TypeOK, ControlType, SlotsType, ClaimsType, LocalsType, LinesType, CountsType

\* A part of the state that a step leaves alone stays right.
LEMMA StillRight ==
    ASSUME Claimed
    PROVE  /\ UNCHANGED <<pc, task>> => HelpersOK'
           /\ UNCHANGED <<pc, slots, pending, flight, waiter>> => RunsOK'
           /\ UNCHANGED <<lines, pc, waiter>> => LinesOK'
           /\ UNCHANGED <<pc, task, flight, waiter>> => FlightsOK'
           /\ UNCHANGED <<waiter, held, pending, flight, rel, pc>> /\ Steady => ClaimsOK' /\ StacksOK'
  BY DEF Claimed, HelpersOK, RunsOK, LinesOK, FlightsOK, ClaimsOK, Steady, slots, lines, Clean, Owner, Target, Due

\* A goroutine that goes to another place without touching a slot or a claim, and
\* neither begins a flight nor leaves one.
LEMMA Moves ==
    ASSUME Claimed, NEW t \in Threads, NEW place \in Places, Goto(t, place), UNCHANGED <<slots, claims, lines, rel>>,
           Steady, ~Due(t), place \notin {"new", "queued", "done"}, pc[t] # "queued",
           \A u \in Threads : Owner(u) => Target(u)' = Target(u),
           Owner(t) <=> place \in {"wait", "count", "land", "drop"},
           place \in {"count", "land", "drop"} => waiter[Target(t)] = "none"
    PROVE  RunsOK' /\ LinesOK' /\ StacksOK' /\ FlightsOK' /\ ClaimsOK'
<1> USE TypeFacts DEF Claimed
<1>1. pc'[t] = place /\ \A u \in Threads \ {t} : pc'[u] = pc[u]
  BY DEF Goto
<1>2. \A r \in Runs : r \in Threads
  BY DEF Threads
<1>3. RunsOK'
  BY <1>1, <1>2 DEF RunsOK, Clean, slots, claims
<1>4. LinesOK'
  <2>1. \A r \in InLine(queued) : r \in Runs /\ r # t
    BY DEF LinesOK, InLine
  <2>2. QED
    BY <1>1, <1>2, <2>1 DEF LinesOK, lines, claims
<1>5. FlightsOK'
  <2>1. \A u \in Threads : Owner(u)' <=> Owner(u)
    BY <1>1 DEF Owner
  <2>2. \A u \in Threads : pc'[u] \in {"count", "land", "drop"} => waiter[Target(u)] = "none"
    BY <1>1 DEF FlightsOK
  <2>3. \A u \in Threads : pc'[u] \in {"count", "land", "drop"} => Owner(u)
    BY <1>1 DEF Owner
  <2>4. QED
    BY <2>1, <2>2, <2>3 DEF FlightsOK, claims
<1>6. StacksOK'
  BY DEF Steady
<1>7. ClaimsOK'
  BY <1>1 DEF ClaimsOK, claims, slots, Steady, Due
<1>8. QED
  BY <1>3, <1>4, <1>5, <1>6, <1>7

\* A run that goes on does not leave a response, an agent or a launch behind.
LEMMA RunGoesOn ==
    ASSUME Claimed, NEW r \in Runs, NEW place \in Places, Goto(r, place), UNCHANGED task, pc[r] # "new",
           GateLocked(r) => place \in {"gate", "parked"},
           AgentsBusy(r) => place \in {"work", "parked", "stop"} \cup AcquirePlaces
    PROVE  HelpersOK'
<1>1. /\ r \in Threads /\ r \notin Helpers /\ pc'[r] = place
      /\ \A u \in Threads \ {r} : pc'[u] = pc[u]
  BY TypeFacts, ThreadsAssumption DEF Claimed, Goto, Threads
<1>2. \A h \in Helpers : h \in Threads /\ task[h].run \in Runs \cup {NoRun} /\ task[h].kind \in Jobs
  BY TypeFacts DEF Claimed, Threads
<1>3. ASSUME NEW h \in Helpers, task[h].run = r
      PROVE  (task[h].kind = "respond" => GateLocked(r)) /\ (task[h].kind = "agent" => AgentsBusy(r))
  <2>1. task[h] = [kind |-> task[h].kind, run |-> r]
    BY <1>3, TypeFacts DEF Claimed
  <2>2. QED
    BY <2>1 DEF GateLocked, AgentsBusy, Doing
<1>4. \A h \in Helpers : pc[h] \in {"try", "enq"} => task[h].run # r
  BY DEF Claimed, HelpersOK
<1>5. \A h \in Helpers : task[h].kind \in {"respond", "agent"} => task[h].run \in Runs
  BY ThreadsAssumption DEF Claimed, TypeInv, PlacesOK, HelperPlace, NoTask
<1>6. \A q \in Runs : q # r => pc'[q] = pc[q]
  BY <1>1 DEF Threads
<1>7. \A h \in Helpers : task[h].kind = "respond" => pc'[task[h].run] \in {"gate", "parked"}
  BY <1>1, <1>3, <1>5, <1>6 DEF Claimed, HelpersOK
<1>8. \A h \in Helpers : task[h].kind = "agent" => pc'[task[h].run] \in {"work", "parked", "stop"} \cup AcquirePlaces
  BY <1>1, <1>3, <1>5, <1>6 DEF Claimed, HelpersOK
<1>9. \A h \in Helpers : pc'[h] \in {"try", "enq"} => pc'[task[h].run] = "new"
  <2>1. \A h \in Helpers : pc'[h] = pc[h]
    BY <1>1, <1>2
  <2>2. \A h \in Helpers : pc[h] \in {"try", "enq"} => task[h].run \in Runs
    BY HelperRun DEF Claimed
  <2>3. QED
    BY <1>4, <1>6, <2>1, <2>2 DEF Claimed, HelpersOK
<1>10. QED
  BY <1>7, <1>8, <1>9 DEF Claimed, HelpersOK

\* A helper that begins, goes on with or ends a task for a run in the right place.
LEMMA HelperGoesOn ==
    ASSUME Claimed, NEW h \in Helpers, NEW place \in Places, Goto(h, place),
           UNCHANGED task \/ End(h) \/ \E kind \in Jobs, q \in Runs : task' = [task EXCEPT ![h] = [kind |-> kind, run |-> q]],
           task'[h].kind = "respond" => pc[task'[h].run] \in {"gate", "parked"} /\ task'[h].run \in Runs,
           task'[h].kind = "agent" => pc[task'[h].run] \in {"work", "parked", "stop"} \cup AcquirePlaces /\ task'[h].run \in Runs,
           place \in {"try", "enq"} => pc[task'[h].run] = "new" /\ task'[h].run \in Runs,
           task'[h].kind = "admit" /\ task[h].kind # "admit" => ~AdmitLocked
    PROVE  HelpersOK' /\ \A u \in Threads \ {h} : Owner(u) => Target(u)' = Target(u)
<1>1. /\ h \in Threads /\ h \notin Runs /\ pc'[h] = place
      /\ \A u \in Threads \ {h} : pc'[u] = pc[u]
      /\ \A g \in Helpers \ {h} : task'[g] = task[g]
  BY TypeFacts, ThreadsAssumption DEF Claimed, Goto, Threads, End
<1>2. \A r \in Runs : r \in Threads /\ pc'[r] = pc[r]
  BY <1>1 DEF Threads
<1>3. \A g \in Helpers : g \in Threads
  BY DEF Threads
<1>4. \A g \in Helpers : /\ pc[g] \in {"try", "enq"} => task[g].run \in Runs
                         /\ task[g].kind \in {"respond", "agent"} => task[g].run \in Runs
  BY ThreadsAssumption DEF Claimed, TypeInv, PlacesOK, HelperPlace, NoTask
<1>5. ASSUME NEW g \in Helpers
      PROVE  /\ task'[g].kind = "respond" => pc'[task'[g].run] \in {"gate", "parked"}
             /\ task'[g].kind = "agent" => pc'[task'[g].run] \in {"work", "parked", "stop"} \cup AcquirePlaces
             /\ pc'[g] \in {"try", "enq"} => pc'[task'[g].run] = "new"
  <2>1. CASE g = h
    BY <1>1, <1>2, <2>1
  <2>2. CASE g # h
    BY <1>1, <1>2, <1>3, <1>4, <2>2 DEF Claimed, HelpersOK
  <2>3. QED
    BY <2>1, <2>2
<1>6. \A g, k \in Helpers : task'[g].kind = "admit" /\ task'[k].kind = "admit" => g = k
  BY <1>1 DEF Claimed, HelpersOK, AdmitLocked
<1>7. HelpersOK'
  BY <1>5, <1>6 DEF HelpersOK
<1>8. ASSUME NEW u \in Threads \ {h}, Owner(u) PROVE Target(u)' = Target(u)
  <2>1. u \in Runs \/ u \in Helpers
    BY <1>8 DEF Claimed, TypeInv, PlacesOK, Owner, Threads
  <2>2. QED
    BY <1>1, <2>1 DEF Target
<1>9. QED
  BY <1>7, <1>8

\* The steps of a run's main goroutine that touch no slot and no claim.
LEMMA ClaimedWalk ==
    ASSUME Claimed, NEW r \in Runs, Park(r) \/ YieldAtGate(r) \/ PollCI(r) \/ Resume(r)
    PROVE  Claimed' /\ Steady
<1>1. r \in Threads /\ sub[r] = <<>> /\ pc[r] \in {"work", "gate", "parked"}
  BY DEF Park, YieldAtGate, PollCI, Resume, At, Threads
<1>2. PICK place \in {"gate", "parked", "mark", "resv"} : Goto(r, place)
  BY DEF Park, YieldAtGate, PollCI, Resume
<1>3. place \in Places /\ UNCHANGED <<task, slots, claims, lines, rel>>
  BY DEF Park, YieldAtGate, PollCI, Resume, Places, Inside, Outside, locals
<1>4. Steady /\ ~Due(r)
  BY <1>1, OuterCalls, TypeFacts DEF Park, YieldAtGate, PollCI, Resume, Claimed
<1>5. HelpersOK'
  <2>1. AgentsBusy(r) => Resume(r) \/ YieldAtGate(r)
    BY DEF Park, PollCI
  <2>2. AgentsBusy(r) => pc[r] # "gate"
    <3>1. ASSUME NEW h \in Helpers, Doing(h, "agent", r) PROVE pc[r] \in {"work", "parked", "stop"} \cup AcquirePlaces
      BY <3>1 DEF Doing, Claimed, HelpersOK
    <3>2. QED
      BY <3>1 DEF AgentsBusy, AcquirePlaces
  <2>3. AgentsBusy(r) => Goto(r, "resv")
    BY <2>1, <2>2 DEF Resume, YieldAtGate, At
  <2>4. AgentsBusy(r) => place = "resv"
    BY <1>1, <1>2, <2>3, TypeFacts DEF Goto, Claimed
  <2>5. GateLocked(r) => Park(r) \/ PollCI(r)
    BY DEF YieldAtGate, Resume
  <2>6. GateLocked(r) => pc[r] # "work"
    BY TypeFacts, ThreadsAssumption DEF GateLocked, Doing, Claimed, HelpersOK
  <2>7. ~GateLocked(r)
    BY <2>5, <2>6 DEF Park, PollCI, At
  <2>8. QED
    BY <1>1, <1>2, <1>3, <2>4, <2>7, RunGoesOn DEF AcquirePlaces
<1>6. \A u \in Threads : Owner(u) => Target(u)' = Target(u)
  BY <1>3 DEF Target
<1>7. RunsOK' /\ LinesOK' /\ StacksOK' /\ FlightsOK' /\ ClaimsOK'
  BY <1>1, <1>2, <1>3, <1>4, <1>6, Moves DEF Owner
<1>8. TypeInv'
  BY TypeRun DEF Claimed, RunStep
<1>9. QED
  BY <1>4, <1>5, <1>7, <1>8 DEF Claimed

\* The daemon's own steps call a dispatch at most.
LEMMA ClaimedDaemon ==
    ASSUME Claimed, EditConfig \/ Tick \/ ReleaseQueue \/ \E h \in Helpers : RetryClaim(h)
    PROVE  Claimed' /\ Steady
<1>1. UNCHANGED <<pc, task, slots, claims, lines, rel, waiter, pending, flight, held>>
  BY DEF EditConfig, Tick, ReleaseQueue, RetryClaim, claims, slots, locals
<1>2. Steady
  <2>1. UNCHANGED sub \/ \E t \in Threads : sub[t] = <<>> /\ Run(t, <<"disp">>)
    BY DEF EditConfig, Tick, ReleaseQueue, RetryClaim, At, Threads
  <2>2. QED
    BY <2>1, OuterCalls, NoCall, TypeFacts DEF Claimed
<1>3. TypeInv'
  BY TypeDaemon DEF Claimed
<1>4. QED
  BY <1>1, <1>2, <1>3, StillRight DEF Claimed

\* A helper that begins a task for a run, or ends one, claims nothing.
LEMMA ClaimedHelpers ==
    ASSUME Claimed, NEW h \in Helpers,
           (\E r \in Runs : Admit(h, r) \/ Respond(h, r) \/ RunAgent(h, r)) \/ Admitted(h) \/ AgentDone(h)
    PROVE  Claimed' /\ Steady
<1>1. h \in Threads /\ sub[h] = <<>> /\ h \notin Runs /\ ~Owner(h)
  BY ThreadsAssumption DEF Admit, Respond, RunAgent, Begin, Admitted, AgentDone, At, Threads, Owner
<1>2. PICK place \in {"try", "answer", "resv", "idle"} : Goto(h, place)
  BY DEF Admit, Respond, RunAgent, Admitted, AgentDone
<1>3. place \in Places /\ UNCHANGED <<slots, claims, lines, rel>>
  BY DEF Admit, Respond, RunAgent, Admitted, AgentDone, Places, Inside, Outside, locals
<1>4. Steady /\ ~Due(h)
  BY <1>1, OuterCalls, TypeFacts DEF Admit, Respond, RunAgent, Admitted, AgentDone, Claimed
<1>5. HelpersOK' /\ \A u \in Threads \ {h} : Owner(u) => Target(u)' = Target(u)
  <2>1. ASSUME NEW r \in Runs, Admit(h, r) PROVE HelpersOK' /\ \A u \in Threads \ {h} : Owner(u) => Target(u)' = Target(u)
    <3>1. Goto(h, "try") /\ task' = [task EXCEPT ![h] = [kind |-> "admit", run |-> r]] /\ "admit" \in Jobs
      BY <2>1 DEF Admit, Begin, Jobs
    <3>2. task'[h].kind = "admit" /\ task'[h].run = r
      BY <3>1, TypeFacts DEF Claimed
    <3>3. pc[r] = "new" /\ ~AdmitLocked /\ "try" \in Places
      BY <2>1 DEF Admit, Places, Inside
    <3>4. QED
      BY <3>1, <3>2, <3>3, HelperGoesOn
  <2>2. ASSUME NEW r \in Runs, Respond(h, r) PROVE HelpersOK' /\ \A u \in Threads \ {h} : Owner(u) => Target(u)' = Target(u)
    <3>1. Goto(h, "answer") /\ task' = [task EXCEPT ![h] = [kind |-> "respond", run |-> r]] /\ "respond" \in Jobs
      BY <2>2 DEF Respond, Begin, Jobs
    <3>2. task'[h].kind = "respond" /\ task'[h].run = r
      BY <3>1, TypeFacts DEF Claimed
    <3>3. pc[r] \in {"gate", "parked"} /\ "answer" \in Places
      BY <2>2 DEF Respond, Places, Inside
    <3>4. QED
      BY <3>1, <3>2, <3>3, HelperGoesOn
  <2>3. ASSUME NEW r \in Runs, RunAgent(h, r) PROVE HelpersOK' /\ \A u \in Threads \ {h} : Owner(u) => Target(u)' = Target(u)
    <3>1. Goto(h, "resv") /\ task' = [task EXCEPT ![h] = [kind |-> "agent", run |-> r]] /\ "agent" \in Jobs
      BY <2>3 DEF RunAgent, Begin, Jobs
    <3>2. task'[h].kind = "agent" /\ task'[h].run = r
      BY <3>1, TypeFacts DEF Claimed
    <3>3. pc[r] \in {"work", "parked"} /\ "resv" \in Places
      BY <2>3 DEF RunAgent, Places, Inside
    <3>4. QED
      BY <3>1, <3>2, <3>3, HelperGoesOn
  <2>4. ASSUME Admitted(h) \/ AgentDone(h) PROVE HelpersOK' /\ \A u \in Threads \ {h} : Owner(u) => Target(u)' = Target(u)
    <3>1. Goto(h, "idle") /\ End(h) /\ "idle" \in Places
      BY <2>4 DEF Admitted, AgentDone, Places, Outside
    <3>2. task'[h].kind = "none"
      BY <3>1, TypeFacts DEF Claimed, End, NoTask
    <3>3. QED
      BY <3>1, <3>2, HelperGoesOn
  <2>5. QED
    BY <2>1, <2>2, <2>3, <2>4
<1>6. RunsOK' /\ LinesOK' /\ StacksOK' /\ FlightsOK' /\ ClaimsOK'
  <2>1. pc[h] # "queued"
    BY <1>1, ThreadsAssumption DEF Claimed, TypeInv, PlacesOK, HelperPlace, AcquirePlaces
  <2>2. QED
    BY <1>1, <1>2, <1>3, <1>4, <1>5, <2>1, Moves DEF Owner
<1>7. TypeInv'
  BY TypeAdmission, TypeResponse DEF Claimed
<1>8. QED
  BY <1>4, <1>5, <1>6, <1>7 DEF Claimed

\* What a helper's task says of the run it is for.
LEMMA HelperJobs ==
    ASSUME Claimed, NEW h \in Helpers
    PROVE  /\ task[h].kind \in {"respond", "agent"} => task[h].run \in Runs
           /\ task[h].kind = "respond" => pc[task[h].run] \in {"gate", "parked"}
           /\ task[h].kind = "agent" => pc[task[h].run] \notin {"new", "queued", "gate", "mark", "done"}
           /\ pc[h] \in {"try", "enq"} => task[h].kind = "admit" /\ task[h].run \in Runs /\ pc[task[h].run] = "new"
           /\ pc[h] \notin {"work", "gate", "parked", "mark", "new", "queued", "stop", "done"}
<1>1. HelperPlace(h)
  BY DEF Claimed, TypeInv, PlacesOK
<1>2. HelpersOK
  BY DEF Claimed
<1>3. task[h].kind \in {"respond", "agent"} => task[h].run \in Runs
  BY <1>1 DEF HelperPlace, NoTask
<1>4. QED
  BY <1>1, <1>2, <1>3 DEF HelperPlace, HelpersOK, AcquirePlaces

\* Launches: a run starts with a slot of its own, or goes to the end of the line.
LEMMA ClaimedTryAdmit == ASSUME Claimed, NEW h \in Helpers, TryAdmit(h) PROVE Claimed' /\ Steady
<1> DEFINE r == task[h].run
<1>6. \/ pc' = [pc EXCEPT ![h] = "enq"] /\ UNCHANGED <<active, held, task>>
      \/ pc' = [pc EXCEPT ![h] = "idle", ![r] = "work"] /\ held' = [held EXCEPT ![r] = TRUE] /\ End(h)
  BY DEF TryAdmit
<1> USE TypeFacts DEF Claimed
<1>1. /\ h \in Threads /\ h \notin Runs /\ r \in Runs /\ r \in Threads /\ r \notin Helpers /\ sub[h] = <<>> /\ pc[h] = "try"
      /\ task[h].kind = "admit" /\ pc[r] = "new" /\ Clean(r) /\ waiter[r] = "none" /\ r = task[h].run
  <2>1. h \in Threads /\ h \notin Runs /\ sub[h] = <<>> /\ pc[h] = "try"
    BY ThreadsAssumption DEF TryAdmit, At, Threads
  <2>2. r \in Runs /\ task[h].kind = "admit"
    BY <2>1 DEF TypeInv, PlacesOK, HelperPlace, AcquirePlaces
  <2>3. QED
    BY <2>1, <2>2, ThreadsAssumption DEF HelpersOK, RunsOK, Threads
<1>2. Steady /\ ~Due(h)
  BY <1>1, OuterCalls DEF TryAdmit
<1>3. TypeInv'
  BY TypeAdmission
<1> HIDE DEF r
<1>4. CASE pc' = [pc EXCEPT ![h] = "enq"] /\ UNCHANGED <<active, held, task>>
  <2>1. UNCHANGED <<slots, claims, lines, rel>> /\ Goto(h, "enq") /\ "enq" \in Places
    BY <1>4 DEF TryAdmit, slots, locals, Goto, Places, Inside
  <2>2. HelpersOK'
    BY <1>1, <1>4, <2>1, HelperGoesOn
  <2>3. \A u \in Threads : Owner(u) => Target(u)' = Target(u)
    BY <1>4 DEF Target
  <2>4. RunsOK' /\ LinesOK' /\ StacksOK' /\ FlightsOK' /\ ClaimsOK'
    BY <1>1, <1>2, <2>1, <2>3, Moves DEF Owner
  <2>5. QED
    BY <1>2, <1>3, <2>2, <2>4
<1>5. CASE pc' = [pc EXCEPT ![h] = "idle", ![r] = "work"] /\ held' = [held EXCEPT ![r] = TRUE] /\ End(h)
  <2>1. /\ UNCHANGED <<slotYielded, slotParked, pending, flight, waiter, lines, rel>>
        /\ pc'[h] = "idle" /\ pc'[r] = "work" /\ \A u \in Threads \ {h, r} : pc'[u] = pc[u]
        /\ task'[h] = NoTask /\ \A g \in Helpers \ {h} : task'[g] = task[g]
    BY <1>1, <1>5 DEF TryAdmit, claims, locals, End
  <2>2. \A q \in Runs : q \in Threads /\ q # h
    BY <1>1 DEF Threads
  <2>3. HelpersOK'
    <3>1. \A g \in Helpers : g \in Threads /\ g # r
      BY <1>1 DEF Threads
    <3>2. ASSUME NEW g \in Helpers, g # h
          PROVE  /\ task[g].kind = "respond" => pc'[task[g].run] \in {"gate", "parked"}
                 /\ task[g].kind = "agent" => pc'[task[g].run] \in {"work", "parked", "stop"} \cup AcquirePlaces
                 /\ pc[g] \notin {"try", "enq"}
      <4>1. pc[g] \notin {"try", "enq"}
        <5>1. pc[g] \in {"try", "enq"} => task[g].kind = "admit"
          BY HelperJobs
        <5>2. QED
          BY <1>1, <3>2, <5>1 DEF HelpersOK
      <4>2. task[g].kind \in {"respond", "agent"} => task[g].run \in Runs /\ task[g].run # r
        BY <1>1, HelperJobs
      <4>3. \A q \in Runs : q # r => pc'[q] = pc[q]
        BY <1>1, <2>1, <2>2
      <4>5. task[g].kind \in {"respond", "agent"} => pc'[task[g].run] = pc[task[g].run]
        BY <4>2, <4>3
      <4>4. QED
        BY <4>1, <4>5 DEF HelpersOK
    <3>4. \A g \in Helpers : task'[g] = IF g = h THEN NoTask ELSE task[g]
      BY <2>1
    <3>5. \A g \in Helpers : pc'[g] = IF g = h THEN "idle" ELSE pc[g]
      BY <2>1, <3>1
    <3>6. NoTask.kind = "none"
      BY DEF NoTask
    <3>7. ASSUME NEW g \in Helpers
          PROVE  /\ task'[g].kind = "respond" => pc'[task'[g].run] \in {"gate", "parked"}
                 /\ task'[g].kind = "agent" => pc'[task'[g].run] \in {"work", "parked", "stop"} \cup AcquirePlaces
                 /\ pc'[g] \notin {"try", "enq"}
      BY <3>2, <3>4, <3>5, <3>6
    <3>8. \A g, k \in Helpers : task'[g].kind = "admit" /\ task'[k].kind = "admit" => g = k
      <4>1. \A g, k \in Helpers : task[g].kind = "admit" /\ task[k].kind = "admit" => g = k
        BY DEF HelpersOK
      <4>2. \A g \in Helpers : task'[g].kind = "admit" => task[g].kind = "admit"
        BY <3>4, <3>6
      <4>3. QED
        BY <4>1, <4>2
    <3>9. QED
      BY <3>7, <3>8 DEF HelpersOK
  <2>4. RunsOK'
    BY <1>1, <1>5, <2>1, <2>2 DEF RunsOK, Clean
  <2>5. LinesOK'
    <3>1. \A q \in InLine(queued) : q \in Runs /\ pc[q] = "queued"
      BY DEF LinesOK, InLine
    <3>2. QED
      BY <1>1, <2>1, <2>2, <3>1 DEF LinesOK, lines
  <2>6. FlightsOK'
    <3>1. \A u \in Threads : Owner(u)' <=> Owner(u)
      BY <1>1, <2>1 DEF Owner
    <3>2. \A u \in Threads : Owner(u) => Target(u)' = Target(u) /\ pc'[u] = pc[u]
      BY <1>1, <2>1, ThreadsAssumption DEF Owner, Target, TypeInv, PlacesOK, Threads
    <3>3. \A u \in Threads : pc'[u] \in {"count", "land", "drop"} => Owner(u)
      BY <2>1 DEF Owner
    <3>4. QED
      BY <2>1, <3>1, <3>2, <3>3 DEF FlightsOK
  <2>7. ClaimsOK'
    BY <1>1, <1>2, <1>5, <2>1 DEF ClaimsOK, Steady, Due
  <2>8. QED
    BY <1>2, <1>3, <2>3, <2>4, <2>5, <2>6, <2>7 DEF Steady
<1>7. QED
  BY <1>4, <1>5, <1>6

\* Responses and agents belong to runs at a gate, or at work.
LEMMA NoJobs ==
    ASSUME Claimed, NEW r \in Runs
    PROVE  /\ pc[r] \in {"new", "queued", "gate", "mark", "done"} => ~AgentsBusy(r)
           /\ pc[r] \notin {"gate", "parked"} => ~GateLocked(r)
<1>1. ASSUME NEW h \in Helpers, Doing(h, "agent", r) PROVE pc[r] \notin {"new", "queued", "gate", "mark", "done"}
  BY <1>1, HelperJobs DEF Doing
<1>2. ASSUME NEW h \in Helpers, Doing(h, "respond", r) PROVE pc[r] \in {"gate", "parked"}
  BY <1>2, HelperJobs DEF Doing
<1>3. QED
  BY <1>1, <1>2 DEF AgentsBusy, GateLocked

\* A flight goes on while its goroutine stays where it is.
LEMMA FlightsGoOn ==
    ASSUME Claimed, UNCHANGED flight,
           \A u \in Threads : pc'[u] = pc[u] \/ (~Owner(u) /\ ~Owner(u)'),
           \A u \in Threads : Owner(u) => Target(u)' = Target(u),
           \A r \in Runs : flight[r] /\ waiter[r] = "none" => waiter'[r] = "none"
    PROVE  FlightsOK'
<1>1. \A u \in Threads : Owner(u)' <=> Owner(u)
  BY DEF Owner
<1>2. \A u \in Threads : pc'[u] \in {"count", "land", "drop"} => Owner(u) /\ pc'[u] = pc[u]
  BY DEF Owner
<1>3. \A u \in Threads : Owner(u) => Target(u) \in Runs
  BY AcquirerRun DEF Claimed, Owner, AcquirePlaces
<1>4. \A u \in Threads : pc'[u] \in {"count", "land", "drop"} => waiter'[Target(u)'] = "none"
  BY <1>2, <1>3 DEF Claimed, FlightsOK
<1>5. QED
  BY <1>1, <1>4 DEF Claimed, FlightsOK

LEMMA ClaimedEnqueue == ASSUME Claimed, NEW h \in Helpers, Enqueue(h) PROVE Claimed' /\ Steady
<1> DEFINE r == task[h].run
<1>0. PICK place \in {"queued", "done"} :
        /\ pc' = [pc EXCEPT ![h] = "admitted", ![r] = place]
        /\ IF place = "queued" THEN queued' = Append(queued, r) /\ Run(h, <<"disp">>) ELSE UNCHANGED <<queued, sub>>
  BY DEF Enqueue
<1>1. UNCHANGED <<task, held, slotYielded, slotParked, pending, flight, waiter, prio, rel>>
  BY DEF Enqueue, slots, claims, locals
<1>2. h \in Threads /\ h \notin Runs /\ sub[h] = <<>> /\ pc[h] = "enq"
  BY ThreadsAssumption DEF Enqueue, At, Threads
<1>3. r \in Runs /\ task[h].kind = "admit" /\ pc[r] = "new" /\ r = task[h].run
  BY <1>2, HelperJobs
<1>4. r \in Threads /\ r \notin Helpers /\ Clean(r) /\ waiter[r] = "none"
  BY <1>3, ThreadsAssumption DEF Claimed, RunsOK, Threads
<1> HIDE DEF r
<1>5. Steady
  BY <1>0, <1>2, OuterCalls, TypeFacts DEF Claimed
<1>6. TypeInv'
  BY TypeAdmission DEF Claimed
<1>7. /\ pc'[h] = "admitted" /\ pc'[r] = place /\ \A u \in Threads \ {h, r} : pc'[u] = pc[u]
      /\ \A q \in Runs : q \in Threads /\ q # h
  BY <1>0, <1>2, <1>3, <1>4, TypeFacts DEF Claimed, Threads
<1>8. HelpersOK'
  <2>1. ASSUME NEW g \in Helpers, g # h
        PROVE  /\ task[g].kind = "respond" => pc'[task[g].run] \in {"gate", "parked"}
               /\ task[g].kind = "agent" => pc'[task[g].run] \in {"work", "parked", "stop"} \cup AcquirePlaces
               /\ pc'[g] \notin {"try", "enq"}
    <3>1. task[g].kind # "admit"
      BY <1>3, <2>1 DEF Claimed, HelpersOK
    <3>2. pc'[g] \notin {"try", "enq"}
      BY <1>4, <1>7, <2>1, <3>1, HelperJobs DEF Threads
    <3>3. task[g].kind \in {"respond", "agent"} => task[g].run \in Runs /\ task[g].run # r
      BY <1>3, HelperJobs
    <3>4. \A q \in Runs : q # r => pc'[q] = pc[q]
      BY <1>7
    <3>5. task[g].kind \in {"respond", "agent"} => pc'[task[g].run] = pc[task[g].run]
      BY <3>3, <3>4
    <3>6. QED
      BY <3>2, <3>5 DEF Claimed, HelpersOK
  <2>2. task[h].kind = "admit" /\ pc'[h] = "admitted"
    BY <1>3, <1>7
  <2>3. QED
    BY <1>1, <2>1, <2>2 DEF Claimed, HelpersOK
<1>9. RunsOK'
  BY <1>1, <1>3, <1>4, <1>7 DEF Claimed, RunsOK, Clean
<1>10. LinesOK'
  <2>1. \A q \in InLine(queued) : q \in Runs /\ pc[q] = "queued"
    BY TypeFacts DEF Claimed, LinesOK, InLine
  <2>2. \A q \in InLine(queued) : pc'[q] = "queued"
    BY <1>3, <1>7, <2>1
  <2>3. Once(queued') /\ InLine(queued') \subseteq InLine(queued) \cup (IF place = "queued" THEN {r} ELSE {})
    <3>1. CASE place = "queued"
      <4>1. r \notin InLine(queued) /\ queued \in Seq(Runs) /\ Once(queued)
        BY <1>3, <2>1, TypeFacts DEF Claimed, LinesOK
      <4>2. queued' = Append(queued, r)
        BY <1>0, <3>1 DEF r
      <4>3. Once(Append(queued, r)) /\ InLine(Append(queued, r)) = InLine(queued) \cup {r}
        BY <1>3, <4>1, AppendLine
      <4>4. QED
        BY <3>1, <4>2, <4>3
    <3>2. CASE place # "queued"
      BY <1>0, <3>2 DEF Claimed, LinesOK
    <3>3. QED
      BY <3>1, <3>2
  <2>4. Once(prio') /\ \A q \in InLine(prio') : waiter'[q] = "waiting"
    BY <1>1 DEF Claimed, LinesOK
  <2>5. \A q \in InLine(queued') : pc'[q] = "queued"
    BY <1>7, <2>2, <2>3
  <2>6. QED
    BY <2>3, <2>4, <2>5 DEF LinesOK
<1>11. FlightsOK'
  <2>1. \A u \in Threads : pc'[u] = pc[u] \/ (~Owner(u) /\ ~Owner(u)')
    BY <1>0, <1>2, <1>3, <1>7 DEF Owner
  <2>2. QED
    BY <1>1, <2>1, FlightsGoOn DEF Target
<1>12. ClaimsOK'
  BY <1>1, <1>2, <1>3, <1>5, <1>7 DEF Claimed, ClaimsOK, Steady, Due
<1>13. QED
  BY <1>5, <1>6, <1>8, <1>9, <1>10, <1>11, <1>12 DEF Claimed, Steady

\* A queued run leaves the line: it is cancelled, started with a slot, or dropped.
LEMMA LeavesLine ==
    ASSUME Claimed, NEW r \in Runs, NEW place \in {"work", "done"}, Goto(r, place), pc[r] = "queued",
           UNCHANGED <<task, prio, pending, flight, waiter, slotYielded, slotParked>>,
           IF place = "work" THEN held' = [held EXCEPT ![r] = TRUE] ELSE UNCHANGED held,
           queued' = Without(queued, r)
    PROVE  HelpersOK' /\ RunsOK' /\ LinesOK' /\ FlightsOK'
<1>1. r \in Threads /\ pc'[r] = place /\ \A u \in Threads \ {r} : pc'[u] = pc[u]
  BY TypeFacts DEF Claimed, Goto, Threads
<1>2. HelpersOK'
  BY NoJobs, RunGoesOn DEF Places, Outside
<1>3. RunsOK'
  <2>1. Clean(r) /\ waiter[r] = "none"
    BY DEF Claimed, RunsOK
  <2>2. QED
    BY <1>1, <2>1, TypeFacts DEF Claimed, RunsOK, Clean, Threads
<1>4. LinesOK'
  <2>1. Once(queued') /\ InLine(queued') = InLine(queued) \ {r}
    BY WithoutLine, TypeFacts DEF Claimed, LinesOK
  <2>2. \A q \in InLine(queued) : q \in Threads /\ pc[q] = "queued"
    BY TypeFacts DEF Claimed, LinesOK, InLine, Threads
  <2>3. QED
    BY <1>1, <2>1, <2>2 DEF Claimed, LinesOK
<1>5. FlightsOK'
  <2>1. \A u \in Threads : pc'[u] = pc[u] \/ (~Owner(u) /\ ~Owner(u)')
    BY <1>1 DEF Owner
  <2>2. QED
    BY <2>1, FlightsGoOn DEF Target
<1>6. QED
  BY <1>2, <1>3, <1>4, <1>5

LEMMA ClaimedCancelQueued == ASSUME Claimed, NEW r \in Runs, CancelQueued(r) PROVE Claimed' /\ Steady
<1>1. HelpersOK' /\ RunsOK' /\ LinesOK' /\ FlightsOK'
  BY LeavesLine DEF CancelQueued, slots, claims
<1>2. Steady
  BY NoCall DEF CancelQueued, Claimed
<1>3. ClaimsOK'
  <2>1. UNCHANGED <<waiter, held, pending, flight, rel>>
    BY DEF CancelQueued, claims, slots, locals
  <2>2. \A t \in Threads : pc[t] = "done" => pc'[t] = "done"
    BY TypeFacts DEF CancelQueued, Goto, Claimed
  <2>3. QED
    BY <1>2, <2>1, <2>2 DEF Claimed, ClaimsOK, Steady, Due
<1>4. TypeInv'
  BY TypeRun DEF RunStep, Claimed
<1>5. QED
  BY <1>1, <1>2, <1>3, <1>4 DEF Claimed, Steady

\* The oldest queued run is started, or found to be gone by its dispatcher.
LEMMA ClaimedStart ==
    ASSUME Claimed, NEW t \in Threads, StartQueued(t) \/ DropUnclaimed(t)
    PROVE  Claimed' /\ (StartQueued(t) => Steady) /\ (DropUnclaimed(t) => Enters(t))
<1> DEFINE r == Head(queued)
<1>1. queued # <<>> /\ ~Due(t)
  BY DEF StartQueued, DropUnclaimed, CanStart, In, Due
<1>2. queued \in Seq(Runs)
  BY TypeFacts DEF Claimed
<1>3. r \in Runs /\ r \in InLine(queued) /\ Tail(queued) = Without(queued, r)
  BY <1>1, <1>2, Headed, HeadLeaves DEF Claimed, LinesOK
<1>4. pc[r] = "queued" /\ Clean(r) /\ waiter[r] = "none"
  BY <1>3 DEF Claimed, LinesOK, RunsOK
<1>5. \/ StartQueued(t) /\ held' = [held EXCEPT ![r] = TRUE] /\ Goto(r, "work") /\ UNCHANGED rel
      \/ /\ DropUnclaimed(t) /\ UNCHANGED held /\ Goto(r, "done")
         /\ rel' = [rel EXCEPT ![t] = [run |-> r, held |-> TRUE, yielded |-> FALSE, pending |-> FALSE, yield |-> FALSE]]
  BY DEF StartQueued, DropUnclaimed, locals, slots
<1>6. UNCHANGED <<task, prio, pending, flight, waiter, slotYielded, slotParked>> /\ queued' = Tail(queued)
  BY DEF StartQueued, DropUnclaimed, slots, claims
<1>7. (StartQueued(t) => Steady) /\ (DropUnclaimed(t) => Enters(t))
  BY SchedulerStacks, TypeFacts DEF Claimed
<1> HIDE DEF r
<1>8. HelpersOK' /\ RunsOK' /\ LinesOK' /\ FlightsOK'
  BY <1>3, <1>4, <1>5, <1>6, LeavesLine
<1>9. ClaimsOK'
  <2>1. r \in Threads /\ \A q \in Runs : q \in Threads
    BY <1>3 DEF Threads
  <2>2. \A u \in Threads : pc[u] = "done" => pc'[u] = "done"
    BY <1>4, <1>5, <2>1, TypeFacts DEF Goto, Claimed
  <2>3. CASE StartQueued(t)
    <3>1. held' = [held EXCEPT ![r] = TRUE]
      BY <2>3 DEF StartQueued, r
    <3>2. Steady
      BY <1>7, <2>3
    <3>3. UNCHANGED rel
      BY <2>3 DEF StartQueued, locals
    <3>4. \A q \in Runs : waiter'[q] # "none" => q # r /\ ~held'[q] /\ (pending'[q] \/ flight'[q] \/ rel'[q].pending)
      BY <1>3, <1>4, <1>6, <3>1, <3>3, TypeFacts DEF Claimed, ClaimsOK
    <3>5. QED
      BY <1>6, <2>2, <3>2, <3>3, <3>4 DEF Claimed, ClaimsOK, Steady, Due
  <2>4. CASE DropUnclaimed(t)
    <3>1. UNCHANGED held /\ \A u \in Threads : rel'[u].pending = rel[u].pending /\ (u # t => rel'[u] = rel[u])
      <4>1. ~rel[t].pending /\ rel[t].pending \in BOOLEAN
        BY <1>1, TypeFacts DEF Claimed, ClaimsOK, Due, Release
      <4>2. rel' = [rel EXCEPT ![t] = [run |-> r, held |-> TRUE, yielded |-> FALSE, pending |-> FALSE, yield |-> FALSE]]
        BY <2>4 DEF DropUnclaimed, r
      <4>3. UNCHANGED held
        BY <2>4 DEF DropUnclaimed, slots
      <4>4. QED
        BY <4>1, <4>2, <4>3, TypeFacts DEF Claimed
    <3>2. Enters(t)
      BY <1>7, <2>4
    <3>3. ~rel[t].pending
      BY <1>1 DEF Claimed, ClaimsOK, Due
    <3>4. \A u \in Threads : rel'[u].pending => u # t /\ Due(u)' /\ rel'[u].run = u /\ pc'[u] = "done"
      BY <2>2, <3>1, <3>2, <3>3 DEF Claimed, ClaimsOK, Enters, Due
    <3>5. QED
      BY <1>6, <2>1, <3>1, <3>4 DEF Claimed, ClaimsOK, Due
  <2>5. QED
    BY <1>5, <2>3, <2>4
<1>10. TypeInv'
  BY TypeScheduler DEF Scheduler, Claimed
<1>11. QED
  BY <1>5, <1>7, <1>8, <1>9, <1>10 DEF Claimed, Steady, Enters

\* release's first section: what the run held or had reserved is now the release's.
LEMMA ClaimedRelease ==
    ASSUME Claimed, NEW r \in Runs, NEW yield \in BOOLEAN, BeginRelease(r, yield), sub[r] = <<>>,
           Goto(r, IF yield THEN "parked" ELSE "done"), UNCHANGED <<task, lines, flight, waiter>>,
           pc[r] \in {"work", "gate", "parked", "mark", "stop"}, HelpersOK', ~yield => ~AgentsBusy(r)
    PROVE  /\ RunsOK' /\ LinesOK' /\ StacksOK' /\ FlightsOK' /\ ClaimsOK'
           /\ IF Frees(r, yield) THEN Enters(r) ELSE Steady
<1> DEFINE place == IF yield THEN "parked" ELSE "done"
<1>1. r \in Threads /\ pc'[r] = place /\ \A u \in Threads \ {r} : pc'[u] = pc[u]
  BY TypeFacts DEF Claimed, Goto, Threads
<1>2. ~Due(r) /\ ~rel[r].pending /\ (slotParked[r] => held[r])
  BY <1>1 DEF Due, In, Claimed, ClaimsOK, RunsOK
<1>3. IF Frees(r, yield) THEN Enters(r) ELSE Steady /\ UNCHANGED <<rel, pending, slots>>
  BY ReleaseStacks, TypeFacts DEF Claimed
<1>4. ~yield => ~flight[r]
  <2>1. ASSUME ~yield, NEW t \in Threads, Owner(t), Target(t) = r PROVE FALSE
    <3>1. t # r
      BY <2>1 DEF Owner
    <3>2. t \in Helpers /\ task[t].kind = "agent" /\ task[t].run = r
      BY <2>1, <3>1, AcquirerRun, ThreadsAssumption DEF Claimed, Owner, AcquirePlaces, Target
    <3>3. Doing(t, "agent", r)
      BY <3>2, TypeFacts DEF Doing, Claimed
    <3>4. QED
      BY <2>1, <3>2, <3>3 DEF AgentsBusy
  <2>2. QED
    BY <2>1 DEF Claimed, FlightsOK
<1>5. /\ held' = [held EXCEPT ![r] = FALSE] /\ slotParked' = [slotParked EXCEPT ![r] = FALSE]
      /\ ~yield => ~pending'[r] /\ ~slotYielded'[r]
      /\ \A q \in Runs : pending'[q] => pending[q]
      /\ \A q \in Runs \ {r} : pending'[q] = pending[q] /\ slotYielded'[q] = slotYielded[q]
  <2>1. CASE Frees(r, yield)
    BY <2>1, TypeFacts DEF BeginRelease, Frees, Claimed
  <2>2. CASE ~Frees(r, yield)
    <3>1. UNCHANGED <<rel, pending, held, slotParked, slotYielded>> /\ ~held[r] /\ ~slotParked[r]
      BY <1>2, <1>3, <2>2 DEF Frees, slots
    <3>2. ~yield => ~pending[r] /\ ~slotYielded[r]
      BY <2>2, TypeFacts DEF Frees, Cancels, Claimed
    <3>3. held' = [held EXCEPT ![r] = FALSE] /\ slotParked' = [slotParked EXCEPT ![r] = FALSE]
      BY <3>1, TypeFacts DEF Claimed
    <3>4. QED
      BY <3>1, <3>2, <3>3
  <2>3. QED
    BY <2>1, <2>2
<1>6. /\ \A u \in Threads \ {r} : rel'[u] = rel[u]
      /\ rel'[r].pending => ~yield /\ rel'[r].run = r /\ Frees(r, yield)
      /\ pending[r] => pending'[r] \/ rel'[r].pending
  <2>1. CASE Frees(r, yield)
    <3>1. rel' = [rel EXCEPT ![r] = [run |-> r, held |-> held[r], yielded |-> slotYielded[r],
                                     pending |-> Cancels(r, yield), yield |-> yield]]
      BY <2>1 DEF BeginRelease, Frees
    <3>2. pending' = [pending EXCEPT ![r] = @ /\ yield]
      BY <2>1 DEF BeginRelease, Frees
    <3>3. rel'[r].pending = Cancels(r, yield) /\ rel'[r].run = r /\ \A u \in Threads \ {r} : rel'[u] = rel[u]
      BY <1>1, <3>1, TypeFacts DEF Claimed
    <3>4. pending'[r] = (pending[r] /\ yield)
      BY <3>2, TypeFacts DEF Claimed
    <3>5. QED
      BY <2>1, <3>3, <3>4 DEF Cancels
  <2>2. CASE ~Frees(r, yield)
    BY <1>2, <1>3, <2>2
  <2>3. QED
    BY <2>1, <2>2
<1>7. RunsOK'
  <2>1. \A q \in Runs : q # r => pc'[q] = pc[q] /\ held'[q] = held[q] /\ slotParked'[q] = slotParked[q]
    BY <1>1, <1>5, TypeFacts DEF Claimed, Threads
  <2>2. ~held'[r] /\ ~slotParked'[r] /\ (~yield => ~pending'[r] /\ ~slotYielded'[r] /\ ~flight'[r])
    BY <1>4, <1>5, TypeFacts DEF Claimed
  <2>3. pc'[r] = "parked" \/ (pc'[r] = "done" /\ ~yield)
    BY <1>1
  <2>4. QED
    BY <1>5, <2>1, <2>2, <2>3 DEF Claimed, RunsOK, Clean
<1>8. LinesOK'
  <2>1. \A q \in InLine(queued) : q \in Threads /\ pc[q] = "queued"
    BY TypeFacts DEF Claimed, LinesOK, InLine, Threads
  <2>2. QED
    BY <1>1, <2>1 DEF Claimed, LinesOK, lines
<1>9. FlightsOK'
  <2>1. \A u \in Threads : pc'[u] = pc[u] \/ (~Owner(u) /\ ~Owner(u)')
    BY <1>1 DEF Owner
  <2>2. QED
    BY <2>1, FlightsGoOn DEF Target
<1>10. ClaimsOK'
  <2>1. \A q \in Runs : q \in Threads
    BY DEF Threads
  <2>2. \A q \in Runs : waiter'[q] # "none" => ~held'[q] /\ (pending'[q] \/ flight'[q] \/ rel'[q].pending)
    BY <1>2, <1>5, <1>6, <2>1, TypeFacts DEF Claimed, ClaimsOK
  <2>3. \A q \in Runs : pending'[q] => ~flight'[q]
    BY <1>5 DEF Claimed, ClaimsOK
  <2>4. ASSUME NEW u \in Threads, rel'[u].pending PROVE Due(u)' /\ rel'[u].run = u /\ pc'[u] = "done"
    <3>1. CASE u = r
      BY <1>1, <1>3, <1>6, <2>4, <3>1 DEF Enters
    <3>2. CASE u # r
      <4>1. Due(u) /\ rel'[u].run = u /\ pc'[u] = "done"
        BY <1>1, <1>6, <2>4, <3>2 DEF Claimed, ClaimsOK, Due
      <4>2. QED
        BY <1>3, <3>2, <4>1 DEF Enters, Steady
    <3>3. QED
      BY <3>1, <3>2
  <2>5. QED
    BY <2>2, <2>3, <2>4 DEF ClaimsOK, Due
<1>11. QED
  BY <1>3, <1>7, <1>8, <1>9, <1>10 DEF Enters, Steady

LEMMA ClaimedFinish ==
    ASSUME Claimed, NEW r \in Runs, Finish(r)
    PROVE  Claimed' /\ IF Frees(r, FALSE) THEN Enters(r) ELSE Steady
<1>1. /\ sub[r] = <<>> /\ pc[r] \in {"work", "gate", "parked", "stop"} /\ ~GateLocked(r) /\ ~AgentsBusy(r)
      /\ Goto(r, "done") /\ BeginRelease(r, FALSE) /\ UNCHANGED <<task, lines, flight, waiter>>
  BY DEF Finish
<1>2. HelpersOK'
  BY <1>1, RunGoesOn DEF Places, Outside
<1>3. TypeInv'
  BY TypeRun DEF RunStep, Claimed
<1>4. QED
  BY <1>1, <1>2, <1>3, ClaimedRelease DEF Claimed

\* The run that waits gives its slot back, or keeps it as a parked one.
LEMMA ClaimedMark ==
    ASSUME Claimed, NEW r \in Runs, Mark(r)
    PROVE  Claimed' /\ IF ~hold /\ Frees(r, TRUE) THEN Enters(r) ELSE Steady
<1>1. r \in Threads /\ sub[r] = <<>> /\ pc[r] = "mark" /\ Goto(r, "parked") /\ UNCHANGED <<task, lines, flight, waiter>>
  BY DEF Mark, At, Threads
<1>2. HelpersOK'
  BY <1>1, NoJobs, RunGoesOn DEF Places, Outside
<1>3. TypeInv'
  BY TypeRun DEF RunStep, Claimed
<1>4. CASE ~hold
  <2>1. BeginRelease(r, TRUE)
    BY <1>4 DEF Mark
  <2>2. QED
    BY <1>1, <1>2, <1>3, <1>4, <2>1, ClaimedRelease DEF Claimed
<1>5. CASE hold
  <2>1. /\ UNCHANGED <<held, slotYielded, pending, rel, sub>>
        /\ IF held[r] THEN slotParked' = [slotParked EXCEPT ![r] = TRUE] ELSE UNCHANGED slotParked
    BY <1>5 DEF Mark
  <2>2. Steady /\ ~Due(r)
    BY <1>1, <2>1, OuterCalls, TypeFacts DEF Claimed
  <2>3. pc'[r] = "parked" /\ \A u \in Threads \ {r} : pc'[u] = pc[u]
    BY <1>1, TypeFacts DEF Claimed, Goto
  <2>4. RunsOK'
    <3>1. \A q \in Runs : slotParked'[q] => held[q]
      BY <2>1, TypeFacts DEF Claimed, RunsOK
    <3>2. \A q \in Runs : q # r => pc'[q] = pc[q] /\ slotParked'[q] = slotParked[q]
      BY <2>1, <2>3, TypeFacts DEF Claimed, Threads
    <3>3. QED
      BY <1>1, <2>1, <2>3, <3>1, <3>2 DEF Claimed, RunsOK, Clean
  <2>5. LinesOK'
    <3>1. \A q \in InLine(queued) : q \in Threads /\ pc[q] = "queued"
      BY TypeFacts DEF Claimed, LinesOK, InLine, Threads
    <3>2. QED
      BY <1>1, <2>3, <3>1 DEF Claimed, LinesOK, lines
  <2>6. FlightsOK'
    <3>1. \A u \in Threads : pc'[u] = pc[u] \/ (~Owner(u) /\ ~Owner(u)')
      BY <1>1, <2>3 DEF Owner
    <3>2. QED
      BY <1>1, <3>1, FlightsGoOn DEF Target
  <2>7. ClaimsOK'
    BY <1>1, <2>1, <2>2, <2>3 DEF Claimed, ClaimsOK, Steady, Due
  <2>8. QED
    BY <1>2, <1>3, <1>5, <2>2, <2>4, <2>5, <2>6, <2>7 DEF Claimed, Steady
<1>6. QED
  BY <1>4, <1>5

\* Dispatching changes nothing that is claimed, and giving up a dispatch neither.
LEMMA ClaimedDispatch ==
    ASSUME Claimed, NEW t \in Threads, Dispatch(t) \/ ClaimFails(t) \/ DispatchDone(t)
    PROVE  Claimed' /\ Steady
<1>1. UNCHANGED <<pc, task, slots, pending, flight, waiter, held, lines, rel>>
  BY DEF Dispatch, ClaimFails, DispatchDone, claims, slots, locals
<1>2. Steady
  BY SchedulerStacks, TypeFacts DEF Claimed
<1>3. TypeInv'
  BY TypeScheduler DEF Scheduler, Claimed
<1>4. QED
  BY <1>1, <1>2, <1>3, StillRight DEF Claimed

\* refresh takes the slot of a run that is still parked.
LEMMA ClaimedUnpark ==
    ASSUME Claimed, NEW t \in Threads, ReleaseParked(t)
    PROVE  Claimed' /\ \/ Steady /\ UNCHANGED <<slots, rel>>
                       \/ Enters(t) /\ \E r \in todo[t] : Unparks(t, r)
<1>1. UNCHANGED <<pc, task, pending, flight, waiter, lines>>
  BY DEF ReleaseParked, claims
<1>2. TypeInv'
  BY TypeScheduler DEF Scheduler, Claimed
<1>3. \/ Steady /\ UNCHANGED <<slots, rel>>
      \/ Enters(t) /\ \E r \in todo[t] : Unparks(t, r)
  BY SchedulerStacks, TypeFacts DEF Claimed
<1>4. CASE Steady /\ UNCHANGED <<slots, rel>>
  BY <1>1, <1>2, <1>4, StillRight DEF Claimed, slots
<1>5. ASSUME NEW r \in todo[t], Unparks(t, r), Enters(t) PROVE Claimed'
  <2>1. r \in Runs /\ held[r] /\ slotParked[r]
    BY <1>5, TypeFacts DEF Claimed, Unparks, StillParked
  <2>2. ~Due(t) /\ ~rel[t].pending
    BY <1>5 DEF Enters, Claimed, ClaimsOK, Due
  <2>3. /\ held' = [held EXCEPT ![r] = FALSE] /\ slotParked' = [slotParked EXCEPT ![r] = FALSE]
        /\ \A q \in Runs \ {r} : slotYielded'[q] = slotYielded[q]
        /\ ~rel'[t].pending /\ \A u \in Threads \ {t} : rel'[u] = rel[u]
    BY <1>5, TypeFacts DEF Claimed, Unparks
  <2>4. HelpersOK' /\ LinesOK' /\ FlightsOK'
    BY <1>1, StillRight
  <2>5. RunsOK'
    <3>1. pc[r] \notin {"new", "queued", "done"}
      BY <2>1 DEF Claimed, RunsOK, Clean
    <3>2. QED
      BY <1>1, <2>1, <2>3, <3>1, TypeFacts DEF Claimed, RunsOK, Clean
  <2>6. ClaimsOK'
    <3>1. \A q \in Runs : q \in Threads /\ (rel[q].pending => rel'[q].pending)
      BY <2>2, <2>3 DEF Threads
    <3>2. \A q \in Runs : waiter'[q] # "none" => ~held'[q] /\ (pending'[q] \/ flight'[q] \/ rel'[q].pending)
      BY <1>1, <2>1, <2>3, <3>1, TypeFacts DEF Claimed, ClaimsOK
    <3>3. \A u \in Threads : rel'[u].pending => Due(u)' /\ rel'[u].run = u /\ pc'[u] = "done"
      BY <1>1, <1>5, <2>3 DEF Claimed, ClaimsOK, Enters, Due
    <3>4. QED
      BY <1>1, <3>2, <3>3 DEF Claimed, ClaimsOK, Due
  <2>7. QED
    BY <1>2, <1>5, <2>4, <2>5, <2>6 DEF Claimed, Enters
<1>6. QED
  BY <1>3, <1>4, <1>5

\* release's second section withdraws the waiter of a run that has finished.
LEMMA ClaimedSettle == ASSUME Claimed, NEW t \in Threads, Settle(t) PROVE Claimed' /\ Exits(t)
<1> DEFINE d == rel[t]
<1>1. UNCHANGED <<pc, task, slots, held, slotYielded, slotParked, pending, flight, queued>> /\ rel' = [rel EXCEPT ![t] = NoRelease]
  BY DEF Settle, slots
<1>2. IF d.pending THEN waiter' = [waiter EXCEPT ![d.run] = "none"] /\ prio' = Without(prio, d.run)
                   ELSE UNCHANGED <<waiter, prio>>
  BY DEF Settle, WithoutWaiter
<1>3. TypeInv'
  BY TypeScheduler DEF Scheduler, Claimed
<1>4. Exits(t)
  BY SchedulerStacks, TypeFacts DEF Claimed
<1>5. d.pending => t \in Runs /\ d.run = t
  <2>1. d.pending => d.run = t /\ d.run \in Runs \cup {NoRun} /\ pc[t] = "done"
    BY TypeFacts DEF Claimed, ClaimsOK, Release
  <2>2. ASSUME d.pending PROVE t \in Runs
    <3>1. pc[t] = "done" /\ t # Watcher
      BY <2>1, <2>2 DEF Claimed, TypeInv, PlacesOK
    <3>2. t \notin Helpers
      BY <3>1, HelperJobs DEF Claimed
    <3>3. QED
      BY <3>1, <3>2 DEF Threads
  <2>3. QED
    BY <2>1, <2>2
<1> HIDE DEF d
<1>6. \A q \in Runs : waiter'[q] = IF d.pending /\ q = t THEN "none" ELSE waiter[q]
  BY <1>2, <1>5, TypeFacts DEF Claimed
<1>7. ~NoRelease.pending
  BY DEF NoRelease
<1>8. HelpersOK'
  BY <1>1, StillRight
<1>9. RunsOK'
  BY <1>1, <1>6 DEF Claimed, RunsOK, Clean
<1>10. LinesOK'
  <2>1. Once(prio') /\ \A q \in InLine(prio') : q \in InLine(prio) /\ (d.pending => q # t)
    BY <1>2, <1>5, WithoutLine, TypeFacts DEF Claimed, LinesOK
  <2>2. \A q \in InLine(prio) : q \in Runs
    BY TypeFacts DEF Claimed, InLine
  <2>3. QED
    BY <1>1, <1>6, <2>1, <2>2 DEF Claimed, LinesOK
<1>11. FlightsOK'
  BY <1>1, <1>6, FlightsGoOn DEF Target
<1>12. ClaimsOK'
  <2>1. \A u \in Threads : rel'[u] = IF u = t THEN NoRelease ELSE rel[u]
    BY <1>1, TypeFacts DEF Claimed
  <2>2. \A q \in Runs : waiter'[q] # "none" => ~held'[q] /\ (pending'[q] \/ flight'[q] \/ rel'[q].pending)
    BY <1>1, <1>6, <2>1 DEF Claimed, ClaimsOK, d, Threads
  <2>3. \A u \in Threads : rel'[u].pending => Due(u)' /\ rel'[u].run = u /\ pc'[u] = "done"
    BY <1>1, <1>4, <1>7, <2>1 DEF Claimed, ClaimsOK, Exits, Due
  <2>4. QED
    BY <1>1, <2>2, <2>3 DEF Claimed, ClaimsOK, Due
<1>13. QED
  BY <1>3, <1>4, <1>8, <1>9, <1>10, <1>11, <1>12 DEF Claimed, Exits

\* The first waiter of the resumed line is granted a slot.
LEMMA ClaimedGrant == ASSUME Claimed, NEW t \in Threads, GrantResumed(t) PROVE Claimed' /\ Steady
<1> DEFINE r == Head(prio)
<1>1. /\ UNCHANGED <<pc, task, slots, held, slotYielded, slotParked, pending, flight, queued, rel, sub>>
      /\ waiter' = [waiter EXCEPT ![r] = "granted"] /\ prio' = Tail(prio) /\ prio # <<>>
  BY DEF GrantResumed, slots, locals
<1>2. prio \in Seq(Runs) /\ Once(prio)
  BY TypeFacts DEF Claimed, LinesOK
<1>3. r \in Runs /\ r \in InLine(prio) /\ Tail(prio) = Without(prio, r)
  BY <1>1, <1>2, Headed, HeadLeaves
<1>4. waiter[r] = "waiting"
  BY <1>3 DEF Claimed, LinesOK
<1> HIDE DEF r
<1>5. \A q \in Runs : waiter'[q] = IF q = r THEN "granted" ELSE waiter[q]
  BY <1>1, TypeFacts DEF Claimed
<1>6. Steady
  BY SchedulerStacks, TypeFacts DEF Claimed
<1>7. TypeInv'
  BY TypeScheduler DEF Scheduler, Claimed
<1>8. HelpersOK'
  BY <1>1, StillRight
<1>9. RunsOK'
  BY <1>1, <1>4, <1>5 DEF Claimed, RunsOK, Clean
<1>10. LinesOK'
  <2>1. Once(prio') /\ InLine(prio') = InLine(prio) \ {r}
    BY <1>1, <1>2, <1>3, WithoutLine
  <2>2. \A q \in InLine(prio) : q \in Runs
    BY <1>2 DEF InLine
  <2>3. QED
    BY <1>1, <1>5, <2>1, <2>2 DEF Claimed, LinesOK
<1>11. FlightsOK'
  BY <1>1, <1>4, <1>5, FlightsGoOn DEF Target
<1>12. ClaimsOK'
  BY <1>1, <1>4, <1>5, <1>6 DEF Claimed, ClaimsOK, Steady, Due
<1>13. QED
  BY <1>6, <1>7, <1>8, <1>9, <1>10, <1>11, <1>12 DEF Claimed, Steady

\* Every section of the scheduler's own functions keeps the claims right.
LEMMA ClaimedScheduler == ASSUME Claimed, NEW t \in Threads, Scheduler(t) PROVE Claimed'
  BY ClaimedDispatch, ClaimedUnpark, ClaimedSettle, ClaimedGrant, ClaimedStart DEF Scheduler

\* Reserve: a run that holds no slot and has not claimed one gets a waiter.
LEMMA ClaimedReserve ==
    ASSUME Claimed, NEW r \in Runs, ReserveSlot(r), pc[r] \notin {"new", "queued", "done"},
           NEW t \in Threads, NEW place \in {"idle", "take"}, Goto(t, place), pc[t] \in {"answer", "resv"}, ~Due(t),
           UNCHANGED <<held, slotYielded, flight, queued, rel, sub>>,
           \A u \in Threads : Owner(u) => Target(u)' = Target(u)
    PROVE  RunsOK' /\ LinesOK' /\ StacksOK' /\ FlightsOK' /\ ClaimsOK' /\ Steady
<1>1. /\ pc'[t] = place /\ \A u \in Threads \ {t} : pc'[u] = pc[u]
      /\ \A q \in Runs : q \in Threads
  BY TypeFacts DEF Claimed, Goto, Threads
<1>2. Steady
  BY NoCall DEF Claimed
<1>3. ~rel[r].pending
  BY <1>1 DEF Claimed, ClaimsOK
<1>4. \/ UNCHANGED <<pending, waiter, prio>>
      \/ /\ ~held[r] /\ ~flight[r] /\ ~pending[r] /\ waiter[r] = "none"
         /\ pending' = [pending EXCEPT ![r] = TRUE]
         /\ \/ prio' = prio /\ waiter' = [waiter EXCEPT ![r] = "granted"]
            \/ prio' = Append(prio, r) /\ waiter' = [waiter EXCEPT ![r] = "waiting"]
  <2>1. ~held[r] /\ Unclaimed(r) => waiter[r] = "none"
    BY <1>3 DEF Unclaimed, Claimed, ClaimsOK
  <2>2. QED
    BY <2>1 DEF ReserveSlot, Unclaimed
<1>5. \A q \in Runs : slotParked'[q] => slotParked[q]
  BY TypeFacts DEF ReserveSlot, Claimed
<1>6. /\ \A q \in Runs : q # r => pending'[q] = pending[q] /\ waiter'[q] = waiter[q]
      /\ pending[r] => pending'[r]
      /\ waiter'[r] # waiter[r] => ~held[r] /\ ~flight[r] /\ pending'[r] /\ waiter[r] = "none"
      /\ pending'[r] # pending[r] => ~flight[r]
  BY <1>4, TypeFacts DEF Claimed
<1>7. RunsOK'
  BY <1>1, <1>5, <1>6 DEF Claimed, RunsOK, Clean
<1>8. LinesOK'
  <2>1. \A q \in InLine(queued) : q \in Runs /\ pc[q] = "queued"
    BY TypeFacts DEF Claimed, LinesOK, InLine
  <2>2. Once(queued') /\ \A q \in InLine(queued') : pc'[q] = "queued"
    BY <1>1, <2>1 DEF Claimed, LinesOK
  <2>3. \A q \in InLine(prio) : q \in Runs /\ waiter[q] = "waiting"
    BY TypeFacts DEF Claimed, LinesOK, InLine
  <2>4. CASE prio' = prio
    <3>1. \A q \in InLine(prio) : waiter'[q] = "waiting"
      BY <1>6, <2>3
    <3>2. QED
      BY <2>2, <2>4, <3>1 DEF Claimed, LinesOK
  <2>5. CASE prio' = Append(prio, r) /\ waiter' = [waiter EXCEPT ![r] = "waiting"] /\ waiter[r] = "none"
    <3>1. r \notin InLine(prio) /\ prio \in Seq(Runs) /\ Once(prio)
      BY <2>3, <2>5, TypeFacts DEF Claimed, LinesOK
    <3>2. Once(Append(prio, r)) /\ InLine(Append(prio, r)) = InLine(prio) \cup {r}
      BY <3>1, AppendLine
    <3>3. \A q \in InLine(prio) \cup {r} : waiter'[q] = "waiting"
      BY <2>3, <2>5, TypeFacts DEF Claimed
    <3>4. QED
      BY <2>2, <2>5, <3>2, <3>3 DEF LinesOK
  <2>6. QED
    BY <1>4, <2>4, <2>5
<1>9. FlightsOK'
  <2>1. \A u \in Threads : pc'[u] = pc[u] \/ (~Owner(u) /\ ~Owner(u)')
    BY <1>1 DEF Owner
  <2>2. \A q \in Runs : flight[q] /\ waiter[q] = "none" => waiter'[q] = "none"
    BY <1>6
  <2>3. QED
    BY <2>1, <2>2, FlightsGoOn
<1>10. ClaimsOK'
  <2>1. \A q \in Runs : waiter'[q] # "none" => ~held[q] /\ (pending'[q] \/ flight[q] \/ rel[q].pending)
    BY <1>6 DEF Claimed, ClaimsOK
  <2>2. \A q \in Runs : pending'[q] => ~flight[q]
    BY <1>6 DEF Claimed, ClaimsOK
  <2>3. \A u \in Threads : rel[u].pending => pc'[u] = "done"
    BY <1>1 DEF Claimed, ClaimsOK
  <2>4. QED
    BY <1>2, <2>1, <2>2, <2>3 DEF Claimed, ClaimsOK, Steady, Due
<1>11. QED
  BY <1>2, <1>7, <1>8, <1>9, <1>10 DEF Steady

\* A response accepted at a gate reserves the slot the run will go on with.
LEMMA ClaimedAnswer == ASSUME Claimed, NEW h \in Helpers, Answer(h) PROVE Claimed' /\ Steady
<1>1. h \in Threads /\ h \notin Runs /\ sub[h] = <<>> /\ pc[h] = "answer" /\ ~Due(h)
  BY ThreadsAssumption DEF Answer, At, Threads, Due, In
<1>2. task[h].kind = "respond" /\ task[h].run \in Runs /\ pc[task[h].run] \notin {"new", "queued", "done"}
  <2>1. task[h].kind = "respond"
    BY <1>1 DEF Claimed, TypeInv, PlacesOK, HelperPlace, AcquirePlaces
  <2>2. QED
    BY <2>1, HelperJobs
<1>3. ReserveSlot(task[h].run) /\ Goto(h, "idle") /\ End(h) /\ UNCHANGED <<held, slotYielded, flight, queued, rel, sub>>
  BY DEF Answer, locals
<1>4. HelpersOK' /\ \A u \in Threads : Owner(u) => Target(u)' = Target(u)
  <2>1. task'[h].kind = "none" /\ "idle" \in Places
    BY <1>3, TypeFacts DEF Claimed, End, NoTask, Places, Outside
  <2>2. HelpersOK' /\ \A u \in Threads \ {h} : Owner(u) => Target(u)' = Target(u)
    BY <1>3, <2>1, HelperGoesOn
  <2>3. QED
    BY <1>1, <2>2 DEF Owner
<1>5. TypeInv'
  BY TypeResponse DEF Claimed
<1>6. QED
  BY <1>1, <1>2, <1>3, <1>4, <1>5, ClaimedReserve DEF Claimed

\* Only a goroutine of a run that is under way acquires a slot for it.
LEMMA Acquirer ==
    ASSUME Claimed, NEW t \in Threads, pc[t] \in AcquirePlaces
    PROVE  /\ Target(t) \in Runs /\ pc[Target(t)] \notin {"new", "queued", "done"}
           /\ t \in Runs \/ (t \in Helpers /\ t \notin Runs /\ task[t].kind = "agent" /\ task[t].run = Target(t))
<1>1. Target(t) \in Runs /\ (t \in Runs \/ (t \in Helpers /\ task[t].kind = "agent" /\ task[t].run \in Runs))
  BY AcquirerRun DEF Claimed
<1>2. CASE t \in Runs
  BY <1>1, <1>2 DEF Target, AcquirePlaces
<1>3. CASE t \in Helpers
  <2>1. t \notin Runs
    BY <1>3, ThreadsAssumption
  <2>2. task[t].kind = "agent" /\ Target(t) = task[t].run
    BY <1>1, <2>1 DEF Target
  <2>3. QED
    BY <1>1, <1>3, <2>1, <2>2, HelperJobs
<1>4. QED
  BY <1>1, <1>2, <1>3

\* Inside Acquire a goroutine changes place but not its task.
LEMMA AcquirerGoesOn ==
    ASSUME Claimed, NEW t \in Threads, pc[t] \in AcquirePlaces, NEW place \in AcquirePlaces \cup {Working(t)},
           Goto(t, place), UNCHANGED task
    PROVE  HelpersOK' /\ \A u \in Threads : Target(u)' = Target(u)
<1>1. place \in Places
  BY DEF AcquirePlaces, Places, Inside, Outside, Working
<1>2. HelpersOK'
  <2>1. CASE t \in Runs
    <3>1. ~GateLocked(t) /\ pc[t] # "new"
      BY <2>1, NoJobs DEF AcquirePlaces
    <3>2. place \in {"work", "parked", "stop"} \cup AcquirePlaces
      BY <2>1 DEF Working
    <3>3. QED
      BY <1>1, <2>1, <3>1, <3>2, RunGoesOn
  <2>2. CASE t \notin Runs
    <3>1. t \in Helpers /\ task[t].kind = "agent" /\ task[t].run \in Runs
      BY <2>2, AcquirerRun DEF Claimed
    <3>2. pc[task[t].run] \in {"work", "parked", "stop"} \cup AcquirePlaces
      BY <3>1 DEF Claimed, HelpersOK
    <3>3. place \notin {"try", "enq"}
      BY <2>2 DEF AcquirePlaces, Working
    <3>4. QED
      BY <1>1, <3>1, <3>2, <3>3, HelperGoesOn
  <2>3. QED
    BY <2>1, <2>2
<1>3. QED
  BY <1>2 DEF Target

LEMMA ClaimedAcquireReserve == ASSUME Claimed, NEW t \in Threads, AcquireReserve(t) PROVE Claimed' /\ Steady
<1>1. sub[t] = <<>> /\ pc[t] = "resv" /\ ~Due(t) /\ pc[t] \in AcquirePlaces /\ "take" \in AcquirePlaces
  BY DEF AcquireReserve, At, Due, In, AcquirePlaces
<1>2. ReserveSlot(Target(t)) /\ Goto(t, "take") /\ UNCHANGED <<task, held, slotYielded, flight, queued, rel, sub>>
  BY DEF AcquireReserve, locals
<1>3. TypeInv'
  BY TypeWaiting DEF Waiting, Claimed
<1>4. HelpersOK' /\ \A u \in Threads : Target(u)' = Target(u)
  BY <1>1, <1>2, AcquirerGoesOn
<1>5. Target(t) \in Runs /\ pc[Target(t)] \notin {"new", "queued", "done"}
  BY <1>1, Acquirer
<1>6. QED
  BY <1>1, <1>2, <1>3, <1>4, <1>5, ClaimedReserve DEF Claimed

\* Acquire goes round again, or counts the run as resumed: no claim changes.
LEMMA ClaimedAround == ASSUME Claimed, NEW t \in Threads, Again(t) \/ CountResumed(t) PROVE Claimed' /\ Steady
<1>1. /\ sub[t] = <<>> /\ pc[t] \in {"acq", "count"} /\ ~Due(t) /\ pc[t] \in AcquirePlaces
      /\ "resv" \in AcquirePlaces /\ "land" \in AcquirePlaces
  BY DEF Again, CountResumed, At, Due, In, AcquirePlaces
<1>2. PICK place \in {"resv", "land"} : Goto(t, place) /\ (place = "land" <=> pc[t] = "count")
  BY DEF Again, CountResumed, At
<1>3. UNCHANGED <<task, slots, claims, lines, rel>>
  BY DEF Again, CountResumed, locals
<1>4. TypeInv'
  BY TypeWaiting DEF Waiting, Claimed
<1>5. HelpersOK' /\ \A u \in Threads : Target(u)' = Target(u)
  BY <1>1, <1>2, <1>3, AcquirerGoesOn
<1>6. Steady
  BY <1>1, OuterCalls, TypeFacts DEF Again, CountResumed, Claimed
<1>7. place = "land" => waiter[Target(t)] = "none"
  BY <1>2 DEF Claimed, FlightsOK
<1>8. RunsOK' /\ LinesOK' /\ StacksOK' /\ FlightsOK' /\ ClaimsOK'
  BY <1>1, <1>2, <1>3, <1>5, <1>6, <1>7, Moves DEF Owner, Places, Inside
<1>9. QED
  BY <1>4, <1>5, <1>6, <1>8 DEF Claimed

\* Acquire goes on with the slot, waits for the flight of another goroutine, goes round
\* again, or takes the reservation into a flight of its own.
LEMMA ClaimedTake == ASSUME Claimed, NEW t \in Threads, Take(t) PROVE Claimed' /\ Steady
<1> DEFINE r == Target(t)
<1>1. \/ \E place \in {Working(t), "join", "acq"} : Goto(t, place) /\ UNCHANGED <<pending, flight>>
      \/ /\ ~held[r] /\ ~flight[r] /\ pending[r] /\ Goto(t, "wait")
         /\ pending' = [pending EXCEPT ![r] = FALSE] /\ flight' = [flight EXCEPT ![r] = TRUE]
  BY TypeFacts DEF Take, Claimed
<1>2. sub[t] = <<>> /\ pc[t] = "take" /\ ~Due(t) /\ pc[t] \in AcquirePlaces /\ ~Owner(t)
  BY DEF Take, At, Due, In, AcquirePlaces, Owner
<1>3. UNCHANGED <<task, slots, held, slotYielded, slotParked, lines, prio, queued, rel, waiter, sub>>
  BY DEF Take, locals, slots, lines
<1>4. Steady
  BY <1>3, NoCall DEF Claimed
<1>5. TypeInv'
  BY TypeWaiting DEF Waiting, Claimed
<1>6. r \in Runs /\ pc[r] \notin {"new", "queued", "done"} /\ r = Target(t)
  BY <1>2, Acquirer
<1> HIDE DEF r
<1>7. CASE \E place \in {Working(t), "join", "acq"} : Goto(t, place) /\ UNCHANGED <<pending, flight>>
  <2>1. PICK place \in {Working(t), "join", "acq"} : Goto(t, place) /\ UNCHANGED <<pending, flight>>
    BY <1>7
  <2>2. place \in AcquirePlaces \cup {Working(t)} /\ place \in Places /\ UNCHANGED claims
        /\ place \notin {"new", "queued", "done", "wait", "count", "land", "drop"}
    BY <1>3, <2>1 DEF AcquirePlaces, Places, Inside, Outside, Working, claims
  <2>3. HelpersOK' /\ \A u \in Threads : Target(u)' = Target(u)
    BY <1>2, <1>3, <2>1, <2>2, AcquirerGoesOn
  <2>4. RunsOK' /\ LinesOK' /\ StacksOK' /\ FlightsOK' /\ ClaimsOK'
    BY <1>2, <1>3, <1>4, <2>1, <2>2, <2>3, Moves
  <2>5. QED
    BY <1>4, <1>5, <2>3, <2>4 DEF Claimed
<1>8. CASE /\ ~held[r] /\ ~flight[r] /\ pending[r] /\ Goto(t, "wait")
           /\ pending' = [pending EXCEPT ![r] = FALSE] /\ flight' = [flight EXCEPT ![r] = TRUE]
  <2>1. "wait" \in AcquirePlaces
    BY DEF AcquirePlaces
  <2>2. HelpersOK' /\ \A u \in Threads : Target(u)' = Target(u)
    BY <1>2, <1>3, <1>8, <2>1, AcquirerGoesOn
  <2>3. pc'[t] = "wait" /\ \A u \in Threads \ {t} : pc'[u] = pc[u]
    BY <1>8, TypeFacts DEF Claimed, Goto
  <2>4. /\ ~pending'[r] /\ flight'[r]
        /\ \A q \in Runs : q # r => pending'[q] = pending[q] /\ flight'[q] = flight[q]
    BY <1>6, <1>8, TypeFacts DEF Claimed
  <2>5. \A q \in Runs : q \in Threads /\ (pc'[q] \in {"new", "queued", "done"} => pc[q] = pc'[q] /\ q # r)
    BY <1>2, <1>6, <2>3 DEF Threads
  <2>6. RunsOK'
    BY <1>3, <2>4, <2>5 DEF Claimed, RunsOK, Clean
  <2>7. LinesOK'
    <3>1. \A q \in InLine(queued) : q \in Runs /\ pc[q] = "queued" /\ q # t /\ q \in Threads
      BY <1>2, TypeFacts DEF Claimed, LinesOK, InLine, Threads
    <3>2. QED
      BY <1>3, <2>3, <3>1 DEF Claimed, LinesOK
  <2>8. FlightsOK'
    <3>1. \A u \in Threads : Owner(u) => Target(u) # r
      BY <1>8 DEF Claimed, FlightsOK
    <3>2. \A u \in Threads : Owner(u)' <=> Owner(u) \/ u = t
      BY <2>3 DEF Owner
    <3>3. \A u \in Threads : Owner(u) => Target(u) \in Runs
      BY AcquirerRun DEF Claimed, Owner, AcquirePlaces
    <3>4. \A u \in Threads : Owner(u)' => flight'[Target(u)']
      BY <1>6, <2>2, <2>4, <3>1, <3>2, <3>3 DEF Claimed, FlightsOK
    <3>5. \A q \in Runs : flight'[q] => \E u \in Threads : Owner(u)' /\ Target(u)' = q
      BY <1>6, <2>2, <2>4, <3>2 DEF Claimed, FlightsOK
    <3>6. \A u, v \in Threads : Owner(u)' /\ Owner(v)' /\ Target(u)' = Target(v)' => u = v
      BY <1>6, <2>2, <3>1, <3>2 DEF Claimed, FlightsOK
    <3>7. \A u \in Threads : pc'[u] \in {"count", "land", "drop"} => waiter'[Target(u)'] = "none"
      BY <1>3, <2>2, <2>3 DEF Claimed, FlightsOK
    <3>8. QED
      BY <3>4, <3>5, <3>6, <3>7 DEF FlightsOK
  <2>9. ClaimsOK'
    <3>1. \A u \in Threads : rel[u].pending => pc'[u] = "done"
      BY <1>2, <2>3 DEF Claimed, ClaimsOK
    <3>2. QED
      BY <1>3, <1>4, <2>4, <3>1 DEF Claimed, ClaimsOK, Steady, Due
  <2>10. QED
    BY <1>4, <1>5, <2>2, <2>6, <2>7, <2>8, <2>9 DEF Claimed, Steady
<1>9. QED
  BY <1>1, <1>7, <1>8 DEF r

\* waitForSlot has its answer: the grant becomes the slot, or the wait is given up.
LEMMA ClaimedWaitEnds ==
    ASSUME Claimed, NEW t \in Threads, NEW place \in {"count", "land", "drop"}, At(t, "wait"), Goto(t, place),
           UNCHANGED <<task, slotParked, pending, flight, queued, rel>>,
           \/ SetHeld(t) /\ place # "drop"
           \/ CancelWait(t) /\ place = "drop"
    PROVE  Claimed' /\ Steady
<1> DEFINE r == Target(t)
<1>1. /\ slotYielded' \in {slotYielded, [slotYielded EXCEPT ![r] = FALSE]}
      /\ \/ prio' = prio /\ held' = [held EXCEPT ![r] = TRUE] /\ waiter[r] = "granted" /\ UNCHANGED sub
         \/ prio' = Without(prio, r) /\ held' = held /\ Run(t, <<"disp">>)
  BY DEF SetHeld, CancelWait, lines, slots, WithoutWaiter
<1>11. waiter' = [waiter EXCEPT ![r] = "none"]
  BY DEF SetHeld, CancelWait
<1>2. sub[t] = <<>> /\ pc[t] = "wait" /\ ~Due(t) /\ pc[t] \in AcquirePlaces /\ Owner(t)
  BY DEF At, Due, In, AcquirePlaces, Owner
<1>3. r \in Runs /\ pc[r] \notin {"new", "queued", "done"} /\ r = Target(t)
  BY <1>2, Acquirer
<1>4. Steady
  BY <1>1, <1>2, OuterCalls, TypeFacts DEF Claimed
<1>5. TypeInv'
  BY TypeWaiting DEF Waiting, Claimed
<1>6. HelpersOK' /\ \A u \in Threads : Target(u)' = Target(u)
  <2>1. place \in AcquirePlaces
    BY DEF AcquirePlaces
  <2>2. QED
    BY <1>2, <2>1, AcquirerGoesOn
<1> HIDE DEF r
<1>7. pc'[t] = place /\ \A u \in Threads \ {t} : pc'[u] = pc[u]
  BY TypeFacts DEF Claimed, Goto
<1>8. /\ waiter'[r] = "none"
      /\ \A q \in Runs : q # r => waiter'[q] = waiter[q] /\ held'[q] = held[q] /\ slotYielded'[q] = slotYielded[q]
      /\ \A q \in Runs : held[q] => held'[q]
  BY <1>1, <1>11, <1>3, TypeFacts DEF Claimed
<1>9. flight[r] /\ ~pending[r]
  BY <1>2, <1>3 DEF Claimed, FlightsOK, ClaimsOK
<1>10. RunsOK'
  <2>1. \A q \in Runs : q \in Threads /\ (pc'[q] \in {"new", "queued", "done"} => pc[q] = pc'[q] /\ q # r)
    BY <1>2, <1>3, <1>7 DEF Threads
  <2>2. QED
    BY <1>8, <2>1 DEF Claimed, RunsOK, Clean
<1>12. LinesOK'
  <2>1. \A q \in InLine(queued) : q \in Runs /\ pc[q] = "queued" /\ q # t /\ q \in Threads
    BY <1>2, TypeFacts DEF Claimed, LinesOK, InLine, Threads
  <2>2. \A q \in InLine(prio) : q \in Runs /\ waiter[q] = "waiting"
    BY TypeFacts DEF Claimed, LinesOK, InLine
  <2>3. Once(prio') /\ \A q \in InLine(prio') : q \in InLine(prio) /\ q # r
    <3>1. CASE prio' = prio /\ waiter[r] = "granted"
      BY <2>2, <3>1 DEF Claimed, LinesOK
    <3>2. CASE prio' = Without(prio, r)
      BY <3>2, WithoutLine, TypeFacts DEF Claimed, LinesOK
    <3>3. QED
      BY <1>1, <3>1, <3>2
  <2>4. QED
    BY <1>7, <1>8, <2>1, <2>2, <2>3 DEF Claimed, LinesOK
<1>13. FlightsOK'
  <2>1. \A u \in Threads : Owner(u)' <=> Owner(u)
    BY <1>2, <1>7 DEF Owner
  <2>2. \A u \in Threads : pc'[u] \in {"count", "land", "drop"} => waiter'[Target(u)] = "none"
    <3>1. ASSUME NEW u \in Threads, u # t, pc[u] \in {"count", "land", "drop"} PROVE waiter'[Target(u)] = "none"
      <4>1. Owner(u) /\ pc[u] \in AcquirePlaces
        BY <3>1 DEF Owner, AcquirePlaces
      <4>2. Target(u) \in Runs /\ Target(u) # r
        BY <1>2, <1>3, <3>1, <4>1, AcquirerRun DEF Claimed, FlightsOK
      <4>3. QED
        BY <1>8, <3>1, <4>2 DEF Claimed, FlightsOK
    <3>2. QED
      BY <1>3, <1>7, <1>8, <3>1
  <2>3. QED
    BY <1>6, <2>1, <2>2 DEF Claimed, FlightsOK
<1>14. ClaimsOK'
  <2>1. \A u \in Threads : rel[u].pending => pc'[u] = "done"
    BY <1>2, <1>7 DEF Claimed, ClaimsOK
  <2>2. \A q \in Runs : waiter'[q] # "none" => q # r
    BY <1>8
  <2>3. QED
    BY <1>4, <1>8, <2>1, <2>2 DEF Claimed, ClaimsOK, Steady, Due
<1>15. QED
  BY <1>4, <1>5, <1>6, <1>10, <1>12, <1>13, <1>14 DEF Claimed, Steady

LEMMA ClaimedAnswered ==
    ASSUME Claimed, NEW t \in Threads, SetHeld(t) \/ CancelWait(t)
    PROVE  Claimed' /\ Steady
<1>1. CASE SetHeld(t)
  <2>1. PICK place \in {"count", "land"} : Goto(t, place)
    BY <1>1 DEF SetHeld, AfterGrant
  <2>2. At(t, "wait") /\ UNCHANGED <<task, slotParked, pending, flight, queued, rel>>
    BY <1>1 DEF SetHeld, lines, locals
  <2>3. QED
    BY <1>1, <2>1, <2>2, ClaimedWaitEnds
<1>2. CASE CancelWait(t)
  <2>1. Goto(t, "drop") /\ At(t, "wait") /\ UNCHANGED <<task, slotParked, pending, flight, queued, rel>>
    BY <1>2 DEF CancelWait, slots, locals
  <2>2. QED
    BY <1>2, <2>1, ClaimedWaitEnds
<1>3. QED
  BY <1>1, <1>2

\* The flight ends: its goroutine goes on or fails, and who waited on it looks again.
LEMMA ClaimedLand == ASSUME Claimed, NEW t \in Threads, Land(t) PROVE Claimed' /\ Steady
<1> DEFINE r == Target(t)
<1>1. /\ sub[t] = <<>> /\ pc[t] \in {"land", "drop"} /\ ~Due(t) /\ pc[t] \in AcquirePlaces /\ Owner(t)
      /\ flight' = [flight EXCEPT ![r] = FALSE]
      /\ UNCHANGED <<held, slotYielded, slotParked, pending, waiter, prio, queued, rel, sub>>
  BY DEF Land, Due, In, AcquirePlaces, Owner, slots, lines, locals
<1>2. \A u \in Threads : pc'[u] = IF u = t THEN IF pc[t] = "land" THEN Working(t) ELSE Failing(t)
                                  ELSE IF pc[u] = "join" /\ Target(u) = r THEN "acq" ELSE pc[u]
  BY DEF Land
<1>3. IF pc[t] = "drop" /\ t \in Helpers THEN End(t) ELSE task' = task
  BY DEF Land
<1>4. r \in Runs /\ r = Target(t)
  BY <1>1, Acquirer
<1>5. Steady
  BY <1>1, NoCall DEF Claimed
<1>6. TypeInv'
  BY TypeWaiting DEF Waiting, Claimed
<1> HIDE DEF r
<1>7. /\ pc'[t] \in {"work", "agent", "stop", "idle"} /\ (t \in Runs => pc'[t] \in {"work", "stop"})
      /\ \A u \in Threads : u # t => pc'[u] = pc[u] \/ (pc[u] = "join" /\ pc'[u] = "acq")
  BY <1>2 DEF Working, Failing
<1>8. /\ \A h \in Helpers : task'[h] = task[h] \/ (h = t /\ task'[h] = NoTask)
      /\ \A u \in Threads : Owner(u) /\ u # t => Target(u)' = Target(u)
  <2>1. \A h \in Helpers : task'[h] = task[h] \/ (h = t /\ task'[h] = NoTask)
    BY <1>3, TypeFacts DEF End, Claimed
  <2>2. ASSUME NEW u \in Threads, Owner(u), u # t PROVE Target(u)' = Target(u)
    <3>1. u \in Runs \/ u \in Helpers
      BY <2>2, Acquirer DEF Owner, AcquirePlaces
    <3>2. CASE u \in Runs
      BY <3>2 DEF Target
    <3>3. CASE u \in Helpers
      BY <2>1, <2>2, <3>3 DEF Target
    <3>4. QED
      BY <3>1, <3>2, <3>3
  <2>3. QED
    BY <2>1, <2>2
<1>9. \A q \in Runs : /\ q \in Threads
                      /\ pc[q] \in {"new", "queued", "gate", "parked", "done"} => pc'[q] = pc[q]
                      /\ pc'[q] \in {"new", "queued", "done"} => pc[q] = pc'[q]
                      /\ pc[q] \in {"work", "parked", "stop"} \cup AcquirePlaces =>
                           pc'[q] \in {"work", "parked", "stop"} \cup AcquirePlaces
  BY <1>1, <1>7 DEF Threads, AcquirePlaces
<1>10. HelpersOK'
  <2>1. NoTask.kind = "none"
    BY DEF NoTask
  <2>2. ASSUME NEW h \in Helpers
        PROVE  /\ task'[h].kind = "respond" => pc'[task'[h].run] \in {"gate", "parked"}
               /\ task'[h].kind = "agent" => pc'[task'[h].run] \in {"work", "parked", "stop"} \cup AcquirePlaces
    <3>1. task'[h].kind \in {"respond", "agent"} => task'[h] = task[h] /\ task[h].run \in Runs
      BY <1>8, <2>1, HelperJobs
    <3>2. task'[h].kind = "respond" => pc[task[h].run] \in {"gate", "parked"}
      BY <3>1 DEF Claimed, HelpersOK
    <3>3. task'[h].kind = "agent" => pc[task[h].run] \in {"work", "parked", "stop"} \cup AcquirePlaces
      BY <3>1 DEF Claimed, HelpersOK
    <3>4. QED
      BY <1>9, <3>1, <3>2, <3>3
  <2>3. ASSUME NEW h \in Helpers, pc'[h] \in {"try", "enq"} PROVE pc'[task'[h].run] = "new"
    <3>1. h \in Threads /\ h # t /\ pc[h] \in {"try", "enq"}
      BY <1>7, <2>3 DEF Threads
    <3>2. task'[h] = task[h] /\ task[h].run \in Runs /\ pc[task[h].run] = "new"
      BY <1>8, <3>1, HelperJobs
    <3>3. QED
      BY <1>9, <3>2
  <2>4. \A g, h \in Helpers : task'[g].kind = "admit" /\ task'[h].kind = "admit" => g = h
    BY <1>8, <2>1 DEF Claimed, HelpersOK
  <2>5. QED
    BY <2>2, <2>3, <2>4 DEF HelpersOK
<1>11. flight'[r] = FALSE /\ \A q \in Runs : q # r => flight'[q] = flight[q]
  BY <1>1, <1>4, TypeFacts DEF Claimed
<1>12. RunsOK'
  BY <1>1, <1>9, <1>11 DEF Claimed, RunsOK, Clean
<1>13. LinesOK'
  <2>1. \A q \in InLine(queued) : q \in Runs /\ pc[q] = "queued"
    BY TypeFacts DEF Claimed, LinesOK, InLine
  <2>2. QED
    BY <1>1, <1>9, <2>1 DEF Claimed, LinesOK
<1>14. FlightsOK'
  <2>1. \A u \in Threads : Owner(u)' <=> Owner(u) /\ u # t
    BY <1>7 DEF Owner
  <2>2. \A u \in Threads : Owner(u) => Target(u) \in Runs
    BY AcquirerRun DEF Claimed, Owner, AcquirePlaces
  <2>3. \A u \in Threads : Owner(u) /\ u # t => Target(u) # r
    BY <1>1, <1>4 DEF Claimed, FlightsOK
  <2>4. \A u \in Threads : Owner(u)' => flight'[Target(u)']
    BY <1>8, <1>11, <2>1, <2>2, <2>3 DEF Claimed, FlightsOK
  <2>5. \A q \in Runs : flight'[q] => \E u \in Threads : Owner(u)' /\ Target(u)' = q
    BY <1>4, <1>8, <1>11, <2>1 DEF Claimed, FlightsOK
  <2>6. \A u, v \in Threads : Owner(u)' /\ Owner(v)' /\ Target(u)' = Target(v)' => u = v
    BY <1>8, <2>1 DEF Claimed, FlightsOK
  <2>7. \A u \in Threads : pc'[u] \in {"count", "land", "drop"} => u # t /\ pc'[u] = pc[u]
    BY <1>7
  <2>8. \A u \in Threads : pc'[u] \in {"count", "land", "drop"} => waiter'[Target(u)'] = "none"
    BY <1>1, <1>8, <2>7 DEF Claimed, FlightsOK, Owner
  <2>9. QED
    BY <2>4, <2>5, <2>6, <2>8 DEF FlightsOK
<1>15. ClaimsOK'
  <2>1. waiter[r] = "none"
    BY <1>1, <1>4 DEF Claimed, FlightsOK
  <2>2. \A u \in Threads : rel[u].pending => Due(u)' /\ rel[u].run = u /\ pc'[u] = "done"
    BY <1>1, <1>5, <1>7 DEF Claimed, ClaimsOK, Steady, Due
  <2>3. QED
    BY <1>1, <1>11, <2>1, <2>2 DEF Claimed, ClaimsOK, Due
<1>16. QED
  BY <1>5, <1>6, <1>10, <1>12, <1>13, <1>14, <1>15 DEF Claimed, Steady

\* A goroutine gives up waiting on the flight of another one.
LEMMA ClaimedCancelJoin == ASSUME Claimed, NEW t \in Threads, CancelJoin(t) PROVE Claimed' /\ Steady
<1>1. sub[t] = <<>> /\ pc[t] = "join" /\ ~Due(t) /\ pc[t] \in AcquirePlaces /\ ~Owner(t) /\ Goto(t, Failing(t))
  BY DEF CancelJoin, At, Due, In, AcquirePlaces, Owner
<1>2. UNCHANGED <<slots, claims, lines, rel, sub>>
  BY DEF CancelJoin, locals
<1>3. Steady
  BY <1>2, NoCall DEF Claimed
<1>4. TypeInv'
  BY TypeWaiting DEF Waiting, Claimed
<1>5. t \in Runs \/ (t \in Helpers /\ t \notin Runs)
  BY <1>1, Acquirer
<1>6. HelpersOK' /\ \A u \in Threads : Owner(u) => Target(u)' = Target(u)
  <2>1. CASE t \in Runs
    <3>1. UNCHANGED task /\ Goto(t, "stop") /\ ~GateLocked(t)
      BY <1>1, <2>1, ThreadsAssumption, NoJobs DEF CancelJoin, Failing
    <3>2. HelpersOK'
      BY <1>1, <2>1, <3>1, RunGoesOn DEF Places, Outside
    <3>3. QED
      BY <3>1, <3>2 DEF Target
  <2>2. CASE t \in Helpers /\ t \notin Runs
    <3>1. End(t) /\ Goto(t, "idle") /\ "idle" \in Places
      BY <1>1, <2>2 DEF CancelJoin, Failing, Places, Outside
    <3>2. task'[t].kind = "none"
      BY <2>2, <3>1, TypeFacts DEF Claimed, End, NoTask
    <3>3. HelpersOK' /\ \A u \in Threads \ {t} : Owner(u) => Target(u)' = Target(u)
      BY <2>2, <3>1, <3>2, HelperGoesOn
    <3>4. QED
      BY <1>1, <3>3
  <2>3. QED
    BY <1>5, <2>1, <2>2
<1>7. RunsOK' /\ LinesOK' /\ StacksOK' /\ FlightsOK' /\ ClaimsOK'
  <2>1. PICK place \in {"stop", "idle"} : Goto(t, place)
    BY <1>1 DEF Failing
  <2>2. place \in Places
    BY DEF Places, Outside
  <2>3. QED
    BY <1>1, <1>2, <1>3, <1>6, <2>1, <2>2, Moves DEF Owner
<1>8. QED
  BY <1>3, <1>4, <1>6, <1>7 DEF Claimed

\* At startup nothing is claimed, and only restored rows stand in a line.
LEMMA ClaimedInit == Init => Claimed
<1> SUFFICES ASSUME Init PROVE Claimed
  OBVIOUS
<1>1. TypeInv
  BY TypeInvInit
<1>2. /\ \A t \in Threads : sub[t] = <<>> /\ rel[t] = NoRelease
      /\ \A r \in Runs : Clean(r) /\ waiter[r] = "none"
      /\ \A h \in Helpers : task[h] = NoTask
      /\ prio = <<>> /\ queued = Restored
  BY DEF Init, Clean, Threads
<1>3. /\ \A r \in Runs : pc[r] = IF r \in Recovered THEN "parked" ELSE IF r \in RestoredRuns THEN "queued" ELSE "new"
      /\ \A t \in Threads : t \notin Runs => pc[t] = "idle"
  BY DEF Init, Threads
<1>4. HelpersOK
  BY <1>2, <1>3, ThreadsAssumption DEF HelpersOK, NoTask, Threads
<1>5. RunsOK
  BY <1>2 DEF RunsOK, Clean
<1>6. LinesOK
  <2>1. Once(Restored)
    BY StartAssumption DEF Once
  <2>2. ASSUME NEW r \in InLine(Restored) PROVE pc[r] = "queued"
    <3>1. r \in Runs /\ r \in RestoredRuns /\ r \notin Recovered
      BY <2>2, StartAssumption DEF InLine, RestoredRuns
    <3>2. QED
      BY <1>3, <3>1
  <2>3. Once(<<>>) /\ InLine(<<>>) = {}
    BY DEF Once, InLine
  <2>4. QED
    BY <1>2, <2>1, <2>2, <2>3 DEF LinesOK
<1>7. StacksOK
  BY <1>2 DEF StacksOK
<1>8. FlightsOK
  <2>1. \A t \in Threads : ~Owner(t)
    BY <1>3, ThreadsAssumption DEF Owner
  <2>2. QED
    BY <1>2, <2>1 DEF FlightsOK, Clean, Owner
<1>9. ClaimsOK
  BY <1>2 DEF ClaimsOK, NoRelease, Clean
<1>10. QED
  BY <1>1, <1>4, <1>5, <1>6, <1>7, <1>8, <1>9 DEF Claimed

LEMMA ClaimedWaiting == ASSUME Claimed, NEW t \in Threads, Waiting(t) PROVE Claimed'
  BY ClaimedAround, ClaimedAcquireReserve, ClaimedTake, ClaimedAnswered, ClaimedLand, ClaimedCancelJoin DEF Waiting
LEMMA ClaimedRun == ASSUME Claimed, NEW r \in Runs, RunStep(r) PROVE Claimed'
  BY ClaimedWalk, ClaimedMark, ClaimedFinish, ClaimedCancelQueued DEF RunStep
LEMMA ClaimedHandler == ASSUME Claimed, NEW h \in Helpers, Handler(h) \/ Agent(h) PROVE Claimed'
  BY ClaimedHelpers, ClaimedDaemon, ClaimedTryAdmit, ClaimedEnqueue, ClaimedAnswer DEF Handler, Agent

\* The claims are right in every reachable state.
LEMMA ClaimedNext == ASSUME Claimed, [Next]_vars PROVE Claimed'
<1>1. CASE UNCHANGED vars
  <2>1. UNCHANGED <<pc, task, slots, pending, flight, waiter, held, lines, rel, sub>>
    BY <1>1 DEF vars, claims, slots, locals
  <2>2. Steady
    BY <2>1, NoCall DEF Claimed
  <2>3. TypeInv'
    BY <1>1, TypeNext DEF Claimed
  <2>4. QED
    BY <2>1, <2>2, <2>3, StillRight DEF Claimed
<1>2. ASSUME NEW h \in Helpers, Handler(h) \/ Agent(h) PROVE Claimed'
  BY <1>2, ClaimedHandler
<1>3. \A h \in Handlers \cup Agents : h \in Helpers
  BY DEF Helpers
<1>4. QED
  BY <1>1, <1>2, <1>3, ClaimedScheduler, ClaimedWaiting, ClaimedRun, ClaimedDaemon DEF Next

\* Why a slot has one claim at most, and a finished run none.
LEMMA ClaimedSettled == Claimed => ClaimsSettled
<1> SUFFICES ASSUME Claimed PROVE ClaimsSettled
  OBVIOUS
<1>1. SingleClaim
  <2>1. ASSUME NEW r \in Runs, waiter[r] # "none",
               NEW t \in Threads, In(t, "settle"), rel[t].run = r, rel[t].pending
        PROVE  ~pending[r] /\ ~flight[r]
    BY <2>1 DEF Claimed, ClaimsOK, RunsOK, Clean
  <2>2. QED
    BY <2>1 DEF SingleClaim, Claimed, ClaimsOK
<1>2. FinishedRunIsClean
  <2>1. ASSUME NEW r \in Runs, pc[r] = "done" PROVE r \notin {queued[i] : i \in 1..Len(queued)}
    BY <2>1 DEF Claimed, LinesOK, InLine
  <2>2. ASSUME NEW r \in Runs, pc[r] = "done", waiter[r] # "none" PROVE In(r, "settle") /\ rel[r].run = r /\ r \in Threads
    BY <2>2 DEF Claimed, ClaimsOK, RunsOK, Clean, Threads
  <2>3. QED
    BY <2>1, <2>2 DEF FinishedRunIsClean, Claimed, RunsOK, Clean
<1>3. QED
  BY <1>1, <1>2 DEF ClaimsSettled

\* A run never claims a second slot: runSlot.pending, runSlot.flight and the release that
\* cancels a reservation own its waiter one at a time, and only while it holds no slot; and
\* a run that has ended leaves no slot, no claim and no place in a line behind.
THEOREM OneClaimPerRun == Spec => []ClaimsSettled
  BY ClaimedInit, ClaimedNext, ClaimedSettled, PTL DEF Spec

----------------------------------------------------------------------------
(***************************************************************************)
(* The counter.  Every step moves a slot from one group to another, or     *)
(* changes active by what the groups gain or lose together.                *)
(***************************************************************************)
Bit(b) == IF b THEN 1 ELSE 0

\* A set that differs from another one in a single member.
LEMMA Recount ==
    ASSUME NEW S, IsFiniteSet(S), NEW T, NEW x, T \ {x} = S \ {x}
    PROVE  Cardinality(T) = Cardinality(S) - Bit(x \in S) + Bit(x \in T)
<1> DEFINE U == S \ {x}
<1>1. IsFiniteSet(U) /\ Cardinality(U) \in Nat /\ x \notin U
  BY FS_Subset, FS_CardinalityType
<1>2. Cardinality(U \cup {x}) = Cardinality(U) + 1
  BY <1>1, FS_AddElement
<1>3. /\ S = IF x \in S THEN U \cup {x} ELSE U
      /\ T = IF x \in T THEN U \cup {x} ELSE U
  OBVIOUS
<1> HIDE DEF U
<1>4. ASSUME NEW V, V = IF x \in V THEN U \cup {x} ELSE U PROVE Cardinality(V) = Cardinality(U) + Bit(x \in V)
  <2>1. CASE x \in V
    <3>1. V = U \cup {x}
      BY <1>4, <2>1
    <3>2. QED
      BY <1>2, <2>1, <3>1 DEF Bit
  <2>2. CASE x \notin V
    <3>1. V = U
      BY <1>4, <2>2
    <3>2. QED
      BY <1>1, <2>2, <3>1 DEF Bit
  <2>3. QED
    BY <2>1, <2>2
<1>5. Cardinality(S) = Cardinality(U) + Bit(x \in S) /\ Cardinality(T) = Cardinality(U) + Bit(x \in T)
  BY <1>3, <1>4
<1>6. QED
  BY <1>1, <1>5 DEF Bit

LEMMA CountUsedAfter ==
    (/\ Cardinality(Used) = Cardinality(Holders) + Cardinality(Grantees) + Cardinality(Leaving)
     /\ Cardinality(Holders) \in Nat /\ Cardinality(Grantees) \in Nat /\ Cardinality(Leaving) \in Nat)'
  BY CountUsed, PTL

\* The counter is right after a step that changes it by what the groups change.
LEMMA Balance ==
    ASSUME SlotsAccounted, NEW h \in Int, NEW g \in Int, NEW l \in Int,
           Cardinality(Holders') = Cardinality(Holders) + h,
           Cardinality(Grantees') = Cardinality(Grantees) + g,
           Cardinality(Leaving') = Cardinality(Leaving) + l,
           active' = active + h + g + l
    PROVE  SlotsAccounted'
  BY CountUsed, CountUsedAfter DEF SlotsAccounted

\* What a step does to a slot, a waiter or a release, as its group sees it.
LEMMA HoldersChange ==
    ASSUME held \in [Runs -> BOOLEAN]
    PROVE  /\ UNCHANGED held => Cardinality(Holders') = Cardinality(Holders)
           /\ \A r \in Runs, b \in BOOLEAN : held' = [held EXCEPT ![r] = b]
                => Cardinality(Holders') = Cardinality(Holders) - Bit(held[r]) + Bit(b)
<1>1. UNCHANGED held => Holders' = Holders
  BY DEF Holders
<1>2. ASSUME NEW r \in Runs, NEW b \in BOOLEAN, held' = [held EXCEPT ![r] = b]
      PROVE  Cardinality(Holders') = Cardinality(Holders) - Bit(held[r]) + Bit(b)
  <2>1. Holders' \ {r} = Holders \ {r} /\ (r \in Holders' <=> b) /\ (r \in Holders <=> held[r])
    BY <1>2 DEF Holders
  <2>2. Cardinality(Holders') = Cardinality(Holders) - Bit(r \in Holders) + Bit(r \in Holders')
    BY <2>1, GroupsFinite, Recount
  <2>3. QED
    BY <2>1, <2>2 DEF Bit
<1>3. QED
  BY <1>1, <1>2

LEMMA GranteesChange ==
    ASSUME waiter \in [Runs -> {"none", "waiting", "granted"}]
    PROVE  /\ UNCHANGED waiter => Cardinality(Grantees') = Cardinality(Grantees)
           /\ \A r \in Runs, w \in {"none", "waiting", "granted"} : waiter' = [waiter EXCEPT ![r] = w]
                => Cardinality(Grantees') = Cardinality(Grantees) - Granted(r) + Bit(w = "granted")
<1>1. UNCHANGED waiter => Grantees' = Grantees
  BY DEF Grantees
<1>2. ASSUME NEW r \in Runs, NEW w \in {"none", "waiting", "granted"}, waiter' = [waiter EXCEPT ![r] = w]
      PROVE  Cardinality(Grantees') = Cardinality(Grantees) - Granted(r) + Bit(w = "granted")
  <2>1. /\ Grantees' \ {r} = Grantees \ {r}
        /\ (r \in Grantees' <=> w = "granted") /\ (r \in Grantees <=> waiter[r] = "granted")
    BY <1>2 DEF Grantees
  <2>2. Cardinality(Grantees') = Cardinality(Grantees) - Bit(r \in Grantees) + Bit(r \in Grantees')
    BY <2>1, GroupsFinite, Recount
  <2>3. QED
    BY <2>1, <2>2 DEF Bit, Granted
<1>3. QED
  BY <1>1, <1>2

LEMMA LeavingChange ==
    ASSUME NEW t \in Threads, \A u \in Threads \ {t} : rel'[u] = rel[u]
    PROVE  /\ UNCHANGED rel /\ Steady => Cardinality(Leaving') = Cardinality(Leaving)
           /\ Enters(t) => Cardinality(Leaving') = Cardinality(Leaving) + Bit(rel'[t].held)
           /\ Exits(t) => Cardinality(Leaving') = Cardinality(Leaving) - Bit(rel[t].held)
<1>1. UNCHANGED rel /\ Steady => Leaving' = Leaving
  BY DEF Leaving, Steady
<1>2. Enters(t) \/ Exits(t) => Leaving' \ {t} = Leaving \ {t}
  BY DEF Leaving, Enters, Exits
<1>3. Leaving' \ {t} = Leaving \ {t}
        => Cardinality(Leaving') = Cardinality(Leaving) - Bit(t \in Leaving) + Bit(t \in Leaving')
  BY GroupsFinite, Recount
<1>4. /\ Enters(t) => t \notin Leaving /\ (t \in Leaving' <=> rel'[t].held)
      /\ Exits(t) => t \notin Leaving' /\ (t \in Leaving <=> rel[t].held)
  BY DEF Leaving, Enters, Exits
<1>5. Cardinality(Leaving) \in Nat
  BY CountUsed
<1>6. QED
  BY <1>1, <1>2, <1>3, <1>4, <1>5 DEF Bit

\* A step that touches no slot, no waiter, no release and not the counter.
LEMMA NothingCounted ==
    ASSUME Claimed, SlotsAccounted, UNCHANGED <<active, held, waiter, rel>>, Steady
    PROVE  SlotsAccounted'
<1>1. Holders' = Holders /\ Grantees' = Grantees /\ Leaving' = Leaving
  BY DEF Holders, Grantees, Leaving, Steady
<1>2. QED
  BY <1>1, CountUsed, CountUsedAfter DEF SlotsAccounted

\* A run starts with a slot of its own.
LEMMA CountedStart ==
    ASSUME Claimed, SlotsAccounted, NEW r \in Runs, ~held[r], held' = [held EXCEPT ![r] = TRUE],
           active' = active + 1, UNCHANGED <<waiter, rel>>, Steady
    PROVE  SlotsAccounted'
<1>1. Cardinality(Holders') = Cardinality(Holders) + 1
  <2>1. Cardinality(Holders') = Cardinality(Holders) - Bit(held[r]) + Bit(TRUE)
    BY HoldersChange, TypeFacts DEF Claimed
  <2>2. QED
    BY <2>1, CountUsed DEF Bit
<1>2. Cardinality(Grantees') = Cardinality(Grantees) + 0
  BY GranteesChange, TypeFacts, CountUsed DEF Claimed
<1>3. Cardinality(Leaving') = Cardinality(Leaving) + 0
  BY LeavingChange, CountUsed DEF Threads
<1>4. active' = active + 1 + 0 + 0
  BY TypeFacts DEF Claimed
<1>5. QED
  BY <1>1, <1>2, <1>3, <1>4, Balance

LEMMA AccountsTryAdmit == ASSUME Claimed, SlotsAccounted, NEW h \in Helpers, TryAdmit(h) PROVE SlotsAccounted'
<1>1. Steady /\ UNCHANGED <<waiter, rel>>
  BY ClaimedTryAdmit DEF TryAdmit, claims, locals
<1>2. pc[h] = "try"
  BY DEF TryAdmit, At
<1>3. task[h].run \in Runs /\ ~held[task[h].run]
  BY <1>2, HelperJobs DEF Claimed, RunsOK, Clean
<1>4. UNCHANGED <<active, held>> \/ (active' = active + 1 /\ held' = [held EXCEPT ![task[h].run] = TRUE])
  BY DEF TryAdmit
<1>5. QED
  BY <1>1, <1>3, <1>4, CountedStart, NothingCounted

LEMMA QueueHead ==
    ASSUME Claimed, queued # <<>>
    PROVE  Head(queued) \in Runs /\ pc[Head(queued)] = "queued" /\ ~held[Head(queued)]
<1>1. Head(queued) \in Runs /\ Head(queued) \in InLine(queued)
  BY Headed, TypeFacts DEF Claimed
<1>2. QED
  BY <1>1 DEF Claimed, LinesOK, RunsOK, Clean

LEMMA AccountsStart ==
    ASSUME Claimed, SlotsAccounted, NEW t \in Threads, StartQueued(t) \/ DropUnclaimed(t)
    PROVE  SlotsAccounted'
<1>1. CASE StartQueued(t)
  <2>1. held' = [held EXCEPT ![Head(queued)] = TRUE] /\ active' = active + 1 /\ UNCHANGED <<waiter, rel>> /\ queued # <<>>
    BY <1>1 DEF StartQueued, CanStart, claims, locals
  <2>2. Steady
    BY <1>1, ClaimedStart
  <2>3. QED
    BY <2>1, <2>2, QueueHead, CountedStart
<1>2. CASE DropUnclaimed(t)
  <2>1. UNCHANGED <<waiter, held>> /\ active' = active + 1 /\ Enters(t)
    BY <1>2, ClaimedStart DEF DropUnclaimed, claims, slots
  <2>2. rel'[t].held = TRUE /\ \A u \in Threads \ {t} : rel'[u] = rel[u]
    BY <1>2, TypeFacts DEF DropUnclaimed, Claimed
  <2>3. Cardinality(Leaving') = Cardinality(Leaving) + 1
    BY <2>1, <2>2, LeavingChange DEF Bit
  <2>4. Cardinality(Holders') = Cardinality(Holders) + 0 /\ Cardinality(Grantees') = Cardinality(Grantees) + 0
    BY <2>1, HoldersChange, GranteesChange, TypeFacts, CountUsed DEF Claimed
  <2>5. active' = active + 0 + 0 + 1
    BY <2>1, TypeFacts DEF Claimed
  <2>6. QED
    BY <2>3, <2>4, <2>5, Balance
<1>3. QED
  BY <1>1, <1>2

\* A waiter that is granted, at once or in its turn, counts from then on.
LEMMA CountedGrant ==
    ASSUME Claimed, SlotsAccounted, NEW r \in Runs, waiter[r] # "granted", waiter' = [waiter EXCEPT ![r] = "granted"],
           active' = active + 1, UNCHANGED <<held, rel>>, Steady
    PROVE  SlotsAccounted'
<1>1. Cardinality(Grantees') = Cardinality(Grantees) + 1
  <2>1. Cardinality(Grantees') = Cardinality(Grantees) - Granted(r) + Bit("granted" = "granted")
    BY GranteesChange, TypeFacts DEF Claimed
  <2>2. QED
    BY <2>1, CountUsed DEF Bit, Granted
<1>2. Cardinality(Holders') = Cardinality(Holders) + 0
  BY HoldersChange, TypeFacts, CountUsed DEF Claimed
<1>3. Cardinality(Leaving') = Cardinality(Leaving) + 0
  BY LeavingChange, CountUsed DEF Threads
<1>4. active' = active + 0 + 1 + 0
  BY TypeFacts DEF Claimed
<1>5. QED
  BY <1>1, <1>2, <1>3, <1>4, Balance

LEMMA AccountsGrant == ASSUME Claimed, SlotsAccounted, NEW t \in Threads, GrantResumed(t) PROVE SlotsAccounted'
<1>1. /\ prio # <<>> /\ waiter' = [waiter EXCEPT ![Head(prio)] = "granted"] /\ active' = active + 1
      /\ UNCHANGED <<held, rel>>
  BY DEF GrantResumed, slots, locals
<1>2. Head(prio) \in Runs /\ waiter[Head(prio)] = "waiting"
  BY <1>1, Headed, TypeFacts DEF Claimed, LinesOK
<1>3. Steady
  BY ClaimedGrant
<1>4. QED
  BY <1>1, <1>2, <1>3, CountedGrant

LEMMA AccountsReserve ==
    ASSUME Claimed, SlotsAccounted, NEW r \in Runs, pc[r] # "done", ReserveSlot(r), UNCHANGED <<held, rel>>, Steady
    PROVE  SlotsAccounted'
<1>1. ~held[r] /\ Unclaimed(r) => waiter[r] = "none"
  BY DEF Unclaimed, Claimed, ClaimsOK, Threads
<1>2. CASE UNCHANGED <<waiter, active>>
  BY <1>2, NothingCounted
<1>3. CASE waiter[r] = "none" /\ active' = active + 1 /\ waiter' = [waiter EXCEPT ![r] = "granted"]
  BY <1>3, CountedGrant
<1>4. CASE waiter[r] = "none" /\ active' = active /\ waiter' = [waiter EXCEPT ![r] = "waiting"]
  <2>1. Cardinality(Grantees') = Cardinality(Grantees) + 0
    <3>1. Cardinality(Grantees') = Cardinality(Grantees) - Granted(r) + Bit("waiting" = "granted")
      BY <1>4, GranteesChange, TypeFacts DEF Claimed
    <3>2. QED
      BY <1>4, <3>1, CountUsed DEF Bit, Granted
  <2>2. Cardinality(Holders') = Cardinality(Holders) + 0 /\ Cardinality(Leaving') = Cardinality(Leaving) + 0
    BY HoldersChange, LeavingChange, TypeFacts, CountUsed DEF Claimed, Threads
  <2>3. active' = active + 0 + 0 + 0
    BY <1>4, TypeFacts DEF Claimed
  <2>4. QED
    BY <2>1, <2>2, <2>3, Balance
<1>5. QED
  BY <1>1, <1>2, <1>3, <1>4 DEF ReserveSlot

LEMMA AccountsClaims ==
    ASSUME Claimed, SlotsAccounted
    PROVE  /\ \A h \in Helpers : Answer(h) => SlotsAccounted'
           /\ \A t \in Threads : AcquireReserve(t) => SlotsAccounted'
<1>1. ASSUME NEW h \in Helpers, Answer(h) PROVE SlotsAccounted'
  <2>1. pc[h] = "answer" /\ ReserveSlot(task[h].run) /\ UNCHANGED <<held, rel>>
    BY <1>1 DEF Answer, At, locals
  <2>2. task[h].kind = "respond"
    BY <2>1 DEF Claimed, TypeInv, PlacesOK, HelperPlace, AcquirePlaces
  <2>3. task[h].run \in Runs /\ pc[task[h].run] # "done"
    BY <2>2, HelperJobs
  <2>4. QED
    BY <1>1, <2>1, <2>3, ClaimedAnswer, AccountsReserve
<1>2. ASSUME NEW t \in Threads, AcquireReserve(t) PROVE SlotsAccounted'
  <2>1. pc[t] = "resv" /\ ReserveSlot(Target(t)) /\ UNCHANGED <<held, rel>>
    BY <1>2 DEF AcquireReserve, At, locals
  <2>2. Target(t) \in Runs /\ pc[Target(t)] # "done"
    BY <2>1, Acquirer DEF AcquirePlaces
  <2>3. QED
    BY <1>2, <2>1, <2>2, ClaimedAcquireReserve, AccountsReserve
<1>3. QED
  BY <1>1, <1>2

\* The first section of a release moves the slot to the goroutine that will count it.
LEMMA CountedRelease ==
    ASSUME Claimed, SlotsAccounted, NEW t \in Threads, NEW r \in Runs, held' = [held EXCEPT ![r] = FALSE],
           Enters(t), rel'[t].held = held[r], \A u \in Threads \ {t} : rel'[u] = rel[u], UNCHANGED <<waiter, active>>
    PROVE  SlotsAccounted'
<1>1. Cardinality(Holders') = Cardinality(Holders) + (0 - Bit(held[r]))
  <2>1. Cardinality(Holders') = Cardinality(Holders) - Bit(held[r]) + Bit(FALSE)
    BY HoldersChange, TypeFacts DEF Claimed
  <2>2. QED
    BY <2>1, CountUsed DEF Bit
<1>2. Cardinality(Leaving') = Cardinality(Leaving) + Bit(held[r])
  BY LeavingChange
<1>3. Cardinality(Grantees') = Cardinality(Grantees) + 0
  BY GranteesChange, TypeFacts, CountUsed DEF Claimed
<1>4. active' = active + (0 - Bit(held[r])) + 0 + Bit(held[r])
  BY TypeFacts DEF Claimed, Bit
<1>5. Bit(held[r]) \in Int /\ 0 - Bit(held[r]) \in Int
  BY DEF Bit
<1>6. QED
  BY <1>1, <1>2, <1>3, <1>4, <1>5, Balance

LEMMA AccountsRelease ==
    ASSUME Claimed, SlotsAccounted, NEW r \in Runs, NEW yield \in BOOLEAN, BeginRelease(r, yield), sub[r] = <<>>,
           UNCHANGED <<waiter, active>>
    PROVE  SlotsAccounted'
<1>1. IF Frees(r, yield) THEN Enters(r) ELSE Steady /\ UNCHANGED <<rel, pending, slots>>
  BY ReleaseStacks, TypeFacts DEF Claimed
<1>2. CASE Frees(r, yield)
  <2>1. /\ held' = [held EXCEPT ![r] = FALSE] /\ r \in Threads
        /\ rel' = [rel EXCEPT ![r] = [run |-> r, held |-> held[r], yielded |-> slotYielded[r],
                                      pending |-> Cancels(r, yield), yield |-> yield]]
    BY <1>2 DEF BeginRelease, Frees, Threads
  <2>2. rel'[r].held = held[r] /\ \A u \in Threads \ {r} : rel'[u] = rel[u]
    BY <2>1, TypeFacts DEF Claimed
  <2>3. QED
    BY <1>1, <1>2, <2>1, <2>2, CountedRelease
<1>3. CASE ~Frees(r, yield)
  BY <1>1, <1>3, NothingCounted DEF slots
<1>4. QED
  BY <1>2, <1>3

LEMMA AccountsRun ==
    ASSUME Claimed, SlotsAccounted, NEW r \in Runs, RunStep(r)
    PROVE  SlotsAccounted'
<1>1. CASE Finish(r)
  <2>1. BeginRelease(r, FALSE) /\ sub[r] = <<>> /\ UNCHANGED <<waiter, active>>
    BY <1>1 DEF Finish, counts
  <2>2. QED
    BY <2>1, AccountsRelease
<1>2. CASE Mark(r)
  <2>1. CASE hold
    <3>1. UNCHANGED <<active, held, waiter, rel>> /\ Steady
      BY <1>2, <2>1, ClaimedMark DEF Mark, counts
    <3>2. QED
      BY <3>1, NothingCounted
  <2>2. CASE ~hold
    <3>1. BeginRelease(r, TRUE) /\ sub[r] = <<>> /\ UNCHANGED <<waiter, active>>
      BY <1>2, <2>2 DEF Mark, At, counts
    <3>2. QED
      BY <3>1, AccountsRelease
  <2>3. QED
    BY <2>1, <2>2
<1>3. CASE Park(r) \/ YieldAtGate(r) \/ PollCI(r) \/ Resume(r) \/ CancelQueued(r)
  <2>1. UNCHANGED <<active, held, waiter, rel>>
    BY <1>3 DEF Park, YieldAtGate, PollCI, Resume, CancelQueued, counts, slots, claims, locals
  <2>2. QED
    BY <1>3, <2>1, ClaimedWalk, ClaimedCancelQueued, NothingCounted
<1>4. QED
  BY <1>1, <1>2, <1>3 DEF RunStep

LEMMA AccountsUnpark == ASSUME Claimed, SlotsAccounted, NEW t \in Threads, ReleaseParked(t) PROVE SlotsAccounted'
<1>1. UNCHANGED <<waiter, active>>
  BY DEF ReleaseParked, claims, counts
<1>2. ASSUME NEW r \in todo[t], Unparks(t, r), Enters(t) PROVE SlotsAccounted'
  <2>1. r \in Runs /\ held[r] = TRUE /\ held' = [held EXCEPT ![r] = FALSE]
    BY <1>2, TypeFacts DEF Claimed, Unparks, StillParked
  <2>2. rel'[t].held = TRUE /\ \A u \in Threads \ {t} : rel'[u] = rel[u]
    BY <1>2, TypeFacts DEF Claimed, Unparks
  <2>3. QED
    BY <1>1, <1>2, <2>1, <2>2, CountedRelease
<1>3. QED
  BY <1>1, <1>2, ClaimedUnpark, NothingCounted DEF slots

\* A reservation is cancelled by the last release of its own run.
LEMMA Withdrawn ==
    ASSUME Claimed, NEW t \in Threads, rel[t].pending
    PROVE  rel[t].run = t /\ t \in Runs
<1>1. rel[t].run = t /\ pc[t] = "done"
  BY DEF Claimed, ClaimsOK
<1>2. t # Watcher /\ t \notin Helpers
  BY <1>1, HelperJobs DEF Claimed, TypeInv, PlacesOK
<1>3. QED
  BY <1>1, <1>2 DEF Threads

\* The second section counts the slot out, and the grant it withdraws.
LEMMA AccountsSettle == ASSUME Claimed, SlotsAccounted, NEW t \in Threads, Settle(t) PROVE SlotsAccounted'
<1> DEFINE d == rel[t]
           g == IF d.pending THEN Granted(d.run) ELSE 0
<1>1. /\ UNCHANGED held /\ rel' = [rel EXCEPT ![t] = NoRelease]
      /\ IF d.pending THEN waiter' = [waiter EXCEPT ![d.run] = "none"] ELSE UNCHANGED waiter
      /\ active' = active - (IF d.held THEN 1 ELSE 0) - g
  BY DEF Settle, slots
<1>2. Exits(t)
  BY ClaimedSettle
<1>3. Cardinality(Leaving') = Cardinality(Leaving) + (0 - Bit(d.held))
  <2>1. \A u \in Threads \ {t} : rel'[u] = rel[u]
    BY <1>1, TypeFacts DEF Claimed
  <2>2. Cardinality(Leaving') = Cardinality(Leaving) - Bit(d.held)
    BY <1>2, <2>1, LeavingChange
  <2>3. QED
    BY <2>2, CountUsed DEF Bit
<1>4. d.pending => d.run \in Runs
  BY Withdrawn
<1>5. Cardinality(Grantees') = Cardinality(Grantees) + (0 - g)
  <2>1. CASE d.pending
    <3>1. Cardinality(Grantees') = Cardinality(Grantees) - Granted(d.run) + Bit("none" = "granted")
      BY <1>1, <1>4, <2>1, GranteesChange, TypeFacts DEF Claimed
    <3>2. QED
      BY <2>1, <3>1, CountUsed DEF Bit, Granted
  <2>2. CASE ~d.pending
    BY <1>1, <2>2, GranteesChange, TypeFacts, CountUsed DEF Claimed
  <2>3. QED
    BY <2>1, <2>2
<1>6. Cardinality(Holders') = Cardinality(Holders) + 0
  BY <1>1, HoldersChange, TypeFacts, CountUsed DEF Claimed
<1>7. g \in Int /\ Bit(d.held) \in Int /\ 0 - g \in Int /\ 0 - Bit(d.held) \in Int
  BY DEF Bit, Granted
<1> HIDE DEF g, d
<1>8. active' = active + 0 + (0 - g) + (0 - Bit(d.held))
  BY <1>1, <1>7, TypeFacts DEF Claimed, Bit
<1>9. QED
  BY <1>3, <1>5, <1>6, <1>7, <1>8, Balance

\* The grant becomes the slot, or is given back by the goroutine that stops waiting.
LEMMA AccountsAnswered ==
    ASSUME Claimed, SlotsAccounted, NEW t \in Threads, SetHeld(t) \/ CancelWait(t)
    PROVE  SlotsAccounted'
<1> DEFINE r == Target(t)
<1>1. r \in Runs
  BY Acquirer DEF SetHeld, CancelWait, At, AcquirePlaces
<1>2. waiter' = [waiter EXCEPT ![r] = "none"] /\ UNCHANGED rel /\ Steady
  BY ClaimedAnswered DEF SetHeld, CancelWait, locals
<1>3. Cardinality(Grantees') = Cardinality(Grantees) + (0 - Granted(r))
  <2>1. Cardinality(Grantees') = Cardinality(Grantees) - Granted(r) + Bit("none" = "granted")
    BY <1>1, <1>2, GranteesChange, TypeFacts DEF Claimed
  <2>2. QED
    BY <2>1, CountUsed DEF Bit, Granted
<1>4. Cardinality(Leaving') = Cardinality(Leaving) + 0
  BY <1>2, LeavingChange, CountUsed
<1>5. 0 - Granted(r) \in Int
  BY DEF Granted
<1>6. CASE SetHeld(t)
  <2>1. held' = [held EXCEPT ![r] = TRUE] /\ waiter[r] = "granted" /\ active' = active
    BY <1>6 DEF SetHeld, counts
  <2>2. ~held[r]
    BY <1>1, <2>1 DEF Claimed, ClaimsOK
  <2>3. Cardinality(Holders') = Cardinality(Holders) + 1
    <3>1. Cardinality(Holders') = Cardinality(Holders) - Bit(held[r]) + Bit(TRUE)
      BY <1>1, <2>1, HoldersChange, TypeFacts DEF Claimed
    <3>2. QED
      BY <2>2, <3>1, CountUsed DEF Bit
  <2>4. active' = active + 1 + (0 - Granted(r)) + 0
    BY <2>1, TypeFacts DEF Claimed, Granted
  <2>5. QED
    BY <1>3, <1>4, <1>5, <2>3, <2>4, Balance
<1>7. CASE CancelWait(t)
  <2>1. UNCHANGED held /\ active' = active - Granted(r)
    BY <1>7 DEF CancelWait, slots
  <2>2. Cardinality(Holders') = Cardinality(Holders) + 0
    BY <2>1, HoldersChange, TypeFacts, CountUsed DEF Claimed
  <2>3. active' = active + 0 + (0 - Granted(r)) + 0
    BY <2>1, TypeFacts DEF Claimed, Granted
  <2>4. QED
    BY <1>3, <1>4, <1>5, <2>2, <2>3, Balance
<1>8. QED
  BY <1>6, <1>7

LEMMA AccountsScheduler == ASSUME Claimed, SlotsAccounted, NEW t \in Threads, Scheduler(t) PROVE SlotsAccounted'
<1>1. CASE Dispatch(t) \/ ClaimFails(t) \/ DispatchDone(t)
  <2>1. UNCHANGED <<active, held, waiter, rel>>
    BY <1>1 DEF Dispatch, ClaimFails, DispatchDone, counts, slots, claims, locals
  <2>2. QED
    BY <1>1, <2>1, ClaimedDispatch, NothingCounted
<1>2. QED
  BY <1>1, AccountsUnpark, AccountsSettle, AccountsGrant, AccountsStart DEF Scheduler

LEMMA AccountsWaiting == ASSUME Claimed, SlotsAccounted, NEW t \in Threads, Waiting(t) PROVE SlotsAccounted'
<1>1. CASE Again(t) \/ CountResumed(t) \/ Take(t) \/ Land(t) \/ CancelJoin(t)
  <2>1. UNCHANGED <<active, held, waiter, rel>>
    BY <1>1 DEF Again, CountResumed, Take, Land, CancelJoin, counts, slots, claims, locals
  <2>2. QED
    BY <1>1, <2>1, ClaimedAround, ClaimedTake, ClaimedLand, ClaimedCancelJoin, NothingCounted
<1>2. QED
  BY <1>1, AccountsClaims, AccountsAnswered DEF Waiting

LEMMA AccountsHandler ==
    ASSUME Claimed, SlotsAccounted, NEW h \in Helpers, Handler(h) \/ Agent(h)
    PROVE  SlotsAccounted'
<1>1. CASE (\E r \in Runs : Admit(h, r) \/ Respond(h, r) \/ RunAgent(h, r)) \/ Admitted(h) \/ AgentDone(h)
  <2>1. UNCHANGED <<active, held, waiter, rel>>
    BY <1>1 DEF Admit, Respond, RunAgent, Admitted, AgentDone, counts, slots, claims, locals
  <2>2. QED
    BY <1>1, <2>1, ClaimedHelpers, NothingCounted
<1>2. CASE RetryClaim(h) \/ Enqueue(h)
  <2>1. UNCHANGED <<active, held, waiter, rel>>
    BY <1>2 DEF RetryClaim, Enqueue, counts, slots, claims, locals
  <2>2. QED
    BY <1>2, <2>1, ClaimedDaemon, ClaimedEnqueue, NothingCounted
<1>3. QED
  BY <1>1, <1>2, AccountsTryAdmit, AccountsClaims DEF Handler, Agent

\* The counter is right initially, and every step keeps it right.
LEMMA AccountsInit == Init => SlotsAccounted
<1> SUFFICES ASSUME Init PROVE SlotsAccounted
  OBVIOUS
<1>1. Used = {}
  BY DEF Init, Used, In, Threads
<1>2. QED
  BY <1>1, FS_EmptySet DEF Init, SlotsAccounted

LEMMA AccountsNext == ASSUME Claimed, SlotsAccounted, [Next]_vars PROVE SlotsAccounted'
<1>1. CASE UNCHANGED vars
  <2>1. UNCHANGED <<active, held, waiter, rel, sub>>
    BY <1>1 DEF vars, claims, slots, locals, counts
  <2>2. Steady
    BY <2>1, NoCall DEF Claimed
  <2>3. QED
    BY <2>1, <2>2, NothingCounted
<1>2. CASE EditConfig \/ Tick \/ ReleaseQueue
  <2>1. UNCHANGED <<active, held, waiter, rel>>
    BY <1>2 DEF EditConfig, Tick, ReleaseQueue, counts, slots, claims, locals
  <2>2. QED
    BY <1>2, <2>1, ClaimedDaemon, NothingCounted
<1>3. \A h \in Handlers \cup Agents : h \in Helpers
  BY DEF Helpers
<1>4. QED
  BY <1>1, <1>2, <1>3, AccountsScheduler, AccountsWaiting, AccountsRun, AccountsHandler DEF Next

\* No slot is lost or counted twice: slotScheduler.active is the number of slots that are
\* held, granted, or between the two sections of a release, whatever any of the daemon's
\* goroutines is in the middle of.
THEOREM CounterIsRight == Spec => []SlotsAccounted
  BY ClaimedInit, ClaimedNext, AccountsInit, AccountsNext, PTL DEF Spec

----------------------------------------------------------------------------
(***************************************************************************)
(* Work and its slot.  A goroutine at work, or sure of the slot it has     *)
(* seen, keeps it: only a parked slot is taken away, and only a run with   *)
(* no work and no agents gives its own back.                               *)
(***************************************************************************)
Needs(t)  == pc[t] \in {"work", "agent", "count", "land"}
Wants(t)  == Needs(t) \/ pc[t] = "take"
WorkAt(t) == (Needs(t) => held[Target(t)]) /\ (Wants(t) => ~slotParked[Target(t)])

LEMMA WorkEach == WorkOK <=> \A t \in Threads : WorkAt(t)
  BY DEF WorkOK, WorkAt, Needs, Wants
LEMMA WorkEachAfter == (WorkOK <=> \A t \in Threads : WorkAt(t))'
  BY WorkEach, PTL

\* Who wants the slot of a run is its main goroutine or an agent of it.
LEMMA Worker ==
    ASSUME Claimed, NEW t \in Threads, Wants(t)
    PROVE  Target(t) \in Runs /\ t \in Runs \cup Helpers /\ (t # Target(t) => AgentsBusy(Target(t)))
<1>1. t # Watcher
  BY DEF Claimed, TypeInv, PlacesOK, Wants, Needs
<1>2. CASE t \in Runs
  BY <1>2 DEF Target
<1>3. CASE t \in Helpers
  <2>1. t \notin Runs /\ HelperPlace(t) /\ pc[t] \in {"agent"} \cup AcquirePlaces
    BY <1>3, ThreadsAssumption, HelperJobs DEF Claimed, TypeInv, PlacesOK, Wants, Needs, AcquirePlaces
  <2>2. task[t].kind = "agent" /\ task[t].run \in Runs /\ Target(t) = task[t].run
    BY <2>1 DEF HelperPlace, AcquirePlaces, Target
  <2>3. Doing(t, "agent", Target(t))
    BY <1>3, <2>2, TypeFacts DEF Doing, Claimed
  <2>4. QED
    BY <1>3, <2>2, <2>3 DEF AgentsBusy
<1>4. QED
  BY <1>1, <1>2, <1>3 DEF Threads

\* A step that takes no slot away and parks none.
LEMMA WorkGoesOn ==
    ASSUME Claimed, WorkOK, \A q \in Runs : (held[q] => held'[q]) /\ (slotParked'[q] => slotParked[q]),
           \A u \in Threads : (pc'[u] = pc[u] /\ (u \in Helpers => task'[u] = task[u])) \/ WorkAt(u)'
    PROVE  WorkOK'
<1>1. ASSUME NEW u \in Threads, pc'[u] = pc[u], u \in Helpers => task'[u] = task[u] PROVE WorkAt(u)'
  <2>1. CASE Wants(u)
    <3>1. Target(u) \in Runs /\ u \in Runs \cup Helpers
      BY <2>1, Worker
    <3>2. Target(u)' = Target(u)
      BY <1>1, <3>1 DEF Target
    <3>3. WorkAt(u)
      BY WorkEach
    <3>4. QED
      BY <1>1, <3>1, <3>2, <3>3 DEF WorkAt, Wants, Needs
  <2>2. CASE ~Wants(u)
    BY <1>1, <2>2 DEF WorkAt, Wants, Needs
  <2>3. QED
    BY <2>1, <2>2
<1>2. QED
  BY <1>1, WorkEachAfter

\* A step that takes or parks the slot of a run nobody works for.
LEMMA WorkLeaves ==
    ASSUME Claimed, WorkOK, NEW r \in Runs, UNCHANGED task,
           \A q \in Runs : q # r => held'[q] = held[q] /\ slotParked'[q] = slotParked[q],
           \A u \in Threads : (pc'[u] = pc[u] /\ (Wants(u) => Target(u) # r)) \/ ~Wants(u)'
    PROVE  WorkOK'
<1>1. ASSUME NEW u \in Threads, pc'[u] = pc[u], Wants(u), Target(u) # r PROVE WorkAt(u)'
  <2>1. Target(u) \in Runs /\ Target(u)' = Target(u)
    BY <1>1, Worker DEF Target
  <2>2. WorkAt(u)
    BY WorkEach
  <2>3. QED
    BY <1>1, <2>1, <2>2 DEF WorkAt, Wants, Needs
<1>2. \A u \in Threads : ~Wants(u)' => WorkAt(u)'
  BY DEF WorkAt, Wants
<1>3. \A u \in Threads : pc'[u] = pc[u] /\ ~Wants(u) => ~Wants(u)'
  BY DEF Wants, Needs
<1>4. QED
  BY <1>1, <1>2, <1>3, WorkEachAfter

\* A goroutine that goes to a place where it wants no slot.
LEMMA WorkWalk ==
    ASSUME Claimed, WorkOK, NEW t \in Threads, NEW place, Goto(t, place),
           place \notin {"work", "agent", "count", "land", "take"}, \A h \in Helpers \ {t} : task'[h] = task[h],
           \A q \in Runs : (held[q] => held'[q]) /\ (slotParked'[q] => slotParked[q])
    PROVE  WorkOK'
<1>1. pc'[t] = place /\ \A u \in Threads \ {t} : pc'[u] = pc[u]
  BY TypeFacts DEF Claimed, Goto
<1>2. WorkAt(t)'
  BY <1>1 DEF WorkAt, Wants, Needs
<1>3. QED
  BY <1>1, <1>2, WorkGoesOn

LEMMA WorkSame == ASSUME Claimed, WorkOK, UNCHANGED <<pc, task, held, slotParked>> PROVE WorkOK'
  BY WorkGoesOn

LEMMA WorkRelease ==
    ASSUME Claimed, WorkOK, NEW r \in Runs, NEW yield \in BOOLEAN, BeginRelease(r, yield), UNCHANGED task,
           Goto(r, IF yield THEN "parked" ELSE "done"), ~AgentsBusy(r)
    PROVE  WorkOK'
<1>1. \A q \in Runs : q # r => held'[q] = held[q] /\ slotParked'[q] = slotParked[q]
  BY TypeFacts DEF BeginRelease, slots, Claimed
<1>2. pc'[r] \in {"parked", "done"} /\ \A u \in Threads \ {r} : pc'[u] = pc[u]
  BY TypeFacts DEF Claimed, Goto, Threads
<1>3. \A u \in Threads : u # r /\ Wants(u) => Target(u) # r
  BY Worker
<1>4. QED
  BY <1>1, <1>2, <1>3, WorkLeaves DEF Wants, Needs

LEMMA WorkRun == ASSUME Claimed, WorkOK, NEW r \in Runs, RunStep(r) PROVE WorkOK'
<1>1. r \in Threads
  BY DEF Threads
<1>2. CASE Finish(r)
  <2>1. BeginRelease(r, FALSE) /\ UNCHANGED task /\ Goto(r, "done") /\ ~AgentsBusy(r)
    BY <1>2 DEF Finish
  <2>2. QED
    BY <2>1, WorkRelease
<1>3. CASE Mark(r)
  <2>1. pc[r] = "mark" /\ Goto(r, "parked") /\ UNCHANGED task
    BY <1>3 DEF Mark, At
  <2>2. ~AgentsBusy(r)
    BY <2>1, NoJobs
  <2>3. CASE hold
    <3>1. \A q \in Runs : q # r => held'[q] = held[q] /\ slotParked'[q] = slotParked[q]
      BY <1>3, <2>3, TypeFacts DEF Mark, Claimed
    <3>2. pc'[r] = "parked" /\ \A u \in Threads \ {r} : pc'[u] = pc[u]
      BY <1>1, <2>1, TypeFacts DEF Claimed, Goto
    <3>3. \A u \in Threads : u # r /\ Wants(u) => Target(u) # r
      BY <2>2, Worker
    <3>4. QED
      BY <2>1, <3>1, <3>2, <3>3, WorkLeaves DEF Wants, Needs
  <2>4. CASE ~hold
    <3>1. BeginRelease(r, TRUE)
      BY <1>3, <2>4 DEF Mark
    <3>2. QED
      BY <2>1, <2>2, <3>1, WorkRelease
  <2>5. QED
    BY <2>3, <2>4
<1>4. CASE Park(r) \/ YieldAtGate(r) \/ PollCI(r) \/ Resume(r) \/ CancelQueued(r)
  <2>1. PICK place \in {"gate", "parked", "mark", "resv", "done"} : Goto(r, place)
    BY <1>4 DEF Park, YieldAtGate, PollCI, Resume, CancelQueued
  <2>2. UNCHANGED <<task, held, slotParked>>
    BY <1>4 DEF Park, YieldAtGate, PollCI, Resume, CancelQueued, slots
  <2>3. QED
    BY <1>1, <2>1, <2>2, WorkWalk
<1>5. QED
  BY <1>2, <1>3, <1>4 DEF RunStep

LEMMA WorkScheduler == ASSUME Claimed, WorkOK, NEW t \in Threads, Scheduler(t) PROVE WorkOK'
<1>1. CASE Settle(t) \/ Dispatch(t) \/ GrantResumed(t) \/ ClaimFails(t) \/ DispatchDone(t)
  <2>1. UNCHANGED <<pc, task, held, slotParked>>
    BY <1>1 DEF Settle, Dispatch, GrantResumed, ClaimFails, DispatchDone, slots
  <2>2. QED
    BY <2>1, WorkSame
<1>2. CASE ReleaseParked(t)
  <2>1. UNCHANGED <<pc, task>>
    BY <1>2 DEF ReleaseParked
  <2>2. ASSUME NEW r \in todo[t], Unparks(t, r) PROVE WorkOK'
    <3>1. r \in Runs /\ slotParked[r]
      BY <2>2, TypeFacts DEF Claimed, Unparks, StillParked
    <3>2. \A q \in Runs : q # r => held'[q] = held[q] /\ slotParked'[q] = slotParked[q]
      BY <2>2, TypeFacts DEF Claimed, Unparks
    <3>3. \A u \in Threads : Wants(u) => Target(u) # r
      BY <3>1, WorkEach DEF WorkAt
    <3>4. QED
      BY <2>1, <3>1, <3>2, <3>3, WorkLeaves
  <2>3. QED
    BY <1>2, <2>1, <2>2, ClaimedUnpark, WorkSame DEF slots
<1>3. CASE StartQueued(t)
  <2>1. PICK r \in Runs : r = Head(queued) /\ pc[r] = "queued"
    BY <1>3, QueueHead DEF StartQueued, CanStart
  <2>2. /\ held' = [held EXCEPT ![r] = TRUE] /\ Goto(r, "work") /\ UNCHANGED <<slotParked, task>>
        /\ r \in Threads
    BY <1>3, <2>1 DEF StartQueued, Threads
  <2>3. ~slotParked[r]
    BY <2>1 DEF Claimed, RunsOK, Clean
  <2>4. pc'[r] = "work" /\ held'[r] /\ \A u \in Threads \ {r} : pc'[u] = pc[u]
    BY <2>1, <2>2, TypeFacts DEF Claimed, Goto
  <2>5. WorkAt(r)'
    <3>1. Target(r)' = r /\ ~slotParked'[r]
      BY <2>1, <2>2, <2>3 DEF Target
    <3>2. QED
      BY <2>4, <3>1 DEF WorkAt
  <2>6. \A q \in Runs : held[q] => held'[q]
    BY <2>2, TypeFacts DEF Claimed
  <2>7. QED
    <3>1. \A u \in Threads : pc'[u] = pc[u] \/ u = r
      BY <2>4
    <3>2. \A u \in Threads : pc'[u] = pc[u] \/ WorkAt(u)'
      BY <2>5, <3>1
    <3>3. \A q \in Runs : slotParked'[q] => slotParked[q]
      BY <2>2
    <3>4. QED
      BY <2>2, <2>6, <3>2, <3>3, WorkGoesOn
<1>4. CASE DropUnclaimed(t)
  <2>1. queued # <<>> /\ Goto(Head(queued), "done") /\ UNCHANGED <<task, held, slotParked>>
    BY <1>4 DEF DropUnclaimed, CanStart, slots
  <2>2. Head(queued) \in Threads
    BY <2>1, QueueHead DEF Threads
  <2>3. QED
    BY <2>1, <2>2, WorkWalk
<1>5. QED
  BY <1>1, <1>2, <1>3, <1>4 DEF Scheduler

\* Reserve has seen the slot, and it is parked no longer: refresh will leave it alone.
LEMMA ReserveUnparks ==
    ASSUME Claimed, NEW r \in Runs, ReserveSlot(r)
    PROVE  ~slotParked'[r] /\ \A q \in Runs : slotParked'[q] => slotParked[q]
  BY TypeFacts DEF ReserveSlot, Claimed, RunsOK

\* Acquire's goroutines, when they go on without a flight to end.
LEMMA WorkAcquires ==
    ASSUME Claimed, WorkOK, NEW t \in Threads, pc[t] \in AcquirePlaces, NEW place, Goto(t, place), UNCHANGED task,
           \A q \in Runs : (held[q] => held'[q]) /\ (slotParked'[q] => slotParked[q]),
           place \in {"work", "agent", "count", "land"} => held'[Target(t)],
           ~slotParked'[Target(t)]
    PROVE  WorkOK'
<1>1. pc'[t] = place /\ \A u \in Threads \ {t} : pc'[u] = pc[u]
  BY TypeFacts DEF Claimed, Goto
<1>2. Target(t)' = Target(t)
  BY DEF Target
<1>3. WorkAt(t)'
  BY <1>1, <1>2 DEF WorkAt, Wants, Needs
<1>4. QED
  BY <1>1, <1>3, WorkGoesOn

LEMMA WorkWaiting == ASSUME Claimed, WorkOK, NEW t \in Threads, Waiting(t) PROVE WorkOK'
<1> DEFINE r == Target(t)
<1>1. pc[t] \in AcquirePlaces
  BY DEF Waiting, Again, AcquireReserve, Take, SetHeld, CountResumed, CancelWait, Land, CancelJoin, At, AcquirePlaces
<1>2. r \in Runs /\ r = Target(t)
  BY <1>1, Acquirer
<1>3. WorkAt(t)
  BY WorkEach
<1> HIDE DEF r
<1>4. CASE Again(t)
  <2>1. Goto(t, "resv") /\ UNCHANGED <<task, held, slotParked>>
    BY <1>4 DEF Again, slots
  <2>2. QED
    BY <2>1, WorkWalk
<1>5. CASE CountResumed(t)
  <2>1. pc[t] = "count" /\ Goto(t, "land") /\ UNCHANGED <<task, held, slotParked>>
    BY <1>5 DEF CountResumed, At, slots
  <2>2. held[r] /\ ~slotParked[r]
    BY <1>2, <1>3, <2>1 DEF WorkAt, Wants, Needs
  <2>3. QED
    BY <1>1, <1>2, <2>1, <2>2, WorkAcquires
<1>6. CASE AcquireReserve(t)
  <2>1. ReserveSlot(r) /\ Goto(t, "take") /\ UNCHANGED <<task, held>>
    BY <1>2, <1>6 DEF AcquireReserve
  <2>2. ~slotParked'[r] /\ \A q \in Runs : slotParked'[q] => slotParked[q]
    BY <1>2, <2>1, ReserveUnparks
  <2>3. QED
    BY <1>1, <1>2, <2>1, <2>2, WorkAcquires
<1>7. CASE Take(t)
  <2>1. pc[t] = "take" /\ UNCHANGED <<task, held, slotParked>>
    BY <1>7 DEF Take, At, slots
  <2>2. ~slotParked[r]
    BY <1>2, <1>3, <2>1 DEF WorkAt, Wants, Needs
  <2>3. PICK place \in {Working(t), "join", "acq", "wait"} : Goto(t, place) /\ (place = Working(t) => held[r])
    BY <1>2, <1>7 DEF Take, Working
  <2>4. QED
    BY <1>1, <1>2, <2>1, <2>2, <2>3, WorkAcquires
<1>8. CASE SetHeld(t)
  <2>1. /\ waiter[r] = "granted" /\ held' = [held EXCEPT ![r] = TRUE] /\ UNCHANGED <<task, slotParked>>
        /\ Goto(t, AfterGrant(r))
    BY <1>2, <1>8 DEF SetHeld
  <2>2. held'[r] /\ ~slotParked[r] /\ \A q \in Runs : held[q] => held'[q]
    BY <1>2, <2>1, TypeFacts DEF Claimed, ClaimsOK, RunsOK
  <2>3. QED
    BY <1>1, <1>2, <2>1, <2>2, WorkAcquires
<1>9. CASE CancelWait(t)
  <2>1. Goto(t, "drop") /\ UNCHANGED <<task, held, slotParked>>
    BY <1>9 DEF CancelWait, slots
  <2>2. QED
    BY <2>1, WorkWalk
<1>10. CASE CancelJoin(t)
  <2>1. PICK place \in {"stop", "idle"} : Goto(t, place)
    BY <1>10 DEF CancelJoin, Failing
  <2>2. UNCHANGED <<held, slotParked>> /\ \A h \in Helpers \ {t} : task'[h] = task[h]
    BY <1>10, TypeFacts DEF CancelJoin, slots, End, Claimed
  <2>3. QED
    BY <2>1, <2>2, WorkWalk
<1>11. CASE Land(t)
  <2>1. UNCHANGED <<held, slotParked>> /\ \A h \in Helpers \ {t} : task'[h] = task[h]
    BY <1>11, TypeFacts DEF Land, slots, End, Claimed
  <2>2. \A u \in Threads : pc'[u] = IF u = t THEN IF pc[t] = "land" THEN Working(t) ELSE Failing(t)
                                    ELSE IF pc[u] = "join" /\ Target(u) = r THEN "acq" ELSE pc[u]
    BY <1>2, <1>11 DEF Land
  <2>3. WorkAt(t)'
    <3>1. CASE pc[t] = "land"
      <4>1. held[r] /\ ~slotParked[r]
        BY <1>2, <1>3, <3>1 DEF WorkAt, Wants, Needs
      <4>2. UNCHANGED task
        BY <1>11, <3>1 DEF Land
      <4>3. Target(t)' = r
        BY <1>2, <4>2 DEF Target
      <4>4. QED
        BY <2>1, <4>1, <4>3 DEF WorkAt
    <3>2. CASE pc[t] # "land"
      <4>1. pc'[t] \in {"stop", "idle"}
        BY <2>2, <3>2 DEF Failing
      <4>2. QED
        BY <4>1 DEF WorkAt, Wants, Needs
    <3>3. QED
      BY <3>1, <3>2
  <2>4. \A u \in Threads : u # t => pc'[u] = pc[u] \/ WorkAt(u)'
    BY <2>2 DEF WorkAt, Wants, Needs
  <2>5. QED
    BY <2>1, <2>3, <2>4, WorkGoesOn
<1>12. QED
  BY <1>4, <1>5, <1>6, <1>7, <1>8, <1>9, <1>10, <1>11 DEF Waiting

LEMMA WorkHandler == ASSUME Claimed, WorkOK, NEW h \in Helpers, Handler(h) \/ Agent(h) PROVE WorkOK'
<1>1. h \in Threads
  BY DEF Threads
<1>2. CASE (\E r \in Runs : Admit(h, r) \/ Respond(h, r) \/ RunAgent(h, r)) \/ Admitted(h) \/ AgentDone(h) \/ Answer(h)
  <2>1. PICK place \in {"try", "answer", "resv", "idle"} : Goto(h, place)
    BY <1>2 DEF Admit, Respond, RunAgent, Admitted, AgentDone, Answer
  <2>2. \A g \in Helpers \ {h} : task'[g] = task[g]
    BY <1>2, TypeFacts DEF Admit, Respond, RunAgent, Begin, Admitted, AgentDone, Answer, End, Claimed
  <2>3. UNCHANGED held /\ \A q \in Runs : slotParked'[q] => slotParked[q]
    <3>1. CASE Answer(h)
      <4>1. pc[h] = "answer" /\ ReserveSlot(task[h].run) /\ UNCHANGED held
        BY <3>1 DEF Answer, At
      <4>2. task[h].kind = "respond"
        BY <4>1 DEF Claimed, TypeInv, PlacesOK, HelperPlace, AcquirePlaces
      <4>3. QED
        BY <4>1, <4>2, HelperJobs, ReserveUnparks
    <3>2. CASE UNCHANGED <<held, slotParked>>
      BY <3>2
    <3>3. QED
      BY <1>2, <3>1, <3>2 DEF Admit, Respond, RunAgent, Admitted, AgentDone, slots
  <2>4. QED
    BY <1>1, <2>1, <2>2, <2>3, WorkWalk
<1>3. CASE RetryClaim(h)
  BY <1>3, WorkSame DEF RetryClaim, slots
<1>4. CASE Enqueue(h)
  <2>1. UNCHANGED <<task, held, slotParked>>
    BY <1>4 DEF Enqueue, slots
  <2>2. PICK place \in {"queued", "done"} : pc' = [pc EXCEPT ![h] = "admitted", ![task[h].run] = place]
    BY <1>4 DEF Enqueue
  <2>3. \A u \in Threads : pc'[u] = pc[u] \/ pc'[u] \in {"admitted", "queued", "done"}
    BY <2>2, TypeFacts DEF Claimed
  <2>4. \A u \in Threads : pc'[u] = pc[u] \/ WorkAt(u)'
    BY <2>3 DEF WorkAt, Wants, Needs
  <2>5. QED
    BY <2>1, <2>4, WorkGoesOn
<1>5. CASE TryAdmit(h)
  <2>1. pc[h] = "try" /\ UNCHANGED slotParked
    BY <1>5 DEF TryAdmit, At
  <2>2. PICK r \in Runs : r = task[h].run /\ pc[r] = "new"
    BY <2>1, HelperJobs
  <2>3. \/ Goto(h, "enq") /\ UNCHANGED <<held, task>>
        \/ pc' = [pc EXCEPT ![h] = "idle", ![r] = "work"] /\ held' = [held EXCEPT ![r] = TRUE] /\ End(h)
    BY <1>5, <2>2 DEF TryAdmit, Goto
  <2>4. CASE Goto(h, "enq") /\ UNCHANGED <<held, task>>
    BY <1>1, <2>1, <2>4, WorkWalk
  <2>5. CASE pc' = [pc EXCEPT ![h] = "idle", ![r] = "work"] /\ held' = [held EXCEPT ![r] = TRUE] /\ End(h)
    <3>1. r \in Threads /\ r # h /\ r \notin Helpers /\ ~slotParked[r]
      BY <2>2, ThreadsAssumption DEF Threads, Claimed, RunsOK, Clean
    <3>2. /\ pc'[r] = "work" /\ pc'[h] = "idle" /\ \A u \in Threads : u \notin {r, h} => pc'[u] = pc[u]
          /\ \A g \in Helpers : g # h => task'[g] = task[g]
          /\ held'[r] /\ \A q \in Runs : held[q] => held'[q]
      BY <1>1, <2>2, <2>5, <3>1, TypeFacts DEF Claimed, End
    <3>3. WorkAt(r)'
      <4>1. Target(r)' = r /\ ~slotParked'[r]
        BY <2>1, <2>2, <3>1 DEF Target
      <4>2. QED
        BY <3>2, <4>1 DEF WorkAt
    <3>4. WorkAt(h)'
      BY <3>2 DEF WorkAt, Wants, Needs
    <3>5. QED
      BY <2>1, <3>2, <3>3, <3>4, WorkGoesOn
  <2>6. QED
    BY <2>3, <2>4, <2>5
<1>6. QED
  BY <1>2, <1>3, <1>4, <1>5 DEF Handler, Agent

LEMMA WorkInit == Init => WorkOK
<1> SUFFICES ASSUME Init PROVE WorkOK
  OBVIOUS
<1>1. \A t \in Threads : pc[t] \in {"idle", "parked", "queued", "new"}
  BY DEF Init
<1>2. QED
  BY <1>1 DEF WorkOK

LEMMA WorkNext == ASSUME Claimed, WorkOK, [Next]_vars PROVE WorkOK'
<1>1. CASE UNCHANGED vars \/ EditConfig \/ Tick \/ ReleaseQueue
  <2>1. UNCHANGED <<pc, task, held, slotParked>>
    BY <1>1 DEF vars, EditConfig, Tick, ReleaseQueue, slots
  <2>2. QED
    BY <2>1, WorkSame
<1>2. \A h \in Handlers \cup Agents : h \in Helpers
  BY DEF Helpers
<1>3. QED
  BY <1>1, <1>2, WorkScheduler, WorkWaiting, WorkRun, WorkHandler DEF Next

----------------------------------------------------------------------------
(***************************************************************************)
(* The limit, until it is edited: a slot is given out only if one is free, *)
(* so active stays within the limit, and with it the runs that hold one.   *)
(***************************************************************************)
LEMMA LimitKept ==
    ASSUME TypeOK, LimitOK, UNCHANGED config, UNCHANGED limits \/ (max' = cfg.max /\ hold' = cfg.hold),
           NEW d \in Nat, active' = active - d \/ (Capacity /\ active' = active + 1)
    PROVE  LimitOK'
<1>1. max \in Nat /\ active \in Int
  BY LimitsAssumption DEF TypeOK, LimitsType, CountsType
<1>2. edits' = 0 => max' = max /\ hold' = hold /\ cfg' = cfg
  BY DEF LimitOK, config, limits
<1>3. edits' = 0 => edits = 0
  BY DEF config
<1>4. QED
  BY <1>1, <1>2, <1>3 DEF LimitOK, Capacity

LEMMA LimitSame ==
    ASSUME TypeOK, LimitOK, UNCHANGED config, UNCHANGED limits \/ (max' = cfg.max /\ hold' = cfg.hold), UNCHANGED active
    PROVE  LimitOK'
<1>1. active' = active - 0 /\ 0 \in Nat
  BY DEF TypeOK, CountsType
<1>2. QED
  BY <1>1, LimitKept

\* Who may give a slot out, and how.
LEMMA LimitGives ==
    ASSUME TypeOK, LimitOK, NEW t,
           TryAdmit(t) \/ StartQueued(t) \/ DropUnclaimed(t) \/ GrantResumed(t) \/ Answer(t) \/ AcquireReserve(t)
    PROVE  LimitOK'
<1>1. UNCHANGED <<config, limits>>
  BY DEF TryAdmit, StartQueued, DropUnclaimed, GrantResumed, Answer, AcquireReserve
<1>2. UNCHANGED active \/ (Capacity /\ active' = active + 1)
  BY DEF TryAdmit, StartQueued, DropUnclaimed, CanStart, GrantResumed, Answer, AcquireReserve, ReserveSlot
<1>3. 0 \in Nat
  OBVIOUS
<1>4. QED
  BY <1>1, <1>2, <1>3, LimitSame, LimitKept

LEMMA LimitNext == ASSUME TypeOK, LimitOK, [Next]_vars PROVE LimitOK'
<1>1. ASSUME NEW t, ReleaseParked(t) \/ Dispatch(t) \/ ClaimFails(t) \/ DispatchDone(t) PROVE LimitOK'
  BY <1>1, LimitSame DEF ReleaseParked, Dispatch, ClaimFails, DispatchDone, Refresh, counts
<1>2. ASSUME NEW t, Settle(t) PROVE LimitOK'
  <2>1. PICK d \in {0, 1, 2} : active' = active - d
    BY <1>2 DEF Settle, Granted, TypeOK, CountsType
  <2>2. UNCHANGED <<config, limits>> /\ d \in Nat
    BY <1>2 DEF Settle
  <2>3. QED
    BY <2>1, <2>2, LimitKept
<1>3. ASSUME NEW t, CancelWait(t) PROVE LimitOK'
  <2>1. PICK d \in {0, 1} : active' = active - d
    BY <1>3 DEF CancelWait, Granted
  <2>2. UNCHANGED <<config, limits>> /\ d \in Nat
    BY <1>3 DEF CancelWait
  <2>3. QED
    BY <2>1, <2>2, LimitKept
<1>4. ASSUME NEW t, Again(t) \/ Take(t) \/ SetHeld(t) \/ CountResumed(t) \/ Land(t) \/ CancelJoin(t) PROVE LimitOK'
  BY <1>4, LimitSame DEF Again, Take, SetHeld, CountResumed, Land, CancelJoin, Refresh, counts
<1>5. ASSUME NEW r, RunStep(r) PROVE LimitOK'
  BY <1>5, LimitSame DEF RunStep, Park, YieldAtGate, PollCI, Mark, Resume, Finish, CancelQueued, Refresh, counts
<1>6. ASSUME NEW h, NEW r, Admit(h, r) \/ Respond(h, r) \/ RunAgent(h, r) PROVE LimitOK'
  BY <1>6, LimitSame DEF Admit, Respond, RunAgent, Refresh, counts
<1>7. ASSUME NEW h, RetryClaim(h) \/ Enqueue(h) \/ Admitted(h) \/ AgentDone(h) PROVE LimitOK'
  BY <1>7, LimitSame DEF RetryClaim, Enqueue, Admitted, AgentDone, counts
<1>8. CASE UNCHANGED vars \/ Tick \/ ReleaseQueue
  BY <1>8, LimitSame DEF vars, Tick, ReleaseQueue, counts
<1>9. CASE EditConfig
  <2>1. edits \in Nat /\ edits' = edits + 1
    BY <1>9 DEF EditConfig, TypeOK, ConfigType
  <2>2. QED
    BY <2>1 DEF LimitOK
<1>10. QED
  BY <1>1, <1>2, <1>3, <1>4, <1>5, <1>6, <1>7, <1>8, <1>9, LimitGives
     DEF Next, Scheduler, Waiting, Handler, Agent

LEMMA LimitInit == Init => LimitOK
<1> SUFFICES ASSUME Init PROVE LimitOK
  OBVIOUS
<1>1. cfg.max \in Nat
  BY LimitsAssumption DEF Init
<1>2. QED
  BY <1>1 DEF Init, LimitOK

\* Why no work is done without a slot, and why the holders are within the limit.
LEMMA WorkLimited == Claimed /\ SlotsAccounted /\ WorkOK /\ LimitOK => WorkWithinLimit
<1> SUFFICES ASSUME Claimed, SlotsAccounted, WorkOK, LimitOK PROVE WorkWithinLimit
  OBVIOUS
<1>1. WorkHoldsSlot
  <2>1. \A r \in Runs : r \in Threads /\ (pc[r] = "work" => held[r])
    BY DEF WorkOK, Target, Threads
  <2>2. \A h \in Helpers : h \in Threads /\ (pc[h] = "agent" => held[task[h].run])
    BY ThreadsAssumption DEF WorkOK, Target, Threads
  <2>3. QED
    BY <2>1, <2>2 DEF WorkHoldsSlot, At
<1>2. HoldersWithinLimit
  <2>1. Cardinality(Holders) <= active
    BY CountUsed DEF SlotsAccounted
  <2>2. max \in Nat /\ active \in Int /\ Cardinality(Holders) \in Nat
    BY CountUsed, LimitsAssumption DEF Claimed, TypeInv, TypeOK, LimitsType, CountsType
  <2>3. edits = 0 => max = 0 \/ Cardinality(Holders) <= max
    BY <2>1, <2>2 DEF LimitOK
  <2>4. QED
    BY <2>3 DEF HoldersWithinLimit, Holders
<1>3. QED
  BY <1>1, <1>2 DEF WorkWithinLimit

\* A run that executes pipeline work, and every agent of it, holds the run's slot, even
\* while the limit watcher gives parked slots back; and until daemon.max_concurrent_runs
\* is edited no more runs hold a slot than it allows.
THEOREM WorkIsLimited == Spec => []WorkWithinLimit
<1>1. Claimed => TypeOK
  BY DEF Claimed, TypeInv
<1>2. QED
  BY <1>1, ClaimedInit, ClaimedNext, AccountsInit, AccountsNext, WorkInit, WorkNext, LimitInit, LimitNext, WorkLimited,
     PTL DEF Spec

----------------------------------------------------------------------------
(***************************************************************************)
(* Wakeups, until the limits are edited.  No parked slot is taken then, so *)
(* a function that frees a slot has a dispatch to do after it; and while   *)
(* none has, no step makes a run startable that was not.                   *)
(***************************************************************************)
Waking(t) == InLine(sub[t]) \cap {"disp", "loop"} # {}
Startable == Capacity /\ (prio # <<>> \/ (queued # <<>> /\ ~retrying /\ ~startHold))
Quiet(t)  == "unpark" \notin InLine(sub[t]) /\ (Due(t) => "disp" \in InLine(Tail(sub[t])))
Wakes     == (\A t \in Threads : Quiet(t)) /\ (Startable => \E t \in Threads : Waking(t))
Awake     == WakeupsOK /\ NoLostWakeup

LEMMA WakesSays == Awake <=> (edits = 0 => Wakes)
<1>1. \A t \in Threads : OwesDispatch(t) <=> Waking(t)
  BY DEF OwesDispatch, Waking, InLine
<1>2. WakeupsOK <=> (edits = 0 => \A t \in Threads : Quiet(t))
  BY DEF WakeupsOK, Quiet, Due
<1>3. NoLostWakeup <=> (edits = 0 => (Startable => \E t \in Threads : Waking(t)))
  BY <1>1 DEF NoLostWakeup, Startable
<1>4. QED
  BY <1>2, <1>3 DEF Awake, Wakes
LEMMA WakesSaysAfter == (Awake <=> (edits = 0 => Wakes))'
  BY WakesSays, PTL

\* What is on the stack of t after it has called, or returned.
LEMMA StackAfter ==
    ASSUME StacksType, NEW t \in Threads, NEW fs \in Seq(Frames)
    PROVE  /\ Run(t, fs) => InLine(sub'[t]) = InLine(fs) \cup InLine(sub[t])
           /\ Leave(t, fs) /\ sub[t] # <<>> =>
                InLine(sub'[t]) = InLine(fs) \cup InLine(Tail(sub[t])) /\ InLine(Tail(sub[t])) \subseteq InLine(sub[t])
           /\ Run(t, fs) \/ Leave(t, fs) => \A u \in Threads \ {t} : sub'[u] = sub[u]
<1>1. sub[t] \in Seq(Frames)
  BY DEF StacksType
<1>2. Run(t, fs) => InLine(sub'[t]) = InLine(fs) \cup InLine(sub[t])
  BY <1>1, Together DEF Run, StacksType
<1>3. ASSUME Leave(t, fs), sub[t] # <<>>
      PROVE  InLine(sub'[t]) = InLine(fs) \cup InLine(Tail(sub[t])) /\ InLine(Tail(sub[t])) \subseteq InLine(sub[t])
  <2> DEFINE u == Tail(sub[t])
  <2>1. u \in Seq(Frames) /\ InLine(u) \subseteq InLine(sub[t])
    BY <1>1, <1>3, HeadTailProperties, Headed
  <2>2. sub'[t] = fs \o u
    BY <1>3 DEF Leave, StacksType
  <2> HIDE DEF u
  <2>3. InLine(sub'[t]) = InLine(fs) \cup InLine(u)
    BY <2>1, <2>2, Together
  <2>4. QED
    BY <2>1, <2>3 DEF u
<1>4. Run(t, fs) \/ Leave(t, fs) => \A u \in Threads \ {t} : sub'[u] = sub[u]
  BY DEF Run, Leave, StacksType
<1>5. QED
  BY <1>2, <1>3, <1>4

\* A step that leaves every stack as it is, or calls functions that free no slot.
LEMMA WakesOn ==
    ASSUME Claimed, edits = 0 => Wakes, edits' = 0 => edits = 0, Steady,
           UNCHANGED sub \/ \E t \in Threads, fs \in {<<>>, <<"disp">>} : Run(t, fs) /\ ~Due(t),
           edits' = 0 => (Startable' => Startable) \/ \E t \in Threads : Waking(t)'
    PROVE  edits' = 0 => Wakes'
<1> SUFFICES ASSUME edits' = 0 PROVE Wakes'
  OBVIOUS
<1>1. \A u \in Threads : Quiet(u)
  BY DEF Wakes
<1>2. CASE UNCHANGED sub
  BY <1>1, <1>2 DEF Wakes, Quiet, Waking, Due, In
<1>3. ASSUME NEW t \in Threads, NEW fs \in {<<>>, <<"disp">>}, Run(t, fs), ~Due(t) PROVE Wakes'
  <2>1. fs \in Seq(Frames) /\ InLine(fs) \subseteq {"disp"}
    <3>1. CASE fs = <<>>
      <4>1. <<>> \in Seq(Frames) /\ InLine(<<>>) = {}
        BY CalmFrames, CallFrames
      <4>2. QED
        BY <3>1, <4>1, Zenon
    <3>2. CASE fs = <<"disp">>
      <4>1. "disp" \in Frames
        BY DEF Frames
      <4>2. <<"disp">> \in Seq(Frames) /\ InLine(<<"disp">>) = {"disp"}
        BY <4>1, CalmFrames, CallFrames
      <4>3. QED
        BY <3>2, <4>2, Zenon
    <3>3. QED
      BY <3>1, <3>2
  <2>2. InLine(sub'[t]) = InLine(fs) \cup InLine(sub[t]) /\ \A u \in Threads \ {t} : sub'[u] = sub[u]
    BY <1>3, <2>1, StackAfter, TypeFacts DEF Claimed
  <2>3. Quiet(t)'
    BY <1>1, <1>3, <2>1, <2>2 DEF Quiet, Steady
  <2>4. \A u \in Threads : u # t => Quiet(u)'
    BY <1>1, <2>2 DEF Quiet, Due, In
  <2>5. \A u \in Threads : Waking(u) => Waking(u)'
    BY <2>2 DEF Waking
  <2>6. QED
    BY <2>3, <2>4, <2>5 DEF Wakes
<1>4. QED
  BY <1>2, <1>3

\* A step that calls a release, or that returns to a dispatch, or from one.
LEMMA WakesRelease ==
    ASSUME Claimed, edits = 0 => Wakes, edits' = 0 => edits = 0, NEW t \in Threads, Enters(t),
           Run(t, <<"settle", "disp">>)
    PROVE  edits' = 0 => Wakes'
<1> SUFFICES ASSUME edits' = 0 PROVE Wakes'
  OBVIOUS
<1>1. \A u \in Threads : Quiet(u)
  BY DEF Wakes
<1> DEFINE fs == <<"settle", "disp">>
<1>2. fs \in Seq(Frames) /\ InLine(fs) = {"settle", "disp"}
  BY CallFrames DEF Frames
<1>3. InLine(sub'[t]) = InLine(fs) \cup InLine(sub[t]) /\ \A u \in Threads \ {t} : sub'[u] = sub[u]
  BY <1>2, StackAfter, TypeFacts DEF Claimed
<1> HIDE DEF fs
<1>4. sub'[t] \in Seq(Frames) /\ sub'[t] # <<>> /\ Head(sub'[t]) = "settle"
  <2>1. sub'[t] = fs \o sub[t] /\ sub[t] \in Seq(Frames)
    BY TypeFacts DEF Claimed, StacksType, Run, fs
  <2>2. sub'[t] \in Seq(Frames)
    BY <1>2, <2>1
  <2>3. QED
    BY <2>2 DEF Enters, Due, In
<1>5. "disp" \in InLine(Tail(sub'[t]))
  <2> DEFINE s == sub'[t]
  <2>1. s \in Seq(Frames) /\ s # <<>> /\ Head(s) = "settle" /\ "disp" \in InLine(s)
    BY <1>2, <1>3, <1>4
  <2> HIDE DEF s
  <2>2. InLine(s) = {Head(s)} \cup InLine(Tail(s))
    BY <2>1, Headed
  <2>3. QED
    BY <2>1, <2>2 DEF s
<1>6. Quiet(t)'
  BY <1>1, <1>2, <1>3, <1>5 DEF Quiet
<1>7. \A u \in Threads : u # t => Quiet(u)'
  BY <1>1, <1>3 DEF Quiet, Due, In
<1>8. Waking(t)'
  BY <1>2, <1>3 DEF Waking
<1>9. QED
  BY <1>6, <1>7, <1>8 DEF Wakes

LEMMA WakesReturn ==
    ASSUME Claimed, edits = 0 => Wakes, edits' = 0 => edits = 0, NEW t \in Threads, ~Due(t)',
           sub[t] # <<>>, NEW fs \in {<<>>, <<"loop">>}, Leave(t, fs),
           edits' = 0 => ~Startable' \/ \E u \in Threads : Waking(u)'
    PROVE  edits' = 0 => Wakes'
<1> SUFFICES ASSUME edits' = 0 PROVE Wakes'
  OBVIOUS
<1>1. \A u \in Threads : Quiet(u)
  BY DEF Wakes
<1>2. fs \in Seq(Frames) /\ InLine(fs) \subseteq {"loop"}
  <2>1. "loop" \in Frames
    BY DEF Frames
  <2>2. InLine(<<"loop">>) = {"loop"} /\ InLine(<<>>) = {}
    BY <2>1, CallFrames
  <2>3. QED
    BY <2>1, <2>2, FramesType
<1>3. /\ InLine(sub'[t]) = InLine(fs) \cup InLine(Tail(sub[t])) /\ InLine(Tail(sub[t])) \subseteq InLine(sub[t])
      /\ \A u \in Threads \ {t} : sub'[u] = sub[u]
  BY <1>2, StackAfter, TypeFacts DEF Claimed
<1>4. Quiet(t)'
  BY <1>1, <1>2, <1>3 DEF Quiet
<1>5. \A u \in Threads : u # t => Quiet(u)'
  BY <1>1, <1>3 DEF Quiet, Due, In
<1>6. QED
  BY <1>4, <1>5 DEF Wakes

LEMMA WakesCalled ==
    ASSUME Claimed, edits = 0 => Wakes, edits' = 0 => edits = 0, Steady, NEW t \in Threads, ~Due(t), Run(t, <<"disp">>)
    PROVE  edits' = 0 => Wakes'
<1>1. <<"disp">> \in Seq(Frames) /\ InLine(<<"disp">>) = {"disp"}
  BY CalmFrames, CallFrames DEF Frames
<1>2. InLine(sub'[t]) = {"disp"} \cup InLine(sub[t])
  BY <1>1, StackAfter, TypeFacts DEF Claimed
<1>3. Waking(t)'
  BY <1>2 DEF Waking
<1>4. QED
  BY <1>3, WakesOn

\* With the limits as they were, refresh applies nothing and takes no parked slot.
LEMMA CalmRefresh ==
    ASSUME LimitOK, edits = 0
    PROVE  (\A fs : AfterRefresh(fs) = fs) /\ cfg.max = max
  BY DEF LimitOK, AfterRefresh, Releasing

LEMMA StartableSame ==
    ASSUME UNCHANGED <<prio, queued, retrying, startHold, active>>, max' = max
    PROVE  Startable' => Startable
  BY DEF Startable, Capacity

\* Steps that only refresh, or do nothing to the counters and the lines at all.
LEMMA WakesRefresh ==
    ASSUME Claimed, LimitOK, edits = 0 => Wakes, UNCHANGED edits, Steady,
           UNCHANGED <<lines, switches, active>>,
           \/ UNCHANGED <<sub, max>>
           \/ max' = cfg.max /\ \E t \in Threads : sub[t] = <<>> /\ Run(t, AfterRefresh(<<>>))
    PROVE  edits' = 0 => Wakes'
<1> SUFFICES ASSUME edits' = 0 PROVE Wakes'
  OBVIOUS
<1>1. AfterRefresh(<<>>) = <<>> /\ cfg.max = max
  BY CalmRefresh
<1>2. max' = max /\ (UNCHANGED sub \/ \E t \in Threads, fs \in {<<>>, <<"disp">>} : Run(t, fs) /\ ~Due(t))
  BY <1>1 DEF Due, In
<1>3. Startable' => Startable
  BY <1>2, StartableSame DEF lines, switches
<1>4. QED
  BY <1>2, <1>3, WakesOn

LEMMA WakesScheduler ==
    ASSUME Claimed, LimitOK, edits = 0 => Wakes, NEW t \in Threads, Scheduler(t)
    PROVE  edits' = 0 => Wakes'
<1> SUFFICES ASSUME edits' = 0 PROVE Wakes'
  OBVIOUS
<1>1. edits' = edits /\ edits = 0
  BY DEF Scheduler, ReleaseParked, Settle, Dispatch, GrantResumed, StartQueued, DropUnclaimed, ClaimFails, DispatchDone, config
<1>2. \A u \in Threads : Quiet(u)
  BY <1>1 DEF Wakes
<1>3. sub[t] # <<>> => Head(sub[t]) \in InLine(sub[t])
  BY Headed, TypeFacts DEF Claimed, StacksType
<1>4. CASE ReleaseParked(t)
  BY <1>2, <1>3, <1>4 DEF ReleaseParked, In, Quiet
<1>5. CASE Settle(t)
  <2>1. Leave(t, <<>>) /\ sub[t] # <<>> /\ Due(t)
    BY <1>5 DEF Settle, In, Due
  <2>2. ~Due(t)'
    BY <1>5, ClaimedSettle DEF Exits
  <2>3. InLine(sub'[t]) = InLine(<<>>) \cup InLine(Tail(sub[t]))
    BY <2>1, CalmFrames, StackAfter, TypeFacts DEF Claimed
  <2>4. Waking(t)'
    BY <1>2, <2>1, <2>3 DEF Quiet, Waking
  <2>5. QED
    BY <1>1, <2>1, <2>2, <2>4, WakesReturn
<1>6. CASE Dispatch(t)
  <2>1. Leave(t, <<"loop">>) /\ sub[t] # <<>> /\ ~Due(t)
    BY <1>1, <1>6, CalmRefresh DEF Dispatch, In, Due
  <2>2. ~Due(t)'
    BY <1>6, <2>1, ClaimedDispatch DEF Steady
  <2>3. <<"loop">> \in Seq(Frames) /\ InLine(<<"loop">>) = {"loop"}
    <3>1. "loop" \in Frames
      BY DEF Frames
    <3>2. QED
      BY <3>1, CallFrames, FramesType
  <2>4. Waking(t)'
    <3>1. InLine(sub'[t]) = InLine(<<"loop">>) \cup InLine(Tail(sub[t]))
      BY <2>1, <2>3, StackAfter, TypeFacts DEF Claimed
    <3>2. QED
      BY <2>3, <3>1 DEF Waking
  <2>5. QED
    BY <1>1, <2>1, <2>2, <2>4, WakesReturn
<1>7. CASE GrantResumed(t) \/ StartQueued(t)
  <2>1. UNCHANGED sub /\ In(t, "loop")
    BY <1>7 DEF GrantResumed, StartQueued, CanStart
  <2>2. Waking(t)'
    BY <1>3, <2>1 DEF Waking, In
  <2>3. Steady
    BY <1>7, ClaimedGrant, ClaimedStart
  <2>4. QED
    BY <1>1, <2>1, <2>2, <2>3, WakesOn
<1>8. CASE DropUnclaimed(t)
  <2>1. Run(t, <<"settle", "disp">>) /\ Enters(t)
    BY <1>8, ClaimedStart DEF DropUnclaimed
  <2>2. QED
    BY <1>1, <2>1, WakesRelease
<1>9. CASE ClaimFails(t) \/ DispatchDone(t)
  <2>1. Leave(t, <<>>) /\ sub[t] # <<>> /\ ~Due(t)
    BY <1>9 DEF ClaimFails, DispatchDone, CanStart, In, Due
  <2>2. ~Due(t)'
    BY <1>9, <2>1, ClaimedDispatch DEF Steady
  <2>3. ~Startable'
    BY <1>9 DEF ClaimFails, DispatchDone, CanStart, Startable, Capacity, lines, counts, limits, switches
  <2>4. QED
    BY <1>1, <2>1, <2>2, <2>3, WakesReturn
<1>10. QED
  BY <1>4, <1>5, <1>6, <1>7, <1>8, <1>9 DEF Scheduler

\* Reserve takes a free slot, or leaves a resumed run in line only where none is free.
LEMMA WakesReserve ==
    ASSUME Claimed, edits = 0 => Wakes, UNCHANGED edits, Steady, NEW r, ReserveSlot(r),
           UNCHANGED <<max, queued, retrying, startHold, sub>>
    PROVE  edits' = 0 => Wakes'
<1>1. max \in Nat /\ active \in Int
  BY LimitsAssumption DEF Claimed, TypeInv, TypeOK, LimitsType, CountsType
<1>2. Startable' => Startable
  <2>1. CASE UNCHANGED <<prio, active>>
    BY <2>1 DEF Startable, Capacity
  <2>2. CASE Capacity /\ active' = active + 1 /\ prio' = prio
    BY <1>1, <2>2 DEF Startable, Capacity
  <2>3. CASE ~(Capacity /\ prio = <<>>) /\ active' = active
    BY <2>3 DEF Startable, Capacity
  <2>4. QED
    BY <2>1, <2>2, <2>3 DEF ReserveSlot
<1>3. QED
  BY <1>2, WakesOn

LEMMA WakesWaiting ==
    ASSUME Claimed, LimitOK, edits = 0 => Wakes, NEW t \in Threads, Waiting(t)
    PROVE  edits' = 0 => Wakes'
<1>1. UNCHANGED edits
  BY DEF Waiting, Again, AcquireReserve, Take, SetHeld, CountResumed, CancelWait, Land, CancelJoin, config
<1>2. Steady
  BY ClaimedAround, ClaimedAcquireReserve, ClaimedTake, ClaimedAnswered, ClaimedLand, ClaimedCancelJoin DEF Waiting
<1>3. CASE AcquireReserve(t)
  BY <1>1, <1>2, <1>3, WakesReserve DEF AcquireReserve, limits, switches
<1>4. CASE CancelWait(t)
  <2>1. sub[t] = <<>> /\ Run(t, <<"disp">>)
    BY <1>4 DEF CancelWait, At
  <2>2. ~Due(t)
    BY <2>1 DEF Due, In
  <2>3. QED
    BY <1>1, <1>2, <2>1, <2>2, WakesCalled
<1>5. CASE Again(t)
  BY <1>1, <1>2, <1>5, WakesRefresh DEF Again, At, Refresh, counts
<1>6. CASE Take(t) \/ SetHeld(t) \/ CountResumed(t) \/ Land(t) \/ CancelJoin(t)
  BY <1>1, <1>2, <1>6, WakesRefresh DEF Take, SetHeld, CountResumed, Land, CancelJoin, limits, counts
<1>7. QED
  BY <1>3, <1>4, <1>5, <1>6 DEF Waiting

LEMMA WakesBegin ==
    ASSUME Claimed, edits = 0 => Wakes, UNCHANGED edits, NEW r \in Runs, NEW yield \in BOOLEAN,
           BeginRelease(r, yield), sub[r] = <<>>, UNCHANGED <<max, lines, switches, active>>
    PROVE  edits' = 0 => Wakes'
<1>1. r \in Threads
  BY DEF Threads
<1>2. IF Frees(r, yield) THEN Enters(r) ELSE Steady
  BY ReleaseStacks, TypeFacts DEF Claimed
<1>3. CASE Frees(r, yield)
  <2>1. Run(r, <<"settle", "disp">>)
    BY <1>3, CallFrames DEF BeginRelease, Frees, ThenDispatch
  <2>2. QED
    BY <1>1, <1>2, <1>3, <2>1, WakesRelease
<1>4. CASE ~Frees(r, yield)
  <2>1. UNCHANGED sub
    BY <1>4 DEF BeginRelease, Frees
  <2>2. Startable' => Startable
    BY StartableSame DEF lines, switches
  <2>3. QED
    BY <1>2, <1>4, <2>1, <2>2, WakesOn
<1>5. QED
  BY <1>3, <1>4

LEMMA WakesRun ==
    ASSUME Claimed, LimitOK, edits = 0 => Wakes, NEW r \in Runs, RunStep(r)
    PROVE  edits' = 0 => Wakes'
<1>1. UNCHANGED edits /\ r \in Threads
  BY DEF RunStep, Park, YieldAtGate, PollCI, Mark, Resume, Finish, CancelQueued, config, Threads
<1>2. CASE Finish(r)
  <2>1. BeginRelease(r, FALSE) /\ sub[r] = <<>> /\ UNCHANGED <<max, lines, switches, active>>
    BY <1>2 DEF Finish, limits, counts
  <2>2. QED
    BY <1>1, <2>1, WakesBegin
<1>3. CASE Mark(r)
  <2>1. sub[r] = <<>> /\ UNCHANGED <<max, lines, switches, active>>
    BY <1>3 DEF Mark, At, limits, counts
  <2>2. CASE hold
    <3>1. Steady /\ UNCHANGED sub
      BY <1>3, <2>2, ClaimedMark DEF Mark
    <3>2. QED
      BY <1>1, <2>1, <3>1, WakesRefresh
  <2>3. CASE ~hold
    <3>1. BeginRelease(r, TRUE)
      BY <1>3, <2>3 DEF Mark
    <3>2. QED
      BY <1>1, <2>1, <3>1, WakesBegin
  <2>4. QED
    BY <2>2, <2>3
<1>4. CASE Park(r) \/ YieldAtGate(r) \/ PollCI(r) \/ Resume(r)
  <2>1. Steady
    BY <1>4, ClaimedWalk
  <2>2. UNCHANGED <<lines, switches, active>>
    BY <1>4 DEF Park, YieldAtGate, PollCI, Resume, counts
  <2>3. UNCHANGED <<sub, max>> \/ (max' = cfg.max /\ sub[r] = <<>> /\ Run(r, AfterRefresh(<<>>)))
    BY <1>4 DEF Park, YieldAtGate, PollCI, Resume, At, Refresh, limits
  <2>4. QED
    BY <1>1, <2>1, <2>2, <2>3, WakesRefresh
<1>5. CASE CancelQueued(r)
  <2>1. Steady /\ UNCHANGED <<sub, prio, retrying, startHold, active, max>> /\ queued' = Without(queued, r)
    BY <1>5, ClaimedCancelQueued DEF CancelQueued, switches, counts, limits
  <2>2. queued = <<>> => queued' = <<>>
    BY <2>1 DEF Without, Indices
  <2>3. Startable' => Startable
    BY <2>1, <2>2 DEF Startable, Capacity
  <2>4. QED
    BY <1>1, <2>1, <2>3, WakesOn
<1>6. QED
  BY <1>2, <1>3, <1>4, <1>5 DEF RunStep

LEMMA WakesHandler ==
    ASSUME Claimed, LimitOK, edits = 0 => Wakes, NEW h \in Helpers, Handler(h) \/ Agent(h)
    PROVE  edits' = 0 => Wakes'
<1>1. UNCHANGED edits /\ h \in Threads
  BY DEF Handler, Agent, Admit, Respond, RetryClaim, TryAdmit, Enqueue, Admitted, Answer, RunAgent, AgentDone, config, Threads
<1>2. CASE (\E r \in Runs : Admit(h, r) \/ Respond(h, r) \/ RunAgent(h, r)) \/ Admitted(h) \/ AgentDone(h)
  <2>1. Steady
    BY <1>2, ClaimedHelpers
  <2>2. UNCHANGED <<lines, switches, active>>
    BY <1>2 DEF Admit, Respond, RunAgent, Admitted, AgentDone, counts
  <2>3. UNCHANGED <<sub, max>> \/ (max' = cfg.max /\ sub[h] = <<>> /\ Run(h, AfterRefresh(<<>>)))
    BY <1>2 DEF Admit, Respond, RunAgent, Begin, Admitted, AgentDone, At, Refresh, limits
  <2>4. QED
    BY <1>1, <2>1, <2>2, <2>3, WakesRefresh
<1>3. CASE RetryClaim(h)
  <2>1. Steady /\ Run(h, <<"disp">>) /\ ~Due(h)
    BY <1>3, ClaimedDaemon DEF RetryClaim, At, Due, In
  <2>2. QED
    BY <1>1, <2>1, WakesCalled
<1>4. CASE Enqueue(h)
  <2>1. Steady /\ ~Due(h)
    BY <1>4, ClaimedEnqueue DEF Enqueue, At, Due, In
  <2>2. Run(h, <<"disp">>) \/ UNCHANGED <<sub, max, lines, switches, active>>
    BY <1>4 DEF Enqueue, lines, limits, counts
  <2>3. QED
    BY <1>1, <2>1, <2>2, WakesCalled, WakesRefresh
<1>5. CASE TryAdmit(h)
  <2>1. Steady /\ UNCHANGED <<sub, prio, queued, retrying, startHold, max>> /\ active' \in {active, active + 1}
    BY <1>5, ClaimedTryAdmit DEF TryAdmit, lines, switches, limits
  <2>2. Startable' => Startable
    BY <2>1, LimitsAssumption DEF Startable, Capacity, Claimed, TypeInv, TypeOK, LimitsType, CountsType
  <2>3. QED
    BY <1>1, <2>1, <2>2, WakesOn
<1>6. CASE Answer(h)
  <2>1. Steady /\ ReserveSlot(task[h].run) /\ UNCHANGED <<max, queued, retrying, startHold, sub>>
    BY <1>6, ClaimedAnswer DEF Answer, switches, limits
  <2>2. QED
    BY <1>1, <2>1, WakesReserve
<1>7. QED
  BY <1>2, <1>3, <1>4, <1>5, <1>6 DEF Handler, Agent

LEMMA WakesDaemon ==
    ASSUME Claimed, LimitOK, edits = 0 => Wakes, EditConfig \/ Tick \/ ReleaseQueue \/ UNCHANGED vars
    PROVE  edits' = 0 => Wakes'
<1>1. CASE EditConfig
  <2>1. edits \in Nat /\ edits' = edits + 1
    BY <1>1 DEF EditConfig, Claimed, TypeInv, TypeOK, ConfigType
  <2>2. QED
    BY <2>1
<1>2. CASE Tick \/ ReleaseQueue
  <2>1. Steady
    BY <1>2, ClaimedDaemon
  <2>2. Watcher \in Threads /\ UNCHANGED edits /\ Run(Watcher, <<"disp">>) /\ ~Due(Watcher)
    BY <1>2 DEF Tick, ReleaseQueue, At, Due, In, Threads, config
  <2>3. QED
    BY <2>1, <2>2, WakesCalled
<1>3. CASE UNCHANGED vars
  <2>1. UNCHANGED <<edits, sub, max, lines, switches, active>>
    BY <1>3 DEF vars, config, limits, counts
  <2>2. Steady
    BY <2>1, NoCall DEF Claimed
  <2>3. QED
    BY <2>1, <2>2, WakesRefresh
<1>4. QED
  BY <1>1, <1>2, <1>3

LEMMA AwakeNext == ASSUME Claimed, LimitOK, Awake, [Next]_vars PROVE Awake'
<1>1. edits = 0 => Wakes
  BY WakesSays
<1>2. \A h \in Handlers \cup Agents : h \in Helpers
  BY DEF Helpers
<1>3. edits' = 0 => Wakes'
  BY <1>1, <1>2, WakesScheduler, WakesWaiting, WakesRun, WakesHandler, WakesDaemon DEF Next
<1>4. QED
  BY <1>3, WakesSaysAfter

LEMMA AwakeInit == Init => Awake
<1> SUFFICES ASSUME Init PROVE Awake
  OBVIOUS
<1>1. \A t \in Threads : sub[t] = <<>>
  BY DEF Init, Threads
<1>2. InLine(<<>>) = {}
  BY DEF InLine
<1>3. \A t \in Threads : Quiet(t)
  BY <1>1, <1>2 DEF Quiet, Due, In
<1>4. ~Startable
  BY DEF Init, Startable
<1>5. QED
  BY <1>3, <1>4, WakesSays DEF Wakes

\* No lost wakeup: until the limits are edited, a free slot and a run that may take it never
\* coexist unless some goroutine is in dispatch's loop, or has a dispatch to do on its way
\* back from tryAdmit's, release's or waitForSlot's sections.
THEOREM NoWakeupIsLost == Spec => []NoLostWakeup
<1>1. Claimed => TypeOK
  BY DEF Claimed, TypeInv
<1>2. Awake => NoLostWakeup
  BY DEF Awake
<1>3. QED
  BY <1>1, <1>2, ClaimedInit, ClaimedNext, LimitInit, LimitNext, AwakeInit, AwakeNext, PTL DEF Spec

----------------------------------------------------------------------------
(***************************************************************************)
(* The order of starts.                                                    *)
(***************************************************************************)
\* Only two steps start a run: its own launch, and a dispatch.
LEMMA OnlyStarts ==
    ASSUME Claimed, [Next]_vars, NEW r \in Runs, Starts(r)
    PROVE  \/ \E h \in Helpers : TryAdmit(h) /\ task[h].run = r /\ Capacity /\ prio = <<>> /\ queued = <<>>
           \/ \E t \in Threads : StartQueued(t) /\ Head(queued) = r
<1>1. r \in Threads /\ pc[r] \in {"new", "queued"} /\ pc'[r] = "work"
  BY DEF Starts, Threads
<1>2. ASSUME NEW t \in Threads, NEW place, Goto(t, place), place # "work" \/ pc[t] \notin {"new", "queued"} PROVE FALSE
  BY <1>1, <1>2, TypeFacts DEF Goto, Claimed
<1>3. ~UNCHANGED pc
  BY <1>1
<1>4. ASSUME NEW t \in Threads, Scheduler(t) PROVE \E u \in Threads : StartQueued(u) /\ Head(queued) = r
  <2>1. StartQueued(t) \/ DropUnclaimed(t)
    BY <1>3, <1>4 DEF Scheduler, ReleaseParked, Settle, Dispatch, GrantResumed, ClaimFails, DispatchDone
  <2>2. queued # <<>>
    BY <2>1 DEF StartQueued, DropUnclaimed, CanStart
  <2>3. Head(queued) \in Threads
    BY <2>2, QueueHead DEF Threads
  <2>4. StartQueued(t)
    BY <1>2, <2>1, <2>3 DEF DropUnclaimed
  <2>5. Head(queued) = r
    BY <1>1, <2>3, <2>4, TypeFacts DEF StartQueued, Goto, Claimed
  <2>6. QED
    BY <2>4, <2>5
<1>5. ASSUME NEW t \in Threads, Waiting(t) PROVE FALSE
  <2>1. pc[t] \in AcquirePlaces
    BY <1>5 DEF Waiting, Again, AcquireReserve, Take, SetHeld, CountResumed, CancelWait, Land, CancelJoin, At, AcquirePlaces
  <2>2. Land(t) \/ \E place : Goto(t, place)
    BY <1>5 DEF Waiting, Again, AcquireReserve, Take, SetHeld, CountResumed, CancelWait, CancelJoin
  <2>3. pc[t] \notin {"new", "queued"}
    BY <2>1 DEF AcquirePlaces
  <2>4. Land(t) => pc'[r] = pc[r] \/ r = t \/ pc'[r] = "acq"
    BY <1>1 DEF Land
  <2>5. QED
    BY <1>1, <1>2, <2>2, <2>3, <2>4
<1>6. ~RunStep(r) /\ \A q \in Runs : ~RunStep(q)
  <2>1. ASSUME NEW q \in Runs, RunStep(q) PROVE FALSE
    <3>1. \E place \in {"gate", "parked", "mark", "resv", "done"} : Goto(q, place)
      BY <2>1 DEF RunStep, Park, YieldAtGate, PollCI, Mark, Resume, Finish, CancelQueued
    <3>2. QED
      BY <1>2, <3>1 DEF Threads
  <2>2. QED
    BY <2>1
<1>7. ASSUME NEW h \in Helpers, Handler(h) \/ Agent(h)
      PROVE  TryAdmit(h) /\ task[h].run = r /\ Capacity /\ prio = <<>> /\ queued = <<>>
  <2>1. h \in Threads
    BY DEF Threads
  <2>2. ASSUME ~TryAdmit(h), ~Enqueue(h) PROVE FALSE
    <3>1. UNCHANGED pc \/ \E place \in {"try", "answer", "resv", "idle"} : Goto(h, place)
      <4>1. \/ \E q \in Runs : Admit(h, q) \/ Respond(h, q) \/ RunAgent(h, q)
            \/ RetryClaim(h) \/ Admitted(h) \/ Answer(h) \/ AgentDone(h)
        BY <1>7, <2>2 DEF Handler, Agent
      <4>2. QED
        BY <4>1 DEF Admit, Respond, RetryClaim, Admitted, Answer, RunAgent, AgentDone
    <3>2. QED
      BY <1>2, <1>3, <2>1, <3>1
  <2>3. ~Enqueue(h)
    <3>1. Enqueue(h) => \A u \in Threads : pc'[u] = pc[u] \/ pc'[u] \in {"admitted", "queued", "done"}
      BY TypeFacts DEF Enqueue, Claimed
    <3>2. QED
      BY <1>1, <3>1
  <2>4. TryAdmit(h)
    BY <2>2, <2>3
  <2>5. Capacity /\ prio = <<>> /\ queued = <<>> /\ task[h].run = r
    BY <1>1, <2>4, TypeFacts DEF TryAdmit, Claimed
  <2>6. QED
    BY <2>4, <2>5
<1>8. ~UNCHANGED vars /\ ~EditConfig /\ ~Tick /\ ~ReleaseQueue
  BY <1>3 DEF vars, EditConfig, Tick, ReleaseQueue
<1>9. \A h \in Handlers \cup Agents : h \in Helpers
  BY DEF Helpers
<1>10. QED
  BY <1>4, <1>5, <1>6, <1>7, <1>8, <1>9 DEF Next

LEMMA OrderKept ==
    ASSUME Claimed, [Next]_vars, NEW r \in Runs, Starts(r)
    PROVE  /\ prio = <<>>
           /\ queued = <<>> \/ Head(queued) = r
           /\ pc[r] = "new" => \A h \in Helpers : At(h, "enq") => task[h].run = r
<1>1. ASSUME NEW t \in Threads, StartQueued(t), Head(queued) = r PROVE prio = <<>> /\ pc[r] = "queued"
  BY <1>1, QueueHead DEF StartQueued, CanStart
<1>2. ASSUME NEW h \in Helpers, TryAdmit(h), NEW g \in Helpers, At(g, "enq") PROVE FALSE
  <2>1. pc[h] = "try" /\ pc[g] = "enq"
    BY <1>2 DEF TryAdmit, At
  <2>2. g = h
    BY <2>1, HelperJobs DEF Claimed, HelpersOK
  <2>3. QED
    BY <2>1, <2>2
<1>3. QED
  BY <1>1, <1>2, OnlyStarts

\* Start order: a run is started by its launch or by a dispatch only when no resumed run
\* waits in slotScheduler.prio and no launch that came before it is in slotScheduler.queued,
\* or has been refused a slot and is on its way into that line.
THEOREM StartsInOrder == Spec => LaunchOrder
<1>1. Claimed /\ [Next]_vars
        => [\A r \in Runs : Starts(r) => /\ prio = <<>>
                                         /\ queued = <<>> \/ Head(queued) = r
                                         /\ pc[r] = "new" => \A h \in Helpers : At(h, "enq") => task[h].run = r]_vars
  BY OrderKept
<1>2. QED
  BY <1>1, ClaimedInit, ClaimedNext, PTL DEF Spec, LaunchOrder
=============================================================================
