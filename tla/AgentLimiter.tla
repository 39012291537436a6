---------------------------- MODULE AgentLimiter ----------------------------
(***************************************************************************)
(* The limiter of agent subprocesses, shared by every run of the daemon    *)
(* (agentSemaphore in internal/pipeline/slot.go).  An invocation starts at *)
(* once when there is room, or waits in line; a release and a change of    *)
(* daemon.max_concurrent_agents admit waiters, oldest first, by closing    *)
(* their channels.  The invocation that waits sees its channel or the end  *)
(* of its context, and when both are there, either.  Every action is one   *)
(* section under agentSemaphore.mu, or a step between two sections.        *)
(***************************************************************************)
EXTENDS Integers, SequencesExt

CONSTANTS
    Invocations,    \* goroutines that invoke agents, one after the other
    Limits          \* values of daemon.max_concurrent_agents; 0 and below is unlimited

ASSUME LimiterAssumption == IsFiniteSet(Invocations) /\ Limits \subseteq Int

VARIABLES
    limit, active, waiters,    \* agentSemaphore's fields
    pc                         \* where each invocation is

vars == <<limit, active, waiters, pc>>

Init ==
    /\ limit = 0 /\ active = 0 /\ waiters = <<>>
    /\ pc = [a \in Invocations |-> "idle"]

----------------------------------------------------------------------------
Goto(a, place) == pc' = [pc EXCEPT ![a] = place]
InLine(a) == \E i \in 1..Len(waiters) : waiters[i] = a
\* The invocation's channel is closed.
Admitted(a) == ~InLine(a)

Room(act) == limit = 0 \/ act < limit

\* wakeLocked with act invocations active under the limit n: how many it admits,
\* and the line without the oldest of them.
Woken(act, n) ==
    IF n = 0 \/ n - act >= Len(waiters) THEN Len(waiters) ELSE IF act >= n THEN 0 ELSE n - act
NewestFirst(k) == SubSeq(waiters, 1, Len(waiters) - k)                 \* mutant of Rest
Rest(k) == SubSeq(waiters, k + 1, Len(waiters))
Wake(act, n) == active' = act + Woken(act, n) /\ waiters' = Rest(Woken(act, n))

NoWake(n) == UNCHANGED <<active, waiters>>          \* mutant of WakeAtLimit
WakeAtLimit(n) == Wake(active, n)
AsGiven(n) == n                                     \* mutant of Clamped
Clamped(n) == IF n < 0 THEN 0 ELSE n
SetLimit(n) ==
    /\ limit' = Clamped(n)
    /\ WakeAtLimit(Clamped(n))
    /\ UNCHANGED pc

\* acquire's first section.
Start(a) ==
    /\ pc[a] = "idle" /\ waiters = <<>> /\ Room(active)
    /\ active' = active + 1 /\ Goto(a, "run")
    /\ UNCHANGED <<limit, waiters>>

Queue(a) ==
    /\ pc[a] = "idle" /\ (waiters # <<>> \/ ~Room(active))
    /\ waiters' = Append(waiters, a) /\ Goto(a, "wait")
    /\ UNCHANGED <<limit, active>>

\* acquire's select.
Proceed(a) ==
    /\ pc[a] = "wait" /\ Admitted(a)
    /\ Goto(a, "run")
    /\ UNCHANGED <<limit, active, waiters>>

CtxDone(a) ==
    /\ pc[a] = "wait" /\ Goto(a, "leave")
    /\ UNCHANGED <<limit, active, waiters>>

\* acquire's second section: out of the line, or admitted meanwhile.
GivesBack == "release"
Leave(a) ==
    /\ pc[a] = "leave"
    /\ \/ \E i \in 1..Len(waiters) : waiters[i] = a /\ waiters' = RemoveAt(waiters, i) /\ Goto(a, "idle")
       \/ Admitted(a) /\ waiters' = waiters /\ Goto(a, GivesBack)
    /\ UNCHANGED <<limit, active>>

\* release, by an invocation that ran, or that was admitted while its context ended.
Released(a) == Wake(active - 1, limit)
Release(a) ==
    /\ pc[a] \in {"run", "release"}
    /\ Released(a) /\ Goto(a, "idle")
    /\ UNCHANGED limit

----------------------------------------------------------------------------
Invocation(a) == Start(a) \/ Queue(a) \/ Proceed(a) \/ CtxDone(a) \/ Leave(a) \/ Release(a)
Next == (\E a \in Invocations : Invocation(a)) \/ (\E n \in Limits : SetLimit(n))

Spec == Init /\ [][Next]_vars

\* An admitted invocation goes on, and an agent comes to its end: every invocation
\* has a deadline, or a run whose cancellation stops it.
Fairness == \A a \in Invocations : WF_vars(Proceed(a)) /\ WF_vars(Leave(a)) /\ WF_vars(Release(a))

FairSpec == Spec /\ Fairness

----------------------------------------------------------------------------
TypeOK ==
    /\ limit \in Nat /\ active \in Int /\ waiters \in Seq(Invocations)
    /\ pc \in [Invocations -> {"idle", "wait", "run", "leave", "release"}]

\* Who has been admitted and has not released: among them the invocations that do
\* not know it yet, and those that have given up beside the admission.
Holders == {a \in Invocations : pc[a] \in {"run", "release"} \/ (pc[a] \in {"wait", "leave"} /\ Admitted(a))}

\* The counter stands for exactly the invocations admitted, whatever cancellation
\* races what admission ("Admitted concurrently with cancellation: give the slot
\* back", slot.go): no place is lost, none is given twice.
PlacesAccounted == active = Cardinality(Holders)

\* Nobody waits beside a free place, also right after the limit was raised.
NoIdlePlace == waiters # <<>> => limit # 0 /\ active >= limit

\* A start never exceeds the limit in force; a lowered limit interrupts nobody.
WithinLimit == [][active' > active => limit' = 0 \/ active' <= limit']_vars

\* An invocation in the line is admitted, or gives up: "oldest first" (slot.go), so that
\* nobody who arrives later, again and again, keeps it there.
WaiterServed == \A a \in Invocations : pc[a] = "wait" ~> pc[a] # "wait"
=============================================================================
