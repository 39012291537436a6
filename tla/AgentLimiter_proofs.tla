------------------------ MODULE AgentLimiter_proofs ------------------------
(***************************************************************************)
(* The limiter of agents keeps its promises for any invocations and any    *)
(* limits: its counter is exact, nobody waits beside a free place, and no  *)
(* start exceeds the limit.                                                *)
(***************************************************************************)
EXTENDS AgentLimiter, FiniteSetTheorems, SequenceTheorems, TLAPS

\* Whoever is in the line is there once, and is in acquire.
LineOK == /\ \A i, j \in 1..Len(waiters) : waiters[i] = waiters[j] => i = j
          /\ \A i \in 1..Len(waiters) : pc[waiters[i]] \in {"wait", "leave"}

IInv == TypeOK /\ LineOK /\ PlacesAccounted /\ NoIdlePlace

----------------------------------------------------------------------------
\* The first k members of a sequence without repetition add k to a set that holds
\* none of them.
LEMMA AddPrefix ==
    ASSUME NEW S, IsFiniteSet(S), NEW T, NEW s \in Seq(T), NEW k \in 0..Len(s),
           \A i, j \in 1..Len(s) : s[i] = s[j] => i = j,
           \A i \in 1..k : s[i] \notin S
    PROVE  Cardinality(S \cup {s[i] : i \in 1..k}) = Cardinality(S) + k
<1> DEFINE P == {s[i] : i \in 1..k}
           f == [i \in 1..k |-> s[i]]
<1>1. f \in Bijection(1..k, P)
  BY DEF Bijection, Injection, Surjection, IsInjective
<1>2. ExistsBijection(1..k, P)
  BY <1>1 DEF ExistsBijection
<1>3. Cardinality(P) = k
  BY <1>2, FS_CountingElements
<1>4. IsFiniteSet(P)
  BY <1>2, FS_NatBijection
<1>5. Cardinality(S \cap P) = 0
  <2>1. S \cap P = {}
    OBVIOUS
  <2>2. QED
    BY <2>1, FS_EmptySet
<1>6. Cardinality(S \cup P) = Cardinality(S) + Cardinality(P) - Cardinality(S \cap P)
  BY <1>4, FS_Union
<1>7. QED
  BY <1>3, <1>5, <1>6, FS_CardinalityType

LEMMA HoldersFinite == IsFiniteSet(Holders)
BY LimiterAssumption, FS_Subset DEF Holders

----------------------------------------------------------------------------
\* wakeLocked admits no more than wait, fills the room there is, and no more.
LEMMA WokenBounds ==
    ASSUME waiters \in Seq(Invocations), NEW act \in Int, NEW n \in Nat
    PROVE  /\ Woken(act, n) \in 0..Len(waiters)
           /\ Woken(act, n) < Len(waiters) => n # 0 /\ act + Woken(act, n) >= n
           /\ Woken(act, n) > 0 => n = 0 \/ act + Woken(act, n) <= n
<1>1. Len(waiters) \in Nat
  OBVIOUS
<1>2. QED
  BY <1>1 DEF Woken

\* The line that is left after wakeLocked.
LEMMA RestOfLine ==
    ASSUME waiters \in Seq(Invocations), NEW k \in 0..Len(waiters)
    PROVE  /\ Rest(k) \in Seq(Invocations) /\ Len(Rest(k)) = Len(waiters) - k
           /\ \A i \in 1..(Len(waiters) - k) : Rest(k)[i] = waiters[k + i]
BY DEF Rest

\* What wakeLocked does in a state where the limiter's places are counted by S.
LEMMA WakeStep ==
    ASSUME TypeOK, LineOK, NEW act \in Int, NEW n \in Nat, Wake(act, n),
           NEW S, IsFiniteSet(S), act = Cardinality(S),
           \A i \in 1..Len(waiters) : waiters[i] \notin S
    PROVE  /\ active' \in Int /\ waiters' \in Seq(Invocations)
           /\ active' = Cardinality(S \cup {waiters[i] : i \in 1..Woken(act, n)})
           /\ \A a \in Invocations : InLine(a)' <=> InLine(a) /\ a \notin {waiters[i] : i \in 1..Woken(act, n)}
           /\ \A i, j \in 1..Len(waiters') : waiters'[i] = waiters'[j] => i = j
           /\ waiters' # <<>> => n # 0 /\ active' >= n
           /\ active' > act => n = 0 \/ active' <= n
<1> DEFINE k == Woken(act, n)
<1>1. waiters \in Seq(Invocations)
  BY DEF TypeOK
<1>2. /\ k \in 0..Len(waiters)
      /\ k < Len(waiters) => n # 0 /\ act + k >= n
      /\ k > 0 => n = 0 \/ act + k <= n
  BY <1>1, WokenBounds
<1>3. active' = act + k /\ waiters' = Rest(k)
  BY DEF Wake
<1> HIDE DEF k
<1>4. /\ waiters' \in Seq(Invocations) /\ Len(waiters') = Len(waiters) - k
      /\ \A i \in 1..(Len(waiters) - k) : waiters'[i] = waiters[k + i]
  BY <1>1, <1>2, <1>3, RestOfLine
<1>5. active' = Cardinality(S \cup {waiters[i] : i \in 1..k})
  <2>1. \A i \in 1..k : waiters[i] \notin S
    BY <1>1, <1>2
  <2>2. \A i, j \in 1..Len(waiters) : waiters[i] = waiters[j] => i = j
    BY DEF LineOK
  <2>3. QED
    BY <1>1, <1>2, <1>3, <2>1, <2>2, AddPrefix
<1>6. ASSUME NEW a \in Invocations
      PROVE  InLine(a)' <=> InLine(a) /\ a \notin {waiters[i] : i \in 1..k}
  <2>1. ASSUME InLine(a)' PROVE InLine(a) /\ a \notin {waiters[i] : i \in 1..k}
    <3>1. PICK i \in 1..(Len(waiters) - k) : waiters[k + i] = a
      BY <1>4, <2>1 DEF InLine
    <3>2. k + i \in 1..Len(waiters) /\ \A j \in 1..k : j \in 1..Len(waiters) /\ j # k + i
      BY <1>1, <1>2
    <3>3. QED
      BY <3>1, <3>2 DEF InLine, LineOK
  <2>2. ASSUME InLine(a), a \notin {waiters[i] : i \in 1..k} PROVE InLine(a)'
    <3>1. PICK j \in 1..Len(waiters) : waiters[j] = a
      BY <2>2 DEF InLine
    <3>2. j \notin 1..k
      BY <2>2, <3>1
    <3>3. j - k \in 1..(Len(waiters) - k) /\ k + (j - k) = j
      BY <1>1, <1>2, <3>2
    <3>4. waiters'[j - k] = a
      BY <1>4, <3>1, <3>3
    <3>5. QED
      BY <1>4, <3>3, <3>4 DEF InLine
  <2>3. QED
    BY <2>1, <2>2
<1>7. \A i, j \in 1..Len(waiters') : waiters'[i] = waiters'[j] => i = j
  <2> SUFFICES ASSUME NEW i \in 1..Len(waiters'), NEW j \in 1..Len(waiters'), waiters'[i] = waiters'[j]
               PROVE  i = j
    OBVIOUS
  <2>1. k + i \in 1..Len(waiters) /\ k + j \in 1..Len(waiters) /\ waiters[k + i] = waiters[k + j]
    BY <1>1, <1>2, <1>4
  <2>2. QED
    BY <1>2, <1>4, <2>1 DEF LineOK
<1>8. waiters' # <<>> => n # 0 /\ active' >= n
  BY <1>1, <1>2, <1>3, <1>4
<1>9. active' > act => n = 0 \/ active' <= n
  BY <1>1, <1>2, <1>3
<1>10. active' \in Int
  BY <1>2, <1>3
<1>11. QED
  BY <1>4, <1>5, <1>6, <1>7, <1>8, <1>9, <1>10 DEF k

----------------------------------------------------------------------------
LEMMA InitInv == Init => IInv
<1> SUFFICES ASSUME Init PROVE IInv
  OBVIOUS
<1>1. TypeOK
  BY LimiterAssumption DEF Init, TypeOK
<1>2. LineOK /\ NoIdlePlace
  BY DEF Init, LineOK, NoIdlePlace
<1>3. Holders = {}
  BY DEF Init, Holders, Admitted, InLine
<1>4. PlacesAccounted
  BY <1>3, FS_EmptySet DEF Init, PlacesAccounted
<1>5. QED
  BY <1>1, <1>2, <1>4 DEF IInv

\* A release, by an invocation that holds a place.
LEMMA ReleaseStep ==
    ASSUME IInv, NEW a \in Invocations, Release(a)
    PROVE  IInv' /\ (active' > active => limit' = 0 \/ active' <= limit')
<1> DEFINE S == Holders \ {a}
           k == Woken(active - 1, limit)
<1>0. /\ waiters \in Seq(Invocations) /\ limit \in Nat /\ active \in Int /\ active - 1 \in Int /\ limit' = limit
      /\ pc \in [Invocations -> {"idle", "wait", "run", "leave", "release"}]
      /\ pc' = [pc EXCEPT ![a] = "idle"] /\ pc[a] \in {"run", "release"}
      /\ \A b \in Invocations : InLine(b) => pc[b] \in {"wait", "leave"}
  BY LimiterAssumption DEF IInv, TypeOK, LineOK, InLine, Release, Goto
<1>1. IsFiniteSet(S) /\ active - 1 = Cardinality(S)
  BY <1>0, HoldersFinite, FS_RemoveElement DEF IInv, PlacesAccounted, Holders
<1>2. \A i \in 1..Len(waiters) : waiters[i] \notin S
  BY <1>0 DEF IInv, LineOK, Holders, Admitted, InLine
<1>3. /\ active' \in Int /\ waiters' \in Seq(Invocations)
      /\ active' = Cardinality(S \cup {waiters[i] : i \in 1..k})
      /\ \A b \in Invocations : InLine(b)' <=> InLine(b) /\ b \notin {waiters[i] : i \in 1..k}
      /\ \A i, j \in 1..Len(waiters') : waiters'[i] = waiters'[j] => i = j
      /\ waiters' # <<>> => limit # 0 /\ active' >= limit
      /\ active' > active - 1 => limit = 0 \/ active' <= limit
  <2>1. TypeOK /\ LineOK /\ Wake(active - 1, limit)
    BY DEF IInv, Release, Released
  <2>2. QED
    BY <1>0, <1>1, <1>2, <2>1, WakeStep
<1>4. k \in 0..Len(waiters)
  BY <1>0, WokenBounds
<1> HIDE DEF k
<1>5. TypeOK'
  BY <1>0, <1>3 DEF TypeOK
<1>6. LineOK'
  BY <1>0, <1>3 DEF LineOK, InLine
<1>7. Holders' = S \cup {waiters[i] : i \in 1..k}
  <2>1. ASSUME NEW b \in Invocations
        PROVE  b \in Holders' <=> b \in S \/ b \in {waiters[i] : i \in 1..k}
    <3>1. CASE b = a
      <4>1. b \notin Holders'
        BY <1>0, <3>1 DEF Holders
      <4>2. b \notin {waiters[i] : i \in 1..k}
        BY <1>0, <1>4, <3>1 DEF InLine
      <4>3. QED
        BY <3>1, <4>1, <4>2
    <3>2. CASE b # a
      <4>1. pc'[b] = pc[b]
        BY <1>0, <3>2
      <4>2. b \in {waiters[i] : i \in 1..k} => InLine(b)
        BY <1>0, <1>4 DEF InLine
      <4>3. QED
        BY <1>0, <1>3, <3>2, <4>1, <4>2 DEF Holders, Admitted
    <3>3. QED
      BY <3>1, <3>2
  <2>2. Holders' \subseteq Invocations /\ S \subseteq Invocations /\ {waiters[i] : i \in 1..k} \subseteq Invocations
    BY <1>0, <1>4 DEF Holders
  <2>3. QED
    BY <2>1, <2>2
<1>8. PlacesAccounted' /\ NoIdlePlace'
  BY <1>0, <1>3, <1>7 DEF PlacesAccounted, NoIdlePlace
<1>9. QED
  BY <1>0, <1>3, <1>5, <1>6, <1>8 DEF IInv

LEMMA LimitStep ==
    ASSUME IInv, NEW n \in Limits, SetLimit(n)
    PROVE  IInv' /\ (active' > active => limit' = 0 \/ active' <= limit')
<1> DEFINE m == Clamped(n)
           k == Woken(active, m)
<1>0. /\ waiters \in Seq(Invocations) /\ m \in Nat /\ active \in Int /\ limit' = m /\ pc' = pc
      /\ pc \in [Invocations -> {"idle", "wait", "run", "leave", "release"}]
      /\ \A b \in Invocations : InLine(b) => pc[b] \in {"wait", "leave"}
  BY LimiterAssumption DEF IInv, TypeOK, LineOK, InLine, SetLimit, Clamped
<1>1. IsFiniteSet(Holders) /\ active = Cardinality(Holders)
  BY HoldersFinite DEF IInv, PlacesAccounted
<1>2. \A i \in 1..Len(waiters) : waiters[i] \notin Holders
  BY <1>0 DEF IInv, LineOK, Holders, Admitted, InLine
<1>3. /\ active' \in Int /\ waiters' \in Seq(Invocations)
      /\ active' = Cardinality(Holders \cup {waiters[i] : i \in 1..k})
      /\ \A b \in Invocations : InLine(b)' <=> InLine(b) /\ b \notin {waiters[i] : i \in 1..k}
      /\ \A i, j \in 1..Len(waiters') : waiters'[i] = waiters'[j] => i = j
      /\ waiters' # <<>> => m # 0 /\ active' >= m
      /\ active' > active => m = 0 \/ active' <= m
  BY <1>0, <1>1, <1>2, WakeStep DEF IInv, SetLimit, WakeAtLimit
<1>4. k \in 0..Len(waiters)
  BY <1>0, WokenBounds
<1> HIDE DEF k
<1>5. TypeOK'
  BY <1>0, <1>3 DEF TypeOK
<1>6. LineOK'
  BY <1>0, <1>3 DEF LineOK, InLine
<1>7. Holders' = Holders \cup {waiters[i] : i \in 1..k}
  <2>1. \A b \in Invocations : b \in {waiters[i] : i \in 1..k} => InLine(b)
    BY <1>0, <1>4 DEF InLine
  <2>2. {waiters[i] : i \in 1..k} \subseteq Invocations
    BY <1>0, <1>4
  <2>3. QED
    BY <1>0, <1>3, <2>1, <2>2 DEF Holders, Admitted
<1>8. PlacesAccounted' /\ NoIdlePlace'
  BY <1>0, <1>3, <1>7 DEF PlacesAccounted, NoIdlePlace
<1>9. QED
  BY <1>0, <1>3, <1>5, <1>6, <1>8 DEF IInv

LEMMA OtherStep ==
    ASSUME IInv, NEW a \in Invocations, Start(a) \/ Queue(a) \/ Proceed(a) \/ CtxDone(a) \/ Leave(a)
    PROVE  IInv' /\ (active' > active => limit' = 0 \/ active' <= limit')
<1>0. /\ waiters \in Seq(Invocations) /\ limit \in Nat /\ active \in Int
      /\ pc \in [Invocations -> {"idle", "wait", "run", "leave", "release"}]
      /\ LineOK /\ active = Cardinality(Holders) /\ IsFiniteSet(Holders)
  BY LimiterAssumption, HoldersFinite DEF IInv, TypeOK, PlacesAccounted
<1>1. CASE Start(a)
  <2>1. /\ active' = active + 1 /\ UNCHANGED <<limit, waiters>> /\ pc' = [pc EXCEPT ![a] = "run"]
        /\ pc[a] = "idle" /\ waiters = <<>> /\ Room(active)
    BY <1>1 DEF Start, Goto
  <2>2. TypeOK' /\ LineOK' /\ NoIdlePlace'
    BY <1>0, <2>1 DEF TypeOK, LineOK, NoIdlePlace
  <2>3. Holders' = Holders \cup {a} /\ a \notin Holders
    BY <1>0, <2>1 DEF Holders, Admitted, InLine
  <2>4. PlacesAccounted'
    BY <1>0, <2>1, <2>3, FS_AddElement DEF PlacesAccounted
  <2>5. QED
    BY <1>0, <2>1, <2>2, <2>4 DEF IInv, Room
<1>2. CASE Queue(a)
  <2>1. /\ UNCHANGED <<limit, active>> /\ pc' = [pc EXCEPT ![a] = "wait"] /\ waiters' = Append(waiters, a)
        /\ pc[a] = "idle" /\ (waiters # <<>> \/ ~Room(active))
    BY <1>2 DEF Queue, Goto
  <2>2. /\ waiters' \in Seq(Invocations) /\ Len(waiters') = Len(waiters) + 1
        /\ waiters'[Len(waiters) + 1] = a /\ \A i \in 1..Len(waiters) : waiters'[i] = waiters[i]
    BY <1>0, <2>1
  <2>3. TypeOK' /\ LineOK' /\ NoIdlePlace'
    BY <1>0, <2>1, <2>2 DEF IInv, TypeOK, LineOK, NoIdlePlace, Room
  <2>4. \A b \in Invocations : InLine(b)' <=> InLine(b) \/ b = a
    <3>1. ASSUME NEW b \in Invocations, InLine(b)' PROVE InLine(b) \/ b = a
      BY <1>0, <2>2, <3>1 DEF InLine
    <3>2. ASSUME NEW b \in Invocations, InLine(b) PROVE InLine(b)'
      BY <1>0, <2>2, <3>2 DEF InLine
    <3>3. InLine(a)'
      BY <1>0, <2>2 DEF InLine
    <3>4. QED
      BY <3>1, <3>2, <3>3
  <2>5. Holders' = Holders
    BY <1>0, <2>1, <2>4 DEF Holders, Admitted
  <2>6. QED
    BY <1>0, <2>1, <2>3, <2>5 DEF IInv, PlacesAccounted
<1>3. CASE Proceed(a) \/ CtxDone(a)
  <2>1. /\ UNCHANGED <<limit, active, waiters>> /\ pc[a] = "wait"
        /\ pc' = [pc EXCEPT ![a] = "leave"] \/ (pc' = [pc EXCEPT ![a] = "run"] /\ Admitted(a))
    BY <1>3 DEF Proceed, CtxDone, Goto
  <2>2. TypeOK' /\ LineOK' /\ NoIdlePlace'
    BY <1>0, <2>1 DEF IInv, TypeOK, LineOK, NoIdlePlace, Admitted, InLine
  <2>3. Holders' = Holders
    BY <1>0, <2>1 DEF Holders, Admitted, InLine
  <2>4. QED
    BY <1>0, <2>1, <2>2, <2>3 DEF IInv, PlacesAccounted
<1>4. CASE Leave(a)
  <2>1. CASE Admitted(a) /\ waiters' = waiters /\ Goto(a, GivesBack)
    <3>1. UNCHANGED <<limit, active, waiters>> /\ pc' = [pc EXCEPT ![a] = "release"] /\ pc[a] = "leave"
      BY <1>4, <2>1 DEF Leave, Goto, GivesBack
    <3>2. TypeOK' /\ LineOK' /\ NoIdlePlace'
      BY <1>0, <2>1, <3>1 DEF IInv, TypeOK, LineOK, NoIdlePlace, Admitted, InLine
    <3>3. Holders' = Holders
      BY <1>0, <2>1, <3>1 DEF Holders, Admitted, InLine
    <3>4. QED
      BY <1>0, <3>1, <3>2, <3>3 DEF IInv, PlacesAccounted
  <2>2. ASSUME NEW i \in 1..Len(waiters), waiters[i] = a, waiters' = RemoveAt(waiters, i), Goto(a, "idle")
        PROVE  IInv' /\ active' = active
    <3>1. UNCHANGED <<limit, active>> /\ pc' = [pc EXCEPT ![a] = "idle"] /\ pc[a] = "leave"
      BY <1>4, <2>2 DEF Leave, Goto
    <3>2. /\ waiters' \in Seq(Invocations) /\ Len(waiters') = Len(waiters) - 1
          /\ \A j \in 1..Len(waiters') : waiters'[j] = IF j < i THEN waiters[j] ELSE waiters[j + 1]
      <4> DEFINE L == SubSeq(waiters, 1, i - 1)
                 R == SubSeq(waiters, i + 1, Len(waiters))
      <4>1. L \in Seq(Invocations) /\ Len(L) = i - 1 /\ \A j \in 1..(i - 1) : L[j] = waiters[j]
        BY <1>0
      <4>2. R \in Seq(Invocations) /\ Len(R) = Len(waiters) - i /\ \A j \in 1..(Len(waiters) - i) : R[j] = waiters[i + j]
        BY <1>0
      <4>3. waiters' = L \o R
        BY <2>2 DEF RemoveAt
      <4> HIDE DEF L, R
      <4>4. /\ waiters' \in Seq(Invocations) /\ Len(waiters') = Len(L) + Len(R)
            /\ \A j \in 1..(Len(L) + Len(R)) : waiters'[j] = IF j <= Len(L) THEN L[j] ELSE R[j - Len(L)]
        BY <4>1, <4>2, <4>3, ConcatProperties
      <4>5. waiters' \in Seq(Invocations) /\ Len(waiters') = Len(waiters) - 1
        BY <1>0, <4>1, <4>2, <4>4
      <4>6. ASSUME NEW j \in 1..Len(waiters'), j < i PROVE waiters'[j] = waiters[j]
        BY <1>0, <4>1, <4>2, <4>4, <4>5, <4>6
      <4>7. ASSUME NEW j \in 1..Len(waiters'), ~(j < i) PROVE waiters'[j] = waiters[j + 1]
        <5>1. j - (i - 1) \in 1..(Len(waiters) - i) /\ i + (j - (i - 1)) = j + 1
          BY <1>0, <4>5, <4>7
        <5>2. waiters'[j] = R[j - (i - 1)]
          BY <1>0, <4>1, <4>2, <4>4, <4>5, <4>7
        <5>3. QED
          BY <4>2, <5>1, <5>2
      <4>8. QED
        BY <4>5, <4>6, <4>7
    <3>3. ASSUME NEW j \in 1..Len(waiters') PROVE waiters'[j] # a
      <4> DEFINE k == IF j < i THEN j ELSE j + 1
      <4>1. k \in 1..Len(waiters) /\ k # i /\ waiters'[j] = waiters[k]
        BY <1>0, <2>2, <3>2
      <4> HIDE DEF k
      <4> QED
        BY <1>0, <2>2, <4>1 DEF IInv, LineOK
    <3>4. LineOK'
      <4>1. ASSUME NEW j \in 1..Len(waiters'), NEW k \in 1..Len(waiters'), waiters'[j] = waiters'[k] PROVE j = k
        <5> DEFINE at(x) == IF x < i THEN x ELSE x + 1
        <5>1. at(j) \in 1..Len(waiters) /\ waiters[at(j)] = waiters'[j]
          BY <1>0, <3>2
        <5>2. at(k) \in 1..Len(waiters) /\ waiters[at(k)] = waiters'[k]
          BY <1>0, <3>2
        <5>3. at(j) = at(k)
          BY <1>0, <4>1, <5>1, <5>2 DEF LineOK
        <5>4. QED
          BY <5>3
      <4>2. ASSUME NEW j \in 1..Len(waiters') PROVE pc'[waiters'[j]] \in {"wait", "leave"}
        <5>1. PICK k \in 1..Len(waiters) : waiters'[j] = waiters[k]
          BY <1>0, <3>2
        <5>2. pc[waiters[k]] \in {"wait", "leave"} /\ waiters[k] \in Invocations
          BY <1>0, <5>1 DEF LineOK
        <5>3. QED
          BY <1>0, <3>1, <3>3, <5>1, <5>2
      <4>3. QED
        BY <4>1, <4>2 DEF LineOK
    <3>5. \A b \in Invocations : InLine(b)' <=> InLine(b) /\ b # a
      <4>1. \A b \in Invocations : InLine(b)' => InLine(b) /\ b # a
        BY <1>0, <3>2, <3>3 DEF InLine
      <4>2. ASSUME NEW b \in Invocations, InLine(b), b # a PROVE InLine(b)'
        <5>1. PICK j \in 1..Len(waiters) : waiters[j] = b
          BY <4>2 DEF InLine
        <5>2. CASE j < i
          BY <1>0, <3>2, <5>1, <5>2 DEF InLine
        <5>3. CASE j > i
          <6>1. j - 1 \in 1..Len(waiters') /\ ~(j - 1 < i) /\ (j - 1) + 1 = j
            BY <1>0, <3>2, <5>3
          <6>2. waiters'[j - 1] = b
            BY <3>2, <5>1, <6>1
          <6>3. QED
            BY <6>1, <6>2 DEF InLine
        <5>4. QED
          BY <2>2, <4>2, <5>1, <5>2, <5>3
      <4>3. QED
        BY <4>1, <4>2
    <3>6. Holders' = Holders
      BY <1>0, <2>2, <3>1, <3>5 DEF Holders, Admitted, InLine
    <3>7. TypeOK' /\ NoIdlePlace'
      BY <1>0, <2>2, <3>1, <3>2 DEF IInv, TypeOK, NoIdlePlace
    <3>8. QED
      BY <1>0, <3>1, <3>4, <3>6, <3>7 DEF IInv, PlacesAccounted
  <2>3. QED
    BY <1>0, <1>4, <2>1, <2>2 DEF Leave
<1>5. QED
  BY <1>1, <1>2, <1>3, <1>4

LEMMA Step ==
    ASSUME IInv, [Next]_vars
    PROVE  IInv' /\ (active' > active => limit' = 0 \/ active' <= limit')
<1>1. CASE \E a \in Invocations : Invocation(a)
  BY <1>1, ReleaseStep, OtherStep DEF Invocation
<1>2. CASE \E n \in Limits : SetLimit(n)
  BY <1>2, LimitStep
<1>3. CASE UNCHANGED vars
  <2>1. IInv'
    BY <1>3 DEF vars, IInv, TypeOK, LineOK, PlacesAccounted, NoIdlePlace, Holders, Admitted, InLine
  <2>2. active' = active /\ active \in Int
    BY <1>3 DEF vars, IInv, TypeOK
  <2>3. QED
    BY <2>1, <2>2
<1>4. QED
  BY <1>1, <1>2, <1>3 DEF Next

LEMMA Inductive == Spec => []IInv
<1>1. IInv /\ [Next]_vars => IInv'
  BY Step
<1>2. QED
  BY InitInv, <1>1, PTL DEF Spec

\* Every reachable state is well typed, for any invocations and limits.
THEOREM TypeCorrect == Spec => []TypeOK
<1>1. IInv => TypeOK
  BY DEF IInv
<1>2. QED
  BY Inductive, <1>1, PTL

\* The counter of the limiter is exact in every reachable state, whatever
\* cancellations race what admissions, for any invocations and limits.
THEOREM Accounted == Spec => []PlacesAccounted
<1>1. IInv => PlacesAccounted
  BY DEF IInv
<1>2. QED
  BY Inductive, <1>1, PTL

\* Nobody ever waits beside a free place, for any invocations and limits.
THEOREM NobodyWaitsInVain == Spec => []NoIdlePlace
<1>1. IInv => NoIdlePlace
  BY DEF IInv
<1>2. QED
  BY Inductive, <1>1, PTL

\* No start exceeds the limit in force, for any invocations and limits.
THEOREM StartsWithinLimit == Spec => WithinLimit
<1>1. IInv /\ [Next]_vars => [active' > active => limit' = 0 \/ active' <= limit']_vars
  BY Step
<1>2. QED
  BY Inductive, <1>1, PTL DEF Spec, WithinLimit
=============================================================================
