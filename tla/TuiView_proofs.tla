--------------------------- MODULE TuiView_proofs ---------------------------
(***************************************************************************)
(* What TuiView guarantees for every number of steps, every size of the    *)
(* mailbox and every bound: its states are well typed and the mailbox is   *)
(* accounted for to the byte, and no state change is silently lost on its  *)
(* way from the run's goroutine to the view.                               *)
(***************************************************************************)
EXTENDS TuiViewInv, FiniteSetTheorems, SequenceTheorems, TLAPS

(* Natural numbers, without an operator as a parameter.                       *)

LEMMA Least == ASSUME NEW S \in SUBSET Nat, S # {} PROVE \E n \in S : \A m \in S : n <= m
<1> DEFINE R == StrictSubsetOrdering(Nat)
           T == {1..n : n \in S}
<1>1. \A n \in S : 1..n \in SUBSET Nat /\ IsFiniteSet(1..n)
  BY FS_Interval
<1>2. T \subseteq FiniteSubsetsOf(Nat) /\ T # {}
  BY <1>1 DEF FiniteSubsetsOf
<1>3. \A n, m \in Nat : m < n => 1..m \subseteq 1..n /\ n \in 1..n /\ n \notin 1..m
  OBVIOUS
<1>4. \A n, m \in S : m < n => <<1..m, 1..n>> \in R
  <2>1. \A A, B \in SUBSET Nat : A \subseteq B /\ A # B => <<A, B>> \in R
    BY DEF StrictSubsetOrdering
  <2>2. \A n, m \in Nat : m < n => 1..m \subseteq 1..n /\ 1..m # 1..n
    BY <1>3
  <2> HIDE DEF R
  <2> QED
    <3> SUFFICES ASSUME NEW n \in S, NEW m \in S, m < n PROVE <<1..m, 1..n>> \in R
      OBVIOUS
    <3>1. 1..m \in SUBSET Nat /\ 1..n \in SUBSET Nat
      BY <1>1
    <3>2. 1..m \subseteq 1..n /\ 1..m # 1..n
      BY <2>2
    <3> QED BY <2>1, <3>1, <3>2
<1>5. IsWellFoundedOn(R, FiniteSubsetsOf(Nat))
  BY FS_StrictSubsetOrderingWellFounded
<1>6. \E x \in T : \A y \in T : ~(<<y, x>> \in R)
  <2> HIDE DEF R, T
  <2> QED BY <1>2, <1>5, WFMin
<1>7. PICK n \in S : \A m \in S : <<1..m, 1..n>> \notin R
  <2> HIDE DEF R
  <2>1. PICK x \in T : \A y \in T : ~(<<y, x>> \in R)
    BY <1>6
  <2>2. PICK n \in S : x = 1..n
    BY <2>1
  <2>3. \A m \in S : 1..m \in T
    OBVIOUS
  <2>4. \A m \in S : <<1..m, x>> \notin R
    BY <2>1, <2>3
  <2> QED BY <2>2, <2>4
<1>8. \A m \in S : n <= m
  <2> HIDE DEF R, T
  <2> SUFFICES ASSUME NEW m \in S, ~(n <= m) PROVE FALSE
    OBVIOUS
  <2>1. m < n /\ n \in S
    BY <1>7
  <2> QED BY <1>4, <1>7, <2>1
<1> QED
  BY <1>8

LEMMA NatSetInduction == ASSUME NEW S \in SUBSET Nat, 0 \in S, \A n \in S : n + 1 \in S PROVE S = Nat
<1> SUFFICES ASSUME Nat \ S # {} PROVE FALSE
  OBVIOUS
<1>1. PICK n \in Nat \ S : \A m \in Nat \ S : n <= m
  BY Least
<1>2. n # 0 /\ n - 1 \in Nat /\ n - 1 \in S
  BY <1>1
<1> QED
  BY <1>1, <1>2


(* The frames at some places of a ring.                                       *)

Rank(P, i) == Cardinality(P \cap (1..i))

LEMMA RankType ==
    ASSUME NEW N \in Nat, NEW P \in SUBSET (1..N)
    PROVE  /\ IsFiniteSet(P) /\ Cardinality(P) \in Nat
           /\ Rank(P, 0) = 0 /\ Rank(P, N) = Cardinality(P)
           /\ \A i \in 0..N : IsFiniteSet(P \cap (1..i)) /\ Rank(P, i) \in Nat
<1>1. IsFiniteSet(1..N)
  BY FS_Interval
<1>2. IsFiniteSet(P) /\ Cardinality(P) \in Nat
  BY <1>1, FS_Subset, FS_CardinalityType
<1>3. \A i \in 0..N : IsFiniteSet(P \cap (1..i)) /\ Rank(P, i) \in Nat
  <2> TAKE i \in 0..N
  <2>1. P \cap (1..i) \subseteq P
    OBVIOUS
  <2> QED BY <2>1, <1>2, FS_Subset, FS_CardinalityType DEF Rank
<1>4. Rank(P, 0) = 0 /\ Rank(P, N) = Cardinality(P)
  <2>1. P \cap (1..0) = {}
    OBVIOUS
  <2>2. P \cap (1..N) = P
    OBVIOUS
  <2> QED BY <2>1, <2>2, FS_EmptySet DEF Rank
<1> QED BY <1>2, <1>3, <1>4

LEMMA RankNext ==
    ASSUME NEW N \in Nat, NEW P \in SUBSET (1..N), NEW i \in 1..N
    PROVE  Rank(P, i) = IF i \in P THEN Rank(P, i - 1) + 1 ELSE Rank(P, i - 1)
<1>1. i - 1 \in 0..N /\ i \notin P \cap (1..(i - 1))
  OBVIOUS
<1>2. CASE i \in P
  <2> DEFINE Q == P \cap (1..(i - 1))
  <2>1. P \cap (1..i) = Q \cup {i}
    BY <1>2
  <2>2. IsFiniteSet(Q) /\ i \notin Q
    BY <1>1, RankType
  <2> HIDE DEF Q
  <2>3. Cardinality(Q \cup {i}) = Cardinality(Q) + 1
    BY <2>2, FS_AddElement
  <2> QED BY <1>2, <2>1, <2>3 DEF Rank, Q
<1>3. CASE i \notin P
  <2>1. P \cap (1..i) = P \cap (1..(i - 1))
    BY <1>3
  <2> QED BY <1>3, <2>1 DEF Rank
<1> QED BY <1>2, <1>3

LEMMA RankGrows ==
    ASSUME NEW N \in Nat, NEW P \in SUBSET (1..N), NEW i \in 0..N, NEW k \in 0..N, i <= k
    PROVE  Rank(P, i) <= Rank(P, k)
<1>1. P \cap (1..i) \subseteq P \cap (1..k)
  OBVIOUS
<1>2. IsFiniteSet(P \cap (1..k))
  BY RankType
<1> QED BY <1>1, <1>2, FS_Subset DEF Rank

LEMMA RankOrder ==
    ASSUME NEW N \in Nat, NEW P \in SUBSET (1..N)
    PROVE  /\ \A i \in P : Rank(P, i) \in 1..Cardinality(P)
           /\ \A i, k \in P : i < k => Rank(P, i) < Rank(P, k)
           /\ \A n \in 1..Cardinality(P) : \E i \in P : Rank(P, i) = n
<1> HIDE DEF Rank
<1>1. \A i \in P : Rank(P, i) \in 1..Cardinality(P)
  <2> TAKE i \in P
  <2>1. i \in 1..N /\ i - 1 \in 0..N /\ N \in 0..N /\ i \in 0..N /\ i <= N
    OBVIOUS
  <2>2. Rank(P, i) = Rank(P, i - 1) + 1
    BY <2>1, RankNext
  <2>3. Rank(P, i) <= Rank(P, N)
    BY <2>1, RankGrows
  <2>4. Rank(P, N) = Cardinality(P) /\ Cardinality(P) \in Nat /\ Rank(P, i - 1) \in Nat
    BY <2>1, RankType
  <2> QED BY <2>2, <2>3, <2>4
<1>2. \A i, k \in P : i < k => Rank(P, i) < Rank(P, k)
  <2> SUFFICES ASSUME NEW i \in P, NEW k \in P, i < k PROVE Rank(P, i) < Rank(P, k)
    OBVIOUS
  <2>1. k \in 1..N /\ i \in 0..N /\ k - 1 \in 0..N /\ i <= k - 1
    OBVIOUS
  <2>2. Rank(P, k) = Rank(P, k - 1) + 1
    BY <2>1, RankNext
  <2>3. Rank(P, i) <= Rank(P, k - 1)
    BY <2>1, RankGrows
  <2>4. Rank(P, i) \in Nat /\ Rank(P, k - 1) \in Nat
    BY <2>1, RankType
  <2> QED BY <2>2, <2>3, <2>4
<1>3. ASSUME NEW n \in 1..Cardinality(P) PROVE \E i \in P : Rank(P, i) = n
  <2> DEFINE S == {i \in 1..N : Rank(P, i) >= n}
  <2>1. N \in S
    <3>1. Cardinality(P) \in Nat /\ Rank(P, N) = Cardinality(P) /\ Rank(P, 0) = 0
      BY RankType
    <3>2. N # 0
      BY <3>1
    <3> QED BY <3>1, <3>2
  <2>2. PICK i \in S : \A m \in S : i <= m
    <3> HIDE DEF S
    <3>1. S \in SUBSET Nat
      BY DEF S
    <3> QED BY <2>1, <3>1, Least
  <2>3. Rank(P, i - 1) < n
    <3>1. CASE i = 1
      BY <3>1, RankType
    <3>2. CASE i # 1
      <4>1. i - 1 \in 1..N /\ i - 1 \notin S
        BY <2>2, <3>2
      <4>2. Rank(P, i - 1) \in Nat
        <5>1. \A k \in 0..N : Rank(P, k) \in Nat
          BY RankType
        <5>2. i - 1 \in 0..N
          BY <4>1
        <5> QED BY <5>1, <5>2
      <4> QED BY <4>1, <4>2
    <3> QED BY <3>1, <3>2
  <2>4. i \in 1..N /\ i - 1 \in 0..N /\ i \in 0..N /\ Rank(P, i) >= n
    BY <2>2
  <2>5. /\ Rank(P, i) = IF i \in P THEN Rank(P, i - 1) + 1 ELSE Rank(P, i - 1)
        /\ Rank(P, i - 1) \in Nat /\ Rank(P, i) \in Nat
    <3>1. Rank(P, i) = IF i \in P THEN Rank(P, i - 1) + 1 ELSE Rank(P, i - 1)
      BY <2>4, RankNext
    <3>2. Rank(P, i - 1) \in Nat /\ Rank(P, i) \in Nat
      BY <2>4, RankType
    <3> QED BY <3>1, <3>2
  <2> QED BY <2>3, <2>4, <2>5
<1> QED BY <1>1, <1>2, <1>3

\* Only the frames at those places, each once and in order.
LEMMA OnlyFrames ==
    ASSUME NEW S, NEW ring \in Seq(S), NEW P \in SUBSET (1..Len(ring))
    PROVE  /\ Only(ring, P) \in Seq(S) /\ Len(Only(ring, P)) = Cardinality(P)
           /\ Cardinality(P) \in Nat /\ Cardinality(P) <= Len(ring)
           /\ \A i \in P : Only(ring, P)[Rank(P, i)] = ring[i]
           /\ \A n \in 1..Cardinality(P) : \E i \in P : Rank(P, i) = n /\ Only(ring, P)[n] = ring[i]
<1> DEFINE at(n) == CHOOSE i \in P : Rank(P, i) = n
           N == Cardinality(P)
<1>0. Len(ring) \in Nat
  BY LenProperties
<1>1. N \in Nat /\ N <= Len(ring)
  <2>1. IsFiniteSet(1..Len(ring)) /\ Cardinality(1..Len(ring)) = Len(ring)
    <3> DEFINE L == Len(ring)
    <3>1. L \in Nat
      BY <1>0
    <3> HIDE DEF L
    <3>2. IsFiniteSet(1..L) /\ Cardinality(1..L) = IF 1 > L THEN 0 ELSE L - 1 + 1
      BY <3>1, FS_Interval
    <3>3. Cardinality(1..L) = L
      BY <3>1, <3>2
    <3> QED BY <3>2, <3>3 DEF L
  <2>2. Cardinality(P) \in Nat
    BY <1>0, RankType
  <2>3. Cardinality(P) <= Cardinality(1..Len(ring))
    BY <2>1, FS_Subset
  <2> QED BY <2>1, <2>2, <2>3
<1>2. \A n \in 1..N : at(n) \in P /\ Rank(P, at(n)) = n
  <2> TAKE n \in 1..N
  <2>1. \E i \in P : Rank(P, i) = n
    BY <1>0, RankOrder
  <2> QED BY <2>1
<1>3. Only(ring, P) = [n \in 1..N |-> ring[at(n)]]
  BY DEF Only, Rank
<1> HIDE DEF at, N
<1>4. \A n \in 1..N : ring[at(n)] \in S
  BY <1>2, ElementOfSeq
<1>5. Only(ring, P) \in Seq(S) /\ Len(Only(ring, P)) = N
  BY <1>1, <1>3, <1>4
<1>6. \A i \in P : Rank(P, i) \in 1..N /\ at(Rank(P, i)) = i
  <2> TAKE i \in P
  <2>1. Rank(P, i) \in 1..N
    BY <1>0, RankOrder DEF N
  <2>2. at(Rank(P, i)) \in P /\ Rank(P, at(Rank(P, i))) = Rank(P, i)
    BY <1>2, <2>1
  <2>3. \A j, k \in P : j < k => Rank(P, j) < Rank(P, k)
    BY <1>0, RankOrder
  <2> DEFINE j == at(Rank(P, i))
  <2>4. j \in P /\ Rank(P, j) = Rank(P, i) /\ Rank(P, i) \in Nat
    BY <2>1, <2>2, <1>1
  <2> HIDE DEF j, Rank
  <2>5. i \in Int /\ j \in Int /\ ~(j < i) /\ ~(i < j)
    BY <2>3, <2>4, <1>0
  <2>6. j = i
    BY <2>5
  <2> QED BY <2>1, <2>6 DEF j
<1>7. \A i \in P : Only(ring, P)[Rank(P, i)] = ring[i]
  <2> HIDE DEF Rank
  <2> QED BY <1>3, <1>6
<1>8. \A n \in 1..N : \E i \in P : Rank(P, i) = n /\ Only(ring, P)[n] = ring[i]
  <2> HIDE DEF Rank
  <2> QED BY <1>2, <1>3
<1> QED BY <1>1, <1>5, <1>7, <1>8 DEF N

(* The accounting size of a ring.                                             *)

IsSum(f, ring) == f[0] = 0 /\ \A n \in 1..Len(ring) : f[n] = f[n - 1] + ring[n].size

LEMMA SumUnique ==
    ASSUME NEW ring \in Seq(Frames), NEW f, NEW g, IsSum(f, ring), IsSum(g, ring)
    PROVE  f[Len(ring)] = g[Len(ring)]
<1> DEFINE S == {n \in Nat : n <= Len(ring) => f[n] = g[n]}
<1>1. Len(ring) \in Nat
  BY LenProperties
<1>2. 0 \in S
  BY DEF IsSum
<1>3. ASSUME NEW n \in S PROVE n + 1 \in S
  <2> SUFFICES ASSUME n + 1 <= Len(ring) PROVE f[n + 1] = g[n + 1]
    OBVIOUS
  <2>1. n + 1 \in 1..Len(ring) /\ (n + 1) - 1 = n /\ f[n] = g[n]
    BY <1>1
  <2> QED BY <2>1 DEF IsSum
<1>4. S = Nat
  <2> HIDE DEF S
  <2>1. S \in SUBSET Nat
    BY DEF S
  <2> QED BY <1>2, <1>3, <2>1, NatSetInduction
<1> QED BY <1>1, <1>4

LEMMA SumExists ==
    ASSUME NEW ring \in Seq(Frames)
    PROVE  \E f \in [0..Len(ring) -> Nat] : IsSum(f, ring)
<1> DEFINE Upto(k, f) == f[0] = 0 /\ \A n \in 1..k : n <= Len(ring) => f[n] = f[n - 1] + ring[n].size
           S == {k \in Nat : \E f \in [0..k -> Nat] : Upto(k, f)}
<1>1. Len(ring) \in Nat /\ \A n \in 1..Len(ring) : ring[n].size \in Nat
  <2>1. \A n \in 1..Len(ring) : ring[n] \in Frames
    BY ElementOfSeq
  <2> QED BY <2>1, LenProperties DEF Frames
<1>2. 0 \in S
  <2>1. [n \in 0..0 |-> 0] \in [0..0 -> Nat] /\ Upto(0, [n \in 0..0 |-> 0])
    OBVIOUS
  <2> QED BY <2>1
<1>3. ASSUME NEW k \in S PROVE k + 1 \in S
  <2>1. PICK f \in [0..k -> Nat] : Upto(k, f)
    OBVIOUS
  <2> DEFINE g == [n \in 0..(k + 1) |-> IF n <= k THEN f[n] ELSE IF n <= Len(ring) THEN f[k] + ring[n].size ELSE 0]
  <2>2. k \in Nat /\ f[k] \in Nat
    OBVIOUS
  <2>3. g \in [0..(k + 1) -> Nat]
    BY <1>1, <2>2
  <2>4. \A n \in 1..(k + 1) : n <= Len(ring) => g[n] = g[n - 1] + ring[n].size
    <3> TAKE n \in 1..(k + 1)
    <3> HAVE n <= Len(ring)
    <3>1. CASE n <= k
      <4>1. g[n] = f[n] /\ g[n - 1] = f[n - 1] /\ n \in 1..k
        BY <2>2, <3>1
      <4> QED BY <2>1, <4>1
    <3>2. CASE n = k + 1
      <4>1. g[n] = f[k] + ring[n].size /\ n - 1 = k /\ g[k] = f[k]
        BY <2>2, <3>2
      <4> QED BY <4>1
    <3> QED BY <2>2, <3>1, <3>2
  <2>5. g[0] = 0
    BY <2>1, <2>2
  <2> HIDE DEF g
  <2>6. \E h \in [0..(k + 1) -> Nat] : Upto(k + 1, h)
    BY <2>3, <2>4, <2>5
  <2>7. \A n \in Nat : (\E h \in [0..n -> Nat] : Upto(n, h)) => n \in S
    OBVIOUS
  <2> HIDE DEF Upto, S
  <2>8. k + 1 \in Nat
    BY <2>2
  <2> QED BY <2>6, <2>7, <2>8
<1>4. S = Nat
  <2> HIDE DEF S
  <2>1. S \in SUBSET Nat
    BY DEF S
  <2> QED BY <1>2, <1>3, <2>1, NatSetInduction
<1>5. PICK f \in [0..Len(ring) -> Nat] : Upto(Len(ring), f)
  BY <1>1, <1>4
<1> QED BY <1>1, <1>5 DEF IsSum

LEMMA SizeIsSum ==
    ASSUME NEW ring \in Seq(Frames), NEW f, IsSum(f, ring)
    PROVE  SizeOf(ring) = f[Len(ring)] /\ SizeOf(ring) \in Nat
<1> DEFINE Sum(g) == g = [n \in 0..Len(ring) |-> IF n = 0 THEN 0 ELSE g[n - 1] + ring[n].size]
           sum == CHOOSE g : Sum(g)
<1>0. Len(ring) \in Nat
  BY LenProperties
<1>1. SizeOf(ring) = sum[Len(ring)]
  BY DEF SizeOf
<1>2. PICK h \in [0..Len(ring) -> Nat] : IsSum(h, ring)
  BY SumExists
<1>3. Sum(h)
  <2>1. \A n \in 0..Len(ring) : h[n] = IF n = 0 THEN 0 ELSE h[n - 1] + ring[n].size
    BY <1>0, <1>2 DEF IsSum
  <2> QED BY <2>1
<1>4. Sum(sum)
  <2> HIDE DEF Sum
  <2> QED BY <1>3
<1> HIDE DEF sum
<1>5. IsSum(sum, ring)
  BY <1>0, <1>4 DEF IsSum
<1>6. sum[Len(ring)] = f[Len(ring)] /\ sum[Len(ring)] = h[Len(ring)]
  BY <1>2, <1>5, SumUnique
<1>7. h[Len(ring)] \in Nat
  BY <1>0
<1> QED BY <1>1, <1>6, <1>7

LEMMA SizeOfEmpty == SizeOf(<<>>) = 0
<1> DEFINE f == [n \in 0..0 |-> 0]
<1>1. <<>> \in Seq(Frames) /\ Len(<<>>) = 0
  OBVIOUS
<1>2. IsSum(f, <<>>)
  BY <1>1 DEF IsSum
<1>3. f[0] = 0
  OBVIOUS
<1> HIDE DEF f
<1> QED BY <1>1, <1>2, <1>3, SizeIsSum

LEMMA SizeOfAppend ==
    ASSUME NEW ring \in Seq(Frames), NEW e \in Frames
    PROVE  SizeOf(Append(ring, e)) = SizeOf(ring) + e.size
<1> DEFINE new == Append(ring, e)
<1>1. /\ new \in Seq(Frames) /\ Len(ring) \in Nat /\ Len(new) = Len(ring) + 1
      /\ new[Len(ring) + 1] = e /\ \A n \in 1..Len(ring) : new[n] = ring[n]
  BY LenProperties, AppendProperties
<1> HIDE DEF new
<1>2. PICK f \in [0..Len(new) -> Nat] : IsSum(f, new)
  BY <1>1, SumExists
<1>3. IsSum(f, ring)
  BY <1>1, <1>2 DEF IsSum
<1>4. f[Len(new)] = f[Len(ring)] + e.size
  BY <1>1, <1>2 DEF IsSum
<1> QED BY <1>1, <1>2, <1>3, <1>4, SizeIsSum DEF new

LEMMA SizeOfTail ==
    ASSUME NEW ring \in Seq(Frames), ring # <<>>
    PROVE  SizeOf(Tail(ring)) = SizeOf(ring) - Head(ring).size
<1> DEFINE new == Tail(ring)
<1>1. /\ new \in Seq(Frames) /\ Len(new) \in Nat /\ Len(ring) = Len(new) + 1
      /\ Head(ring) = ring[1] /\ \A n \in 1..Len(new) : new[n] = ring[n + 1]
  BY LenProperties, HeadTailProperties
<1> HIDE DEF new
<1>2. PICK f \in [0..Len(ring) -> Nat] : IsSum(f, ring)
  BY SumExists
<1> DEFINE g == [n \in 0..Len(new) |-> f[n + 1] - ring[1].size]
<1>3. f[1] = ring[1].size /\ ring[1].size \in Nat
  <2>1. ring[1] \in Frames
    BY <1>1, ElementOfSeq
  <2> QED BY <1>1, <1>2, <2>1 DEF IsSum, Frames
<1>4. IsSum(g, new)
  <2>1. g[0] = 0
    BY <1>1, <1>3
  <2>2. ASSUME NEW n \in 1..Len(new) PROVE g[n] = g[n - 1] + new[n].size
    <3>1. /\ n + 1 \in 1..Len(ring) /\ (n + 1) - 1 = n /\ n \in 0..Len(new) /\ n - 1 \in 0..Len(new)
          /\ n \in 0..Len(ring) /\ n + 1 \in 0..Len(ring)
      BY <1>1
    <3>2. f[n + 1] = f[n] + ring[n + 1].size /\ f[n] \in Nat /\ f[n + 1] \in Nat
      BY <1>1, <1>2, <3>1 DEF IsSum
    <3>3. g[n] = f[n + 1] - ring[1].size /\ g[n - 1] = f[n] - ring[1].size
      BY <3>1
    <3>4. ring[n + 1] \in Frames /\ ring[n + 1].size \in Nat
      <4>1. ring[n + 1] \in Frames
        BY <3>1, ElementOfSeq
      <4> QED BY <4>1 DEF Frames
    <3>5. new[n] = ring[n + 1]
      BY <1>1
    <3> HIDE DEF g
    <3> QED BY <1>3, <3>2, <3>3, <3>4, <3>5
  <2> QED BY <2>1, <2>2 DEF IsSum
<1>5. g[Len(new)] = f[Len(ring)] - ring[1].size
  BY <1>1
<1> HIDE DEF g
<1> QED BY <1>1, <1>2, <1>4, <1>5, SizeIsSum DEF new

\* What is taken out of a ring and what stays make up its size.
LEMMA SizeOfParts ==
    ASSUME NEW ring \in Seq(Frames), NEW P \in SUBSET (1..Len(ring))
    PROVE  SizeOf(ring) = SizeOf(Only(ring, P)) + SizeOf(Only(ring, (1..Len(ring)) \ P))
<1> DEFINE N == Len(ring)
           Q == (1..N) \ P
           p == Only(ring, P)
           q == Only(ring, Q)
<1>0. N \in Nat /\ P \in SUBSET (1..N) /\ Q \in SUBSET (1..N)
  BY LenProperties
<1>1. /\ p \in Seq(Frames) /\ Len(p) = Cardinality(P) /\ Cardinality(P) \in Nat
      /\ \A i \in P : p[Rank(P, i)] = ring[i]
  BY OnlyFrames
<1>2. /\ q \in Seq(Frames) /\ Len(q) = Cardinality(Q) /\ Cardinality(Q) \in Nat
      /\ \A i \in Q : q[Rank(Q, i)] = ring[i]
  BY <1>0, OnlyFrames
<1>3. PICK f \in [0..Len(p) -> Nat] : IsSum(f, p)
  BY <1>1, SumExists
<1>4. PICK g \in [0..Len(q) -> Nat] : IsSum(g, q)
  BY <1>2, SumExists
<1> DEFINE h == [i \in 0..N |-> f[Rank(P, i)] + g[Rank(Q, i)]]
<1> HIDE DEF N, Q, p, q
<1>5. ASSUME NEW i \in 0..N
      PROVE  Rank(P, i) \in 0..Len(p) /\ Rank(Q, i) \in 0..Len(q)
  <2>1. i <= N /\ N \in 0..N
    BY <1>0
  <2>2. /\ Rank(P, i) \in Nat /\ Rank(P, i) <= Rank(P, N) /\ Rank(P, N) = Cardinality(P)
    <3>1. Rank(P, i) <= Rank(P, N)
      BY <1>0, <2>1, RankGrows DEF N
    <3>2. Rank(P, i) \in Nat /\ Rank(P, N) = Cardinality(P)
      BY <1>0, RankType DEF N
    <3> QED BY <3>1, <3>2
  <2>3. /\ Rank(Q, i) \in Nat /\ Rank(Q, i) <= Rank(Q, N) /\ Rank(Q, N) = Cardinality(Q)
    <3>1. Rank(Q, i) <= Rank(Q, N)
      BY <1>0, <2>1, RankGrows
    <3>2. Rank(Q, i) \in Nat /\ Rank(Q, N) = Cardinality(Q)
      BY <1>0, RankType
    <3> QED BY <3>1, <3>2
  <2> QED BY <1>1, <1>2, <2>2, <2>3
<1>6. h[0] = 0
  <2>1. Rank(P, 0) = 0 /\ Rank(Q, 0) = 0
    BY <1>0, RankType DEF N
  <2> QED BY <1>0, <1>3, <1>4, <2>1 DEF IsSum
<1>7. ASSUME NEW i \in 1..N PROVE h[i] = h[i - 1] + ring[i].size
  <2>1. i \in 0..N /\ i - 1 \in 0..N
    BY <1>0
  <2>2. /\ Rank(P, i) = IF i \in P THEN Rank(P, i - 1) + 1 ELSE Rank(P, i - 1)
        /\ Rank(P, i - 1) \in 0..Len(p) /\ Rank(P, i) \in 0..Len(p)
    <3>1. Rank(P, i) = IF i \in P THEN Rank(P, i - 1) + 1 ELSE Rank(P, i - 1)
      BY <1>0, RankNext
    <3>2. i - 1 \in 0..N => Rank(P, i - 1) \in 0..Len(p)
      BY <1>5
    <3>3. Rank(P, i) \in 0..Len(p)
      BY <1>5, <2>1
    <3> QED BY <2>1, <3>1, <3>2, <3>3
  <2>3. /\ Rank(Q, i) = IF i \in Q THEN Rank(Q, i - 1) + 1 ELSE Rank(Q, i - 1)
        /\ Rank(Q, i - 1) \in 0..Len(q) /\ Rank(Q, i) \in 0..Len(q)
    <3>1. Rank(Q, i) = IF i \in Q THEN Rank(Q, i - 1) + 1 ELSE Rank(Q, i - 1)
      BY <1>0, RankNext
    <3>2. i - 1 \in 0..N => Rank(Q, i - 1) \in 0..Len(q)
      BY <1>5
    <3>3. Rank(Q, i) \in 0..Len(q)
      BY <1>5, <2>1
    <3> QED BY <2>1, <3>1, <3>2, <3>3
  <2>4. h[i] = f[Rank(P, i)] + g[Rank(Q, i)] /\ h[i - 1] = f[Rank(P, i - 1)] + g[Rank(Q, i - 1)]
    BY <2>1
  <2>5. ring[i].size \in Nat
    <3>1. ring[i] \in Frames
      BY ElementOfSeq DEF N
    <3> QED BY <3>1 DEF Frames
  <2>6. f[Rank(P, i - 1)] \in Nat /\ g[Rank(Q, i - 1)] \in Nat
    BY <2>2, <2>3
  <2> HIDE DEF h, Rank
  <2>7. CASE i \in P
    <3>0. i \notin Q
      BY <2>7 DEF Q
    <3>1. p[Rank(P, i)] = ring[i] /\ Rank(P, i) \in 1..Len(p) /\ Rank(P, i) - 1 = Rank(P, i - 1)
      BY <1>1, <2>2, <2>7
    <3>2. f[Rank(P, i)] = f[Rank(P, i - 1)] + ring[i].size
      BY <1>3, <3>1 DEF IsSum
    <3>3. Rank(Q, i) = Rank(Q, i - 1)
      BY <2>3, <3>0
    <3> QED BY <2>4, <2>5, <2>6, <3>2, <3>3
  <2>8. CASE i \notin P
    <3>0. i \in Q
      BY <2>8 DEF Q
    <3>4. Rank(Q, i) = Rank(Q, i - 1) + 1 /\ Rank(Q, i - 1) \in Nat
      BY <2>3, <3>0
    <3>5. Rank(Q, i) \in 1..Len(q) /\ Rank(Q, i) - 1 = Rank(Q, i - 1)
      BY <1>2, <2>3, <3>4
    <3>1. q[Rank(Q, i)] = ring[i] /\ Rank(Q, i) \in 1..Len(q) /\ Rank(Q, i) - 1 = Rank(Q, i - 1)
      BY <1>2, <3>0, <3>5
    <3>2. g[Rank(Q, i)] = g[Rank(Q, i - 1)] + ring[i].size
      BY <1>4, <3>1 DEF IsSum
    <3>3. Rank(P, i) = Rank(P, i - 1)
      BY <2>2, <2>8
    <3> QED BY <2>4, <2>5, <2>6, <3>2, <3>3
  <2> QED BY <2>7, <2>8
<1>8. h[N] = f[Len(p)] + g[Len(q)]
  <2>1. Rank(P, N) = Len(p) /\ Rank(Q, N) = Len(q)
    BY <1>0, <1>1, <1>2, RankType DEF N
  <2> QED BY <1>0, <2>1
<1> HIDE DEF h
<1>9. SizeOf(ring) = h[N]
  BY <1>6, <1>7, SizeIsSum DEF IsSum, N
<1>10. SizeOf(p) = f[Len(p)] /\ SizeOf(q) = g[Len(q)]
  BY <1>1, <1>2, <1>3, <1>4, SizeIsSum
<1> QED BY <1>8, <1>9, <1>10 DEF p, q, Q, N

(* Sequences of frames.                                                       *)

LEMMA FramesOf ==
    ASSUME NEW s \in Seq(Frames)
    PROVE  /\ Len(s) \in Nat /\ \A n \in 1..Len(s) : s[n] \in Frames
           /\ \A e \in States(s) : e \in Frames /\ IsState(e)
<1>1. Len(s) \in Nat /\ \A n \in 1..Len(s) : s[n] \in Frames
  BY LenProperties, ElementOfSeq
<1> QED BY <1>1 DEF States

LEMMA NoFrames == States(<<>>) = {} /\ Ascends(<<>>) /\ ~HasGap(<<>>)
<1>1. Len(<<>>) = 0
  OBVIOUS
<1> QED BY <1>1 DEF States, Ascends, HasGap

LEMMA Appended ==
    ASSUME NEW s \in Seq(Frames), NEW e \in Frames
    PROVE  LET t == Append(s, e) IN
           /\ t \in Seq(Frames) /\ Len(t) = Len(s) + 1 /\ t[Len(s) + 1] = e
           /\ \A n \in 1..Len(s) : t[n] = s[n]
           /\ States(t) = States(s) \cup (IF IsState(e) THEN {e} ELSE {})
           /\ HasGap(t) <=> HasGap(s) \/ e.class = "gap"
           /\ \A f : GapBefore(s, f) => GapBefore(t, f)
           /\ Ascends(s) /\ (IsState(e) => \A f \in States(s) : f.rev < e.rev) => Ascends(t)
<1> DEFINE t == Append(s, e)
<1>1. /\ t \in Seq(Frames) /\ Len(t) = Len(s) + 1 /\ Len(s) \in Nat /\ t[Len(s) + 1] = e
      /\ \A n \in 1..Len(s) : t[n] = s[n]
  BY LenProperties, AppendProperties
<1> HIDE DEF t
<1>2. States(t) = States(s) \cup (IF IsState(e) THEN {e} ELSE {})
  <2>1. ASSUME NEW f \in States(t) PROVE f \in States(s) \/ (IsState(e) /\ f = e)
    <3>1. PICK n \in 1..Len(t) : IsState(t[n]) /\ f = t[n]
      BY DEF States
    <3>2. n \in 1..Len(s) \/ n = Len(s) + 1
      BY <1>1
    <3> QED BY <1>1, <3>1, <3>2 DEF States
  <2>2. ASSUME NEW f \in States(s) PROVE f \in States(t)
    <3>1. PICK n \in 1..Len(s) : IsState(s[n]) /\ f = s[n]
      BY DEF States
    <3>2. n \in 1..Len(t) /\ t[n] = s[n]
      BY <1>1
    <3> QED BY <3>1, <3>2 DEF States
  <2>3. IsState(e) => e \in States(t)
    <3>1. Len(s) + 1 \in 1..Len(t)
      BY <1>1
    <3> QED BY <1>1, <3>1 DEF States
  <2> QED BY <2>1, <2>2, <2>3
<1>3. HasGap(t) <=> HasGap(s) \/ e.class = "gap"
  <2>1. \A n \in 1..Len(t) : n \in 1..Len(s) \/ n = Len(s) + 1
    BY <1>1
  <2>2. \A n \in 1..Len(s) : n \in 1..Len(t)
    BY <1>1
  <2>3. Len(s) + 1 \in 1..Len(t)
    BY <1>1
  <2> QED BY <1>1, <2>1, <2>2, <2>3 DEF HasGap
<1>4. ASSUME NEW f, GapBefore(s, f) PROVE GapBefore(t, f)
  <2>1. PICK n \in 1..Len(s) : s[n].class = "gap" /\ \A m \in 1..n : s[m] # f
    BY <1>4 DEF GapBefore
  <2>2. n \in 1..Len(t) /\ \A m \in 1..n : m \in 1..Len(s)
    BY <1>1
  <2> QED BY <1>1, <2>1, <2>2 DEF GapBefore
<1>5. ASSUME Ascends(s), IsState(e) => \A f \in States(s) : f.rev < e.rev PROVE Ascends(t)
  <2> SUFFICES ASSUME NEW n \in 1..Len(t), NEW m \in 1..Len(t), n < m, IsState(t[n]), IsState(t[m])
               PROVE  t[n].rev < t[m].rev
    BY DEF Ascends
  <2>1. n \in 1..Len(s) /\ (m \in 1..Len(s) \/ m = Len(s) + 1)
    BY <1>1
  <2>2. CASE m \in 1..Len(s)
    BY <1>1, <1>5, <2>1, <2>2 DEF Ascends
  <2>3. CASE m = Len(s) + 1
    <3>1. t[n] \in States(s) /\ t[m] = e
      BY <1>1, <2>1, <2>3 DEF States
    <3> QED BY <1>5, <3>1
  <2> QED BY <2>1, <2>2, <2>3
<1> QED BY <1>1, <1>2, <1>3, <1>4, <1>5 DEF t

LEMMA Tailed ==
    ASSUME NEW s \in Seq(Frames), s # <<>>
    PROVE  LET t == Tail(s) IN
           /\ t \in Seq(Frames) /\ Len(t) \in Nat /\ Len(s) = Len(t) + 1 /\ Head(s) = s[1] /\ Head(s) \in Frames
           /\ \A n \in 1..Len(t) : t[n] = s[n + 1]
           /\ States(s) = States(t) \cup (IF IsState(Head(s)) THEN {Head(s)} ELSE {})
           /\ HasGap(s) <=> HasGap(t) \/ Head(s).class = "gap"
           /\ \A f : GapBefore(s, f) /\ Head(s).class # "gap" => GapBefore(t, f)
           /\ ~GapBefore(s, Head(s))
           /\ Ascends(s) => Ascends(t) /\ (IsState(Head(s)) => \A f \in States(t) : Head(s).rev < f.rev)
<1> DEFINE t == Tail(s)
           h == Head(s)
<1>1. /\ t \in Seq(Frames) /\ Len(t) \in Nat /\ Len(s) = Len(t) + 1 /\ h = s[1]
      /\ \A n \in 1..Len(t) : t[n] = s[n + 1]
  BY LenProperties, HeadTailProperties
<1> HIDE DEF t, h
<1>0. h \in Frames
  <2>1. 1 \in 1..Len(s)
    BY <1>1
  <2> QED BY <1>1, <2>1, ElementOfSeq
<1>a. \A n \in 1..Len(s) : n = 1 \/ (n - 1 \in 1..Len(t) /\ s[n] = t[n - 1])
  <2> TAKE n \in 1..Len(s)
  <2>1. n # 1 => n - 1 \in 1..Len(t) /\ (n - 1) + 1 = n
    BY <1>1
  <2> QED BY <1>1, <2>1
<1>b. \A n \in 1..Len(t) : n + 1 \in 1..Len(s)
  BY <1>1
<1>c. 1 \in 1..Len(s)
  BY <1>1
<1>2. States(s) = States(t) \cup (IF IsState(h) THEN {h} ELSE {})
  <2>1. ASSUME NEW f \in States(s) PROVE f \in States(t) \/ (IsState(h) /\ f = h)
    <3>1. PICK n \in 1..Len(s) : IsState(s[n]) /\ f = s[n]
      BY DEF States
    <3> QED BY <1>1, <1>a, <3>1 DEF States
  <2>2. ASSUME NEW f \in States(t) PROVE f \in States(s)
    <3>1. PICK n \in 1..Len(t) : IsState(t[n]) /\ f = t[n]
      BY DEF States
    <3> QED BY <1>1, <1>b, <3>1 DEF States
  <2>3. IsState(h) => h \in States(s)
    BY <1>1, <1>c DEF States
  <2> QED BY <2>1, <2>2, <2>3
<1>3. HasGap(s) <=> HasGap(t) \/ h.class = "gap"
  BY <1>1, <1>a, <1>b, <1>c DEF HasGap
<1>4. ASSUME NEW f, GapBefore(s, f), h.class # "gap" PROVE GapBefore(t, f)
  <2>1. PICK n \in 1..Len(s) : s[n].class = "gap" /\ \A m \in 1..n : s[m] # f
    BY <1>4 DEF GapBefore
  <2>2. n # 1 /\ n - 1 \in 1..Len(t) /\ t[n - 1] = s[n]
    BY <1>1, <1>4, <1>a, <2>1
  <2>3. \A m \in 1..(n - 1) : m + 1 \in 1..n /\ m \in 1..Len(t)
    BY <1>1, <2>2
  <2>4. \A m \in 1..(n - 1) : t[m] # f
    BY <1>1, <2>1, <2>3
  <2> QED BY <2>1, <2>2, <2>4 DEF GapBefore
<1>5. ~GapBefore(s, h)
  <2>1. \A n \in 1..Len(s) : 1 \in 1..n
    BY <1>1
  <2> QED BY <1>1, <2>1 DEF GapBefore
<1>6. ASSUME Ascends(s) PROVE Ascends(t)
  <2> SUFFICES ASSUME NEW n \in 1..Len(t), NEW m \in 1..Len(t), n < m, IsState(t[n]), IsState(t[m])
               PROVE  t[n].rev < t[m].rev
    BY DEF Ascends
  <2>1. n + 1 < m + 1 /\ t[n] = s[n + 1] /\ t[m] = s[m + 1]
    BY <1>1
  <2> QED BY <1>6, <1>b, <2>1 DEF Ascends
<1>7. ASSUME Ascends(s), IsState(h), NEW f \in States(t) PROVE h.rev < f.rev
  <2>1. PICK n \in 1..Len(t) : IsState(t[n]) /\ f = t[n]
    BY DEF States
  <2>2. n + 1 \in 1..Len(s) /\ 1 < n + 1 /\ s[n + 1] = f
    BY <1>1, <1>b, <2>1
  <2> QED BY <1>1, <1>7, <1>c, <2>1, <2>2 DEF Ascends
<1> QED BY <1>0, <1>1, <1>2, <1>3, <1>4, <1>5, <1>6, <1>7 DEF t, h

\* A gap comes before every state frame that is not there.
LEMMA GapFirst ==
    ASSUME NEW s \in Seq(Frames), HasGap(s), NEW e, IsState(e), e \notin States(s)
    PROVE  GapBefore(s, e)
<1>1. PICK n \in 1..Len(s) : s[n].class = "gap"
  BY DEF HasGap
<1>2. Len(s) \in Nat /\ \A m \in 1..n : m \in 1..Len(s)
  BY LenProperties
<1>3. \A m \in 1..n : s[m] # e
  BY <1>2 DEF States
<1> QED BY <1>1, <1>3 DEF GapBefore

LEMMA Prefixed ==
    ASSUME NEW s \in Seq(Frames), NEW k \in 0..Len(s)
    PROVE  LET t == SubSeq(s, 1, k) IN
           /\ t \in Seq(Frames) /\ Len(t) = k /\ \A n \in 1..k : n \in 1..Len(s) /\ t[n] = s[n]
           /\ States(t) \subseteq States(s)
           /\ Ascends(s) => Ascends(t)
<1> DEFINE t == SubSeq(s, 1, k)
<1>1. t \in Seq(Frames) /\ Len(t) = k /\ Len(s) \in Nat /\ \A n \in 1..k : t[n] = s[n]
  BY LenProperties, ElementOfSeq, SubSeqProperties
<1> HIDE DEF t
<1>2. \A n \in 1..k : n \in 1..Len(s)
  BY <1>1
<1> QED BY <1>1, <1>2 DEF t, States, Ascends

(* The mailbox.                                                               *)

LEMMA Constants ==
    /\ NSteps \in Nat /\ Dynamic \subseteq Steps /\ Sizes \subseteq Nat /\ MaxEvents \in Nat /\ MaxBytes \in Nat
    /\ MaxTries \in Nat /\ MaxFails \in Nat /\ Rows = 0..NSteps /\ Steps = 1..NSteps /\ 0 \in Rows /\ Steps \subseteq Rows
BY BrokerAssumption, TuiAssumption DEF Rows, Steps

Box(m) == /\ m \in Mailboxes
          /\ Len(m.ring) <= MaxEvents /\ m.bytes <= MaxBytes /\ m.bytes = SizeOf(m.ring)

LEMMA KeptStates ==
    ASSUME NEW s \in Seq(Frames), NEW P \in SUBSET (1..Len(s)), \A n \in 1..Len(s) : IsState(s[n]) => n \in P
    PROVE  /\ Only(s, P) \in Seq(Frames) /\ Len(Only(s, P)) <= Len(s)
           /\ States(Only(s, P)) = States(s)
           /\ Ascends(s) => Ascends(Only(s, P))
<1> DEFINE t == Only(s, P)
           N == Cardinality(P)
<1>0. Len(s) \in Nat /\ P \in SUBSET (1..Len(s))
  BY LenProperties
<1>1. /\ t \in Seq(Frames) /\ Len(t) = N /\ N \in Nat /\ N <= Len(s)
      /\ \A i \in P : t[Rank(P, i)] = s[i]
      /\ \A n \in 1..N : \E i \in P : Rank(P, i) = n /\ t[n] = s[i]
  BY OnlyFrames
<1>2. /\ \A i \in P : Rank(P, i) \in 1..N
      /\ \A i, k \in P : i < k => Rank(P, i) < Rank(P, k)
  BY <1>0, RankOrder
<1> HIDE DEF t, N
<1>3. States(t) = States(s)
  <2>1. ASSUME NEW e \in States(t) PROVE e \in States(s)
    <3>1. PICK n \in 1..Len(t) : IsState(t[n]) /\ e = t[n]
      BY DEF States
    <3>2. PICK i \in P : t[n] = s[i]
      BY <1>1, <3>1
    <3> QED BY <1>0, <3>1, <3>2 DEF States
  <2>2. ASSUME NEW e \in States(s) PROVE e \in States(t)
    <3>1. PICK n \in 1..Len(s) : IsState(s[n]) /\ e = s[n]
      BY DEF States
    <3>2. n \in P /\ Rank(P, n) \in 1..Len(t) /\ t[Rank(P, n)] = e
      BY <1>1, <1>2, <3>1
    <3> HIDE DEF Rank
    <3> QED BY <3>1, <3>2 DEF States
  <2> QED BY <2>1, <2>2
<1>4. ASSUME Ascends(s) PROVE Ascends(t)
  <2> SUFFICES ASSUME NEW n \in 1..Len(t), NEW m \in 1..Len(t), n < m, IsState(t[n]), IsState(t[m])
               PROVE  t[n].rev < t[m].rev
    BY DEF Ascends
  <2>1. PICK i \in P : Rank(P, i) = n /\ t[n] = s[i]
    BY <1>1
  <2>2. PICK k \in P : Rank(P, k) = m /\ t[m] = s[k]
    BY <1>1
  <2>3. i \in 1..Len(s) /\ k \in 1..Len(s)
    BY <1>0
  <2>4. i # k
    BY <1>1, <2>1, <2>2
  <2>5. ~(k < i)
    <3>1. SUFFICES ASSUME k < i PROVE FALSE
      OBVIOUS
    <3>2. Rank(P, k) < Rank(P, i)
      BY <1>2, <3>1
    <3> QED BY <1>1, <2>1, <2>2, <3>2
  <2>6. i < k
    BY <1>0, <2>3, <2>4, <2>5
  <2> QED BY <1>4, <2>1, <2>2, <2>3, <2>6 DEF Ascends
<1> QED BY <1>1, <1>3, <1>4 DEF t

\* evictActivityLocked takes nothing but activity.
LEMMA EvictedBox ==
    ASSUME NEW m, Box(m), NEW size \in Nat
    PROVE  LET r == Evicted(m, size) IN
           /\ Box(r) /\ r.gap = m.gap /\ r.gapRev = m.gapRev /\ r.closed = m.closed
           /\ States(r.ring) = States(m.ring) /\ (Ascends(m.ring) => Ascends(r.ring))
           /\ \A n \in 1..Len(r.ring) : \E k \in 1..Len(m.ring) : r.ring[n] = m.ring[k]
<1> DEFINE enough == {n \in 1..Len(m.ring) : HasRoom(Scanned(m, n), size)}
           last == IF enough = {} THEN Len(m.ring) ELSE Min(enough)
           gone == Activity(m.ring, last)
           kept == (1..Len(m.ring)) \ gone
           r == Evicted(m, size)
<1>1. m \in Mailboxes /\ m.ring \in Seq(Frames) /\ Len(m.ring) \in Nat /\ DOMAIN m.ring = 1..Len(m.ring)
  BY LenProperties DEF Box, Mailboxes
<1>2. last \in 0..Len(m.ring)
  <2>1. CASE enough = {}
    BY <1>1, <2>1
  <2>2. CASE enough # {}
    <3> HIDE DEF enough
    <3>1. enough \in SUBSET Nat /\ \A n \in enough : n \in 0..Len(m.ring)
      BY <1>1 DEF enough
    <3>2. \E n \in enough : \A k \in enough : n <= k
      BY <2>2, <3>1, Least
    <3>3. Min(enough) \in enough
      BY <3>2 DEF Min
    <3>4. Min(enough) \in 0..Len(m.ring)
      BY <3>1, <3>3
    <3> QED BY <2>2, <3>4
  <2> QED BY <2>1, <2>2
<1>3. r = Scanned(m, last)
  BY DEF Evicted
<1> HIDE DEF last, r
<1>4. gone \in SUBSET (1..Len(m.ring)) /\ kept \in SUBSET (1..Len(m.ring))
  BY <1>1, <1>2 DEF Activity
<1>5. gone = (1..Len(m.ring)) \ kept
  BY <1>4
<1>6. \A n \in 1..Len(m.ring) : IsState(m.ring[n]) => n \in kept
  BY DEF Activity
<1>7. r = [m EXCEPT !.ring = Only(m.ring, kept), !.bytes = m.bytes - SizeOf(Only(m.ring, gone))]
  BY <1>1, <1>3 DEF Scanned
<1> HIDE DEF gone, kept
<1>8. /\ Only(m.ring, kept) \in Seq(Frames) /\ Len(Only(m.ring, kept)) <= Len(m.ring)
      /\ States(Only(m.ring, kept)) = States(m.ring) /\ (Ascends(m.ring) => Ascends(Only(m.ring, kept)))
  BY <1>1, <1>4, <1>6, KeptStates
<1>9. /\ SizeOf(Only(m.ring, kept)) \in Nat /\ SizeOf(Only(m.ring, gone)) \in Nat
      /\ SizeOf(m.ring) = SizeOf(Only(m.ring, kept)) + SizeOf(Only(m.ring, gone))
  <2>1. Only(m.ring, gone) \in Seq(Frames)
    BY <1>1, <1>4, OnlyFrames
  <2>2. SizeOf(Only(m.ring, kept)) \in Nat /\ SizeOf(Only(m.ring, gone)) \in Nat
    BY <1>8, <2>1, SumExists, SizeIsSum
  <2>3. SizeOf(m.ring) = SizeOf(Only(m.ring, kept)) + SizeOf(Only(m.ring, gone))
    BY <1>1, <1>4, <1>5, SizeOfParts
  <2> QED BY <2>2, <2>3
<1>10. r.ring = Only(m.ring, kept) /\ r.bytes = SizeOf(Only(m.ring, kept))
  BY <1>1, <1>7, <1>9 DEF Mailboxes, Box
<1>11. r.gap = m.gap /\ r.gapRev = m.gapRev /\ r.closed = m.closed
  BY <1>1, <1>7 DEF Mailboxes
<1>12. r \in Mailboxes
  BY <1>1, <1>7, <1>8, <1>9, <1>10 DEF Mailboxes, Box
<1>13. Box(r)
  <2>1. Len(Only(m.ring, kept)) \in Nat
    BY <1>8, LenProperties
  <2> QED BY <1>1, <1>8, <1>9, <1>10, <1>12, <2>1, Constants DEF Box
<1>14. \A n \in 1..Len(r.ring) : \E k \in 1..Len(m.ring) : r.ring[n] = m.ring[k]
  <2>1. /\ Len(Only(m.ring, kept)) = Cardinality(kept)
        /\ \A n \in 1..Cardinality(kept) : \E i \in kept : Rank(kept, i) = n /\ Only(m.ring, kept)[n] = m.ring[i]
    BY <1>1, <1>4, OnlyFrames
  <2> QED BY <1>4, <1>10, <2>1
<1> QED BY <1>8, <1>10, <1>11, <1>13, <1>14 DEF r

LEMMA QueuedBox ==
    ASSUME NEW m, Box(m), NEW e \in Frames, HasRoom(m, e.size)
    PROVE  LET r == Queued(m, e) IN
           /\ Box(r) /\ r.ring = Append(m.ring, e)
           /\ r.gap = m.gap /\ r.gapRev = m.gapRev /\ r.closed = m.closed
<1> DEFINE r == Queued(m, e)
<1>1. m \in Mailboxes /\ m.ring \in Seq(Frames) /\ Len(m.ring) \in Nat /\ m.bytes \in Nat /\ e.size \in Nat
  BY LenProperties DEF Box, Mailboxes, Frames
<1>2. r = [m EXCEPT !.ring = Append(m.ring, e), !.bytes = m.bytes + e.size]
  BY <1>1 DEF Queued, Mailboxes
<1>3. /\ r.ring = Append(m.ring, e) /\ r.bytes = m.bytes + e.size
      /\ r.gap = m.gap /\ r.gapRev = m.gapRev /\ r.closed = m.closed
  BY <1>1, <1>2 DEF Mailboxes
<1>4. Append(m.ring, e) \in Seq(Frames) /\ Len(Append(m.ring, e)) = Len(m.ring) + 1
  BY <1>1, AppendProperties
<1>5. r \in Mailboxes
  <2>1. m.bytes + e.size \in Nat
    BY <1>1
  <2> DEFINE ring == Append(m.ring, e)
             bytes == m.bytes + e.size
  <2>2. ring \in Seq(Frames) /\ bytes \in Nat /\ r = [m EXCEPT !.ring = ring, !.bytes = bytes]
    BY <1>2, <1>4, <2>1
  <2> HIDE DEF ring, bytes, r
  <2> QED BY <1>1, <2>2 DEF Mailboxes
<1>6. SizeOf(Append(m.ring, e)) = m.bytes + e.size
  BY <1>1, SizeOfAppend DEF Box
<1> HIDE DEF r
<1>7. Box(r)
  BY <1>1, <1>3, <1>4, <1>5, <1>6, Constants DEF Box, HasRoom
<1> QED BY <1>3, <1>7 DEF r

LEMMA FoldedBox ==
    ASSUME NEW m, Box(m), NEW e \in Frames
    PROVE  LET r == Folded(m, e) IN Box(r) /\ r.ring = m.ring /\ r.gap = TRUE /\ r.closed = m.closed
<1> DEFINE r == Folded(m, e)
<1>1. m \in Mailboxes /\ e.rev \in Nat
  BY DEF Box, Mailboxes, Frames
<1>2. r = [m EXCEPT !.gap = TRUE, !.gapRev = IF e.rev > m.gapRev THEN e.rev ELSE m.gapRev]
  BY <1>1 DEF Folded, Mailboxes
<1>3. /\ r.ring = m.ring /\ r.bytes = m.bytes /\ r.gap = TRUE /\ r.closed = m.closed /\ r \in Mailboxes
  BY <1>1, <1>2 DEF Mailboxes
<1> QED BY <1>3 DEF Box

\* publish keeps every state frame that was queued, and folds the new one into the gap
\* when it cannot queue it; activity changes no more than the room that is left.
LEMMA Published ==
    ASSUME NEW m, Box(m), NEW e \in Frames, Ascends(m.ring), \A f \in States(m.ring) : f.rev < e.rev \/ ~IsState(e)
    PROVE  LET r == Publish(m, e) IN
           /\ Box(r) /\ r.closed = m.closed /\ Ascends(r.ring)
           /\ m.closed => r = m
           /\ ~IsState(e) => States(r.ring) = States(m.ring) /\ r.gap = m.gap
           /\ IsState(e) /\ ~m.closed =>
                 \/ r.gap /\ States(r.ring) = States(m.ring)
                 \/ /\ ~m.gap /\ ~r.gap /\ States(r.ring) = States(m.ring) \cup {e}
                    /\ \A n \in 1..Len(r.ring) : r.ring[n] = e => n = Len(r.ring)
<1> DEFINE r == Publish(m, e)
<1>0. m.gap \in BOOLEAN /\ m.closed \in BOOLEAN /\ e.size \in Nat /\ m.ring \in Seq(Frames)
  BY DEF Box, Mailboxes, Frames
<1>1. CASE m.closed
  BY <1>0, <1>1 DEF Publish
<1>2. CASE ~m.closed /\ ~IsState(e)
  <2>1. CASE HasRoom(m, e.size)
    <3>1. r = Queued(m, e)
      BY <1>2, <2>1 DEF Publish
    <3>2. Box(r) /\ r.ring = Append(m.ring, e) /\ r.gap = m.gap /\ r.closed = m.closed
      BY <2>1, <3>1, QueuedBox
    <3> HIDE DEF r
    <3>3. States(r.ring) = States(m.ring) /\ Ascends(r.ring)
      <4> DEFINE t == Append(m.ring, e)
      <4>1. /\ t \in Seq(Frames) /\ Len(t) = Len(m.ring) + 1 /\ t[Len(m.ring) + 1] = e
            /\ \A n \in 1..Len(m.ring) : t[n] = m.ring[n]
            /\ States(t) = States(m.ring) \cup (IF IsState(e) THEN {e} ELSE {})
            /\ HasGap(t) <=> HasGap(m.ring) \/ e.class = "gap"
            /\ \A f : GapBefore(m.ring, f) => GapBefore(t, f)
            /\ Ascends(m.ring) /\ (IsState(e) => \A f \in States(m.ring) : f.rev < e.rev) => Ascends(t)
        BY <1>0, Appended
      <4>2. r.ring = t
        BY <3>2
      <4> HIDE DEF t
      <4> QED BY <1>2, <4>1, <4>2
    <3> QED BY <1>2, <3>2, <3>3 DEF r
  <2>2. CASE ~HasRoom(m, e.size)
    BY <1>2, <2>2 DEF Publish
  <2> QED BY <2>1, <2>2
<1>3. CASE ~m.closed /\ IsState(e)
  <2> DEFINE room == IF HasRoom(m, e.size) THEN m ELSE Evicted(m, e.size)
  <2>1. /\ Box(room) /\ room.gap = m.gap /\ room.closed = m.closed
        /\ States(room.ring) = States(m.ring) /\ Ascends(room.ring)
    BY <1>0, EvictedBox
  <2>2. r = IF m.gap THEN Folded(m, e) ELSE IF HasRoom(room, e.size) THEN Queued(room, e) ELSE Folded(room, e)
    BY <1>3 DEF Publish, PublishState
  <2> HIDE DEF r, room
  <2>3. CASE m.gap
    <3>1. Box(r) /\ r.ring = m.ring /\ r.gap = TRUE /\ r.closed = m.closed
      BY <2>2, <2>3, FoldedBox
    <3> QED BY <1>3, <3>1 DEF r
  <2>4. CASE ~m.gap /\ ~HasRoom(room, e.size)
    <3>1. Box(r) /\ r.ring = room.ring /\ r.gap = TRUE /\ r.closed = m.closed
      BY <2>1, <2>2, <2>4, FoldedBox
    <3> QED BY <1>3, <2>1, <3>1 DEF r
  <2>5. CASE ~m.gap /\ HasRoom(room, e.size)
    <3>1. Box(r) /\ r.ring = Append(room.ring, e) /\ r.gap = m.gap /\ r.closed = m.closed
      BY <2>1, <2>2, <2>5, QueuedBox
    <3>2. room.ring \in Seq(Frames) /\ \A f \in States(room.ring) : f.rev < e.rev
      BY <1>3, <2>1 DEF Box, Mailboxes
    <3>3. /\ States(r.ring) = States(m.ring) \cup {e} /\ Ascends(r.ring)
          /\ Len(r.ring) = Len(room.ring) + 1 /\ \A n \in 1..Len(room.ring) : r.ring[n] = room.ring[n]
      BY <1>3, <2>1, <3>1, <3>2, Appended
    <3>4. ASSUME NEW n \in 1..Len(r.ring), r.ring[n] = e PROVE n = Len(r.ring)
      <4>1. Len(room.ring) \in Nat /\ e.rev \in Nat
        BY <3>2, FramesOf DEF Frames
      <4>2. SUFFICES ASSUME n \in 1..Len(room.ring) PROVE FALSE
        BY <3>3, <4>1
      <4>3. room.ring[n] = e
        BY <3>3, <3>4, <4>2
      <4>4. e \in States(room.ring)
        BY <1>3, <4>2, <4>3 DEF States
      <4> QED BY <3>2, <4>1, <4>4
    <3> QED BY <1>3, <2>5, <3>1, <3>3, <3>4 DEF r
  <2> QED BY <2>3, <2>4, <2>5
<1> QED BY <1>0, <1>1, <1>2, <1>3

\* It queues no frame but the one it is given.
LEMMA PublishedFrames ==
    ASSUME NEW m, Box(m), NEW e \in Frames
    PROVE  LET r == Publish(m, e) IN
           \A n \in 1..Len(r.ring) : r.ring[n] = e \/ \E k \in 1..Len(m.ring) : r.ring[n] = m.ring[k]
<1> DEFINE r == Publish(m, e)
           Had(s) == \A n \in 1..Len(s) : s[n] = e \/ \E k \in 1..Len(m.ring) : s[n] = m.ring[k]
           room == IF HasRoom(m, e.size) THEN m ELSE Evicted(m, e.size)
<1>1. e.size \in Nat /\ m.ring \in Seq(Frames)
  BY DEF Frames, Box, Mailboxes
<1>2. Box(room) /\ Had(room.ring)
  BY <1>1, EvictedBox
<1>3. Had(m.ring)
  OBVIOUS
<1>4. ASSUME NEW s, Box(s), HasRoom(s, e.size), Had(s.ring) PROVE Had(Queued(s, e).ring)
  <2>1. Queued(s, e).ring = Append(s.ring, e)
    BY <1>4, QueuedBox
  <2>2. s.ring \in Seq(Frames)
    BY <1>4 DEF Box, Mailboxes
  <2>3. \A n \in 1..Len(Append(s.ring, e)) :
            (n \in 1..Len(s.ring) /\ Append(s.ring, e)[n] = s.ring[n]) \/ Append(s.ring, e)[n] = e
    <3>1. /\ Len(Append(s.ring, e)) = Len(s.ring) + 1 /\ Len(s.ring) \in Nat /\ Append(s.ring, e)[Len(s.ring) + 1] = e
          /\ \A n \in 1..Len(s.ring) : Append(s.ring, e)[n] = s.ring[n]
      BY <2>2, AppendProperties, LenProperties
    <3>2. \A n \in 1..(Len(s.ring) + 1) : n \in 1..Len(s.ring) \/ n = Len(s.ring) + 1
      BY <3>1
    <3> QED BY <3>1, <3>2
  <2> QED BY <1>4, <2>1, <2>3
<1>5. ASSUME NEW s, Box(s), Had(s.ring) PROVE Had(Folded(s, e).ring)
  BY <1>5, FoldedBox
<1>6. r \in {m, Queued(m, e), Folded(m, e), Folded(room, e)} \/ (HasRoom(room, e.size) /\ r = Queued(room, e))
  BY DEF Publish, PublishState
<1>7. r = Queued(m, e) => HasRoom(m, e.size) \/ r \in {m, Folded(m, e), Folded(room, e)}
                         \/ (HasRoom(room, e.size) /\ r = Queued(room, e))
  BY DEF Publish, PublishState
<1> HIDE DEF r, room, Had
<1>8. Had(r.ring)
  BY <1>2, <1>3, <1>4, <1>5, <1>6, <1>7
<1> QED BY <1>8 DEF Had, r

(* Types.                                                                     *)

LEMMA Types ==
    ASSUME TypeOK
    PROVE  /\ Box(mb) /\ mb.ring \in Seq(Frames) /\ wire \in Seq(Frames)
           /\ mb.gap \in BOOLEAN /\ mb.closed \in BOOLEAN /\ mb.gapRev \in Nat
           /\ hist \in Seq([row : Rows, val : Nat]) /\ db \in [Rows -> Nat] /\ ended \in BOOLEAN
           /\ unsent \subseteq Rows /\ silent \subseteq Rows /\ rev \in Nat /\ up \in BOOLEAN
           /\ book \in {"live", "closed", "unknown"} /\ sub \in {"on", "off"}
           /\ view \in [Rows -> Nat] /\ over \in BOOLEAN /\ stateRev \in Nat
           /\ link \in {"dialing", "attached", "closed"}
           /\ read.at \in {"none", "asked", "sampled", "run", "reply"} /\ read.rev \in Nat
           /\ read.view \in [Rows -> Nat] /\ read.over \in BOOLEAN
           /\ again \in BOOLEAN /\ retry \in BOOLEAN
           /\ used["crashes"] \in Nat
<1>1. /\ Box(mb) /\ mb.ring \in Seq(Frames) /\ wire \in Seq(Frames)
      /\ mb.gap \in BOOLEAN /\ mb.closed \in BOOLEAN /\ mb.gapRev \in Nat
  BY DEF TypeOK, MailboxBounded, Mailboxes, Box
<1>2. read \in Reads /\ again \in BOOLEAN /\ retry \in BOOLEAN
  BY DEF TypeOK
<1>3. /\ read.at \in {"none", "asked", "sampled", "run", "reply"} /\ read.rev \in Nat
      /\ read.view \in [Rows -> Nat] /\ read.over \in BOOLEAN
  BY <1>2 DEF Reads
<1>4. used["crashes"] \in Nat
  BY DEF TypeOK, Bounds
<1> QED BY <1>1, <1>2, <1>3, <1>4 DEF TypeOK

LEMMA UseType ==
    ASSUME used \in [DOMAIN Bounds -> Nat], NEW what \in DOMAIN Bounds, Use(what)
    PROVE  /\ used' \in [DOMAIN Bounds -> Nat] /\ used'[what] = used[what] + 1
           /\ what # "crashes" => used'["crashes"] = used["crashes"]
BY DEF Use, Bounds

LEMMA BoxTypes ==
    /\ \A m : Box(m) <=> m \in Mailboxes /\ Len(m.ring) <= MaxEvents /\ m.bytes <= MaxBytes /\ m.bytes = SizeOf(m.ring)
    /\ TypeOK => Box(NewMailbox) /\ Box(NoMailbox)
<1>1. <<>> \in Seq(Frames) /\ Len(<<>>) = 0
  OBVIOUS
<1>2. TypeOK => NewMailbox \in Mailboxes /\ NoMailbox \in Mailboxes
  BY <1>1 DEF NewMailbox, NoMailbox, Mailboxes, TypeOK
<1>3. /\ NewMailbox.ring = <<>> /\ NewMailbox.bytes = 0
      /\ NoMailbox.ring = <<>> /\ NoMailbox.bytes = 0
  BY DEF NewMailbox, NoMailbox
<1> QED BY <1>1, <1>2, <1>3, SizeOfEmpty, Constants DEF Box

LEMMA FrameType ==
    ASSUME NEW class \in {"gap", "state", "activity", "eof"}, NEW row \in Rows, NEW val \in Nat, NEW end \in BOOLEAN,
           NEW at \in Nat, NEW size \in Nat
    PROVE  LET e == Frame(class, row, val, end, at, size) IN
           /\ e \in Frames /\ e.class = class /\ e.row = row /\ e.val = val /\ e.end = end /\ e.rev = at /\ e.size = size
BY DEF Frame, Frames

\* What a write leaves: versions only grow.
LEMMA WrittenType ==
    ASSUME db \in [Rows -> Nat], NEW rows \in SUBSET Rows
    PROVE  /\ Written(rows) \in [Rows -> Nat]
           /\ \A r \in Rows : Written(rows)[r] = IF r \in rows THEN db[r] + 1 ELSE db[r]
BY DEF Written

StoreType  == /\ db \in [Rows -> Nat] /\ ended \in BOOLEAN /\ unsent \subseteq Rows /\ silent \subseteq Rows
BrokerType == /\ hist \in Seq([row : Rows, val : Nat]) /\ rev \in Nat /\ book \in {"live", "closed", "unknown"} /\ up \in BOOLEAN
StreamType == /\ Box(mb) /\ sub \in {"on", "off"} /\ wire \in Seq(Frames)
ShownType  == /\ view \in [Rows -> Nat] /\ over \in BOOLEAN /\ stateRev \in Nat
              /\ link \in {"dialing", "attached", "closed"} /\ tries \in 0..MaxTries
ReadType   == read \in Reads /\ again \in BOOLEAN /\ retry \in BOOLEAN /\ broken \in BOOLEAN /\ fails \in 0..MaxFails
LEMMA TypeParts == TypeOK <=> /\ StoreType /\ BrokerType /\ StreamType /\ ShownType /\ ReadType
                              /\ used \in [DOMAIN Bounds -> Nat]
<1>1. Box(mb) <=> MailboxBounded /\ mb \in Mailboxes
  BY DEF MailboxBounded, Box
<1>2. {again, retry, broken} \subseteq BOOLEAN <=> again \in BOOLEAN /\ retry \in BOOLEAN /\ broken \in BOOLEAN
  OBVIOUS
<1> QED BY <1>1, <1>2 DEF TypeOK, StoreType, BrokerType, StreamType, ShownType, ReadType

LEMMA TypeInit == Init => TypeOK
<1> SUFFICES ASSUME Init PROVE TypeOK
  OBVIOUS
<1>1. Box(NoMailbox)
  <2>1. <<>> \in Seq(Frames) /\ Len(<<>>) = 0
    OBVIOUS
  <2>2. NoMailbox \in Mailboxes /\ NoMailbox.ring = <<>> /\ NoMailbox.bytes = 0
    BY <2>1 DEF NoMailbox, Mailboxes
  <2> QED BY <2>1, <2>2, SizeOfEmpty, Constants DEF Box
<1>2. StreamType
  BY <1>1 DEF Init, BrokerInit, StreamType
<1>0. [r \in Rows |-> 0] \in [Rows -> Nat] /\ <<>> \in Seq([row : Rows, val : Nat])
  OBVIOUS
<1>3. StoreType /\ BrokerType
  <2>1. StoreType
    BY <1>0 DEF Init, BrokerInit, StoreType
  <2>2. hist = <<>> /\ rev = 0 /\ book = "live" /\ up = TRUE
    BY DEF Init, BrokerInit
  <2>3. BrokerType
    BY <1>0, <2>2 DEF BrokerType
  <2> QED BY <2>1, <2>3
<1>4. ShownType /\ ReadType
  <2>1. NoRead \in Reads
    BY <1>0 DEF NoRead, Reads
  <2>a. read = NoRead /\ again = FALSE /\ retry = FALSE /\ broken = FALSE /\ fails = 0
    BY DEF Init
  <2>b. /\ view = [r \in Rows |-> 0] /\ over = FALSE /\ stateRev = 0 /\ link = "dialing" /\ tries = 0
    BY DEF Init
  <2>c. 0 \in 0..MaxTries /\ 0 \in 0..MaxFails
    BY Constants
  <2>2. ReadType
    BY <2>1, <2>a, <2>c DEF ReadType
  <2>3. ShownType
    BY <1>0, <2>b, <2>c DEF ShownType
  <2> QED BY <2>2, <2>3
<1>5. used \in [DOMAIN Bounds -> Nat]
  BY DEF Init, BrokerInit
<1> QED BY <1>2, <1>3, <1>4, <1>5, TypeParts

LEMMA WriterType == ASSUME TypeOK, Writer PROVE StoreType' /\ used' \in [DOMAIN Bounds -> Nat]
<1>0. StoreType /\ used \in [DOMAIN Bounds -> Nat]
  BY TypeParts
<1>w. \A rows \in SUBSET Rows : Written(rows) \in [Rows -> Nat]
  BY <1>0, WrittenType DEF StoreType
<1>1. CASE InsertSteps
  <2>1. db' = Written(Dynamic) /\ silent' = silent \cup Dynamic /\ UNCHANGED <<ended, unsent, used>>
    BY <1>1 DEF InsertSteps
  <2>2. Dynamic \in SUBSET Rows
    BY Constants
  <2> QED BY <1>0, <1>w, <2>1, <2>2 DEF StoreType
<1>2. ASSUME NEW r \in Rows, Write(r) PROVE StoreType' /\ used' = used
  <2>1. db' = Written({r}) /\ unsent' = {r} /\ silent' = silent \ {r} /\ UNCHANGED <<ended, used>>
    BY <1>2 DEF Write
  <2> QED BY <1>0, <1>w, <2>1 DEF StoreType
<1>3. ASSUME NEW s \in Steps, Rewind(s) PROVE StoreType' /\ used' \in [DOMAIN Bounds -> Nat]
  <2>1. PICK run \in {{}, {0}} : /\ db' = Written(ResetRows(s) \cup run) /\ unsent' = run
                                 /\ silent' = (silent \cup ResetRows(s)) \ run
    BY <1>3 DEF Rewind
  <2>2. ResetRows(s) \in SUBSET Rows /\ run \in SUBSET Rows
    <3>1. s \in 1..NSteps /\ Rows = 0..NSteps /\ NSteps \in Nat
      BY Constants
    <3>2. ResetRows(s) \in SUBSET Rows
      BY <3>1 DEF ResetRows
    <3> QED BY <3>1, <3>2
  <2>3. used' \in [DOMAIN Bounds -> Nat]
    <3>1. "rewinds" \in DOMAIN Bounds
      BY DEF Bounds
    <3>2. Use("rewinds")
      BY <1>3 DEF Rewind
    <3> QED BY <1>0, <3>1, <3>2, UseType
  <2>4. ended' = ended
    BY <1>3 DEF Rewind
  <2>5. (ResetRows(s) \cup run) \in SUBSET Rows
    BY <2>2
  <2> QED BY <1>0, <1>w, <2>1, <2>2, <2>3, <2>4, <2>5 DEF StoreType
<1>4. CASE EndRun
  <2>1. PICK closing \in {{}} \cup {{s} : s \in Steps} :
            db' = Written(closing \cup {0}) /\ silent' = (silent \cup closing) \ {0}
    BY <1>4 DEF EndRun
  <2>2. closing \in SUBSET Rows /\ 0 \in Rows
    BY Constants
  <2>3. (closing \cup {0}) \in SUBSET Rows
    BY <2>2
  <2>4. ended' = TRUE /\ unsent' = {0} /\ used' = used
    BY <1>4 DEF EndRun
  <2> QED BY <1>0, <1>w, <2>1, <2>2, <2>3, <2>4 DEF StoreType
<1> QED BY <1>0, <1>1, <1>2, <1>3, <1>4 DEF Writer

\* What broadcast and publish are given.
LEMMA Sending ==
    ASSUME TypeOK, Broadcast
    PROVE  \E r \in unsent, size \in Sizes :
              LET e == Frame("state", r, db[r], r = 0 /\ ended, rev + 1, size) IN
              /\ e \in Frames /\ IsState(e) /\ e.row = r /\ e.val = db[r] /\ e.rev = rev + 1
              /\ e.end = (r = 0 /\ ended) /\ mb' = Publish(mb, e)
              /\ rev' = rev + 1 /\ hist' = Append(hist, [row |-> r, val |-> db[r]])
<1>1. PICK r \in unsent, size \in Sizes :
          /\ rev' = rev + 1 /\ mb' = Publish(mb, Frame("state", r, db[r], r = 0 /\ ended, rev + 1, size))
          /\ hist' = Append(hist, [row |-> r, val |-> db[r]])
  BY DEF Broadcast, Stamp
<1>2. r \in Rows /\ db[r] \in Nat /\ rev + 1 \in Nat /\ size \in Nat /\ (r = 0 /\ ended) \in BOOLEAN
  <2>1. db \in [Rows -> Nat] /\ unsent \subseteq Rows /\ rev \in Nat
    BY DEF TypeOK
  <2>2. r \in Rows /\ db[r] \in Nat /\ rev + 1 \in Nat
    BY <2>1
  <2>3. size \in Nat
    BY Constants
  <2> QED BY <2>2, <2>3
<1>3. "state" \in {"gap", "state", "activity", "eof"}
  OBVIOUS
<1> DEFINE end == r = 0 /\ ended
           e == Frame("state", r, db[r], end, rev + 1, size)
<1>4. end \in BOOLEAN
  BY <1>2
<1> HIDE DEF end
<1> DEFINE val == db[r]
           at == rev + 1
<1>a. val \in Nat /\ at \in Nat /\ e = Frame("state", r, val, end, at, size)
  BY <1>2
<1> HIDE DEF val, at, e
<1>5. e \in Frames /\ e.class = "state" /\ e.row = r /\ e.val = db[r] /\ e.rev = rev + 1 /\ e.end = end
  <2>1. r \in Rows /\ size \in Nat
    BY <1>2
  <2>2. e \in Frames /\ e.class = "state" /\ e.row = r /\ e.val = val /\ e.rev = at /\ e.end = end
    BY <1>a, <2>1, <1>3, <1>4, FrameType
  <2> QED BY <2>2 DEF val, at
<1>6. mb' = Publish(mb, e)
  BY <1>1 DEF end, e
<1>7. IsState(e)
  BY <1>5 DEF IsState
<1> QED BY <1>1, <1>5, <1>6, <1>7 DEF e, end

LEMMA Logging ==
    ASSUME TypeOK, Log
    PROVE  \E e \in Frames : ~IsState(e) /\ e.class = "activity" /\ mb' = Publish(mb, e)
<1>1. PICK size \in Sizes : mb' = Publish(mb, Frame("activity", 0, 0, FALSE, 0, size))
  BY DEF Log
<1>2. /\ Frame("activity", 0, 0, FALSE, 0, size) \in Frames
      /\ Frame("activity", 0, 0, FALSE, 0, size).class = "activity"
  BY Constants DEF Frame, Frames
<1> QED BY <1>1, <1>2 DEF IsState

LEMMA GapFrame ==
    /\ \A n \in Nat : Gap(n) \in Frames /\ Gap(n).class = "gap" /\ ~IsState(Gap(n))
    /\ Eof \in Frames /\ Eof.class = "eof" /\ ~IsState(Eof)
BY Constants DEF Gap, Eof, Frame, Frames, IsState

LEMMA TypeNext ==
    ASSUME StoreType', BrokerType', StreamType', ShownType', ReadType', used' \in [DOMAIN Bounds -> Nat]
    PROVE  TypeOK'
<1>1. MailboxBounded' /\ mb' \in Mailboxes
  BY DEF StreamType, MailboxBounded, Box
<1>2. ({again, retry, broken} \subseteq BOOLEAN)'
  BY DEF ReadType
<1> QED BY <1>1, <1>2 DEF TypeOK, StoreType, BrokerType, StreamType, ShownType, ReadType

ReaderSame == UNCHANGED <<shown, subscription, reads>>

LEMMA ReaderTypes ==
    ASSUME TypeOK, ReaderSame PROVE ShownType' /\ ReadType'
BY TypeParts DEF ReaderSame, shown, subscription, reads, ShownType, ReadType

(* The run's goroutine announces a write.                                     *)

Announced(r, e) ==
    /\ r \in Rows /\ unsent = {r} /\ unsent' = {} /\ book = "live" /\ up
    /\ e \in Frames /\ IsState(e) /\ e.row = r /\ e.val = db[r] /\ e.rev = rev + 1 /\ e.end = (r = 0 /\ ended)
    /\ rev' = rev + 1 /\ hist' = Append(hist, [row |-> r, val |-> db[r]])
    /\ Box(mb') /\ mb'.closed = mb.closed /\ Ascends(mb'.ring)
    /\ sub = "off" => mb' = mb
    /\ \A n \in 1..Len(mb'.ring) : mb'.ring[n].class \in {"state", "activity"}
    /\ sub = "on" =>
          /\ \A f \in Due : f.rev < e.rev
          /\ \/ mb'.gap /\ States(mb'.ring) = States(mb.ring)
             \/ /\ ~mb.gap /\ ~mb'.gap /\ States(mb'.ring) = States(mb.ring) \cup {e}
                /\ \A n \in 1..Len(mb'.ring) : mb'.ring[n] = e => n = Len(mb'.ring)
    /\ UNCHANGED <<db, ended, silent, book, up, sub, wire, used>>

LEMMA Announces ==
    ASSUME IInv, Broadcast PROVE \E r, e : Announced(r, e)
<1>1. TypeOK /\ LinkOK /\ DaemonOK /\ InOrder /\ RevsOK
  BY DEF IInv
<1>2. PICK r \in unsent, size \in Sizes :
              LET e == Frame("state", r, db[r], r = 0 /\ ended, rev + 1, size) IN
              /\ e \in Frames /\ IsState(e) /\ e.row = r /\ e.val = db[r] /\ e.rev = rev + 1
              /\ e.end = (r = 0 /\ ended) /\ mb' = Publish(mb, e)
              /\ rev' = rev + 1 /\ hist' = Append(hist, [row |-> r, val |-> db[r]])
  BY <1>1, Sending
<1> DEFINE e == Frame("state", r, db[r], r = 0 /\ ended, rev + 1, size)
<1>3. /\ e \in Frames /\ IsState(e) /\ e.row = r /\ e.val = db[r] /\ e.rev = rev + 1
      /\ e.end = (r = 0 /\ ended) /\ mb' = Publish(mb, e)
      /\ rev' = rev + 1 /\ hist' = Append(hist, [row |-> r, val |-> db[r]])
  BY <1>2
<1> HIDE DEF e
<1>4. unsent' = {} /\ up /\ UNCHANGED <<db, ended, silent, book, up, sub, wire, used>>
  BY DEF Broadcast
<1>5. unsent = {r} /\ r \in Rows /\ book = "live"
  <2>1. unsent \subseteq Rows
    BY <1>1, Types
  <2> QED BY <1>1, <1>4, <2>1 DEF DaemonOK
<1>6. Box(mb) /\ rev \in Nat /\ sub \in {"on", "off"} /\ wire \in Seq(Frames) /\ mb.ring \in Seq(Frames)
  BY <1>1, Types
<1>7. \A f \in States(wire) \cup States(mb.ring) : f \in Frames /\ f.rev \in Nat
  BY <1>6, FramesOf DEF Frames
<1>8. sub = "on" => \A f \in Due : f.rev < e.rev
  BY <1>1, <1>3, <1>5, <1>6, <1>7 DEF RevsOK, Due
<1>9. sub = "off" => mb.closed /\ States(mb.ring) = {}
  BY <1>1, NoFrames DEF LinkOK, NoMailbox
<1>10. sub = "on" => ~mb.closed
  BY <1>1, <1>5 DEF LinkOK
<1>11. Ascends(mb.ring) /\ \A f \in States(mb.ring) : f.rev < e.rev \/ ~IsState(e)
  BY <1>1, <1>6, <1>8, <1>9 DEF InOrder, Due
<1>12. /\ Box(mb') /\ mb'.closed = mb.closed /\ Ascends(mb'.ring)
       /\ mb.closed => mb' = mb
       /\ IsState(e) /\ ~mb.closed =>
                 \/ mb'.gap /\ States(mb'.ring) = States(mb.ring)
                 \/ /\ ~mb.gap /\ ~mb'.gap /\ States(mb'.ring) = States(mb.ring) \cup {e}
                    /\ \A n \in 1..Len(mb'.ring) : mb'.ring[n] = e => n = Len(mb'.ring)
  <2> DEFINE q == Publish(mb, e)
  <2>1. /\ Box(q) /\ q.closed = mb.closed /\ Ascends(q.ring)
        /\ mb.closed => q = mb
        /\ IsState(e) /\ ~mb.closed =>
                 \/ q.gap /\ States(q.ring) = States(mb.ring)
                 \/ /\ ~mb.gap /\ ~q.gap /\ States(q.ring) = States(mb.ring) \cup {e}
                    /\ \A n \in 1..Len(q.ring) : q.ring[n] = e => n = Len(q.ring)
    BY <1>3, <1>6, <1>11, Published
  <2>2. mb' = q
    BY <1>3
  <2> HIDE DEF q
  <2> QED BY <2>1, <2>2
<1>14. \A n \in 1..Len(mb'.ring) : mb'.ring[n].class \in {"state", "activity"}
  <2> DEFINE q == Publish(mb, e)
  <2>1. \A n \in 1..Len(q.ring) : q.ring[n] = e \/ \E k \in 1..Len(mb.ring) : q.ring[n] = mb.ring[k]
    BY <1>3, <1>6, PublishedFrames
  <2>2. mb' = q
    BY <1>3
  <2> HIDE DEF q
  <2>3. \A k \in 1..Len(mb.ring) : mb.ring[k].class \in {"state", "activity"}
    BY <1>1 DEF LinkOK
  <2>4. e.class = "state"
    BY <1>3 DEF IsState
  <2> QED BY <2>1, <2>2, <2>3, <2>4
<1>13. Announced(r, e)
  BY <1>3, <1>4, <1>5, <1>6, <1>8, <1>9, <1>10, <1>12, <1>14 DEF Announced
<1> QED BY <1>13

(* What is due changes with the stream alone.                                 *)

LEMMA StreamSame ==
    ASSUME wire' = wire, mb' = mb
    PROVE  /\ Due' = Due /\ (GapDue' <=> GapDue)
           /\ \A e : Gapped(e)' <=> Gapped(e)
           /\ \A n : DueAt(n)' <=> DueAt(n)
<1>1. Due' = Due
  BY DEF Due
<1>2. GapDue' <=> GapDue
  BY DEF GapDue
<1>3. \A e : Gapped(e)' <=> Gapped(e)
  BY DEF Gapped
<1>4. \A n : DueAt(n)' <=> DueAt(n)
  BY <1>1 DEF DueAt
<1> QED BY <1>1, <1>2, <1>3, <1>4

LEMMA DueFrames ==
    ASSUME TypeOK
    PROVE  \A e \in Due : /\ e \in Frames /\ IsState(e) /\ e.row \in Rows /\ e.val \in Nat /\ e.rev \in Nat
                          /\ e.end \in BOOLEAN
<1>1. wire \in Seq(Frames) /\ mb.ring \in Seq(Frames)
  BY Types
<1>2. \A e \in Due : e \in Frames /\ IsState(e)
  BY <1>1, FramesOf DEF Due
<1> QED BY <1>2 DEF Frames

LEMMA InitInv == Init => IInv
<1> SUFFICES ASSUME Init PROVE IInv
  OBVIOUS
<1>1. TypeOK
  BY TypeInit
<1>2. /\ db = [r \in Rows |-> 0] /\ ended = FALSE /\ unsent = {} /\ rev = 0 /\ hist = <<>> /\ book = "live" /\ up = TRUE
      /\ mb = NoMailbox /\ sub = "off" /\ wire = <<>> /\ used = [b \in DOMAIN Bounds |-> 0]
  BY DEF Init, BrokerInit
<1>3. /\ view = [r \in Rows |-> 0] /\ over = FALSE /\ stateRev = 0 /\ link = "dialing"
      /\ read.at = "none" /\ read.rev = 0 /\ read.over = FALSE /\ again = FALSE /\ retry = FALSE
  BY DEF Init, NoRead
<1>4. wire = <<>> /\ Len(wire) = 0 /\ mb.ring = <<>> /\ Len(mb.ring) = 0 /\ mb.gap = FALSE /\ Len(hist) = 0
  BY <1>2 DEF NoMailbox
<1>5. Due = {}
  BY <1>4, NoFrames DEF Due
<1>6. LinkOK
  BY <1>2, <1>3, <1>4 DEF LinkOK
<1>7. DaemonOK
  BY <1>2, <1>3 DEF DaemonOK
<1>8. InOrder
  BY <1>4, <1>5, NoFrames DEF InOrder
<1>9. HistOK
  BY <1>2, <1>4 DEF HistOK
<1>10. RevsOK
  BY <1>2, <1>3, <1>5 DEF RevsOK
<1>11. EndOK
  BY <1>4, <1>5 DEF EndOK
<1>12. ReadOK /\ CrashOK
  BY <1>2, <1>3 DEF ReadOK, CrashOK, Pending
<1>13. ShownOK /\ OverOK
  BY <1>2, <1>3, <1>5 DEF ShownOK, OverOK, Live, Settles, Begun
<1>14. SeenOK /\ FollowOK
  BY <1>2, <1>3, <1>4 DEF SeenOK, FollowOK, Begun, Seen
<1> QED BY <1>1, <1>6, <1>7, <1>8, <1>9, <1>10, <1>11, <1>12, <1>13, <1>14 DEF IInv

(* The view's steps on its own: its reads, and an attempt to subscribe that fails. *)

LEMMA BrokerSame ==
    ASSUME IInv, UNCHANGED brokerVars
    PROVE  /\ Due' = Due /\ (GapDue' <=> GapDue) /\ (Live' <=> Live) /\ (Uncrashed' <=> Uncrashed)
           /\ \A n : Unbroken(n)' <=> Unbroken(n)
           /\ InOrder' /\ HistOK' /\ EndOK'
           /\ StoreType' /\ BrokerType' /\ StreamType' /\ used' \in [DOMAIN Bounds -> Nat]
           /\ UNCHANGED <<db, ended, unsent, silent, rev, book, hist, up, mb, sub, wire, used>>
<1>1. UNCHANGED <<db, ended, unsent, silent, rev, book, hist, up, mb, sub, wire, used>>
  BY DEF brokerVars, store, broker, stream
<1>2. /\ Due' = Due /\ (GapDue' <=> GapDue) /\ (\A e : Gapped(e)' <=> Gapped(e)) /\ \A n : DueAt(n)' <=> DueAt(n)
  BY <1>1, StreamSame
<1>3. Live' <=> Live
  BY <1>1, <1>2 DEF Live
<1>4. Uncrashed' <=> Uncrashed
  BY <1>1 DEF Uncrashed
<1>5. \A n : Unbroken(n)' <=> Unbroken(n)
  BY <1>1, <1>2 DEF Unbroken
<1>6. InOrder'
  BY <1>1, <1>2 DEF IInv, InOrder
<1>7. HistOK'
  BY <1>1 DEF IInv, HistOK
<1>8. EndOK'
  BY <1>1, <1>2 DEF IInv, EndOK
<1>9. StoreType /\ BrokerType /\ StreamType /\ used \in [DOMAIN Bounds -> Nat]
  BY TypeParts DEF IInv
<1>10. StoreType' /\ BrokerType' /\ StreamType' /\ used' \in [DOMAIN Bounds -> Nat]
  BY <1>1, <1>9 DEF StoreType, BrokerType, StreamType
<1> QED BY <1>1, <1>2, <1>3, <1>4, <1>5, <1>6, <1>7, <1>8, <1>10

\* Without a stream nothing is due.
LEMMA Detached ==
    ASSUME IInv, link # "attached"
    PROVE  sub = "off" /\ wire = <<>> /\ mb = NoMailbox /\ Due = {} /\ ~GapDue /\ ~Live
<1>1. sub = "off" /\ wire = <<>> /\ mb = NoMailbox
  BY DEF IInv, LinkOK
<1>2. mb.ring = <<>> /\ mb.gap = FALSE
  BY <1>1 DEF NoMailbox
<1>3. Due = {} /\ ~GapDue
  BY <1>1, <1>2, NoFrames DEF Due, GapDue
<1> QED BY <1>1, <1>3 DEF Live

LEMMA ResubscribeType ==
    ASSUME ShownType, NEW t \in 0..MaxTries, NEW n \in Nat, Resubscribe(t, n)
    PROVE  link' \in {"dialing", "closed"} /\ tries' \in 0..MaxTries /\ stateRev' \in Nat /\ stateRev' \in {0, n}
           /\ (link' = "dialing" => stateRev' = 0)
BY Constants DEF Resubscribe, GivesUp, Forgotten

\* Parts of the invariant that say nothing while the view has just asked, or has failed.
LEMMA ReadAnew ==
    ASSUME IInv, UNCHANGED brokerVars,
           over' => ended, stateRev' \in {0, stateRev} \/ stateRev' = read.rev,
           link' = link \/ (link # "attached" /\ link' \in {"dialing", "closed"}),
           read' = Asked \/ (read' = NoRead /\ retry'), ~again', read' = Asked => ~retry'
    PROVE  LinkOK' /\ DaemonOK' /\ RevsOK' /\ ReadOK' /\ CrashOK' /\ ShownOK' /\ OverOK' /\ SeenOK' /\ FollowOK'
<1>1. /\ Due' = Due /\ (GapDue' <=> GapDue) /\ (Live' <=> Live) /\ (Uncrashed' <=> Uncrashed)
      /\ UNCHANGED <<db, ended, unsent, silent, rev, book, hist, up, mb, sub, wire, used>>
  BY BrokerSame
<1>2. LinkOK'
  BY <1>1 DEF IInv, LinkOK, NoMailbox
<1>3. DaemonOK'
  BY <1>1 DEF IInv, DaemonOK
<1>4. read'.at \in {"none", "asked"} /\ read'.rev = 0 /\ read'.over = FALSE /\ (read'.at = "none" => retry')
  BY DEF Asked, NoRead
<1>5. /\ Pending' <=> read'.at # "none"
      /\ (read'.at = "asked" => ~retry')
  BY DEF Asked, NoRead, Pending
<1>6. ~Idle' /\ ~Begun' /\ ~Settles'
  BY <1>4, <1>5 DEF Idle, Begun, Settles
<1>7. RevsOK'
  <2>1. rev \in Nat
    BY Types DEF IInv
  <2> QED BY <1>1, <1>4, <2>1 DEF IInv, RevsOK
<1>8. ReadOK'
  BY <1>4, <1>5 DEF ReadOK
<1>9. CrashOK'
  BY <1>4, <1>5 DEF CrashOK
<1>10. ShownOK' /\ OverOK' /\ SeenOK' /\ FollowOK'
  BY <1>4, <1>6 DEF ShownOK, OverOK, SeenOK, FollowOK
<1> QED BY <1>2, <1>3, <1>7, <1>8, <1>9, <1>10

LEMMA ConnectFailsStep == ASSUME IInv, ConnectFails PROVE IInv'
<1>1. /\ link = "dialing" /\ ~up /\ Resubscribe(tries, stateRev) /\ UNCHANGED brokerVars /\ UNCHANGED <<view, over, read, again, retry, broken, fails>>
  BY DEF ConnectFails, reads
<1>2. Due = {} /\ ~Live /\ sub = "off" /\ wire = <<>> /\ mb = NoMailbox
  BY <1>1, Detached
<1>3. /\ Due' = Due /\ (GapDue' <=> GapDue) /\ (Live' <=> Live) /\ (Uncrashed' <=> Uncrashed)
      /\ UNCHANGED <<db, ended, unsent, silent, rev, book, hist, up, mb, sub, wire, used>>
      /\ InOrder' /\ HistOK' /\ EndOK'
      /\ StoreType' /\ BrokerType' /\ StreamType' /\ used' \in [DOMAIN Bounds -> Nat]
  BY <1>1, BrokerSame
<1>4. StoreType /\ ShownType /\ ReadType
  BY TypeParts DEF IInv
<1>5. link' \in {"dialing", "closed"} /\ tries' \in 0..MaxTries /\ stateRev' \in Nat
  BY <1>1, <1>4, ResubscribeType DEF ShownType
<1>6. ~Uncrashed
  BY <1>1 DEF IInv, DaemonOK
<1>7. TypeOK'
  <2>1. ShownType' /\ ReadType'
    BY <1>1, <1>4, <1>5 DEF ShownType, ReadType
  <2> QED BY <1>3, <2>1, TypeNext
<1>8. LinkOK'
  BY <1>2, <1>3, <1>5 DEF IInv, LinkOK
<1>9. DaemonOK'
  BY <1>1, <1>3 DEF IInv, DaemonOK
<1>10. RevsOK'
  BY <1>2, <1>3, <1>6 DEF RevsOK
<1>11. ReadOK'
  BY <1>1, <1>3 DEF IInv, ReadOK, Known, Pending
<1>12. CrashOK'
  BY <1>2, <1>3 DEF CrashOK
<1>13. ShownOK'
  BY <1>2, <1>3 DEF ShownOK
<1>14. OverOK'
  BY <1>1, <1>3 DEF IInv, OverOK, Idle, Pending, AllRight
<1>15. SeenOK' /\ FollowOK'
  BY <1>3, <1>6 DEF SeenOK, FollowOK
<1> QED BY <1>3, <1>7, <1>8, <1>9, <1>10, <1>11, <1>12, <1>13, <1>14, <1>15 DEF IInv

LEMMA SampleStep == ASSUME IInv, Sample PROVE IInv'
<1>1. /\ read.at = "asked" /\ ClientWorks /\ up /\ read' = [read EXCEPT !.at = "sampled", !.rev = rev]
      /\ UNCHANGED brokerVars /\ UNCHANGED <<view, over, stateRev, link, tries, again, retry, broken, fails>>
  BY DEF Sample, shown, subscription
<1>2. /\ Due' = Due /\ (GapDue' <=> GapDue) /\ (Live' <=> Live) /\ (Uncrashed' <=> Uncrashed)
      /\ UNCHANGED <<db, ended, unsent, silent, rev, book, hist, up, mb, sub, wire, used>>
      /\ InOrder' /\ HistOK' /\ EndOK'
      /\ StoreType' /\ BrokerType' /\ StreamType' /\ used' \in [DOMAIN Bounds -> Nat]
  BY <1>1, BrokerSame
<1>3. StoreType /\ BrokerType /\ ShownType /\ ReadType
  BY TypeParts DEF IInv
<1>4. /\ read'.at = "sampled" /\ read'.rev = rev /\ read'.view = read.view /\ read'.over = read.over
      /\ read' \in Reads
  BY <1>1, <1>3 DEF ReadType, BrokerType, Reads
<1>5. read.over = FALSE
  BY <1>1, <1>3 DEF IInv, ReadOK, ReadType, Reads
<1>6. Uncrashed /\ Uncrashed'
  BY <1>1, <1>2 DEF ClientWorks, Uncrashed
<1>7. Pending /\ Pending' /\ ~Idle' /\ ~retry
  BY <1>1, <1>4 DEF Pending, Idle, IInv, ReadOK
<1>8. Known' = db
  <2>1. Known' = [r \in Rows |-> db[r]]
    BY <1>2, <1>4 DEF Known
  <2> QED BY <1>3, <2>1 DEF StoreType
<1>9. TypeOK'
  <2>1. ShownType' /\ ReadType'
    BY <1>1, <1>3, <1>4 DEF ShownType, ReadType
  <2> QED BY <1>2, <2>1, TypeNext
<1>10. LinkOK' /\ DaemonOK'
  BY <1>1, <1>2 DEF IInv, LinkOK, DaemonOK, NoMailbox
<1>11. RevsOK'
  BY <1>1, <1>2, <1>3, <1>4 DEF IInv, RevsOK, BrokerType
<1>12. ReadOK'
  BY <1>1, <1>4, <1>5, <1>7 DEF ReadOK
<1>13. CrashOK'
  BY <1>6 DEF CrashOK
<1>14. ASSUME book # "unknown" PROVE \A e \in Due : e.rev <= rev
  BY <1>6, <1>14 DEF IInv, RevsOK
<1>15. ShownOK'
  <2>1. SUFFICES ASSUME ~ended PROVE AllGood(db, rev)'
    BY <1>2, <1>4, <1>7, <1>8 DEF ShownOK
  <2>2. book # "unknown"
    BY <1>1, <2>1 DEF IInv, DaemonOK
  <2>3. \A e \in Due : ~(e.rev > rev)
    <3>1. \A e \in Due : e.rev <= rev /\ e.rev \in Nat /\ rev \in Nat
      BY <1>3, <1>14, <2>2, DueFrames DEF IInv, BrokerType
    <3> QED BY <3>1
  <2> QED BY <1>2, <2>3 DEF AllGood, Good
<1>16. OverOK'
  BY <1>4, <1>7 DEF OverOK
<1>17. SeenOK'
  <2>1. Seen(db, rev)'
    <3>1. \A m \in 1..Len(hist) : hist[m].val <= db[hist[m].row] /\ hist[m].val \in Nat /\ db[hist[m].row] \in Nat
      <4>1. \A m \in 1..Len(hist) : hist[m] \in [row : Rows, val : Nat]
        BY <1>3, ElementOfSeq DEF BrokerType
      <4> QED BY <1>3, <4>1 DEF IInv, HistOK, StoreType
    <3>2. \A m \in 1..Len(hist) : db[hist[m].row] >= hist[m].val
      BY <3>1
    <3> QED BY <1>2, <3>2 DEF Seen
  <2> QED BY <1>2, <1>4, <1>7, <1>8, <2>1 DEF SeenOK
<1>18. FollowOK'
  <2>1. SUFFICES ASSUME book # "unknown" PROVE Unbroken(rev)'
    BY <1>2, <1>4, <1>7 DEF FollowOK
  <2>2. \A e \in Due : e.rev <= rev /\ e.rev \in Nat
    BY <1>14, <2>1, DueFrames DEF IInv
  <2>3. rev \in Nat
    BY <1>3 DEF BrokerType
  <2>4. (\A e \in Due : (rev + 1)..(e.rev - 1) = {}) /\ (rev + 1)..rev = {}
    BY <2>2, <2>3
  <2> QED BY <1>2, <2>4 DEF Unbroken
<1> QED BY <1>2, <1>9, <1>10, <1>11, <1>12, <1>13, <1>15, <1>16, <1>17, <1>18 DEF IInv

\* A read that goes on: what it will show is what it would have shown before.
LEMMA ReadOn ==
    ASSUME IInv, UNCHANGED brokerVars, UNCHANGED <<view, over, stateRev, link, tries, again, retry, broken, fails>>,
           Uncrashed, Begun, Begun', read' \in Reads, read'.rev = read.rev, Known' = Known,
           read'.over => read'.at \in {"run", "reply"} /\ ended /\ Known = db,
           read'.at # "sampled",
           read.over => read'.over, read.at = "sampled" /\ ended => read'.over,
           read.at = "run" \/ (over => read'.over)
    PROVE  IInv'
<1>2. /\ Due' = Due /\ (GapDue' <=> GapDue) /\ (Live' <=> Live) /\ (Uncrashed' <=> Uncrashed)
      /\ \A n : Unbroken(n)' <=> Unbroken(n)
      /\ UNCHANGED <<db, ended, unsent, silent, rev, book, hist, up, mb, sub, wire, used>>
      /\ InOrder' /\ HistOK' /\ EndOK'
      /\ StoreType' /\ BrokerType' /\ StreamType' /\ used' \in [DOMAIN Bounds -> Nat]
  BY BrokerSame
<1>3. StoreType /\ BrokerType /\ ShownType /\ ReadType
  BY TypeParts DEF IInv
<1>4. Pending /\ Pending' /\ ~Idle' /\ ~retry /\ ~retry'
  BY DEF Begun, Pending, Idle, IInv, ReadOK
<1>5. Settles' <=> Settles
  BY DEF Settles
<1>9. TypeOK'
  <2>1. ShownType' /\ ReadType'
    BY <1>3 DEF ShownType, ReadType
  <2> QED BY <1>2, <2>1, TypeNext
<1>10. LinkOK' /\ DaemonOK'
  BY <1>2 DEF IInv, LinkOK, DaemonOK, NoMailbox
<1>11. RevsOK'
  BY <1>2 DEF IInv, RevsOK
<1>12. ReadOK'
  BY <1>2, <1>4 DEF ReadOK, Begun
<1>13. CrashOK'
  BY <1>2 DEF CrashOK
<1>15. ShownOK'
  <2>1. SUFFICES ASSUME (~over /\ Live /\ Settles /\ ~read.over /\ ~(read.at = "sampled" /\ ended)) PROVE AllGood(Known, read.rev)'
    BY <1>2, <1>4, <1>5 DEF ShownOK
  <2>2. AllGood(Known, read.rev)
    BY <2>1 DEF IInv, ShownOK
  <2> QED BY <1>2, <2>2 DEF AllGood, Good
<1>16. OverOK'
  <2>1. SUFFICES ASSUME over, ~read'.over PROVE link = "attached" /\ (Settles => AllRight(Known)')
    BY <1>4, <1>5 DEF OverOK
  <2>2. read.at = "run" /\ ~read.over
    BY <2>1
  <2> QED BY <1>2, <2>1, <2>2 DEF IInv, OverOK, AllRight
<1>17. SeenOK'
  BY <1>2, <1>4 DEF IInv, SeenOK, Seen
<1>18. FollowOK'
  BY <1>2, <1>4, <1>5 DEF IInv, FollowOK
<1> QED BY <1>2, <1>9, <1>10, <1>11, <1>12, <1>13, <1>15, <1>16, <1>17, <1>18 DEF IInv

LEMMA ReadRunStep == ASSUME IInv, ReadRun PROVE IInv'
<1>1. /\ read.at = "sampled" /\ ClientWorks /\ read' = [read EXCEPT !.at = "run", !.view[0] = db[0], !.over = ended]
      /\ UNCHANGED brokerVars /\ UNCHANGED <<view, over, stateRev, link, tries, again, retry, broken, fails>>
  BY DEF ReadRun, shown, subscription
<1>2. StoreType /\ ReadType /\ UNCHANGED <<db, ended>>
  BY <1>1, TypeParts DEF IInv, brokerVars, store
<1>3. read \in Reads /\ db \in [Rows -> Nat] /\ ended \in BOOLEAN /\ 0 \in Rows
  BY <1>2, Constants DEF ReadType, StoreType
<1> DEFINE v == [read.view EXCEPT ![0] = db[0]]
<1>4. read' = [read EXCEPT !.at = "run", !.view = v, !.over = ended]
  BY <1>1, <1>3 DEF Reads
<1>5. v \in [Rows -> Nat] /\ v[0] = db[0]
  BY <1>3 DEF Reads
<1> HIDE DEF v
<1>6. read' \in Reads /\ read'.at = "run" /\ read'.view = v /\ read'.over = ended /\ read'.rev = read.rev
  BY <1>3, <1>4, <1>5 DEF Reads
<1>7. Known = db /\ Known' = db
  <2>1. Known = [r \in Rows |-> db[r]]
    BY <1>1 DEF Known
  <2>2. Known' = [r \in Rows |-> IF r = 0 THEN v[r] ELSE db[r]]
    BY <1>2, <1>6 DEF Known
  <2> QED BY <1>3, <1>5, <2>1, <2>2
<1>8. Uncrashed /\ Begun /\ Begun'
  BY <1>1, <1>6 DEF Uncrashed, ClientWorks, Begun
<1>9. ~read.over /\ (over => ended)
  BY <1>1, <1>3 DEF IInv, ReadOK, DaemonOK, Reads
<1> QED BY <1>1, <1>6, <1>7, <1>8, <1>9, ReadOn

LEMMA ReadStepsStep == ASSUME IInv, ReadSteps PROVE IInv'
<1>1. /\ read.at = "run" /\ ClientWorks
      /\ read' = [read EXCEPT !.at = "reply", !.rev = @, !.view = [r \in Rows |-> IF r = 0 THEN read.view[0] ELSE db[r]]]
      /\ UNCHANGED brokerVars /\ UNCHANGED <<view, over, stateRev, link, tries, again, retry, broken, fails>>
  BY DEF ReadSteps, shown, subscription, Stamped
<1>2. StoreType /\ ReadType /\ UNCHANGED <<db, ended>>
  BY <1>1, TypeParts DEF IInv, brokerVars, store
<1>3. read \in Reads /\ db \in [Rows -> Nat] /\ ended \in BOOLEAN /\ 0 \in Rows
  BY <1>2, Constants DEF ReadType, StoreType
<1> DEFINE v == [r \in Rows |-> IF r = 0 THEN read.view[0] ELSE db[r]]
<1>4. read' = [read EXCEPT !.at = "reply", !.rev = read.rev, !.view = v]
  BY <1>1
<1>5. v \in [Rows -> Nat]
  BY <1>3 DEF Reads
<1>a. \A r \in Rows : v[r] = IF r = 0 THEN read.view[0] ELSE db[r]
  OBVIOUS
<1> HIDE DEF v
<1>6. read' \in Reads /\ read'.at = "reply" /\ read'.view = v /\ read'.over = read.over /\ read'.rev = read.rev
  BY <1>3, <1>4, <1>5 DEF Reads
<1>7. Known' = Known
  <2>1. Known = [r \in Rows |-> IF r = 0 THEN read.view[r] ELSE db[r]]
    BY <1>1 DEF Known
  <2>2. Known' = [r \in Rows |-> v[r]]
    BY <1>6 DEF Known
  <2> QED BY <1>a, <2>1, <2>2
<1>8. Uncrashed /\ Begun /\ Begun'
  BY <1>1, <1>6 DEF Uncrashed, ClientWorks, Begun
<1>9. read.over => ended /\ Known = db
  BY DEF IInv, ReadOK
<1> QED BY <1>1, <1>6, <1>7, <1>8, <1>9, ReadOn

LEMMA ReadFailsStep == ASSUME IInv, ReadFails PROVE IInv'
<1>1. /\ Pending /\ retry' = TRUE /\ Settled(FALSE, over, tries, stateRev)
      /\ UNCHANGED brokerVars /\ view' = view /\ over' = over
      /\ \/ fails' = fails /\ broken' = broken
         \/ fails < MaxFails /\ fails' = fails + 1 /\ broken' \in BOOLEAN
  BY DEF ReadFails
<1>2. StoreType /\ ShownType /\ ReadType
  BY TypeParts DEF IInv
<1>3. again' = FALSE /\ read' = NoRead
  BY <1>1 DEF Settled
<1>4. \/ link = "closed" /\ Resubscribe(tries, stateRev)
      \/ link' = link /\ tries' = tries /\ stateRev' = stateRev
  BY <1>1 DEF Settled, StreamLost
<1>5. /\ link' = link \/ (link # "attached" /\ link' \in {"dialing", "closed"})
      /\ stateRev' \in {0, stateRev} /\ ShownType'
  <2>1. CASE link = "closed" /\ Resubscribe(tries, stateRev)
    <3>1. link' \in {"dialing", "closed"} /\ tries' \in 0..MaxTries /\ stateRev' \in Nat /\ stateRev' \in {0, stateRev}
      BY <1>2, <2>1, ResubscribeType DEF ShownType
    <3> QED BY <1>1, <1>2, <2>1, <3>1 DEF ShownType
  <2>2. CASE link' = link /\ tries' = tries /\ stateRev' = stateRev
    BY <1>1, <1>2, <2>2 DEF ShownType
  <2> QED BY <1>4, <2>1, <2>2
<1>6. /\ InOrder' /\ HistOK' /\ EndOK' /\ StoreType' /\ BrokerType' /\ StreamType' /\ used' \in [DOMAIN Bounds -> Nat]
      /\ ended' = ended
  BY <1>1, BrokerSame
<1>7. TypeOK'
  <2>1. NoRead \in Reads
    BY DEF NoRead, Reads
  <2>2. fails' \in 0..MaxFails /\ broken' \in BOOLEAN
    BY <1>1, <1>2, Constants DEF ReadType
  <2>3. ReadType'
    BY <1>1, <1>3, <2>1, <2>2 DEF ReadType
  <2> QED BY <1>5, <1>6, <2>3, TypeNext
<1>8. over' => ended
  BY <1>1 DEF IInv, DaemonOK
<1>9. LinkOK' /\ DaemonOK' /\ RevsOK' /\ ReadOK' /\ CrashOK' /\ ShownOK' /\ OverOK' /\ SeenOK' /\ FollowOK'
  <2>1. read' # Asked
    BY <1>3 DEF NoRead, Asked
  <2> QED BY <1>1, <1>3, <1>5, <1>8, <2>1, ReadAnew
<1> QED BY <1>6, <1>7, <1>9 DEF IInv

LEMMA RetryReviewStep == ASSUME IInv, RetryReview PROVE IInv'
<1>1. /\ retry /\ ~Pending /\ read' = Asked /\ retry' = FALSE
      /\ UNCHANGED brokerVars /\ UNCHANGED <<view, over, stateRev, link, tries, again, broken, fails>>
  BY DEF RetryReview, shown, subscription
<1>2. ShownType /\ ReadType
  BY TypeParts DEF IInv
<1>3. ~again
  BY <1>1 DEF IInv, ReadOK
<1>6. /\ InOrder' /\ HistOK' /\ EndOK' /\ StoreType' /\ BrokerType' /\ StreamType' /\ used' \in [DOMAIN Bounds -> Nat]
      /\ ended' = ended
  BY <1>1, BrokerSame
<1>7. TypeOK'
  <2>1. Asked \in Reads
    BY DEF Asked, NoRead, Reads
  <2>2. ShownType' /\ ReadType'
    BY <1>1, <1>2, <2>1 DEF ShownType, ReadType
  <2> QED BY <1>6, <2>2, TypeNext
<1>8. over' => ended
  BY <1>1 DEF IInv, DaemonOK
<1>9. LinkOK' /\ DaemonOK' /\ RevsOK' /\ ReadOK' /\ CrashOK' /\ ShownOK' /\ OverOK' /\ SeenOK' /\ FollowOK'
  BY <1>1, <1>3, <1>8, ReadAnew
<1> QED BY <1>6, <1>7, <1>9 DEF IInv

LEMMA ReconciledStep == ASSUME IInv, Reconciled PROVE IInv'
<1> DEFINE ok == Accepts(read.rev)
           finished == over \/ (ok /\ read.over)
           more == again \/ ~ok
           n == IF ok THEN read.rev ELSE stateRev
<1>1. /\ read.at = "reply" /\ view' = (IF ok THEN read.view ELSE view) /\ over' = finished /\ retry' = FALSE
      /\ Settled(more, finished, 0, n) /\ UNCHANGED brokerVars /\ broken' = broken /\ fails' = fails
  BY DEF Reconciled
<1>2. StoreType /\ BrokerType /\ ShownType /\ ReadType
  BY TypeParts DEF IInv
<1>3. /\ ok \in BOOLEAN /\ (ok <=> read.rev >= stateRev) /\ over \in BOOLEAN /\ read.over \in BOOLEAN /\ again \in BOOLEAN
      /\ n \in Nat /\ n \in {stateRev, read.rev} /\ read.view \in [Rows -> Nat]
  BY <1>2 DEF Accepts, ShownType, ReadType, Reads
<1> HIDE DEF ok, n
<1>4. again' = FALSE /\ read' = IF more THEN Asked ELSE NoRead
  BY <1>1 DEF Settled
<1>5. /\ ~more /\ link = "closed" /\ ~finished => Resubscribe(0, n)
      /\ ~(~more /\ link = "closed" /\ ~finished) => link' = link /\ tries' = 0 /\ stateRev' = n
  BY <1>1 DEF Settled, StreamLost
<1>6. /\ Due' = Due /\ (GapDue' <=> GapDue) /\ (Live' <=> Live) /\ (Uncrashed' <=> Uncrashed)
      /\ \A k : Unbroken(k)' <=> Unbroken(k)
      /\ UNCHANGED <<db, ended, unsent, silent, rev, book, hist, up, mb, sub, wire, used>>
      /\ InOrder' /\ HistOK' /\ EndOK'
      /\ StoreType' /\ BrokerType' /\ StreamType' /\ used' \in [DOMAIN Bounds -> Nat]
  BY <1>1, BrokerSame
<1>7. finished => ended
  BY DEF IInv, DaemonOK, ReadOK
<1>t. 0 \in 0..MaxTries
  BY Constants
<1>8. /\ ShownType'
      /\ \/ link' = link /\ stateRev' = n
         \/ link = "closed" /\ link' \in {"dialing", "closed"} /\ stateRev' \in {0, n}
      /\ link' = "dialing" /\ link # "dialing" => stateRev' = 0
  <2>1. view' \in [Rows -> Nat] /\ over' \in BOOLEAN
    BY <1>1, <1>2, <1>3 DEF ShownType
  <2>2. CASE ~more /\ link = "closed" /\ ~finished
    <3>1. Resubscribe(0, n)
      BY <1>5, <2>2
    <3>2. /\ link' \in {"dialing", "closed"} /\ tries' \in 0..MaxTries /\ stateRev' \in Nat /\ stateRev' \in {0, n}
          /\ (link' = "dialing" => stateRev' = 0)
      BY <1>2, <1>3, <1>t, <3>1, ResubscribeType
    <3> QED BY <2>1, <2>2, <3>2 DEF ShownType
  <2>3. CASE ~(~more /\ link = "closed" /\ ~finished)
    <3>1. link' = link /\ tries' = 0 /\ stateRev' = n
      BY <1>5, <2>3
    <3>2. link' \in {"dialing", "attached", "closed"} /\ tries' \in 0..MaxTries /\ stateRev' \in Nat
      BY <1>2, <1>3, <1>t, <3>1 DEF ShownType
    <3> QED BY <2>1, <3>1, <3>2 DEF ShownType
  <2> QED BY <2>2, <2>3
<1>9. TypeOK'
  <2>1. Asked \in Reads /\ NoRead \in Reads
    BY DEF Asked, NoRead, Reads
  <2>2. ReadType'
    BY <1>1, <1>2, <1>4, <2>1 DEF ReadType
  <2> QED BY <1>6, <1>8, <2>2, TypeNext
<1>10. CASE more
  <2>0. stateRev' = n /\ link' = link /\ read' = Asked
    BY <1>4, <1>5, <1>10
  <2>1. LinkOK' /\ DaemonOK' /\ RevsOK' /\ ReadOK' /\ CrashOK' /\ ShownOK' /\ OverOK' /\ SeenOK' /\ FollowOK'
    BY <1>1, <1>3, <1>4, <1>7, <2>0, ReadAnew
  <2> QED BY <1>6, <1>9, <2>1 DEF IInv
<1>11. CASE ~more
  <2>1. ok /\ ~again /\ n = read.rev /\ view' = read.view /\ read' = NoRead
    BY <1>1, <1>3, <1>4, <1>11 DEF n
  <2>2. Settles /\ Begun /\ Pending
    BY <1>1, <1>3, <2>1 DEF Settles, Begun, Pending
  <2>3. Known = read.view
    <3>1. Known = [r \in Rows |-> read.view[r]]
      BY <1>1 DEF Known
    <3> QED BY <1>3, <3>1
  <2>4. read'.at = "none" /\ read'.rev = 0 /\ read'.over = FALSE
    BY <2>1 DEF NoRead
  <2>5. ~Pending' /\ Idle' /\ ~Begun' /\ ~Settles'
    BY <1>1, <2>4 DEF Pending, Idle, Begun, Settles
  <2>6. sub = "on" \/ Live => link' = link /\ stateRev' = read.rev
    <3>1. sub = "on" \/ Live => link = "attached"
      BY <1>2, Detached DEF ShownType, IInv, LinkOK
    <3> QED BY <1>8, <2>1, <3>1
  <2>7. LinkOK'
    BY <1>6, <1>8 DEF IInv, LinkOK, NoMailbox
  <2>8. DaemonOK'
    BY <1>1, <1>6, <1>7 DEF IInv, DaemonOK
  <2>9. RevsOK'
    <3>1. rev \in Nat /\ read.rev \in Nat
      BY <1>2 DEF BrokerType, ReadType, Reads
    <3> QED BY <1>6, <1>8, <2>1, <2>4, <3>1 DEF IInv, RevsOK
  <2>10. ReadOK'
    BY <1>1, <1>4, <2>4, <2>5 DEF ReadOK
  <2>11. CrashOK'
    BY <1>1, <1>6, <2>1, <2>2 DEF IInv, CrashOK
  <2>12. ShownOK'
    <3>1. SUFFICES ASSUME ~over', Live PROVE AllGood(view, stateRev)'
      BY <1>6, <2>5 DEF ShownOK
    <3>2. ~over /\ ~read.over
      BY <1>1, <2>1, <3>1
    <3>3. AllGood(Known, read.rev)
      BY <1>1, <2>2, <3>1, <3>2 DEF IInv, ShownOK
    <3> QED BY <1>6, <2>1, <2>3, <2>6, <3>1, <3>3 DEF AllGood, Good
  <2>13. OverOK'
    <3>1. SUFFICES ASSUME over' PROVE AllRight(view)'
      BY <2>4 DEF OverOK
    <3>2. AllRight(Known)
      <4>1. CASE read.over
        BY <4>1 DEF IInv, ReadOK, AllRight
      <4>2. CASE ~read.over
        BY <1>1, <2>2, <3>1, <4>2 DEF IInv, OverOK
      <4> QED BY <4>1, <4>2
    <3> QED BY <1>6, <2>1, <2>3, <3>2 DEF AllRight
  <2>14. SeenOK'
    <3>1. SUFFICES ASSUME Uncrashed, sub = "on" \/ link' = "dialing" PROVE Seen(view, stateRev)'
      BY <1>6, <2>5 DEF SeenOK
    <3>2. Seen(read.view, read.rev)
      BY <2>2, <2>3, <3>1 DEF IInv, SeenOK
    <3>3. CASE stateRev' = read.rev
      BY <1>6, <2>1, <3>2, <3>3 DEF Seen
    <3>4. CASE stateRev' = 0
      BY <3>4 DEF Seen
    <3> QED BY <1>8, <2>1, <3>3, <3>4
  <2>15. FollowOK'
    <3>1. SUFFICES ASSUME Uncrashed, sub = "on", book # "unknown" PROVE Unbroken(stateRev)'
      BY <1>6, <2>5 DEF FollowOK
    <3>2. Unbroken(read.rev)
      BY <2>2, <3>1 DEF IInv, FollowOK
    <3>3. Unbroken(stateRev') <=> Unbroken(stateRev)'
      BY <1>6 DEF Unbroken, DueAt, Gapped, GapDue, Due
    <3> QED BY <2>6, <3>1, <3>2, <3>3
  <2> QED BY <1>6, <1>9, <2>7, <2>8, <2>9, <2>10, <2>11, <2>12, <2>13, <2>14, <2>15 DEF IInv
<1> QED BY <1>10, <1>11

(* The view subscribes, and reads its stream.                                 *)

LEMMA ConnectStep == ASSUME IInv, Connect PROVE IInv'
<1>1. /\ link = "dialing" /\ up /\ mb' = NewMailbox /\ sub' = "on" /\ wire' = <<>> /\ link' = "attached"
      /\ UNCHANGED <<db, ended, unsent, silent, rev, book, hist, up, used, view, over, stateRev, tries, read, again, retry, broken, fails>>
  BY DEF Connect, store, broker, shown, reads
<1>2. StoreType /\ BrokerType /\ ShownType /\ ReadType /\ used \in [DOMAIN Bounds -> Nat]
  BY TypeParts DEF IInv
<1>3. mb'.ring = <<>> /\ mb'.gap = TRUE /\ (mb'.closed <=> book = "closed") /\ Len(mb'.ring) = 0 /\ Len(wire') = 0
  BY <1>1 DEF NewMailbox
<1>4. Due' = {} /\ GapDue'
  BY <1>1, <1>3, NoFrames DEF Due, GapDue
<1>5. TypeOK'
  <2>1. Box(mb')
    BY <1>1, BoxTypes DEF IInv
  <2>2. <<>> \in Seq(Frames)
    OBVIOUS
  <2>3. StreamType'
    BY <1>1, <2>1, <2>2 DEF StreamType
  <2>4. StoreType' /\ BrokerType'
    BY <1>1, <1>2 DEF StoreType, BrokerType
  <2>5. ShownType' /\ ReadType' /\ used' \in [DOMAIN Bounds -> Nat]
    BY <1>1, <1>2 DEF ShownType, ReadType
  <2> QED BY <2>3, <2>4, <2>5, TypeNext
<1>6. LinkOK'
  BY <1>1, <1>3 DEF LinkOK
<1>7. DaemonOK'
  BY <1>1 DEF IInv, DaemonOK, Uncrashed
<1>8. InOrder'
  BY <1>1, <1>3, <1>4, NoFrames DEF InOrder
<1>9. HistOK' /\ ReadOK'
  BY <1>1 DEF IInv, HistOK, ReadOK, Known, Pending
<1>10. RevsOK'
  BY <1>1, <1>4 DEF IInv, RevsOK, Uncrashed
<1>11. EndOK'
  BY <1>3, <1>4 DEF EndOK
<1>12. CrashOK'
  BY <1>4 DEF CrashOK
<1>13. ShownOK'
  BY <1>4 DEF ShownOK, AllGood, Good
<1>14. Idle' = Idle /\ Begun' = Begun /\ Settles' = Settles
  BY <1>1 DEF Idle, Begun, Settles, Pending
<1>15. OverOK'
  BY <1>1, <1>14 DEF IInv, OverOK, AllRight
<1>16. Known' = Known /\ Uncrashed' = Uncrashed
  BY <1>1 DEF Known, Uncrashed
<1>17. SeenOK'
  BY <1>1, <1>14, <1>16 DEF IInv, SeenOK, Seen
<1>18. FollowOK'
  BY <1>4 DEF FollowOK, Unbroken
<1> QED BY <1>5, <1>6, <1>7, <1>8, <1>9, <1>10, <1>11, <1>12, <1>13, <1>15, <1>17, <1>18 DEF IInv

\* What it means to take a frame off the wire.
LEMMA Received ==
    ASSUME IInv, Receive
    PROVE  LET e == Head(wire) IN
           /\ e \in Frames /\ link = "attached" /\ ~over
           /\ UNCHANGED <<db, ended, unsent, silent, rev, book, hist, up, used, mb, sub, broken, fails>>
           /\ Due = Due' \cup (IF IsState(e) THEN {e} ELSE {})
           /\ IsState(e) => ~Gapped(e) /\ \A f \in Due' : e.rev < f.rev
           /\ GapDue <=> GapDue' \/ e.class = "gap"
           /\ e.class # "gap" => \A f : Gapped(f) => Gapped(f)'
           /\ e.class = "eof" => wire' = <<>> /\ sub = "off" /\ mb = NoMailbox
           /\ sub = "on" => \A n \in 1..Len(wire') : wire'[n].class # "eof"
           /\ \A n \in 1..Len(wire') : wire'[n].class = "eof" => n = Len(wire')
           /\ IsState(e) /\ e.end => ~GapDue /\ Due' = {}
           /\ InOrder' /\ HistOK' /\ EndOK'
           /\ StoreType' /\ BrokerType' /\ StreamType' /\ used' \in [DOMAIN Bounds -> Nat]
<1> DEFINE e == Head(wire)
<1>1. /\ link = "attached" /\ ~over /\ wire # <<>> /\ wire' = Tail(wire)
      /\ UNCHANGED <<db, ended, unsent, silent, rev, book, hist, up, used, mb, sub, broken, fails>>
  BY DEF Receive, store, broker
<1>2. StoreType /\ BrokerType /\ StreamType /\ used \in [DOMAIN Bounds -> Nat]
  BY TypeParts DEF IInv
<1>3. wire \in Seq(Frames)
  BY <1>2 DEF StreamType
<1>4. /\ wire' \in Seq(Frames) /\ Len(wire') \in Nat /\ Len(wire) = Len(wire') + 1 /\ e = wire[1] /\ e \in Frames
      /\ \A n \in 1..Len(wire') : wire'[n] = wire[n + 1]
      /\ States(wire) = States(wire') \cup (IF IsState(e) THEN {e} ELSE {})
      /\ HasGap(wire) <=> HasGap(wire') \/ e.class = "gap"
      /\ \A f : GapBefore(wire, f) /\ e.class # "gap" => GapBefore(wire', f)
      /\ ~GapBefore(wire, e)
      /\ Ascends(wire) => Ascends(wire') /\ (IsState(e) => \A f \in States(wire') : e.rev < f.rev)
  <2> DEFINE t == Tail(wire)
  <2>1. /\ t \in Seq(Frames) /\ Len(t) \in Nat /\ Len(wire) = Len(t) + 1 /\ e = wire[1] /\ e \in Frames
        /\ \A n \in 1..Len(t) : t[n] = wire[n + 1]
        /\ States(wire) = States(t) \cup (IF IsState(e) THEN {e} ELSE {})
        /\ HasGap(wire) <=> HasGap(t) \/ e.class = "gap"
        /\ \A f : GapBefore(wire, f) /\ e.class # "gap" => GapBefore(t, f)
        /\ ~GapBefore(wire, e)
        /\ Ascends(wire) => Ascends(t) /\ (IsState(e) => \A f \in States(t) : e.rev < f.rev)
    BY <1>1, <1>3, Tailed
  <2>2. wire' = t
    BY <1>1
  <2> HIDE DEF t, e
  <2> QED BY <2>1, <2>2
<1> HIDE DEF e
<1>a. Len(wire') \in Nat /\ Len(wire) = Len(wire') + 1
  BY <1>4
<1>5. 1 \in 1..Len(wire) /\ \A n \in 1..Len(wire') : n + 1 \in 1..Len(wire)
  BY <1>4
<1>6. Due' = States(wire') \cup States(mb.ring)
  BY <1>1 DEF Due
<1>7. Due = Due' \cup (IF IsState(e) THEN {e} ELSE {})
  BY <1>4, <1>6 DEF Due
<1>8. Ascends(wire) /\ Ascends(mb.ring) /\ \A f \in States(wire), g \in States(mb.ring) : f.rev < g.rev
  BY DEF IInv, InOrder
<1>9. IsState(e) => e \in States(wire) /\ ~Gapped(e) /\ \A f \in Due' : e.rev < f.rev
  <2>1. SUFFICES ASSUME IsState(e) PROVE e \in States(wire) /\ ~Gapped(e) /\ \A f \in Due' : e.rev < f.rev
    OBVIOUS
  <2>2. e \in States(wire)
    BY <1>4, <2>1
  <2>3. ~Gapped(e)
    BY <1>4, <2>2 DEF Gapped
  <2> QED BY <1>4, <1>6, <1>8, <2>1, <2>2, <2>3
<1>10. GapDue <=> GapDue' \/ e.class = "gap"
  BY <1>1, <1>4 DEF GapDue
<1>11. e.class # "gap" => \A f : Gapped(f) => Gapped(f)'
  <2>1. \A f : f \in States(wire') => f \in States(wire)
    BY <1>4
  <2> QED BY <1>1, <1>4, <2>1 DEF Gapped
<1>12. e.class = "eof" => wire' = <<>> /\ sub = "off" /\ mb = NoMailbox
  <2>1. SUFFICES ASSUME e.class = "eof" PROVE wire' = <<>> /\ sub = "off" /\ mb = NoMailbox
    OBVIOUS
  <2>2. Len(wire) = 1 /\ sub # "on"
    BY <1>4, <1>5, <2>1 DEF IInv, LinkOK
  <2>3. Len(wire') = 0
    <3>1. \A k, l \in Nat : l = k + 1 /\ l = 1 => k = 0
      OBVIOUS
    <3>2. Len(wire) \in Nat
      BY <1>3, LenProperties
    <3> QED BY <1>a, <2>2, <3>1, <3>2, Zenon
  <2>4. wire' = <<>>
    BY <1>4, <2>3, EmptySeq
  <2> QED BY <1>2, <2>2, <2>4 DEF StreamType, IInv, LinkOK
<1>13. /\ sub = "on" => \A n \in 1..Len(wire') : wire'[n].class # "eof"
       /\ \A n \in 1..Len(wire') : wire'[n].class = "eof" => n = Len(wire')
  <2>1. \A n \in 1..Len(wire) : wire[n].class = "eof" => n = Len(wire) /\ sub # "on"
    BY DEF IInv, LinkOK
  <2>2. \A n \in 1..Len(wire') : wire[n + 1].class = "eof" => n + 1 = Len(wire) /\ sub # "on"
    BY <1>5, <2>1
  <2>3. \A n \in 1..Len(wire') : n + 1 = Len(wire) => n = Len(wire')
    BY <1>4
  <2> QED BY <1>4, <2>2, <2>3
<1>e. \A n \in 1..Len(wire) : IsState(wire[n]) /\ wire[n].end =>
           /\ mb.ring = <<>> /\ ~mb.gap
           /\ \A m \in 1..Len(wire) : m > n => wire[m].class = "eof"
  BY DEF IInv, EndOK
<1>14. IsState(e) /\ e.end => ~GapDue /\ Due' = {}
  <2>1. SUFFICES ASSUME IsState(e), e.end PROVE ~GapDue /\ Due' = {}
    OBVIOUS
  <2>2. mb.ring = <<>> /\ ~mb.gap /\ \A m \in 1..Len(wire) : m > 1 => wire[m].class = "eof"
    BY <1>4, <1>5, <1>e, <2>1
  <2>3. \A m \in 1..Len(wire') : wire'[m].class = "eof"
    <3>1. \A m \in 1..Len(wire') : m + 1 > 1 /\ m + 1 \in 1..Len(wire)
      BY <1>4
    <3> QED BY <1>4, <2>2, <3>1
  <2>4. States(wire') = {} /\ ~HasGap(wire')
    BY <2>3 DEF States, HasGap, IsState
  <2>5. e.class # "gap"
    BY <2>1 DEF IsState
  <2> QED BY <1>6, <1>10, <2>2, <2>4, <2>5, NoFrames, <1>1 DEF GapDue
<1>15. InOrder'
  <2>1. Due' \subseteq Due /\ States(wire') \subseteq States(wire)
    BY <1>4, <1>7
  <2>2. Ascends(wire') /\ Ascends(mb'.ring)
    BY <1>1, <1>4, <1>8
  <2>3. \A f \in States(wire'), g \in States(mb'.ring) : f.rev < g.rev
    BY <1>1, <1>8, <2>1
  <2>4. /\ \A d, f \in Due : d.row = f.row /\ d.rev < f.rev => d.val < f.val
        /\ \A d \in Due : d.val <= db[d.row] /\ (d.row \in unsent => d.val < db[d.row])
        /\ \A d \in Due : d.rev > 0
    BY DEF IInv, InOrder
  <2> QED BY <1>1, <2>1, <2>2, <2>3, <2>4 DEF InOrder
<1>16. HistOK'
  BY <1>1 DEF IInv, HistOK
<1>17. EndOK'
  <2>1. \A d \in Due' : d.end => d.row = 0 /\ ended /\ unsent = {} /\ d.val = db[0]
    BY <1>7 DEF IInv, EndOK
  <2>2. ASSUME NEW n \in 1..Len(wire'), IsState(wire'[n]), wire'[n].end
        PROVE  mb.ring = <<>> /\ ~mb.gap /\ \A m \in 1..Len(wire') : m > n => wire'[m].class = "eof"
    <3>1. n + 1 \in 1..Len(wire) /\ IsState(wire[n + 1]) /\ wire[n + 1].end
      BY <1>4, <1>5, <2>2
    <3>2. mb.ring = <<>> /\ ~mb.gap /\ \A m \in 1..Len(wire) : m > n + 1 => wire[m].class = "eof"
      BY <1>e, <3>1
    <3>3. ASSUME NEW m \in 1..Len(wire'), m > n PROVE wire'[m].class = "eof"
      <4>1. m + 1 \in 1..Len(wire) /\ m + 1 > n + 1
        BY <1>4, <3>3
      <4> QED BY <1>4, <3>2, <4>1
    <3> QED BY <3>2, <3>3
  <2>3. \A n \in 1..Len(mb.ring) : IsState(mb.ring[n]) /\ mb.ring[n].end => n = Len(mb.ring)
    BY DEF IInv, EndOK
  <2> QED BY <1>1, <2>1, <2>2, <2>3 DEF EndOK
<1>18. StoreType' /\ BrokerType' /\ StreamType' /\ used' \in [DOMAIN Bounds -> Nat]
  BY <1>1, <1>2, <1>4 DEF StoreType, BrokerType, StreamType
<1> QED BY <1>1, <1>4, <1>7, <1>9, <1>10, <1>11, <1>12, <1>13, <1>14, <1>15, <1>16, <1>17, <1>18 DEF e

\* Asking for a read: nothing is concluded before it is answered.
LEMMA Reconciles ==
    ASSUME IInv, Reconcile, UNCHANGED <<db, ended>>
    PROVE  /\ Pending' /\ ~Idle' /\ ~Settles' /\ ReadOK' /\ CrashOK' /\ (read'.rev = 0 \/ read'.rev = read.rev)
           /\ Begun' => Begun /\ read' = read /\ Known' = Known
           /\ read' \in Reads /\ again' \in BOOLEAN /\ retry' \in BOOLEAN
<1>1. StoreType /\ ReadType
  BY TypeParts DEF IInv
<1>2. CASE Pending
  <2>1. again' = TRUE /\ read' = read /\ retry' = retry
    BY <1>2 DEF Reconcile, OneMore
  <2>2. Pending' /\ ~retry /\ ~Idle' /\ ~Settles'
    BY <1>2, <2>1 DEF Pending, Idle, Settles, IInv, ReadOK
  <2>3. Known' = Known /\ Begun' = Begun
    BY <2>1 DEF Known, Begun
  <2>4. ReadOK'
    BY <2>1, <2>2, <2>3 DEF IInv, ReadOK
  <2>5. CrashOK'
    BY <2>1, <2>2 DEF CrashOK
  <2> QED BY <1>1, <2>1, <2>2, <2>3, <2>4, <2>5 DEF ReadType
<1>3. CASE ~Pending
  <2>1. again' = again /\ read' = Asked /\ retry' = FALSE
    BY <1>3 DEF Reconcile
  <2>2. read'.at = "asked" /\ read'.rev = 0 /\ read'.over = FALSE /\ read' \in Reads
    BY <2>1 DEF Asked, NoRead, Reads
  <2>3. Pending' /\ ~Idle' /\ ~Settles' /\ ~Begun'
    BY <2>2 DEF Pending, Idle, Settles, Begun
  <2>4. ReadOK' /\ CrashOK'
    BY <2>1, <2>2, <2>3 DEF ReadOK, CrashOK
  <2> QED BY <1>1, <2>1, <2>2, <2>3, <2>4 DEF ReadType
<1> QED BY <1>2, <1>3

\* A gap, or a frame of a step that the view does not know.
LEMMA ReceiveAsk ==
    ASSUME IInv, Receive, Reconcile, UNCHANGED <<view, over, link, tries>>,
           stateRev' = stateRev \/ (IsState(Head(wire)) /\ stateRev' = Head(wire).rev)
    PROVE  IInv'
<1> DEFINE e == Head(wire)
<1>1. /\ e \in Frames /\ link = "attached" /\ ~over
      /\ UNCHANGED <<db, ended, unsent, silent, rev, book, hist, up, used, mb, sub, broken, fails>>
      /\ Due = Due' \cup (IF IsState(e) THEN {e} ELSE {})
      /\ sub = "on" => \A n \in 1..Len(wire') : wire'[n].class # "eof"
      /\ \A n \in 1..Len(wire') : wire'[n].class = "eof" => n = Len(wire')
      /\ InOrder' /\ HistOK' /\ EndOK'
      /\ StoreType' /\ BrokerType' /\ StreamType' /\ used' \in [DOMAIN Bounds -> Nat]
  BY Received
<1>2. /\ Pending' /\ ~Idle' /\ ~Settles' /\ ReadOK' /\ CrashOK' /\ (read'.rev = 0 \/ read'.rev = read.rev)
      /\ Begun' => Begun /\ read' = read /\ Known' = Known
      /\ read' \in Reads /\ again' \in BOOLEAN /\ retry' \in BOOLEAN
  BY <1>1, Reconciles
<1>3. StoreType /\ BrokerType /\ ShownType /\ ReadType
  BY TypeParts DEF IInv
<1>4. stateRev' \in Nat
  BY <1>1, <1>3 DEF ShownType, Frames
<1>5. TypeOK'
  <2>1. ShownType' /\ ReadType'
    BY <1>1, <1>2, <1>3, <1>4 DEF ShownType, ReadType
  <2> QED BY <1>1, <2>1, TypeNext
<1>6. LinkOK'
  BY <1>1 DEF IInv, LinkOK, NoMailbox
<1>7. DaemonOK'
  BY <1>1 DEF IInv, DaemonOK, Uncrashed
<1>8. RevsOK'
  <2>1. Due' \subseteq Due /\ (IsState(e) => e \in Due) /\ (Uncrashed' <=> Uncrashed)
    BY <1>1 DEF Uncrashed
  <2>2. rev \in Nat
    BY <1>3 DEF BrokerType
  <2>3. stateRev' = stateRev \/ (e \in Due /\ stateRev' = e.rev)
    BY <2>1
  <2> HIDE DEF e
  <2>4. /\ book # "unknown" /\ (sub = "on" \/ Uncrashed) => \A d \in Due : d.rev <= rev
        /\ book # "unknown" /\ Uncrashed =>
              /\ stateRev <= rev /\ read.rev <= rev
              /\ \A d \in Due : hist[d.rev].row = d.row /\ hist[d.rev].val = d.val
    BY DEF IInv, RevsOK
  <2>5. ASSUME book # "unknown", Uncrashed PROVE stateRev' <= rev /\ read'.rev <= rev
    BY <1>2, <2>2, <2>3, <2>4, <2>5
  <2>6. UNCHANGED <<rev, book, hist, sub>>
    BY <1>1
  <2> QED BY <2>1, <2>4, <2>5, <2>6 DEF RevsOK
<1>9. ShownOK' /\ FollowOK'
  BY <1>2 DEF ShownOK, FollowOK
<1>10. OverOK'
  BY <1>1 DEF OverOK
<1>11. SeenOK'
  BY <1>1, <1>2 DEF IInv, SeenOK, Seen, Uncrashed
<1> QED BY <1>1, <1>2, <1>5, <1>6, <1>7, <1>8, <1>9, <1>10, <1>11 DEF IInv

\* The end of the stream: the view subscribes again, or waits for its read.
LEMMA ReceiveEof ==
    ASSUME IInv, Receive, Head(wire).class = "eof"
    PROVE  IInv'
<1> DEFINE e == Head(wire)
<1>1. /\ e \in Frames /\ link = "attached" /\ ~over
      /\ UNCHANGED <<db, ended, unsent, silent, rev, book, hist, up, used, mb, sub, broken, fails>>
      /\ e.class = "eof" => wire' = <<>> /\ sub = "off" /\ mb = NoMailbox
      /\ InOrder' /\ HistOK' /\ EndOK'
      /\ StoreType' /\ BrokerType' /\ StreamType' /\ used' \in [DOMAIN Bounds -> Nat]
  BY Received
<1>2. /\ IF Pending THEN link' = "closed" /\ UNCHANGED <<stateRev, tries>> ELSE Resubscribe(tries, stateRev)
      /\ UNCHANGED <<view, over, read, again, retry>>
  BY DEF Receive
<1>3. StoreType /\ BrokerType /\ ShownType /\ ReadType
  BY TypeParts DEF IInv
<1>4. /\ link' \in {"dialing", "closed"} /\ tries' \in 0..MaxTries /\ stateRev' \in Nat /\ stateRev' \in {0, stateRev}
      /\ link' = "dialing" => stateRev' = 0
  <2>1. CASE Pending
    BY <1>2, <1>3, <2>1 DEF ShownType
  <2>2. CASE ~Pending
    BY <1>2, <1>3, <2>2, ResubscribeType DEF ShownType
  <2> QED BY <2>1, <2>2
<1>5. wire' = <<>> /\ mb' = NoMailbox /\ sub' = "off" /\ mb'.ring = <<>> /\ Len(wire') = 0 /\ Len(mb'.ring) = 0
  BY <1>1 DEF NoMailbox
<1>6. Due' = {} /\ ~Live'
  BY <1>5, NoFrames DEF Due, Live
<1>7. TypeOK'
  <2>1. ShownType' /\ ReadType'
    BY <1>1, <1>2, <1>3, <1>4 DEF ShownType, ReadType
  <2> QED BY <1>1, <2>1, TypeNext
<1>8. LinkOK'
  BY <1>4, <1>5 DEF LinkOK
<1>9. DaemonOK'
  BY <1>1, <1>2 DEF IInv, DaemonOK, Uncrashed
<1>10. RevsOK'
  <2>1. rev \in Nat
    BY <1>3 DEF BrokerType
  <2> QED BY <1>1, <1>2, <1>4, <1>6, <2>1 DEF IInv, RevsOK, Uncrashed
<1>11. ReadOK'
  BY <1>1, <1>2 DEF IInv, ReadOK, Known, Pending
<1>12. CrashOK' /\ ShownOK' /\ FollowOK'
  BY <1>5, <1>6 DEF CrashOK, ShownOK, FollowOK
<1>13. OverOK'
  BY <1>1, <1>2 DEF OverOK
<1>14. SeenOK'
  <2>1. Known' = Known /\ (Uncrashed' <=> Uncrashed) /\ (Begun' <=> Begun)
    BY <1>1, <1>2 DEF Known, Uncrashed, Begun
  <2>2. Uncrashed /\ Begun => Seen(Known, read.rev)'
    BY <1>1, <1>2, <2>1 DEF IInv, SeenOK, Seen
  <2>3. link' = "dialing" => Seen(view, stateRev)'
    BY <1>4 DEF Seen
  <2> QED BY <1>4, <1>5, <2>1, <2>2, <2>3 DEF SeenOK
<1> QED BY <1>1, <1>7, <1>8, <1>9, <1>10, <1>11, <1>12, <1>13, <1>14 DEF IInv

\* Once a frame is taken, a view at its revision or beyond has as much to expect as before.
LEMMA Passed ==
    ASSUME IInv, Receive, Head(wire).class # "gap", NEW n \in Nat, IsState(Head(wire)) => Head(wire).rev <= n
    PROVE  /\ \A v : AllGood(v, n) => \A r \in Rows \ silent' :
                 \/ r \in unsent' \/ GapDue'
                 \/ \E d \in Due' : d.rev > n /\ d.row = r /\ d.val = db'[r]
                 \/ v[r] = db'[r] /\ \A d \in Due' : d.rev > n => d.row # r
           /\ \A k \in Nat : k <= n /\ Unbroken(k) =>
                 /\ \A d \in Due' : \A m \in n + 1..d.rev - 1 : (\E f \in Due' : f.rev = m) \/ Gapped(d)'
                 /\ \A m \in n + 1..rev' : (\E f \in Due' : f.rev = m) \/ GapDue'
<1> DEFINE e == Head(wire)
<1>1. /\ e \in Frames
      /\ UNCHANGED <<db, ended, unsent, silent, rev, book, hist, up, used, mb, sub, broken, fails>>
      /\ Due = Due' \cup (IF IsState(e) THEN {e} ELSE {})
      /\ GapDue <=> GapDue' \/ e.class = "gap"
      /\ e.class # "gap" => \A f : Gapped(f) => Gapped(f)'
  BY Received
<1>2. e.class # "gap" /\ (IsState(e) => e.rev <= n) /\ e.rev \in Nat
  BY <1>1 DEF Frames
<1> HIDE DEF e
<1>3. \A d \in Due : d.rev \in Nat
  BY DueFrames DEF IInv
<1>4. \A d \in Due : d.rev > n => d \in Due'
  BY <1>1, <1>2
<1>5. Due' \subseteq Due /\ (GapDue' <=> GapDue)
  BY <1>1, <1>2
<1>6. ASSUME NEW v, AllGood(v, n), NEW r \in Rows \ silent'
      PROVE  \/ r \in unsent' \/ GapDue'
             \/ \E d \in Due' : d.rev > n /\ d.row = r /\ d.val = db'[r]
             \/ v[r] = db'[r] /\ \A d \in Due' : d.rev > n => d.row # r
  <2>1. Good(v, n, r)
    BY <1>1, <1>6 DEF AllGood
  <2> QED BY <1>1, <1>4, <1>5, <2>1 DEF Good
<1>7. ASSUME NEW k \in Nat, k <= n, Unbroken(k)
      PROVE  /\ \A d \in Due' : \A m \in n + 1..d.rev - 1 : (\E f \in Due' : f.rev = m) \/ Gapped(d)'
             /\ \A m \in n + 1..rev' : (\E f \in Due' : f.rev = m) \/ GapDue'
  <2>0. rev \in Nat /\ rev' = rev
    BY <1>1, Types DEF IInv
  <2>1. ASSUME NEW m \in Nat, m > n, DueAt(m) PROVE \E f \in Due' : f.rev = m
    BY <1>4, <2>1 DEF DueAt
  <2>2. ASSUME NEW d \in Due', NEW m \in n + 1..d.rev - 1 PROVE (\E f \in Due' : f.rev = m) \/ Gapped(d)'
    <3>1. d \in Due /\ d.rev \in Nat
      BY <1>3, <1>5
    <3>2. m \in k + 1..d.rev - 1 /\ m \in Nat /\ m > n
      BY <1>7, <3>1
    <3>3. DueAt(m) \/ Gapped(d)
      BY <1>7, <3>1, <3>2 DEF Unbroken
    <3> QED BY <1>1, <1>2, <2>1, <3>2, <3>3
  <2>3. ASSUME NEW m \in n + 1..rev' PROVE (\E f \in Due' : f.rev = m) \/ GapDue'
    <3>1. m \in k + 1..rev /\ m \in Nat /\ m > n
      BY <1>7, <2>0
    <3>2. DueAt(m) \/ GapDue
      BY <1>7, <3>1 DEF Unbroken
    <3> QED BY <1>5, <2>1, <3>1, <3>2
  <2> QED BY <2>2, <2>3
<1> QED BY <1>6, <1>7

\* Activity, and a state frame that is no newer than what is shown.
LEMMA ReceiveIgnored ==
    ASSUME IInv, Receive, Head(wire).class \notin {"gap", "eof"}, IsState(Head(wire)) => Head(wire).rev <= stateRev,
           UNCHANGED <<view, over, stateRev, read, again, retry, link, tries>>
    PROVE  IInv'
<1> DEFINE e == Head(wire)
<1>1. /\ e \in Frames /\ link = "attached" /\ ~over
      /\ UNCHANGED <<db, ended, unsent, silent, rev, book, hist, up, used, mb, sub, broken, fails>>
      /\ Due = Due' \cup (IF IsState(e) THEN {e} ELSE {})
      /\ GapDue <=> GapDue' \/ e.class = "gap"
      /\ sub = "on" => \A n \in 1..Len(wire') : wire'[n].class # "eof"
      /\ \A n \in 1..Len(wire') : wire'[n].class = "eof" => n = Len(wire')
      /\ InOrder' /\ HistOK' /\ EndOK'
      /\ StoreType' /\ BrokerType' /\ StreamType' /\ used' \in [DOMAIN Bounds -> Nat]
  BY Received
<1>2. e.class # "gap" /\ (IsState(e) => e.rev <= stateRev) /\ e.rev \in Nat
  BY <1>1 DEF Frames
<1> HIDE DEF e
<1>3. StoreType /\ BrokerType /\ ShownType /\ ReadType
  BY TypeParts DEF IInv
<1>4. Due' \subseteq Due /\ (GapDue' <=> GapDue) /\ (Live' => Live)
  <2>1. Due' \subseteq Due /\ (GapDue' <=> GapDue)
    BY <1>1, <1>2
  <2> QED BY <1>1, <2>1 DEF Live
<1>5. /\ (Uncrashed' <=> Uncrashed) /\ (Idle' <=> Idle) /\ (Begun' <=> Begun) /\ (Settles' <=> Settles)
      /\ (Pending' <=> Pending) /\ Known' = Known
  BY <1>1 DEF Uncrashed, Idle, Begun, Settles, Pending, Known
<1>6. TypeOK'
  <2>1. ShownType' /\ ReadType'
    BY <1>1, <1>3 DEF ShownType, ReadType
  <2> QED BY <1>1, <2>1, TypeNext
<1>7. LinkOK'
  BY <1>1 DEF IInv, LinkOK, NoMailbox
<1>8. DaemonOK'
  BY <1>1, <1>5 DEF IInv, DaemonOK
<1>9. RevsOK'
  BY <1>1, <1>4, <1>5 DEF IInv, RevsOK
<1>10. ReadOK' /\ CrashOK'
  BY <1>1, <1>4, <1>5 DEF IInv, ReadOK, CrashOK
<1>11. stateRev \in Nat /\ read.rev \in Nat
  BY <1>3 DEF ShownType, ReadType, Reads
<1>12. ASSUME NEW n \in Nat, n >= stateRev
       PROVE  /\ \A v : AllGood(v, n) => \A r \in Rows \ silent' :
                  \/ r \in unsent' \/ GapDue'
                  \/ \E d \in Due' : d.rev > n /\ d.row = r /\ d.val = db'[r]
                  \/ v[r] = db'[r] /\ \A d \in Due' : d.rev > n => d.row # r
              /\ Unbroken(n) =>
                  /\ \A d \in Due' : \A m \in n + 1..d.rev - 1 : (\E f \in Due' : f.rev = m) \/ Gapped(d)'
                  /\ \A m \in n + 1..rev' : (\E f \in Due' : f.rev = m) \/ GapDue'
  <2>1. Head(wire).class # "gap" /\ (IsState(Head(wire)) => Head(wire).rev <= n)
    BY <1>2, <1>11, <1>12 DEF e
  <2> QED BY <2>1, Passed
<1>13. ShownOK'
  <2>1. ASSUME Live', Idle PROVE AllGood(view, stateRev)'
    <3>1. AllGood(view, stateRev)
      BY <1>1, <1>4, <2>1 DEF IInv, ShownOK
    <3> QED BY <1>11, <1>12, <3>1 DEF AllGood, Good
  <2>2. ASSUME Live', Settles, ~(read.at = "sampled" /\ ended), ~read.over PROVE AllGood(Known, read.rev)'
    <3>1. AllGood(Known, read.rev) /\ read.rev >= stateRev
      BY <1>1, <1>4, <2>2 DEF IInv, ShownOK, Settles
    <3> QED BY <1>5, <1>11, <1>12, <3>1 DEF AllGood, Good
  <2> QED BY <1>1, <1>5, <2>1, <2>2 DEF ShownOK
<1>14. OverOK'
  BY <1>1 DEF OverOK
<1>15. SeenOK'
  BY <1>1, <1>5 DEF IInv, SeenOK, Seen
<1>16. FollowOK'
  <2>1. ASSUME Uncrashed, sub = "on", book # "unknown", Idle PROVE Unbroken(stateRev)'
    <3>1. Unbroken(stateRev)
      BY <2>1 DEF IInv, FollowOK
    <3> QED BY <1>11, <1>12, <3>1 DEF Unbroken, DueAt
  <2>2. ASSUME Uncrashed, sub = "on", book # "unknown", Settles PROVE Unbroken(read.rev)'
    <3>1. Unbroken(read.rev) /\ read.rev >= stateRev
      BY <2>2 DEF IInv, FollowOK, Settles
    <3> QED BY <1>11, <1>12, <3>1 DEF Unbroken, DueAt
  <2> QED BY <1>1, <1>5, <2>1, <2>2 DEF FollowOK
<1> QED BY <1>1, <1>6, <1>7, <1>8, <1>9, <1>10, <1>13, <1>14, <1>15, <1>16 DEF IInv

\* A fresh frame of a row that the view knows.
LEMMA ReceiveApplied ==
    ASSUME IInv, Receive, NEW e, e = Head(wire), IsState(e), e.rev > stateRev,
           stateRev' = e.rev, view' = [view EXCEPT ![e.row] = e.val], over' = (over \/ e.end),
           UNCHANGED <<read, again, retry, link, tries>>
    PROVE  IInv'
<1>1. /\ e \in Frames /\ link = "attached" /\ ~over
      /\ UNCHANGED <<db, ended, unsent, silent, rev, book, hist, up, used, mb, sub, broken, fails>>
      /\ Due = Due' \cup (IF IsState(e) THEN {e} ELSE {})
      /\ IsState(e) => ~Gapped(e) /\ \A f \in Due' : e.rev < f.rev
      /\ GapDue <=> GapDue' \/ e.class = "gap"
      /\ sub = "on" => \A n \in 1..Len(wire') : wire'[n].class # "eof"
      /\ \A n \in 1..Len(wire') : wire'[n].class = "eof" => n = Len(wire')
      /\ IsState(e) /\ e.end => ~GapDue /\ Due' = {}
      /\ InOrder' /\ HistOK' /\ EndOK'
      /\ StoreType' /\ BrokerType' /\ StreamType' /\ used' \in [DOMAIN Bounds -> Nat]
  BY Received
<1>3. StoreType /\ BrokerType /\ ShownType /\ ReadType
  BY TypeParts DEF IInv
<1>2. /\ e.class \notin {"gap", "eof"} /\ e.rev \in Nat /\ e.row \in Rows /\ e.val \in Nat /\ e.end \in BOOLEAN
      /\ stateRev \in Nat /\ read.rev \in Nat
  BY <1>1, <1>3 DEF Frames, IsState, ShownType, ReadType, Reads
<1>4. /\ Due = Due' \cup {e} /\ (GapDue' <=> GapDue) /\ (Live' => Live) /\ e \in Due
      /\ \A f \in Due' : e.rev < f.rev
  <2>1. Due = Due' \cup {e} /\ (GapDue' <=> GapDue) /\ e \in Due
    BY <1>1, <1>2
  <2> QED BY <1>1, <2>1 DEF Live
<1>5. /\ (Uncrashed' <=> Uncrashed) /\ (Idle' <=> Idle) /\ (Begun' <=> Begun) /\ (Settles' => Settles /\ read.rev >= e.rev)
      /\ (Pending' <=> Pending) /\ Known' = Known
  BY <1>1, <1>2 DEF Uncrashed, Idle, Begun, Settles, Pending, Known
<1>v. /\ view' \in [Rows -> Nat] /\ view'[e.row] = e.val /\ \A r \in Rows : r # e.row => view'[r] = view[r]
      /\ view \in [Rows -> Nat]
  BY <1>2, <1>3 DEF ShownType
<1>6. TypeOK'
  <2>1. ShownType' /\ ReadType'
    BY <1>1, <1>2, <1>3, <1>v DEF ShownType, ReadType
  <2> QED BY <1>1, <2>1, TypeNext
<1>7. LinkOK'
  BY <1>1 DEF IInv, LinkOK, NoMailbox
<1>e. e.end => e.row = 0 /\ ended /\ unsent = {} /\ e.val = db[0]
  BY <1>4 DEF IInv, EndOK
<1>8. DaemonOK'
  BY <1>1, <1>5, <1>e DEF IInv, DaemonOK
<1>9. RevsOK'
  <2>1. Due' \subseteq Due
    BY <1>4
  <2> QED BY <1>1, <1>4, <1>5, <2>1 DEF IInv, RevsOK
<1>10. ReadOK' /\ CrashOK'
  BY <1>1, <1>4, <1>5 DEF IInv, ReadOK, CrashOK
<1>11. ASSUME NEW n \in Nat, n >= e.rev
       PROVE  /\ \A v : AllGood(v, n) => \A r \in Rows \ silent' :
                  \/ r \in unsent' \/ GapDue'
                  \/ \E d \in Due' : d.rev > n /\ d.row = r /\ d.val = db'[r]
                  \/ v[r] = db'[r] /\ \A d \in Due' : d.rev > n => d.row # r
              /\ \A k \in Nat : k <= n /\ Unbroken(k) =>
                  /\ \A d \in Due' : \A m \in n + 1..d.rev - 1 : (\E f \in Due' : f.rev = m) \/ Gapped(d)'
                  /\ \A m \in n + 1..rev' : (\E f \in Due' : f.rev = m) \/ GapDue'
  <2>1. Head(wire).class # "gap" /\ (IsState(Head(wire)) => Head(wire).rev <= n)
    BY <1>2, <1>11
  <2> QED BY <2>1, Passed
<1>12. ASSUME AllGood(view, stateRev), NEW r \in Rows \ silent, r \notin unsent, ~GapDue,
              ~(\E d \in Due' : d.rev > e.rev /\ d.row = r /\ d.val = db[r])
       PROVE  view'[r] = db[r] /\ \A d \in Due' : d.rev > e.rev => d.row # r
  <2>1. CASE \E d \in Due : d.rev > stateRev /\ d.row = r /\ d.val = db[r]
    <3>1. e.row = r /\ e.val = db[r]
      BY <1>4, <1>12, <2>1
    <3>2. \A d \in Due' : d.row # r
      <4> SUFFICES ASSUME NEW d \in Due', d.row = r PROVE FALSE
        OBVIOUS
      <4>1. d \in Due /\ e.rev < d.rev /\ d.val \in Nat /\ db[r] \in Nat
        BY <1>3, <1>4, DueFrames DEF IInv, StoreType
      <4>2. e.val < d.val /\ d.val <= db[r]
        BY <1>4, <3>1, <4>1 DEF IInv, InOrder
      <4> QED BY <3>1, <4>1, <4>2
    <3> QED BY <1>v, <3>1, <3>2
  <2>2. CASE ~(\E d \in Due : d.rev > stateRev /\ d.row = r /\ d.val = db[r])
    <3>1. view[r] = db[r] /\ \A d \in Due : d.rev > stateRev => d.row # r
      BY <1>12, <2>2 DEF AllGood, Good
    <3>2. e.row # r
      BY <1>4, <3>1
    <3>3. \A d \in Due' : d.rev > e.rev => d.row # r
      <4>1. \A d \in Due' : d \in Due /\ d.rev \in Nat
        BY <1>4, DueFrames DEF IInv
      <4>2. \A d \in Due' : d.rev > e.rev => d.rev > stateRev
        BY <1>2, <4>1
      <4> QED BY <3>1, <4>1, <4>2
    <3> QED BY <1>v, <3>1, <3>2, <3>3
  <2> QED BY <2>1, <2>2
<1>13. ShownOK'
  <2>1. ASSUME Live', Idle PROVE AllGood(view, stateRev)'
    <3>1. AllGood(view, stateRev)
      BY <1>1, <1>4, <2>1 DEF IInv, ShownOK
    <3>2. \A r \in Rows \ silent :
              \/ r \in unsent \/ GapDue
              \/ \E d \in Due' : d.rev > e.rev /\ d.row = r /\ d.val = db[r]
              \/ view'[r] = db[r] /\ \A d \in Due' : d.rev > e.rev => d.row # r
      BY <1>12, <3>1
    <3> QED BY <1>1, <1>4, <3>2 DEF AllGood, Good
  <2>2. ASSUME Live', Settles', ~(read.at = "sampled" /\ ended), ~read.over PROVE AllGood(Known, read.rev)'
    <3>1. AllGood(Known, read.rev) /\ read.rev >= e.rev
      BY <1>1, <1>4, <1>5, <2>2 DEF IInv, ShownOK
    <3> QED BY <1>2, <1>5, <1>11, <3>1 DEF AllGood, Good
  <2> QED BY <1>1, <1>5, <2>1, <2>2 DEF ShownOK
<1>14. OverOK'
  <2>1. SUFFICES ASSUME e.end PROVE OverOK'
    BY <1>1, <1>2 DEF OverOK
  <2>2. /\ Due = {e} /\ Due' = {} /\ ~GapDue /\ unsent = {} /\ ended /\ e.row = 0 /\ e.val = db[0]
    BY <1>1, <1>4, <1>e, <2>1
  <2>3. Live
    BY <1>4, <2>1 DEF Live
  <2>4. ASSUME Idle PROVE AllRight(view)'
    <3>1. AllGood(view, stateRev)
      BY <1>1, <2>3, <2>4 DEF IInv, ShownOK
    <3>2. \A r \in Rows \ silent : view'[r] = db[r]
      BY <1>12, <2>2, <3>1
    <3> QED BY <1>1, <3>2 DEF AllRight
  <2>5. ASSUME Settles', read.at \in {"run", "reply"}, ~read.over PROVE AllRight(Known)'
    <3>1. Settles /\ read.rev >= e.rev
      BY <1>5, <2>5
    <3>2. AllGood(Known, read.rev)
      BY <1>1, <2>3, <2>5, <3>1 DEF IInv, ShownOK
    <3>3. ~(e.rev > read.rev)
      BY <1>2, <3>1
    <3>4. \A r \in Rows \ silent : Known[r] = db[r]
      BY <2>2, <3>2, <3>3 DEF AllGood, Good
    <3> QED BY <1>1, <1>5, <3>4 DEF AllRight
  <2> QED BY <1>1, <1>5, <2>4, <2>5 DEF OverOK
<1>15. SeenOK'
  <2>1. ASSUME Uncrashed, Idle, sub = "on" PROVE Seen(view, stateRev)'
    <3>1. Seen(view, stateRev)
      BY <2>1 DEF IInv, SeenOK
    <3>2. CASE book = "unknown"
      <4>1. hist' = <<>> /\ Len(<<>>) = 0
        BY <1>1, <3>2 DEF IInv, HistOK
      <4> QED BY <4>1 DEF Seen
    <3>3. CASE book # "unknown"
      <4>1. Unbroken(stateRev)
        BY <2>1, <3>3 DEF IInv, FollowOK
      <4>2. \A m \in stateRev + 1..e.rev - 1 : FALSE
        <5> SUFFICES ASSUME NEW m \in stateRev + 1..e.rev - 1 PROVE FALSE
          OBVIOUS
        <5>1. DueAt(m) \/ Gapped(e)
          BY <1>4, <4>1 DEF Unbroken
        <5>2. ~Gapped(e)
          BY <1>1
        <5>3. PICK d \in Due : d.rev = m
          BY <5>1, <5>2 DEF DueAt
        <5>4. d = e \/ e.rev < d.rev
          BY <1>4
        <5> QED BY <1>2, <5>3, <5>4
      <4>3. e.rev = stateRev + 1
        <5>1. ~(stateRev + 1 \in stateRev + 1..e.rev - 1)
          BY <4>2
        <5> QED BY <1>2, <5>1
      <4>4. hist[e.rev].row = e.row /\ hist[e.rev].val = e.val
        BY <1>4, <2>1, <3>3 DEF IInv, RevsOK
      <4>5. ASSUME NEW m \in 1..Len(hist), m <= e.rev PROVE view'[hist[m].row] >= hist[m].val
        <5>1. hist[m].row \in Rows /\ hist[m].val \in Nat
          <6>1. hist[m] \in [row : Rows, val : Nat]
            BY <1>3, ElementOfSeq DEF BrokerType
          <6> QED BY <6>1
        <5>2. CASE m = e.rev
          BY <1>2, <1>v, <4>4, <5>1, <5>2
        <5>3. CASE m <= stateRev
          <6>1. view[hist[m].row] >= hist[m].val
            BY <3>1, <5>3 DEF Seen
          <6>2. CASE hist[m].row # e.row
            BY <1>v, <5>1, <6>1, <6>2
          <6>3. CASE hist[m].row = e.row
            <7>1. m < e.rev /\ e.rev \in 1..Len(hist)
              <8>1. e.rev <= rev /\ e.rev > 0
                BY <1>4, <2>1, <3>3 DEF IInv, RevsOK, InOrder
              <8>2. rev = Len(hist)
                BY DEF IInv, HistOK
              <8>3. rev \in Nat
                BY <1>3 DEF BrokerType
              <8>4. e.rev \in 1..rev
                BY <1>2, <8>1, <8>3
              <8>5. m < e.rev
                BY <1>2, <4>3, <5>3
              <8> QED BY <8>2, <8>4, <8>5
            <7>2. hist[m].val < hist[e.rev].val
              BY <4>4, <6>3, <7>1 DEF IInv, HistOK
            <7> QED BY <1>2, <1>v, <4>4, <5>1, <6>3, <7>2
          <6> QED BY <6>2, <6>3
        <5>4. m \in Nat
          <6>1. Len(hist) \in Nat
            BY <1>3, LenProperties DEF BrokerType
          <6> QED BY <6>1
        <5> QED BY <1>2, <4>3, <4>5, <5>2, <5>3, <5>4
      <4> QED BY <1>1, <4>5 DEF Seen
    <3> QED BY <3>2, <3>3
  <2>2. ASSUME Uncrashed, Begun PROVE Seen(Known, read.rev)'
    BY <1>1, <1>5, <2>2 DEF IInv, SeenOK, Seen
  <2> QED BY <1>1, <1>5, <2>1, <2>2 DEF SeenOK
<1>16. FollowOK'
  <2>1. ASSUME Uncrashed, sub = "on", book # "unknown", Idle PROVE Unbroken(stateRev)'
    <3>1. Unbroken(stateRev) /\ stateRev <= e.rev
      BY <1>2, <2>1 DEF IInv, FollowOK
    <3>2. e.rev >= e.rev
      BY <1>2
    <3> QED BY <1>2, <1>11, <3>1, <3>2 DEF Unbroken, DueAt
  <2>2. ASSUME Uncrashed, sub = "on", book # "unknown", Settles' PROVE Unbroken(read.rev)'
    <3>1. Unbroken(read.rev) /\ read.rev >= e.rev /\ read.rev <= read.rev
      BY <1>2, <1>5, <2>2 DEF IInv, FollowOK
    <3> QED BY <1>2, <1>11, <3>1 DEF Unbroken, DueAt
  <2> QED BY <1>1, <1>5, <2>1, <2>2 DEF FollowOK
<1> QED BY <1>1, <1>6, <1>7, <1>8, <1>9, <1>10, <1>13, <1>14, <1>15, <1>16 DEF IInv

LEMMA ReceiveStep == ASSUME IInv, Receive PROVE IInv'
<1> DEFINE e == Head(wire)
<1>1. /\ e \in Frames /\ UNCHANGED <<db, ended>>
  BY Received
<1>2. stateRev \in Nat /\ e.rev \in Nat
  BY <1>1, Types DEF IInv, Frames
<1>3. CASE e.class = "gap"
  <2>1. Reconcile /\ UNCHANGED <<view, over, stateRev, link, tries>>
    BY <1>3 DEF Receive, shown, subscription
  <2> QED BY <2>1, ReceiveAsk
<1>4. CASE e.class = "eof"
  BY <1>4, ReceiveEof
<1>5. CASE e.class \notin {"gap", "eof"}
  <2>1. Apply(e) /\ UNCHANGED <<link, tries>>
    BY <1>5 DEF Receive, subscription
  <2>2. CASE ~IsState(e) \/ ~Fresh(e)
    <3>1. UNCHANGED <<view, over, stateRev, read, again, retry>>
      BY <2>1, <2>2 DEF Apply, shown
    <3>2. IsState(e) => e.rev <= stateRev
      BY <1>2, <2>2 DEF Fresh
    <3> QED BY <1>5, <2>1, <3>1, <3>2, ReceiveIgnored
  <2>3. CASE IsState(e) /\ Fresh(e) /\ Unknown(e.row)
    <3>1. stateRev' = e.rev /\ Reconcile /\ UNCHANGED <<view, over>>
      BY <2>1, <2>3 DEF Apply
    <3> QED BY <2>1, <2>3, <3>1, ReceiveAsk
  <2>4. CASE IsState(e) /\ Fresh(e) /\ ~Unknown(e.row)
    <3>1. /\ stateRev' = e.rev /\ view' = [view EXCEPT ![e.row] = e.val] /\ over' = (over \/ e.end)
          /\ UNCHANGED <<read, again, retry>>
      BY <2>1, <2>4 DEF Apply
    <3>2. e.rev > stateRev
      BY <2>4 DEF Fresh
    <3> QED BY <2>1, <2>4, <3>1, <3>2, ReceiveApplied
  <2> QED BY <2>2, <2>3, <2>4
<1> QED BY <1>3, <1>4, <1>5

(* The run's goroutine writes rows.                                           *)

Wrote ==
    /\ ~ended /\ unsent = {} /\ up
    /\ \A r \in Rows : db'[r] >= db[r]
    /\ \A r \in Rows \ silent' : r \in unsent' \/ (r \notin silent /\ db'[r] = db[r])
    /\ \A r \in unsent' : db'[r] > db[r]
    /\ \A r, s \in unsent' : r = s
    /\ ended' => unsent' \subseteq {0}
    /\ used'["crashes"] = used["crashes"]
    /\ UNCHANGED <<rev, book, hist, up, mb, sub, wire>>

LEMMA WriterEffect == ASSUME TypeOK, Writer PROVE Wrote
<1>0. StoreType /\ used \in [DOMAIN Bounds -> Nat]
  BY TypeParts
<1>1. ASSUME NEW rows \in SUBSET Rows, db' = Written(rows), unsent' \subseteq rows,
             \A r \in silent \cup rows : r \in unsent' \/ r \in silent'
      PROVE  /\ \A r \in Rows : db'[r] >= db[r]
             /\ \A r \in Rows \ silent' : r \in unsent' \/ (r \notin silent /\ db'[r] = db[r])
             /\ \A r \in unsent' : db'[r] > db[r]
  <2>1. \A r \in Rows : db[r] \in Nat /\ db'[r] = IF r \in rows THEN db[r] + 1 ELSE db[r]
    BY <1>0, <1>1, WrittenType DEF StoreType
  <2>2. \A r \in Rows : db'[r] >= db[r] /\ (r \in rows => db'[r] > db[r])
    BY <2>1
  <2> QED BY <1>1, <2>1, <2>2
<1>2. CASE InsertSteps
  <2>1. /\ db' = Written(Dynamic) /\ silent' = silent \cup Dynamic /\ unsent' = {} /\ unsent = {} /\ ~ended /\ up
        /\ UNCHANGED <<ended, rev, book, hist, up, mb, sub, wire, used>>
    BY <1>2 DEF InsertSteps, CanWrite, broker, stream
  <2>2. Dynamic \in SUBSET Rows
    BY Constants
  <2>3. /\ \A r \in Rows : db'[r] >= db[r]
        /\ \A r \in Rows \ silent' : r \in unsent' \/ (r \notin silent /\ db'[r] = db[r])
        /\ \A r \in unsent' : db'[r] > db[r]
    BY <1>1, <2>1, <2>2
  <2> QED BY <2>1, <2>3 DEF Wrote
<1>3. ASSUME NEW r \in Rows, Write(r) PROVE Wrote
  <2>1. /\ db' = Written({r}) /\ unsent' = {r} /\ silent' = silent \ {r} /\ unsent = {} /\ ~ended /\ up
        /\ UNCHANGED <<ended, rev, book, hist, up, mb, sub, wire, used>>
    BY <1>3 DEF Write, CanWrite, broker, stream
  <2>2. {r} \in SUBSET Rows
    OBVIOUS
  <2>3. /\ \A s \in Rows : db'[s] >= db[s]
        /\ \A s \in Rows \ silent' : s \in unsent' \/ (s \notin silent /\ db'[s] = db[s])
        /\ \A s \in unsent' : db'[s] > db[s]
    BY <1>1, <2>1, <2>2
  <2> QED BY <2>1, <2>3 DEF Wrote
<1>4. ASSUME NEW s \in Steps, Rewind(s) PROVE Wrote
  <2> DEFINE reset == ResetRows(s)
  <2>1. PICK run \in {{}, {0}} : /\ db' = Written(reset \cup run) /\ unsent' = run
                                 /\ silent' = (silent \cup reset) \ run
    BY <1>4 DEF Rewind
  <2>2. /\ unsent = {} /\ ~ended /\ up /\ Use("rewinds")
        /\ UNCHANGED <<ended, rev, book, hist, up, mb, sub, wire>>
    BY <1>4 DEF Rewind, CanWrite, broker, stream
  <2>3. reset \cup run \in SUBSET Rows
    <3>1. s \in 1..NSteps /\ Rows = 0..NSteps /\ NSteps \in Nat
      BY Constants
    <3>2. reset \in SUBSET Rows
      BY <3>1 DEF ResetRows
    <3> QED BY <3>1, <3>2
  <2>4. used'["crashes"] = used["crashes"]
    <3>1. "rewinds" \in DOMAIN Bounds
      BY DEF Bounds
    <3> QED BY <1>0, <2>2, <3>1, UseType
  <2> HIDE DEF reset
  <2>5. /\ \A r \in Rows : db'[r] >= db[r]
        /\ \A r \in Rows \ silent' : r \in unsent' \/ (r \notin silent /\ db'[r] = db[r])
        /\ \A r \in unsent' : db'[r] > db[r]
    BY <1>1, <2>1, <2>3
  <2>6. (\A q, r \in unsent' : q = r) /\ unsent' \subseteq {0}
    BY <2>1
  <2> QED BY <2>2, <2>4, <2>5, <2>6 DEF Wrote
<1>5. CASE EndRun
  <2>1. PICK closing \in {{}} \cup {{s} : s \in Steps} :
            db' = Written(closing \cup {0}) /\ silent' = (silent \cup closing) \ {0}
    BY <1>5 DEF EndRun
  <2>2. closing \in SUBSET Rows /\ 0 \in Rows
    BY Constants
  <2>3. (closing \cup {0}) \in SUBSET Rows
    BY <2>2
  <2>4. /\ ended' = TRUE /\ unsent' = {0} /\ unsent = {} /\ ~ended /\ up
        /\ UNCHANGED <<rev, book, hist, up, mb, sub, wire, used>>
    BY <1>5 DEF EndRun, CanWrite, broker, stream
  <2>5. /\ \A r \in Rows : db'[r] >= db[r]
        /\ \A r \in Rows \ silent' : r \in unsent' \/ (r \notin silent /\ db'[r] = db[r])
        /\ \A r \in unsent' : db'[r] > db[r]
    BY <1>1, <2>1, <2>3, <2>4
  <2> QED BY <2>4, <2>5 DEF Wrote
<1> QED BY <1>2, <1>3, <1>4, <1>5 DEF Writer

LEMMA ReaderKept ==
    ASSUME ReaderSame
    PROVE  /\ UNCHANGED <<view, over, stateRev, link, tries, read, again, retry, broken, fails>>
           /\ (Idle' <=> Idle) /\ (Begun' <=> Begun) /\ (Settles' <=> Settles) /\ (Pending' <=> Pending)
<1>1. UNCHANGED <<view, over, stateRev, link, tries, read, again, retry, broken, fails>>
  BY DEF ReaderSame, shown, subscription, reads
<1> QED BY <1>1 DEF Idle, Begun, Settles, Pending

LEMMA WriterStep == ASSUME IInv, Writer, ReaderSame PROVE IInv'
<1>1. /\ ~ended /\ unsent = {} /\ up
      /\ \A r \in Rows : db'[r] >= db[r]
      /\ \A r \in Rows \ silent' : r \in unsent' \/ (r \notin silent /\ db'[r] = db[r])
      /\ \A r \in unsent' : db'[r] > db[r]
      /\ \A r, s \in unsent' : r = s
      /\ ended' => unsent' \subseteq {0}
      /\ used'["crashes"] = used["crashes"]
      /\ UNCHANGED <<rev, book, hist, up, mb, sub, wire>>
  BY WriterEffect DEF IInv, Wrote
<1>2. StoreType' /\ used' \in [DOMAIN Bounds -> Nat]
  BY WriterType DEF IInv
<1>3. StoreType /\ BrokerType /\ StreamType /\ ShownType /\ ReadType
  BY TypeParts DEF IInv
<1>4. /\ UNCHANGED <<view, over, stateRev, link, tries, read, again, retry, broken, fails>>
      /\ (Idle' <=> Idle) /\ (Begun' <=> Begun) /\ (Settles' <=> Settles) /\ (Pending' <=> Pending)
  BY ReaderKept
<1>5. /\ Due' = Due /\ (GapDue' <=> GapDue)
      /\ \A e : Gapped(e)' <=> Gapped(e)
      /\ \A n : DueAt(n)' <=> DueAt(n)
  BY <1>1, StreamSame
<1>6. (Uncrashed' <=> Uncrashed) /\ book = "live" /\ ~over /\ ~read.over
  BY <1>1, <1>3 DEF Uncrashed, IInv, DaemonOK, ReadOK, ShownType, ReadType, Reads
<1>7. TypeOK'
  <2>1. BrokerType' /\ StreamType'
    BY <1>1, <1>3 DEF BrokerType, StreamType
  <2>2. ShownType' /\ ReadType'
    BY ReaderTypes DEF IInv
  <2> QED BY <1>2, <2>1, <2>2, TypeNext
<1>8. LinkOK'
  BY <1>1, <1>4 DEF IInv, LinkOK, NoMailbox
<1>9. DaemonOK'
  BY <1>1, <1>4, <1>6 DEF IInv, DaemonOK
<1>d. \A r \in Rows : db[r] \in Nat /\ db'[r] \in Nat /\ db'[r] >= db[r] /\ (r \in unsent' => db'[r] > db[r])
  BY <1>1, <1>2, <1>3 DEF StoreType
<1>10. InOrder'
  <2>1. ASSUME NEW e \in Due PROVE e.val <= db'[e.row] /\ (e.row \in unsent' => e.val < db'[e.row])
    <3>1. e.row \in Rows /\ e.val \in Nat /\ e.val <= db[e.row]
      BY DueFrames DEF IInv, InOrder
    <3> QED BY <1>d, <3>1
  <2> QED BY <1>1, <1>5, <2>1 DEF IInv, InOrder
<1>11. HistOK'
  <2>1. ASSUME NEW n \in 1..Len(hist)
        PROVE  hist[n].val <= db'[hist[n].row] /\ (hist[n].row \in unsent' => hist[n].val < db'[hist[n].row])
    <3>1. hist[n] \in [row : Rows, val : Nat]
      BY <1>3, ElementOfSeq DEF BrokerType
    <3>2. hist[n].val <= db[hist[n].row] /\ hist[n].row \in Rows /\ hist[n].val \in Nat
      BY <3>1 DEF IInv, HistOK
    <3> QED BY <1>d, <3>2
  <2> QED BY <1>1, <2>1 DEF IInv, HistOK
<1>12. RevsOK'
  BY <1>1, <1>4, <1>5, <1>6 DEF IInv, RevsOK
<1>13. EndOK'
  <2>1. \A e \in Due : ~e.end
    BY <1>1 DEF IInv, EndOK
  <2> QED BY <1>1, <1>5, <2>1 DEF IInv, EndOK
<1>14. ReadOK'
  BY <1>4, <1>6 DEF IInv, ReadOK
<1>15. CrashOK'
  BY <1>1, <1>4, <1>5, <1>6 DEF IInv, CrashOK
<1>16. Live' <=> Live
  BY <1>1, <1>5 DEF Live
<1>17. ShownOK'
  <2>1. ASSUME Live, Idle PROVE AllGood(view, stateRev)'
    <3>1. AllGood(view, stateRev)
      BY <1>6, <2>1 DEF IInv, ShownOK
    <3> QED BY <1>1, <1>4, <1>5, <3>1 DEF AllGood, Good
  <2>2. ASSUME Live, Settles PROVE AllGood(Known, read.rev)'
    <3>1. AllGood(Known, read.rev)
      BY <1>1, <1>6, <2>2 DEF IInv, ShownOK
    <3>2. \A r \in Rows : db'[r] = db[r] => Known'[r] = Known[r]
      BY <1>4 DEF Known
    <3> HIDE DEF Known
    <3> QED BY <1>1, <1>4, <1>5, <3>1, <3>2 DEF AllGood, Good
  <2> QED BY <1>4, <1>16, <2>1, <2>2 DEF ShownOK
<1>18. OverOK'
  BY <1>4, <1>6 DEF OverOK
<1>19. SeenOK'
  <2>1. ASSUME Uncrashed, Begun PROVE Seen(Known, read.rev)'
    <3>1. Seen(Known, read.rev)
      BY <2>1 DEF IInv, SeenOK
    <3>2. \A r \in Rows : Known'[r] >= Known[r] /\ Known'[r] \in Nat /\ Known[r] \in Nat
      <4>1. \A r \in Rows : read.view[r] \in Nat
        BY <1>3 DEF ReadType, Reads
      <4>2. \A r \in Rows : \/ Known'[r] = db'[r] /\ Known[r] = db[r]
                            \/ Known'[r] = read.view[r] /\ Known[r] = read.view[r]
        BY <1>4 DEF Known
      <4> QED BY <1>d, <4>1, <4>2
    <3>3. \A m \in 1..Len(hist) : hist[m].row \in Rows /\ hist[m].val \in Nat
      <4>1. \A m \in 1..Len(hist) : hist[m] \in [row : Rows, val : Nat]
        BY <1>3, ElementOfSeq DEF BrokerType
      <4> QED BY <4>1
    <3> HIDE DEF Known
    <3>4. \A m \in 1..Len(hist) : m <= read.rev => Known'[hist[m].row] >= hist[m].val
      <4> SUFFICES ASSUME NEW m \in 1..Len(hist), m <= read.rev PROVE Known'[hist[m].row] >= hist[m].val
        OBVIOUS
      <4>1. Known[hist[m].row] >= hist[m].val
        BY <3>1 DEF Seen
      <4> QED BY <3>2, <3>3, <4>1
    <3> QED BY <1>1, <1>4, <3>4 DEF Seen
  <2> QED BY <1>1, <1>4, <1>6, <2>1 DEF IInv, SeenOK, Seen
<1>20. FollowOK'
  BY <1>1, <1>4, <1>5, <1>6 DEF IInv, FollowOK, Unbroken
<1> QED BY <1>7, <1>8, <1>9, <1>10, <1>11, <1>12, <1>13, <1>14, <1>15, <1>17, <1>18, <1>19, <1>20 DEF IInv

(* A crashed daemon starts again.                                             *)

LEMMA RestartStep == ASSUME IInv, Restart, ReaderSame PROVE IInv'
<1>1. /\ ~up /\ up' /\ unsent' = unsent /\ silent' = silent /\ UNCHANGED <<rev, hist, mb, sub, wire, used>>
      /\ \/ book' = (IF ended THEN "unknown" ELSE "live") /\ UNCHANGED <<db, ended>>
         \/ ~ended /\ ended' = TRUE /\ book' = "unknown" /\ db' = Written({0})
  BY DEF Restart, store, stream
<1>2. unsent = {} /\ sub = "off" /\ book = "unknown" /\ ~Uncrashed /\ hist = <<>>
  BY <1>1 DEF IInv, DaemonOK, HistOK
<1>3. StoreType /\ BrokerType /\ StreamType /\ ShownType /\ ReadType /\ used \in [DOMAIN Bounds -> Nat]
  BY TypeParts DEF IInv
<1>4. /\ UNCHANGED <<view, over, stateRev, link, tries, read, again, retry, broken, fails>>
      /\ (Idle' <=> Idle) /\ (Begun' <=> Begun) /\ (Settles' <=> Settles) /\ (Pending' <=> Pending)
  BY ReaderKept
<1>5. /\ Due' = Due /\ (GapDue' <=> GapDue)
  BY <1>1, StreamSame
<1>6. ~Uncrashed'
  BY <1>1, <1>2 DEF Uncrashed
<1>d. /\ db' \in [Rows -> Nat] /\ \A r \in Rows : db[r] \in Nat /\ db'[r] \in Nat /\ db'[r] >= db[r]
  <2>1. db \in [Rows -> Nat] /\ {0} \in SUBSET Rows
    BY <1>3, Constants DEF StoreType
  <2>2. CASE db' = db
    BY <2>1, <2>2
  <2>3. CASE db' = Written({0})
    <3>1. db' \in [Rows -> Nat] /\ \A r \in Rows : db'[r] = IF r \in {0} THEN db[r] + 1 ELSE db[r]
      BY <2>1, <2>3, WrittenType
    <3> QED BY <2>1, <3>1
  <2> QED BY <1>1, <2>2, <2>3
<1>7. TypeOK'
  <2>1. StoreType' /\ BrokerType' /\ StreamType' /\ used' \in [DOMAIN Bounds -> Nat]
    BY <1>1, <1>3, <1>d DEF StoreType, BrokerType, StreamType
  <2>2. ShownType' /\ ReadType'
    BY ReaderTypes DEF IInv
  <2> QED BY <2>1, <2>2, TypeNext
<1>8. LinkOK'
  BY <1>1, <1>2, <1>4 DEF IInv, LinkOK, NoMailbox
<1>9. DaemonOK'
  BY <1>1, <1>2, <1>4, <1>6 DEF IInv, DaemonOK
<1>10. InOrder'
  <2>1. \A e \in Due : e.val <= db'[e.row]
    <3> TAKE e \in Due
    <3>1. e.row \in Rows /\ e.val \in Nat /\ e.val <= db[e.row]
      BY DueFrames DEF IInv, InOrder
    <3> QED BY <1>d, <3>1
  <2> QED BY <1>1, <1>2, <1>5, <2>1 DEF IInv, InOrder
<1>11. HistOK'
  BY <1>1, <1>2 DEF IInv, HistOK
<1>12. RevsOK'
  BY <1>1, <1>2, <1>6 DEF RevsOK
<1>e. ~ended => ~over /\ ~read.over /\ ~Live
  <2>1. ~ended => ~over /\ ~read.over /\ \A e \in Due : ~e.end
    BY <1>3 DEF IInv, DaemonOK, ReadOK, EndOK, ShownType, ReadType, Reads
  <2> QED BY <1>2, <2>1 DEF Live
<1>13. EndOK'
  <2>1. ~ended => \A e \in Due : ~e.end
    BY DEF IInv, EndOK
  <2> QED BY <1>1, <1>2, <1>5, <2>1 DEF IInv, EndOK
<1>14. ReadOK'
  BY <1>1, <1>4, <1>e DEF IInv, ReadOK, Known
<1>15. CrashOK'
  BY <1>1, <1>2 DEF CrashOK
<1>16. Live' <=> Live
  BY <1>1, <1>5 DEF Live
<1>k. UNCHANGED <<db, ended>> \/ (~ended /\ ~over /\ ~Live)
  BY <1>1, <1>e
<1>17. ShownOK'
  <2>1. CASE ~Live
    BY <1>16, <2>1 DEF ShownOK
  <2>2. CASE UNCHANGED <<db, ended>>
    <3>1. ASSUME ~over, Live, Idle PROVE AllGood(view, stateRev)'
      <4>1. AllGood(view, stateRev)
        BY <3>1 DEF IInv, ShownOK
      <4> QED BY <1>1, <1>4, <1>5, <2>2, <4>1 DEF AllGood, Good
    <3>2. ASSUME ~over, Live, Settles, ~(read.at = "sampled" /\ ended), ~read.over PROVE AllGood(Known, read.rev)'
      <4>1. AllGood(Known, read.rev)
        BY <3>2 DEF IInv, ShownOK
      <4>2. Known' = Known
        BY <1>4, <2>2 DEF Known
      <4> QED BY <1>1, <1>4, <1>5, <2>2, <4>1, <4>2 DEF AllGood, Good
    <3> QED BY <1>4, <1>16, <2>2, <3>1, <3>2 DEF ShownOK
  <2> QED BY <1>k, <2>1, <2>2
<1>18. OverOK'
  <2>1. CASE ~over
    BY <1>4, <2>1 DEF OverOK
  <2>2. CASE UNCHANGED <<db, ended>>
    <3>1. Known' = Known
      BY <1>4, <2>2 DEF Known
    <3> QED BY <1>1, <1>4, <2>2, <3>1 DEF IInv, OverOK, AllRight
  <2> QED BY <1>k, <2>1, <2>2
<1>19. SeenOK' /\ FollowOK'
  BY <1>6 DEF SeenOK, FollowOK
<1> QED BY <1>7, <1>8, <1>9, <1>10, <1>11, <1>12, <1>13, <1>14, <1>15, <1>17, <1>18, <1>19 DEF IInv

(* The run's bookkeeping after its end.                                       *)

LEMMA BooksStep ==
    ASSUME IInv, ReaderSame, ended, unsent = {}, up, book # "unknown", book' \in {"closed", "unknown"},
           UNCHANGED <<db, ended, unsent, silent, up, sub, wire>>,
           Box(mb'), mb'.ring = mb.ring, mb'.gap = mb.gap, sub = "off" => mb' = mb,
           used' \in [DOMAIN Bounds -> Nat], used'["crashes"] = used["crashes"],
           \/ UNCHANGED <<rev, hist>> /\ book' = "closed"
           \/ rev' = 0 /\ hist' = <<>> /\ book' = "unknown"
    PROVE  IInv'
<1>1. StoreType /\ BrokerType /\ StreamType /\ ShownType /\ ReadType
  BY TypeParts DEF IInv
<1>2. /\ UNCHANGED <<view, over, stateRev, link, tries, read, again, retry, broken, fails>>
      /\ (Idle' <=> Idle) /\ (Begun' <=> Begun) /\ (Settles' <=> Settles) /\ (Pending' <=> Pending)
  BY ReaderKept
<1>3. Due' = Due /\ (GapDue' <=> GapDue) /\ (Live' <=> Live) /\ Known' = Known /\ (Uncrashed' <=> Uncrashed)
      /\ (\A e : Gapped(e)' <=> Gapped(e)) /\ \A n : DueAt(n)' <=> DueAt(n)
  <2>1. Due' = Due
    BY DEF Due
  <2>2. (GapDue' <=> GapDue) /\ (Live' <=> Live) /\ Known' = Known /\ (Uncrashed' <=> Uncrashed)
    BY <1>2, <2>1 DEF GapDue, Live, Known, Uncrashed
  <2>3. \A e : Gapped(e)' <=> Gapped(e)
    BY DEF Gapped
  <2>4. \A n : DueAt(n)' <=> DueAt(n)
    BY <2>1 DEF DueAt
  <2> QED BY <2>1, <2>2, <2>3, <2>4
<1>h. <<>> \in Seq([row : Rows, val : Nat]) /\ Len(<<>>) = 0
  OBVIOUS
<1>4. TypeOK'
  <2>1. StoreType' /\ StreamType'
    BY <1>1 DEF StoreType, StreamType
  <2>2. hist' \in Seq([row : Rows, val : Nat]) /\ rev' \in Nat
    <3>1. CASE UNCHANGED <<rev, hist>>
      BY <1>1, <3>1 DEF BrokerType
    <3>2. CASE rev' = 0 /\ hist' = <<>>
      <4>1. hist' \in Seq([row : Rows, val : Nat])
        BY <1>h, <3>2, Zenon
      <4> QED BY <3>2, <4>1
    <3> QED BY <3>1, <3>2
  <2>3. BrokerType'
    <3>1. up' \in BOOLEAN
      BY <1>1 DEF BrokerType
    <3>2. book' \in {"live", "closed", "unknown"}
      OBVIOUS
    <3> QED BY <2>2, <3>1, <3>2 DEF BrokerType
  <2>4. ShownType' /\ ReadType'
    BY ReaderTypes DEF IInv
  <2> QED BY <2>1, <2>3, <2>4, TypeNext
<1>5. LinkOK'
  <2>1. sub = "off" => mb' = NoMailbox
    BY DEF IInv, LinkOK
  <2>2. NoMailbox' = NoMailbox
    BY DEF NoMailbox
  <2>3. /\ sub = "on" => link = "attached" /\ up /\ \A n \in 1..Len(wire) : wire[n].class # "eof"
        /\ link # "attached" => sub = "off" /\ wire = <<>>
        /\ \A n \in 1..Len(wire) : wire[n].class = "eof" => n = Len(wire)
        /\ \A n \in 1..Len(mb.ring) : mb.ring[n].class \in {"state", "activity"}
    BY DEF IInv, LinkOK
  <2> QED BY <1>2, <2>1, <2>2, <2>3 DEF LinkOK
<1>6. DaemonOK'
  BY <1>2, <1>3 DEF IInv, DaemonOK
<1>7. InOrder' /\ EndOK'
  BY <1>3 DEF IInv, InOrder, EndOK
<1>8. HistOK'
  BY <1>h DEF IInv, HistOK
<1>9. RevsOK'
  BY <1>2, <1>3 DEF IInv, RevsOK
<1>10. ReadOK' /\ CrashOK'
  BY <1>2, <1>3 DEF IInv, ReadOK, CrashOK
<1>11. ShownOK'
  <2>1. AllGood(view, stateRev) => AllGood(view, stateRev)'
    BY <1>2, <1>3 DEF AllGood, Good
  <2>2. AllGood(Known, read.rev) => AllGood(Known, read.rev)'
    BY <1>2, <1>3 DEF AllGood, Good
  <2> QED BY <1>2, <1>3, <2>1, <2>2 DEF IInv, ShownOK
<1>12. OverOK'
  BY <1>2, <1>3 DEF IInv, OverOK, AllRight
<1>13. SeenOK'
  <2>1. (Seen(view, stateRev) => Seen(view, stateRev)') /\ (Seen(Known, read.rev) => Seen(Known, read.rev)')
    BY <1>2, <1>3, <1>h DEF Seen
  <2> QED BY <1>2, <1>3, <2>1 DEF IInv, SeenOK
<1>14. FollowOK'
  <2>1. CASE book' = "unknown"
    BY <2>1 DEF FollowOK
  <2>2. CASE UNCHANGED <<rev, hist>>
    <3>1. (Unbroken(stateRev) => Unbroken(stateRev)') /\ (Unbroken(read.rev) => Unbroken(read.rev)')
      BY <1>2, <1>3, <2>2 DEF Unbroken
    <3> QED BY <1>2, <1>3, <3>1 DEF IInv, FollowOK
  <2> QED BY <2>1, <2>2
<1> QED BY <1>4, <1>5, <1>6, <1>7, <1>8, <1>9, <1>10, <1>11, <1>12, <1>13, <1>14 DEF IInv

LEMMA CloseStep == ASSUME IInv, CloseSubscribers, ReaderSame PROVE IInv'
<1>1. /\ up /\ ended /\ unsent = {} /\ book = "live" /\ book' = "closed" /\ mb' = [mb EXCEPT !.closed = TRUE]
      /\ UNCHANGED <<db, ended, unsent, silent, rev, up, hist, sub, wire, used>>
  BY DEF CloseSubscribers, Closed, store
<1>2. Box(mb) /\ used \in [DOMAIN Bounds -> Nat]
  BY TypeParts DEF IInv, StreamType
<1>3. mb'.ring = mb.ring /\ mb'.gap = mb.gap /\ mb'.bytes = mb.bytes /\ mb' \in Mailboxes
  BY <1>1, <1>2 DEF Box, Mailboxes
<1>4. Box(mb')
  BY <1>2, <1>3 DEF Box
<1>5. sub = "off" => mb' = mb
  <2>1. sub = "off" => mb.closed = TRUE
    BY DEF IInv, LinkOK, NoMailbox
  <2> QED BY <1>1, <1>2, <2>1 DEF Box, Mailboxes
<1> QED BY <1>1, <1>2, <1>3, <1>4, <1>5, BooksStep

LEMMA PruneStep == ASSUME IInv, Prune, ReaderSame PROVE IInv'
<1>1. /\ up /\ book = "closed" /\ Use("prunes") /\ book' = "unknown" /\ rev' = 0 /\ hist' = <<>>
      /\ UNCHANGED <<db, ended, unsent, silent, up, mb, sub, wire>>
  BY DEF Prune, store, stream
<1>2. Box(mb) /\ used \in [DOMAIN Bounds -> Nat] /\ ended \in BOOLEAN
  BY TypeParts DEF IInv, StreamType, StoreType
<1>3. ended /\ unsent = {}
  BY <1>1, <1>2 DEF IInv, DaemonOK
<1>4. used' \in [DOMAIN Bounds -> Nat] /\ used'["crashes"] = used["crashes"]
  <2>1. "prunes" \in DOMAIN Bounds
    BY DEF Bounds
  <2> QED BY <1>1, <1>2, <2>1, UseType
<1>5. Box(mb')
  BY <1>1, <1>2
<1> QED BY <1>1, <1>3, <1>4, <1>5, BooksStep

(* Activity is published.                                                     *)

LEMMA LogEffect ==
    ASSUME IInv, Log
    PROVE  /\ Box(mb') /\ mb'.closed = mb.closed /\ Ascends(mb'.ring) /\ (mb.closed => mb' = mb)
           /\ States(mb'.ring) = States(mb.ring) /\ mb'.gap = mb.gap
           /\ \A n \in 1..Len(mb'.ring) : mb'.ring[n].class \in {"state", "activity"}
           /\ used' \in [DOMAIN Bounds -> Nat] /\ used'["crashes"] = used["crashes"]
           /\ ~ended /\ unsent = {} /\ up
           /\ UNCHANGED <<db, ended, unsent, silent, rev, book, hist, up, sub, wire>>
<1>1. /\ ~ended /\ unsent = {} /\ up /\ Use("logs")
      /\ UNCHANGED <<db, ended, unsent, silent, rev, book, hist, up, sub, wire>>
  BY DEF Log, CanWrite, store, broker
<1>2. Box(mb) /\ used \in [DOMAIN Bounds -> Nat] /\ Ascends(mb.ring)
  BY TypeParts DEF IInv, StreamType, InOrder
<1>3. PICK e \in Frames : ~IsState(e) /\ e.class = "activity" /\ mb' = Publish(mb, e)
  BY Logging DEF IInv
<1> DEFINE q == Publish(mb, e)
<1>4. /\ Box(q) /\ q.closed = mb.closed /\ Ascends(q.ring) /\ (mb.closed => q = mb)
      /\ States(q.ring) = States(mb.ring) /\ q.gap = mb.gap
  BY <1>2, <1>3, Published
<1>7. \A n \in 1..Len(q.ring) : q.ring[n] = e \/ \E k \in 1..Len(mb.ring) : q.ring[n] = mb.ring[k]
  BY <1>2, PublishedFrames
<1>5. mb' = q
  BY <1>3
<1> HIDE DEF q
<1>8. \A n \in 1..Len(mb'.ring) : mb'.ring[n].class \in {"state", "activity"}
  <2>1. \A k \in 1..Len(mb.ring) : mb.ring[k].class \in {"state", "activity"}
    BY DEF IInv, LinkOK
  <2> QED BY <1>3, <1>5, <1>7, <2>1
<1>6. used' \in [DOMAIN Bounds -> Nat] /\ used'["crashes"] = used["crashes"]
  <2>1. "logs" \in DOMAIN Bounds
    BY DEF Bounds
  <2> QED BY <1>1, <1>2, <2>1, UseType
<1> QED BY <1>1, <1>4, <1>5, <1>6, <1>8

LEMMA LogStep == ASSUME IInv, Log, ReaderSame PROVE IInv'
<1>1. /\ Box(mb') /\ mb'.closed = mb.closed /\ Ascends(mb'.ring) /\ (mb.closed => mb' = mb)
      /\ States(mb'.ring) = States(mb.ring) /\ mb'.gap = mb.gap
      /\ \A n \in 1..Len(mb'.ring) : mb'.ring[n].class \in {"state", "activity"}
      /\ used' \in [DOMAIN Bounds -> Nat] /\ used'["crashes"] = used["crashes"]
      /\ ~ended /\ unsent = {} /\ up
      /\ UNCHANGED <<db, ended, unsent, silent, rev, book, hist, up, sub, wire>>
  BY LogEffect
<1>2. StoreType /\ BrokerType /\ StreamType
  BY TypeParts DEF IInv
<1>3. /\ UNCHANGED <<view, over, stateRev, link, tries, read, again, retry, broken, fails>>
      /\ (Idle' <=> Idle) /\ (Begun' <=> Begun) /\ (Settles' <=> Settles) /\ (Pending' <=> Pending)
  BY ReaderKept
<1>4. Due' = Due /\ (GapDue' <=> GapDue) /\ (Live' <=> Live) /\ Known' = Known /\ (Uncrashed' <=> Uncrashed)
      /\ (\A e : Gapped(e)' <=> Gapped(e)) /\ \A n : DueAt(n)' <=> DueAt(n)
  <2>1. Due' = Due
    BY <1>1 DEF Due
  <2>2. (GapDue' <=> GapDue) /\ (Live' <=> Live) /\ Known' = Known /\ (Uncrashed' <=> Uncrashed)
    BY <1>1, <1>3, <2>1 DEF GapDue, Live, Known, Uncrashed
  <2>3. \A e : Gapped(e)' <=> Gapped(e)
    BY <1>1 DEF Gapped
  <2>4. \A n : DueAt(n)' <=> DueAt(n)
    BY <2>1 DEF DueAt
  <2> QED BY <2>1, <2>2, <2>3, <2>4
<1>5. TypeOK'
  <2>1. StoreType' /\ BrokerType' /\ StreamType'
    BY <1>1, <1>2 DEF StoreType, BrokerType, StreamType
  <2>2. ShownType' /\ ReadType'
    BY ReaderTypes DEF IInv
  <2> QED BY <1>1, <2>1, <2>2, TypeNext
<1>6. LinkOK'
  <2>1. sub = "off" => mb' = NoMailbox
    BY <1>1 DEF IInv, LinkOK, NoMailbox
  <2>2. NoMailbox' = NoMailbox
    BY DEF NoMailbox
  <2>3. /\ sub = "on" => link = "attached" /\ up /\ \A n \in 1..Len(wire) : wire[n].class # "eof"
        /\ sub = "on" /\ mb.closed => book # "live"
        /\ link # "attached" => sub = "off" /\ wire = <<>>
        /\ \A n \in 1..Len(wire) : wire[n].class = "eof" => n = Len(wire)
    BY DEF IInv, LinkOK
  <2> QED BY <1>1, <1>3, <2>1, <2>2, <2>3 DEF LinkOK
<1>7. DaemonOK' /\ HistOK'
  BY <1>1, <1>3, <1>4 DEF IInv, DaemonOK, HistOK
<1>8. InOrder'
  BY <1>1, <1>4 DEF IInv, InOrder
<1>9. RevsOK'
  BY <1>1, <1>3, <1>4 DEF IInv, RevsOK
<1>10. EndOK'
  <2>1. \A e \in Due : ~e.end
    BY <1>1 DEF IInv, EndOK
  <2>2. \A n \in 1..Len(mb'.ring) : IsState(mb'.ring[n]) => mb'.ring[n] \in Due
    BY <1>1 DEF Due, States
  <2>3. \A n \in 1..Len(wire) : IsState(wire[n]) => wire[n] \in Due
    BY DEF Due, States
  <2> QED BY <1>1, <1>4, <2>1, <2>2, <2>3 DEF EndOK
<1>11. ReadOK' /\ CrashOK'
  BY <1>1, <1>3, <1>4 DEF IInv, ReadOK, CrashOK
<1>12. ShownOK'
  <2>1. AllGood(view, stateRev) => AllGood(view, stateRev)'
    BY <1>1, <1>3, <1>4 DEF AllGood, Good
  <2>2. AllGood(Known, read.rev) => AllGood(Known, read.rev)'
    BY <1>1, <1>3, <1>4 DEF AllGood, Good
  <2> QED BY <1>1, <1>3, <1>4, <2>1, <2>2 DEF IInv, ShownOK
<1>13. OverOK'
  BY <1>1, <1>3, <1>4 DEF IInv, OverOK, AllRight
<1>14. SeenOK'
  BY <1>1, <1>3, <1>4 DEF IInv, SeenOK, Seen
<1>15. FollowOK'
  <2>1. (Unbroken(stateRev) => Unbroken(stateRev)') /\ (Unbroken(read.rev) => Unbroken(read.rev)')
    BY <1>1, <1>3, <1>4 DEF Unbroken
  <2> QED BY <1>1, <1>3, <1>4, <2>1 DEF IInv, FollowOK
<1> QED BY <1>5, <1>6, <1>7, <1>8, <1>9, <1>10, <1>11, <1>12, <1>13, <1>14, <1>15 DEF IInv

LEMMA BroadcastStep == ASSUME IInv, Broadcast, ReaderSame PROVE IInv'
<1>a. PICK r, e : Announced(r, e)
  BY Announces
<1>1. /\ r \in Rows /\ unsent = {r} /\ unsent' = {} /\ book = "live" /\ up
      /\ e \in Frames /\ IsState(e) /\ e.row = r /\ e.val = db[r] /\ e.rev = rev + 1 /\ e.end = (r = 0 /\ ended)
      /\ rev' = rev + 1 /\ hist' = Append(hist, [row |-> r, val |-> db[r]])
      /\ Box(mb') /\ mb'.closed = mb.closed /\ Ascends(mb'.ring)
      /\ sub = "off" => mb' = mb
      /\ \A n \in 1..Len(mb'.ring) : mb'.ring[n].class \in {"state", "activity"}
      /\ sub = "on" =>
            /\ \A f \in Due : f.rev < e.rev
            /\ \/ mb'.gap /\ States(mb'.ring) = States(mb.ring)
               \/ /\ ~mb.gap /\ ~mb'.gap /\ States(mb'.ring) = States(mb.ring) \cup {e}
                  /\ \A n \in 1..Len(mb'.ring) : mb'.ring[n] = e => n = Len(mb'.ring)
      /\ UNCHANGED <<db, ended, silent, book, up, sub, wire, used>>
  BY <1>a DEF Announced
<1>2. /\ UNCHANGED <<view, over, stateRev, link, tries, read, again, retry, broken, fails>>
      /\ (Idle' <=> Idle) /\ (Begun' <=> Begun) /\ (Settles' <=> Settles) /\ (Pending' <=> Pending)
      /\ Known' = Known /\ (Uncrashed' <=> Uncrashed)
  <2>1. /\ UNCHANGED <<view, over, stateRev, link, tries, read, again, retry, broken, fails>>
        /\ (Idle' <=> Idle) /\ (Begun' <=> Begun) /\ (Settles' <=> Settles) /\ (Pending' <=> Pending)
    BY ReaderKept
  <2> QED BY <1>1, <2>1 DEF Known, Uncrashed
<1>3. StoreType /\ BrokerType /\ StreamType /\ ShownType /\ ReadType /\ used \in [DOMAIN Bounds -> Nat]
  BY TypeParts DEF IInv
<1>4. /\ rev \in Nat /\ sub \in {"on", "off"} /\ mb.gap \in BOOLEAN /\ mb'.gap \in BOOLEAN
      /\ stateRev \in Nat /\ read.rev \in Nat /\ wire \in Seq(Frames) /\ e.rev \in Nat /\ e.rev > rev
      /\ \A d \in Due : d.rev \in Nat /\ d.val \in Nat /\ d.row \in Rows
  <2>1. mb.gap \in BOOLEAN /\ mb'.gap \in BOOLEAN /\ rev \in Nat /\ sub \in {"on", "off"} /\ wire \in Seq(Frames)
    BY <1>1, <1>3 DEF StreamType, Box, Mailboxes, BrokerType
  <2>2. stateRev \in Nat /\ read.rev \in Nat
    BY <1>3 DEF ShownType, ReadType, Reads
  <2>3. \A d \in Due : d.rev \in Nat /\ d.val \in Nat /\ d.row \in Rows
    BY DueFrames DEF IInv
  <2>4. e.rev \in Nat /\ e.rev > rev
    BY <1>1, <2>1
  <2> QED BY <2>1, <2>2, <2>3, <2>4
<1>5. /\ sub = "off" => Due' = Due /\ (GapDue' <=> GapDue)
      /\ sub = "on" => \/ mb'.gap /\ Due' = Due /\ GapDue'
                       \/ ~mb.gap /\ ~mb'.gap /\ Due' = Due \cup {e} /\ (GapDue' <=> GapDue)
  <2>1. CASE sub = "off"
    <3>1. mb' = mb /\ wire' = wire
      BY <1>1, <2>1
    <3> QED BY <2>1, <3>1, StreamSame
  <2>2. CASE sub = "on"
    <3>1. \/ mb'.gap /\ States(mb'.ring) = States(mb.ring)
          \/ ~mb.gap /\ ~mb'.gap /\ States(mb'.ring) = States(mb.ring) \cup {e}
      BY <1>1, <2>2
    <3>2. Due' = States(wire) \cup States(mb'.ring) /\ (GapDue' <=> mb'.gap \/ HasGap(wire))
      BY <1>1 DEF Due, GapDue
    <3> QED BY <2>2, <3>1, <3>2 DEF Due, GapDue
  <2> QED BY <1>4, <2>1, <2>2
<1>6. /\ Due \subseteq Due' /\ Due' \subseteq Due \cup {e} /\ (GapDue => GapDue')
      /\ Due' # Due => sub = "on"
  BY <1>4, <1>5
<1>7. Len(hist) \in Nat /\ rev = Len(hist) /\ \A n \in 1..Len(hist) : hist[n].row \in Rows /\ hist[n].val \in Nat
  <2>1. \A n \in 1..Len(hist) : hist[n] \in [row : Rows, val : Nat]
    BY <1>3, ElementOfSeq DEF BrokerType
  <2> QED BY <1>3, <2>1, LenProperties DEF BrokerType, IInv, HistOK
<1>h. /\ hist' \in Seq([row : Rows, val : Nat]) /\ Len(hist') = rev + 1
      /\ hist'[rev + 1].row = r /\ hist'[rev + 1].val = db[r]
      /\ \A n \in 1..rev : hist'[n] = hist[n] /\ n \in 1..Len(hist)
  <2> DEFINE rec == [row |-> r, val |-> db[r]]
  <2>1. rec \in [row : Rows, val : Nat] /\ rec.row = r /\ rec.val = db[r]
    BY <1>1, <1>3 DEF StoreType
  <2>2. hist' = Append(hist, rec) /\ hist \in Seq([row : Rows, val : Nat])
    BY <1>1, <1>3 DEF BrokerType
  <2> HIDE DEF rec
  <2>3. /\ hist' \in Seq([row : Rows, val : Nat]) /\ Len(hist') = Len(hist) + 1 /\ hist'[Len(hist) + 1] = rec
        /\ \A n \in 1..Len(hist) : hist'[n] = hist[n]
    BY <2>1, <2>2, AppendProperties
  <2> QED BY <1>7, <2>1, <2>3
<1>8. TypeOK'
  <2>1. StoreType' /\ StreamType'
    BY <1>1, <1>3 DEF StoreType, StreamType
  <2>2. BrokerType'
    BY <1>1, <1>3, <1>4, <1>h DEF BrokerType
  <2>3. ShownType' /\ ReadType'
    BY ReaderTypes DEF IInv
  <2>4. used' \in [DOMAIN Bounds -> Nat]
    BY <1>1, <1>3
  <2> QED BY <2>1, <2>2, <2>3, <2>4, TypeNext
<1>9. LinkOK'
  <2>1. sub = "off" => mb' = NoMailbox
    BY <1>1 DEF IInv, LinkOK
  <2>2. NoMailbox' = NoMailbox
    BY DEF NoMailbox
  <2>3. /\ sub = "on" => link = "attached" /\ up /\ \A n \in 1..Len(wire) : wire[n].class # "eof"
        /\ sub = "on" /\ mb.closed => book # "live"
        /\ link # "attached" => sub = "off" /\ wire = <<>>
        /\ \A n \in 1..Len(wire) : wire[n].class = "eof" => n = Len(wire)
    BY DEF IInv, LinkOK
  <2> QED BY <1>1, <1>2, <2>1, <2>2, <2>3 DEF LinkOK
<1>10. DaemonOK'
  BY <1>1, <1>2 DEF IInv, DaemonOK
<1>11. InOrder'
  <2>1. ASSUME NEW f \in States(wire'), NEW g \in States(mb'.ring) PROVE f.rev < g.rev
    <3>1. f \in States(wire) /\ f \in Due
      BY <1>1 DEF Due
    <3>2. CASE g \in States(mb.ring)
      BY <3>1, <3>2 DEF IInv, InOrder
    <3>3. CASE g \notin States(mb.ring)
      <4>1. sub = "on"
        BY <1>1, <1>4, <3>3
      <4>2. g = e
        BY <1>1, <3>3, <4>1
      <4> QED BY <1>1, <3>1, <4>1, <4>2
    <3> QED BY <3>2, <3>3
  <2>2. ASSUME NEW d \in Due', NEW f \in Due', d.row = f.row, d.rev < f.rev PROVE d.val < f.val
    <3>1. CASE d \in Due /\ f \in Due
      BY <2>2, <3>1 DEF IInv, InOrder
    <3>2. CASE d \in Due /\ f = e
      BY <1>1, <2>2, <3>2 DEF IInv, InOrder
    <3>3. CASE d = e /\ f = e
      BY <1>4, <2>2, <3>3
    <3>4. CASE d \notin Due /\ f \in Due
      <4>1. d = e /\ sub = "on"
        BY <1>6, <3>4
      <4>2. f.rev < e.rev /\ f.rev \in Nat
        BY <1>1, <1>4, <3>4, <4>1
      <4> QED BY <1>4, <2>2, <4>1, <4>2
    <3> QED BY <1>6, <3>1, <3>2, <3>3, <3>4
  <2>3. ASSUME NEW d \in Due' PROVE d.val <= db'[d.row] /\ d.rev > 0
    <3>1. CASE d \in Due
      BY <1>1, <3>1 DEF IInv, InOrder
    <3>2. CASE d = e
      <4>1. db[r] \in Nat
        BY <1>1, <1>3 DEF StoreType
      <4> QED BY <1>1, <1>4, <3>2, <4>1
    <3> QED BY <1>6, <3>1, <3>2
  <2>4. Ascends(wire') /\ Ascends(mb'.ring)
    BY <1>1 DEF IInv, InOrder
  <2> QED BY <1>1, <2>1, <2>2, <2>3, <2>4 DEF InOrder
<1>12. HistOK'
  <2>1. \A n \in 1..Len(hist') : n \in 1..rev \/ n = rev + 1
    BY <1>4, <1>h
  <2>2. ASSUME NEW n \in 1..Len(hist') PROVE hist'[n].val <= db'[hist'[n].row]
    <3>1. CASE n \in 1..rev
      BY <1>1, <1>h, <3>1 DEF IInv, HistOK
    <3>2. CASE n = rev + 1
      <4>1. db[r] \in Nat
        BY <1>1, <1>3 DEF StoreType
      <4> QED BY <1>1, <1>h, <3>2, <4>1
    <3> QED BY <2>1, <3>1, <3>2
  <2>3. ASSUME NEW n \in 1..Len(hist'), NEW m \in 1..Len(hist'), n < m, hist'[n].row = hist'[m].row
        PROVE  hist'[n].val < hist'[m].val
    <3>1. n \in 1..rev
      BY <1>4, <1>h, <2>3
    <3>2. CASE m \in 1..rev
      BY <1>h, <2>3, <3>1, <3>2 DEF IInv, HistOK
    <3>3. CASE m = rev + 1
      <4>1. hist[n].row = r /\ n \in 1..Len(hist)
        BY <1>h, <2>3, <3>1, <3>3
      <4>2. hist[n].val < db[r]
        BY <1>1, <4>1 DEF IInv, HistOK
      <4> QED BY <1>h, <3>1, <3>3, <4>2
    <3> QED BY <2>1, <3>2, <3>3
  <2> QED BY <1>1, <1>h, <2>2, <2>3 DEF HistOK
<1>r. sub = "on" \/ Uncrashed => \A d \in Due : d.rev <= rev
  BY <1>1 DEF IInv, RevsOK
<1>u. Uncrashed => /\ stateRev <= rev /\ read.rev <= rev
                   /\ \A d \in Due : hist[d.rev].row = d.row /\ hist[d.rev].val = d.val
  BY <1>1 DEF IInv, RevsOK
<1>13. RevsOK'
  <2>1. ASSUME sub = "on" \/ Uncrashed, NEW d \in Due' PROVE d.rev <= rev'
    BY <1>1, <1>4, <1>6, <1>r, <2>1
  <2>2. ASSUME Uncrashed, NEW d \in Due' PROVE hist'[d.rev].row = d.row /\ hist'[d.rev].val = d.val
    <3>1. CASE d \in Due
      <4>1. d.rev > 0 /\ d.rev <= rev /\ d.rev \in Nat
        BY <1>4, <1>r, <2>2, <3>1 DEF IInv, InOrder
      <4>2. d.rev \in 1..rev
        BY <1>4, <4>1
      <4> QED BY <1>h, <1>u, <2>2, <3>1, <4>2
    <3>2. CASE d = e
      BY <1>1, <1>h, <3>2
    <3> QED BY <1>6, <3>1, <3>2
  <2>3. Uncrashed => stateRev <= rev' /\ read.rev <= rev'
    BY <1>1, <1>4, <1>u
  <2> QED BY <1>1, <1>2, <2>1, <2>2, <2>3 DEF RevsOK
<1>n. \A d \in Due : ~d.end
  BY <1>1 DEF IInv, EndOK
<1>14. EndOK'
  <2>1. ASSUME NEW d \in Due', d.end PROVE d.row = 0 /\ ended /\ d.val = db[0]
    BY <1>1, <1>6, <1>n, <2>1
  <2>2. \A n \in 1..Len(wire) : IsState(wire[n]) => wire[n] \in Due
    BY DEF Due, States
  <2>3. ASSUME NEW n \in 1..Len(mb'.ring), IsState(mb'.ring[n]), mb'.ring[n].end PROVE n = Len(mb'.ring)
    <3>1. mb'.ring[n] \in States(mb'.ring) /\ mb'.ring[n] \notin States(mb.ring)
      BY <1>n, <2>3 DEF Due, States
    <3>2. sub = "on"
      BY <1>1, <1>4, <3>1
    <3>3. mb'.ring[n] = e /\ \A k \in 1..Len(mb'.ring) : mb'.ring[k] = e => k = Len(mb'.ring)
      BY <1>1, <3>1, <3>2
    <3> QED BY <3>3
  <2> QED BY <1>1, <1>n, <2>1, <2>2, <2>3 DEF EndOK
<1>15. ReadOK'
  BY <1>1, <1>2 DEF IInv, ReadOK
<1>16. CrashOK'
  BY <1>1, <1>2, <1>6 DEF IInv, CrashOK
<1>17. Live' => sub = "on"
  BY <1>1, <1>6, <1>n DEF Live
<1>18. ASSUME sub = "on", Idle \/ Settles, NEW n \in {stateRev, read.rev}, NEW v, AllGood(v, n), ~GapDue',
              NEW s \in Rows \ silent
       PROVE  \/ \E d \in Due' : d.rev > n /\ d.row = s /\ d.val = db[s]
              \/ v[s] = db[s] /\ \A d \in Due' : d.rev > n => d.row # s
  <2>1. ~GapDue /\ Due' = Due \cup {e}
    BY <1>5, <1>6, <1>18
  <2>2. Uncrashed
    BY <1>18, <2>1 DEF IInv, CrashOK, Idle, Settles, Begun, Pending
  <2>3. e.rev > n
    BY <1>4, <1>u, <2>2
  <2>4. CASE s = r
    BY <1>1, <2>1, <2>3, <2>4
  <2>5. CASE s # r
    <3>1. Good(v, n, s)
      BY <1>18 DEF AllGood
    <3> QED BY <1>1, <2>1, <2>5, <3>1 DEF Good
  <2> QED BY <2>4, <2>5
<1>19. ShownOK'
  <2>1. ASSUME ~over, sub = "on", Idle PROVE AllGood(view, stateRev)'
    <3>1. AllGood(view, stateRev)
      BY <2>1 DEF IInv, ShownOK, Live
    <3> QED BY <1>1, <1>2, <1>18, <2>1, <3>1 DEF AllGood, Good
  <2>2. ASSUME ~over, sub = "on", Settles, ~(read.at = "sampled" /\ ended), ~read.over PROVE AllGood(Known, read.rev)'
    <3>1. AllGood(Known, read.rev)
      BY <2>2 DEF IInv, ShownOK, Live
    <3>2. ASSUME ~GapDue', NEW s \in Rows \ silent
          PROVE  \/ \E d \in Due' : d.rev > read.rev /\ d.row = s /\ d.val = db[s]
                 \/ Known[s] = db[s] /\ \A d \in Due' : d.rev > read.rev => d.row # s
      <4> HIDE DEF Known
      <4> QED BY <1>18, <2>2, <3>1, <3>2
    <3> QED BY <1>1, <1>2, <3>2 DEF AllGood, Good
  <2> QED BY <1>1, <1>2, <1>17, <2>1, <2>2 DEF ShownOK
<1>20. OverOK'
  BY <1>1, <1>2 DEF IInv, OverOK, AllRight
<1>21. SeenOK'
  <2>1. ASSUME Uncrashed, NEW n \in {stateRev, read.rev}, NEW m \in 1..Len(hist'), m <= n
        PROVE  m \in 1..Len(hist) /\ hist'[m] = hist[m]
    <3>1. m \in 1..rev
      BY <1>4, <1>h, <1>u, <2>1
    <3> QED BY <1>h, <3>1
  <2>2. Uncrashed /\ Seen(view, stateRev) => Seen(view, stateRev)'
    BY <1>2, <2>1 DEF Seen
  <2>3. Uncrashed /\ Seen(Known, read.rev) => Seen(Known, read.rev)'
    BY <1>2, <2>1 DEF Seen
  <2> QED BY <1>1, <1>2, <2>2, <2>3 DEF IInv, SeenOK
<1>22. FollowOK'
  <2>1. ASSUME Uncrashed, sub = "on", NEW n \in {stateRev, read.rev}, Unbroken(n)
        PROVE  /\ \A d \in Due' : \A m \in n + 1..d.rev - 1 : (\E f \in Due' : f.rev = m) \/ Gapped(d)'
               /\ \A m \in n + 1..rev' : (\E f \in Due' : f.rev = m) \/ GapDue'
    <3>1. n \in Nat /\ n <= rev
      BY <1>4, <1>u, <2>1
    <3>2. ASSUME NEW m, DueAt(m) PROVE \E f \in Due' : f.rev = m
      BY <1>6, <3>2 DEF DueAt
    <3>3. ASSUME NEW d \in Due', NEW m \in n + 1..d.rev - 1 PROVE (\E f \in Due' : f.rev = m) \/ Gapped(d)'
      <4>1. CASE d \in Due
        <5>1. DueAt(m) \/ Gapped(d)
          BY <2>1, <4>1, <3>3 DEF Unbroken
        <5>2. Gapped(d) => Gapped(d)'
          BY <1>1, <2>1 DEF Gapped
        <5> QED BY <3>2, <5>1, <5>2
      <4>2. CASE d \notin Due
        <5>1. d = e /\ ~mb.gap /\ ~mb'.gap
          BY <1>5, <2>1, <4>2
        <5>2. m \in n + 1..rev
          BY <1>1, <1>4, <3>1, <5>1
        <5>3. DueAt(m) \/ GapDue
          BY <2>1, <5>2 DEF Unbroken
        <5>4. e \notin States(wire)
          BY <4>2, <5>1 DEF Due
        <5>5. GapDue => GapBefore(wire, e)
          BY <1>1, <1>4, <5>1, <5>4, GapFirst DEF GapDue
        <5>6. GapDue => Gapped(d)'
          BY <1>1, <5>1, <5>5 DEF Gapped
        <5> QED BY <3>2, <5>3, <5>6
      <4> QED BY <4>1, <4>2
    <3>4. ASSUME NEW m \in n + 1..rev' PROVE (\E f \in Due' : f.rev = m) \/ GapDue'
      <4>1. m \in n + 1..rev \/ m = e.rev
        BY <1>1, <1>4, <3>1
      <4>2. CASE m \in n + 1..rev
        <5>1. DueAt(m) \/ GapDue
          BY <2>1, <4>2 DEF Unbroken
        <5> QED BY <1>6, <3>2, <5>1
      <4>3. CASE m = e.rev
        BY <1>5, <2>1, <4>3
      <4> QED BY <4>1, <4>2, <4>3
    <3> QED BY <3>3, <3>4
  <2>2. ASSUME Uncrashed, sub = "on", Idle PROVE Unbroken(stateRev)'
    <3>1. Unbroken(stateRev)
      BY <1>1, <2>2 DEF IInv, FollowOK
    <3> QED BY <1>2, <2>1, <2>2, <3>1 DEF Unbroken, DueAt
  <2>3. ASSUME Uncrashed, sub = "on", Settles PROVE Unbroken(read.rev)'
    <3>1. Unbroken(read.rev)
      BY <1>1, <2>3 DEF IInv, FollowOK
    <3> QED BY <1>2, <2>1, <2>3, <3>1 DEF Unbroken, DueAt
  <2> QED BY <1>1, <1>2, <2>2, <2>3 DEF FollowOK
<1> QED BY <1>8, <1>9, <1>10, <1>11, <1>12, <1>13, <1>14, <1>15, <1>16, <1>19, <1>20, <1>21, <1>22 DEF IInv

(* Frames are sent, and connections break.                                    *)

\* A step of the stream that leaves what is due as it was.
LEMMA MovedStep ==
    ASSUME IInv, ReaderSame, sub = "on", UNCHANGED <<db, ended, unsent, silent, rev, book, hist, up, used>>,
           Due' = Due, GapDue' <=> GapDue, \A d \in Due : Gapped(d) => Gapped(d)', sub' \in {"on", "off"},
           StreamType', LinkOK', InOrder', EndOK'
    PROVE  IInv'
<1>1. StoreType /\ BrokerType /\ used \in [DOMAIN Bounds -> Nat]
  BY TypeParts DEF IInv
<1>2. /\ UNCHANGED <<view, over, stateRev, link, tries, read, again, retry, broken, fails>>
      /\ (Idle' <=> Idle) /\ (Begun' <=> Begun) /\ (Settles' <=> Settles) /\ (Pending' <=> Pending)
  BY ReaderKept
<1>3. /\ (Live' => Live) /\ Known' = Known /\ (Uncrashed' <=> Uncrashed) /\ \A n : DueAt(n)' <=> DueAt(n)
  BY <1>2 DEF Live, Known, Uncrashed, DueAt
<1>4. TypeOK'
  <2>1. StoreType' /\ BrokerType' /\ used' \in [DOMAIN Bounds -> Nat]
    BY <1>1 DEF StoreType, BrokerType
  <2>2. ShownType' /\ ReadType'
    BY ReaderTypes DEF IInv
  <2> QED BY <2>1, <2>2, TypeNext
<1>5. DaemonOK'
  <2>1. up
    BY DEF IInv, LinkOK
  <2> QED BY <1>2, <1>3, <2>1 DEF IInv, DaemonOK
<1>6. HistOK'
  BY DEF IInv, HistOK
<1>7. RevsOK'
  BY <1>2, <1>3 DEF IInv, RevsOK
<1>8. ReadOK'
  BY <1>2, <1>3 DEF IInv, ReadOK
<1>9. CrashOK'
  BY <1>2, <1>3 DEF IInv, CrashOK
<1>10. ShownOK'
  <2>1. AllGood(view, stateRev) => AllGood(view, stateRev)'
    BY <1>2 DEF AllGood, Good
  <2>2. AllGood(Known, read.rev) => AllGood(Known, read.rev)'
    BY <1>2, <1>3 DEF AllGood, Good
  <2> QED BY <1>2, <1>3, <2>1, <2>2 DEF IInv, ShownOK
<1>11. OverOK'
  BY <1>2, <1>3 DEF IInv, OverOK, AllRight
<1>12. SeenOK'
  BY <1>2, <1>3 DEF IInv, SeenOK, Seen
<1>13. FollowOK'
  <2>1. (Unbroken(stateRev) => Unbroken(stateRev)') /\ (Unbroken(read.rev) => Unbroken(read.rev)')
    BY <1>2, <1>3 DEF Unbroken
  <2> QED BY <1>2, <1>3, <2>1 DEF IInv, FollowOK
<1> QED BY <1>4, <1>5, <1>6, <1>7, <1>8, <1>9, <1>10, <1>11, <1>12, <1>13 DEF IInv

LEMMA DeliverGap ==
    ASSUME IInv, ReaderSame, sub = "on", UNCHANGED <<db, ended, unsent, silent, rev, book, hist, up, used, sub>>,
           mb.gap, wire' = Append(wire, Gap(mb.gapRev)), mb' = [mb EXCEPT !.gap = FALSE, !.gapRev = 0]
    PROVE  IInv'
<1> DEFINE g == Gap(mb.gapRev)
<1>1. StreamType /\ Box(mb) /\ mb \in Mailboxes /\ wire \in Seq(Frames) /\ mb.gapRev \in Nat
  BY TypeParts DEF IInv, StreamType, Box, Mailboxes
<1>2. g \in Frames /\ g.class = "gap" /\ ~IsState(g)
  BY <1>1, GapFrame
<1> HIDE DEF g
<1>3. /\ wire' \in Seq(Frames) /\ Len(wire') = Len(wire) + 1 /\ wire'[Len(wire) + 1] = g
      /\ \A n \in 1..Len(wire) : wire'[n] = wire[n]
      /\ States(wire') = States(wire) /\ HasGap(wire') /\ (Ascends(wire) => Ascends(wire'))
      /\ \A f : GapBefore(wire, f) => GapBefore(wire', f)
  <2> DEFINE t == Append(wire, g)
  <2>1. /\ t \in Seq(Frames) /\ Len(t) = Len(wire) + 1 /\ t[Len(wire) + 1] = g
        /\ \A n \in 1..Len(wire) : t[n] = wire[n]
        /\ States(t) = States(wire) \cup (IF IsState(g) THEN {g} ELSE {})
        /\ HasGap(t) <=> HasGap(wire) \/ g.class = "gap"
        /\ \A f : GapBefore(wire, f) => GapBefore(t, f)
        /\ Ascends(wire) /\ (IsState(g) => \A f \in States(wire) : f.rev < g.rev) => Ascends(t)
    BY <1>1, <1>2, Appended
  <2>2. wire' = t
    BY DEF g
  <2> HIDE DEF t
  <2> QED BY <1>2, <2>1, <2>2
<1>4. Box(mb') /\ mb'.ring = mb.ring /\ mb'.gap = FALSE /\ mb'.closed = mb.closed
  <2>1. mb' \in Mailboxes /\ mb'.ring = mb.ring /\ mb'.gap = FALSE /\ mb'.closed = mb.closed /\ mb'.bytes = mb.bytes
    BY <1>1 DEF Mailboxes
  <2> QED BY <1>1, <2>1 DEF Box
<1>5. Due' = Due /\ GapDue' /\ GapDue
  BY <1>3, <1>4 DEF Due, GapDue
<1>6. \A d \in Due : Gapped(d) => Gapped(d)'
  <2> SUFFICES ASSUME NEW d \in Due, Gapped(d) PROVE Gapped(d)'
    OBVIOUS
  <2>1. CASE GapBefore(wire, d)
    BY <1>3, <2>1 DEF Gapped
  <2>2. CASE d \notin States(wire)
    <3>1. IsState(d)
      BY DueFrames DEF IInv
    <3>2. GapBefore(wire', d)
      BY <1>3, <2>2, <3>1, GapFirst
    <3> QED BY <3>2 DEF Gapped
  <2> QED BY <2>1, <2>2 DEF Gapped
<1>7. StreamType'
  BY <1>1, <1>3, <1>4 DEF StreamType
<1>8. Len(wire) \in Nat /\ \A n \in 1..Len(wire') : n \in 1..Len(wire) \/ n = Len(wire) + 1
  <2>1. Len(wire) \in Nat
    BY <1>1, LenProperties
  <2> QED BY <1>3, <2>1
<1>9. LinkOK'
  <2>1. /\ link = "attached" /\ up /\ \A n \in 1..Len(wire) : wire[n].class # "eof"
        /\ mb.closed => book # "live"
        /\ \A n \in 1..Len(mb.ring) : mb.ring[n].class \in {"state", "activity"}
    BY DEF IInv, LinkOK
  <2>2. \A n \in 1..Len(wire') : wire'[n].class # "eof"
    BY <1>2, <1>3, <1>8, <2>1
  <2>3. link' = link
    BY ReaderKept
  <2> QED BY <1>4, <2>1, <2>2, <2>3 DEF LinkOK
<1>10. InOrder'
  BY <1>3, <1>4, <1>5 DEF IInv, InOrder
<1>11. EndOK'
  <2>1. \A n \in 1..Len(wire) : ~(IsState(wire[n]) /\ wire[n].end)
    BY DEF IInv, EndOK
  <2>2. \A n \in 1..Len(wire') : ~(IsState(wire'[n]) /\ wire'[n].end)
    BY <1>2, <1>3, <1>8, <2>1
  <2> QED BY <1>4, <1>5, <2>2 DEF IInv, EndOK
<1> QED BY <1>5, <1>6, <1>7, <1>9, <1>10, <1>11, MovedStep

LEMMA DeliverFrame ==
    ASSUME IInv, ReaderSame, sub = "on", UNCHANGED <<db, ended, unsent, silent, rev, book, hist, up, used, sub>>,
           ~mb.gap, mb.ring # <<>>, wire' = Append(wire, Head(mb.ring)),
           mb' = [mb EXCEPT !.ring = Tail(@), !.bytes = @ - Head(mb.ring).size]
    PROVE  IInv'
<1> DEFINE h == Head(mb.ring)
           ring == Tail(mb.ring)
<1>1. Box(mb) /\ mb \in Mailboxes /\ mb.ring \in Seq(Frames) /\ wire \in Seq(Frames)
  BY TypeParts DEF IInv, StreamType, Box, Mailboxes
<1>2. /\ ring \in Seq(Frames) /\ Len(ring) \in Nat /\ Len(mb.ring) = Len(ring) + 1 /\ h = mb.ring[1] /\ h \in Frames
      /\ \A n \in 1..Len(ring) : ring[n] = mb.ring[n + 1]
      /\ States(mb.ring) = States(ring) \cup (IF IsState(h) THEN {h} ELSE {})
      /\ Ascends(mb.ring) => Ascends(ring) /\ (IsState(h) => \A f \in States(ring) : h.rev < f.rev)
  BY <1>1, Tailed
<1>3. SizeOf(ring) = SizeOf(mb.ring) - h.size
  BY <1>1, SizeOfTail
<1>4. mb' = [mb EXCEPT !.ring = ring, !.bytes = mb.bytes - h.size]
  BY <1>1 DEF Mailboxes
<1>w. wire' = Append(wire, h)
  OBVIOUS
<1> HIDE DEF h, ring
<1>5. h.class \in {"state", "activity"} /\ 1 \in 1..Len(mb.ring)
  <2>1. 1 \in 1..Len(mb.ring)
    BY <1>2
  <2> QED BY <1>2, <2>1 DEF IInv, LinkOK
<1>6. Box(mb') /\ mb'.ring = ring /\ mb'.gap = mb.gap /\ mb'.closed = mb.closed
  <2>1. SizeOf(ring) \in Nat
    BY <1>2, SumExists, SizeIsSum
  <2>2. mb.bytes - h.size = SizeOf(ring) /\ SizeOf(ring) <= MaxBytes
    <3>1. h.size \in Nat /\ mb.bytes \in Nat /\ mb.bytes = SizeOf(mb.ring) /\ mb.bytes <= MaxBytes
      BY <1>1, <1>2 DEF Frames, Box, Mailboxes
    <3> QED BY <1>3, <2>1, <3>1, Constants
  <2>3. mb' = [mb EXCEPT !.ring = ring, !.bytes = SizeOf(ring)]
    BY <1>4, <2>2
  <2>4. mb'.ring = ring /\ mb'.gap = mb.gap /\ mb'.closed = mb.closed /\ mb'.bytes = SizeOf(ring) /\ mb' \in Mailboxes
    BY <1>1, <1>2, <2>1, <2>3 DEF Mailboxes
  <2>5. Len(ring) <= MaxEvents
    BY <1>1, <1>2, Constants DEF Box
  <2> QED BY <2>2, <2>4, <2>5 DEF Box
<1>o. /\ Ascends(wire) /\ Ascends(mb.ring) /\ \A f \in States(wire), g \in States(mb.ring) : f.rev < g.rev
  BY DEF IInv, InOrder
<1>7. /\ wire' \in Seq(Frames) /\ Len(wire') = Len(wire) + 1 /\ wire'[Len(wire) + 1] = h
      /\ \A n \in 1..Len(wire) : wire'[n] = wire[n]
      /\ States(wire') = States(wire) \cup (IF IsState(h) THEN {h} ELSE {})
      /\ (HasGap(wire') <=> HasGap(wire)) /\ Ascends(wire')
      /\ \A f : GapBefore(wire, f) => GapBefore(wire', f)
  <2> DEFINE t == Append(wire, h)
  <2>1. IsState(h) => \A f \in States(wire) : f.rev < h.rev
    BY <1>2, <1>o
  <2>2. /\ t \in Seq(Frames) /\ Len(t) = Len(wire) + 1 /\ t[Len(wire) + 1] = h
        /\ \A n \in 1..Len(wire) : t[n] = wire[n]
        /\ States(t) = States(wire) \cup (IF IsState(h) THEN {h} ELSE {})
        /\ (HasGap(t) <=> HasGap(wire)) /\ Ascends(t)
        /\ \A f : GapBefore(wire, f) => GapBefore(t, f)
    BY <1>1, <1>2, <1>5, <1>o, <2>1, Appended
  <2>3. wire' = t
    BY <1>w
  <2> HIDE DEF t
  <2> QED BY <2>2, <2>3
<1>8. Due' = Due /\ (GapDue' <=> GapDue)
  BY <1>2, <1>6, <1>7 DEF Due, GapDue
<1>9. \A d \in Due : Gapped(d) => Gapped(d)'
  BY <1>7 DEF Gapped
<1>10. StreamType'
  BY <1>6, <1>7, TypeParts DEF IInv, StreamType
<1>11. Len(wire) \in Nat /\ (\A n \in 1..Len(wire') : n \in 1..Len(wire) \/ n = Len(wire) + 1)
       /\ \A n \in 1..Len(ring) : n + 1 \in 1..Len(mb.ring)
  <2>1. Len(wire) \in Nat
    BY <1>1, LenProperties
  <2> QED BY <1>2, <1>7, <2>1
<1>12. LinkOK'
  <2>1. /\ link = "attached" /\ up /\ \A n \in 1..Len(wire) : wire[n].class # "eof"
        /\ mb.closed => book # "live"
        /\ \A n \in 1..Len(mb.ring) : mb.ring[n].class \in {"state", "activity"}
    BY DEF IInv, LinkOK
  <2>2. \A n \in 1..Len(wire') : wire'[n].class # "eof"
    BY <1>5, <1>7, <1>11, <2>1
  <2>3. link' = link
    BY ReaderKept
  <2>4. \A n \in 1..Len(mb'.ring) : mb'.ring[n].class \in {"state", "activity"}
    BY <1>2, <1>6, <1>11, <2>1
  <2> QED BY <1>6, <2>1, <2>2, <2>3, <2>4 DEF LinkOK
<1>13. InOrder'
  <2>1. \A f \in States(wire'), g \in States(mb'.ring) : f.rev < g.rev
    BY <1>2, <1>6, <1>7, <1>o
  <2>2. Ascends(mb'.ring)
    BY <1>2, <1>6, <1>o
  <2> QED BY <1>7, <1>8, <2>1, <2>2 DEF IInv, InOrder
<1>14. EndOK'
  <2>1. \A n \in 1..Len(wire) : ~(IsState(wire[n]) /\ wire[n].end)
    BY DEF IInv, EndOK
  <2>2. \A n \in 1..Len(mb.ring) : IsState(mb.ring[n]) /\ mb.ring[n].end => n = Len(mb.ring)
    BY DEF IInv, EndOK
  <2>3. ASSUME NEW n \in 1..Len(wire'), IsState(wire'[n]), wire'[n].end
        PROVE  mb'.ring = <<>> /\ n = Len(wire')
    <3>1. n = Len(wire) + 1 /\ IsState(h) /\ h.end
      BY <1>7, <1>11, <2>1, <2>3
    <3>2. Len(mb.ring) = 1
      BY <1>2, <1>5, <2>2, <3>1
    <3>3. Len(ring) = 0
      <4>1. \A k, l \in Nat : l = k + 1 /\ l = 1 => k = 0
        OBVIOUS
      <4>2. Len(mb.ring) \in Nat
        BY <1>1, LenProperties
      <4>3. Len(ring) \in Nat /\ Len(mb.ring) = Len(ring) + 1
        BY <1>2
      <4> QED BY <3>2, <4>1, <4>2, <4>3, Zenon
    <3>4. ring = <<>>
      BY <1>2, <3>3, EmptySeq
    <3> QED BY <1>6, <1>7, <3>1, <3>4
  <2>4. ASSUME NEW n \in 1..Len(mb'.ring), IsState(mb'.ring[n]), mb'.ring[n].end PROVE n = Len(mb'.ring)
    <3>1. n + 1 \in 1..Len(mb.ring) /\ mb'.ring[n] = mb.ring[n + 1]
      BY <1>2, <1>6, <1>11
    <3>2. n + 1 = Len(mb.ring)
      BY <2>2, <2>4, <3>1
    <3>3. n \in Nat
      BY <1>2, <1>6
    <3> QED BY <1>2, <1>6, <3>2, <3>3
  <2>5. \A d \in Due' : d.end => d.row = 0 /\ ended' /\ unsent' = {} /\ d.val = db'[0]
    BY <1>8 DEF IInv, EndOK
  <2>6. \A n, m \in 1..Len(wire') : n = Len(wire') => ~(m > n)
    BY <1>7, <1>11
  <2>7. ~mb'.gap
    BY <1>6
  <2> QED BY <2>3, <2>4, <2>5, <2>6, <2>7 DEF EndOK
<1> QED BY <1>8, <1>9, <1>10, <1>12, <1>13, <1>14, MovedStep

LEMMA DeliverEof ==
    ASSUME IInv, ReaderSame, sub = "on", UNCHANGED <<db, ended, unsent, silent, rev, book, hist, up, used>>,
           ~mb.gap, mb.ring = <<>>, wire' = Append(wire, Eof), mb' = NoMailbox, sub' = "off"
    PROVE  IInv'
<1>1. wire \in Seq(Frames) /\ Box(NoMailbox)
  BY TypeParts, BoxTypes DEF IInv, StreamType
<1>2. Eof \in Frames /\ Eof.class = "eof" /\ ~IsState(Eof)
  BY GapFrame
<1>3. /\ wire' \in Seq(Frames) /\ Len(wire') = Len(wire) + 1 /\ wire'[Len(wire) + 1] = Eof
      /\ \A n \in 1..Len(wire) : wire'[n] = wire[n]
      /\ States(wire') = States(wire) /\ (HasGap(wire') <=> HasGap(wire)) /\ (Ascends(wire) => Ascends(wire'))
      /\ \A f : GapBefore(wire, f) => GapBefore(wire', f)
  <2> DEFINE t == Append(wire, Eof)
  <2>1. /\ t \in Seq(Frames) /\ Len(t) = Len(wire) + 1 /\ t[Len(wire) + 1] = Eof
        /\ \A n \in 1..Len(wire) : t[n] = wire[n]
        /\ States(t) = States(wire) \cup (IF IsState(Eof) THEN {Eof} ELSE {})
        /\ HasGap(t) <=> HasGap(wire) \/ Eof.class = "gap"
        /\ \A f : GapBefore(wire, f) => GapBefore(t, f)
        /\ Ascends(wire) /\ (IsState(Eof) => \A f \in States(wire) : f.rev < Eof.rev) => Ascends(t)
    BY <1>1, <1>2, Appended
  <2>2. wire' = t
    OBVIOUS
  <2> HIDE DEF t
  <2> QED BY <1>2, <2>1, <2>2
<1>4. mb'.ring = <<>> /\ ~mb'.gap
  BY DEF NoMailbox
<1>5. Due' = Due /\ (GapDue' <=> GapDue)
  BY <1>3, <1>4, NoFrames DEF Due, GapDue
<1>6. \A d \in Due : Gapped(d) => Gapped(d)'
  BY <1>3 DEF Gapped
<1>7. StreamType'
  BY <1>1, <1>3 DEF StreamType
<1>8. Len(wire) \in Nat /\ \A n \in 1..Len(wire') : n \in 1..Len(wire) \/ n = Len(wire')
  <2>1. Len(wire) \in Nat
    BY <1>1, LenProperties
  <2> QED BY <1>3, <2>1
<1>9. LinkOK'
  <2>1. link = "attached" /\ \A n \in 1..Len(wire) : wire[n].class # "eof"
    BY DEF IInv, LinkOK
  <2>2. \A n \in 1..Len(wire') : wire'[n].class = "eof" => n = Len(wire')
    BY <1>3, <1>8, <2>1
  <2>3. link' = link
    BY ReaderKept
  <2>4. \A n \in 1..Len(mb'.ring) : FALSE
    BY <1>4
  <2> QED BY <2>1, <2>2, <2>3, <2>4 DEF LinkOK
<1>10. InOrder'
  BY <1>3, <1>4, <1>5, NoFrames DEF IInv, InOrder
<1>11. EndOK'
  <2>1. ASSUME NEW n \in 1..Len(wire'), IsState(wire'[n]), wire'[n].end
        PROVE  \A m \in 1..Len(wire') : m > n => wire'[m].class = "eof"
    <3> SUFFICES ASSUME NEW m \in 1..Len(wire'), m > n PROVE wire'[m].class = "eof"
      OBVIOUS
    <3>1. n \in 1..Len(wire)
      BY <1>2, <1>3, <1>8, <2>1
    <3>2. wire[n] = wire'[n]
      BY <1>3, <3>1
    <3>3. \A k \in 1..Len(wire) : k > n => wire[k].class = "eof"
      BY <2>1, <3>1, <3>2 DEF IInv, EndOK
    <3> QED BY <1>2, <1>3, <1>8, <3>3
  <2>2. \A n \in 1..Len(mb'.ring) : FALSE
    BY <1>4
  <2>3. \A d \in Due' : d.end => d.row = 0 /\ ended' /\ unsent' = {} /\ d.val = db'[0]
    BY <1>5 DEF IInv, EndOK
  <2> QED BY <1>4, <2>1, <2>2, <2>3 DEF EndOK
<1> QED BY <1>5, <1>6, <1>7, <1>9, <1>10, <1>11, MovedStep

LEMMA DeliverStep == ASSUME IInv, Deliver, ReaderSame PROVE IInv'
<1>1. sub = "on" /\ UNCHANGED <<db, ended, unsent, silent, rev, book, hist, up, used>>
  BY DEF Deliver, store, broker
<1>2. CASE mb.gap /\ wire' = Append(wire, Gap(mb.gapRev)) /\ mb' = [mb EXCEPT !.gap = FALSE, !.gapRev = 0] /\ sub' = sub
  BY <1>1, <1>2, DeliverGap
<1>3. CASE /\ ~mb.gap /\ mb.ring # <<>> /\ wire' = Append(wire, Head(mb.ring))
           /\ mb' = [mb EXCEPT !.ring = Tail(@), !.bytes = @ - Head(mb.ring).size] /\ sub' = sub
  BY <1>1, <1>3, DeliverFrame
<1>4. CASE ~mb.gap /\ mb.ring = <<>> /\ wire' = Append(wire, Eof) /\ mb' = NoMailbox /\ sub' = "off"
  BY <1>1, <1>4, DeliverEof
<1> QED BY <1>2, <1>3, <1>4 DEF Deliver

\* The connection breaks: what remains to be read is the beginning of what was sent,
\* and all that there was if it holds the end of the run.
LEMMA CutEffect ==
    ASSUME IInv, Cut
    PROVE  /\ StreamType' /\ mb'.ring = <<>> /\ ~mb'.gap /\ mb' = NoMailbox /\ sub' = "off"
           /\ Due' = States(wire') /\ Due' \subseteq Due /\ Ascends(wire')
           /\ \A n \in 1..Len(wire') : wire'[n].class = "eof" => n = Len(wire')
           /\ link # "attached" => wire' = <<>>
           /\ \A n, m \in 1..Len(wire') : IsState(wire'[n]) /\ wire'[n].end /\ m > n => wire'[m].class = "eof"
           /\ \A e \in Due' : e.end => Due' = Due /\ (GapDue => GapDue')
<1>1. wire \in Seq(Frames) /\ Box(NoMailbox) /\ Len(wire) \in Nat
  <2>1. wire \in Seq(Frames) /\ Box(NoMailbox)
    BY TypeParts, BoxTypes DEF IInv, StreamType
  <2> QED BY <2>1, LenProperties
<1>2. mb' = NoMailbox /\ sub' = "off" /\ mb'.ring = <<>> /\ ~mb'.gap
  BY DEF Cut, NoMailbox
<1>3. Due' = States(wire')
  BY <1>2, NoFrames DEF Due
<1>4. /\ Ascends(wire) /\ States(wire) \subseteq Due
      /\ \A n, m \in 1..Len(wire) : IsState(wire[n]) /\ wire[n].end /\ m > n => wire[m].class = "eof"
      /\ \A n \in 1..Len(wire) : IsState(wire[n]) /\ wire[n].end => mb.ring = <<>> /\ ~mb.gap
  BY DEF IInv, InOrder, EndOK, Due
<1>5. CASE sub # "on"
  <2>1. wire' = wire /\ mb = NoMailbox
    <3>1. sub = "off"
      BY <1>5, TypeParts DEF IInv, StreamType
    <3> QED BY <1>5, <3>1 DEF Cut, IInv, LinkOK
  <2>2. mb' = mb
    BY <1>2, <2>1
  <2>3. Due' = Due /\ (GapDue' <=> GapDue)
    BY <2>1, <2>2 DEF Due, GapDue
  <2>4. StreamType'
    BY <1>1, <1>2, <2>1 DEF StreamType
  <2>5. (\A n \in 1..Len(wire) : wire[n].class = "eof" => n = Len(wire)) /\ (link # "attached" => wire = <<>>)
    BY DEF IInv, LinkOK
  <2> QED BY <1>2, <1>3, <1>4, <2>1, <2>3, <2>4, <2>5
<1>6. CASE sub = "on"
  <2>1. PICK k \in 0..Len(wire) : wire' = Append(SubSeq(wire, 1, k), Eof)
    BY <1>6 DEF Cut
  <2>2. k \in Nat /\ k <= Len(wire) /\ \A n \in 1..k : n \in 1..Len(wire)
    BY <1>1
  <2> DEFINE s == SubSeq(wire, 1, k)
  <2>3. /\ s \in Seq(Frames) /\ Len(s) = k /\ \A n \in 1..k : n \in 1..Len(wire) /\ s[n] = wire[n]
        /\ States(s) \subseteq States(wire) /\ (Ascends(wire) => Ascends(s))
    BY <1>1, Prefixed
  <2>4. wire' = Append(s, Eof)
    BY <2>1
  <2> HIDE DEF s
  <2>5. Eof \in Frames /\ Eof.class = "eof" /\ ~IsState(Eof)
    BY GapFrame
  <2>6. /\ wire' \in Seq(Frames) /\ Len(wire') = k + 1 /\ wire'[k + 1] = Eof
        /\ \A n \in 1..k : wire'[n] = wire[n]
        /\ States(wire') = States(s) /\ Ascends(wire')
    <3> DEFINE t == Append(s, Eof)
    <3>1. /\ t \in Seq(Frames) /\ Len(t) = Len(s) + 1 /\ t[Len(s) + 1] = Eof
          /\ \A n \in 1..Len(s) : t[n] = s[n]
          /\ States(t) = States(s) \cup (IF IsState(Eof) THEN {Eof} ELSE {})
          /\ HasGap(t) <=> HasGap(s) \/ Eof.class = "gap"
          /\ \A f : GapBefore(s, f) => GapBefore(t, f)
          /\ Ascends(s) /\ (IsState(Eof) => \A f \in States(s) : f.rev < Eof.rev) => Ascends(t)
      BY <2>3, <2>5, Appended
    <3>2. wire' = t
      BY <2>4
    <3> HIDE DEF t
    <3> QED BY <1>4, <2>3, <2>5, <3>1, <3>2
  <2>7. StreamType'
    BY <1>1, <1>2, <2>6 DEF StreamType
  <2>8. \A n \in 1..Len(wire') : n \in 1..k \/ n = k + 1
    BY <2>2, <2>6
  <2>9. link = "attached" /\ \A n \in 1..Len(wire) : wire[n].class # "eof"
    BY <1>6 DEF IInv, LinkOK
  <2>10. \A n \in 1..Len(wire') : wire'[n].class = "eof" => n = Len(wire')
    BY <2>2, <2>6, <2>8, <2>9
  <2>11. \A n, m \in 1..Len(wire') : IsState(wire'[n]) /\ wire'[n].end /\ m > n => wire'[m].class = "eof"
    <3> SUFFICES ASSUME NEW n \in 1..Len(wire'), NEW m \in 1..Len(wire'), IsState(wire'[n]), wire'[n].end, m > n
                 PROVE  wire'[m].class = "eof"
      OBVIOUS
    <3>1. n \in 1..k /\ wire'[n] = wire[n]
      BY <2>5, <2>6, <2>8
    <3>2. CASE m \in 1..k
      BY <1>4, <2>2, <2>6, <3>1, <3>2
    <3>3. CASE m = k + 1
      BY <2>5, <2>6, <3>3
    <3> QED BY <2>8, <3>2, <3>3
  <2>12. Due' \subseteq Due
    BY <1>3, <1>4, <2>3, <2>6
  <2>13. \A e \in Due' : e.end => Due' = Due /\ (GapDue => GapDue')
    <3> SUFFICES ASSUME NEW e \in Due', e.end PROVE Due' = Due /\ (GapDue => GapDue')
      OBVIOUS
    <3>1. PICK n \in 1..k : IsState(wire[n]) /\ wire[n] = e
      <4>1. PICK n \in 1..Len(s) : IsState(s[n]) /\ s[n] = e
        BY <1>3, <2>6 DEF States
      <4> QED BY <2>3, <4>1
    <3>2. mb.ring = <<>> /\ ~mb.gap
      BY <1>4, <2>2, <3>1
    <3>3. \A m \in 1..Len(wire) : (m \in 1..k /\ s[m] = wire[m]) \/ wire[m].class = "eof"
      BY <1>4, <2>2, <2>3, <3>1
    <3>4. States(wire) \subseteq States(s)
      BY <2>3, <2>9, <3>3 DEF States
    <3>5. Due = States(wire)
      BY <3>2, NoFrames DEF Due
    <3>6. GapDue => GapDue'
      <4>1. ASSUME GapDue PROVE GapDue'
        <5>1. PICK m \in 1..Len(wire) : wire[m].class = "gap"
          BY <3>2, <4>1 DEF GapDue, HasGap
        <5>2. m \in 1..k
          BY <2>9, <3>3, <5>1
        <5>3. wire'[m].class = "gap" /\ m \in 1..Len(wire')
          BY <2>2, <2>6, <5>1, <5>2
        <5> QED BY <5>3 DEF GapDue, HasGap
      <4> QED BY <4>1
    <3> QED BY <1>3, <2>3, <2>6, <3>4, <3>5, <3>6
  <2> QED BY <1>2, <1>3, <2>6, <2>7, <2>9, <2>10, <2>11, <2>12, <2>13
<1> QED BY <1>5, <1>6

LEMMA CutStep ==
    ASSUME IInv, ReaderSame, Cut, UNCHANGED <<db, ended, silent>>, used' \in [DOMAIN Bounds -> Nat],
           \/ UNCHANGED <<unsent, rev, book, hist, up>> /\ sub = "on" /\ used'["crashes"] = used["crashes"]
           \/ unsent' = {} /\ rev' = 0 /\ book' = "unknown" /\ hist' = <<>> /\ up' = FALSE /\ ~Uncrashed'
    PROVE  IInv'
<1>1. /\ StreamType' /\ mb'.ring = <<>> /\ ~mb'.gap /\ mb' = NoMailbox /\ sub' = "off"
      /\ Due' = States(wire') /\ Due' \subseteq Due /\ Ascends(wire')
      /\ \A n \in 1..Len(wire') : wire'[n].class = "eof" => n = Len(wire')
      /\ link # "attached" => wire' = <<>>
      /\ \A n, m \in 1..Len(wire') : IsState(wire'[n]) /\ wire'[n].end /\ m > n => wire'[m].class = "eof"
      /\ \A e \in Due' : e.end => Due' = Due /\ (GapDue => GapDue')
  BY CutEffect
<1>2. /\ UNCHANGED <<view, over, stateRev, link, tries, read, again, retry, broken, fails>>
      /\ (Idle' <=> Idle) /\ (Begun' <=> Begun) /\ (Settles' <=> Settles) /\ (Pending' <=> Pending)
  BY ReaderKept
<1>3. Known' = Known /\ (Uncrashed' => Uncrashed /\ UNCHANGED <<unsent, rev, book, hist, up>>) /\ unsent' \subseteq unsent
  BY <1>2 DEF Known, Uncrashed
<1>4. \A n \in 1..Len(mb'.ring) : FALSE
  BY <1>1
<1>h. <<>> \in Seq([row : Rows, val : Nat]) /\ Len(<<>>) = 0
  OBVIOUS
<1>5. StoreType /\ BrokerType
  BY TypeParts DEF IInv
<1>6. TypeOK'
  <2>1. StoreType'
    BY <1>3, <1>5 DEF StoreType
  <2>2. BrokerType'
    <3>1. CASE UNCHANGED <<unsent, rev, book, hist, up>>
      BY <1>5, <3>1 DEF BrokerType
    <3>2. CASE rev' = 0 /\ book' = "unknown" /\ hist' = <<>> /\ up' = FALSE
      <4>1. hist' \in Seq([row : Rows, val : Nat])
        BY <1>h, <3>2, Zenon
      <4> QED BY <3>2, <4>1 DEF BrokerType
    <3> QED BY <3>1, <3>2
  <2>3. ShownType' /\ ReadType'
    BY ReaderTypes DEF IInv
  <2> QED BY <1>1, <2>1, <2>2, <2>3, TypeNext
<1>7. LinkOK'
  <2>1. NoMailbox' = NoMailbox
    BY DEF NoMailbox
  <2> QED BY <1>1, <1>2, <1>4, <2>1 DEF LinkOK
<1>8. DaemonOK'
  BY <1>1, <1>2, <1>3 DEF IInv, DaemonOK
<1>9. InOrder'
  <2>1. States(mb'.ring) = {} /\ Ascends(mb'.ring)
    BY <1>1, NoFrames
  <2> QED BY <1>1, <1>3, <2>1 DEF IInv, InOrder
<1>10. HistOK'
  BY <1>h, <1>3 DEF IInv, HistOK
<1>11. RevsOK'
  BY <1>1, <1>2, <1>3 DEF IInv, RevsOK
<1>12. EndOK'
  <2>1. \A e \in Due : e.end => e.row = 0 /\ ended /\ unsent = {} /\ e.val = db[0]
    BY DEF IInv, EndOK
  <2>2. \A e \in Due' : e.end => e.row = 0 /\ ended' /\ unsent' = {} /\ e.val = db'[0]
    BY <1>1, <1>3, <2>1
  <2> QED BY <1>1, <1>4, <2>2 DEF EndOK
<1>13. ReadOK' /\ CrashOK' /\ FollowOK'
  BY <1>1, <1>2, <1>3 DEF IInv, ReadOK, CrashOK, FollowOK
<1>14. Live' => /\ Live /\ Due' = Due /\ (GapDue => GapDue')
                /\ unsent = {} /\ unsent' = {}
  <2> SUFFICES ASSUME Live' PROVE Live /\ Due' = Due /\ (GapDue => GapDue') /\ unsent = {} /\ unsent' = {}
    OBVIOUS
  <2>1. PICK e \in Due' : e.end
    BY <1>1 DEF Live
  <2>2. e \in Due /\ unsent = {}
    BY <1>1, <2>1 DEF IInv, EndOK
  <2> QED BY <1>1, <1>3, <2>1, <2>2 DEF Live
<1>15. ShownOK'
  <2>1. Live' /\ AllGood(view, stateRev) => AllGood(view, stateRev)'
    BY <1>2, <1>14 DEF AllGood, Good
  <2>2. Live' /\ AllGood(Known, read.rev) => AllGood(Known, read.rev)'
    BY <1>2, <1>3, <1>14 DEF AllGood, Good
  <2> QED BY <1>2, <1>14, <2>1, <2>2 DEF IInv, ShownOK
<1>16. OverOK'
  BY <1>2, <1>3 DEF IInv, OverOK, AllRight
<1>17. SeenOK'
  <2>1. UNCHANGED hist => (Seen(view, stateRev) => Seen(view, stateRev)') /\ (Seen(Known, read.rev) => Seen(Known, read.rev)')
    BY <1>2, <1>3 DEF Seen
  <2> QED BY <1>1, <1>2, <1>3, <2>1 DEF IInv, SeenOK
<1> QED BY <1>6, <1>7, <1>8, <1>9, <1>10, <1>11, <1>12, <1>13, <1>15, <1>16, <1>17 DEF IInv

LEMMA DropStep == ASSUME IInv, DropStream, ReaderSame PROVE IInv'
<1>1. sub = "on" /\ Use("drops") /\ Cut /\ UNCHANGED <<db, ended, unsent, silent, rev, book, up, hist>>
  BY DEF DropStream, store, broker
<1>2. used' \in [DOMAIN Bounds -> Nat] /\ used'["crashes"] = used["crashes"]
  <2>1. used \in [DOMAIN Bounds -> Nat] /\ "drops" \in DOMAIN Bounds
    BY TypeParts DEF IInv, Bounds
  <2> QED BY <1>1, <2>1, UseType
<1> QED BY <1>1, <1>2, CutStep

LEMMA CrashStep == ASSUME IInv, Crash, ReaderSame PROVE IInv'
<1>1. /\ Use("crashes") /\ Cut /\ UNCHANGED <<db, ended, silent>>
      /\ up' = FALSE /\ rev' = 0 /\ hist' = <<>> /\ book' = "unknown" /\ unsent' = {}
  BY DEF Crash
<1>2. used' \in [DOMAIN Bounds -> Nat] /\ ~Uncrashed'
  <2>1. used \in [DOMAIN Bounds -> Nat] /\ "crashes" \in DOMAIN Bounds
    BY TypeParts DEF IInv, Bounds
  <2>2. used' \in [DOMAIN Bounds -> Nat] /\ used'["crashes"] = used["crashes"] + 1 /\ used["crashes"] \in Nat
    BY <1>1, <2>1, UseType
  <2> QED BY <2>2 DEF Uncrashed
<1> QED BY <1>1, <1>2, CutStep

(* Every step keeps the invariant, and the invariant is what is promised.      *)

LEMMA StutterStep == ASSUME IInv, UNCHANGED vars PROVE IInv'
<1>1. UNCHANGED brokerVars /\ ReaderSame
  BY DEF vars, ReaderSame
<1>2. /\ Due' = Due /\ (GapDue' <=> GapDue) /\ (Live' <=> Live) /\ (Uncrashed' <=> Uncrashed)
      /\ \A n : Unbroken(n)' <=> Unbroken(n)
      /\ InOrder' /\ HistOK' /\ EndOK'
      /\ StoreType' /\ BrokerType' /\ StreamType' /\ used' \in [DOMAIN Bounds -> Nat]
      /\ UNCHANGED <<db, ended, unsent, silent, rev, book, hist, up, mb, sub, wire, used>>
  BY <1>1, BrokerSame
<1>3. /\ UNCHANGED <<view, over, stateRev, link, tries, read, again, retry, broken, fails>>
      /\ (Idle' <=> Idle) /\ (Begun' <=> Begun) /\ (Settles' <=> Settles) /\ (Pending' <=> Pending)
  BY <1>1, ReaderKept
<1>4. Known' = Known
  BY <1>2, <1>3 DEF Known
<1>5. TypeOK'
  <2>1. ShownType' /\ ReadType'
    BY <1>1, ReaderTypes DEF IInv
  <2> QED BY <1>2, <2>1, TypeNext
<1>6. LinkOK'
  <2>1. NoMailbox' = NoMailbox
    BY DEF NoMailbox
  <2> QED BY <1>2, <1>3, <2>1 DEF IInv, LinkOK
<1>7. DaemonOK' /\ RevsOK'
  BY <1>2, <1>3 DEF IInv, DaemonOK, RevsOK
<1>8. ReadOK' /\ CrashOK'
  BY <1>2, <1>3, <1>4 DEF IInv, ReadOK, CrashOK
<1>9. ShownOK'
  <2>1. AllGood(view, stateRev) => AllGood(view, stateRev)'
    BY <1>2, <1>3 DEF AllGood, Good
  <2>2. AllGood(Known, read.rev) => AllGood(Known, read.rev)'
    BY <1>2, <1>3, <1>4 DEF AllGood, Good
  <2> QED BY <1>2, <1>3, <2>1, <2>2 DEF IInv, ShownOK
<1>10. OverOK'
  BY <1>2, <1>3, <1>4 DEF IInv, OverOK, AllRight
<1>11. SeenOK'
  <2>1. (Seen(view, stateRev) => Seen(view, stateRev)') /\ (Seen(Known, read.rev) => Seen(Known, read.rev)')
    BY <1>2, <1>3, <1>4 DEF Seen
  <2> QED BY <1>2, <1>3, <2>1 DEF IInv, SeenOK
<1>12. FollowOK'
  <2>1. (Unbroken(stateRev) => Unbroken(stateRev)') /\ (Unbroken(read.rev) => Unbroken(read.rev)')
    BY <1>2, <1>3 DEF Unbroken
  <2> QED BY <1>2, <1>3, <2>1 DEF IInv, FollowOK
<1> QED BY <1>2, <1>5, <1>6, <1>7, <1>8, <1>9, <1>10, <1>11, <1>12 DEF IInv

LEMMA StepInv == ASSUME IInv, [Next]_vars PROVE IInv'
<1>1. CASE Broker
  <2>1. BrokerNext /\ ReaderSame
    BY <1>1 DEF Broker, ReaderSame
  <2>2. CASE Writer
    BY <2>1, <2>2, WriterStep
  <2>3. CASE Broadcast
    BY <2>1, <2>3, BroadcastStep
  <2>4. CASE Log
    BY <2>1, <2>4, LogStep
  <2>5. CASE CloseSubscribers
    BY <2>1, <2>5, CloseStep
  <2>6. CASE Prune
    BY <2>1, <2>6, PruneStep
  <2>7. CASE Deliver
    BY <2>1, <2>7, DeliverStep
  <2>8. CASE DropStream
    BY <2>1, <2>8, DropStep
  <2>9. CASE Crash
    BY <2>1, <2>9, CrashStep
  <2>10. CASE Restart
    BY <2>1, <2>10, RestartStep
  <2> QED BY <2>1, <2>2, <2>3, <2>4, <2>5, <2>6, <2>7, <2>8, <2>9, <2>10 DEF BrokerNext
<1>2. CASE Connect
  BY <1>2, ConnectStep
<1>3. CASE ConnectFails
  BY <1>3, ConnectFailsStep
<1>4. CASE Receive
  BY <1>4, ReceiveStep
<1>5. CASE Snapshot
  BY <1>5, SampleStep, ReadRunStep, ReadStepsStep DEF Snapshot
<1>6. CASE Reconciled
  BY <1>6, ReconciledStep
<1>7. CASE ReadFails
  BY <1>7, ReadFailsStep
<1>8. CASE RetryReview
  BY <1>8, RetryReviewStep
<1>9. CASE UNCHANGED vars
  BY <1>9, StutterStep
<1> QED BY <1>1, <1>2, <1>3, <1>4, <1>5, <1>6, <1>7, <1>8, <1>9 DEF Next

LEMMA InvIsTruthful == IInv => ViewTruthful
<1> SUFFICES ASSUME IInv PROVE ViewTruthful
  OBVIOUS
<1>1. ViewCurrent
  <2> SUFFICES ASSUME Quiet, ~retry, NEW r \in Rows \ silent PROVE view[r] = db[r]
    BY DEF ViewCurrent
  <2>1. Idle /\ unsent = {}
    BY DEF Quiet, Idle
  <2>2. CASE over
    BY <2>1, <2>2 DEF IInv, OverOK, AllRight
  <2>3. CASE ~over
    <3>1. sub = "on" /\ wire = <<>> /\ mb.ring = <<>> /\ ~mb.gap
      BY <2>3 DEF Quiet
    <3>2. Due = {} /\ ~GapDue
      BY <3>1, NoFrames DEF Due, GapDue
    <3>3. Good(view, stateRev, r)
      BY <2>1, <2>3, <3>1 DEF IInv, ShownOK, Live, AllGood
    <3> QED BY <2>1, <3>2, <3>3 DEF Good
  <2> QED BY <2>2, <2>3
<1>2. RevisionSeen
  <2> SUFFICES ASSUME used["crashes"] = 0, sub = "on", ~Pending, ~retry, NEW n \in DOMAIN hist, n <= stateRev
               PROVE  view[hist[n].row] >= hist[n].val
    BY DEF RevisionSeen
  <2>1. Seen(view, stateRev)
    BY DEF IInv, SeenOK, Uncrashed, Idle
  <2>2. n \in 1..Len(hist)
    <3>1. hist \in Seq([row : Rows, val : Nat])
      BY DEF IInv, TypeOK
    <3> QED BY <3>1, LenProperties
  <2> QED BY <2>1, <2>2 DEF Seen
<1> QED BY <1>1, <1>2 DEF ViewTruthful

----------------------------------------------------------------------------
\* The state of the view, of the daemon and of the stream between them has its type,
\* and the mailbox is within its bounds with an exact byte count, for every sequence
\* of writes, logs, evictions, deliveries, crashes and reads (hasRoomLocked and
\* evictActivityLocked of eventmailbox.go).
THEOREM TypeCorrect == Spec => []TypeOK
<1>1. IInv => TypeOK
  BY DEF IInv
<1> QED BY <1>1, InitInv, StepInv, PTL DEF Spec

\* No state change is silently lost on its way from the run's goroutine to the view
\* (ClassState of eventmailbox.go, runReconciledMsg and applyEvent of the TUI): a view
\* with nothing under way shows the database, and a view that holds a revision has
\* seen every write that the revisions up to it announced.
THEOREM NothingLost == Spec => []ViewTruthful
BY InitInv, StepInv, InvIsTruthful, PTL DEF Spec

----------------------------------------------------------------------------
(* Reattaching, as long as every read is answered.                            *)

\* No read fails before the daemon crashes or answers one with an error or too late.
Answered == used["crashes"] = 0 /\ fails = 0
NoneFailed == Answered => ~retry /\ ~broken

LEMMA AnsweredBefore ==
    ASSUME TypeOK, [Next]_vars, Answered'
    PROVE  Answered
<1>1. used \in [DOMAIN Bounds -> Nat] /\ fails \in Nat /\ "crashes" \in DOMAIN Bounds
  BY TuiAssumption DEF TypeOK, Bounds
<1>2. used' = used \/ \E what \in DOMAIN Bounds : Use(what)
  <2>1. CASE Broker
    <3>1. CASE Writer
      BY <3>1 DEF Writer, InsertSteps, Write, Rewind, EndRun, Bounds
    <3>2. CASE Broadcast \/ CloseSubscribers \/ Deliver \/ Restart
      BY <3>2 DEF Broadcast, CloseSubscribers, Deliver, Restart
    <3>3. CASE Log \/ Prune \/ DropStream \/ Crash
      BY <3>3 DEF Log, Prune, DropStream, Crash, Bounds
    <3> QED BY <2>1, <3>1, <3>2, <3>3 DEF Broker, BrokerNext
  <2>2. CASE Connect \/ ConnectFails \/ Receive
    BY <2>2 DEF Connect, ConnectFails, Receive, brokerVars
  <2>3. CASE Snapshot \/ Reconciled \/ ReadFails \/ RetryReview
    BY <2>3 DEF Snapshot, Sample, ReadRun, ReadSteps, Reconciled, ReadFails, RetryReview, brokerVars
  <2>4. CASE UNCHANGED vars
    BY <2>4 DEF vars, brokerVars
  <2> QED BY <2>1, <2>2, <2>3, <2>4 DEF Next
<1>3. used["crashes"] <= used'["crashes"]
  BY <1>1, <1>2, UseType
<1>4. fails <= fails'
  <2>1. CASE ReadFails
    BY <1>1, <2>1 DEF ReadFails
  <2>2. CASE Broker \/ Connect \/ ConnectFails \/ Receive
    BY <1>1, <2>2 DEF Broker, Connect, ConnectFails, Receive, reads
  <2>3. CASE Snapshot \/ Reconciled \/ RetryReview
    BY <1>1, <2>3 DEF Snapshot, Sample, ReadRun, ReadSteps, Reconciled, RetryReview
  <2>4. CASE UNCHANGED vars
    BY <1>1, <2>4 DEF vars, reads
  <2> QED BY <2>1, <2>2, <2>3, <2>4 DEF Next
<1> QED BY <1>1, <1>3, <1>4, UseType DEF Answered

LEMMA NoneFailedStep == ASSUME TypeOK, NoneFailed, [Next]_vars PROVE NoneFailed'
<1> SUFFICES ASSUME Answered' PROVE ~retry' /\ ~broken'
  BY DEF NoneFailed
<1>1. Answered /\ ~retry /\ ~broken /\ fails \in Nat
  BY AnsweredBefore, TuiAssumption DEF NoneFailed, TypeOK
<1>2. ~ReadFails
  <2> SUFFICES ASSUME ReadFails PROVE FALSE
    OBVIOUS
  <2>1. fails' = fails + 1
    BY <1>1 DEF ReadFails, ClientWorks, Answered
  <2> QED BY <1>1, <2>1 DEF Answered
<1>3. CASE Broker \/ Connect \/ ConnectFails
  BY <1>1, <1>3 DEF Broker, Connect, ConnectFails, reads
<1>4. CASE Receive
  BY <1>1, <1>4 DEF Receive, Reconcile, Apply
<1>5. CASE Snapshot \/ Reconciled \/ RetryReview
  BY <1>1, <1>5 DEF Snapshot, Sample, ReadRun, ReadSteps, Reconciled, RetryReview
<1>6. CASE UNCHANGED vars
  BY <1>1, <1>6 DEF vars, reads
<1> QED BY <1>2, <1>3, <1>4, <1>5, <1>6 DEF Next

\* "The TUI retries ... and reconciles when it reattaches" (concepts/daemon.md) is true of
\* dropped connections: through any number of them, and of evictions, lagging reads and
\* rewinds, a view with nothing under way shows the database, as long as the daemon has not
\* crashed and has answered every read.
THEOREM ReconcilesUnlessFailed == Spec => [](Answered => ReattachReconciles)
<1>1. Init => NoneFailed
  BY DEF Init, NoneFailed
<1>2. IInv /\ NoneFailed /\ [Next]_vars => NoneFailed'
  BY NoneFailedStep DEF IInv
<1>3. ViewTruthful /\ NoneFailed => (Answered => ReattachReconciles)
  BY DEF ViewTruthful, ViewCurrent, NoneFailed, ReattachReconciles
<1> QED BY InitInv, StepInv, <1>1, <1>2, <1>3, NothingLost, PTL DEF Spec

----------------------------------------------------------------------------
(* What the stream itself promises, apart from the view that follows it.      *)

\* Of the frames on their way, sent or queued, each is newer than the one before it, also in
\* its row's version; and of the revisions after the one that a following view holds, each is
\* on its way, or a gap stands for it that is read before any later frame.
StreamContract ==
    /\ InOrder
    /\ Uncrashed /\ sub = "on" /\ book # "unknown" /\ Idle => Unbroken(stateRev)

\* The mailbox keeps order and leaves nothing out silently, whatever it evicts, folds into its
\* gap or takes in while it is gapped (publish and next of eventmailbox.go): a view that sees
\* no gap has missed no revision.
THEOREM NothingSkipped == Spec => []StreamContract
<1>1. IInv => StreamContract
  BY DEF IInv, FollowOK, StreamContract
<1> QED BY <1>1, InitInv, StepInv, PTL DEF Spec

\* A view that is over tells the truth: the run has ended, and every row whose last write was
\* announced shows its final version, unless a read is under way or has failed (applyEvent sets
\* Model.done from a frame, runReconciledMsg from a snapshot that may be older than the steps
\* beside it).
OverIsTrue == over => ended /\ (Idle => AllRight(view))
THEOREM EndIsTrue == Spec => []OverIsTrue
<1>1. IInv => OverIsTrue
  BY DEF IInv, DaemonOK, OverOK, OverIsTrue
<1> QED BY <1>1, InitInv, StepInv, PTL DEF Spec
=============================================================================
