----------------------------- MODULE Line_proofs -----------------------------
(***************************************************************************)
(* What withdrawing a run does to a line, for any line of any elements.    *)
(***************************************************************************)
EXTENDS Line, SequenceTheorems, TLAPS

\* Taking a run out of a line leaves a line (cancelWaiterLocked).
LEMMA WithoutType == ASSUME NEW S, NEW s \in Seq(S), NEW r PROVE Without(s, r) \in Seq(S)
<1>1. CASE Indices(s, r) = {}
  BY <1>1 DEF Without
<1>2. CASE Indices(s, r) # {}
  <2> DEFINE i == CHOOSE j \in Indices(s, r) : TRUE
  <2>1. i \in 1..Len(s)
    BY <1>2 DEF Indices
  <2> HIDE DEF i
  <2>2. SubSeq(s, 1, i - 1) \in Seq(S) /\ SubSeq(s, i + 1, Len(s)) \in Seq(S)
    BY <2>1, SubSeqProperties, ElementOfSeq, LenProperties
  <2>3. SubSeq(s, 1, i - 1) \o SubSeq(s, i + 1, Len(s)) \in Seq(S)
    BY <2>2
  <2>4. QED
    BY <2>3, <1>2 DEF Without, i
<1>3. QED
  BY <1>1, <1>2

\* Nobody else leaves, nobody comes, and everybody keeps standing once.
LEMMA WithoutLine ==
    ASSUME NEW S, NEW s \in Seq(S), Once(s), NEW r
    PROVE  /\ Once(Without(s, r)) /\ InLine(Without(s, r)) = InLine(s) \ {r}
           /\ r \notin InLine(s) => Without(s, r) = s
           /\ r \in InLine(s) => Len(Without(s, r)) = Len(s) - 1
<1>1. CASE Indices(s, r) = {}
  BY <1>1 DEF Without, Indices, InLine
<1>2. CASE Indices(s, r) # {}
  <2> DEFINE i == CHOOSE j \in Indices(s, r) : TRUE
             w == SubSeq(s, 1, i - 1) \o SubSeq(s, i + 1, Len(s))
  <2>1. i \in 1..Len(s) /\ s[i] = r
    BY <1>2 DEF Indices
  <2>2. Without(s, r) = w
    BY <1>2 DEF Without
  <2> HIDE DEF i
  <2>3. Len(s) \in Nat /\ i \in Nat
    BY <2>1
  <2>4. /\ SubSeq(s, 1, i - 1) \in Seq(S) /\ Len(SubSeq(s, 1, i - 1)) = i - 1
        /\ \A k \in 1..(i - 1) : SubSeq(s, 1, i - 1)[k] = s[k]
    BY <2>1, <2>3
  <2>5. /\ SubSeq(s, i + 1, Len(s)) \in Seq(S) /\ Len(SubSeq(s, i + 1, Len(s))) = Len(s) - i
        /\ \A k \in 1..(Len(s) - i) : SubSeq(s, i + 1, Len(s))[k] = s[i + k]
    BY <2>1, <2>3
  <2>6. /\ Len(w) = Len(s) - 1
        /\ \A k \in 1..(Len(s) - 1) : w[k] = IF k < i THEN s[k] ELSE s[k + 1]
    <3>1. /\ Len(w) = (i - 1) + (Len(s) - i)
          /\ \A k \in 1..Len(w) : w[k] = IF k <= i - 1 THEN SubSeq(s, 1, i - 1)[k]
                                                     ELSE SubSeq(s, i + 1, Len(s))[k - (i - 1)]
      <4> DEFINE L == SubSeq(s, 1, i - 1)
                 R == SubSeq(s, i + 1, Len(s))
      <4>1. L \in Seq(S) /\ R \in Seq(S) /\ Len(L) = i - 1 /\ Len(R) = Len(s) - i /\ w = L \o R
        BY <2>4, <2>5
      <4> HIDE DEF L, R, w
      <4>2. /\ Len(w) = Len(L) + Len(R)
            /\ \A k \in 1..(Len(L) + Len(R)) : w[k] = IF k <= Len(L) THEN L[k] ELSE R[k - Len(L)]
        BY <4>1, ConcatProperties
      <4>3. /\ Len(w) = (i - 1) + (Len(s) - i)
            /\ \A k \in 1..Len(w) : w[k] = IF k <= i - 1 THEN L[k] ELSE R[k - (i - 1)]
        BY <4>1, <4>2
      <4> QED
        BY <4>3 DEF L, R
    <3> HIDE DEF w
    <3>2. Len(w) = Len(s) - 1
      BY <3>1, <2>1, <2>3
    <3>3. ASSUME NEW k \in 1..(Len(s) - 1) PROVE w[k] = IF k < i THEN s[k] ELSE s[k + 1]
      <4>1. CASE k < i
        <5>1. k \in 1..(i - 1) /\ k \in 1..Len(w) /\ k <= i - 1
          BY <4>1, <3>2, <2>1, <2>3
        <5>2. w[k] = SubSeq(s, 1, i - 1)[k]
          BY <5>1, <3>1
        <5>3. QED
          BY <5>1, <5>2, <4>1, <2>4
      <4>2. CASE ~ (k < i)
        <5>1. /\ k \in 1..Len(w) /\ ~ (k <= i - 1) /\ k - (i - 1) \in 1..(Len(s) - i)
              /\ i + (k - (i - 1)) = k + 1
          BY <4>2, <3>2, <2>1, <2>3
        <5>2. w[k] = SubSeq(s, i + 1, Len(s))[k - (i - 1)]
          BY <5>1, <3>1
        <5>3. SubSeq(s, i + 1, Len(s))[k - (i - 1)] = s[k + 1]
          BY <5>1, <2>5
        <5>4. QED
          BY <4>2, <5>2, <5>3
      <4>3. QED
        BY <4>1, <4>2
    <3>4. QED
      BY <3>2, <3>3
  <2> HIDE DEF w
  <2>7. Once(w)
    <3>1. ASSUME NEW k \in 1..Len(w), NEW l \in 1..Len(w), w[k] = w[l] PROVE k = l
      <4> DEFINE at(n) == IF n < i THEN n ELSE n + 1
      <4>1. /\ at(k) \in 1..Len(s) /\ at(l) \in 1..Len(s) /\ (at(k) = at(l) => k = l)
            /\ w[k] = s[at(k)] /\ w[l] = s[at(l)]
        BY <2>1, <2>3, <2>6
      <4> HIDE DEF at
      <4> QED
        BY <3>1, <4>1 DEF Once
    <3> QED
      BY <3>1 DEF Once
  <2>8. InLine(w) = InLine(s) \ {r}
    <3>1. ASSUME NEW x \in InLine(w) PROVE x \in InLine(s) \ {r}
      <4>1. PICK k \in 1..(Len(s) - 1) : x = w[k]
        BY <3>1, <2>6 DEF InLine
      <4>2. CASE k < i
        BY <4>1, <4>2, <2>1, <2>3, <2>6 DEF InLine, Once
      <4>3. CASE k >= i
        BY <4>1, <4>3, <2>1, <2>3, <2>6 DEF InLine, Once
      <4>4. QED
        BY <4>1, <4>2, <4>3, <2>3
    <3>2. ASSUME NEW x \in InLine(s) \ {r} PROVE x \in InLine(w)
      <4>1. PICK k \in 1..Len(s) : x = s[k]
        BY <3>2 DEF InLine
      <4>2. CASE k < i
        BY <4>1, <4>2, <2>1, <2>3, <2>6 DEF InLine
      <4>3. CASE k > i
        <5>1. k - 1 \in 1..(Len(s) - 1) /\ w[k - 1] = s[k]
          BY <4>1, <4>3, <2>1, <2>3, <2>6
        <5>2. QED
          BY <5>1, <4>1, <2>6 DEF InLine
      <4>4. QED
        BY <4>1, <4>2, <4>3, <3>2, <2>1, <2>3
    <3>3. QED
      BY <3>1, <3>2
  <2>9. r \in InLine(s)
    BY <2>1 DEF InLine
  <2>10. QED
    BY <2>2, <2>6, <2>7, <2>8, <2>9
<1>3. QED
  BY <1>1, <1>2

\* The head of a line is the one who leaves it first.
LEMMA HeadLeaves ==
    ASSUME NEW S, NEW s \in Seq(S), Once(s), s # <<>>
    PROVE  Without(s, Head(s)) = Tail(s)
<1>1. Len(s) \in Nat /\ Len(s) > 0 /\ Head(s) = s[1]
  OBVIOUS
<1>2. Indices(s, Head(s)) = {1}
  BY <1>1 DEF Indices, Once
<1> DEFINE i == CHOOSE j \in Indices(s, Head(s)) : TRUE
<1>3. i = 1
  BY <1>2
<1>4. Without(s, Head(s)) = SubSeq(s, 1, i - 1) \o SubSeq(s, i + 1, Len(s))
  BY <1>2 DEF Without
<1> HIDE DEF i
<1>5. Without(s, Head(s)) = SubSeq(s, 1, 0) \o SubSeq(s, 2, Len(s))
  BY <1>3, <1>4
<1>6. SubSeq(s, 1, 0) = <<>> /\ SubSeq(s, 2, Len(s)) = Tail(s)
  BY TailIsSubSeq
<1>7. Tail(s) \in Seq(S)
  OBVIOUS
<1>8. QED
  BY <1>5, <1>6, <1>7

\* Whoever joins a line stands in it once, at its end.
LEMMA AppendLine ==
    ASSUME NEW S, NEW s \in Seq(S), Once(s), NEW r \in S, r \notin InLine(s)
    PROVE  Once(Append(s, r)) /\ InLine(Append(s, r)) = InLine(s) \cup {r}
<1>1. /\ Len(s) \in Nat /\ Len(Append(s, r)) = Len(s) + 1
      /\ \A i \in 1..Len(s) : Append(s, r)[i] = s[i]
      /\ Append(s, r)[Len(s) + 1] = r
  BY AppendProperties
<1>2. QED
  BY <1>1 DEF Once, InLine
==============================================================================
