-------------------------------- MODULE Line --------------------------------
(***************************************************************************)
(* A line of runs: a slice that its users append to and take the head of,  *)
(* and from which a run may be withdrawn wherever it stands.               *)
(***************************************************************************)
EXTENDS Integers, Sequences

Indices(s, r) == {i \in 1..Len(s) : s[i] = r}

\* The line s without run r, which is in it at most once.
Without(s, r) ==
    IF Indices(s, r) = {} THEN s
    ELSE LET i == CHOOSE i \in Indices(s, r) : TRUE
         IN  SubSeq(s, 1, i - 1) \o SubSeq(s, i + 1, Len(s))

\* A line that holds each run once, and who stands in it.
Once(s)   == \A i, j \in 1..Len(s) : s[i] = s[j] => i = j
InLine(s) == {s[i] : i \in 1..Len(s)}
=============================================================================
