-------------------------- MODULE MCRunOwnership --------------------------
\* For TLC: runs of two branches.
EXTENDS RunOwnership, TLC

CONSTANTS a1, a2, b1, A, B

MCBranches == {A, B}
MCBranch   == [r \in Runs |-> IF r = b1 THEN B ELSE A]
Order      == Permutations({a1, a2})
===========================================================================
