-------------------------- MODULE MCSlotScheduler --------------------------
(* Small instances of SlotScheduler for TLC. *)
EXTENDS SlotSchedulerInv

CONSTANTS r1, r2, h1, h2, w

NoRestored  == <<>>
OneRestored == <<r2>>

\* One slot, with either hold policy; and a second slot that an edit may add.
OneSlot   == [max : {1}, hold : BOOLEAN]
OneOrTwo  == OneSlot \cup {[max |-> 2, hold |-> TRUE]}
=============================================================================
