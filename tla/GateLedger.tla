----------------------------- MODULE GateLedger -----------------------------
(***************************************************************************)
(* What an approval gate promises.  A step that needs a decision opens a   *)
(* gate.  At most one claim is made on it: an operator's response, or the  *)
(* daemon's own finding that the gate is obsolete or answerable.  A claim  *)
(* is never exchanged for another one, and what is applied at the gate is  *)
(* the claim.  A gate may be closed with nothing applied: its run ended,   *)
(* or what the gate was about has changed.                                 *)
(***************************************************************************)
EXTENDS Integers, FiniteSets

CONSTANTS Claimants,   \* who can claim a gate
          NoClaim      \* nobody

VARIABLES gate,      \* the number of gates opened, which is the last one's name
          phase,     \* of the last gate: closed, open or claimed
          claim,     \* the claim on it
          applied    \* the claims that were applied, each with its gate

ledger == <<gate, phase, claim, applied>>

Init == gate = 0 /\ phase = "closed" /\ claim = NoClaim /\ applied = {}

Open == /\ phase = "closed"
        /\ gate' = gate + 1 /\ phase' = "open"
        /\ UNCHANGED <<claim, applied>>

Claim(c) == /\ phase = "open"
            /\ phase' = "claimed" /\ claim' = c
            /\ UNCHANGED <<gate, applied>>

Apply == /\ phase = "claimed"
         /\ applied' = applied \cup {[gate |-> gate, by |-> claim]}
         /\ phase' = "closed" /\ claim' = NoClaim
         /\ UNCHANGED gate

Void == /\ phase # "closed"
        /\ phase' = "closed" /\ claim' = NoClaim
        /\ UNCHANGED <<gate, applied>>

Next == Open \/ (\E c \in Claimants : Claim(c)) \/ Apply \/ Void
Spec == Init /\ [][Next]_ledger

LedgerType == /\ gate \in Nat /\ phase \in {"closed", "open", "claimed"}
              /\ IF phase = "claimed" THEN claim \in Claimants ELSE claim = NoClaim
              /\ applied \subseteq [gate : Nat, by : Claimants]

\* No gate is applied twice, and none that is still open or claimed was applied.
AppliedOnce == /\ \A a, b \in applied : a.gate = b.gate => a = b
               /\ \A a \in applied : a.gate <= gate /\ (phase # "closed" => a.gate # gate)
=============================================================================
