-------------------------- MODULE PlacementContract --------------------------
(***************************************************************************)
(* What PlacementOrchestrator promises of one idempotency key, without     *)
(* callers, transactions or ledger rows: the stake leaves the bankroll     *)
(* when the bet comes into being, the book is asked at most once and only  *)
(* while that stake is held, and the bet is resolved at most once, keeping *)
(* the stake if the book took it and giving all of it back if not.         *)
(***************************************************************************)
EXTENDS Integers

CONSTANTS Keys, Amounts    \* idempotency keys; the stakes a caller may ask for

VARIABLES phase,           \* "none", "pending", "placed" or "failed", by key
          held,            \* cents the ledger withholds for the key
          asked            \* how often the book was asked to take the bet

vars == <<phase, held, asked>>

Init == /\ phase = [k \in Keys |-> "none"]
        /\ held = [k \in Keys |-> 0]
        /\ asked = [k \in Keys |-> 0]

Hold(k) == /\ phase[k] = "none"
           /\ phase' = [phase EXCEPT ![k] = "pending"]
           /\ \E amount \in Amounts : held' = [held EXCEPT ![k] = amount]
           /\ UNCHANGED asked

Ask(k) == /\ phase[k] = "pending" /\ asked[k] = 0
          /\ asked' = [asked EXCEPT ![k] = 1]
          /\ UNCHANGED <<phase, held>>

Take(k) == /\ phase[k] = "pending" /\ asked[k] = 1
           /\ phase' = [phase EXCEPT ![k] = "placed"]
           /\ UNCHANGED <<held, asked>>

GiveBack(k) == /\ phase[k] = "pending" /\ asked[k] = 1
               /\ phase' = [phase EXCEPT ![k] = "failed"]
               /\ held' = [held EXCEPT ![k] = 0]
               /\ UNCHANGED asked

Next == \E k \in Keys : Hold(k) \/ Ask(k) \/ Take(k) \/ GiveBack(k)

Spec == Init /\ [][Next]_vars

=============================================================================
