--------------------------- MODULE CreditAccount ---------------------------
(***************************************************************************)
(* What the prepaid account of an API customer promises: one credit is     *)
(* held for a request key, once, and is then either spent or returned,     *)
(* never both and never twice.  Module EnergyRequests implements it.       *)
(***************************************************************************)
EXTENDS Integers

CONSTANT Keys

VARIABLES balance, account

AccountState == {"none", "held", "spent", "returned"}

Init == /\ balance = 0
        /\ account = [k \in Keys |-> "none"]

Buy == /\ balance' = balance + 1
       /\ UNCHANGED account

Move(k, from, to) == /\ account[k] = from
                     /\ account' = [account EXCEPT ![k] = to]

Hold(k) == Move(k, "none", "held") /\ balance' = balance - 1
Spend(k) == Move(k, "held", "spent") /\ balance' = balance
Return(k) == Move(k, "held", "returned") /\ balance' = balance + 1

Next == Buy \/ \E k \in Keys : Hold(k) \/ Spend(k) \/ Return(k)

Spec == Init /\ [][Next]_<<balance, account>>
=============================================================================
