---------------------------- MODULE MCCrediting ----------------------------
(***************************************************************************)
(* Instances of DepositCrediting for TLC.  Amounts are in half USDT.       *)
(* Deposits 1 and 2 are one user's and deposit 3 another's, for the        *)
(* energy address of the first.                                            *)
(***************************************************************************)
EXTENDS DepositCrediting, TLC

CONSTANTS u1, u2, r1, r2, p1, p2

UserOfDeposit == [d \in Deposits |-> IF d = 3 THEN u2 ELSE u1]
MixedPurposes == [d \in Deposits |-> IF d = 2 THEN "TOPUP" ELSE "ENERGY_DELIVERY"]
WholeAmounts == [d \in Deposits |-> 2 * d]
OddAmounts == [d \in Deposits |-> 2 * d + 1]
Packages == [d \in Deposits |-> d]
FirstRecipient == [d \in Deposits |-> r1]
Symmetry == Permutations(Processors)
=============================================================================
