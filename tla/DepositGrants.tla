--------------------------- MODULE DepositGrants ---------------------------
(***************************************************************************)
(* What crediting promises: a deposit is granted at most once, and what    *)
(* users own is the sum of their grants.  An ENERGY_DELIVERY deposit gives *)
(* its amount as credits and its package of transactions to one TRON       *)
(* address; a TOPUP deposit gives one v2 credit per whole USDT.  Module    *)
(* DepositCrediting implements it, as long as topups are processed by one  *)
(* run at a time.                                                          *)
(***************************************************************************)
EXTENDS Naturals

CONSTANTS Deposits, Users, Recipients,
          UserOf, PurposeOf, AmountOf, PackageOf,
          Unit   \* amounts are in 1/Unit of a USDT

VARIABLES granted, credits, v2Credits, remaining

Init == /\ granted = {}
        /\ credits = [u \in Users |-> 0]
        /\ v2Credits = [u \in Users |-> 0]
        /\ remaining = [r \in Recipients |-> 0]

GrantEnergy(d, r) ==
  /\ PurposeOf[d] = "ENERGY_DELIVERY"
  /\ credits' = [credits EXCEPT ![UserOf[d]] = @ + AmountOf[d]]
  /\ remaining' = [remaining EXCEPT ![r] = @ + PackageOf[d]]
  /\ UNCHANGED v2Credits

GrantTopup(d) ==
  /\ PurposeOf[d] = "TOPUP"
  /\ v2Credits' = [v2Credits EXCEPT ![UserOf[d]] = @ + AmountOf[d] \div Unit]
  /\ UNCHANGED <<credits, remaining>>

Grant(d) == /\ d \notin granted
            /\ granted' = granted \cup {d}
            /\ GrantTopup(d) \/ \E r \in Recipients : GrantEnergy(d, r)

Next == \E d \in Deposits : Grant(d)

Spec == Init /\ [][Next]_<<granted, credits, v2Credits, remaining>>
=============================================================================
