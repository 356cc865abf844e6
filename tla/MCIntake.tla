------------------------------ MODULE MCIntake ------------------------------
(***************************************************************************)
(* Instances of DepositIntake for TLC.  The detector runs w1 and w2 are    *)
(* interchangeable, which Symmetry exploits in the runs that check only    *)
(* invariants.                                                             *)
(***************************************************************************)
EXTENDS DepositIntake, TLC

CONSTANTS w1, w2

Symmetry == Permutations(Detectors)
=============================================================================
