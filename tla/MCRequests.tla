----------------------------- MODULE MCRequests -----------------------------
(***************************************************************************)
(* Instances of EnergyRequests for TLC: calls c1 and c2 carry one          *)
(* idempotency key, c3 and c4 another; all ask energy for one wallet.      *)
(***************************************************************************)
EXTENDS EnergyRequests

CONSTANTS c1, c2, c3, c4, k1, k2, t1

SharedKey == [c \in Callers |-> IF c \in {c3, c4} THEN k2 ELSE k1]
OneWallet == [c \in Callers |-> t1]
=============================================================================
