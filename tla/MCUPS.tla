------------------------------- MODULE MCUPS -------------------------------
(* Instances of UPS for TLC. *)
EXTENDS UPS, TLC

CONSTANTS p1, p2, home, away
=============================================================================
