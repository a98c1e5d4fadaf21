------------------------------ MODULE MCRides ------------------------------
(* Instances of RideOrders for TLC. *)
EXTENDS RideOrders, TLC

CONSTANTS o1, rider, d1, d2, r1, r2
=============================================================================
