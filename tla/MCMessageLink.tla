--------------------------- MODULE MCMessageLink ----------------------------
(* Instance of MessageLink for TLC: every class of the two .proto files. *)
EXTENDS MessageLink

AllKinds == DOMAIN Schemas
=============================================================================
