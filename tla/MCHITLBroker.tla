--------------------------- MODULE MCHITLBroker ---------------------------
(* An instance of HITLBroker for TLC. *)
EXTENDS HITLBroker

CONSTANTS b1, b2, a1
=============================================================================
