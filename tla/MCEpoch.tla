------------------------------ MODULE MCEpoch ------------------------------
(* An instance of Epoch for TLC. *)
EXTENDS Epoch

CONSTANTS i1, i2, j1, b1, b2
=============================================================================
