------------------------------ MODULE MCRunner ------------------------------
(* Instances of Runner for TLC. *)
EXTENDS Runner

CONSTANTS j1, j2

MCJobs == {j1, j2}
=============================================================================
