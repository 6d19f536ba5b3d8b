---------------------------- MODULE MCAuditChain ----------------------------
(* Instances of AuditChain for TLC. *)
EXTENDS AuditChain, TLC

CONSTANTS r1, r2, r3, q1

MCRecs == {r1, r2, r3}
MCAuditSymmetry == Permutations(MCRecs)
=============================================================================
