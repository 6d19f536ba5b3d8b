---------------------------- MODULE MCGrounding ----------------------------
(* Instances of Grounding for TLC. *)
EXTENDS Grounding, TLC

CONSTANTS a, b, g1, g2, s1

Ground(c, sources) == [id |-> c, sources |-> sources]
MCBatches == {<<Ground(a, {})>>, <<Ground(a, {b})>>, <<Ground(a, {b}), Ground(b, {})>>}
=============================================================================
