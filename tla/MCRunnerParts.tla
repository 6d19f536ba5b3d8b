--------------------------- MODULE MCRunnerParts ---------------------------
(* Instances of two parts for TLC, with their fairness: the submission      *)
(* spool and the runner process.  They share no state, so one behaviour     *)
(* exercises one of them (part) and the other rests in an initial state,    *)
(* where nothing is asked of it.                                            *)
EXTENDS Spool, MCRunner, TLC

CONSTANTS f1, f2, a, b

VARIABLE part

partVars == <<vars, runnerVars, part>>

(* A good submission and a malformed one. *)
MCFiles == {f1, f2}
MCCorrelate == (f1 :> a) @@ (f2 :> b)
MCContent == (f1 :> "good") @@ (f2 :> "malformed")

PartInit ==
  /\ part \in {"spool", "runner"}
  /\ Init /\ RunnerInit
  /\ part = "runner" \/ state = [j \in Jobs |-> "absent"]

PartNext ==
  /\ UNCHANGED part
  /\ \/ part = "spool" /\ Next /\ UNCHANGED runnerVars
     \/ part = "runner" /\ RunnerNext /\ UNCHANGED vars

PartSpec ==
  /\ PartInit /\ [][PartNext]_partVars
  /\ part = "spool" => SpoolFairness
  /\ part = "runner" => RunnerFairness
=============================================================================
