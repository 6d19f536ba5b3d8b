----------------------------- MODULE MCExecutor -----------------------------
(* Instances of Executor for TLC: two jobs (one may be retried), two       *)
(* workers, two queues.                                                    *)
EXTENDS Executor, TLC

CONSTANTS j1, j2, w1, w2

MCJobs == {j1, j2}
MCWorkers == {w1, w2}
MCKnown == {j1}
MCMaxAttempts == (j1 :> 2) @@ (j2 :> 0)
MCQueues == <<"knowledge", "bulk">>
MCQueueOf == (j1 :> "knowledge") @@ (j2 :> "bulk")
MCPriority == (j1 :> 0) @@ (j2 :> 7)
=============================================================================
