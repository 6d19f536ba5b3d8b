---------------------------- MODULE JobLifecycle ----------------------------
(***************************************************************************)
(* What the jobs store promises of every job, whoever works on it and      *)
(* however often the process restarts: created once, attempted one at a    *)
(* time and at most Budget times, requeued only while attempts remain,     *)
(* settled once.  (jobs/job.go states; jobs/store.go contract.)            *)
(***************************************************************************)
EXTENDS Naturals

CONSTANTS Jobs, Budget

VARIABLES status, tries

lifeVars == <<status, tries>>

LifeInit ==
  /\ status = [j \in Jobs |-> "absent"]
  /\ tries = [j \in Jobs |-> 0]

Enqueue(j) ==
  /\ status[j] = "absent"
  /\ status' = [status EXCEPT ![j] = "queued"]
  /\ UNCHANGED tries

Begin(j) ==
  /\ status[j] = "queued"
  /\ tries[j] < Budget[j]
  /\ status' = [status EXCEPT ![j] = "running"]
  /\ tries' = [tries EXCEPT ![j] = @ + 1]

Requeue(j) ==
  /\ status[j] = "running"
  /\ tries[j] < Budget[j]
  /\ status' = [status EXCEPT ![j] = "queued"]
  /\ UNCHANGED tries

Settle(j, s) ==
  /\ status[j] = "running"
  /\ status' = [status EXCEPT ![j] = s]
  /\ UNCHANGED tries

LifeNext ==
  \E j \in Jobs :
    \/ Enqueue(j)
    \/ Begin(j)
    \/ Requeue(j)
    \/ \E s \in {"completed", "failed"} : Settle(j, s)

LifeSpec == LifeInit /\ [][LifeNext]_lifeVars
=============================================================================
