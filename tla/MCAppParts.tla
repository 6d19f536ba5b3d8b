---------------------------- MODULE MCAppParts ----------------------------
(* Instances of seven parts for TLC: the bounded cache and ring, the retry  *)
(* delay, the scheduler, the run coordinator, the knowledge store's         *)
(* grounding and the invalidation pass.  They share no state, so one        *)
(* behaviour exercises one of them (part) and the others rest in an         *)
(* initial state.                                                           *)
EXTENDS BoundedCache, Ring, Backoff, Scheduler, RunCoordinator, MCGrounding, Invalidation

CONSTANTS k1, k2, k3, k4, v1, v2, l1, l2, p1, p2, c1, c2, c3, t1, t2,
          h1, h2, h3, h4

VARIABLE part

structVars == <<vars, ringVars, backoffVars>>
appVars == <<structVars, schedulerVars, coordinatorVars, groundingVars, invalidationVars, part>>

MCKeys == {k1, k2, k3, k4}
MCValues == {v1, v2}

(* One unit is a second; Half is 2^24, for the 2^63 nanoseconds of the     *)
(* code, which leaves 24 hours inside the clamp as in the code.            *)
MCHalf == 2^24
MCBases == {-1, 0, 1, 2, 9, 10, 29, 30, 31, 150, 299, 300, 301, 3600, 86399, 86400,
            86401, 2^19 - 1, 2^19, 2^20 - 1, 2^20, 2^24 - 1}
MCAttempts == 1 .. 9

(* An interval job and a cron job. *)
MCSchedule == <<[interval |-> 1, cron |-> [kind |-> "none"]],
                [interval |-> 0, cron |-> [kind |-> "every", step |-> 2]]>>

(* Four chunks whose edges make a ring. *)
MCStaleEdges == {<<h1, h2>>, <<h2, h3>>, <<h3, h4>>, <<h4, h1>>}
MCRevisions == {{h1}, {h1, h2}, {h4}}

MCAppSymmetry == Permutations({l1, l2}) \cup Permutations({p1, p2})

AppInit ==
  /\ part \in {"cache", "ring", "backoff", "scheduler", "coordinator", "grounding", "invalidation"}
  /\ Init /\ RingInit /\ BackoffInit /\ SchedulerInit /\ CoordinatorInit
  /\ GroundingInit /\ InvalidationInit
  /\ part = "ring" \/ elements = [i \in Slots |-> v1]
  /\ part = "backoff" \/ backoff = 0
  /\ part = "coordinator" \/ taskOf = [c \in Calls |-> t1]
  /\ part = "grounding" \/ disk = [c \in Chunks |-> NoChunk]

AppNext ==
  /\ UNCHANGED part
  /\ \/ part = "cache" /\ Next /\ UNCHANGED <<ringVars, backoffVars>>
     \/ part = "ring" /\ RingNext /\ UNCHANGED <<vars, backoffVars>>
     \/ part = "backoff" /\ BackoffNext /\ UNCHANGED <<vars, ringVars>>
     \/ part \notin {"cache", "ring", "backoff"} /\ UNCHANGED structVars
  /\ IF part = "scheduler" THEN SchedulerNext ELSE UNCHANGED schedulerVars
  /\ IF part = "coordinator" THEN CoordinatorNext ELSE UNCHANGED coordinatorVars
  /\ IF part = "grounding" THEN GroundingNext ELSE UNCHANGED groundingVars
  /\ IF part = "invalidation" THEN InvalidationNext ELSE UNCHANGED invalidationVars

AppSpec == AppInit /\ [][AppNext]_appVars
=============================================================================
