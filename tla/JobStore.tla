------------------------------ MODULE JobStore ------------------------------
(***************************************************************************)
(* The durable jobs store (context/jobsstore): the canonical job records   *)
(* and the indexes Badger keeps beside them.  Every operator below whose   *)
(* name ends in Txn is one read-write transaction of the store: Badger     *)
(* runs it atomically, and a process crash happens before or after it.     *)
(*                                                                         *)
(* A job is named by its correlate id: spoolFile.materialize makes the job *)
(* id a function of it, so the id check and the correlate check of Create  *)
(* range over the same names.                                              *)
(***************************************************************************)
EXTENDS Integers, Sequences, FiniteSets

CONSTANTS
  Jobs,           \* the names a submission may carry
  Workers,        \* the executor's worker ids
  MaxAttempts,    \* Spec.MaxAttempts of each job; 0 means unset
  Queues,         \* RunnerConfig.Queues: the served queues, in config order
  QueueOf,        \* Spec.Queue of each job
  Priority        \* Spec.Priority of each job

ASSUME JobsAssumption == IsFiniteSet(Jobs)
ASSUME MaxAttemptsAssumption == MaxAttempts \in [Jobs -> Nat]
ASSUME PriorityAssumption == Priority \in [Jobs -> Int]

VARIABLES
  job,            \* j:{id}             canonical records
  correlated,     \* x:{correlate}      ingested correlate ids
  ready,          \* q:{queue}:...      claimable jobs
  windex,         \* w:{worker}:{id}    claimed jobs, per worker
  ckpt,           \* c:{id}             jobs with a stored checkpoint
  events          \* e:{id}:{seq}       the event log of each job

storeVars == <<job, correlated, ready, windex, ckpt, events>>

States == {"queued", "running", "completed", "failed", "cancelled"}
Terminal == {"completed", "failed", "cancelled"}

(* The order of creation, as the number of jobs created so far. *)
Positions == {0} \cup {Cardinality(S) + 1 : S \in SUBSET Jobs}

(* "absent" stands for a job key that is not in the store. The times are   *)
(* kept as what the code asks of them: is NextAttemptAt past, is           *)
(* CompletedAt set; CreatedAt only orders the ready index.                 *)
JobRecord == [state: States \cup {"absent"},
              attempt: Nat,
              nextAttempt: {"due", "later"},
              completedAt: {"zero", "set"},
              resumeToken: {"none", "id"},
              created: Positions]

EventRecord == [type: {"completed", "failed", "retried"}, state: States]

Absent == [state |-> "absent", attempt |-> 0, nextAttempt |-> "due",
           completedAt |-> "zero", resumeToken |-> "none", created |-> 0]

StoreTypeOK ==
  /\ job \in [Jobs -> JobRecord]
  /\ correlated \subseteq Jobs
  /\ ready \subseteq Jobs
  /\ windex \subseteq Workers \X Jobs
  /\ ckpt \subseteq Jobs
  /\ events \in [Jobs -> Seq(EventRecord)]

StoreInit ==
  /\ job = [j \in Jobs |-> Absent]
  /\ correlated = {}
  /\ ready = {}
  /\ windex = {}
  /\ ckpt = {}
  /\ events = [j \in Jobs |-> <<>>]

(* maxAttempts: MaxAttempts 0 means 1. *)
AttemptBudget(j) == IF MaxAttempts[j] <= 0 THEN 1 ELSE MaxAttempts[j]

(***************************************************************************)
(* The claim order: queues in config order, then the key order of the      *)
(* ready index, priority descending (clamped) and creation time.           *)
(***************************************************************************)
PriorityCap == 999999

Clamped(p) == IF p < 0 THEN 0 ELSE IF p > PriorityCap THEN PriorityCap ELSE p

Served(j) == \E q \in 1..Len(Queues) : Queues[q] = QueueOf[j]

(* j's index entry is visited before k's by the scan of Claim. *)
Before(j, k) ==
  \E q \in 1..Len(Queues) :
    /\ Queues[q] = QueueOf[j]
    /\ \A r \in 1..(q - 1) : Queues[r] # QueueOf[k]
    /\ \/ QueueOf[j] # QueueOf[k]
       \/ /\ QueueOf[j] = QueueOf[k]
          /\ \/ Clamped(Priority[j]) > Clamped(Priority[k])
             \/ /\ Clamped(Priority[j]) = Clamped(Priority[k])
                /\ job[j].created < job[k].created

Claimable(j) ==
  /\ j \in ready
  /\ Served(j)
  /\ job[j].state = "queued"
  /\ job[j].nextAttempt = "due"

(* Index entries whose canonical record is not queued; a scan deletes the  *)
(* ones it visits.                                                         *)
Stale == {j \in ready : Served(j) /\ job[j].state # "queued"}

-----------------------------------------------------------------------------
(* Create: refused (ErrExists) when the job id or the correlate id exists; *)
(* otherwise the record, the correlate index and the ready index at once.  *)
CreateTxn(j) ==
  /\ job[j].state = "absent"
  /\ j \notin correlated
  /\ job' = [job EXCEPT ![j] = [Absent EXCEPT !.state = "queued",
                                  !.created = Cardinality(correlated) + 1]]
  /\ correlated' = correlated \cup {j}
  /\ ready' = ready \cup {j}
  /\ UNCHANGED <<windex, ckpt, events>>

(* Claim flips a record to running and counts the attempt. *)
Claimed(r) == [r EXCEPT !.state = "running", !.attempt = r.attempt + 1]

(* A slip: the claim forgets to write the record and to move the index. *)
ClaimWithoutFlip(w, j) ==
  /\ Claimable(j)
  /\ windex' = windex \cup {<<w, j>>}
  /\ UNCHANGED <<job, ready, correlated, ckpt, events>>

(* A slip: the claim leaves no running-index entry. *)
ClaimWithoutIndex(w, j) ==
  /\ Claimable(j)
  /\ job' = [job EXCEPT ![j] = Claimed(job[j])]
  /\ ready' = ready \ {j}
  /\ UNCHANGED <<windex, correlated, ckpt, events>>

(* Claim with limit 1: the first due entry of the scan becomes running for *)
(* worker w, and stale entries visited on the way are deleted.             *)
ClaimTxn(w, j) ==
  /\ Claimable(j)
  /\ \A k \in Jobs : Claimable(k) => ~Before(k, j)
  /\ job' = [job EXCEPT ![j] = Claimed(job[j])]
  /\ ready' = ready \ ({j} \cup {k \in Stale : Before(k, j)})
  /\ windex' = windex \cup {<<w, j>>}
  /\ UNCHANGED <<correlated, ckpt, events>>

(* Claim that finds nothing due: it only cleans the stale entries. *)
ClaimNothingTxn ==
  /\ \A k \in Jobs : ~Claimable(k)
  /\ ready' = ready \ Stale
  /\ UNCHANGED <<job, correlated, windex, ckpt, events>>

(* A slip: Update does not put a requeued job back into the ready index. *)
UpdateWithoutIndex(j, rec) ==
  /\ job[j].state # "absent"
  /\ job' = [job EXCEPT ![j] = rec]
  /\ ready' = IF rec.state = "queued" THEN ready ELSE ready \ {j}
  /\ UNCHANGED <<correlated, windex, ckpt, events>>

(* Update: the whole record is overwritten by the caller's copy and the    *)
(* ready index follows the state; the running index is not touched.        *)
UpdateTxn(j, rec) ==
  /\ job[j].state # "absent"
  /\ job' = [job EXCEPT ![j] = rec]
  /\ ready' = IF rec.state = "queued" THEN ready \cup {j}
              ELSE IF job[j].state = "queued" THEN ready \ {j}
              ELSE ready
  /\ UNCHANGED <<correlated, windex, ckpt, events>>

SaveCheckpointTxn(j) ==
  /\ ckpt' = ckpt \cup {j}
  /\ UNCHANGED <<job, correlated, ready, windex, events>>

AppendEventTxn(j, e) ==
  /\ events' = [events EXCEPT ![j] = Append(@, e)]
  /\ UNCHANGED <<job, correlated, ready, windex, ckpt>>

(* A slip: off by one in the budget of the recovery pass. *)
InterruptedOverBudget(j) ==
  IF job[j].attempt <= AttemptBudget(j)
  THEN [job[j] EXCEPT !.state = "queued", !.nextAttempt = "later"]
  ELSE [job[j] EXCEPT !.state = "failed", !.completedAt = "set"]

(* The outcome of an interrupted attempt: requeued while attempts remain,  *)
(* with a resume token when a checkpoint is stored; else terminal failed.  *)
Interrupted(j) ==
  IF job[j].attempt < AttemptBudget(j)
  THEN [job[j] EXCEPT !.state = "queued", !.nextAttempt = "later",
                      !.completedAt = "zero",
                      !.resumeToken = IF j \in ckpt THEN "id" ELSE @]
  ELSE [job[j] EXCEPT !.state = "failed", !.completedAt = "set"]

InterruptedEvents(j) ==
  IF job[j].attempt < AttemptBudget(j)
  THEN <<[type |-> "failed", state |-> "failed"],
         [type |-> "retried", state |-> "queued"]>>
  ELSE <<[type |-> "failed", state |-> "failed"]>>

(* A slip: recovery trusts the index and not the canonical record. *)
RecoverWithoutCheck(w, j) ==
  /\ <<w, j>> \in windex
  /\ windex' = windex \ {<<w, j>>}
  /\ job' = [job EXCEPT ![j] = Interrupted(j)]
  /\ ready' = IF Interrupted(j).state = "queued" THEN ready \cup {j} ELSE ready
  /\ events' = [events EXCEPT ![j] = @ \o InterruptedEvents(j)]
  /\ UNCHANGED <<correlated, ckpt>>

(* A slip: recovery requeues the record but not its ready-index entry. *)
RecoverWithoutReady(w, j) ==
  /\ <<w, j>> \in windex
  /\ windex' = windex \ {<<w, j>>}
  /\ IF job[j].state = "running"
     THEN /\ job' = [job EXCEPT ![j] = Interrupted(j)]
          /\ events' = [events EXCEPT ![j] = @ \o InterruptedEvents(j)]
     ELSE UNCHANGED <<job, events>>
  /\ UNCHANGED <<ready, correlated, ckpt>>

(* recoverOne: drop the running-index entry; only a job whose canonical    *)
(* record is still running was interrupted.                                *)
RecoverOneTxn(w, j) ==
  /\ <<w, j>> \in windex
  /\ windex' = windex \ {<<w, j>>}
  /\ IF job[j].state = "running"
     THEN /\ job' = [job EXCEPT ![j] = Interrupted(j)]
          /\ ready' = IF Interrupted(j).state = "queued" THEN ready \cup {j} ELSE ready
          /\ events' = [events EXCEPT ![j] = @ \o InterruptedEvents(j)]
     ELSE UNCHANGED <<job, ready, events>>
  /\ UNCHANGED <<correlated, ckpt>>

(* The passing of the backoff delay: NextAttemptAt of j is now past. *)
BackoffElapses(j) ==
  /\ job[j].state = "queued"
  /\ job[j].nextAttempt = "later"
  /\ job' = [job EXCEPT ![j] = [@ EXCEPT !.nextAttempt = "due"]]
  /\ UNCHANGED <<correlated, ready, windex, ckpt, events>>
=============================================================================
