--------------------------- MODULE ExecutorProofs ---------------------------
(***************************************************************************)
(* The safety invariants of Executor for any finite set of jobs, any set   *)
(* of workers, any attempt budgets and any of the fault switches: the      *)
(* inductive invariant, and what the transactions of the store and the     *)
(* steps of the workers do to it.                                          *)
(***************************************************************************)
EXTENDS TLAPS, Executor

(* The provers may take a minute for a leaf, and each leaf two attempts.   *)
USE SMTT(60), Z3T(60)

(* The facts about a worker's private copy that make the safety properties *)
(* inductive: which record it may be about to write, and that nobody       *)
(* attempts anything while the process is down or recovering.              *)
CopyOK(w) ==
  /\ pc[w] \in Holding => cur[w] \in Jobs
  /\ proc \in {"down", "recovering"} => pc[w] = "exited"
  /\ pc[w] \in {"resolve", "handle", "saveOk", "saveErr"} =>
       rec[w].state = "running" /\ rec[w].completedAt = "zero"
  /\ pc[w] = "update" =>
       \/ /\ rec[w].state = "queued"
          /\ rec[w].completedAt = "zero"
          /\ rec[w].attempt < AttemptBudget(cur[w])
       \/ rec[w].state \in {"completed", "failed"} /\ rec[w].completedAt = "set"
  /\ pc[w] = "event" => rec[w].state \in {"queued", "completed", "failed"}
  /\ Attempting(w) /\ rec[w].resumeToken = "id" => cur[w] \in ckpt

CopiesOK == \A w \in Workers : CopyOK(w)

(* A job not yet created has no attempts behind it. *)
AbsentUntouched == \A j \in Jobs : job[j].state = "absent" => job[j].attempt = 0

(* The inductive invariant. *)
IInv ==
  /\ TypeOK
  /\ CopiesOK
  /\ ExclusiveAttempt
  /\ ReadyIndexExact
  /\ RunningIndexed
  /\ BudgetRespected
  /\ CompletedAtExact
  /\ ResumeTokenBacked
  /\ AbsentUntouched

-----------------------------------------------------------------------------
(* The attempt budget is a positive number, whatever MaxAttempts says. *)
LEMMA BudgetPositive == \A j \in Jobs : AttemptBudget(j) \in Nat /\ AttemptBudget(j) >= 1
BY MaxAttemptsAssumption DEF AttemptBudget

(* The position of a new job in the creation order. *)
LEMMA CreatedType == ASSUME TypeOK PROVE Cardinality(correlated) + 1 \in Positions
BY DEF TypeOK, StoreTypeOK, Positions

(* What recovery writes over an interrupted attempt is a job record. *)
LEMMA InterruptedType ==
  ASSUME TypeOK, NEW j \in Jobs
  PROVE  Interrupted(j) \in JobRecord
<1>1. job[j] \in JobRecord
  BY DEF TypeOK, StoreTypeOK
<1>2. CASE job[j].attempt < AttemptBudget(j)
  <2>1. CASE j \in ckpt
    <3>1. Interrupted(j) = [job[j] EXCEPT !.state = "queued", !.nextAttempt = "later",
                                          !.completedAt = "zero", !.resumeToken = "id"]
      BY <1>1, <1>2, <2>1 DEF Interrupted
    <3> QED
      BY Zenon, <1>1, <3>1 DEF JobRecord, States
  <2>2. CASE j \notin ckpt
    <3>1. Interrupted(j) = [job[j] EXCEPT !.state = "queued", !.nextAttempt = "later",
                                          !.completedAt = "zero"]
      BY Zenon, <1>1, <1>2, <2>2 DEF Interrupted, JobRecord
    <3> QED
      BY Zenon, <1>1, <3>1 DEF JobRecord, States
  <2> QED
    BY <2>1, <2>2
<1>3. CASE ~(job[j].attempt < AttemptBudget(j))
  BY Zenon, <1>1, <1>3 DEF Interrupted, JobRecord, States
<1> QED
  BY <1>2, <1>3

(* A claimed record is a job record. *)
LEMMA ClaimedType == \A r \in JobRecord : Claimed(r) \in JobRecord
<1> SUFFICES ASSUME NEW r \in JobRecord PROVE Claimed(r) \in JobRecord
  OBVIOUS
<1>1. r.attempt + 1 \in Nat
  BY DEF JobRecord
<1> DEFINE n == r.attempt + 1
<1>2. n \in Nat
  BY <1>1
<1> HIDE DEF n
<1>3. [r EXCEPT !.state = "running", !.attempt = n] \in JobRecord
  BY Zenon, <1>2 DEF JobRecord, States
<1> QED
  BY <1>3 DEF Claimed, n

(* What recovery logs is a sequence of events. *)
LEMMA InterruptedEventsType ==
  ASSUME NEW j \in Jobs
  PROVE  InterruptedEvents(j) \in Seq(EventRecord)
<1>1. /\ [type |-> "failed", state |-> "failed"] \in EventRecord
      /\ [type |-> "retried", state |-> "queued"] \in EventRecord
  BY DEF EventRecord, States
<1>2. \A e, f \in EventRecord : <<e>> \in Seq(EventRecord) /\ <<e, f>> \in Seq(EventRecord)
  OBVIOUS
<1> QED
  BY <1>1, <1>2 DEF InterruptedEvents

(* The transactions of the store keep the types of its variables. *)
LEMMA StoreTypes ==
  ASSUME TypeOK
  PROVE  /\ StoreTypeOK /\ UNCHANGED storeVars => StoreTypeOK'
         /\ \A j \in Jobs : CreateTxn(j) => StoreTypeOK'
         /\ \A w \in Workers, j \in Jobs : ClaimTxn(w, j) => StoreTypeOK' /\ job'[j] \in JobRecord
         /\ ClaimNothingTxn => StoreTypeOK'
         /\ \A j \in Jobs, r \in JobRecord : UpdateTxn(j, r) => StoreTypeOK'
         /\ \A j \in Jobs : SaveCheckpointTxn(j) => StoreTypeOK'
         /\ \A j \in Jobs, e \in EventRecord : AppendEventTxn(j, e) => StoreTypeOK'
         /\ \A w \in Workers, j \in Jobs : RecoverOneTxn(w, j) => StoreTypeOK'
         /\ \A j \in Jobs : BackoffElapses(j) => StoreTypeOK'
<1>0. /\ StoreTypeOK
      /\ \A j \in Jobs : job[j] \in JobRecord
      /\ \A j \in Jobs : events[j] \in Seq(EventRecord)
  BY DEF TypeOK, StoreTypeOK
<1>1. UNCHANGED storeVars => StoreTypeOK'
  BY <1>0 DEF storeVars, StoreTypeOK
<1>2. \A j \in Jobs : CreateTxn(j) => StoreTypeOK'
  <2> SUFFICES ASSUME NEW j \in Jobs, CreateTxn(j) PROVE StoreTypeOK'
    OBVIOUS
  <2>1. [Absent EXCEPT !.state = "queued", !.created = Cardinality(correlated) + 1] \in JobRecord
    BY Zenon, CreatedType DEF Absent, JobRecord, States
  <2> QED
    BY <1>0, <2>1 DEF CreateTxn, StoreTypeOK
<1>3. \A w \in Workers, j \in Jobs : ClaimTxn(w, j) => StoreTypeOK' /\ job'[j] \in JobRecord
  <2> SUFFICES ASSUME NEW w \in Workers, NEW j \in Jobs, ClaimTxn(w, j)
               PROVE  StoreTypeOK' /\ job'[j] \in JobRecord
    OBVIOUS
  <2>1. Claimed(job[j]) \in JobRecord
    BY <1>0, ClaimedType
  <2> QED
    BY <1>0, <2>1 DEF ClaimTxn, StoreTypeOK
<1>4. ClaimNothingTxn => StoreTypeOK'
  BY <1>0 DEF ClaimNothingTxn, StoreTypeOK
<1>5. \A j \in Jobs, r \in JobRecord : UpdateTxn(j, r) => StoreTypeOK'
  BY <1>0 DEF UpdateTxn, StoreTypeOK
<1>6. \A j \in Jobs : SaveCheckpointTxn(j) => StoreTypeOK'
  BY <1>0 DEF SaveCheckpointTxn, StoreTypeOK
<1>7. \A j \in Jobs, e \in EventRecord : AppendEventTxn(j, e) => StoreTypeOK'
  BY <1>0 DEF AppendEventTxn, StoreTypeOK
<1>8. \A w \in Workers, j \in Jobs : RecoverOneTxn(w, j) => StoreTypeOK'
  <2> SUFFICES ASSUME NEW w \in Workers, NEW j \in Jobs, RecoverOneTxn(w, j)
               PROVE  StoreTypeOK'
    OBVIOUS
  <2>1. Interrupted(j) \in JobRecord
    BY InterruptedType
  <2>2. InterruptedEvents(j) \in Seq(EventRecord)
    BY InterruptedEventsType
  <2>3. events[j] \o InterruptedEvents(j) \in Seq(EventRecord)
    BY <1>0, <2>2
  <2> QED
    BY ZenonT(60), <1>0, <2>1, <2>3 DEF RecoverOneTxn, StoreTypeOK
<1>9. \A j \in Jobs : BackoffElapses(j) => StoreTypeOK'
  <2> SUFFICES ASSUME NEW j \in Jobs, BackoffElapses(j) PROVE StoreTypeOK'
    OBVIOUS
  <2>1. [job[j] EXCEPT !.nextAttempt = "due"] \in JobRecord
    BY <1>0 DEF JobRecord
  <2> QED
    BY <1>0, <2>1 DEF BackoffElapses, StoreTypeOK
<1> QED
  BY <1>1, <1>2, <1>3, <1>4, <1>5, <1>6, <1>7, <1>8, <1>9

-----------------------------------------------------------------------------
(* What the record builders of the code leave in each field: Claim counts  *)
(* the attempt and touches nothing else that the invariants read.          *)
LEMMA ClaimedFields ==
  \A r \in JobRecord : /\ Claimed(r).state = "running"
                       /\ Claimed(r).attempt = r.attempt + 1
                       /\ Claimed(r).completedAt = r.completedAt
                       /\ Claimed(r).resumeToken = r.resumeToken
BY DEF Claimed, JobRecord

(* fail() keeps the attempt, and requeues only within the budget. *)
LEMMA FailFields ==
  ASSUME NEW j \in Jobs, NEW r \in JobRecord, NEW stored \in SUBSET Jobs
  PROVE  /\ GivenUp(r) \in JobRecord
         /\ GivenUp(r).state = "failed" /\ GivenUp(r).completedAt = "set"
         /\ GivenUp(r).attempt = r.attempt /\ GivenUp(r).resumeToken = r.resumeToken
         /\ Failed(j, r, stored) \in JobRecord
         /\ Failed(j, r, stored).attempt = r.attempt
         /\ \/ /\ r.attempt < AttemptBudget(j)
               /\ Failed(j, r, stored).state = "queued"
               /\ Failed(j, r, stored).completedAt = r.completedAt
            \/ /\ ~(r.attempt < AttemptBudget(j))
               /\ Failed(j, r, stored).state = "failed"
               /\ Failed(j, r, stored).completedAt = "set"
         /\ Failed(j, r, stored).resumeToken = "id" => j \in stored \/ r.resumeToken = "id"
<1>1. /\ GivenUp(r) \in JobRecord
      /\ GivenUp(r).state = "failed" /\ GivenUp(r).completedAt = "set"
      /\ GivenUp(r).attempt = r.attempt /\ GivenUp(r).resumeToken = r.resumeToken
  BY Zenon DEF GivenUp, JobRecord, States
<1>2. CASE ~Retryable(j, r)
  BY <1>1, <1>2 DEF Failed, Retryable
<1>3. CASE Retryable(j, r) /\ j \in stored
  <2>1. Failed(j, r, stored) = [r EXCEPT !.state = "queued", !.nextAttempt = "later",
                                         !.resumeToken = "id"]
    BY <1>3 DEF Failed, Requeued
  <2> QED
    BY Zenon, <1>1, <1>3, <2>1 DEF JobRecord, States, Retryable
<1>4. CASE Retryable(j, r) /\ j \notin stored
  <2>1. Failed(j, r, stored) = [r EXCEPT !.state = "queued", !.nextAttempt = "later"]
    BY Zenon, <1>4 DEF Failed, Requeued, JobRecord
  <2> QED
    BY Zenon, <1>1, <1>4, <2>1 DEF JobRecord, States, Retryable
<1> QED
  BY <1>2, <1>3, <1>4, <1>1

(* A completed record keeps the attempt and gets its CompletedAt. *)
LEMMA CompleteFields ==
  \A r \in JobRecord : /\ Complete(r) \in JobRecord
                       /\ Complete(r).state = "completed"
                       /\ Complete(r).completedAt = "set"
                       /\ Complete(r).attempt = r.attempt
                       /\ Complete(r).resumeToken = r.resumeToken
BY ZenonT(60) DEF Complete, JobRecord, States

(* Recovery requeues only within the budget. *)
LEMMA InterruptedFields ==
  ASSUME TypeOK, NEW j \in Jobs
  PROVE  LET r == Interrupted(j) IN
         /\ r.attempt = job[j].attempt
         /\ \/ /\ job[j].attempt < AttemptBudget(j)
               /\ r.state = "queued" /\ r.completedAt = "zero"
            \/ /\ ~(job[j].attempt < AttemptBudget(j))
               /\ r.state = "failed" /\ r.completedAt = "set"
         /\ r.resumeToken = "id" => j \in ckpt \/ job[j].resumeToken = "id"
<1>1. job[j] \in JobRecord
  BY DEF TypeOK, StoreTypeOK
<1>2. CASE job[j].attempt < AttemptBudget(j) /\ j \in ckpt
  BY <1>1, <1>2 DEF Interrupted, JobRecord
<1>3. CASE job[j].attempt < AttemptBudget(j) /\ j \notin ckpt
  <2>1. Interrupted(j) = [job[j] EXCEPT !.state = "queued", !.nextAttempt = "later",
                                        !.completedAt = "zero"]
    BY ZenonT(60), <1>1, <1>3 DEF Interrupted, JobRecord
  <2> QED
    BY <1>1, <1>3, <2>1 DEF JobRecord
<1>4. CASE ~(job[j].attempt < AttemptBudget(j))
  BY <1>1, <1>4 DEF Interrupted, JobRecord
<1> QED
  BY <1>2, <1>3, <1>4

-----------------------------------------------------------------------------
(* The part of the invariant that speaks of the store alone. *)
StoreInv ==
  /\ ReadyIndexExact
  /\ RunningIndexed
  /\ BudgetRespected
  /\ CompletedAtExact
  /\ ResumeTokenBacked
  /\ AbsentUntouched

(* Every transaction that takes nothing from a worker keeps StoreInv. *)
LEMMA StoreSteps ==
  ASSUME TypeOK, StoreInv
  PROVE  /\ UNCHANGED storeVars => StoreInv'
         /\ \A j \in Jobs : CreateTxn(j) => StoreInv'
         /\ \A w \in Workers, j \in Jobs : ClaimTxn(w, j) => StoreInv'
         /\ ClaimNothingTxn => StoreInv'
         /\ \A j \in Jobs : SaveCheckpointTxn(j) => StoreInv'
         /\ \A j \in Jobs, e \in EventRecord : AppendEventTxn(j, e) => StoreInv'
         /\ \A w \in Workers, j \in Jobs : RecoverOneTxn(w, j) => StoreInv'
         /\ \A j \in Jobs : BackoffElapses(j) => StoreInv'
<1>0. /\ job \in [Jobs -> JobRecord]
      /\ \A j \in Jobs : job[j] \in JobRecord /\ job[j].attempt \in Nat
      /\ ready \subseteq Jobs
      /\ \A j \in Jobs : AttemptBudget(j) \in Nat /\ AttemptBudget(j) >= 1
      /\ Stale = {}
  BY BudgetPositive DEF TypeOK, StoreTypeOK, JobRecord, StoreInv, ReadyIndexExact, Stale
<1> USE DEF StoreInv, ReadyIndexExact, RunningIndexed, BudgetRespected, CompletedAtExact, ResumeTokenBacked, AbsentUntouched, Terminal
<1>1. UNCHANGED storeVars => StoreInv'
  BY DEF storeVars, AttemptBudget
<1>2. \A j \in Jobs : CreateTxn(j) => StoreInv'
  <2> SUFFICES ASSUME NEW j \in Jobs, CreateTxn(j) PROVE StoreInv'
    OBVIOUS
  <2> DEFINE r == [Absent EXCEPT !.state = "queued", !.created = Cardinality(correlated) + 1]
  <2>1. /\ r.state = "queued" /\ r.attempt = 0
        /\ r.completedAt = "zero" /\ r.resumeToken = "none"
    BY DEF Absent
  <2>2. job' = [job EXCEPT ![j] = r] /\ ready' = ready \cup {j} /\ UNCHANGED <<windex, ckpt>>
    BY DEF CreateTxn
  <2> HIDE DEF r
  <2> QED
    BY <1>0, <2>1, <2>2 DEF AttemptBudget
<1>3. \A w \in Workers, j \in Jobs : ClaimTxn(w, j) => StoreInv'
  <2> SUFFICES ASSUME NEW w \in Workers, NEW j \in Jobs, ClaimTxn(w, j) PROVE StoreInv'
    OBVIOUS
  <2>1. /\ job' = [job EXCEPT ![j] = Claimed(job[j])]
        /\ ready' = ready \ {j}
        /\ windex' = windex \cup {<<w, j>>}
        /\ ckpt' = ckpt
        /\ job[j].state = "queued"
    BY <1>0 DEF ClaimTxn, Claimable
  <2> QED
    BY <1>0, <2>1, ClaimedFields DEF AttemptBudget
<1>4. ClaimNothingTxn => StoreInv'
  BY <1>0 DEF ClaimNothingTxn, AttemptBudget
<1>5. \A j \in Jobs : SaveCheckpointTxn(j) => StoreInv'
  BY DEF SaveCheckpointTxn, AttemptBudget
<1>6. \A j \in Jobs, e \in EventRecord : AppendEventTxn(j, e) => StoreInv'
  BY DEF AppendEventTxn, AttemptBudget
<1>7. \A w \in Workers, j \in Jobs : RecoverOneTxn(w, j) => StoreInv'
  <2> SUFFICES ASSUME NEW w \in Workers, NEW j \in Jobs, RecoverOneTxn(w, j) PROVE StoreInv'
    OBVIOUS
  <2>0. windex' = windex \ {<<w, j>>} /\ ckpt' = ckpt
    BY DEF RecoverOneTxn
  <2>1. CASE job[j].state = "running"
    <3>1. /\ job' = [job EXCEPT ![j] = Interrupted(j)]
          /\ ready' = IF Interrupted(j).state = "queued" THEN ready \cup {j} ELSE ready
      BY <2>1 DEF RecoverOneTxn
    <3> QED
      BY <1>0, <2>0, <2>1, <3>1, InterruptedFields DEF AttemptBudget
  <2>2. CASE job[j].state # "running"
    <3>1. job' = job /\ ready' = ready
      BY <2>2 DEF RecoverOneTxn
    <3> QED
      BY <1>0, <2>0, <2>2, <3>1 DEF AttemptBudget
  <2> QED
    BY <2>1, <2>2
<1>8. \A j \in Jobs : BackoffElapses(j) => StoreInv'
  <2> SUFFICES ASSUME NEW j \in Jobs, BackoffElapses(j) PROVE StoreInv'
    OBVIOUS
  <2> DEFINE r == [job[j] EXCEPT !.nextAttempt = "due"]
  <2>1. /\ r.state = job[j].state /\ r.attempt = job[j].attempt
        /\ r.completedAt = job[j].completedAt /\ r.resumeToken = job[j].resumeToken
    BY <1>0 DEF JobRecord
  <2>2. job' = [job EXCEPT ![j] = r] /\ UNCHANGED <<ready, windex, ckpt>>
    BY DEF BackoffElapses
  <2> HIDE DEF r
  <2> QED
    BY <1>0, <2>1, <2>2 DEF AttemptBudget
<1> QED
  BY Zenon, <1>1, <1>2, <1>3, <1>4, <1>5, <1>6, <1>7, <1>8

(* An Update by a worker whose copy is in order keeps StoreInv. *)
LEMMA UpdateStep ==
  ASSUME TypeOK, StoreInv, CopiesOK, ExclusiveAttempt,
         NEW w \in Workers, pc[w] = "update", UpdateTxn(cur[w], rec[w])
  PROVE  StoreInv'
<1> DEFINE j == cur[w]
           r == rec[w]
<1>1. /\ j \in Jobs /\ r \in JobRecord /\ job \in [Jobs -> JobRecord]
      /\ job[j].state = "running" /\ r.attempt = job[j].attempt
      /\ r.resumeToken = "id" => j \in ckpt
      /\ \/ /\ r.state = "queued"
            /\ r.completedAt = "zero"
            /\ r.attempt < AttemptBudget(j)
         \/ r.state \in {"completed", "failed"} /\ r.completedAt = "set"
  BY DEF CopiesOK, CopyOK, ExclusiveAttempt, Attempting, Holding, TypeOK, StoreTypeOK
<1>2. /\ job' = [job EXCEPT ![j] = r]
      /\ ready' = IF r.state = "queued" THEN ready \cup {j} ELSE ready
      /\ UNCHANGED <<windex, ckpt>>
  BY <1>1 DEF UpdateTxn
<1>3. \A k \in Jobs : AttemptBudget(k) \in Nat /\ job[k].attempt \in Nat
  BY BudgetPositive DEF TypeOK, StoreTypeOK, JobRecord
<1> HIDE DEF j, r
<1> QED
  BY <1>1, <1>2, <1>3 DEF StoreInv, ReadyIndexExact, RunningIndexed, BudgetRespected,
     CompletedAtExact, ResumeTokenBacked, AbsentUntouched, Terminal, AttemptBudget

-----------------------------------------------------------------------------
(* Type correctness is kept by every step. *)
LEMMA TypeStep == TypeOK /\ CopiesOK /\ [Next]_vars => TypeOK'
<1> SUFFICES ASSUME TypeOK, CopiesOK, [Next]_vars PROVE TypeOK'
  OBVIOUS
<1>0. /\ \A w \in Workers : rec[w] \in JobRecord
      /\ \A w \in Workers : pc[w] \in Holding => cur[w] \in Jobs
      /\ Absent \in JobRecord
  BY DEF TypeOK, CopiesOK, CopyOK, Absent, JobRecord, Positions
<1> USE DEF TypeOK, PcSet, Holding
<1>1. CASE OpenStore
  BY <1>1, StoreTypes DEF OpenStore, workerVars
<1>2. ASSUME NEW w \in Workers, NEW j \in Jobs, Recover(w, j) PROVE TypeOK'
  BY <1>2, StoreTypes DEF Recover, workerVars
<1>3. CASE StartWorkers
  BY <1>3, StoreTypes DEF StartWorkers
<1>4. CASE StopExecutor
  BY <1>4, StoreTypes DEF StopExecutor, workerVars
<1>5. CASE CloseStore
  BY <1>5, StoreTypes DEF CloseStore, workerVars
<1>6. CASE Crash
  BY <1>0, <1>6, StoreTypes DEF Crash
<1>7. ASSUME NEW j \in Jobs, Submit(j) PROVE TypeOK'
  BY <1>7, StoreTypes DEF Submit, workerVars
<1>8. ASSUME NEW j \in Jobs, TimePasses(j) PROVE TypeOK'
  BY <1>8, StoreTypes DEF TimePasses, workerVars
<1>9. ASSUME NEW w \in Workers, WorkerStep(w) PROVE TypeOK'
  <2>1. CASE LoopTop(w)
    BY <2>1, StoreTypes DEF LoopTop, Goto
  <2>2. ASSUME NEW j \in Jobs, ClaimOne(w, j) PROVE TypeOK'
    BY <2>2, StoreTypes DEF ClaimOne, Goto
  <2>3. CASE ClaimNothing(w)
    BY <2>3, StoreTypes DEF ClaimNothing, Goto
  <2>4. CASE ClaimFails(w)
    BY <2>4, StoreTypes DEF ClaimFails, Goto
  <2>5. CASE Resolve(w)
    <3>1. cur[w] \in Jobs /\ GivenUp(rec[w]) \in JobRecord
      BY <1>0, <2>5, FailFields DEF Resolve
    <3> QED
      BY <2>5, <3>1, StoreTypes DEF Resolve, Goto, Note, Transition, Deeds
  <2>6. CASE HandlerCheckpoint(w)
    BY <1>0, <2>6, StoreTypes DEF HandlerCheckpoint, workerVars
  <2>7. ASSUME NEW c \in BOOLEAN, HandleSucceeds(w, c) PROVE TypeOK'
    <3>1. cur[w] \in Jobs /\ Complete(rec[w]) \in JobRecord
      BY <1>0, <2>7, CompleteFields DEF HandleSucceeds
    <3> QED
      BY <2>7, <3>1, StoreTypes DEF HandleSucceeds, Goto, Note, Transition, Deeds
  <2>8. CASE SaveOnSuccess(w)
    <3>1. /\ cur[w] \in Jobs /\ Complete(rec[w]) \in JobRecord
          /\ GivenUp(rec[w]) \in JobRecord
      BY <1>0, <2>8, CompleteFields, FailFields DEF SaveOnSuccess
    <3> QED
      BY <2>8, <3>1, StoreTypes DEF SaveOnSuccess, Goto, Transition
  <2>9. CASE HandleInterrupted(w)
    BY <1>0, <2>9, StoreTypes DEF HandleInterrupted, EndAttempt, Goto
  <2>10. ASSUME NEW c \in BOOLEAN, HandleFails(w, c) PROVE TypeOK'
    <3>0. cur[w] \in Jobs /\ ckpt \in SUBSET Jobs
      BY <1>0, <2>10 DEF HandleFails, StoreTypeOK
    <3>1. Failed(cur[w], rec[w], ckpt) \in JobRecord
      BY ZenonT(60), <1>0, <3>0, FailFields
    <3> QED
      BY <2>10, <3>0, <3>1, StoreTypes DEF HandleFails, Goto, Note, Transition, Deeds
  <2>11. CASE SaveOnFailure(w)
    <3>0. cur[w] \in Jobs
      BY <1>0, <2>11 DEF SaveOnFailure
    <3>2. StoreTypeOK' /\ Transition(w, Failed(cur[w], rec[w], ckpt'))
      BY <2>11, <3>0, StoreTypes DEF SaveOnFailure
    <3>1. Failed(cur[w], rec[w], ckpt') \in JobRecord
      <4>1. ckpt' \in SUBSET Jobs
        BY <3>2 DEF StoreTypeOK
      <4> QED
        BY ZenonT(60), <1>0, <3>0, <4>1, FailFields
    <3> QED
      BY <2>11, <3>1, <3>2 DEF SaveOnFailure, Goto, Transition
  <2>12. CASE Update(w)
    <3>1. StoreTypeOK'
      BY <1>0, <2>12, StoreTypes DEF Update
    <3> QED
      BY <1>0, <2>12, <3>1 DEF Update, EndAttempt, Goto
  <2>13. CASE LogEvent(w)
    <3>1. cur[w] \in Jobs
      BY <1>0, <2>13 DEF LogEvent
    <3>2. EventOf(rec[w]) \in EventRecord
      BY <2>13 DEF LogEvent, CopiesOK, CopyOK, EventOf, EventRecord, States
    <3>3. StoreTypeOK'
      BY <2>13, <3>1, <3>2, StoreTypes DEF LogEvent
    <3> QED
      BY <1>0, <2>13, <3>3 DEF LogEvent, EndAttempt, Goto
  <2> QED
    BY ZenonT(60), <1>9, <2>1, <2>2, <2>3, <2>4, <2>5, <2>6, <2>7, <2>8, <2>9, <2>10, <2>11, <2>12, <2>13
    DEF WorkerStep
<1>10. CASE UNCHANGED vars
  BY <1>10, StoreTypes DEF vars, workerVars
<1> QED
  BY <1>1, <1>2, <1>3, <1>4, <1>5, <1>6, <1>7, <1>8, <1>9, <1>10 DEF Next

-----------------------------------------------------------------------------
(* The store's part of the invariant is kept by every step. *)
LEMMA StoreInvStep == IInv /\ [Next]_vars => StoreInv'
<1> SUFFICES ASSUME IInv, [Next]_vars PROVE StoreInv'
  OBVIOUS
<1>0. TypeOK /\ CopiesOK /\ ExclusiveAttempt /\ StoreInv
  BY DEF IInv, StoreInv
<1>1. CASE OpenStore \/ StartWorkers \/ StopExecutor \/ CloseStore \/ Crash
  BY <1>0, <1>1, StoreSteps DEF OpenStore, StartWorkers, StopExecutor, CloseStore, Crash
<1>2. ASSUME NEW w \in Workers, NEW j \in Jobs, Recover(w, j) PROVE StoreInv'
  BY <1>0, <1>2, StoreSteps DEF Recover
<1>3. ASSUME NEW j \in Jobs, Submit(j) \/ TimePasses(j) PROVE StoreInv'
  BY <1>0, <1>3, StoreSteps DEF Submit, TimePasses
<1>4. ASSUME NEW w \in Workers, WorkerStep(w) PROVE StoreInv'
  <2>0. pc[w] \in Holding => cur[w] \in Jobs /\ rec[w] \in JobRecord
    BY <1>0 DEF CopiesOK, CopyOK, TypeOK
  <2>1. CASE LoopTop(w) \/ ClaimFails(w) \/ Resolve(w) \/ HandleInterrupted(w)
    BY <1>0, <2>1, StoreSteps DEF LoopTop, ClaimFails, Resolve, HandleInterrupted
  <2>2. ASSUME NEW j \in Jobs, ClaimOne(w, j) PROVE StoreInv'
    BY <1>0, <2>2, StoreSteps DEF ClaimOne
  <2>3. CASE ClaimNothing(w)
    BY <1>0, <2>3, StoreSteps DEF ClaimNothing
  <2>4. ASSUME NEW c \in BOOLEAN, HandleSucceeds(w, c) \/ HandleFails(w, c) PROVE StoreInv'
    BY <1>0, <2>4, StoreSteps DEF HandleSucceeds, HandleFails
  <2>5. CASE HandlerCheckpoint(w) \/ SaveOnSuccess(w) \/ SaveOnFailure(w)
    BY <1>0, <2>0, <2>5, StoreSteps DEF HandlerCheckpoint, SaveOnSuccess, SaveOnFailure, Holding
  <2>6. CASE Update(w)
    BY <1>0, <2>6, StoreSteps, UpdateStep DEF Update
  <2>7. CASE LogEvent(w)
    <3>1. cur[w] \in Jobs /\ EventOf(rec[w]) \in EventRecord
      BY <1>0, <2>0, <2>7 DEF LogEvent, Holding, CopiesOK, CopyOK, EventOf, EventRecord, States
    <3> QED
      BY <1>0, <2>7, <3>1, StoreSteps DEF LogEvent
  <2> QED
    BY <1>4, <2>1, <2>2, <2>3, <2>4, <2>5, <2>6, <2>7 DEF WorkerStep
<1>5. CASE UNCHANGED vars
  BY <1>0, <1>5, StoreSteps DEF vars
<1> QED
  BY <1>1, <1>2, <1>3, <1>4, <1>5 DEF Next

(* A worker's own step leaves the other workers' copies in order. *)
LEMMA OwnCopies ==
  ASSUME CopiesOK, NEW w \in Workers,
         \A v \in Workers \ {w} : pc'[v] = pc[v] /\ cur'[v] = cur[v] /\ rec'[v] = rec[v],
         proc' = proc, ckpt \subseteq ckpt',
         CopyOK(w)'
  PROVE  CopiesOK' /\ (\A v \in Workers \ {w} : Attempting(v)' <=> Attempting(v))
<1>1. ASSUME NEW v \in Workers \ {w} PROVE CopyOK(v)' /\ (Attempting(v)' <=> Attempting(v))
  <2>1. Attempting(v)' <=> Attempting(v)
    BY <1>1, Zenon DEF Attempting
  <2>2. CopyOK(v)
    BY <1>1, Zenon DEF CopiesOK
  <2>3. CopyOK(v)'
    BY <1>1, <2>1, <2>2, Zenon DEF CopyOK, AttemptBudget
  <2> QED BY <2>1, <2>3
<1> QED
  BY <1>1, Zenon DEF CopiesOK

(* What one worker does to its own copy keeps everybody's copies in order, *)
(* as long as its own is, and the records others attempt are left alone.   *)
LEMMA OwnStep ==
  ASSUME CopiesOK, ExclusiveAttempt, NEW w \in Workers,
         \A v \in Workers \ {w} : pc'[v] = pc[v] /\ cur'[v] = cur[v] /\ rec'[v] = rec[v],
         \A v \in Workers \ {w} : Attempting(v) => job'[cur[v]] = job[cur[v]],
         proc' = proc, ckpt \subseteq ckpt',
         CopyOK(w)',
         Attempting(w)' => /\ Attempting(w) /\ cur'[w] = cur[w]
                           /\ job'[cur[w]] = job[cur[w]] /\ rec'[w].attempt = rec[w].attempt
  PROVE  CopiesOK' /\ ExclusiveAttempt'
<1>1. CopiesOK' /\ (\A v \in Workers \ {w} : Attempting(v)' <=> Attempting(v))
  BY OwnCopies
<1>2. \A v \in Workers : Attempting(v)' => Attempting(v) /\ cur'[v] = cur[v]
                                           /\ job'[cur[v]] = job[cur[v]]
                                           /\ rec'[v].attempt = rec[v].attempt
  BY <1>1, Zenon
<1>3. ExclusiveAttempt'
  BY <1>2 DEF ExclusiveAttempt
<1> QED BY <1>1, <1>3

(* A worker that has decided what to write. *)
LEMMA TransitionKeeps ==
  ASSUME TypeOK, CopiesOK, ExclusiveAttempt, NEW w \in Workers, Attempting(w), NEW r,
         Transition(w, r), UNCHANGED <<job, proc>>, ckpt \subseteq ckpt',
         r.attempt = rec[w].attempt,
         \/ /\ r.state = "queued" /\ r.completedAt = "zero"
            /\ r.attempt < AttemptBudget(cur[w])
         \/ r.state \in {"completed", "failed"} /\ r.completedAt = "set",
         r.resumeToken = "id" => cur[w] \in ckpt'
  PROVE  CopiesOK' /\ ExclusiveAttempt'
<1>1. /\ pc' = [pc EXCEPT ![w] = "update"] /\ rec' = [rec EXCEPT ![w] = r] /\ cur' = cur
      /\ DOMAIN pc = Workers /\ DOMAIN rec = Workers
  BY DEF Transition, Goto, TypeOK
<1>2. /\ pc'[w] = "update" /\ rec'[w] = r
      /\ \A v \in Workers \ {w} : pc'[v] = pc[v] /\ cur'[v] = cur[v] /\ rec'[v] = rec[v]
  BY <1>1
<1>3. cur[w] \in Jobs /\ proc \notin {"down", "recovering"}
  BY DEF CopiesOK, CopyOK, Attempting, Holding
<1>4. CopyOK(w)'
  BY <1>1, <1>2, <1>3, ZenonT(60) DEF CopyOK, AttemptBudget
<1> QED BY <1>1, <1>2, <1>4, OwnStep, ZenonT(60) DEF Attempting, Holding

(* The workers' part of the invariant is kept by every step: a worker's    *)
(* own step keeps its copy in order, and nobody else's step touches the    *)
(* record a worker is attempting.                                          *)
LEMMA WorkerInvStep == IInv /\ [Next]_vars => CopiesOK' /\ ExclusiveAttempt'
<1> SUFFICES ASSUME IInv, [Next]_vars PROVE CopiesOK' /\ ExclusiveAttempt'
  OBVIOUS
<1>0. /\ TypeOK /\ CopiesOK /\ ExclusiveAttempt /\ ReadyIndexExact
      /\ CompletedAtExact /\ ResumeTokenBacked
      /\ \A j \in Jobs : job[j] \in JobRecord
      /\ \A w \in Workers : rec[w] \in JobRecord
      /\ job \in [Jobs -> JobRecord]
      /\ pc \in [Workers -> PcSet] /\ cur \in [Workers -> Jobs \cup {NoJob}]
      /\ rec \in [Workers -> JobRecord]
  BY DEF IInv, TypeOK, StoreTypeOK
(* Nobody works: the workers have exited, or are only starting. *)
<1>a. ASSUME \A w \in Workers : /\ pc'[w] \in {"exited", "loop"}
                                /\ proc' \in {"down", "recovering"} => pc'[w] = "exited"
      PROVE  CopiesOK' /\ ExclusiveAttempt'
  <2>1. \A w \in Workers : CopyOK(w)' /\ ~Attempting(w)'
    BY <1>a DEF CopyOK, Attempting, Holding
  <2> QED BY <2>1, Zenon DEF CopiesOK, ExclusiveAttempt
(* No worker moves, and the records they attempt are left alone. *)
<1>b. ASSUME UNCHANGED <<pc, cur, rec, ckpt>>,
             proc' \in {"down", "recovering"} => \A w \in Workers : pc[w] = "exited",
             \A w \in Workers : Attempting(w) => job'[cur[w]] = job[cur[w]]
      PROVE  CopiesOK' /\ ExclusiveAttempt'
  <2>1. ASSUME NEW w \in Workers PROVE CopyOK(w)' /\ (Attempting(w)' <=> Attempting(w))
    <3>1. CopyOK(w)
      BY <1>0 DEF CopiesOK
    <3> QED BY <1>b, <3>1, ZenonT(60) DEF CopyOK, Attempting, AttemptBudget
  <2>2. CopiesOK'
    BY <2>1, Zenon DEF CopiesOK
  <2>3. ExclusiveAttempt'
    BY <1>0, <1>b, <2>1 DEF ExclusiveAttempt
  <2> QED BY <2>2, <2>3
<1>c. \A w \in Workers : /\ Attempting(w) => cur[w] \in Jobs /\ job[cur[w]].state = "running"
                         /\ proc \in {"down", "recovering"} => pc[w] = "exited" /\ ~Attempting(w)
  BY <1>0 DEF CopiesOK, CopyOK, ExclusiveAttempt, Attempting, Holding
<1>1. CASE OpenStore \/ StartWorkers \/ StopExecutor \/ CloseStore \/ Crash
  <2>1. CASE OpenStore \/ StopExecutor \/ CloseStore
    <3>1. /\ UNCHANGED <<pc, cur, rec, ckpt, job>>
          /\ proc' \in {"down", "recovering"} => \A w \in Workers : pc[w] = "exited"
      BY <1>c, <2>1 DEF OpenStore, StopExecutor, CloseStore, storeVars, workerVars
    <3> QED BY <1>b, <3>1
  <2>2. CASE StartWorkers
    BY <1>a, <2>2 DEF StartWorkers
  <2>3. CASE Crash
    BY <1>a, <2>3 DEF Crash
  <2> QED BY <1>1, <2>1, <2>2, <2>3
<1>2. ASSUME NEW w \in Workers, NEW j \in Jobs, Recover(w, j) PROVE CopiesOK' /\ ExclusiveAttempt'
  <2>1. proc = "recovering" /\ UNCHANGED <<pc, cur, rec, ckpt, proc>>
    BY <1>2 DEF Recover, RecoverOneTxn, workerVars
  <2> QED BY <1>b, <1>c, <2>1
<1>3. ASSUME NEW j \in Jobs, Submit(j) PROVE CopiesOK' /\ ExclusiveAttempt'
  <2>1. /\ proc \notin {"down", "recovering"} /\ UNCHANGED <<pc, cur, rec, ckpt, proc>>
        /\ job[j].state = "absent" /\ \A k \in Jobs \ {j} : job'[k] = job[k]
    BY <1>0, <1>3 DEF Submit, CreateTxn, workerVars
  <2> QED BY <1>b, <1>c, <2>1
<1>4. ASSUME NEW j \in Jobs, TimePasses(j) PROVE CopiesOK' /\ ExclusiveAttempt'
  <2>1. /\ UNCHANGED <<pc, cur, rec, ckpt, proc>>
        /\ job[j].state = "queued" /\ \A k \in Jobs \ {j} : job'[k] = job[k]
    BY <1>0, <1>4 DEF TimePasses, BackoffElapses, workerVars
  <2> QED BY <1>b, <1>c, <2>1
<1>5. CASE UNCHANGED vars
  <2>1. UNCHANGED <<pc, cur, rec, ckpt, proc, job>>
    BY <1>5 DEF vars, storeVars, workerVars
  <2> QED BY <1>b, <1>c, <2>1
<1>6. ASSUME NEW w \in Workers, WorkerStep(w) PROVE CopiesOK' /\ ExclusiveAttempt'
  <2>a. ASSUME pc[w] \in {"resolve", "handle", "saveOk", "saveErr"}
        PROVE  /\ Attempting(w) /\ cur[w] \in Jobs /\ rec[w] \in JobRecord
               /\ rec[w].state = "running" /\ rec[w].completedAt = "zero"
               /\ rec[w].resumeToken = "id" => cur[w] \in ckpt
    BY <1>0, <2>a DEF CopiesOK, CopyOK, Attempting, Holding
  (* The handler starts, or returned with a checkpoint still to be saved. *)
  <2>b. ASSUME NEW label \in {"handle", "saveOk", "saveErr"}, pc[w] \in {"resolve", "handle"},
               Goto(w, label),
               UNCHANGED <<cur, rec, job, ckpt, proc>>
        PROVE  CopiesOK' /\ ExclusiveAttempt'
    <3>1. pc'[w] = label /\ (\A v \in Workers \ {w} : pc'[v] = pc[v])
      BY <1>0, <2>b DEF Goto
    <3>2. CopyOK(w) /\ Attempting(w)
      BY <1>0, <2>a, <2>b DEF CopiesOK
    <3>3. CopyOK(w)'
      BY <2>b, <3>1, <3>2 DEF CopyOK, Attempting, Holding
    <3> QED
      BY <1>0, <2>b, <3>1, <3>2, <3>3, OwnStep
  (* No attempt, or only its event is left to write. *)
  <2>c. ASSUME proc' = proc, ckpt' = ckpt, pc[w] # "exited",
               \A v \in Workers \ {w} : pc'[v] = pc[v] /\ cur'[v] = cur[v] /\ rec'[v] = rec[v],
               \A v \in Workers \ {w} : Attempting(v) => job'[cur[v]] = job[cur[v]],
               \/ pc'[w] \in {"exited", "loop", "claim"}
               \/ pc'[w] = "event" /\ pc[w] = "update" /\ cur' = cur /\ rec' = rec
        PROVE  CopiesOK' /\ ExclusiveAttempt'
    <3>1. CopyOK(w)
      BY <1>0 DEF CopiesOK
    <3>2. CopyOK(w)' /\ ~Attempting(w)'
      BY <2>c, <3>1 DEF CopyOK, Attempting, Holding
    <3> QED
      BY <1>0, <2>c, <3>2, OwnStep, Zenon
  <2>d. ASSUME EndAttempt(w)
        PROVE  /\ pc'[w] = "loop"
               /\ \A v \in Workers \ {w} : pc'[v] = pc[v] /\ cur'[v] = cur[v] /\ rec'[v] = rec[v]
    BY <1>0, <2>d DEF EndAttempt, Goto
  <2>1. CASE LoopTop(w) \/ ClaimNothing(w) \/ ClaimFails(w)
    <3>1. /\ pc[w] \in {"loop", "claim"} /\ UNCHANGED <<job, ckpt, proc, cur, rec>>
          /\ Goto(w, "exited") \/ Goto(w, "loop") \/ Goto(w, "claim")
      BY <2>1 DEF LoopTop, ClaimNothing, ClaimNothingTxn, ClaimFails, storeVars
    <3>2. /\ pc'[w] \in {"exited", "loop", "claim"}
          /\ \A v \in Workers \ {w} : pc'[v] = pc[v]
      BY <1>0, <3>1 DEF Goto
    <3> QED BY <2>c, <3>1, <3>2
  <2>2. ASSUME NEW j \in Jobs, ClaimOne(w, j) PROVE CopiesOK' /\ ExclusiveAttempt'
    <3>1. /\ pc[w] = "claim" /\ job[j].state = "queued" /\ ckpt' = ckpt /\ proc' = proc
          /\ job' = [job EXCEPT ![j] = Claimed(job[j])]
          /\ rec' = [rec EXCEPT ![w] = job'[j]]
      BY <2>2 DEF ClaimOne, ClaimTxn, Claimable
    <3>2. job[j].completedAt = "zero" /\ (job[j].resumeToken = "id" => j \in ckpt)
      BY <1>0, <3>1 DEF CompletedAtExact, ResumeTokenBacked, Terminal, JobRecord
    <3>3. /\ pc'[w] = "resolve" /\ cur'[w] = j /\ rec'[w] = job'[j]
          /\ job'[j] = Claimed(job[j])
          /\ \A k \in Jobs \ {j} : job'[k] = job[k]
          /\ \A v \in Workers \ {w} : pc'[v] = pc[v] /\ cur'[v] = cur[v] /\ rec'[v] = rec[v]
      BY <1>0, <2>2, <3>1 DEF ClaimOne, Goto
    <3>4. /\ rec'[w].state = "running" /\ rec'[w].completedAt = "zero"
          /\ rec'[w].resumeToken = "id" => j \in ckpt
      BY <1>0, <3>2, <3>3, ClaimedFields
    <3>5. CopyOK(w)
      BY <1>0 DEF CopiesOK
    <3>6. CopyOK(w)'
      BY <3>1, <3>3, <3>4, <3>5, ZenonT(60) DEF CopyOK, Attempting, Holding
    <3>7. CopiesOK' /\ (\A v \in Workers \ {w} : Attempting(v)' <=> Attempting(v))
      <4>1. ckpt \subseteq ckpt'
        BY <3>1
      <4> QED BY <1>0, <3>1, <3>3, <3>6, <4>1, OwnCopies, Zenon
    <3>8. ASSUME NEW v \in Workers \ {w}, Attempting(v)
          PROVE  cur[v] \in Jobs \ {j} /\ job[cur[v]].state = "running"
                 /\ job[cur[v]].attempt = rec[v].attempt
      BY <1>0, <3>1, <3>8 DEF ExclusiveAttempt, CopiesOK, CopyOK, Attempting, Holding
    <3>9. /\ \A v \in Workers \ {w} : Attempting(v)' => /\ cur'[v] # cur'[w]
                                                        /\ job'[cur'[v]].state = "running"
                                                        /\ job'[cur'[v]].attempt = rec'[v].attempt
          /\ \A u, v \in Workers \ {w} :
               Attempting(u)' /\ Attempting(v)' /\ cur'[u] = cur'[v] => u = v
      <4>1. \A u, v \in Workers : Attempting(u) /\ Attempting(v) /\ cur[u] = cur[v] => u = v
        BY <1>0 DEF ExclusiveAttempt
      <4> QED BY <3>3, <3>7, <3>8, <4>1
    <3> QED
      BY <3>3, <3>4, <3>7, <3>9 DEF ExclusiveAttempt
  <2>3. CASE HandleInterrupted(w)
    <3>1. pc[w] = "handle" /\ UNCHANGED <<job, ckpt, proc>> /\ EndAttempt(w)
      BY <2>3 DEF HandleInterrupted, storeVars
    <3> QED BY <2>c, <2>d, <3>1
  <2>5. CASE HandlerCheckpoint(w)
    <3>1. UNCHANGED <<pc, cur, rec, job, proc>> /\ ckpt \subseteq ckpt'
      BY <2>5 DEF HandlerCheckpoint, SaveCheckpointTxn, workerVars
    <3>2. CopyOK(w)
      BY <1>0 DEF CopiesOK
    <3>3. CopyOK(w)' /\ (Attempting(w)' <=> Attempting(w))
      BY <3>1, <3>2, ZenonT(60) DEF CopyOK, Attempting, AttemptBudget
    <3> QED BY <1>0, <3>1, <3>3, OwnStep
  <2>4. CASE Resolve(w)
    <3>1. pc[w] = "resolve" /\ UNCHANGED <<job, ckpt, proc>>
      BY <2>4 DEF Resolve, storeVars
    <3>2. CASE Goto(w, "handle") /\ UNCHANGED <<cur, rec>>
      BY <2>b, <3>1, <3>2
    <3>3. CASE Transition(w, GivenUp(rec[w]))
      BY <1>0, <2>a, <3>1, <3>3, FailFields, TransitionKeeps
    <3> QED BY <2>4, <3>2, <3>3 DEF Resolve
  <2>6. ASSUME NEW c \in BOOLEAN, HandleSucceeds(w, c) PROVE CopiesOK' /\ ExclusiveAttempt'
    <3>1. pc[w] = "handle" /\ UNCHANGED <<job, ckpt, proc>>
      BY <2>6 DEF HandleSucceeds, storeVars
    <3>2. CASE Goto(w, "saveOk") /\ UNCHANGED <<cur, rec>>
      BY <2>b, <3>1, <3>2
    <3>3. CASE Transition(w, Complete(rec[w]))
      BY <1>0, <2>a, <3>1, <3>3, CompleteFields, TransitionKeeps
    <3> QED BY <2>6, <3>2, <3>3 DEF HandleSucceeds
  <2>7. CASE SaveOnSuccess(w)
    <3>0. pc[w] = "saveOk" /\ UNCHANGED <<job, proc>> /\ ckpt \subseteq ckpt'
      BY <2>7 DEF SaveOnSuccess, SaveCheckpointTxn, storeVars
    <3>1. PICK r \in {Complete(rec[w]), GivenUp(rec[w])} : Transition(w, r)
      BY <2>7 DEF SaveOnSuccess
    <3>2. /\ r.attempt = rec[w].attempt /\ r.completedAt = "set"
          /\ r.state \in {"completed", "failed"}
          /\ r.resumeToken = rec[w].resumeToken
      <4>1. rec[w] \in JobRecord /\ cur[w] \in Jobs
        BY <2>a, <3>0
      <4>2. CASE r = Complete(rec[w])
        BY <4>1, <4>2, CompleteFields
      <4>3. CASE r = GivenUp(rec[w])
        BY <4>1, <4>3, FailFields
      <4> QED BY <4>2, <4>3
    <3> QED
      BY <1>0, <2>a, <3>0, <3>1, <3>2, TransitionKeeps
  <2>8. ASSUME NEW c \in BOOLEAN, HandleFails(w, c) PROVE CopiesOK' /\ ExclusiveAttempt'
    <3>1. pc[w] = "handle" /\ UNCHANGED <<job, ckpt, proc>>
      BY <2>8 DEF HandleFails, storeVars
    <3>2. CASE Goto(w, "saveErr") /\ UNCHANGED <<cur, rec>>
      BY <2>b, <3>1, <3>2
    <3>3. CASE Transition(w, Failed(cur[w], rec[w], ckpt))
      <4> DEFINE f == Failed(cur[w], rec[w], ckpt)
      <4>1. ckpt \in SUBSET Jobs
        BY <1>0 DEF TypeOK, StoreTypeOK
      <4>2. /\ f.attempt = rec[w].attempt
            /\ \/ /\ rec[w].attempt < AttemptBudget(cur[w])
                  /\ f.state = "queued" /\ f.completedAt = "zero"
               \/ f.state = "failed" /\ f.completedAt = "set"
            /\ f.resumeToken = "id" => cur[w] \in ckpt
        BY ZenonT(60), <2>a, <3>1, <4>1, FailFields
      <4>3. Transition(w, f)
        BY <3>3
      <4> HIDE DEF f
      <4> QED
        BY <1>0, <2>a, <3>1, <4>2, <4>3, TransitionKeeps
    <3> QED BY <2>8, <3>2, <3>3 DEF HandleFails
  <2>9. CASE SaveOnFailure(w)
    <3> DEFINE f == Failed(cur[w], rec[w], ckpt')
    <3>0. pc[w] = "saveErr" /\ UNCHANGED <<job, proc>> /\ ckpt \subseteq ckpt'
      BY ZenonT(60), <2>9 DEF SaveOnFailure, SaveCheckpointTxn, storeVars
    <3>1. ckpt' \in SUBSET Jobs
      BY <1>0, TypeStep DEF TypeOK, StoreTypeOK
    <3>2. /\ f.attempt = rec[w].attempt
          /\ \/ /\ rec[w].attempt < AttemptBudget(cur[w])
                /\ f.state = "queued" /\ f.completedAt = "zero"
             \/ f.state = "failed" /\ f.completedAt = "set"
          /\ f.resumeToken = "id" => cur[w] \in ckpt'
      BY ZenonT(60), <2>a, <3>0, <3>1, FailFields
    <3>3. Transition(w, f)
      BY <2>9 DEF SaveOnFailure
    <3> HIDE DEF f
    <3> QED
      BY <1>0, <2>a, <3>0, <3>2, <3>3, TransitionKeeps
  <2>10. CASE Update(w)
    <3>1. CASE CallCommits /\ UpdateTxn(cur[w], rec[w]) /\ Goto(w, "event") /\ UNCHANGED <<cur, rec>>
      <4>1. pc[w] = "update" /\ UNCHANGED <<ckpt, proc, cur, rec>>
        <5>1. pc[w] = "update" /\ UNCHANGED proc
          BY <2>10, Zenon DEF Update
        <5>2. UNCHANGED ckpt
          BY <3>1, Zenon DEF UpdateTxn
        <5> QED BY <3>1, <5>1, <5>2, Zenon
      <4>2. Attempting(w) /\ pc'[w] = "event" /\ (\A v \in Workers \ {w} : pc'[v] = pc[v])
        BY <1>0, <3>1, <4>1 DEF Goto, Attempting, Holding
      <4>3. \A v \in Workers \ {w} : Attempting(v) => cur[v] # cur[w]
        BY <1>0, <4>2 DEF ExclusiveAttempt
      <4>4. \A v \in Workers \ {w} : Attempting(v) => job'[cur[v]] = job[cur[v]]
        <5>1. \A k \in Jobs : k # cur[w] => job'[k] = job[k]
          BY <1>0, <3>1 DEF UpdateTxn
        <5>2. \A v \in Workers : Attempting(v) => cur[v] \in Jobs
          BY <1>0 DEF CopiesOK, CopyOK, Attempting
        <5> QED BY <4>3, <5>1, <5>2
      <4> QED BY <2>c, <4>1, <4>2, <4>4
    <3>2. CASE UNCHANGED storeVars /\ EndAttempt(w)
      <4>1. pc[w] = "update" /\ UNCHANGED <<job, ckpt, proc>>
        BY <2>10, <3>2 DEF Update, storeVars
      <4> QED BY <2>c, <2>d, <3>2, <4>1
    <3> QED BY <2>10, <3>1, <3>2 DEF Update
  <2>11. CASE LogEvent(w)
    <3>1. pc[w] = "event" /\ UNCHANGED <<job, ckpt, proc>> /\ EndAttempt(w)
      BY <2>11 DEF LogEvent, AppendEventTxn, storeVars
    <3> QED BY <2>c, <2>d, <3>1
  <2> QED
    BY ZenonT(60), <1>6, <2>1, <2>2, <2>3, <2>4, <2>5, <2>6, <2>7, <2>8, <2>9, <2>10, <2>11 DEF WorkerStep
<1> QED
  BY ZenonT(60), <1>1, <1>2, <1>3, <1>4, <1>5, <1>6 DEF Next

-----------------------------------------------------------------------------
(* The invariant holds initially. *)
LEMMA InitInv == Init => IInv
<1> SUFFICES ASSUME Init PROVE IInv
  OBVIOUS
<1>1. TypeOK
  <2>1. Absent \in JobRecord
    BY DEF Absent, JobRecord, States, Positions
  <2>2. StoreTypeOK
    BY <2>1 DEF Init, StoreInit, StoreTypeOK
  <2> QED BY <2>1, <2>2 DEF Init, TypeOK, PcSet
<1>2. CopiesOK /\ ExclusiveAttempt
  <2>1. \A w \in Workers : pc[w] = "exited"
    BY DEF Init
  <2> QED BY <2>1, ZenonT(60) DEF CopiesOK, CopyOK, ExclusiveAttempt, Attempting, Holding
<1>3. ReadyIndexExact /\ RunningIndexed /\ CompletedAtExact /\ ResumeTokenBacked /\ AbsentUntouched
  BY DEF Init, StoreInit, ReadyIndexExact, RunningIndexed, CompletedAtExact, ResumeTokenBacked,
     AbsentUntouched, Absent, Terminal
<1>4. BudgetRespected
  BY BudgetPositive DEF Init, StoreInit, BudgetRespected, Absent
<1> QED
  BY <1>1, <1>2, <1>3, <1>4, Zenon DEF IInv

(* Every step keeps the invariant. *)
LEMMA NextInv == IInv /\ [Next]_vars => IInv'
BY TypeStep, StoreInvStep, WorkerInvStep DEF IInv, StoreInv

(* The inductive invariant holds in every reachable state. *)
THEOREM Invariance == Spec => []IInv
BY InitInv, NextInv, PTL DEF Spec

(* Every variable keeps its type (TypeOK). *)
THEOREM TypeCorrect == Spec => []TypeOK
<1>1. IInv => TypeOK
  BY DEF IInv
<1> QED
  BY <1>1, Invariance, PTL

(* Claims are exclusive: no two workers attempt one job, and a worker's    *)
(* Update meets the record it was handed (Claim, runAttempt).              *)
THEOREM ClaimsExclusive == Spec => []ExclusiveAttempt
<1>1. IInv => ExclusiveAttempt
  BY DEF IInv
<1> QED
  BY <1>1, Invariance, PTL

(* The indexes and the records agree (Create, Claim, Update, recoverOne).  *)
THEOREM IndexesExact == Spec => []IndexExact
<1>1. IInv => IndexExact
  BY DEF IInv, IndexExact
<1> QED
  BY <1>1, Invariance, PTL

(* No job is claimed more often than its attempt budget allows, across     *)
(* retries, stops, crashes and recoveries.                                 *)
THEOREM BudgetKept == Spec => []BudgetRespected
<1>1. IInv => BudgetRespected
  BY DEF IInv
<1> QED
  BY <1>1, Invariance, PTL

(* CompletedAt marks exactly the terminal records.                         *)
THEOREM CompletedAtMarksTerminal == Spec => []CompletedAtExact
<1>1. IInv => CompletedAtExact
  BY DEF IInv
<1> QED
  BY <1>1, Invariance, PTL

(* A resume token points at a stored checkpoint (rule D6).                 *)
THEOREM ResumeTokensBacked == Spec => []ResumeTokenBacked
<1>1. IInv => ResumeTokenBacked
  BY DEF IInv
<1> QED
  BY <1>1, Invariance, PTL
=============================================================================
