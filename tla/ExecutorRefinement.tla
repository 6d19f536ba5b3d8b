------------------------ MODULE ExecutorRefinement --------------------------
(***************************************************************************)
(* Executor from one step to the next: a terminal record stays, no claim   *)
(* is left without a worker, the life cycle of a job is that of            *)
(* JobLifecycle, and each outcome has the cause the executor gives for it. *)
(***************************************************************************)
EXTENDS ExecutorProofs

(* The provers may take a minute for a leaf, and each leaf two attempts.   *)
USE SMTT(60), Z3T(60)

-----------------------------------------------------------------------------
(* The step that TerminalIsFinal speaks of. *)
TerminalKept == \A j \in Jobs : job[j].state \in Terminal => job'[j] = job[j]

(* No step of anyone changes a terminal record: Claim and recovery check   *)
(* the canonical state, and a worker about to Update holds a running one.  *)
LEMMA TerminalStep == IInv /\ [Next]_vars => TerminalKept
<1> SUFFICES ASSUME IInv, [Next]_vars PROVE TerminalKept
  OBVIOUS
<1>0. TypeOK /\ CopiesOK /\ ExclusiveAttempt /\ job \in [Jobs -> JobRecord]
  BY DEF IInv, TypeOK, StoreTypeOK
<1> USE DEF TerminalKept, Terminal
<1>1. CASE OpenStore \/ StartWorkers \/ StopExecutor \/ CloseStore \/ Crash
  BY ZenonT(60), <1>1 DEF OpenStore, StartWorkers, StopExecutor, CloseStore, Crash, storeVars
<1>2. ASSUME NEW w \in Workers, NEW j \in Jobs, Recover(w, j) PROVE TerminalKept
  BY <1>0, <1>2 DEF Recover, RecoverOneTxn
<1>3. ASSUME NEW j \in Jobs, Submit(j) PROVE TerminalKept
  BY <1>0, <1>3 DEF Submit, CreateTxn
<1>4. ASSUME NEW j \in Jobs, TimePasses(j) PROVE TerminalKept
  BY <1>0, <1>4 DEF TimePasses, BackoffElapses
<1>5. ASSUME NEW w \in Workers, WorkerStep(w) PROVE TerminalKept
  <2>1. ASSUME NEW j \in Jobs, ClaimOne(w, j) PROVE TerminalKept
    BY <1>0, <2>1 DEF ClaimOne, ClaimTxn, Claimable
  <2>2. CASE LoopTop(w) \/ ClaimNothing(w) \/ ClaimFails(w) \/ Resolve(w) \/ HandleInterrupted(w)
    BY ZenonT(60), <2>2 DEF LoopTop, ClaimNothing, ClaimNothingTxn, ClaimFails, Resolve, HandleInterrupted, storeVars
  <2>3. ASSUME NEW c \in BOOLEAN, HandleSucceeds(w, c) \/ HandleFails(w, c) PROVE TerminalKept
    BY ZenonT(60), <2>3 DEF HandleSucceeds, HandleFails, storeVars
  <2>4. CASE HandlerCheckpoint(w) \/ SaveOnSuccess(w) \/ SaveOnFailure(w) \/ LogEvent(w)
    BY ZenonT(60), <2>4 DEF HandlerCheckpoint, SaveOnSuccess, SaveOnFailure, LogEvent, SaveCheckpointTxn,
                AppendEventTxn, storeVars
  <2>5. CASE Update(w)
    <3>1. cur[w] \in Jobs /\ job[cur[w]].state = "running"
      BY <1>0, <2>5 DEF Update, CopiesOK, CopyOK, ExclusiveAttempt, Attempting, Holding
    <3> QED
      BY <1>0, <2>5, <3>1 DEF Update, UpdateTxn, storeVars
  <2> QED
    BY ZenonT(60), <1>5, <2>1, <2>2, <2>3, <2>4, <2>5 DEF WorkerStep
<1>6. CASE UNCHANGED vars
  BY <1>6 DEF vars, storeVars
<1> QED
  BY ZenonT(60), <1>1, <1>2, <1>3, <1>4, <1>5, <1>6 DEF Next

(* Terminal records never change again (TerminalIsFinal).                  *)
THEOREM TerminalForever == Spec => TerminalIsFinal
<1>1. IInv /\ [Next]_vars => [TerminalKept]_vars
  BY TerminalStep
<1>2. [][TerminalKept]_vars => TerminalIsFinal
  BY DEF TerminalKept, TerminalIsFinal
<1> QED
  BY <1>1, <1>2, Invariance, PTL DEF Spec

-----------------------------------------------------------------------------
(* The steps that write a job record. *)
LEMMA JobWriters ==
  [Next]_vars =>
    \/ job' = job
    \/ \E w \in Workers, j \in Jobs : Recover(w, j) \/ ClaimOne(w, j)
    \/ \E j \in Jobs : Submit(j) \/ TimePasses(j)
    \/ \E w \in Workers : Update(w)
BY ZenonT(60)
   DEF Next, WorkerStep, OpenStore, StartWorkers, StopExecutor, CloseStore, Crash, LoopTop,
       ClaimNothing, ClaimNothingTxn, ClaimFails, Resolve, HandleInterrupted, HandleSucceeds,
       HandleFails, HandlerCheckpoint, SaveOnSuccess, SaveOnFailure, LogEvent, SaveCheckpointTxn,
       AppendEventTxn, vars, storeVars

(* A worker's step leaves the other workers where they are. *)
LEMMA OthersStay ==
  ASSUME TypeOK, NEW v \in Workers, NEW w \in Workers, v # w, WorkerStep(v)
  PROVE  pc'[w] = pc[w] /\ cur'[w] = cur[w] /\ rec'[w] = rec[w]
BY ZenonT(60)
   DEF TypeOK, WorkerStep, LoopTop, ClaimOne, ClaimNothing, ClaimFails, Resolve, HandlerCheckpoint,
       HandleSucceeds, SaveOnSuccess, HandleInterrupted, HandleFails, SaveOnFailure, Update,
       LogEvent, Transition, EndAttempt, Goto, workerVars

(* Between Claim and Update the claimed record is a worker's, unless a     *)
(* fault or a handler's own cancellation cut the attempt short.            *)
OrphanInv ==
  proc = "running" /\ ~StoreFaults /\ ~ForeignCancel =>
    \A j \in Jobs : job[j].state = "running" => \E w \in Workers : Attempting(w) /\ cur[w] = j

(* OrphanInv is kept by every step: recovery has emptied the running index *)
(* before the workers start, and after that only Claim makes a record      *)
(* running and only the worker that claimed it lets go of it.              *)
LEMMA OrphanStep == IInv /\ OrphanInv /\ [Next]_vars => OrphanInv'
<1> SUFFICES ASSUME IInv, OrphanInv, [Next]_vars, proc' = "running", ~StoreFaults, ~ForeignCancel,
                    NEW j \in Jobs, job'[j].state = "running"
             PROVE  \E w \in Workers : Attempting(w)' /\ cur'[w] = j
  BY DEF OrphanInv
<1>0. /\ job \in [Jobs -> JobRecord] /\ pc \in [Workers -> PcSet]
      /\ cur \in [Workers -> Jobs \cup {NoJob}]
  BY DEF IInv, TypeOK, StoreTypeOK
<1>1. CASE proc # "running"
  <2>1. StartWorkers
    BY ZenonT(60), <1>1
       DEF Next, OpenStore, Recover, StopExecutor, CloseStore, Crash, Submit, TimePasses,
           WorkerStep, LoopTop, ClaimOne, ClaimNothing, ClaimFails, Resolve, HandlerCheckpoint,
           HandleSucceeds, SaveOnSuccess, HandleInterrupted, HandleFails, SaveOnFailure, Update,
           LogEvent, vars
  <2> QED
    BY <2>1 DEF StartWorkers, storeVars, IInv, RunningIndexed
<1>2. CASE proc = "running"
  <2>1. ASSUME NEW w \in Workers, ClaimOne(w, j) PROVE Attempting(w)' /\ cur'[w] = j
    BY <1>0, <2>1 DEF ClaimOne, Goto, Attempting, Holding
  <2>2. CASE ~ \E w \in Workers : ClaimOne(w, j)
    <3>1. job[j].state = "running"
      <4>1. ASSUME NEW w \in Workers, Update(w), cur[w] = j PROVE job'[j] = job[j]
        <5>1. rec[w].state # "running"
          BY <4>1 DEF Update, IInv, CopiesOK, CopyOK
        <5> QED
          BY <1>0, <4>1, <5>1 DEF Update, UpdateTxn, storeVars
      <4>2. ASSUME NEW w \in Workers, Update(w), cur[w] # j PROVE job'[j] = job[j]
        BY <1>0, <4>2 DEF Update, UpdateTxn, storeVars
      <4>3. ASSUME NEW w \in Workers, NEW k \in Jobs, Recover(w, k) PROVE FALSE
        BY <1>2, <4>3 DEF Recover
      <4>4. ASSUME NEW w \in Workers, NEW k \in Jobs, ClaimOne(w, k) PROVE job'[j] = job[j]
        BY ZenonT(60), <1>0, <2>2, <4>4 DEF ClaimOne, ClaimTxn
      <4>5. ASSUME NEW k \in Jobs, Submit(k) PROVE job'[j] = job[j]
        BY <1>0, <4>5 DEF Submit, CreateTxn, Absent
      <4>6. ASSUME NEW k \in Jobs, TimePasses(k) PROVE job'[j].state = job[j].state
        BY <1>0, <4>6 DEF TimePasses, BackoffElapses, JobRecord
      <4>7. job'[j].state = job[j].state
        BY JobWriters, <4>1, <4>2, <4>3, <4>4, <4>5, <4>6
      <4> QED
        BY <4>7
    <3>2. PICK w \in Workers : Attempting(w) /\ cur[w] = j
      BY <1>2, <3>1 DEF OrphanInv
    <3>3. CASE WorkerStep(w)
      <4>1. /\ ~LoopTop(w) /\ ~ClaimNothing(w) /\ ~ClaimFails(w) /\ ~LogEvent(w)
            /\ \A k \in Jobs : ~ClaimOne(w, k)
        BY <3>2 DEF LoopTop, ClaimNothing, ClaimFails, LogEvent, ClaimOne, Attempting, Holding
      <4>2. ~HandleInterrupted(w)
        BY <1>2 DEF HandleInterrupted, Cancelled
      <4>3. ~Update(w)
        <5> SUFFICES ASSUME Update(w) PROVE FALSE
          OBVIOUS
        <5>1. rec[w].state # "running"
          BY DEF Update, IInv, CopiesOK, CopyOK
        <5>2. UpdateTxn(cur[w], rec[w])
          BY <1>2 DEF Update, CallFails, Cancelled
        <5> QED
          BY <1>0, <3>2, <5>1, <5>2 DEF UpdateTxn
      <4>4. cur' = cur /\ pc' \in {[pc EXCEPT ![w] = l] : l \in {"handle", "saveOk", "saveErr", "update"}} \cup {pc}
        BY <3>3, <4>1, <4>2, <4>3
           DEF WorkerStep, Resolve, HandlerCheckpoint, HandleSucceeds, SaveOnSuccess, HandleFails, SaveOnFailure,
               Transition, Goto, workerVars
      <4> QED
        BY <1>0, <3>2, <4>4 DEF Attempting, Holding
    <3>4. CASE ~WorkerStep(w)
      <4>1. ~StartWorkers /\ ~Crash
        BY <1>2 DEF StartWorkers, Crash
      <4>2. pc'[w] = pc[w] /\ cur'[w] = cur[w]
        BY ZenonT(60), <3>4, <4>1, OthersStay
           DEF IInv, Next, OpenStore, Recover, StopExecutor, CloseStore, Submit, TimePasses, vars, workerVars
      <4> QED
        BY <3>2, <4>2 DEF Attempting
    <3> QED
      BY <3>3, <3>4
  <2> QED
    BY <2>1, <2>2
<1> QED
  BY <1>1, <1>2

(* A process that runs without store faults and without cancellations of   *)
(* the handlers' own works on every running record (executor.loop).        *)
THEOREM NothingOrphaned == Spec => []NoOrphan
<1>1. Init => OrphanInv
  BY DEF Init, OrphanInv
<1>2. OrphanInv => NoOrphan
  BY DEF OrphanInv, NoOrphan
<1> QED
  BY <1>1, <1>2, OrphanStep, Invariance, PTL DEF Spec

-----------------------------------------------------------------------------
(* What a step does to the state and the attempt count of every job, all   *)
(* that JobLifecycle sees: nothing, or one life-cycle move of one job.     *)
Moved(j) ==
  /\ \A k \in Jobs \ {j} : job'[k] = job[k]
  /\ job'[j] \in JobRecord
  /\ \/ /\ job[j].state = "absent" /\ job'[j].state = "queued"
        /\ job'[j].attempt = job[j].attempt
     \/ /\ job[j].state = "queued" /\ job'[j].state = "running"
        /\ job[j].attempt < AttemptBudget(j)
        /\ job'[j].attempt = job[j].attempt + 1
     \/ /\ job[j].state = "running" /\ job'[j].state = "queued"
        /\ job[j].attempt < AttemptBudget(j)
        /\ job'[j].attempt = job[j].attempt
     \/ /\ job[j].state = "running" /\ job'[j].state \in {"completed", "failed"}
        /\ job'[j].attempt = job[j].attempt

Unmoved ==
  \A j \in Jobs : job'[j].state = job[j].state /\ job'[j].attempt = job[j].attempt

(* A life-cycle move of the store is a step of JobLifecycle, and a step    *)
(* that moves no job is a stutter of it.                                   *)
LEMMA MovedIsLifeStep ==
  ASSUME NEW j \in Jobs, TypeOK, Moved(j)
  PROVE  Lifecycle!LifeNext
<1> DEFINE st == [k \in Jobs |-> job[k].state]
           tr == [k \in Jobs |-> job[k].attempt]
           stn == [k \in Jobs |-> job'[k].state]
           trn == [k \in Jobs |-> job'[k].attempt]
<1>1. /\ stn = [st EXCEPT ![j] = job'[j].state]
      /\ trn = [tr EXCEPT ![j] = job'[j].attempt]
  BY Zenon DEF Moved
<1>2. st[j] = job[j].state /\ tr[j] = job[j].attempt /\ tr[j] \in Nat
  BY DEF TypeOK, StoreTypeOK, JobRecord
<1>3. tr = [tr EXCEPT ![j] = job[j].attempt]
  OBVIOUS
<1>4. [k \in Jobs |-> AttemptBudget(k)][j] = AttemptBudget(j)
  OBVIOUS
<1> HIDE DEF st, tr, stn, trn
<1>5. CASE job[j].state = "absent"
  <2>1. Lifecycle!Enqueue(j)
    BY Zenon, <1>1, <1>2, <1>3, <1>5 DEF Moved, Lifecycle!Enqueue, st, tr, stn, trn
  <2> QED
    BY <2>1 DEF Lifecycle!LifeNext
<1>6. CASE job[j].state = "queued"
  <2>1. Lifecycle!Begin(j)
    BY ZenonT(60), <1>1, <1>2, <1>4, <1>6 DEF Moved, Lifecycle!Begin, st, tr, stn, trn
  <2> QED
    BY <2>1 DEF Lifecycle!LifeNext
<1>7. CASE job[j].state = "running" /\ job'[j].state = "queued"
  <2>1. Lifecycle!Requeue(j)
    BY <1>1, <1>2, <1>3, <1>4, <1>7 DEF Moved, Lifecycle!Requeue, st, tr, stn, trn
  <2> QED
    BY <2>1 DEF Lifecycle!LifeNext
<1>8. CASE job[j].state = "running" /\ job'[j].state # "queued"
  <2>1. CASE job'[j].state = "completed"
    <3>1. Lifecycle!Settle(j, "completed")
      BY <1>1, <1>2, <1>3, <1>8, <2>1 DEF Moved, Lifecycle!Settle, st, tr, stn, trn
    <3> QED
      BY <3>1 DEF Lifecycle!LifeNext
  <2>2. CASE job'[j].state = "failed"
    <3>1. Lifecycle!Settle(j, "failed")
      BY <1>1, <1>2, <1>3, <1>8, <2>2 DEF Moved, Lifecycle!Settle, st, tr, stn, trn
    <3> QED
      BY <3>1 DEF Lifecycle!LifeNext
  <2> QED
    BY <1>8, <2>1, <2>2 DEF Moved
<1> QED
  BY <1>5, <1>6, <1>7, <1>8 DEF Moved

(* Every step moves one job along its life cycle, or none. *)
LEMMA StepMoves == IInv /\ [Next]_vars => Unmoved \/ \E j \in Jobs : Moved(j)
<1> SUFFICES ASSUME IInv, [Next]_vars, ~Unmoved PROVE \E j \in Jobs : Moved(j)
  OBVIOUS
<1>0. /\ TypeOK /\ CopiesOK /\ ExclusiveAttempt /\ BudgetRespected
      /\ job \in [Jobs -> JobRecord]
      /\ \A j \in Jobs : job[j] \in JobRecord /\ job[j].attempt \in Nat
      /\ job' \in [Jobs -> JobRecord]
      /\ \A j \in Jobs : job'[j] \in JobRecord
  BY ZenonT(60), TypeStep DEF IInv, TypeOK, StoreTypeOK, JobRecord
<1>1. ASSUME NEW w \in Workers, NEW j \in Jobs, Recover(w, j) PROVE Moved(j)
  <2>1. CASE job[j].state = "running"
    <3>1. job' = [job EXCEPT ![j] = Interrupted(j)]
      BY <1>1, <2>1 DEF Recover, RecoverOneTxn
    <3> QED
      BY <1>0, <2>1, <3>1, InterruptedFields DEF Moved
  <2>2. CASE job[j].state # "running"
    BY <1>1, <2>2 DEF Recover, RecoverOneTxn, Unmoved
  <2> QED
    BY <2>1, <2>2
<1>2. ASSUME NEW j \in Jobs, Submit(j) PROVE Moved(j)
  <2> DEFINE r == [Absent EXCEPT !.state = "queued", !.created = Cardinality(correlated) + 1]
  <2>1. r.state = "queued" /\ r.attempt = 0
    BY DEF Absent
  <2>2. job' = [job EXCEPT ![j] = r] /\ job[j].state = "absent"
    BY <1>2 DEF Submit, CreateTxn
  <2>3. job[j].attempt = 0
    BY <1>0, <2>2 DEF IInv, AbsentUntouched
  <2> HIDE DEF r
  <2> QED
    BY <1>0, <2>1, <2>2, <2>3 DEF Moved
<1>3. ASSUME NEW j \in Jobs, TimePasses(j) PROVE FALSE
  <2> DEFINE r == [job[j] EXCEPT !.nextAttempt = "due"]
  <2>1. r.state = job[j].state /\ r.attempt = job[j].attempt
    BY <1>0 DEF JobRecord
  <2>2. job' = [job EXCEPT ![j] = r]
    BY <1>3 DEF TimePasses, BackoffElapses
  <2> HIDE DEF r
  <2> QED
    BY <1>0, <2>1, <2>2 DEF Unmoved
<1>4. ASSUME NEW w \in Workers, NEW j \in Jobs, ClaimOne(w, j) PROVE Moved(j)
  <2>1. job' = [job EXCEPT ![j] = Claimed(job[j])] /\ job[j].state = "queued"
    BY <1>4 DEF ClaimOne, ClaimTxn, Claimable
  <2>2. job[j].attempt < AttemptBudget(j)
    BY <1>0, <2>1 DEF BudgetRespected
  <2> QED
    BY <1>0, <2>1, <2>2, ClaimedFields DEF Moved
<1>5. ASSUME NEW w \in Workers, Update(w) PROVE cur[w] \in Jobs /\ Moved(cur[w])
  <2>1. /\ cur[w] \in Jobs /\ rec[w] \in JobRecord
        /\ job[cur[w]].state = "running" /\ rec[w].attempt = job[cur[w]].attempt
        /\ \/ rec[w].state = "queued" /\ rec[w].attempt < AttemptBudget(cur[w])
           \/ rec[w].state \in {"completed", "failed"}
    BY <1>0, <1>5 DEF Update, CopiesOK, CopyOK, ExclusiveAttempt, Attempting, Holding, TypeOK
  <2>2. job' = [job EXCEPT ![cur[w]] = rec[w]]
    BY ZenonT(60), <1>0, <1>5 DEF Update, UpdateTxn, storeVars, Unmoved
  <2> QED
    BY <1>0, <2>1, <2>2 DEF Moved
<1>6. ASSUME NEW w \in Workers, WorkerStep(w)
      PROVE  Update(w) \/ \E j \in Jobs : ClaimOne(w, j)
  BY ZenonT(60), <1>6 DEF WorkerStep, LoopTop, ClaimNothing, ClaimNothingTxn, ClaimFails, Resolve,
     HandleInterrupted, HandleSucceeds, HandleFails, HandlerCheckpoint, SaveOnSuccess,
     SaveOnFailure, LogEvent, SaveCheckpointTxn, AppendEventTxn, storeVars, Unmoved
<1>7. ~(OpenStore \/ StartWorkers \/ StopExecutor \/ CloseStore \/ Crash \/ UNCHANGED vars)
  BY DEF OpenStore, StartWorkers, StopExecutor, CloseStore, Crash, vars, storeVars, Unmoved
<1> QED
  BY <1>1, <1>2, <1>3, <1>4, <1>5, <1>6, <1>7 DEF Next

(* The store and the executor implement the life cycle of a job            *)
(* (ImplementsLifecycle).                                                  *)
THEOREM LifecycleImplemented == Spec => ImplementsLifecycle
<1>1. Init => Lifecycle!LifeInit
  BY DEF Init, StoreInit, Lifecycle!LifeInit, Absent
<1>2. IInv /\ [Next]_vars => [Lifecycle!LifeNext]_(Lifecycle!lifeVars)
  <2> SUFFICES ASSUME IInv, [Next]_vars PROVE [Lifecycle!LifeNext]_(Lifecycle!lifeVars)
    OBVIOUS
  <2>1. CASE Unmoved
    BY <2>1 DEF Unmoved, Lifecycle!lifeVars
  <2>2. ASSUME NEW j \in Jobs, Moved(j) PROVE Lifecycle!LifeNext
    BY <2>2, MovedIsLifeStep DEF IInv
  <2> QED
    BY <2>1, <2>2, StepMoves
<1> QED
  BY <1>1, <1>2, Invariance, PTL DEF Spec, ImplementsLifecycle, Lifecycle!LifeSpec

-----------------------------------------------------------------------------
(* What the copy a worker is about to write says of the outcome: a success *)
(* behind it was returned by the handler, a failure is one of the budget's *)
(* end; and what it is about to log is what it wrote.                      *)
CopyJustified(w) ==
  /\ pc[w] = "saveOk" => "succeeded" \in seen[cur[w]]
  /\ pc[w] = "update" /\ rec[w].state = "completed" => "succeeded" \in seen[cur[w]]
  /\ pc[w] = "update" /\ rec[w].state = "failed" /\ cur[w] \in Known =>
       rec[w].attempt = AttemptBudget(cur[w]) \/ "succeeded" \in seen[cur[w]]
  /\ pc[w] = "event" /\ rec[w].state = "completed" => job[cur[w]].state = "completed"

(* OutcomeJustified with what makes it inductive. *)
OutcomeInv == OutcomeJustified /\ \A w \in Workers : CopyJustified(w)

(* What handlers did is never forgotten. *)
LEMMA SeenGrows ==
  ASSUME TypeOK, CopiesOK, [Next]_vars
  PROVE  \A j \in Jobs : seen[j] \subseteq seen'[j]
<1>1. seen' = seen \/ \E w \in Workers, d \in Deeds : seen' = [seen EXCEPT ![cur[w]] = @ \cup {d}]
  BY ZenonT(60)
     DEF Next, OpenStore, Recover, StartWorkers, StopExecutor, CloseStore, Crash, Submit, TimePasses,
         WorkerStep, LoopTop, ClaimOne, ClaimNothing, ClaimFails, Resolve, HandlerCheckpoint,
         HandleSucceeds, SaveOnSuccess, HandleInterrupted, HandleFails, SaveOnFailure, Update,
         LogEvent, Note, vars, Deeds
<1> QED
  BY <1>1 DEF TypeOK

(* A worker that does not move keeps a justified copy: its handler's       *)
(* success stays noted and the completed record it wrote stays.            *)
LEMMA CopyStays ==
  ASSUME IInv, [Next]_vars, NEW w \in Workers, CopyJustified(w),
         pc'[w] = pc[w], cur'[w] = cur[w], rec'[w] = rec[w]
  PROVE  CopyJustified(w)'
<1>1. pc[w] \in Holding => cur[w] \in Jobs
  BY DEF IInv, CopiesOK, CopyOK
<1>2. \A j \in Jobs : /\ seen[j] \subseteq seen'[j]
                      /\ job[j].state = "completed" => job'[j].state = "completed"
  BY SeenGrows, TerminalStep DEF IInv, TerminalKept, Terminal
<1> QED
  BY <1>1, <1>2 DEF CopyJustified, Holding, AttemptBudget

(* A worker's own step leaves it with a justified copy. *)
LEMMA CopyStep ==
  ASSUME IInv, OutcomeInv, [Next]_vars, NEW w \in Workers, WorkerStep(w)
  PROVE  CopyJustified(w)'
<1>0. /\ pc \in [Workers -> PcSet] /\ cur \in [Workers -> Jobs \cup {NoJob}]
      /\ rec \in [Workers -> JobRecord] /\ rec[w] \in JobRecord
      /\ seen \in [Jobs -> SUBSET Deeds] /\ ckpt \in SUBSET Jobs /\ ckpt' \in SUBSET Jobs
      /\ pc[w] \in Holding => cur[w] \in Jobs
  BY Zenon, TypeStep DEF IInv, TypeOK, StoreTypeOK, CopiesOK, CopyOK
<1>1. CASE pc'[w] \notin {"saveOk", "update", "event"}
  BY <1>1 DEF CopyJustified
<1>2. CASE HandlerCheckpoint(w)
  BY <1>2, CopyStays DEF HandlerCheckpoint, workerVars, OutcomeInv
<1>3. CASE Resolve(w)
  <2>1. CASE cur[w] \in Known
    BY <1>0, <1>1, <1>3, <2>1 DEF Resolve, Goto
  <2>2. CASE cur[w] \notin Known
    <3>1. GivenUp(rec[w]).state = "failed"
      BY <1>0, <1>3, FailFields DEF Resolve, Holding
    <3>2. pc'[w] = "update" /\ rec'[w] = GivenUp(rec[w]) /\ cur' = cur
      BY <1>0, <1>3, <2>2 DEF Resolve, Transition, Goto
    <3> QED
      BY <2>2, <3>1, <3>2 DEF CopyJustified
  <2> QED
    BY <2>1, <2>2
<1>4. ASSUME NEW c \in BOOLEAN, HandleSucceeds(w, c) PROVE CopyJustified(w)'
  <2>1. "succeeded" \in seen'[cur[w]] /\ cur' = cur
    BY <1>0, <1>4 DEF HandleSucceeds, Note, Transition, Holding
  <2>2. pc'[w] \in {"saveOk", "update"} /\ (pc'[w] = "update" => rec'[w] = Complete(rec[w]))
    BY <1>0, <1>4 DEF HandleSucceeds, Transition, Goto
  <2>3. Complete(rec[w]).state = "completed"
    BY <1>0, CompleteFields
  <2> QED
    BY <2>1, <2>2, <2>3 DEF CopyJustified
<1>5. CASE SaveOnSuccess(w)
  <2>1. "succeeded" \in seen[cur[w]] /\ seen' = seen
    BY <1>5 DEF OutcomeInv, CopyJustified, SaveOnSuccess
  <2>2. pc'[w] = "update" /\ cur' = cur
    BY <1>0, <1>5 DEF SaveOnSuccess, Transition, Goto
  <2> QED
    BY <2>1, <2>2 DEF CopyJustified
<1>6. ASSUME NEW stored \in SUBSET Jobs, pc[w] \in {"handle", "saveErr"},
             Transition(w, Failed(cur[w], rec[w], stored))
      PROVE  CopyJustified(w)'
  <2>1. pc'[w] = "update" /\ cur' = cur /\ rec'[w] = Failed(cur[w], rec[w], stored) /\ cur[w] \in Jobs
    BY <1>0, <1>6 DEF Transition, Goto, Holding
  <2>2. rec[w].attempt \in Nat /\ rec[w].attempt <= AttemptBudget(cur[w])
    <3>1. /\ job[cur[w]].attempt = rec[w].attempt
          /\ job[cur[w]].attempt <= AttemptBudget(cur[w])
      BY <1>6, <2>1 DEF IInv, ExclusiveAttempt, Attempting, Holding, BudgetRespected
    <3> QED
      BY <1>0, <3>1 DEF JobRecord
  <2>3. AttemptBudget(cur[w]) \in Nat
    BY <2>1, BudgetPositive
  <2>4. /\ rec'[w].attempt = rec[w].attempt
        /\ \/ rec'[w].state = "queued"
           \/ rec'[w].state = "failed" /\ rec[w].attempt = AttemptBudget(cur[w])
    <3> DEFINE f == Failed(cur[w], rec[w], stored)
    <3>1. /\ f.attempt = rec[w].attempt
          /\ \/ f.state = "queued"
             \/ f.state = "failed" /\ ~(rec[w].attempt < AttemptBudget(cur[w]))
      <4>1. cur[w] \in Jobs /\ rec[w] \in JobRecord
        BY <1>0, <2>1
      <4> QED
        BY ZenonT(60), <4>1, FailFields
    <3>2. rec'[w] = f
      BY <2>1
    <3> HIDE DEF f
    <3> QED
      BY <2>2, <2>3, <3>1, <3>2
  <2> QED
    BY <2>1, <2>4 DEF CopyJustified, AttemptBudget
<1>7. ASSUME NEW c \in BOOLEAN, HandleFails(w, c) PROVE CopyJustified(w)'
  <2>1. CASE c
    BY <1>0, <1>1, <1>7, <2>1 DEF HandleFails, Goto
  <2>2. CASE ~c
    BY <1>0, <1>6, <1>7, <2>2 DEF HandleFails
  <2> QED
    BY <2>1, <2>2
<1>8. CASE SaveOnFailure(w)
  BY <1>0, <1>6, <1>8 DEF SaveOnFailure
<1>9. CASE Update(w)
  <2>1. CASE pc'[w] = "loop"
    BY <1>1, <2>1
  <2>2. CASE UpdateTxn(cur[w], rec[w]) /\ Goto(w, "event") /\ UNCHANGED <<cur, rec>>
    <3>1. pc'[w] = "event" /\ job'[cur[w]] = rec[w]
      <4>1. pc[w] = "update"
        BY <1>9, Zenon DEF Update
      <4>2. cur[w] \in Jobs /\ pc'[w] = "event"
        BY <1>0, <2>2, <4>1 DEF Goto, Holding
      <4>3. job' = [job EXCEPT ![cur[w]] = rec[w]] /\ job \in [Jobs -> JobRecord]
        BY <2>2, Zenon DEF UpdateTxn, IInv, TypeOK, StoreTypeOK
      <4> QED BY <4>2, <4>3
    <3> QED
      BY <2>2, <3>1 DEF CopyJustified
  <2> QED
    BY <1>0, <1>9, <2>1, <2>2 DEF Update, EndAttempt, Goto
<1>10. CASE \/ LoopTop(w) \/ (\E j \in Jobs : ClaimOne(w, j)) \/ ClaimNothing(w) \/ ClaimFails(w)
            \/ HandleInterrupted(w) \/ LogEvent(w)
  <2>1. Goto(w, "exited") \/ Goto(w, "loop") \/ Goto(w, "claim") \/ Goto(w, "resolve")
    BY <1>10, ZenonT(60)
       DEF LoopTop, ClaimOne, ClaimNothing, ClaimFails, HandleInterrupted, LogEvent, EndAttempt
  <2>2. pc'[w] \in {"exited", "loop", "claim", "resolve"}
    BY <1>0, <2>1 DEF Goto
  <2> QED BY <1>1, <2>2
<1> QED
  BY ZenonT(60), <1>2, <1>3, <1>4, <1>5, <1>7, <1>8, <1>9, <1>10 DEF WorkerStep

(* The justification of the records. *)
RecordJustified(j) ==
  /\ job[j].state = "completed" => "succeeded" \in seen[j]
  /\ j \in Known /\ job[j].state = "failed" =>
       job[j].attempt = AttemptBudget(j) \/ "succeeded" \in seen[j]

(* A completed event is only logged for a completed record. *)
LogJustified(j) ==
  \A i \in 1..Len(events[j]) :
    events[j][i].type = "completed" => job[j].state = "completed"

(* The records stay justified: recovery gives a job up only at the end of  *)
(* its budget, and Update writes a justified copy.                         *)
LEMMA RecordStep ==
  ASSUME IInv, OutcomeInv, [Next]_vars
  PROVE  \A j \in Jobs : RecordJustified(j)'
<1>0. /\ job \in [Jobs -> JobRecord] /\ \A j \in Jobs : job[j] \in JobRecord /\ job[j].attempt \in Nat
      /\ \A j \in Jobs : seen[j] \subseteq seen'[j]
      /\ \A j \in Jobs : RecordJustified(j)
  BY SeenGrows, KnownAssumption
     DEF IInv, TypeOK, StoreTypeOK, JobRecord, OutcomeInv, OutcomeJustified, CompletionJustified,
         FailureJustified, RecordJustified
<1>1. ASSUME NEW j \in Jobs, job'[j].state = job[j].state, job'[j].attempt = job[j].attempt
      PROVE  RecordJustified(j)'
  BY <1>0, <1>1 DEF RecordJustified, AttemptBudget
<1>2. ASSUME NEW j \in Jobs, job'[j].state \notin {"completed", "failed"}
      PROVE  RecordJustified(j)'
  BY <1>2 DEF RecordJustified
<1>3. ASSUME NEW w \in Workers, NEW j \in Jobs, Recover(w, j)
      PROVE  \A k \in Jobs : RecordJustified(k)'
  <2>1. CASE job[j].state = "running"
    <3>1. job' = [job EXCEPT ![j] = Interrupted(j)]
      BY <1>3, <2>1 DEF Recover, RecoverOneTxn
    <3>2. /\ Interrupted(j).attempt = job[j].attempt
          /\ Interrupted(j).state = "queued"
             \/ (Interrupted(j).state = "failed" /\ ~(job[j].attempt < AttemptBudget(j)))
      BY InterruptedFields DEF IInv
    <3>3. job[j].attempt <= AttemptBudget(j) /\ AttemptBudget(j) \in Nat
      BY BudgetPositive DEF IInv, BudgetRespected
    <3>4. job'[j].state = "queued" \/ (job'[j].state = "failed" /\ job'[j].attempt = AttemptBudget(j))
      BY <1>0, <3>1, <3>2, <3>3
    <3>5. RecordJustified(j)'
      BY <3>4 DEF RecordJustified, AttemptBudget
    <3> QED
      BY <1>0, <1>1, <3>1, <3>5
  <2>2. CASE job[j].state # "running"
    BY <1>1, <1>3, <2>2 DEF Recover, RecoverOneTxn
  <2> QED
    BY <2>1, <2>2
<1>4. ASSUME NEW w \in Workers, Update(w)
      PROVE  \A k \in Jobs : RecordJustified(k)'
  <2>0. cur[w] \in Jobs /\ pc[w] = "update" /\ seen' = seen
    BY <1>4 DEF Update, IInv, CopiesOK, CopyOK, Holding
  <2>1. CASE job' = job
    BY <1>1, <2>1
  <2>2. CASE job' = [job EXCEPT ![cur[w]] = rec[w]]
    <3>1. CopyJustified(w) /\ job'[cur[w]] = rec[w]
      BY <1>0, <2>0, <2>2 DEF OutcomeInv
    <3>2. ASSUME NEW k \in Jobs, k = cur[w] PROVE RecordJustified(k)'
      BY <2>0, <3>1, <3>2 DEF CopyJustified, RecordJustified, AttemptBudget
    <3> QED
      BY <1>0, <1>1, <2>0, <2>2, <3>2
  <2> QED
    BY ZenonT(60), <1>4, <2>1, <2>2 DEF Update, UpdateTxn, storeVars
<1>5. ASSUME NEW j \in Jobs, NEW r, job' = [job EXCEPT ![j] = r], r.state = "queued" \/ r.state = "running"
      PROVE  \A k \in Jobs : RecordJustified(k)'
  BY <1>0, <1>1, <1>2, <1>5
<1>6. ASSUME NEW j \in Jobs, Submit(j) PROVE \A k \in Jobs : RecordJustified(k)'
  BY ZenonT(60), <1>5, <1>6 DEF Submit, CreateTxn, Absent
<1>7. ASSUME NEW j \in Jobs, TimePasses(j) PROVE \A k \in Jobs : RecordJustified(k)'
  <2>1. [job[j] EXCEPT !.nextAttempt = "due"].state = "queued"
    BY <1>0, <1>7 DEF TimePasses, BackoffElapses, JobRecord
  <2> QED
    BY ZenonT(60), <1>5, <1>7, <2>1 DEF TimePasses, BackoffElapses
<1>8. ASSUME NEW w \in Workers, NEW j \in Jobs, ClaimOne(w, j) PROVE \A k \in Jobs : RecordJustified(k)'
  BY ZenonT(60), <1>0, <1>5, <1>8, ClaimedFields DEF ClaimOne, ClaimTxn
<1>9. CASE job' = job
  BY <1>1, <1>9
<1> QED
  BY Zenon, <1>3, <1>4, <1>6, <1>7, <1>8, <1>9, JobWriters

(* The events stay justified: recovery logs no completion, and a worker    *)
(* logs the record it has written.                                         *)
LEMMA LogStep ==
  ASSUME IInv, OutcomeInv, [Next]_vars
  PROVE  \A j \in Jobs : LogJustified(j)'
<1>0. /\ events \in [Jobs -> Seq(EventRecord)] /\ \A j \in Jobs : events[j] \in Seq(EventRecord)
      /\ \A j \in Jobs : job[j].state = "completed" => job'[j].state = "completed"
      /\ \A j \in Jobs : LogJustified(j)
  BY TerminalStep
     DEF IInv, TypeOK, StoreTypeOK, OutcomeInv, OutcomeJustified, CompletionJustified, LogJustified,
         TerminalKept, Terminal
<1>1. ASSUME NEW j \in Jobs, events'[j] = events[j] PROVE LogJustified(j)'
  BY <1>0, <1>1 DEF LogJustified
<1>2. ASSUME NEW w \in Workers, NEW j \in Jobs, Recover(w, j)
      PROVE  \A k \in Jobs : LogJustified(k)'
  <2>1. CASE job[j].state = "running"
    <3>1. events' = [events EXCEPT ![j] = events[j] \o InterruptedEvents(j)]
      BY <1>2, <2>1 DEF Recover, RecoverOneTxn
    <3>2. /\ InterruptedEvents(j) \in Seq(EventRecord)
          /\ \A i \in 1..Len(InterruptedEvents(j)) : InterruptedEvents(j)[i].type # "completed"
      BY InterruptedEventsType DEF InterruptedEvents
    <3>3. \A s, t \in Seq(EventRecord) : \A i \in 1..Len(s \o t) :
             \/ i \in 1..Len(s) /\ (s \o t)[i] = s[i]
             \/ \E k \in 1..Len(t) : (s \o t)[i] = t[k]
      <4> SUFFICES ASSUME NEW s \in Seq(EventRecord), NEW t \in Seq(EventRecord),
                          NEW i \in 1..Len(s \o t), i \notin 1..Len(s)
                   PROVE  i - Len(s) \in 1..Len(t) /\ (s \o t)[i] = t[i - Len(s)]
        OBVIOUS
      <4> QED
        OBVIOUS
    <3>4. events'[j] = events[j] \o InterruptedEvents(j)
      BY <1>0, <3>1
    <3>5. LogJustified(j)'
      <4> SUFFICES ASSUME NEW i \in 1..Len(events[j] \o InterruptedEvents(j)),
                          (events[j] \o InterruptedEvents(j))[i].type = "completed"
                   PROVE  job'[j].state = "completed"
        BY <3>4 DEF LogJustified
      <4>1. \/ i \in 1..Len(events[j]) /\ (events[j] \o InterruptedEvents(j))[i] = events[j][i]
            \/ \E k \in 1..Len(InterruptedEvents(j)) :
                 (events[j] \o InterruptedEvents(j))[i] = InterruptedEvents(j)[k]
        BY Zenon, <1>0, <3>2, <3>3
      <4> QED
        BY Zenon, <1>0, <3>2, <4>1 DEF LogJustified
    <3> QED
      BY <1>0, <1>1, <3>1, <3>5
  <2>2. CASE job[j].state # "running"
    BY <1>1, <1>2, <2>2 DEF Recover, RecoverOneTxn
  <2> QED
    BY <2>1, <2>2
<1>3. ASSUME NEW w \in Workers, LogEvent(w)
      PROVE  \A k \in Jobs : LogJustified(k)'
  <2>0. cur[w] \in Jobs /\ pc[w] = "event"
    BY <1>3 DEF LogEvent, IInv, CopiesOK, CopyOK, Holding
  <2>1. CASE events' = events
    BY <1>1, <2>1
  <2>2. CASE job' = job /\ events' = [events EXCEPT ![cur[w]] = Append(events[cur[w]], EventOf(rec[w]))]
    <3>1. EventOf(rec[w]).type = "completed" => job[cur[w]].state = "completed"
      BY <2>0 DEF OutcomeInv, CopyJustified, EventOf
    <3>2. ASSUME NEW k \in Jobs, k = cur[w] PROVE LogJustified(k)'
      <4> DEFINE e == EventOf(rec[w])
      <4>1. events'[k] = Append(events[k], e)
        BY <1>0, <2>2, <3>2
      <4> HIDE DEF e
      <4>2. \A i \in 1..Len(events'[k]) : events'[k][i] = e \/ (i \in 1..Len(events[k]) /\ events'[k][i] = events[k][i])
        BY <1>0, <4>1
      <4> QED
        BY <1>0, <2>2, <3>1, <3>2, <4>2 DEF LogJustified, e
    <3> QED
      BY <1>0, <1>1, <2>0, <2>2, <3>2
  <2> QED
    BY ZenonT(60), <1>3, <2>1, <2>2 DEF LogEvent, AppendEventTxn, storeVars
<1>4. CASE events' = events
  BY <1>1, <1>4
<1>5. \/ events' = events
      \/ \E w \in Workers, j \in Jobs : Recover(w, j)
      \/ \E w \in Workers : LogEvent(w)
  BY ZenonT(60)
     DEF Next, WorkerStep, OpenStore, StartWorkers, StopExecutor, CloseStore, Crash, Submit, TimePasses,
         CreateTxn, BackoffElapses, LoopTop, ClaimOne, ClaimTxn, ClaimNothing, ClaimNothingTxn,
         ClaimFails, Resolve, HandleInterrupted, HandleSucceeds, HandleFails, HandlerCheckpoint,
         SaveOnSuccess, SaveOnFailure, Update, UpdateTxn, SaveCheckpointTxn, vars, storeVars
<1> QED
  BY Zenon, <1>2, <1>3, <1>4, <1>5

(* OutcomeInv holds at first and is kept by every step. *)
LEMMA OutcomeStep == /\ Init => OutcomeInv
                     /\ IInv /\ OutcomeInv /\ [Next]_vars => OutcomeInv'
<1>1. Init => OutcomeInv
  BY KnownAssumption
     DEF Init, StoreInit, Absent, OutcomeInv, OutcomeJustified, CompletionJustified, FailureJustified, CopyJustified
<1>2. ASSUME IInv, OutcomeInv, [Next]_vars PROVE OutcomeInv'
  <2>1. OutcomeJustified'
    BY <1>2, KnownAssumption, RecordStep, LogStep
       DEF OutcomeJustified, CompletionJustified, FailureJustified, RecordJustified, LogJustified
  <2>2. ASSUME NEW w \in Workers PROVE CopyJustified(w)'
    <3>1. CASE WorkerStep(w)
      BY <1>2, <3>1, CopyStep
    <3>2. CASE pc'[w] = pc[w] /\ cur'[w] = cur[w] /\ rec'[w] = rec[w]
      BY <1>2, <3>2, CopyStays DEF OutcomeInv
    <3>3. CASE pc'[w] \notin {"saveOk", "update", "event"}
      BY <3>3 DEF CopyJustified
    <3>4. CASE StartWorkers \/ Crash
      BY <3>3, <3>4 DEF StartWorkers, Crash
    <3> QED
      BY ZenonT(60), <1>2, <3>1, <3>2, <3>4, OthersStay
         DEF IInv, Next, OpenStore, Recover, StopExecutor, CloseStore, Submit, TimePasses, vars, workerVars
  <2> QED
    BY <2>1, <2>2 DEF OutcomeInv
<1> QED
  BY <1>1, <1>2

(* A job ends for a reason: completed after a success its handler returned *)
(* and failed, of a known kind, at the end of its budget or because the    *)
(* checkpoint of a success was lost (runAttempt, fail, recoverOne).        *)
THEOREM OutcomesJustified == Spec => []OutcomeJustified
<1>1. OutcomeInv => OutcomeJustified
  BY DEF OutcomeInv
<1> QED
  BY <1>1, OutcomeStep, Invariance, PTL DEF Spec

=============================================================================
