------------------------------ MODULE Executor ------------------------------
(***************************************************************************)
(* The runner's worker pool (ayenitd/executor.go) over the durable store,  *)
(* with the process life around it: Open and its recovery pass, the clean  *)
(* stop that cancels the run context and joins the workers, and crashes.   *)
(*                                                                         *)
(* Each worker is one goroutine of executor.loop; a step of it is one      *)
(* store transaction or one return of the handler, so two workers, the     *)
(* stop and a crash interleave everywhere the code lets them.  A store     *)
(* call whose context is cancelled fails without a transaction             *)
(* (retryTxnCtx); with StoreFaults it may also fail on its own.  Checking  *)
(* the context and committing is one step: a commit that races the         *)
(* cancellation is the same as one just before it.                         *)
(***************************************************************************)
EXTENDS JobStore

CONSTANTS
  Known,          \* jobs whose Spec.Kind has a registered handler
  StoreFaults,    \* may a store transaction fail (I/O, conflict retries)?
  ForeignCancel,  \* may a handler return a cancellation error of its own?
  Crashes         \* may the process die?

ASSUME KnownAssumption == Known \subseteq Jobs
ASSUME SwitchAssumption ==
  StoreFaults \in BOOLEAN /\ ForeignCancel \in BOOLEAN /\ Crashes \in BOOLEAN

VARIABLES
  proc,           \* the runner process: down, recovering, running, stopping
  pc,             \* where each worker is in loop / runAttempt / fail
  cur,            \* the id of the claimed job of each worker (NoJob: none)
  rec,            \* the worker's own copy of that job's record
  seen            \* history: what the handler did on each job

NoJob == "no job"

ASSUME NoJobAssumption == NoJob \notin Jobs

workerVars == <<pc, cur, rec>>
vars == <<storeVars, proc, workerVars, seen>>

Holding == {"resolve", "handle", "saveOk", "saveErr", "update", "event"}
PcSet == {"exited", "loop", "claim"} \cup Holding
Deeds == {"delivered", "succeeded"}

(* Every variable ranges over its type. *)
TypeOK ==
  /\ StoreTypeOK
  /\ proc \in {"down", "recovering", "running", "stopping"}
  /\ pc \in [Workers -> PcSet]
  /\ cur \in [Workers -> Jobs \cup {NoJob}]
  /\ rec \in [Workers -> JobRecord]
  /\ seen \in [Jobs -> SUBSET Deeds]

Init ==
  /\ StoreInit
  /\ proc = "down"
  /\ pc = [w \in Workers |-> "exited"]
  /\ cur = [w \in Workers |-> NoJob]
  /\ rec = [w \in Workers |-> Absent]
  /\ seen = [j \in Jobs |-> {}]

(* ctx.Err() # nil for the executor's run context. *)
Cancelled == proc = "stopping"

(* A store call made under the run context may commit / may fail. *)
CallCommits == ~Cancelled
CallFails == Cancelled \/ StoreFaults

Goto(w, label) == pc' = [pc EXCEPT ![w] = label]

Note(j, deed) == seen' = [seen EXCEPT ![j] = @ \cup {deed}]

(* End of runAttempt: back to the loop, the job copy is dropped. *)
EndAttempt(w) ==
  /\ Goto(w, "loop")
  /\ cur' = [cur EXCEPT ![w] = NoJob]
  /\ rec' = [rec EXCEPT ![w] = Absent]

-----------------------------------------------------------------------------
(* The process. *)

(* Open takes the directory lock and starts the recovery pass. *)
OpenStore ==
  /\ proc = "down"
  /\ proc' = "recovering"
  /\ UNCHANGED <<storeVars, workerVars, seen>>

Recover(w, j) ==
  /\ proc = "recovering"
  /\ RecoverOneTxn(w, j)
  /\ UNCHANGED <<proc, workerVars, seen>>

(* A slip: the workers start before the recovery pass has finished. *)
StartBeforeRecovery ==
  /\ proc = "recovering"
  /\ proc' = "running"
  /\ pc' = [w \in Workers |-> "loop"]
  /\ UNCHANGED <<storeVars, cur, rec, seen>>

(* Recovery is done: executor.Start launches one loop per worker. *)
StartWorkers ==
  /\ proc = "recovering"
  /\ windex = {}
  /\ proc' = "running"
  /\ pc' = [w \in Workers |-> "loop"]
  /\ UNCHANGED <<storeVars, cur, rec, seen>>

(* SIGTERM or SIGINT: executor.Stop cancels the run context... *)
StopExecutor ==
  /\ proc = "running"
  /\ proc' = "stopping"
  /\ UNCHANGED <<storeVars, workerVars, seen>>

(* ...and joins the workers; then the store is closed. *)
CloseStore ==
  /\ proc = "stopping"
  /\ \A w \in Workers : pc[w] = "exited"
  /\ proc' = "down"
  /\ UNCHANGED <<storeVars, workerVars, seen>>

(* The process dies: the transactions committed so far survive. *)
Crash ==
  /\ Crashes
  /\ proc # "down"
  /\ proc' = "down"
  /\ pc' = [w \in Workers |-> "exited"]
  /\ cur' = [w \in Workers |-> NoJob]
  /\ rec' = [w \in Workers |-> Absent]
  /\ UNCHANGED <<storeVars, seen>>

(* The spool watcher ingests a submission; it outlives the executor's stop. *)
Submit(j) ==
  /\ proc \in {"running", "stopping"}
  /\ CreateTxn(j)
  /\ UNCHANGED <<proc, workerVars, seen>>

TimePasses(j) ==
  /\ BackoffElapses(j)
  /\ UNCHANGED <<proc, workerVars, seen>>

-----------------------------------------------------------------------------
(* The worker loop. *)

LoopTop(w) ==
  /\ pc[w] = "loop"
  /\ Goto(w, IF Cancelled THEN "exited" ELSE "claim")
  /\ UNCHANGED <<storeVars, proc, cur, rec, seen>>

ClaimOne(w, j) ==
  /\ pc[w] = "claim"
  /\ CallCommits
  /\ ClaimTxn(w, j)
  /\ Goto(w, "resolve")
  /\ cur' = [cur EXCEPT ![w] = j]
  /\ rec' = [rec EXCEPT ![w] = job'[j]]
  /\ UNCHANGED <<proc, seen>>

ClaimNothing(w) ==
  /\ pc[w] = "claim"
  /\ CallCommits
  /\ ClaimNothingTxn
  /\ Goto(w, "loop")
  /\ UNCHANGED <<proc, cur, rec, seen>>

ClaimFails(w) ==
  /\ pc[w] = "claim"
  /\ CallFails
  /\ Goto(w, "loop")
  /\ UNCHANGED <<storeVars, proc, cur, rec, seen>>

-----------------------------------------------------------------------------
(* runAttempt. *)

(* A slip: the resume token is set whether or not a checkpoint is stored. *)
RequeuedAlwaysResumable(j, r, stored) ==
  [r EXCEPT !.state = "queued", !.nextAttempt = "later", !.resumeToken = "id"]

(* fail() with a retry: back to queued behind the backoff, with a resume   *)
(* token when a checkpoint is stored.                                      *)
Requeued(j, r, stored) ==
  [r EXCEPT !.state = "queued", !.nextAttempt = "later",
            !.resumeToken = IF j \in stored THEN "id" ELSE @]

(* fail() without a retry: failed for good. *)
GivenUp(r) == [r EXCEPT !.state = "failed", !.completedAt = "set"]

Complete(r) == [r EXCEPT !.state = "completed", !.completedAt = "set"]

(* A slip: the last attempt is not counted in. *)
RetryableOnceLess(j, r) == r.attempt + 1 < AttemptBudget(j)

Retryable(j, r) == r.attempt < AttemptBudget(j)

(* What a failed attempt makes of the worker's copy. *)
Failed(j, r, stored) == IF Retryable(j, r) THEN Requeued(j, r, stored) ELSE GivenUp(r)

(* Leave for the Update call with the record to be written. *)
Transition(w, r) ==
  /\ Goto(w, "update")
  /\ rec' = [rec EXCEPT ![w] = r]
  /\ UNCHANGED cur

(* Handler lookup: an unknown kind fails for good, without a delivery. *)
Resolve(w) ==
  LET j == cur[w] IN
  /\ pc[w] = "resolve"
  /\ UNCHANGED <<storeVars, proc>>
  /\ IF j \in Known
     THEN /\ Goto(w, "handle")
          /\ Note(j, "delivered")
          /\ UNCHANGED <<cur, rec>>
     ELSE /\ Transition(w, GivenUp(rec[w]))
          /\ UNCHANGED seen

(* A handler may store a checkpoint of its own while it works. *)
HandlerCheckpoint(w) ==
  /\ pc[w] = "handle"
  /\ CallCommits
  /\ SaveCheckpointTxn(cur[w])
  /\ UNCHANGED <<proc, workerVars, seen>>

(* Handle returns nil, with or without a checkpoint. *)
HandleSucceeds(w, withCkpt) ==
  /\ pc[w] = "handle"
  /\ Note(cur[w], "succeeded")
  /\ UNCHANGED <<storeVars, proc>>
  /\ IF withCkpt
     THEN Goto(w, "saveOk") /\ UNCHANGED <<cur, rec>>
     ELSE Transition(w, Complete(rec[w]))

SaveOnSuccess(w) ==
  /\ pc[w] = "saveOk"
  /\ \/ /\ CallCommits
        /\ SaveCheckpointTxn(cur[w])
        /\ Transition(w, Complete(rec[w]))
     \/ /\ CallFails
        /\ UNCHANGED storeVars
        /\ Transition(w, GivenUp(rec[w]))
  /\ UNCHANGED <<proc, seen>>

(* Handle returns an error while the run context is done, or a             *)
(* cancellation error while the attempt's own timeout has not expired: the *)
(* attempt counts as interrupted and the record is left running.           *)
HandleInterrupted(w) ==
  /\ pc[w] = "handle"
  /\ Cancelled \/ ForeignCancel
  /\ EndAttempt(w)
  /\ UNCHANGED <<storeVars, proc, seen>>

(* Handle returns any other error, or its attempt timed out. *)
HandleFails(w, withCkpt) ==
  LET j == cur[w] IN
  /\ pc[w] = "handle"
  /\ ~Cancelled
  /\ UNCHANGED <<storeVars, proc, seen>>
  /\ IF withCkpt
     THEN Goto(w, "saveErr") /\ UNCHANGED <<cur, rec>>
     ELSE Transition(w, Failed(j, rec[w], ckpt))

(* A failed save is only reported: the failure transition goes on. *)
SaveOnFailure(w) ==
  LET j == cur[w] IN
  /\ pc[w] = "saveErr"
  /\ \/ CallCommits /\ SaveCheckpointTxn(j)
     \/ CallFails /\ UNCHANGED storeVars
  /\ Transition(w, Failed(j, rec[w], ckpt'))
  /\ UNCHANGED <<proc, seen>>

(* The Update call of runAttempt and of fail(); when it fails the job is   *)
(* left as it is in the store and the attempt is over.                     *)
Update(w) ==
  /\ pc[w] = "update"
  /\ UNCHANGED <<proc, seen>>
  /\ \/ /\ CallCommits
        /\ UpdateTxn(cur[w], rec[w])
        /\ Goto(w, "event")
        /\ UNCHANGED <<cur, rec>>
     \/ /\ CallFails
        /\ UNCHANGED storeVars
        /\ EndAttempt(w)

(* A slip: every settled job is logged as completed. *)
EventOfCompletion(r) ==
  [type |-> IF r.state = "queued" THEN "retried" ELSE "completed", state |-> r.state]

EventOf(r) ==
  [type |-> IF r.state = "queued" THEN "retried" ELSE r.state, state |-> r.state]

(* AppendEvent after the transition; its error is ignored. *)
LogEvent(w) ==
  /\ pc[w] = "event"
  /\ \/ CallCommits /\ AppendEventTxn(cur[w], EventOf(rec[w]))
     \/ CallFails /\ UNCHANGED storeVars
  /\ EndAttempt(w)
  /\ UNCHANGED <<proc, seen>>

WorkerStep(w) ==
  \/ LoopTop(w)
  \/ \E j \in Jobs : ClaimOne(w, j)
  \/ ClaimNothing(w)
  \/ ClaimFails(w)
  \/ Resolve(w)
  \/ HandlerCheckpoint(w)
  \/ \E c \in BOOLEAN : HandleSucceeds(w, c)
  \/ SaveOnSuccess(w)
  \/ HandleInterrupted(w)
  \/ \E c \in BOOLEAN : HandleFails(w, c)
  \/ SaveOnFailure(w)
  \/ Update(w)
  \/ LogEvent(w)

Next ==
  \/ OpenStore
  \/ \E w \in Workers, j \in Jobs : Recover(w, j)
  \/ StartWorkers
  \/ StopExecutor
  \/ CloseStore
  \/ Crash
  \/ \E j \in Jobs : Submit(j)
  \/ \E j \in Jobs : TimePasses(j)
  \/ \E w \in Workers : WorkerStep(w)

Spec == Init /\ [][Next]_vars

(* The fairness of the Go scheduler and of the clock, for a process that   *)
(* stays up: every goroutine that can take a step eventually does, Open    *)
(* finishes, a backoff runs out.  Handle returns: contract H2 of the       *)
(* handler and the attempt timeout.  Nothing is assumed of crashes, stops, *)
(* or submissions.                                                         *)
WorkerMoves(w) ==
  \/ LoopTop(w)
  \/ \E j \in Jobs : ClaimOne(w, j)
  \/ ClaimNothing(w)
  \/ ClaimFails(w)
  \/ Resolve(w)
  \/ \E c \in BOOLEAN : HandleSucceeds(w, c) \/ HandleFails(w, c)
  \/ HandleInterrupted(w)
  \/ SaveOnSuccess(w)
  \/ SaveOnFailure(w)
  \/ Update(w)
  \/ LogEvent(w)

Fairness ==
  /\ \A w \in Workers : WF_vars(WorkerMoves(w))
  /\ \A j \in Jobs : WF_vars(TimePasses(j))
  /\ WF_vars(\E w \in Workers, j \in Jobs : Recover(w, j))
  /\ WF_vars(StartWorkers)
  /\ WF_vars(CloseStore)

FairSpec == Spec /\ Fairness

-----------------------------------------------------------------------------
(* Properties. *)

(* w is between its Claim and its Update. *)
Attempting(w) == pc[w] \in Holding \ {"event"}

(* Claim hands a job to one worker only (Claim in jobs/store.go): no two   *)
(* workers are between Claim and Update of the same job, and until the     *)
(* worker's Update the canonical record is still the running one it was    *)
(* handed, so the whole-record Update never overwrites somebody else's     *)
(* transition.                                                             *)
ExclusiveAttempt ==
  /\ \A v, w \in Workers : Attempting(v) /\ Attempting(w) /\ cur[v] = cur[w] => v = w
  /\ \A w \in Workers :
       Attempting(w) =>
         /\ job[cur[w]].state = "running"
         /\ job[cur[w]].attempt = rec[w].attempt

(* The ready index lists exactly the queued records: a queued job can      *)
(* always be found by Claim, and Claim never meets a stale entry.          *)
ReadyIndexExact == \A j \in Jobs : j \in ready <=> job[j].state = "queued"

(* Every running record has a running-index entry, so that the recovery    *)
(* pass of the next Open finds every attempt a crash or a stop cut short.  *)
RunningIndexed ==
  \A j \in Jobs : job[j].state = "running" => \E w \in Workers : <<w, j>> \in windex

(* Claims never exceed the attempt budget, across retries and restarts,    *)
(* and a queued job has an attempt left.                                   *)
BudgetRespected ==
  \A j \in Jobs :
    /\ job[j].attempt <= AttemptBudget(j)
    /\ job[j].state = "queued" => job[j].attempt < AttemptBudget(j)

(* The two indexes of the store and its records, written by six kinds of   *)
(* transaction, never disagree in a way that strands a job.                *)
IndexExact == ReadyIndexExact /\ RunningIndexed

(* CompletedAt is set exactly on terminal records: the 24 h totals of      *)
(* status.json count completed and failed jobs by it.                      *)
CompletedAtExact ==
  \A j \in Jobs : job[j].completedAt = "set" <=> job[j].state \in Terminal

(* A resume token always points at a stored checkpoint (rule D6): the      *)
(* fail-path and the recovery-path requeue only set it when one exists.    *)
ResumeTokenBacked ==
  \A j \in Jobs : job[j].resumeToken = "id" => j \in ckpt

(* A record is completed only if a handler returned success on it, and a   *)
(* completed event is only logged for a completed record.                  *)
CompletionJustified ==
  \A j \in Jobs :
    /\ job[j].state = "completed" => "succeeded" \in seen[j]
    /\ \A i \in 1..Len(events[j]) :
         events[j][i].type = "completed" => job[j].state = "completed"

(* No attempt is thrown away (fail, recoverOne): a job of a known kind is  *)
(* failed only when its budget is used up, or when its handler succeeded   *)
(* and the checkpoint of the success could not be saved.                   *)
FailureJustified ==
  \A j \in Known :
    job[j].state = "failed" => job[j].attempt = AttemptBudget(j) \/ "succeeded" \in seen[j]

(* Executor.run, fail and recoverOne: a job ends for a reason, a success   *)
(* that was returned or a budget that was used up.                         *)
OutcomeJustified == CompletionJustified /\ FailureJustified

(* Terminal records never change again, whatever copies workers hold and   *)
(* whatever debris the running index keeps for the next recovery.          *)
TerminalIsFinal ==
  [][\A j \in Jobs : job[j].state \in Terminal => job'[j] = job[j]]_vars

(* While the process runs without store faults and without handlers that   *)
(* return a cancellation of their own, a running record is being worked    *)
(* on: nothing waits for a restart.                                        *)
NoOrphan ==
  proc = "running" /\ ~StoreFaults /\ ~ForeignCancel =>
    \A j \in Jobs : job[j].state = "running" => \E w \in Workers : cur[w] = j

(* The store and the executor implement the life cycle of a job: every     *)
(* interleaving of workers, stops, crashes and recoveries moves each job   *)
(* along JobLifecycle.                                                     *)
Lifecycle == INSTANCE JobLifecycle WITH
  Budget <- [j \in Jobs |-> AttemptBudget(j)],
  status <- [j \in Jobs |-> job[j].state],
  tries <- [j \in Jobs |-> job[j].attempt]

(* Executor implements JobLifecycle (see the comment of Lifecycle).        *)
ImplementsLifecycle == Lifecycle!LifeSpec

(* If the process stays up, every ingested job of a served queue comes to  *)
(* a terminal state: retries end and no job is starved.                    *)
EventuallySettled ==
  \A j \in Jobs :
    Served(j) => (<>[](proc = "running") =>
                    (job[j].state # "absent" ~> job[j].state \in Terminal))

(* runner.go: the drain waits "for in-flight handlers". After a clean stop *)
(* every attempt whose handler returned success is recorded completed.     *)
DrainKeepsSuccess ==
  proc = "down" => \A j \in Jobs : "succeeded" \in seen[j] => job[j].state = "completed"

(* jobs/handler.go H1: delivery is at least once. A known kind is not      *)
(* failed before a handler has seen the job.                               *)
AtLeastOnce ==
  \A j \in Known : job[j].state = "failed" => "delivered" \in seen[j]

=============================================================================
