------------------------------- MODULE Runner -------------------------------
(***************************************************************************)
(* The runner process as a whole (ayenitd/runner.go): the store opened     *)
(* first and closed last, the services started together and stopped one by *)
(* one in reverse registration order (execution/services/manager.go), the  *)
(* status writer and its final flush (ayenitd/status.go), the grace        *)
(* watchdog.                                                               *)
(*                                                                         *)
(* The executor and the spool watcher are here what the shutdown sees of   *)
(* them: jobs that come in, are claimed, and are settled while the context *)
(* of the service is live.  Executor and Spool have the rest.              *)
(***************************************************************************)
EXTENDS Integers, Sequences, FiniteSets

CONSTANTS
  Jobs,
  WorkerCount,    \* RunnerConfig.Workers after its default
  WithRefresh     \* RefreshInterval > 0: the refresh submitter is registered

NoJob == "no job"

ASSUME WorkerCountAssumption == WorkerCount \in Nat \ {0}
ASSUME NoJobAssumption == NoJob \notin Jobs

(* The registration order of Run. *)
Order == <<"spool-watcher", "executor", "status-writer">>
           \o (IF WithRefresh THEN <<"refresh-submitter">> ELSE <<>>)
Services == {Order[i] : i \in 1..Len(Order)}

VARIABLES
  phase,          \* Run: starting, up, stopping, exited
  svc,            \* each service: registered, running, stopping, stopped
  stopAt,         \* the position of StopAll in Order
  cancelled,      \* services whose context is done
  grace,          \* the watchdog: unset, armed, fired
  state,          \* the store: the state of each job
  storeOpen,
  busy,           \* the executor: jobs inside a handler
  ingesting,      \* the spool watcher: the job inside store.Create
  looping,        \* the status writer's loop has not returned
  ticking,        \* the ticker's writeOnce: where it is and what it has read
  flushing,       \* the final writeOnce of Stop, likewise
  drained,        \* statusWriter.drained
  file,           \* status.json
  unflushed       \* the write of the final flush failed (history)

storeVars == <<state, storeOpen>>
statusVars == <<looping, ticking, flushing, drained, file, unflushed>>
manager == <<phase, svc, stopAt, cancelled, grace>>
runnerVars == <<manager, storeVars, busy, ingesting, statusVars>>

JobStates == {"absent", "queued", "running", "settled"}
Snapshots == [Jobs -> JobStates]
Status == [draining: BOOLEAN, shown: Snapshots]
NoStatus == [draining |-> FALSE, shown |-> [j \in Jobs |-> "absent"]]

(* A call of writeOnce: not made, entered (the drained flag is read), or   *)
(* with the store listed and the file about to be renamed into place.      *)
WriteCall == [at: {"none", "entered", "listed"}, status: Status]
NoCall == [at |-> "none", status |-> NoStatus]
Entered(flag) == [at |-> "entered", status |-> [NoStatus EXCEPT !.draining = flag]]
Listed(call) == [at |-> "listed", status |-> [call.status EXCEPT !.shown = state]]

(* Every variable ranges over its type. *)
RunnerTypeOK ==
  /\ phase \in {"starting", "up", "stopping", "exited"}
  /\ svc \in [Services -> {"registered", "running", "stopping", "stopped"}]
  /\ stopAt \in 0..Len(Order)
  /\ cancelled \subseteq Services
  /\ grace \in {"unset", "armed", "fired"}
  /\ state \in Snapshots
  /\ storeOpen \in BOOLEAN
  /\ busy \subseteq Jobs
  /\ ingesting \in Jobs \cup {NoJob}
  /\ looping \in BOOLEAN
  /\ ticking \in WriteCall
  /\ flushing \in WriteCall
  /\ drained \in BOOLEAN
  /\ file \in Status
  /\ unflushed \in BOOLEAN

RunnerInit ==
  /\ phase = "starting"
  /\ svc = [s \in Services |-> "registered"]
  /\ stopAt = 0
  /\ cancelled = {}
  /\ grace = "unset"
  /\ state \in [Jobs -> {"absent", "queued"}]
  /\ storeOpen = TRUE
  /\ busy = {}
  /\ ingesting = NoJob
  /\ looping = TRUE
  /\ ticking = NoCall
  /\ flushing = NoCall
  /\ drained = FALSE
  /\ file = NoStatus
  /\ unflushed = FALSE

Live(s) == svc[s] \in {"running", "stopping"} /\ s \notin cancelled

-----------------------------------------------------------------------------
(* StartAll, the signal, StopAll. *)

(* One goroutine of StartAll; they run in any order. *)
StartService(s) ==
  /\ phase = "starting"
  /\ svc[s] = "registered"
  /\ svc' = [svc EXCEPT ![s] = "running"]
  /\ UNCHANGED <<phase, stopAt, cancelled, grace, storeVars, busy, ingesting, statusVars>>

StartAllReturns ==
  /\ phase = "starting"
  /\ \A s \in Services : svc[s] = "running"
  /\ phase' = "up"
  /\ UNCHANGED <<svc, stopAt, cancelled, grace, storeVars, busy, ingesting, statusVars>>

(* The caller's context is done, at any moment: with it every service      *)
(* context, derived from it.                                               *)
ContextDone ==
  /\ phase # "exited"
  /\ cancelled # Services
  /\ cancelled' = Services
  /\ UNCHANGED <<phase, svc, stopAt, grace, storeVars, busy, ingesting, statusVars>>

(* Run sees SIGTERM, SIGINT or the context done: it arms the watchdog and  *)
(* calls StopAll.                                                          *)
Drain ==
  /\ phase = "up"
  /\ phase' = "stopping"
  /\ stopAt' = Len(Order)
  /\ grace' = "armed"
  /\ UNCHANGED <<svc, cancelled, storeVars, busy, ingesting, statusVars>>

(* graceTimer: cancel the run context, the parent of the service contexts. *)
GraceFires ==
  /\ grace = "armed"
  /\ phase = "stopping"
  /\ grace' = "fired"
  /\ cancelled' = Services
  /\ UNCHANGED <<phase, svc, stopAt, storeVars, busy, ingesting, statusVars>>

(* The service StopAll is at: reverse registration order. *)
Stopping == Order[stopAt]

(* svc.Stop begins: it cancels the service's context. *)
BeginStop ==
  /\ phase = "stopping"
  /\ stopAt > 0
  /\ svc[Stopping] = "running"
  /\ svc' = [svc EXCEPT ![Stopping] = "stopping"]
  /\ cancelled' = cancelled \cup {Stopping}
  /\ UNCHANGED <<phase, stopAt, grace, storeVars, busy, ingesting, statusVars>>

(* A slip: Stop of the spool watcher does not wait for the loop. *)
JoinedWithoutWatcher(s) ==
  CASE s = "executor" -> busy = {}
    [] s = "status-writer" -> flushing = NoCall /\ drained
    [] OTHER -> TRUE

(* What Stop waits for: the workers' handlers, the watcher's ingest, the   *)
(* ticker loop and then the final flush of the status writer.              *)
Joined(s) ==
  CASE s = "executor" -> busy = {}
    [] s = "spool-watcher" -> ingesting = NoJob
    [] s = "status-writer" -> flushing = NoCall /\ drained
    [] OTHER -> TRUE

(* svc.Stop returns and StopAll goes on to the service before it. *)
EndStop ==
  /\ phase = "stopping"
  /\ stopAt > 0
  /\ svc[Stopping] = "stopping"
  /\ Joined(Stopping)
  /\ svc' = [svc EXCEPT ![Stopping] = "stopped"]
  /\ stopAt' = stopAt - 1
  /\ UNCHANGED <<phase, cancelled, grace, storeVars, busy, ingesting, statusVars>>

(* StopAll has returned; the deferred Close runs and Run returns. *)
RunReturns ==
  /\ phase = "stopping"
  /\ stopAt = 0
  /\ phase' = "exited"
  /\ storeOpen' = FALSE
  /\ UNCHANGED <<svc, stopAt, cancelled, grace, state, busy, ingesting, statusVars>>

-----------------------------------------------------------------------------
(* The spool watcher. *)

BeginIngest(j) ==
  /\ Live("spool-watcher")
  /\ ingesting = NoJob
  /\ state[j] = "absent"
  /\ ingesting' = j
  /\ UNCHANGED <<manager, storeVars, busy, statusVars>>

(* store.Create commits, or its context was cancelled first. *)
EndIngest ==
  /\ ingesting # NoJob
  /\ ingesting' = NoJob
  /\ \/ state' = [state EXCEPT ![ingesting] = "queued"]
     \/ "spool-watcher" \in cancelled /\ UNCHANGED state
  /\ UNCHANGED <<manager, storeOpen, busy, statusVars>>

-----------------------------------------------------------------------------
(* The executor. *)

Claim(j) ==
  /\ Live("executor")
  /\ state[j] = "queued"
  /\ Cardinality(busy) < WorkerCount
  /\ state' = [state EXCEPT ![j] = "running"]
  /\ busy' = busy \cup {j}
  /\ UNCHANGED <<manager, storeOpen, ingesting, statusVars>>

(* The handler returns; under a cancelled context nothing is recorded. *)
HandlerReturns(j) ==
  /\ j \in busy
  /\ busy' = busy \ {j}
  /\ IF "executor" \in cancelled
     THEN UNCHANGED state
     ELSE \E s \in {"settled", "queued"} : state' = [state EXCEPT ![j] = s]
  /\ UNCHANGED <<manager, storeOpen, ingesting, statusVars>>

-----------------------------------------------------------------------------
(* The status writer. *)

(* The ticker's writeOnce: enter it, List the store, rename the file.  A   *)
(* tick and a cancellation that are both ready are chosen between freely,  *)
(* so a cancelled loop may still tick.  A write may fail, which leaves the *)
(* file as it was; both callers ignore the error.                          *)
Heartbeat ==
  /\ svc["status-writer"] \in {"running", "stopping"}
  /\ looping
  /\ ticking = NoCall
  /\ ticking' = Entered(drained)
  /\ UNCHANGED <<manager, storeVars, busy, ingesting, looping, flushing, drained, file, unflushed>>

TickLists ==
  /\ ticking.at = "entered"
  /\ ticking' = Listed(ticking)
  /\ UNCHANGED <<manager, storeVars, busy, ingesting, looping, flushing, drained, file, unflushed>>

TickWrites ==
  /\ ticking.at = "listed"
  /\ file' \in {ticking.status, file}
  /\ ticking' = NoCall
  /\ UNCHANGED <<manager, storeVars, busy, ingesting, looping, flushing, drained, unflushed>>

(* A slip: the loop waits for the end of a stop that waits for the loop. *)
LoopReturnsLast ==
  /\ svc["status-writer"] = "stopped"
  /\ "status-writer" \in cancelled
  /\ looping
  /\ ticking = NoCall
  /\ looping' = FALSE
  /\ UNCHANGED <<manager, storeVars, busy, ingesting, ticking, flushing, drained, file, unflushed>>

(* The loop sees its context done and closes the done channel. *)
LoopReturns ==
  /\ svc["status-writer"] \in {"running", "stopping"}
  /\ "status-writer" \in cancelled
  /\ looping
  /\ ticking = NoCall
  /\ looping' = FALSE
  /\ UNCHANGED <<manager, storeVars, busy, ingesting, ticking, flushing, drained, file, unflushed>>

(* A slip: the flag is set after the flush. *)
FlushUnmarked ==
  /\ svc["status-writer"] = "stopping"
  /\ ~looping
  /\ ~drained
  /\ drained' = TRUE
  /\ flushing' = Entered(FALSE)
  /\ UNCHANGED <<manager, storeVars, busy, ingesting, looping, ticking, file, unflushed>>

(* Stop has joined the loop: mark the status as drained, flush once more. *)
Flush ==
  /\ svc["status-writer"] = "stopping"
  /\ ~looping
  /\ ~drained
  /\ drained' = TRUE
  /\ flushing' = Entered(TRUE)
  /\ UNCHANGED <<manager, storeVars, busy, ingesting, looping, ticking, file, unflushed>>

FlushLists ==
  /\ flushing.at = "entered"
  /\ flushing' = Listed(flushing)
  /\ UNCHANGED <<manager, storeVars, busy, ingesting, looping, ticking, drained, file, unflushed>>

FlushWrites ==
  /\ flushing.at = "listed"
  /\ \/ file' = flushing.status /\ UNCHANGED unflushed
     \/ unflushed' = TRUE /\ UNCHANGED file
  /\ flushing' = NoCall
  /\ UNCHANGED <<manager, storeVars, busy, ingesting, looping, ticking, drained>>

-----------------------------------------------------------------------------
(* Run has returned. *)
Terminated == phase = "exited" /\ UNCHANGED runnerVars

ManagerStep ==
  \/ \E s \in Services : StartService(s)
  \/ StartAllReturns \/ BeginStop \/ EndStop \/ RunReturns

StatusStep == TickLists \/ TickWrites \/ Flush \/ FlushLists \/ FlushWrites

RunnerNext ==
  \/ ManagerStep
  \/ ContextDone \/ Drain \/ GraceFires
  \/ \E j \in Jobs : BeginIngest(j) \/ Claim(j) \/ HandlerReturns(j)
  \/ EndIngest
  \/ Heartbeat \/ LoopReturns \/ StatusStep
  \/ Terminated

RunnerSpec == RunnerInit /\ [][RunnerNext]_runnerVars

(* Goroutines that can go on do, and the grace timer fires.  The select of *)
(* a cancelled status loop does not choose the ticker for ever.            *)
Scheduling ==
  /\ WF_runnerVars(ManagerStep)
  /\ WF_runnerVars(EndIngest)
  /\ WF_runnerVars(StatusStep)
  /\ WF_runnerVars(GraceFires)
  /\ SF_runnerVars(LoopReturns)

(* Contract H2 of jobs/handler.go: a handler honours its cancelled context. *)
HandlersHonourCancel ==
  \A j \in Jobs : WF_runnerVars("executor" \in cancelled /\ HandlerReturns(j))

RunnerFairness == Scheduling /\ HandlersHonourCancel

-----------------------------------------------------------------------------
(* Properties. *)

(* spool.go: "the runner's deferred store close must never run under an    *)
(* in-flight drain".  When the store is closed no service is inside a      *)
(* store call or a handler that would make one.                            *)
NothingUsesClosedStore ==
  ~storeOpen => busy = {} /\ ingesting = NoJob /\ ticking = NoCall /\ flushing = NoCall

(* runner.go: "flush status.json with draining=true, exit 0".  After a     *)
(* clean exit the last status.json is that flush, if it could be written:  *)
(* no heartbeat that was under way when the stop began overwrites it.      *)
FinalStatusDraining == phase = "exited" /\ ~unflushed => file.draining

(* runner.go: with handlers that honour cancellation, a drain comes to its *)
(* end.                                                                    *)
DrainEnds == phase = "stopping" ~> phase = "exited"

(* status.go: "under the LIFO stop order this runs after the executor has  *)
(* drained, so the last status.json shows post-drain counts".              *)
FinalStatusPostDrain == phase = "exited" /\ ~unflushed => file.shown = state
=============================================================================
