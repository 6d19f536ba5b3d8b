------------------------------- MODULE Epoch -------------------------------
(***************************************************************************)
(* The epoch barrier of a graph run (execution/agentgraph/epoch.go): the   *)
(* trunk of the run and its parallel branches capture items, start         *)
(* background stream jobs and make blocking stream requests; whoever       *)
(* reaches a barrier takes what is pending, grounds the items, awaits the  *)
(* jobs and closes the epoch.  All share one coordinator; each branch has  *)
(* a clone of the run's envelope, of which only working values and         *)
(* references are merged back.  The trunk waits for the branches, and at   *)
(* the end takes the final barrier.  c.mu makes each locked section one    *)
(* step; barrierMu admits one flush.                                       *)
(*                                                                         *)
(* Left out: the drain of the invalidation subscription, which touches no  *)
(* state here, and the content of items and results.                       *)
(***************************************************************************)
EXTENDS Naturals, Sequences

CONSTANTS
  Items,          \* captures
  Jobs,           \* background stream jobs
  Branches,       \* parallel branches of the run; bound: one parallel section
  Adopted,        \* the epoch of the envelope the run starts on, 0 for none
  MaxBlocking     \* bound: blocking stream requests

Trunk == "trunk"
Walkers == Branches \cup {Trunk}

ASSUME AdoptedAssumption == Adopted \in Nat
ASSUME TrunkAssumption == Trunk \notin Branches

VARIABLES
  epoch,          \* c.epoch, the epoch the next barrier closes
  inFlush,        \* c.inFlush
  items,          \* c.items
  jobs,           \* c.jobs
  finalized,      \* c.finalized
  flush,          \* the barrier that holds barrierMu: where it is, what it took
  pc,             \* the trunk, and each branch
  starting,       \* <<b, j>>: b has started job j, not tracked it yet
  ready,          \* jobs whose result is there
  finals,         \* calls of FinalEpoch the run has made
  asked,          \* the epoch a blocking stream request goes by, 0 for none
  blocking,       \* blocking stream requests made
  env,            \* AssemblyMetadata.EpochID of each envelope; the trunk's is the run's
  slice,          \* epoch of the streamed slice of each envelope, 0 for none
  fate,           \* what became of each item
  stamp,          \* item.Epoch
  groundedBy,     \* epochs whose barrier grounded the item
  requestedAt,    \* the epoch each job was started in
  appliedAs,      \* the epoch its result was applied as, 0 for not applied
  dropped,        \* envelopes whose stale guard dropped a result
  closed          \* the epoch.closed events; that of the final barrier names no node

coordinator == <<epoch, inFlush, items, jobs, finalized, flush>>
run == <<pc, starting, ready, finals, asked, blocking>>
envelope == <<env, slice, appliedAs, dropped>>
history == <<fate, stamp, groundedBy, requestedAt, closed>>
vars == <<coordinator, run, envelope, history>>

First == IF Adopted > 1 THEN Adopted ELSE 1

NoFlush == [at |-> "idle", final |-> FALSE, epoch |-> 0, items |-> {}, jobs |-> {}, err |-> FALSE]

Places == {"unborn", "cloning", "running", "barrier", "finished", "failed", "joined"}

(* Every variable ranges over its type; the flag inFlush marks a barrier.  *)
TypeOK ==
  /\ epoch \in Nat /\ env \in [Walkers -> Nat] /\ slice \in [Walkers -> Nat]
  /\ items \in SUBSET Items /\ jobs \in SUBSET Jobs
  /\ finalized \in BOOLEAN /\ finals \in 0..2
  /\ flush \in [at: {"idle", "ground", "retry", "await", "mirror", "report", "end"},
                final: BOOLEAN, epoch: Nat, items: SUBSET Items, jobs: SUBSET Jobs, err: BOOLEAN]
  /\ inFlush = (flush.at # "idle")
  /\ pc \in [Walkers -> Places]
  /\ starting \in SUBSET (Walkers \X Jobs)
  /\ asked \in [Walkers -> Nat] /\ blocking \in Nat
  /\ ready \in SUBSET Jobs /\ dropped \in SUBSET Walkers
  /\ fate \in [Items -> {"new", "pending", "taken", "grounded", "failed"}]
  /\ stamp \in [Items -> Nat]
  /\ groundedBy \in [Items -> Seq(Nat)]
  /\ requestedAt \in [Jobs -> Nat] /\ appliedAs \in [Jobs -> Nat]
  /\ closed \in Seq([epoch: Nat, final: BOOLEAN])

(* NewEpochCoordinator adopts a later epoch of the envelope. *)
Init ==
  /\ epoch = First
  /\ env = [w \in Walkers |-> First] /\ slice = [w \in Walkers |-> 0]
  /\ inFlush = FALSE /\ finalized = FALSE /\ finals = 0
  /\ items = {} /\ jobs = {} /\ flush = NoFlush
  /\ pc = [w \in Walkers |-> IF w = Trunk THEN "running" ELSE "unborn"]
  /\ starting = {} /\ ready = {} /\ dropped = {}
  /\ asked = [w \in Walkers |-> 0] /\ blocking = 0
  /\ fate = [i \in Items |-> "new"]
  /\ stamp = [i \in Items |-> 0]
  /\ groundedBy = [i \in Items |-> <<>>]
  /\ requestedAt = [j \in Jobs |-> 0]
  /\ appliedAs = [j \in Jobs |-> 0]
  /\ closed = <<>>

-----------------------------------------------------------------------------
(* Parallel edges.  nextNodes starts the branches and waits for them all;  *)
(* each clones the envelope when its goroutine comes to it.                *)

Over == {"finished", "failed"}

(* What runs: one with a job to track, or a request to wait for, does      *)
(* nothing else first; the trunk does nothing beside its branches.         *)
Runs(b) ==
  /\ pc[b] = "running"
  /\ asked[b] = 0
  /\ \A j \in Jobs : <<b, j>> \notin starting
  /\ b = Trunk => \A c \in Branches : pc[c] \in {"unborn", "joined"}

Fork ==
  /\ Runs(Trunk)
  /\ \A b \in Branches : pc[b] = "unborn"
  /\ pc' = [w \in Walkers |-> IF w = Trunk THEN pc[w] ELSE "cloning"]
  /\ UNCHANGED <<coordinator, starting, ready, finals, asked, blocking, envelope, history>>

CloneEnvelope(b) ==
  /\ pc[b] = "cloning"
  /\ pc' = [pc EXCEPT ![b] = "running"]
  /\ env' = [env EXCEPT ![b] = env[Trunk]]
  /\ slice' = [slice EXCEPT ![b] = slice[Trunk]]
  /\ UNCHANGED <<coordinator, starting, ready, finals, asked, blocking, appliedAs, dropped, history>>

(* The error of a branch ends the run. *)
Join ==
  /\ Branches # {} /\ \A b \in Branches : pc[b] \in Over
  /\ pc' = [w \in Walkers |-> IF w # Trunk THEN "joined"
                               ELSE IF \E b \in Branches : pc[b] = "failed" THEN "failed"
                               ELSE pc[w]]
  /\ UNCHANGED <<coordinator, starting, ready, finals, asked, blocking, envelope, history>>

-----------------------------------------------------------------------------
(* The nodes. *)

EnqueueCapture(b, i) ==
  /\ Runs(b)
  /\ fate[i] = "new"
  /\ stamp' = [stamp EXCEPT ![i] = IF inFlush THEN epoch + 1 ELSE epoch]
  /\ items' = items \cup {i}
  /\ fate' = [fate EXCEPT ![i] = "pending"]
  /\ UNCHANGED <<epoch, inFlush, jobs, finalized, flush, run, envelope, groundedBy, requestedAt, closed>>

(* The stream node reads EpochID and starts the job ... *)
RequestBackground(b, j) ==
  /\ Runs(b)
  /\ requestedAt[j] = 0
  /\ requestedAt' = [requestedAt EXCEPT ![j] = epoch]
  /\ starting' = starting \cup {<<b, j>>}
  /\ UNCHANGED <<coordinator, pc, ready, finals, asked, blocking, envelope, fate, stamp,
                 groundedBy, closed>>

(* ... and registers it; the job finishes whenever it does. *)
TrackStreamJob(b, j) ==
  /\ <<b, j>> \in starting
  /\ starting' = starting \ {<<b, j>>}
  /\ jobs' = jobs \cup {j}
  /\ UNCHANGED <<epoch, inFlush, items, finalized, flush, pc, ready, finals, asked, blocking,
                 envelope, history>>

Complete(j) ==
  /\ requestedAt[j] # 0
  /\ j \notin ready
  /\ ready' = ready \cup {j}
  /\ UNCHANGED <<coordinator, pc, starting, finals, asked, blocking, envelope, history>>

(* In the blocking mode the node reads EpochID, waits for the compiler ... *)
RequestBlocking(b) ==
  /\ Runs(b)
  /\ blocking < MaxBlocking
  /\ blocking' = blocking + 1
  /\ asked' = [asked EXCEPT ![b] = epoch]
  /\ UNCHANGED <<coordinator, pc, starting, ready, finals, envelope, history>>

(* ApplyResult: a result of epoch e goes into the envelope of b, unless it *)
(* is older than what the envelope holds.                                  *)
Stale(b, e) == e < env[b] \/ e < slice[b]

Apply(b, e) ==
  IF Stale(b, e)
  THEN dropped' = dropped \cup {b} /\ UNCHANGED <<env, slice>>
  ELSE /\ slice' = [slice EXCEPT ![b] = e]
       /\ env' = [env EXCEPT ![b] = IF e > @ THEN e ELSE @]
       /\ UNCHANGED dropped

(* ... and applies the result to its own envelope as of the epoch it read, *)
(* or fails with the request.                                              *)
ApplyBlocking(b) ==
  /\ asked[b] # 0
  /\ Apply(b, asked[b])
  /\ asked' = [asked EXCEPT ![b] = 0]
  /\ UNCHANGED <<coordinator, pc, starting, ready, finals, blocking, appliedAs, history>>

BlockingFails(b) ==
  /\ asked[b] # 0
  /\ asked' = [asked EXCEPT ![b] = 0]
  /\ pc' = [pc EXCEPT ![b] = "failed"]
  /\ UNCHANGED <<coordinator, starting, ready, finals, blocking, envelope, history>>

(* The last node has run, or one failed. *)
Finish(b) ==
  /\ Runs(b)
  /\ \E end \in Over : pc' = [pc EXCEPT ![b] = end]
  /\ UNCHANGED <<coordinator, starting, ready, finals, asked, blocking, envelope, history>>

-----------------------------------------------------------------------------
(* The barrier. *)

(* The locked section that takes what is pending. *)
Take(final) ==
  /\ flush' = [at |-> IF items = {} THEN "await" ELSE "ground", final |-> final,
               epoch |-> epoch, items |-> items, jobs |-> jobs, err |-> FALSE]
  /\ items' = {} /\ jobs' = {}
  /\ inFlush' = TRUE
  /\ fate' = [i \in Items |-> IF i \in items THEN "taken" ELSE fate[i]]
  /\ UNCHANGED <<epoch, starting, ready, asked, blocking, stamp, groundedBy, requestedAt, closed>>

(* CloseEpochIfPending; with nothing pending, or after the final barrier,  *)
(* it changes nothing.                                                     *)
CloseEpochIfPending(b) ==
  /\ Runs(b)
  /\ flush.at = "idle"
  /\ items # {} \/ jobs # {}
  /\ ~finalized
  /\ Take(FALSE)
  /\ pc' = [pc EXCEPT ![b] = "barrier"]
  /\ UNCHANGED <<finalized, finals, envelope>>

(* A slip: the second call takes the barrier again. *)
FinalEpochAgain ==
  /\ flush.at = "idle"
  /\ pc[Trunk] \in Over
  /\ finals < IF pc[Trunk] = "failed" THEN 1 ELSE 2
  /\ finals' = finals + 1
  /\ finalized' = TRUE
  /\ Take(TRUE)
  /\ UNCHANGED <<pc, envelope>>

(* FinalEpoch: Execute calls it when the run succeeds and, deferred, in    *)
(* any case.                                                               *)
FinalEpoch ==
  /\ flush.at = "idle"
  /\ pc[Trunk] \in Over
  /\ finals < IF pc[Trunk] = "failed" THEN 1 ELSE 2
  /\ finals' = finals + 1
  /\ finalized' = TRUE
  /\ IF finalized
     THEN UNCHANGED <<epoch, inFlush, items, jobs, flush, starting, ready, asked, blocking, history>>
     ELSE Take(TRUE)
  /\ UNCHANGED <<pc, envelope>>

(* Ground commits the whole batch ... *)
Ground ==
  /\ flush.at \in {"ground", "retry"}
  /\ flush' = [flush EXCEPT !.at = "await", !.items = {}]
  /\ fate' = [i \in Items |-> IF i \in flush.items THEN "grounded" ELSE fate[i]]
  /\ groundedBy' = [i \in Items |-> IF i \in flush.items
                                    THEN Append(groundedBy[i], flush.epoch) ELSE groundedBy[i]]
  /\ UNCHANGED <<epoch, inFlush, items, jobs, finalized, run, envelope, stamp, requestedAt, closed>>

(* ... or nothing, and is tried once more; *)
GroundFails ==
  /\ flush.at = "ground"
  /\ flush' = [flush EXCEPT !.at = "retry"]
  /\ UNCHANGED <<epoch, inFlush, items, jobs, finalized, run, envelope, history>>

(* a second failure, or the end of the run's context, gives the batch up.  *)
Abort ==
  /\ flush.at = "retry"
  /\ flush' = [flush EXCEPT !.at = "end", !.items = {}, !.err = TRUE]
  /\ fate' = [i \in Items |-> IF i \in flush.items THEN "failed" ELSE fate[i]]
  /\ UNCHANGED <<epoch, inFlush, items, jobs, finalized, run, envelope, stamp, groundedBy, requestedAt, closed>>

(* A finished job is applied to the run's envelope as of the closing       *)
(* epoch.                                                                  *)
ApplyResult(j) ==
  /\ flush.at = "await"
  /\ j \in flush.jobs \cap ready
  /\ flush' = [flush EXCEPT !.jobs = @ \ {j}]
  /\ Apply(Trunk, flush.epoch)
  /\ appliedAs' = IF Stale(Trunk, flush.epoch) THEN appliedAs
                  ELSE [appliedAs EXCEPT ![j] = flush.epoch]
  /\ UNCHANGED <<epoch, inFlush, items, jobs, finalized, run, history>>

(* One that failed fails the barrier, unless it was cancelled; so does a   *)
(* slice beyond its budget.                                                *)
JobFailed(j, cancelled) ==
  /\ flush.at = "await"
  /\ j \in flush.jobs \cap ready
  /\ flush' = [flush EXCEPT !.jobs = @ \ {j}, !.err = @ \/ ~cancelled]
  /\ UNCHANGED <<epoch, inFlush, items, jobs, finalized, run, envelope, history>>

(* A slip: without a deadline, only a finished job is let go. *)
AbandonReady(j) ==
  /\ flush.at = "await"
  /\ j \in flush.jobs \cap ready
  /\ flush' = [flush EXCEPT !.jobs = @ \ {j}]
  /\ UNCHANGED <<epoch, inFlush, items, jobs, finalized, run, envelope, history>>

(* The deadline passes, perhaps with the result just there. *)
Abandon(j) ==
  /\ flush.at = "await"
  /\ j \in flush.jobs
  /\ flush' = [flush EXCEPT !.jobs = @ \ {j}]
  /\ UNCHANGED <<epoch, inFlush, items, jobs, finalized, run, envelope, history>>

(* flushEpoch opens the next epoch, *)
Advance ==
  /\ flush.at = "await" /\ flush.jobs = {}
  /\ epoch' = flush.epoch + 1
  /\ flush' = [flush EXCEPT !.at = "mirror"]
  /\ UNCHANGED <<inFlush, items, jobs, finalized, run, envelope, history>>

(* A slip: a close with an error is not told. *)
MirrorUnlessFailed ==
  /\ flush.at = "mirror"
  /\ env' = [env EXCEPT ![Trunk] = IF flush.err THEN @ ELSE flush.epoch + 1]
  /\ flush' = [flush EXCEPT !.at = "report"]
  /\ UNCHANGED <<epoch, inFlush, items, jobs, finalized, run, slice, appliedAs, dropped, history>>

(* tells the run's envelope, *)
Mirror ==
  /\ flush.at = "mirror"
  /\ env' = [env EXCEPT ![Trunk] = flush.epoch + 1]
  /\ flush' = [flush EXCEPT !.at = "report"]
  /\ UNCHANGED <<epoch, inFlush, items, jobs, finalized, run, slice, appliedAs, dropped, history>>

(* and reports the close. *)
ReportClosed ==
  /\ flush.at = "report"
  /\ closed' = Append(closed, [epoch |-> flush.epoch, final |-> flush.final])
  /\ flush' = [flush EXCEPT !.at = "end"]
  /\ UNCHANGED <<epoch, inFlush, items, jobs, finalized, run, envelope, fate, stamp, groundedBy, requestedAt>>

(* A slip: the queue is emptied when the barrier ends. *)
EndClears ==
  /\ flush.at = "end"
  /\ inFlush' = FALSE
  /\ epoch' = IF flush.err THEN epoch ELSE flush.epoch + 1
  /\ flush' = NoFlush
  /\ items' = {}
  /\ pc' = [w \in Walkers |-> IF pc[w] # "barrier" THEN pc[w]
                              ELSE IF flush.err THEN "failed" ELSE "running"]
  /\ UNCHANGED <<jobs, finalized, starting, ready, finals, asked, blocking, envelope, history>>

(* The last locked section; then barrierMu is free, and the error of the   *)
(* barrier ends the branch, or the run.                                    *)
End ==
  /\ flush.at = "end"
  /\ inFlush' = FALSE
  /\ epoch' = IF flush.err THEN epoch ELSE flush.epoch + 1
  /\ flush' = NoFlush
  /\ pc' = [w \in Walkers |-> IF pc[w] # "barrier" THEN pc[w]
                              ELSE IF flush.err THEN "failed" ELSE "running"]
  /\ UNCHANGED <<items, jobs, finalized, starting, ready, finals, asked, blocking, envelope, history>>

-----------------------------------------------------------------------------
Flushing ==
  \/ Ground \/ GroundFails \/ Abort
  \/ \E j \in Jobs : ApplyResult(j) \/ (\E c \in BOOLEAN : JobFailed(j, c)) \/ Abandon(j)
  \/ Advance \/ Mirror \/ ReportClosed \/ End

Walk(b) ==
  \/ \E i \in Items : EnqueueCapture(b, i)
  \/ \E j \in Jobs : RequestBackground(b, j) \/ TrackStreamJob(b, j)
  \/ RequestBlocking(b) \/ ApplyBlocking(b) \/ BlockingFails(b)
  \/ CloseEpochIfPending(b)
  \/ Finish(b)

Next ==
  \/ \E b \in Walkers : Walk(b)
  \/ Fork \/ (\E b \in Branches : CloneEnvelope(b)) \/ Join
  \/ \E j \in Jobs : Complete(j)
  \/ FinalEpoch
  \/ Flushing

Spec == Init /\ [][Next]_vars

(* The flush goes on: grounding returns and jobs have a deadline.  Nodes   *)
(* return, goroutines run, and the trunk and the branches come to their    *)
(* end.  No job has to finish.                                             *)
Returns(b) == (\E j \in Jobs : TrackStreamJob(b, j)) \/ ApplyBlocking(b) \/ BlockingFails(b)

FairSpec ==
  /\ Spec
  /\ WF_vars(Flushing) /\ WF_vars(FinalEpoch) /\ WF_vars(Join)
  /\ \A b \in Branches : WF_vars(CloneEnvelope(b))
  /\ \A b \in Walkers : WF_vars(Finish(b)) /\ WF_vars(Returns(b))
-----------------------------------------------------------------------------
(* Where the barrier stands: before the close it holds the open epoch and  *)
(* what is captured is stamped with the next, after it it holds the epoch  *)
(* before; after the final close no barrier comes.                         *)
BarrierState ==
  /\ flush.at \in {"ground", "retry", "await"} =>
       flush.epoch = epoch /\ \A i \in items : stamp[i] = epoch + 1
  /\ flush.at \in {"mirror", "report"} => flush.epoch + 1 = epoch
  /\ flush.at = "end" => flush.epoch + 1 = epoch \/ (flush.err /\ flush.epoch = epoch)
  /\ flush.at \notin {"ground", "retry"} => flush.items = {}
  /\ flush.final <=> flush.at # "idle" /\ finalized
  /\ \A k \in 1..Len(closed) : closed[k].final => finalized /\ flush.at \in {"idle", "end"}

(* Where the run stands: a barrier in flight is somebody's; the trunk does *)
(* nothing beside its branches; what has a job to track or a request to    *)
(* wait for runs, and its envelope is not past the epoch it goes by.       *)
WalkState ==
  /\ finalized => pc[Trunk] \in Over
  /\ flush.at # "idle" => finalized \/ \E b \in Walkers : pc[b] = "barrier"
  /\ (\E b \in Branches : pc[b] \notin {"unborn", "joined"}) =>
       pc[Trunk] = "running" /\ asked[Trunk] = 0 /\ \A j \in Jobs : <<Trunk, j>> \notin starting
  /\ \A b \in Walkers : asked[b] # 0 =>
       /\ pc[b] = "running" /\ \A j \in Jobs : <<b, j>> \notin starting
       /\ env[b] <= asked[b] /\ slice[b] <= asked[b] /\ asked[b] <= epoch
  /\ \A b \in Walkers, j \in Jobs : <<b, j>> \in starting => pc[b] = "running"

(* EnqueueCapture: "items enqueued mid-flush belong to the next barrier,   *)
(* never the one being closed": no item is queued or flushed under an      *)
(* epoch that has been closed, and none is stamped beyond the next.        *)
StampWindow ==
  /\ \A i \in items : stamp[i] \in {epoch, epoch + 1}
  /\ \A i \in flush.items : stamp[i] \in {flush.epoch, flush.epoch + 1}

(* barrier: "Concurrent barriers serialize on barrierMu: the second takes  *)
(* nothing already taken and cannot double-close": the closed events name  *)
(* the epochs one by one, each once, with none left out.  FinalEpoch "is   *)
(* idempotent so the deferred safety net and the explicit call do not      *)
(* double-close": its close is the last.                                   *)
ClosedInOrder ==
  /\ \A k \in 1..Len(closed) :
       closed[k].epoch = First + k - 1 /\ (closed[k].final => k = Len(closed))
  /\ epoch = First + Len(closed) + (IF flush.at \in {"mirror", "report"} THEN 1 ELSE 0)

(* "no item is lost or grounded twice" (TestConcurrentBarriersSerialize):  *)
(* every capture is still queued, or in the batch in flight, or grounded   *)
(* once, or given up with an error.                                        *)
CapturesAccounted ==
  \A i \in Items :
    /\ fate[i] = "pending" <=> i \in items
    /\ fate[i] = "taken" <=> i \in flush.items
    /\ Len(groundedBy[i]) = IF fate[i] = "grounded" THEN 1 ELSE 0

(* "env.AssemblyMetadata.EpochID mirrors c.epoch after each close", also   *)
(* when the close came with an error; no envelope, the run's or a          *)
(* branch's, has a slice of an epoch still to come, and the stale guard    *)
(* of ApplyResult never drops a result: not one a barrier awaited, nor one *)
(* a node waited for while other branches closed epochs, since the         *)
(* branch's own envelope is not told of those.                             *)
MirrorFollows ==
  /\ flush.at # "mirror" => env[Trunk] = epoch
  /\ \A b \in Walkers : env[b] <= epoch /\ slice[b] <= epoch
  /\ dropped = {}

(* FinalEpoch "flushes whatever exists": once the final barrier has taken  *)
(* the queues nothing is left in them or enters them.                      *)
NothingStranded == finalized => items = {} /\ jobs = {}

(* Every capture is grounded or reported as failed in the end. *)
CaptureSettles ==
  \A i \in Items : fate[i] = "pending" ~> fate[i] \in {"grounded", "failed"}

(* ApplyResult: "the epoch is stamped so every applied compilation is      *)
(* attributable to a memory state": a result is never applied as of an     *)
(* epoch before the one its request was made in, though it may be a later  *)
(* one when another branch's barrier came first.                           *)
NeverAppliedEarly ==
  \A j \in Jobs : appliedAs[j] # 0 => requestedAt[j] <= appliedAs[j]
=============================================================================
