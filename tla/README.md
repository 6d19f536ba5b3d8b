# Verification of relurpify

TLA+ models of the parts of relurpify that are concurrent, that survive crashes or
that sit at a numeric edge; TLC configurations that check them on small instances;
TLAPS proofs of the properties that matter most, for every size. Paths are relative
to the repository. `PROJECT.json` maps every definition to the lines it models and
lists components, runs, mutants, hazards, findings and theorems.

## Inventory

The repository is a Go application in the layers of `docs/ARCHITECTURE.md` with a
separate runner process per workspace, `ayenitd`. Most of it is sequential: configuration,
rule evaluation, prompt assembly, tool adapters, language-model loops. What follows
is the part with state that several actors change.

| part | state | operations | hard behaviours |
|---|---|---|---|
| jobs store, `context/jobsstore`, `jobs` | job records, ready index, running index, correlate index, checkpoints, event log | Create, Claim, Update, SaveCheckpoint, AppendEvent, recovery in Open | two workers claim at once; whole-record Update from a private copy; indexes that outlive records; a crash between any two transactions |
| executor, `ayenitd/executor.go` | worker goroutines, their copies, the run context | loop, runAttempt, fail, Start, Stop | stop, timeout and cancellation end in the same error; a failed transition; budgets across restarts |
| spool, `ayenitd/spool.go`, `spoolclient.go` | files in pending/, claimed/, failed/ | WriteSpoolFile, boot sweep, drainOnce, ingest, fail | crash of either side at any call; partial files; duplicates; a suspended writer |
| runner, `ayenitd/runner.go`, `status.go`, `execution/services/manager.go` | services, stop position, watchdog, status.json | Run, StartAll, StopAll, writeOnce, Stop of each service | stop order; heartbeat against the final flush; store closed under a call; a drain that must end |
| retry backoff, `jobs/handler.go` | base, attempt | NextBackoff | clamp, shift and cap must agree; wrapping |
| approval broker, `governance/authorization/hitl.go` | requests, waiters, channels, sweeper | RequestPermission, SubmitAsync, Approve, Deny, expireDue, Stop | decision against timeout against sweeper; a send outside the lock |
| bounded cache and ring, `governance/bounded` | map, order, ages; slots and indices | Get, Put, Delete, TakeIf, Sweep, Reset; Append, Snapshot | lazy expiry leaves keys in the order; indices that wrap together |
| epoch barrier, `execution/agentgraph/epoch.go` | epoch, queues, the flush, the envelope's mirror | EnqueueCapture, TrackStreamJob, barrier, FinalEpoch, ApplyResult | captures during a flush; grounding failure; late jobs; the final barrier called twice |
| scheduler, `execution/services/scheduler.go`, `cron.go` | loops, their copies of the jobs, in-flight marks, wait group | Start, Stop, runJobs, tryBegin, markRun, finish, cron matching | Start let in while a Stop waits; three separate updates of one tick against Stop's join |
| run coordinator, `app/relurpish/runtime` | live runs, intake, wake token, drain report | Register, done, DrainAndStop, Close | two runs under one id; a run leaving between look and sleep; lists read at three times |
| invalidation pass, `context/knowledge/invalidation.go`, `staleness.go`, `events.go` | pending chunks and revision, timer, kick, the subscription | Publish, receiveEvent, Drain, flush, propagation, retry | a fold in the middle of a flush; a half-failed propagation; a full channel only the loop empties |
| knowledge graph, `context/knowledge/graphdb`, `store.go`, `grounding.go` | disk records, memory mirror, batches under way | Ground, ApplyBatchChecked, Save, Delete, load | commit and apply are two steps; a decision made on data that changed; retries after a commit |
| audit chain, `governance/policy/chain_logger.go` | queue, chain files, head anchor, writer | Log, Query, appendLocked, rotation, writeHeadLocked, bootValidate, Close | a crash between chain and anchor; gaps in the sequence; Log against Close |
| runner supervisor, service registry, background delegation, index gate | | | not modelled, see the end |

How they meet: the application writes submissions into the spool; the runner's
watcher turns them into records of the jobs store; the executor claims, runs and
settles those; the status writer shows the store to the application, whose
supervisor decides by it whether to spawn or attach. Inside the application a graph
run registers with the run coordinator, asks the broker for approvals, which are
written to the audit chain, and closes its epochs at barriers, which drain the
invalidation pass and ground captures in the knowledge graph.

## Modules

Each component has its module; `MC*` modules give the constants values for TLC, and
`*Proofs` modules hold theorems: QueueProofs those of Spool, Backoff and Invalidation,
RunProofs those of RunCoordinator and Epoch, WaitingProofs those of HITLBroker and
Scheduler, BoundedProofs those of Runner, Ring and BoundedCache, GroundingProofs and
AuditProofs those of Grounding and AuditChain. Executor's proofs are two modules, each
small enough for the prover: ExecutorProofs has the invariants of store and workers,
ExecutorRefinement what follows from them. `MCRunnerParts` and `MCAppParts` put parts
that share no state into one run: a variable `part` says which one a behaviour
exercises, and the others rest in an initial state.

* **JobStore**: the records and indexes of the store. An operator ending in `Txn` is
  one Badger transaction. A time is kept as what the code asks of it: is the next
  attempt due, is CompletedAt set, which job was created first.
* **Executor** (extends JobStore): one `pc` per worker goroutine, one step per store
  call or return of a handler; Open with its recovery, Stop, store close and crash.
  `rec[w]` is the copy of the record the goroutine carries from Claim to Update. A
  call on a cancelled context fails without a transaction, as `retryTxnCtx` does.
  `seen` is a history variable: what handlers did.
* **JobLifecycle**: the abstract specification: a job is created once, attempted one
  at a time and within its budget, settled once. `Executor!ImplementsLifecycle` is
  the refinement, with the record's state and attempt as the mapping.
* **Spool**: `place[f]` says in which directory a file is and under what name. Client
  and watcher steps are single file-system calls or the Create transaction; both
  sides may die between any two. `answer` is what the caller of WriteSpoolFile knows.
* **Runner**: the process around both. Services start together and stop one by one
  from the end of the registration order; `ticking` and `flushing` are the two
  possible calls of writeOnce, cut at reading the flag, listing the store and
  renaming the file, which may fail (`unflushed`: that of the flush did). Executor and
  watcher appear as the shutdown sees them.
* **Backoff**: NextBackoff on machine integers of width `2 * Half`, along one job.
* **HITLBroker**: a locked section is a step; the select, the send into the waiter
  channel and the reports to the decision sink are steps of their own.
* **BoundedCache**, **Ring**: a method is a step, as each holds its mutex throughout.
* **Epoch**: the run and its branches share a coordinator. A branch works on a clone of the
  run's envelope (Fork, CloneEnvelope, Join), of which `env` is the epoch and `slice` that of
  what was streamed into it; each may capture, stream in the background or blocking, and take
  barriers. `flush` is the barrier that holds barrierMu and how far it has come. `fate`,
  `stamp`, `groundedBy`, `requestedAt`, `appliedAs`, `dropped` and `closed` are histories.
* **RunCoordinator**: calls of runCoordinated against one Close. Each locked section is
  a step; the two calls of waitForFinished are cut at the look at the ids, the look at
  the deadline and the sleep, so that a run can leave at each point. Which ids the
  calls come with is chosen in Init.
* **Scheduler**: calls of Start and Stop that overlap; a loop copies the jobs, reads the
  time once, and considers, begins and ends one job at a time. `crowded` and `met` are
  histories of the overlaps the properties have to except. A cron expression is its
  minute field: the other four go through the same matchCronField.
* **Invalidation**: publishers, the loop and Drain meet in the debounce buffer. The
  loop's own staled event goes into the channel that it alone empties. A store or
  reporter error may come at any call, part of its work done.
* **Grounding**: `disk` and `mirror` are the two copies of the graph; a call carries its
  decided writes from its commit to its apply. A chunk is its version, derivation
  generation, freshness, tombstone and list of grounding records. `owed` is a history:
  the chunks of a Ground's rejected commits that it has not applied since.
* **AuditChain**: producers, queries, the writer, Close, crash and boot. A record
  carries its day, and may come late. A hash is the sequence of records it covers. A
  write may leave half a line. `lost` holds the records the writer counted as dropped or
  a crash found queued. Two histories mark what puts the replay out of order: `damaged`,
  a write that failed or was torn; `misplaced`, a process that ended with an anchor that
  checks out and lines in a later file, or a writer with no file open, which goes by the
  day of its record alone and so may open a file that has others after it.

Operators introduced by "A slip:" are plausible mistakes in the definition that
follows them. No specification uses one. For each property of a passing run,
`PROJECT.json` names one or two slips which, put in the place of their definition, TLC
refutes.

## Runs

| run | instance | what it shows |
|---|---|---|
| executor | 2 workers, 2 jobs (budgets 2 and unset), 2 queues; faults, foreign cancellations, stops, crashes; 769k states | claims are exclusive; ready and running index are exact; resume tokens are backed; completions and failures are justified by what handlers did; terminal records stay; the whole implements JobLifecycle |
| executor_liveness | the same without store faults, one job of an unknown kind; 78k states | no record is left running with nobody on it; every job of a served queue is settled if the process stays up |
| runner | spool: 1 good and 1 malformed file, file and store faults, crashes of both sides; process: 2 jobs, 2 workers, all 4 services, failing status writes; 57k states | accepted submissions are never lost, jobs come only from accepted whole files, the spool drains once faults end; the store is closed last, the final status, if written, is the last and says draining, the drain ends |
| hitl | 2 blocking calls (one skips on timeout), 1 submission, sweeper; 76k states | one resolution per request; the sink hears of each ending; grants come from a person, but for those configured to be given on timeout; nothing is left behind; calls return and submissions settle |
| epoch | a run and 2 branches, 2 captures, 1 job, 1 blocking request, an adopted epoch; 624k states | epochs close once and in order; captures are never lost or grounded twice; the run's envelope follows the open epoch and no result is dropped; captures settle |
| app | seven parts, below; 1.04M states | see below |
| audit | 3 records, 1 query, queue of 2, files of 2 lines, 2 days, 2 lives, 1 fault; 1.51M states | a query sees every record logged before it; Close leaves nothing it owes; the files replay as one chain |
| delivery, drain, runner_flush, grounding_rejected, audit_resumes | | documented promises that the code does not keep, see below |

The parts of `app`:
* coordinator: 3 runs under 2 ids against Close. A run that survives the teardown is
  named and cancelled (SurvivorsNamed), the report is a partition of the listed runs
  (ReportPartitions), the closer never sleeps on after the last run (NoLostWakeup).
* scheduler: 2 Starts, 2 Stops, an interval and a cron job, 2 minutes. Beginnings of an
  interval job are further apart than its interval and no job runs twice at once
  (IntervalKept); Stop returns after the loop and all actions (StopJoins).
* grounding: 2 Ground calls with one- and two-item batches, derived items, 1 call that
  marks, tombstones or deletes, 1 retry, a restart. No acknowledged grounding is lost
  (NoLostMerge). In every step a tombstoned chunk stays so or rises in generation, unless
  a Save writes it or a restart loads a commit that memory had not taken
  (TombstoneHolds). With no commit under way disk and memory differ, on chunks that only
  Ground writes, in nothing but rejected commits whose call has not applied the chunk
  since (RetrySupersedes).
* invalidation: 4 chunks whose edges make a ring, depth 2, a channel of 1, 3 revisions, 2
  failures. What a flush cleared is propagated along outgoing edges to the full depth
  (PropagationComplete);
  work in the buffer has a timer or a kick (WorkHasWakeup).
* cache of 3 with 4 keys and a time to live of 2: only lazy expiry puts order and map
  out of step (OrderExact). Ring of 3: Snapshot is the last values in order
  (SnapshotIsRecent). Backoff: 15 valid bases around every limit, 9 failures each: the
  delay is the documented curve (DelayIsCurve).

**Why the bounds suffice.** Two workers and two jobs give every race over one record
and every order between two; a budget of two is the least with a retry, an unset one
is the edge of `max(MaxAttempts, 1)`. One good file already meets duplicates, since a
crash between Create and Remove ingests it twice; two submissions under one correlate
id are covered by the proofs. Two branches are the least that can race at a barrier.
Three runs under two ids give a refused duplicate, a successor under a freed id and a
bystander. Two Starts and two Stops give each overlap once; two minutes let an interval
of one pass. Two groundings give one conflict and its retry; a third caller writes past
them. A ring of four chunks with depth two has chunks inside and outside the limit and
a way back to the start. With chain files of two lines the third record rotates, and
with two days any record may come late, so that rollover, rotation and resumption meet.
The cache needs more keys than its cap and a clock that can pass the time to live
between any two calls. For backoff the width is 2^24 units of a second instead of 2^63
nanoseconds, which leaves 24 hours inside the clamp as in the code.

Symmetry: `app` permutes the scheduler's Starts and Stops, `audit` the records; both
check safety only. `hitl`, `epoch`, `app` and `audit` are checked without the deadlock
check: a run ends, all calls return, a job runs out of attempts, a process stays closed.
The others never stop for good.

**Fairness.** Weak fairness of goroutines that can go on is the Go scheduler.
Beyond it:
* Executor: backoffs run out (the clock) and handlers return (contract H2 of
  `jobs/handler.go`, and the attempt timeout). Nothing is assumed of stops, crashes or
  submissions.
* Spool: the watcher keeps going. `SpoolDrains` is conditional: the watcher stays up
  and its calls fail only finitely often.
* Runner: handlers return once their context is cancelled (H2); the watchdog fires;
  strong fairness for the status loop's return, because Go's select chooses at random
  among ready cases and so does not prefer the ticker for ever.
* HITLBroker: timers fire and the sweeper ticks; nobody has to answer.
* Epoch: grounding returns and awaiting a job has a deadline; branches clone, finish and
  are joined, a blocking request returns; the final barrier is taken; no job has to finish.

## Proofs

All are safety, for every value of the constants under the named assumptions. Each names
an inductive invariant, shows that Init implies it and that every action keeps it, one
step per action, and derives the properties from it. Every invariant and every action
property of a passing run is a theorem.

Three of them rest on recursion: the documented curve of the backoff, the search to a
depth and the files read as one sequence. The library's induction theorems take a
predicate as a parameter, which the provers cannot instantiate. The principle that a
non-empty set of naturals has a least member (from `WFMin`) needs no parameter, and gives
induction in the form "a set with 0, closed under successor, has every natural"
(`Induction`), and from it a function for every start and sequence of steps
(`Recursion`), so that the recursive definitions of the models can be unfolded.
QueueProofs and AuditProofs each have these lemmas, as a shared module would burden the
prover in all the others.

* **ExecutorProofs.** `IInv` joins TypeOK, exclusivity, the index properties, the
  budget, CompletedAt and resume tokens with `CopiesOK`. The last is the
  strengthening that makes it inductive: a worker's private copy is running and
  unfinished until its outcome is known; a copy about to be written is terminal, or
  queued with an attempt left; a copy with a resume token has a stored checkpoint; no
  worker runs while the process is down or recovering. `AbsentUntouched` says that a
  job not yet created has no attempts behind it. The proof is in three lemmas: types
  (`TypeStep`), store properties (`StoreInvStep`), worker properties (`WorkerInvStep`; a
  worker's own step leaves the other copies in order, `OwnStep`).
  From it: ClaimsExclusive, IndexesExact, BudgetKept, CompletedAtMarksTerminal,
  ResumeTokensBacked. Assumes finitely many jobs and natural MaxAttempts.
* **ExecutorRefinement.** TerminalForever follows from what the few actions that write a
  record find there (`JobWriters`). NothingOrphaned: recovery empties the running index
  before the workers start, then only Claim makes a record running and only its worker
  lets go of it (`OrphanInv`). OutcomesJustified: `OutcomeInv` adds to the property that
  the copy a worker is about to write is justified already, so that Update only carries
  it over. LifecycleImplemented shows each step to be one life-cycle move of one job or
  a stutter.
* **QueueProofs**, spool. `SInv` says that the watcher's file is where the watcher
  believes it to be (`WatcherOK`), what a client's answer implies about the place of its
  file (`ClientOK`), and that a job was made from a whole, well-formed file under its own
  correlate id (`JobOK`). From it: NoSubmissionLost, JobsComeFromSubmissions,
  FailedIsMalformed.
* **QueueProofs**, backoff. For a base that Spec.Valid lets in the shifted value never
  leaves the word (`ExactDelay`), so DelayBounded and DelayGrows. By induction over the
  attempt the curve, which doubles and caps at each step, equals the capped power of two
  that NextBackoff shifts to: DelaysFollowCurve, for every width, base and cap.
* **QueueProofs**, invalidation. `LoopInv` adds to WorkHasWakeup what a flush under way
  does not have in its hand: a revision or chunk folded meanwhile has a kick that
  outlives the flush. From it: WorkNotForgotten. `PropInv` says that what is pending or
  named by a staled event is stale already (`StaleIds`), so is what the flush has in its
  hand (`HandOK`), and once the flush has propagated so is all that its edges lead to
  (`HandReached`). That the level-by-level search meets the end of every path of edges
  within the limit is an induction along the path (`LedToIsMet`). From it:
  PropagationReaches, for every graph, depth limit and sequence of failures.
* **RunProofs**, coordinator. `CloseInv` says that a working run holds its own entry
  (`Holding`), what the closer's lists cover at each of its states (`Covering`,
  `Reporting`), and that the token is there from the moment the last run leaves, also
  between look and sleep (`Waking`): NoLostWakeup alone is not inductive, since the step
  into sleep would lose it. From it: NoUnreportedWriter, EachRunClassified, WakeupKept.
* **RunProofs**, epochs. `IInv` joins the properties with `BarrierState`: before the close
  the flush holds the open epoch and new captures carry the next; after it the flush
  holds the epoch before. `WalkState` says who can be where: the trunk waits for no request
  while a branch is at a barrier, the envelope of one that waits is not past the epoch it
  goes by, and nothing runs after the final barrier. One lemma per action. From it:
  StampsOpen, EpochsCloseOnce, NoCaptureLost, EnvelopeMirrors (MirrorFollows), FinalTakesAll.
  With `Attributed`, a job is requested in no epoch still to come: ResultsAttributed.
* **WaitingProofs**, broker. `BrokerInv` follows a request through the code: who takes a
  submission out of the pending state, the person or the sweeper, is the only one to
  report on it (`AsyncOK`); what the sink has of a blocking call at each of its states
  (`CallOK`); a blocking request is pending only while its waiter is there, so a decision
  takes one way, the locked section, the channel, the caller (`DecisionOK`). From it:
  ResolvedOnce, SinkTold, PersonDecides, RegistryCleared.
* **WaitingProofs**, scheduler. The wait group is the number of loops and actions it
  counts (`Counting`), and a Stop that met no Start has none on the way to its wait group
  (`Unmet`), so that zero means nothing runs and nothing will: StopLeavesNothing. A job is
  marked from tryBegin to finish, by one loop (`Marking`), and a loop that was always
  alone works on a copy that is up to date for the jobs still ahead (`Copying`), though
  it was taken before their predecessors ran: IntervalsRespected.
* **BoundedProofs**, runner. `RunnerInv` says what a stopped service can no longer do
  (`StoppedOK`), that the final flush follows the last heartbeat and nothing follows it
  (`FlushOK`), and that all services behind StopAll's position are stopped (`StopOrder`).
  From it, for every number of workers and jobs: StoreClosedLast, FlushIsLast.
* **BoundedProofs**, cache. Types with Evictable are inductive, through what removal and
  filtering do to the order (`DropFacts`, `FilterFacts`). From it: AlwaysEvictable and
  CapKept. OrderStaysExact needs besides that no key is in the order twice (`Once`):
  dropping a key drops its first place only.
* **BoundedProofs**, ring. `RingInv` locates the i-th retained value; indices wrap at most
  once (`WrapOnce`). From it: SnapshotExact for every capacity.
* **GroundingProofs**, for any batches, callers and retry bound. `IInv` joins NoLostMerge
  with the shape of chunks and of what calls carry. The weight is in two lemmas: what
  `Decide` writes for a chunk extends the list of grounding records it read, and a
  decision that still holds under the lock is the one taken now. From it: MergesKept.
  For RejectedIsSuperseded, `OwedInv` says of a chunk that only Ground writes: disk equals
  memory or some call owes it, and a commit that was overwritten is outdated by its
  version or owed by another (`Backed`); a second Ground may overwrite a first one's commit
  and be rejected itself. For TombstonesHold, generations stay below some number
  (`DatedInv`), so that `Generation`'s maximum exists and what Decide writes is a chunk.
  Three steps change memory: a Ground's apply, whose decision holds for the chunk as it
  is now (`GroundKeepsTombstone`), a restart, which loads a settled chunk as memory had it
  (`RestartKeepsSettled`), and a Save's apply, which the property excepts.
* **AuditProofs.** `AuditInv` says that while no file is corrupt each accepted record is in
  a file, counted as lost or in the queue; that what a waiting query has to see is safe
  already or ahead of the query's own barrier in the queue; and that a writer that is gone
  leaves nothing of what Close owes (`OnTheWay`). Files only grow (`Grows`) and a life that
  ended left no request behind (`DeadIsOver`). From it: QueriesSeeTheLogged, CloseDrains,
  for any number of producers, queries, lives and faults, and any capacity.
* **AuditProofs**, chain. The lines of all files in order are one sequence, defined by
  recursion over the files; a line appended to the last file is appended to it
  (`LinesLast`). `ChainInv` says of a log neither damaged nor misplaced: every line
  follows from the one before (`Whole`); a running writer goes by the number and hash of
  the last line and has no later file (`WriterAtEnd`; rotations are taken in order,
  `Filled`, and their two-digit names sort so, whence the assumption of at most 99); an
  anchor that checks out after the process ended has no lines behind it (`AnchorAtEnd`),
  so that the boot resumes at the end (`BootResumes`). From it: ChainStaysWhole, across
  any crashes, boots, rollovers, rotations and failed opens.

**Only model-checked:** liveness, which the prover does not reach: EventuallySettled,
SpoolDrains, DrainEnds, CallReturns, SubmissionSettles and CaptureSettles.

## Where code and text disagree

Shown by a run, with the quotations in `PROJECT.json`:
* delivery: a crash between Claim and Handle of a one-attempt job fails it for good
  without any delivery, against "delivery is at-least-once".
* drain: Stop cancels the context the workers need to record a success, so a handler
  that finishes during the drain is left to crash recovery.
* runner_flush: the final status is written before the executor drains, as the status
  writer is registered after it.
* grounding_rejected: a batch whose validation fails has been committed, and a chunk of it
  stays on disk if no retry commits again, or if the retry's decision leaves it out. If it
  was committed over a tombstone, a restart loads the chunk without it.
* audit_resumes: after a record in a later file, by the turn of the day or by rotation, and
  a crash before the next head write, boot finds the anchor in agreement with the older
  file and resumes behind the tail; so it does when a failed open prevented the head write,
  after a clean Close.

Met while modelling, visible in the models, without a run of their own:
* `executor.go:149` calls shutdown "lifecycle, not failure", but the interrupted
  attempt counts, and a one-attempt job is failed at the next Open.
* `executor.go:3-5` promises an event per transition; Update and AppendEvent are two
  transactions and the error of the second is ignored.
* `spool.go:45-46` says unknown fields are rejected; json.Unmarshal ignores them.
* `runner.go:135-137` says the grace bounds the wait; the watchdog only
  cancels contexts, so nothing bounds a handler that does not return.
* `handler.go:49-50` says the result can never wrap; a base from 2^58 up wraps at the
  sixth attempt. Spec.Valid keeps such bases out of the store.
* `hitl.go:498-500` says the blocking select consumes the decision; when the timer is
  ready too it may not, and Approve has succeeded all the same. A request that is granted on
  timeout (400-410) lets its caller go on while the sink hears that it expired.
* `epoch.go:192-193` says an item is stamped with the epoch that will carry it; after
  a failed grounding, or just after the advance, the stamp is one ahead.
* `contextstream/envelope.go:44-45` says an applied result is attributable to a memory
  state; it is stamped with the epoch that closes, not the one it was requested in.
  54-57 says that a result from before a barrier must still drop; in a branch it does not:
  branches run on cloned envelopes (`graph.go:574`), the merge takes back only working
  values and references, and a clone is not told of the epochs that others close.
* `bounded/cache.go:92-93` says inserting past the cap evicts the oldest entry; Get and
  TakeIf leave a lazily expired key in the order, and the next Put of it may evict the
  entry just inserted. OrderExact excepts such histories.
* `runcoordinator.go:25-27` says every run live at the barrier is classified; one that
  leaves between the close of the intake and the list of ids is in no class. A refused
  duplicate id is reported as "runtime is shutting down". An overlapping second Close
  returns from DrainAndStop at once and would tear the stores down under live runs.
* `scheduler.go`: Start takes the lock before it counts its loop in, so a Stop in between
  joins nothing; a Start after Stop's cancel runs beside the old loop. A cron step of
  zero never ends its loop, and a list whose member is a range is not supported.
* `invalidation.go:227-229` says revision events can be retried rather than lost, and
  247-248 that pending work is retained on failure; restoreRevision overwrites what a
  Drain folded meanwhile, chunks marked by a half-failed attempt are in no later event,
  and the loop may drop its own staled event when the channel is full. Nothing in
  production publishes revision events yet.
* `staleness.go:120` follows outgoing derives_from edges, and these run from a capture to
  its sources (`store.go:107`, `docs/ARCHITECTURE.md:181`): it marks what a stale chunk was
  derived from, not what is derived from it.
* `grounding.go:366-435`: of two items with one address in a batch the record of the earlier
  is overwritten, while both are reported as grounded.
* `chain_logger.go`: a Log that passed the closed check before Close returns nil for a
  record nobody writes, and a flush on a closing logger returns at once (533-535); a
  failed open leaves no gap for boot to report (389-392), while a failed write does;
  placement "STEPS FORWARD ONLY" (439-443) from an open file, but with none, after a boot or
  a failed open, a late record or one of a day with rotations goes before lines that are
  there; the hundredth rotation of a day, `r100`, sorts before `r11` (499, 676); one torn
  line makes the whole file unreadable to Query.
* `ops_node.go:44`: Save and Delete decide on a copy without validation, so two of them,
  or one beside a Ground, may leave disk and memory different. The properties of
  Grounding except such chunks (`saved`), as the code promises nothing for them.

## Left out

* Power loss: what a process renamed or committed stays. How much of a Badger commit
  survives one depends on Badger's options, which the code leaves at their defaults.
* StoreFaults covers read-write transactions; reads succeed while the context lives.
* HITLBroker leaves out subscribers, the permissive posture and colliding request ids;
  Epoch takes grounding as atomic (it is one call into another package), has one parallel
  section, and leaves out item content and two other blocking callers of ApplyResult, which
  go by the epoch of their own envelope (`chainer_agent.go:205`, `intake/pipeline.go:232`).
* RunCoordinator has one Close; Invalidation one life of its loop, and one chunk per
  path; Scheduler no registration after the start; Grounding no edges, no LRU mode and
  no Rebuild (only a test hook makes the engine dirty); AuditChain only strict classes,
  as the others are counted and dropped.

## Not modelled

* The runner supervisor (attach, spawn, heartbeat wait, stop with grace): its other half
  is an operating-system process, its signals and its exit, which a model could only
  choose freely.
* The service registry: in production one goroutine registers, starts and stops
  services; the ordered start and stop are in Runner.
* Background delegation and the index gate: sessions and indexing flags behind one mutex
  each, with a goroutine per session or file whose work is a delegation or a parse. They
  are the next candidates: completion against cancellation and delayed removal of a
  session, and an index under way when the manager is closed.
* The graph walk, reasoning strategies, prompt assembly, tools, model back ends,
  retrieval and ingestion: sequential code over text and the answers of a language
  model; what a model would check is the choice it put there.
* Policy, classification and permission rules, configuration, terminal interface:
  sequential evaluation of tables and wiring without shared state.
* No module composes Spool with JobStore: Spool uses Create only, which Executor has as
  its Submit, and the two share no other step.

This is most of the repository by lines, and little of its concurrent state; `PROJECT.json`
lists every component with its reason.
