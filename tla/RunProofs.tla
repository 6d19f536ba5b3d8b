----------------------------- MODULE RunProofs ------------------------------
(***************************************************************************)
(* Agent runs.  The run coordinator, for every set of runs and task ids:   *)
(* the closer never misses its last wake-up; when the stores go down, each *)
(* run that still works is named as abandoned and has been told to stop;   *)
(* and the report partitions the runs Close listed.                        *)
(*                                                                         *)
(* The epoch barrier inside a run, for any captures, jobs and branches:    *)
(* IInv adds to its safety properties where the barrier stands             *)
(* (BarrierState), and where the trunk and the branches do (WalkState).    *)
(***************************************************************************)
EXTENDS TLAPS, RunCoordinator, Epoch

(* The provers may take a minute for a leaf, and each leaf two attempts.   *)
USE SMTT(60), Z3T(60)

-----------------------------------------------------------------------------
(* The run coordinator. *)

Draining == {"looking", "deciding", "asleep"}
Reaping == {"cancelling", "relooking", "redeciding", "reasleep"}
Reported == {"reported", "down"}

(* A working run holds its id, and whoever holds an id works under it. *)
Holding ==
  /\ \A c \in Calls : phase[c] = "working" => runs[taskOf[c]] = c
  /\ \A t \in TaskIDs : runs[t] # NoRun => phase[runs[t]] = "working" /\ taskOf[runs[t]] = t

(* Each list Close has read still contains every run that is live: after   *)
(* the intake is closed the set of live runs only shrinks.                 *)
Covering ==
  /\ closer # "idle" => intake = "closed"
  /\ closer \notin {"idle", "listing"} => IDs \subseteq initial
  /\ closer \in {"deciding", "redeciding"} => IDs \subseteq seen
  /\ closer \in {"deciding", "asleep"} => seen \subseteq initial
  /\ closer \in Reaping => IDs \subseteq remaining /\ remaining \subseteq initial
  /\ closer \in {"redeciding", "reasleep"} => seen \subseteq remaining
  /\ closer \in {"relooking", "redeciding", "reasleep"} => parentDone

(* The report, class by class, as far as Close has come. *)
Reporting ==
  /\ closer \in {"idle", "listing"} \cup Draining =>
       \A k \in Classes : report[k] = {}
  /\ closer \in Reaping => /\ report["completed"] = initial \ remaining
                           /\ report["cancelled"] = {} /\ report["abandoned"] = {}
  /\ closer \in Reported =>
       /\ report["completed"] \cup report["cancelled"] \cup report["abandoned"] = initial
       /\ report["completed"] \cap report["cancelled"] = {}
       /\ report["completed"] \cap report["abandoned"] = {}
       /\ report["cancelled"] \cap report["abandoned"] = {}
       /\ IDs \subseteq report["abandoned"]
       /\ IDs # {} => parentDone

(* The token is there from the moment the last run leaves, also between    *)
(* the closer's look and its sleep.                                        *)
Waking ==
  /\ closer \in {"deciding", "redeciding"} /\ seen # {} /\ IDs = {} => wake
  /\ NoLostWakeup

CloseInv == CoordinatorTypeOK /\ Holding /\ Covering /\ Reporting /\ Waking

(* The inductive invariant implies the three properties. *)
LEMMA CloseInvImplies == CloseInv => SurvivorsNamed /\ ReportPartitions /\ NoLostWakeup
<1> SUFFICES ASSUME CloseInv PROVE SurvivorsNamed /\ ReportPartitions /\ NoLostWakeup
  OBVIOUS
<1>1. SurvivorsNamed
  <2> SUFFICES ASSUME closer = "down", NEW c \in Calls, phase[c] = "working"
               PROVE  taskOf[c] \in report["abandoned"] /\ parentDone
    BY DEF SurvivorsNamed
  <2>1. taskOf[c] \in IDs
    BY NoRunAssumption DEF CloseInv, Holding, IDs, CoordinatorTypeOK
  <2> QED BY <2>1 DEF CloseInv, Reporting, Reported
<1>2. ReportPartitions
  <2> SUFFICES ASSUME closer \in {"reported", "down"}
               PROVE  /\ UNION {report[k] : k \in Classes} = initial
                      /\ \A j, k \in Classes : j # k => report[j] \cap report[k] = {}
    BY DEF ReportPartitions
  <2>1. UNION {report[k] : k \in Classes}
          = report["completed"] \cup report["cancelled"] \cup report["abandoned"]
    BY DEF Classes
  <2> QED BY <2>1 DEF CloseInv, Reporting, Reported, Classes
<1> QED BY <1>1, <1>2 DEF CloseInv, Waking

(* Everything is empty before the first registration. *)
LEMMA InitCloseInv == CoordinatorInit => CloseInv
<1> SUFFICES ASSUME CoordinatorInit PROVE CloseInv
  OBVIOUS
<1>1. IDs = {}
  BY DEF CoordinatorInit, IDs
<1>2. parentDone \in BOOLEAN /\ wake \in BOOLEAN /\ deadline \in BOOLEAN
  BY Zenon DEF CoordinatorInit
<1>3. CoordinatorTypeOK
  BY <1>2 DEF CoordinatorInit, CoordinatorTypeOK, EmptyReport, CloserStates
<1>4. Holding /\ Covering /\ Reporting /\ Waking
  BY <1>1 DEF CoordinatorInit, Holding, Covering, Reporting, Waking, NoLostWakeup, EmptyReport,
     Draining, Reaping, Reported
<1> QED BY <1>3, <1>4 DEF CloseInv

(* Register: it adds a run only while the intake is open, that is, before  *)
(* Close has read anything.                                                *)
LEMMA RegisterKeeps ==
  ASSUME CloseInv, NEW c \in Calls, Register(c)
  PROVE  CloseInv'
<1> USE DEF CloseInv, Register, closeVars
<1>1. CoordinatorTypeOK'
  BY DEF CoordinatorTypeOK
<1>2. Holding'
  BY NoRunAssumption DEF Holding, CoordinatorTypeOK
<1>3. CASE UNCHANGED runs
  <2>1. IDs' = IDs
    BY <1>3 DEF IDs
  <2> QED BY <1>1, <1>2, <2>1 DEF Covering, Reporting, Waking, NoLostWakeup
<1>4. CASE intake # "closed"
  <2>1. closer = "idle"
    BY <1>4 DEF Covering
  <2> QED BY <1>1, <1>2, <2>1 DEF Covering, Reporting, Waking, NoLostWakeup, Draining, Reaping,
             Reported
<1> QED BY <1>3, <1>4

(* Done: the live ids shrink, and the token is set when they do. *)
LEMMA DoneKeeps ==
  ASSUME CloseInv, NEW c \in Calls, Done(c)
  PROVE  CloseInv'
<1> USE DEF CloseInv, Done, closeVars
<1>0. wake' \in BOOLEAN
  BY Zenon DEF CoordinatorTypeOK
<1>1. CoordinatorTypeOK'
  BY <1>0 DEF CoordinatorTypeOK
<1>2. Holding'
  BY NoRunAssumption DEF Holding, CoordinatorTypeOK
<1>3. runs[taskOf[c]] = c /\ wake'
  BY DEF Holding
<1>4. IDs' \subseteq IDs
  BY <1>3 DEF IDs, CoordinatorTypeOK
<1>5. Covering'
  BY <1>4 DEF Covering
<1>6. Reporting'
  BY <1>4 DEF Reporting
<1>7. Waking'
  BY <1>3 DEF Waking, NoLostWakeup
<1> QED BY Zenon, <1>1, <1>2, <1>5, <1>6, <1>7

(* The steps of Close that only read or wait for a wake-up. *)
LEMMA WaitKeeps ==
  ASSUME CloseInv,
         \/ Look("looking", "deciding") \/ Look("relooking", "redeciding")
         \/ Sleep("deciding", "asleep") \/ Sleep("redeciding", "reasleep")
         \/ Wakes("asleep", "looking") \/ Wakes("reasleep", "relooking")
  PROVE  CloseInv'
<1> USE DEF CloseInv, Look, Sleep, Wakes
<1>0. IDs' = IDs /\ IDs \subseteq TaskIDs /\ report' = report
  BY DEF IDs
<1>1. CoordinatorTypeOK'
  <2>1. parentDone' \in BOOLEAN /\ wake' \in BOOLEAN /\ deadline' \in BOOLEAN
    BY Zenon DEF CoordinatorTypeOK
  <2> QED BY <1>0, <2>1 DEF CoordinatorTypeOK, CloserStates
<1>2. Holding' /\ Covering'
  BY <1>0 DEF Holding, Covering, Reaping
<1>3. Reporting'
  BY <1>0 DEF Reporting, Draining, Reaping, Reported
<1>4. Waking'
  BY <1>0 DEF Waking, NoLostWakeup
<1> QED BY Zenon, <1>1, <1>2, <1>3, <1>4

(* Its other steps that write no report. *)
LEMMA PhaseKeeps ==
  ASSUME CloseInv, CloseIntake \/ ListInitial \/ DeadlinePasses \/ CancelParent \/ Teardown
  PROVE  CloseInv'
<1> USE DEF CloseInv, CloseIntake, ListInitial, DeadlinePasses, CancelParent, Teardown
<1>0. IDs' = IDs /\ IDs \subseteq TaskIDs /\ report' = report
  BY DEF IDs
<1>1. CoordinatorTypeOK'
  <2>1. parentDone' \in BOOLEAN /\ wake' \in BOOLEAN /\ deadline' \in BOOLEAN
    BY Zenon DEF CoordinatorTypeOK
  <2> QED BY <1>0, <2>1 DEF CoordinatorTypeOK, CloserStates
<1>2. Holding' /\ Covering'
  BY <1>0 DEF Holding, Covering, Reaping
<1>3. Reporting'
  BY <1>0 DEF Reporting, Draining, Reaping, Reported
<1>4. Waking'
  BY <1>0 DEF Waking, NoLostWakeup
<1> QED BY Zenon, <1>1, <1>2, <1>3, <1>4

(* The steps of Close that write the report. *)
LEMMA SurvivorsKeep ==
  ASSUME CloseInv, Drained \/ DrainExpires \/ Reaped
  PROVE  CloseInv'
<1> USE DEF CloseInv
<1>0. IDs' = IDs /\ initial \subseteq TaskIDs /\ seen \subseteq TaskIDs
  BY DEF IDs, Drained, DrainExpires, Reaped, CoordinatorTypeOK
<1>1. CoordinatorTypeOK'
  BY <1>0 DEF CoordinatorTypeOK, CloserStates, Classes, Drained, DrainExpires, Reaped
<1>2. Holding'
  BY DEF Holding, Drained, DrainExpires, Reaped
<1>3. Covering'
  BY <1>0 DEF Covering, Reaping, Drained, DrainExpires, Reaped
<1>4. Reporting'
  <2> USE DEF CoordinatorTypeOK, Classes, Draining, Reaping, Reported
  <2>1. CASE Drained
    BY <1>0, <2>1 DEF Drained, Reporting, Covering
  <2>2. CASE DrainExpires
    BY <1>0, <2>2 DEF DrainExpires, Reporting, Covering
  <2>3. CASE Reaped
    BY <1>0, <2>3 DEF Reaped, Reporting, Covering
  <2> QED BY <2>1, <2>2, <2>3
<1>5. Waking'
  BY <1>0 DEF Waking, NoLostWakeup, Drained, DrainExpires, Reaped
<1> QED BY Zenon, <1>1, <1>2, <1>3, <1>4, <1>5

(* Every step preserves the inductive invariant. *)
LEMMA CloseInvHolds == CoordinatorSpec => []CloseInv
<1>1. CloseInv /\ [CoordinatorNext]_coordinatorVars => CloseInv'
  <2> SUFFICES ASSUME CloseInv, [CoordinatorNext]_coordinatorVars PROVE CloseInv'
    OBVIOUS
  <2>1. CASE UNCHANGED coordinatorVars
    BY <2>1 DEF coordinatorVars, closeVars, CloseInv, CoordinatorTypeOK, Holding, Covering, Reporting,
       Waking, NoLostWakeup, IDs
  <2>2. CASE CoordinatorNext
    BY <2>2, RegisterKeeps, DoneKeeps, WaitKeeps, PhaseKeeps, SurvivorsKeep DEF CoordinatorNext
  <2> QED BY <2>1, <2>2
<1> QED BY <1>1, InitCloseInv, PTL DEF CoordinatorSpec

(* Runtime.Close, "teardown never races an active writer": a run that      *)
(* survives the drain and the reap is reported and cancelled before the    *)
(* stores go down.                                                         *)
THEOREM NoUnreportedWriter == CoordinatorSpec => []SurvivorsNamed
BY CloseInvHolds, CloseInvImplies, PTL

(* RunDrainReport: completed, cancelled and abandoned partition the runs   *)
(* that Close listed.                                                      *)
THEOREM EachRunClassified == CoordinatorSpec => []ReportPartitions
BY CloseInvHolds, CloseInvImplies, PTL

(* waitForFinished: the last done() is never missed, so Close does not     *)
(* sleep out its deadline.                                                 *)
THEOREM WakeupKept == CoordinatorSpec => []NoLostWakeup
BY CloseInvHolds, CloseInvImplies, PTL

-----------------------------------------------------------------------------
(* The epoch barrier. *)

(* The inductive invariant. *)
IInv ==
  /\ TypeOK /\ BarrierState /\ StampWindow /\ ClosedInOrder
  /\ CapturesAccounted /\ MirrorFollows /\ WalkState /\ NothingStranded

(* A coordinator starts at the epoch it adopts, which is not zero. *)
LEMMA FirstPositive == First \in Nat /\ First > 0
BY AdoptedAssumption DEF First

(* The trunk is none of the branches. *)
LEMMA WalkersFacts ==
  /\ Trunk \in Walkers /\ Trunk \notin Branches /\ Branches \subseteq Walkers
  /\ \A b \in Walkers : b = Trunk \/ b \in Branches
BY TrunkAssumption DEF Walkers

(* A new coordinator satisfies the invariant. *)
LEMMA InitInv == Init => IInv
<1> SUFFICES ASSUME Init PROVE IInv OBVIOUS
<1> USE FirstPositive, WalkersFacts DEF Init, NoFlush
<1>1. TypeOK
  <2>1. inFlush = (flush.at # "idle") BY Zenon
  <2>2. flush \in [at: {"idle", "ground", "retry", "await", "mirror", "report", "end"},
                  final: BOOLEAN, epoch: Nat, items: SUBSET Items, jobs: SUBSET Jobs, err: BOOLEAN]
    OBVIOUS
  <2>3. groundedBy \in [Items -> Seq(Nat)] /\ closed \in Seq([epoch: Nat, final: BOOLEAN]) OBVIOUS
  <2>4. /\ epoch \in Nat /\ env \in [Walkers -> Nat] /\ slice \in [Walkers -> Nat]
        /\ finals \in 0..2 /\ asked \in [Walkers -> Nat] /\ blocking \in Nat
    OBVIOUS
  <2>5. /\ items \in SUBSET Items /\ jobs \in SUBSET Jobs /\ finalized \in BOOLEAN
        /\ starting \in SUBSET (Walkers \X Jobs) /\ ready \in SUBSET Jobs /\ dropped \in SUBSET Walkers
    BY Zenon
  <2>6. /\ pc \in [Walkers -> Places]
        /\ fate \in [Items -> {"new", "pending", "taken", "grounded", "failed"}]
    BY DEF Places
  <2>7. stamp \in [Items -> Nat] /\ requestedAt \in [Jobs -> Nat] /\ appliedAs \in [Jobs -> Nat] OBVIOUS
  <2> HIDE DEF Init, NoFlush
  <2> QED BY <2>1, <2>2, <2>3, <2>4, <2>5, <2>6, <2>7 DEF TypeOK
<1>2. BarrierState BY DEF BarrierState
<1>3. StampWindow BY DEF StampWindow
<1>4. ClosedInOrder BY DEF ClosedInOrder
<1>5. CapturesAccounted BY Zenon DEF CapturesAccounted
<1>6. MirrorFollows BY DEF MirrorFollows
<1>7. WalkState BY DEF WalkState, Over
<1>8. NothingStranded BY DEF NothingStranded
<1> QED BY <1>1, <1>2, <1>3, <1>4, <1>5, <1>6, <1>7, <1>8 DEF IInv

(* What runs is not after the final barrier. *)
LEMMA RunningNotFinal ==
  ASSUME WalkState, NEW b \in Walkers, pc[b] = "running"
  PROVE  ~finalized
<1>1. CASE b = Trunk
  BY <1>1 DEF WalkState, Over
<1>2. CASE b \in Branches
  BY <1>2 DEF WalkState, Over
<1> QED BY <1>1, <1>2, WalkersFacts, Zenon

(* With a barrier in flight the trunk waits for no request. *)
LEMMA TrunkNotAsking ==
  ASSUME WalkState, flush.at # "idle"
  PROVE  asked[Trunk] = 0
<1> SUFFICES ASSUME asked[Trunk] # 0 PROVE FALSE
  OBVIOUS
<1>1. pc[Trunk] = "running" /\ \A b \in Branches : pc[b] \in {"unborn", "joined"}
  BY WalkersFacts, Zenon DEF WalkState
<1>2. PICK b \in Walkers : pc[b] = "barrier"
  BY <1>1, WalkersFacts, RunningNotFinal, Zenon DEF WalkState
<1> QED BY <1>1, <1>2, WalkersFacts

(* EnqueueCapture: a capture made in a flush is stamped with the next epoch. *)
LEMMA EnqueueKeeps ==
  ASSUME IInv, NEW b \in Walkers, NEW i \in Items, EnqueueCapture(b, i)
  PROVE  IInv'
<1> USE FirstPositive, WalkersFacts DEF IInv, EnqueueCapture, Runs, coordinator, run, envelope, history
<1>0. inFlush <=> flush.at # "idle" BY Zenon DEF TypeOK
<1>1. TypeOK' BY DEF TypeOK, BarrierState
<1>2. BarrierState' BY <1>0 DEF BarrierState, TypeOK
<1>3. StampWindow' BY DEF StampWindow, TypeOK, BarrierState
<1>4. ClosedInOrder'
  <2>1. epoch' = epoch /\ closed' = closed /\ flush' = flush
    OBVIOUS
  <2> QED BY <2>1, Zenon DEF ClosedInOrder
<1>5. CapturesAccounted' BY DEF CapturesAccounted, TypeOK, BarrierState
<1>6. MirrorFollows' BY DEF MirrorFollows, TypeOK, BarrierState
<1>7. WalkState' BY DEF WalkState, Over, TypeOK, BarrierState
<1>8. NothingStranded'
  <2>1. ~finalized /\ finalized' = finalized
    BY RunningNotFinal
  <2> HIDE DEF IInv, EnqueueCapture, Runs
  <2> QED BY <2>1 DEF NothingStranded
<1> QED BY <1>1, <1>2, <1>3, <1>4, <1>5, <1>6, <1>7, <1>8, Zenon

(* RequestBackground changes nothing the coordinator looks at. *)
LEMMA RequestKeeps ==
  ASSUME IInv, NEW b \in Walkers, NEW j \in Jobs, RequestBackground(b, j)
  PROVE  IInv'
<1> USE FirstPositive, WalkersFacts DEF IInv, RequestBackground, Runs, coordinator, run, envelope, history
<1>1. TypeOK' BY DEF TypeOK, BarrierState
<1>2. BarrierState' BY DEF BarrierState, TypeOK
<1>3. StampWindow' BY DEF StampWindow, TypeOK, BarrierState
<1>4. ClosedInOrder'
  <2>1. epoch' = epoch /\ closed' = closed /\ flush' = flush
    OBVIOUS
  <2> QED BY <2>1, Zenon DEF ClosedInOrder
<1>5. CapturesAccounted' BY DEF CapturesAccounted, TypeOK, BarrierState
<1>6. MirrorFollows' BY DEF MirrorFollows, TypeOK, BarrierState
<1>7. WalkState' BY DEF WalkState, Over, TypeOK, BarrierState
<1>8. NothingStranded' BY DEF NothingStranded, TypeOK, BarrierState
<1> QED BY <1>1, <1>2, <1>3, <1>4, <1>5, <1>6, <1>7, <1>8, Zenon

(* TrackStreamJob: the branch still runs, so the run is not final. *)
LEMMA TrackKeeps ==
  ASSUME IInv, NEW b \in Walkers, NEW j \in Jobs, TrackStreamJob(b, j)
  PROVE  IInv'
<1> USE FirstPositive, WalkersFacts DEF IInv, TrackStreamJob, coordinator, run, envelope, history
<1>1. TypeOK' BY DEF TypeOK, BarrierState
<1>2. BarrierState' BY DEF BarrierState, TypeOK
<1>3. StampWindow' BY DEF StampWindow, TypeOK, BarrierState
<1>4. ClosedInOrder'
  <2>1. epoch' = epoch /\ closed' = closed /\ flush' = flush
    OBVIOUS
  <2> QED BY <2>1, Zenon DEF ClosedInOrder
<1>5. CapturesAccounted' BY DEF CapturesAccounted, TypeOK, BarrierState
<1>6. MirrorFollows' BY DEF MirrorFollows, TypeOK, BarrierState
<1>7. WalkState' BY DEF WalkState, Over, TypeOK, BarrierState
<1>8. NothingStranded'
  <2>1. pc[b] = "running" /\ finalized' = finalized
    BY Zenon DEF WalkState
  <2>2. ~finalized
    BY <2>1, RunningNotFinal
  <2> HIDE DEF IInv, TrackStreamJob
  <2> QED BY <2>1, <2>2 DEF NothingStranded
<1> QED BY <1>1, <1>2, <1>3, <1>4, <1>5, <1>6, <1>7, <1>8, Zenon

(* Complete: the result of a job waits for its barrier. *)
LEMMA CompleteKeeps ==
  ASSUME IInv, NEW j \in Jobs, Complete(j)
  PROVE  IInv'
<1> USE FirstPositive, WalkersFacts DEF IInv, Complete, coordinator, run, envelope, history
<1>1. TypeOK' BY DEF TypeOK, BarrierState
<1>2. BarrierState' BY DEF BarrierState, TypeOK
<1>3. StampWindow' BY DEF StampWindow, TypeOK, BarrierState
<1>4. ClosedInOrder'
  <2>1. epoch' = epoch /\ closed' = closed /\ flush' = flush
    OBVIOUS
  <2> QED BY <2>1, Zenon DEF ClosedInOrder
<1>5. CapturesAccounted' BY DEF CapturesAccounted, TypeOK, BarrierState
<1>6. MirrorFollows' BY DEF MirrorFollows, TypeOK, BarrierState
<1>7. WalkState' BY DEF WalkState, Over, TypeOK, BarrierState
<1>8. NothingStranded' BY DEF NothingStranded, TypeOK, BarrierState
<1> QED BY <1>1, <1>2, <1>3, <1>4, <1>5, <1>6, <1>7, <1>8, Zenon

(* A step of the trunk or a branch that leaves the coordinator alone. *)
LEMMA WalkKeeps ==
  ASSUME IInv, UNCHANGED <<coordinator, starting, ready, finals, appliedAs, history>>,
         pc' \in [Walkers -> Places], asked' \in [Walkers -> Nat], blocking' \in Nat,
         env' \in [Walkers -> Nat], slice' \in [Walkers -> Nat], MirrorFollows', WalkState'
  PROVE  IInv'
<1>0. /\ epoch' = epoch /\ inFlush' = inFlush /\ items' = items /\ jobs' = jobs
      /\ finalized' = finalized /\ flush' = flush /\ starting' = starting /\ ready' = ready
      /\ finals' = finals /\ appliedAs' = appliedAs /\ fate' = fate /\ stamp' = stamp
      /\ groundedBy' = groundedBy /\ requestedAt' = requestedAt /\ closed' = closed
  BY DEF coordinator, history
<1>1. TypeOK'
  <2>1. dropped' \in SUBSET Walkers
    BY DEF MirrorFollows
  <2> QED BY <1>0, <2>1, Zenon DEF IInv, TypeOK
<1>2. BarrierState' BY <1>0, Zenon DEF IInv, BarrierState
<1>3. StampWindow' BY <1>0, Zenon DEF IInv, StampWindow
<1>4. ClosedInOrder' BY <1>0, Zenon DEF IInv, ClosedInOrder
<1>5. CapturesAccounted' BY <1>0, Zenon DEF IInv, CapturesAccounted
<1>8. NothingStranded' BY <1>0, Zenon DEF IInv, NothingStranded
<1> QED BY <1>1, <1>2, <1>3, <1>4, <1>5, <1>8, Zenon DEF IInv

(* A running walker goes on or ends, with requests that are in order. *)
LEMMA MoveKeeps ==
  ASSUME IInv, NEW b \in Walkers, pc[b] = "running",
         b = Trunk => \A c \in Branches : pc[c] \in {"unborn", "joined"},
         NEW to \in {"running", "finished", "failed"}, pc' = [pc EXCEPT ![b] = to],
         \A j \in Jobs : <<b, j>> \notin starting,
         UNCHANGED <<finalized, flush, starting, epoch>>, asked' \in [Walkers -> Nat],
         \A c \in Walkers : c # b => asked'[c] = asked[c] /\ env'[c] = env[c] /\ slice'[c] = slice[c],
         asked'[b] # 0 => /\ to = "running" /\ env'[b] <= asked'[b]
                          /\ slice'[b] <= asked'[b] /\ asked'[b] <= epoch
  PROVE  WalkState' /\ pc' \in [Walkers -> Places]
<1>0. WalkState /\ pc \in [Walkers -> Places]
  BY DEF IInv, TypeOK
<1>1. /\ pc'[b] = to /\ \A c \in Walkers : c # b => pc'[c] = pc[c]
      /\ pc' \in [Walkers -> Places]
  BY <1>0 DEF Places
<1>2. finalized' = finalized /\ flush' = flush /\ starting' = starting /\ epoch' = epoch
  OBVIOUS
<1>a. ~finalized
  <2>1. pc[b] = "running"
    OBVIOUS
  <2> QED BY <1>0, <2>1, RunningNotFinal
<1>3. ~finalized'
  BY <1>2, <1>a
<1>4. flush'.at # "idle" => \E c \in Walkers : pc'[c] = "barrier"
  <2>1. ASSUME flush.at # "idle" PROVE \E c \in Walkers : pc[c] = "barrier"
    BY <1>0, <1>a, <2>1 DEF WalkState
  <2> QED BY <1>1, <1>2, <2>1
<1>5. ASSUME NEW a \in Branches, pc'[a] \notin {"unborn", "joined"}
      PROVE  pc'[Trunk] = "running" /\ asked'[Trunk] = 0 /\ \A j \in Jobs : <<Trunk, j>> \notin starting'
  <2>1. CASE b = Trunk
    BY <1>1, <1>5, <2>1, WalkersFacts, Zenon
  <2>2. CASE b # Trunk
    <3>1. b \in Branches /\ pc[b] \notin {"unborn", "joined"}
      BY <2>2, WalkersFacts
    <3>2. pc[Trunk] = "running" /\ asked[Trunk] = 0 /\ \A j \in Jobs : <<Trunk, j>> \notin starting
      BY <1>0, <3>1, Zenon DEF WalkState
    <3> QED BY <1>1, <1>2, <2>2, <3>2, WalkersFacts, Zenon
  <2> QED BY <2>1, <2>2, Zenon
<1>6. ASSUME NEW c \in Walkers, asked'[c] # 0
      PROVE  /\ pc'[c] = "running" /\ \A j \in Jobs : <<c, j>> \notin starting'
             /\ env'[c] <= asked'[c] /\ slice'[c] <= asked'[c] /\ asked'[c] <= epoch'
  <2>1. CASE c = b
    BY <1>1, <1>2, <1>6, <2>1, Zenon
  <2>2. CASE c # b
    BY <1>0, <1>1, <1>2, <1>6, <2>2, Zenon DEF WalkState
  <2> QED BY <2>1, <2>2, Zenon
<1>7. ASSUME NEW c \in Walkers, NEW j \in Jobs, <<c, j>> \in starting' PROVE pc'[c] = "running"
  BY <1>0, <1>1, <1>2, <1>7, Zenon DEF WalkState
<1> QED BY <1>1, <1>3, <1>4, <1>5, <1>6, <1>7, Zenon DEF WalkState

(* The mirror does not depend on where the walkers are. *)
LEMMA MirrorFrame ==
  ASSUME MirrorFollows, UNCHANGED <<flush, epoch, env, slice, dropped>>
  PROVE  MirrorFollows'
<1>1. flush' = flush /\ epoch' = epoch /\ env' = env /\ slice' = slice /\ dropped' = dropped
  OBVIOUS
<1> QED BY <1>1, Zenon DEF MirrorFollows

(* Fork: with the trunk running and no branch yet, no barrier is in flight. *)
LEMMA ForkKeeps ==
  ASSUME IInv, Fork
  PROVE  IInv'
<1>0. WalkState /\ TypeOK /\ MirrorFollows
  BY Zenon DEF IInv
<1>1. /\ pc[Trunk] = "running" /\ asked[Trunk] = 0 /\ \A j \in Jobs : <<Trunk, j>> \notin starting
      /\ \A b \in Branches : pc[b] = "unborn"
  BY Zenon DEF Fork, Runs
<1>2. /\ UNCHANGED <<coordinator, starting, ready, finals, appliedAs, history>>
      /\ UNCHANGED <<flush, epoch, env, slice, dropped>>
      /\ asked' = asked /\ blocking' = blocking /\ env' = env /\ slice' = slice /\ finalized' = finalized
      /\ flush' = flush /\ starting' = starting /\ epoch' = epoch
  BY DEF Fork, coordinator, envelope
<1>3. /\ pc' \in [Walkers -> Places] /\ pc'[Trunk] = "running"
      /\ \A b \in Branches : pc'[b] = "cloning"
  BY <1>0, <1>1, WalkersFacts DEF Fork, TypeOK, Places
<1>4. ~finalized
  BY <1>0, <1>1, RunningNotFinal, WalkersFacts, Zenon
<1>5. flush.at = "idle"
  <2> SUFFICES ASSUME flush.at # "idle" PROVE FALSE OBVIOUS
  <2>1. PICK b \in Walkers : pc[b] = "barrier"
    BY <1>0, <1>4, Zenon DEF WalkState
  <2> QED BY <1>1, <2>1, WalkersFacts
<1>6. ASSUME NEW b \in Branches PROVE asked[b] = 0 /\ \A j \in Jobs : <<b, j>> \notin starting
  <2>1. pc[b] # "running"
    BY <1>1
  <2> QED BY <1>0, <2>1, WalkersFacts, Zenon DEF WalkState
<1>7. WalkState'
  <2>1. ASSUME NEW b \in Walkers PROVE asked'[b] = 0 /\ \A j \in Jobs : <<b, j>> \notin starting'
    BY <1>1, <1>2, <1>6, WalkersFacts, Zenon
  <2> QED BY <1>2, <1>3, <1>4, <1>5, <2>1, WalkersFacts, Zenon DEF WalkState
<1>8. MirrorFollows'
  BY <1>0, <1>2, MirrorFrame, Zenon
<1> QED BY <1>0, <1>2, <1>3, <1>7, <1>8, WalkKeeps, Zenon DEF TypeOK

(* CloneEnvelope: the branch takes what the run's envelope holds. *)
LEMMA CloneKeeps ==
  ASSUME IInv, NEW b \in Branches, CloneEnvelope(b)
  PROVE  IInv'
<1>0. /\ WalkState /\ MirrorFollows /\ b \in Walkers /\ b # Trunk /\ Trunk \in Walkers
      /\ pc \in [Walkers -> Places] /\ env \in [Walkers -> Nat] /\ slice \in [Walkers -> Nat]
      /\ asked \in [Walkers -> Nat] /\ blocking \in Nat
  BY WalkersFacts, Zenon DEF IInv, TypeOK
<1>1. pc[b] = "cloning" /\ pc[b] \notin {"unborn", "joined"}
  BY DEF CloneEnvelope
<1>2. /\ UNCHANGED <<coordinator, starting, ready, finals, appliedAs, history>>
      /\ asked' = asked /\ blocking' = blocking /\ dropped' = dropped /\ finalized' = finalized
      /\ flush' = flush /\ starting' = starting /\ epoch' = epoch
  BY DEF CloneEnvelope, coordinator
<1>3. /\ pc' \in [Walkers -> Places] /\ pc'[b] = "running"
      /\ \A c \in Walkers : c # b => pc'[c] = pc[c]
  BY <1>0 DEF CloneEnvelope, Places
<1>4. /\ env' \in [Walkers -> Nat] /\ slice' \in [Walkers -> Nat]
      /\ env'[b] = env[Trunk] /\ slice'[b] = slice[Trunk]
      /\ \A c \in Walkers : c # b => env'[c] = env[c] /\ slice'[c] = slice[c]
  BY <1>0 DEF CloneEnvelope
<1>5. /\ pc[Trunk] = "running" /\ asked[Trunk] = 0 /\ \A j \in Jobs : <<Trunk, j>> \notin starting
      /\ asked[b] = 0 /\ pc[b] # "running" /\ pc[b] # "barrier"
  <2>1. pc[b] # "running" /\ pc[b] # "barrier"
    BY <1>1
  <2> QED BY <1>0, <1>1, <2>1, Zenon DEF WalkState
<1>6. ~finalized
  BY <1>0, <1>5, RunningNotFinal, Zenon
<1>7. MirrorFollows'
  <2>1. ASSUME NEW c \in Walkers PROVE env'[c] <= epoch /\ slice'[c] <= epoch
    BY <1>0, <1>4, Zenon DEF MirrorFollows
  <2> QED BY <1>0, <1>2, <1>4, <2>1, Zenon DEF MirrorFollows
<1>8. WalkState'
  <2>1. ASSUME flush.at # "idle" PROVE \E c \in Walkers : pc'[c] = "barrier"
    BY <1>0, <1>3, <1>5, <1>6, <2>1, Zenon DEF WalkState
  <2>2. ASSUME NEW c \in Walkers, asked[c] # 0
        PROVE  /\ pc'[c] = "running" /\ \A j \in Jobs : <<c, j>> \notin starting
               /\ env'[c] <= asked[c] /\ slice'[c] <= asked[c] /\ asked[c] <= epoch
    BY <1>0, <1>3, <1>4, <1>5, <2>2, Zenon DEF WalkState
  <2>3. ASSUME NEW c \in Walkers, NEW j \in Jobs, <<c, j>> \in starting PROVE pc'[c] = "running"
    BY <1>0, <1>3, <2>3, Zenon DEF WalkState
  <2>4. pc'[Trunk] = "running"
    BY <1>0, <1>3, <1>5, Zenon
  <2> QED BY <1>2, <1>5, <1>6, <2>1, <2>2, <2>3, <2>4, Zenon DEF WalkState
<1> QED BY <1>0, <1>2, <1>3, <1>4, <1>7, <1>8, WalkKeeps, Zenon

(* Join: every branch is over, so none holds a barrier. *)
LEMMA JoinKeeps ==
  ASSUME IInv, Join
  PROVE  IInv'
<1>0. WalkState /\ TypeOK /\ MirrorFollows
  BY Zenon DEF IInv
<1>1. /\ \E b \in Branches : pc[b] \notin {"unborn", "joined"}
      /\ \A b \in Branches : pc[b] \in Over /\ pc[b] # "running" /\ pc[b] # "barrier"
  BY DEF Join, Over
<1>2. /\ UNCHANGED <<coordinator, starting, ready, finals, appliedAs, history>>
      /\ UNCHANGED <<flush, epoch, env, slice, dropped>>
      /\ asked' = asked /\ blocking' = blocking /\ env' = env /\ slice' = slice /\ finalized' = finalized
      /\ flush' = flush /\ starting' = starting /\ epoch' = epoch
  BY DEF Join, coordinator, envelope
<1>3. /\ pc' \in [Walkers -> Places] /\ \A b \in Branches : pc'[b] = "joined"
  BY <1>0, WalkersFacts DEF Join, TypeOK, Places
<1>4. pc[Trunk] = "running" /\ asked[Trunk] = 0 /\ \A j \in Jobs : <<Trunk, j>> \notin starting
  BY <1>0, <1>1, Zenon DEF WalkState
<1>5. ~finalized
  BY <1>0, <1>4, RunningNotFinal, WalkersFacts, Zenon
<1>6. flush.at = "idle"
  <2> SUFFICES ASSUME flush.at # "idle" PROVE FALSE OBVIOUS
  <2>1. PICK b \in Walkers : pc[b] = "barrier"
    BY <1>0, <1>5, Zenon DEF WalkState
  <2> QED BY <1>1, <1>4, <2>1, WalkersFacts
<1>7. ASSUME NEW b \in Branches PROVE asked[b] = 0 /\ \A j \in Jobs : <<b, j>> \notin starting
  BY <1>0, <1>1, WalkersFacts, Zenon DEF WalkState
<1>8. WalkState'
  <2>1. ASSUME NEW b \in Walkers PROVE asked'[b] = 0 /\ \A j \in Jobs : <<b, j>> \notin starting'
    BY <1>2, <1>4, <1>7, WalkersFacts, Zenon
  <2>2. ASSUME NEW b \in Branches PROVE pc'[b] \in {"unborn", "joined"}
    BY <1>3
  <2> QED BY <1>2, <1>5, <1>6, <2>1, <2>2, Zenon DEF WalkState
<1>9. MirrorFollows'
  BY <1>0, <1>2, MirrorFrame, Zenon
<1> QED BY <1>0, <1>2, <1>3, <1>8, <1>9, WalkKeeps, Zenon DEF TypeOK

(* Finish: what has a job to track or a request to wait for does not. *)
LEMMA FinishKeeps ==
  ASSUME IInv, NEW b \in Walkers, Finish(b)
  PROVE  IInv'
<1>1. /\ pc[b] = "running" /\ asked[b] = 0 /\ \A j \in Jobs : <<b, j>> \notin starting
      /\ b = Trunk => \A c \in Branches : pc[c] \in {"unborn", "joined"}
  BY Zenon DEF Finish, Runs
<1>2. /\ UNCHANGED <<coordinator, starting, ready, finals, appliedAs, history>>
      /\ UNCHANGED <<finalized, flush, starting, epoch>>
      /\ UNCHANGED <<flush, epoch, env, slice, dropped>>
      /\ asked' = asked /\ blocking' = blocking /\ env' = env /\ slice' = slice
  BY DEF Finish, coordinator, envelope
<1>3. PICK to \in Over : pc' = [pc EXCEPT ![b] = to]
  BY Zenon DEF Finish
<1>4. to \in {"running", "finished", "failed"}
  BY DEF Over
<1>5. /\ asked \in [Walkers -> Nat] /\ blocking \in Nat /\ env \in [Walkers -> Nat]
      /\ slice \in [Walkers -> Nat] /\ MirrorFollows
  BY Zenon DEF IInv, TypeOK
<1>6. WalkState' /\ pc' \in [Walkers -> Places]
  BY <1>1, <1>2, <1>3, <1>4, <1>5, MoveKeeps, Zenon
<1>7. MirrorFollows'
  BY <1>2, <1>5, MirrorFrame, Zenon
<1> QED BY <1>2, <1>5, <1>6, <1>7, WalkKeeps, Zenon

(* RequestBlocking: the epoch it reads is the open one. *)
LEMMA RequestBlockingKeeps ==
  ASSUME IInv, NEW b \in Walkers, RequestBlocking(b)
  PROVE  IInv'
<1>1. /\ pc[b] = "running" /\ \A j \in Jobs : <<b, j>> \notin starting
      /\ b = Trunk => \A c \in Branches : pc[c] \in {"unborn", "joined"}
  BY Zenon DEF RequestBlocking, Runs
<1>2. /\ UNCHANGED <<coordinator, starting, ready, finals, appliedAs, history>>
      /\ UNCHANGED <<finalized, flush, starting, epoch>>
      /\ UNCHANGED <<flush, epoch, env, slice, dropped>>
      /\ blocking' = blocking + 1 /\ env' = env /\ slice' = slice /\ pc' = pc
      /\ asked' = [asked EXCEPT ![b] = epoch]
  BY DEF RequestBlocking, coordinator, envelope
<1>5. /\ asked \in [Walkers -> Nat] /\ blocking \in Nat /\ env \in [Walkers -> Nat] /\ epoch \in Nat
      /\ slice \in [Walkers -> Nat] /\ MirrorFollows /\ pc \in [Walkers -> Places]
  BY Zenon DEF IInv, TypeOK
<1>3. /\ asked' \in [Walkers -> Nat] /\ blocking' \in Nat /\ asked'[b] = epoch
      /\ \A c \in Walkers : c # b => asked'[c] = asked[c]
      /\ pc' = [pc EXCEPT ![b] = "running"]
  BY <1>1, <1>2, <1>5
<1>4. asked'[b] # 0 => /\ "running" = "running" /\ env'[b] <= asked'[b]
                        /\ slice'[b] <= asked'[b] /\ asked'[b] <= epoch
  BY <1>2, <1>3, <1>5 DEF MirrorFollows
<1>6. WalkState' /\ pc' \in [Walkers -> Places]
  <2>1. \A c \in Walkers : c # b => asked'[c] = asked[c] /\ env'[c] = env[c] /\ slice'[c] = slice[c]
    BY <1>2, <1>3, Zenon
  <2>2. "running" \in {"running", "finished", "failed"}
    OBVIOUS
  <2> QED BY <1>1, <1>2, <1>3, <1>4, <2>1, <2>2, MoveKeeps, Zenon
<1>7. MirrorFollows'
  BY <1>2, <1>5, MirrorFrame, Zenon
<1> QED BY <1>2, <1>3, <1>5, <1>6, <1>7, WalkKeeps, Zenon

(* What a walker with a request has under way. *)
LEMMA AskingFacts ==
  ASSUME IInv, NEW b \in Walkers, asked[b] # 0
  PROVE  /\ pc[b] = "running" /\ \A j \in Jobs : <<b, j>> \notin starting
         /\ b = Trunk => \A c \in Branches : pc[c] \in {"unborn", "joined"}
         /\ asked[b] \in Nat /\ env[b] \in Nat /\ slice[b] \in Nat /\ epoch \in Nat
         /\ env[b] <= asked[b] /\ slice[b] <= asked[b] /\ asked[b] <= epoch
         /\ asked \in [Walkers -> Nat] /\ blocking \in Nat /\ env \in [Walkers -> Nat]
         /\ slice \in [Walkers -> Nat] /\ MirrorFollows /\ WalkState /\ pc \in [Walkers -> Places]
<1>1. WalkState /\ TypeOK /\ MirrorFollows
  BY Zenon DEF IInv
<1>2. asked[b] \in Nat /\ env[b] \in Nat /\ slice[b] \in Nat
  BY <1>1 DEF TypeOK
<1>3. b = Trunk => \A c \in Branches : pc[c] \in {"unborn", "joined"}
  BY <1>1, Zenon DEF WalkState
<1>4. /\ pc[b] = "running" /\ \A j \in Jobs : <<b, j>> \notin starting
      /\ env[b] <= asked[b] /\ slice[b] <= asked[b] /\ asked[b] <= epoch
  BY <1>1, Zenon DEF WalkState
<1> QED BY <1>1, <1>2, <1>3, <1>4, Zenon DEF TypeOK

(* ApplyBlocking: nothing has passed the envelope since the request. *)
LEMMA ApplyBlockingKeeps ==
  ASSUME IInv, NEW b \in Walkers, ApplyBlocking(b)
  PROVE  IInv'
<1>0. asked[b] # 0
  BY Zenon DEF ApplyBlocking
<1>1. /\ pc[b] = "running" /\ \A j \in Jobs : <<b, j>> \notin starting
      /\ b = Trunk => \A c \in Branches : pc[c] \in {"unborn", "joined"}
      /\ asked[b] \in Nat /\ env[b] \in Nat /\ slice[b] \in Nat /\ epoch \in Nat
      /\ env[b] <= asked[b] /\ slice[b] <= asked[b] /\ asked[b] <= epoch
  BY <1>0, AskingFacts, Zenon
<1>2. /\ asked \in [Walkers -> Nat] /\ blocking \in Nat /\ env \in [Walkers -> Nat]
      /\ slice \in [Walkers -> Nat] /\ MirrorFollows /\ WalkState /\ pc \in [Walkers -> Places]
  BY <1>0, AskingFacts, Zenon
<1>3. ~Stale(b, asked[b])
  BY <1>1 DEF Stale
<1>4. /\ slice' = [slice EXCEPT ![b] = asked[b]]
      /\ env' = [env EXCEPT ![b] = IF asked[b] > @ THEN asked[b] ELSE @]
      /\ dropped' = dropped
  BY <1>3, Zenon DEF ApplyBlocking, Apply
<1>5. /\ UNCHANGED <<coordinator, starting, ready, finals, appliedAs, history>>
      /\ UNCHANGED <<finalized, flush, starting, epoch>>
      /\ blocking' = blocking /\ pc' = pc /\ asked' = [asked EXCEPT ![b] = 0]
      /\ flush' = flush /\ epoch' = epoch
  BY DEF ApplyBlocking, coordinator
<1>6. /\ asked' \in [Walkers -> Nat] /\ env' \in [Walkers -> Nat] /\ slice' \in [Walkers -> Nat]
      /\ asked'[b] = 0 /\ slice'[b] = asked[b] /\ env'[b] = asked[b]
      /\ \A c \in Walkers : c # b => asked'[c] = asked[c] /\ env'[c] = env[c] /\ slice'[c] = slice[c]
  BY <1>1, <1>2, <1>4, <1>5
<1>7. pc' = [pc EXCEPT ![b] = "running"] /\ asked'[b] = 0
  BY <1>1, <1>2, <1>5, <1>6
<1>8. WalkState' /\ pc' \in [Walkers -> Places]
  <2>1. asked'[b] # 0 => /\ "running" = "running" /\ env'[b] <= asked'[b]
                         /\ slice'[b] <= asked'[b] /\ asked'[b] <= epoch
    BY <1>6, Zenon
  <2>2. "running" \in {"running", "finished", "failed"}
    OBVIOUS
  <2> QED BY <1>1, <1>5, <1>6, <1>7, <2>1, <2>2, MoveKeeps, Zenon
<1>9. MirrorFollows'
  <2>1. ASSUME NEW c \in Walkers PROVE env'[c] <= epoch /\ slice'[c] <= epoch
    BY <1>1, <1>2, <1>6 DEF MirrorFollows
  <2>2. ASSUME flush.at # "mirror" PROVE env'[Trunk] = epoch
    <3>1. env[Trunk] = epoch
      BY <1>2, <2>2, Zenon DEF MirrorFollows
    <3>2. b = Trunk => asked[b] = epoch
      BY <1>1, <3>1
    <3> QED BY <1>6, <3>1, <3>2, WalkersFacts, Zenon
  <2> QED BY <1>2, <1>4, <1>5, <2>1, <2>2, Zenon DEF MirrorFollows
<1>10. blocking' \in Nat
  BY <1>2, <1>5, Zenon
<1> QED BY <1>5, <1>6, <1>8, <1>9, <1>10, WalkKeeps, Zenon

(* BlockingFails: with the trunk's request no branch is about. *)
LEMMA BlockingFailsKeeps ==
  ASSUME IInv, NEW b \in Walkers, BlockingFails(b)
  PROVE  IInv'
<1>0. asked[b] # 0
  BY Zenon DEF BlockingFails
<1>1. /\ pc[b] = "running" /\ \A j \in Jobs : <<b, j>> \notin starting
      /\ b = Trunk => \A c \in Branches : pc[c] \in {"unborn", "joined"}
      /\ asked \in [Walkers -> Nat] /\ blocking \in Nat /\ env \in [Walkers -> Nat]
      /\ slice \in [Walkers -> Nat] /\ MirrorFollows
  BY <1>0, AskingFacts, Zenon
<1>2. /\ UNCHANGED <<coordinator, starting, ready, finals, appliedAs, history>>
      /\ UNCHANGED <<finalized, flush, starting, epoch>>
      /\ UNCHANGED <<flush, epoch, env, slice, dropped>>
      /\ blocking' = blocking /\ env' = env /\ slice' = slice
      /\ asked' = [asked EXCEPT ![b] = 0] /\ pc' = [pc EXCEPT ![b] = "failed"]
  BY DEF BlockingFails, coordinator, envelope
<1>3. /\ asked' \in [Walkers -> Nat] /\ asked'[b] = 0
      /\ \A c \in Walkers : c # b => asked'[c] = asked[c]
  BY <1>1, <1>2
<1>6. WalkState' /\ pc' \in [Walkers -> Places]
  <2>1. asked'[b] # 0 => /\ "failed" = "running" /\ env'[b] <= asked'[b]
                         /\ slice'[b] <= asked'[b] /\ asked'[b] <= epoch
    BY <1>3, Zenon
  <2>2. "failed" \in {"running", "finished", "failed"}
    OBVIOUS
  <2>3. \A c \in Walkers : c # b => asked'[c] = asked[c] /\ env'[c] = env[c] /\ slice'[c] = slice[c]
    BY <1>2, <1>3, Zenon
  <2> QED BY <1>1, <1>2, <1>3, <2>1, <2>2, <2>3, MoveKeeps, Zenon
<1>7. MirrorFollows'
  BY <1>1, <1>2, MirrorFrame, Zenon
<1> QED BY <1>1, <1>2, <1>3, <1>6, <1>7, WalkKeeps, Zenon

(* A barrier takes what is pending: what was queued is now in the batch. *)
LEMMA TakeKeeps ==
  ASSUME IInv, flush.at = "idle", ~finalized, NEW final \in BOOLEAN, Take(final),
         finalized' = final, finals' \in 0..2, UNCHANGED envelope,
         pc' \in [Walkers -> Places], WalkState'
  PROVE  IInv'
<1>0. TypeOK /\ BarrierState /\ StampWindow /\ CapturesAccounted /\ MirrorFollows /\ ClosedInOrder
  BY Zenon DEF IInv
<1>1. /\ items' = {} /\ jobs' = {} /\ epoch' = epoch /\ starting' = starting /\ ready' = ready
      /\ asked' = asked /\ blocking' = blocking /\ stamp' = stamp /\ groundedBy' = groundedBy
      /\ requestedAt' = requestedAt /\ closed' = closed /\ env' = env /\ slice' = slice
      /\ appliedAs' = appliedAs /\ dropped' = dropped /\ inFlush' = TRUE
  BY DEF Take, envelope
<1>2. /\ flush' = [at |-> IF items = {} THEN "await" ELSE "ground", final |-> final,
                  epoch |-> epoch, items |-> items, jobs |-> jobs, err |-> FALSE]
      /\ fate' = [i \in Items |-> IF i \in items THEN "taken" ELSE fate[i]]
  BY DEF Take
<1>3. /\ flush'.at = (IF items = {} THEN "await" ELSE "ground") /\ flush'.epoch = epoch
      /\ flush'.items = items /\ flush'.final = final
  BY <1>2, Zenon
<1>4. flush'.at \in {"ground", "await"} /\ flush'.at # "idle" /\ flush'.at \notin {"mirror", "report", "end"}
  BY <1>3
<1>5. /\ items \in SUBSET Items /\ jobs \in SUBSET Jobs /\ epoch \in Nat
      /\ fate \in [Items -> {"new", "pending", "taken", "grounded", "failed"}]
  BY <1>0, Zenon DEF TypeOK
<1>6. TypeOK'
  <2>1. /\ flush' \in [at: {"idle", "ground", "retry", "await", "mirror", "report", "end"},
                      final: BOOLEAN, epoch: Nat, items: SUBSET Items, jobs: SUBSET Jobs, err: BOOLEAN]
        /\ fate' \in [Items -> {"new", "pending", "taken", "grounded", "failed"}]
    BY <1>2, <1>5
  <2>2. inFlush' = (flush'.at # "idle") /\ finalized' \in BOOLEAN
    BY <1>1, <1>4, Zenon
  <2>3. items' \in SUBSET Items /\ jobs' \in SUBSET Jobs
    BY <1>1, Zenon
  <2>4. finals' \in 0..2 /\ pc' \in [Walkers -> Places]
    OBVIOUS
  <2> QED BY <1>0, <1>1, <2>1, <2>2, <2>3, <2>4, Zenon DEF TypeOK
<1>7. BarrierState'
  <2>1. \A k \in 1..Len(closed) : ~closed[k].final
    BY <1>0, Zenon DEF BarrierState
  <2>2. flush'.at \notin {"ground", "retry"} => flush'.items = {}
    BY <1>3
  <2>3. flush'.final <=> flush'.at # "idle" /\ finalized'
    BY <1>3, <1>4, Zenon
  <2> QED BY <1>1, <1>3, <1>4, <2>1, <2>2, <2>3, Zenon DEF BarrierState
<1>8. StampWindow'
  BY <1>0, <1>1, <1>3, Zenon DEF StampWindow
<1>9. ClosedInOrder'
  <2>1. (flush'.at \in {"mirror", "report"}) = (flush.at \in {"mirror", "report"})
    BY <1>4
  <2>2. epoch = First + Len(closed) + (IF flush'.at \in {"mirror", "report"} THEN 1 ELSE 0)
    BY <1>0, <2>1, Zenon DEF ClosedInOrder
  <2> QED BY <1>0, <1>1, <2>2, Zenon DEF ClosedInOrder
<1>10. CapturesAccounted'
  <2> SUFFICES ASSUME NEW i \in Items
               PROVE  /\ fate'[i] = "pending" <=> i \in items'
                      /\ fate'[i] = "taken" <=> i \in flush'.items
                      /\ Len(groundedBy'[i]) = IF fate'[i] = "grounded" THEN 1 ELSE 0
    BY Zenon DEF CapturesAccounted
  <2>1. /\ fate[i] = "pending" <=> i \in items
        /\ fate[i] = "taken" <=> i \in flush.items
        /\ Len(groundedBy[i]) = IF fate[i] = "grounded" THEN 1 ELSE 0
    BY <1>0, Zenon DEF CapturesAccounted
  <2>2. flush.items = {}
    BY <1>0 DEF BarrierState
  <2>3. fate'[i] = IF i \in items THEN "taken" ELSE fate[i]
    BY <1>2, Zenon
  <2> QED BY <1>1, <1>3, <2>1, <2>2, <2>3
<1>11. MirrorFollows'
  <2>1. flush.at # "mirror"
    OBVIOUS
  <2> QED BY <1>0, <1>1, <2>1, Zenon DEF MirrorFollows
<1>12. NothingStranded'
  BY <1>1, Zenon DEF NothingStranded
<1> QED BY <1>6, <1>7, <1>8, <1>9, <1>10, <1>11, <1>12, Zenon DEF IInv

(* CloseEpochIfPending: whoever takes the barrier runs. *)
LEMMA CloseKeeps ==
  ASSUME IInv, NEW b \in Walkers, CloseEpochIfPending(b)
  PROVE  IInv'
<1>0. TypeOK /\ WalkState
  BY Zenon DEF IInv
<1>1. /\ pc[b] = "running" /\ asked[b] = 0 /\ \A j \in Jobs : <<b, j>> \notin starting
      /\ b = Trunk => \A c \in Branches : pc[c] \in {"unborn", "joined"}
      /\ flush.at = "idle" /\ ~finalized /\ Take(FALSE)
  BY Zenon DEF CloseEpochIfPending, Runs
<1>2. /\ pc' = [pc EXCEPT ![b] = "barrier"] /\ finalized' = finalized /\ finals' = finals
      /\ env' = env /\ slice' = slice /\ UNCHANGED envelope
      /\ starting' = starting /\ asked' = asked /\ epoch' = epoch
  BY DEF CloseEpochIfPending, Take, envelope
<1>3. /\ pc' \in [Walkers -> Places] /\ pc'[b] = "barrier"
      /\ \A c \in Walkers : c # b => pc'[c] = pc[c]
  BY <1>0, <1>2 DEF TypeOK, Places
<1>4. finalized' = FALSE /\ finals' \in 0..2
  <2>1. finalized \in BOOLEAN /\ finals \in 0..2
    BY <1>0, Zenon DEF TypeOK
  <2> QED BY <1>1, <1>2, <2>1, Zenon
<1>5. ASSUME NEW a \in Branches, pc'[a] \notin {"unborn", "joined"}
      PROVE  pc'[Trunk] = "running" /\ asked[Trunk] = 0 /\ \A j \in Jobs : <<Trunk, j>> \notin starting
  <2>1. b # Trunk
    BY <1>1, <1>3, <1>5, WalkersFacts, Zenon
  <2>2. b \in Branches /\ pc[b] \notin {"unborn", "joined"}
    BY <1>1, <2>1, WalkersFacts
  <2>3. pc[Trunk] = "running" /\ asked[Trunk] = 0 /\ \A j \in Jobs : <<Trunk, j>> \notin starting
    BY <1>0, <2>2, Zenon DEF WalkState
  <2> QED BY <1>3, <2>1, <2>3, WalkersFacts, Zenon
<1>6. WalkState'
  <2>1. ASSUME NEW c \in Walkers, asked[c] # 0
        PROVE  /\ pc'[c] = "running" /\ \A j \in Jobs : <<c, j>> \notin starting
               /\ env[c] <= asked[c] /\ slice[c] <= asked[c] /\ asked[c] <= epoch
    BY <1>0, <1>1, <1>3, <2>1, Zenon DEF WalkState
  <2>2. ASSUME NEW c \in Walkers, NEW j \in Jobs, <<c, j>> \in starting PROVE pc'[c] = "running"
    BY <1>0, <1>1, <1>3, <2>2, Zenon DEF WalkState
  <2> QED BY <1>2, <1>3, <1>4, <1>5, <2>1, <2>2, Zenon DEF WalkState
<1> QED BY <1>1, <1>2, <1>3, <1>4, <1>6, TakeKeeps, Zenon

(* FinalEpoch: the first call takes all, the second changes nothing. *)
LEMMA FinalKeeps ==
  ASSUME IInv, FinalEpoch
  PROVE  IInv'
<1>0. TypeOK /\ WalkState /\ finalized \in BOOLEAN
  BY Zenon DEF IInv, TypeOK
<1>1. /\ flush.at = "idle" /\ pc[Trunk] \in Over /\ finalized' = TRUE
      /\ pc' = pc /\ UNCHANGED envelope /\ env' = env /\ slice' = slice
  BY DEF FinalEpoch, envelope
<1>2. finals' \in 0..2
  BY <1>0 DEF FinalEpoch, TypeOK
<1>a. CASE finalized
  <2>1. /\ UNCHANGED <<epoch, inFlush, items, jobs, flush, starting, ready, asked, blocking>>
        /\ UNCHANGED envelope /\ UNCHANGED history
    BY <1>a, Zenon DEF FinalEpoch
  <2>2. /\ epoch' = epoch /\ inFlush' = inFlush /\ items' = items /\ jobs' = jobs
        /\ flush' = flush /\ starting' = starting /\ ready' = ready /\ asked' = asked
        /\ blocking' = blocking /\ env' = env /\ slice' = slice /\ appliedAs' = appliedAs
        /\ dropped' = dropped /\ fate' = fate /\ stamp' = stamp /\ groundedBy' = groundedBy
        /\ requestedAt' = requestedAt /\ closed' = closed
    BY <2>1 DEF envelope, history
  <2>3. finalized' = finalized /\ pc' = pc
    BY <1>0, <1>1, <1>a, Zenon
  <2>4. TypeOK' BY <1>0, <1>2, <2>2, <2>3, Zenon DEF TypeOK
  <2>5. BarrierState' BY <2>2, <2>3, Zenon DEF IInv, BarrierState
  <2>6. StampWindow' BY <2>2, Zenon DEF IInv, StampWindow
  <2>7. ClosedInOrder' BY <2>2, Zenon DEF IInv, ClosedInOrder
  <2>8. CapturesAccounted' BY <2>2, Zenon DEF IInv, CapturesAccounted
  <2>9. MirrorFollows' BY <2>2, Zenon DEF IInv, MirrorFollows
  <2>10. WalkState' BY <1>0, <2>2, <2>3, Zenon DEF WalkState
  <2>11. NothingStranded' BY <2>2, <2>3, Zenon DEF IInv, NothingStranded
  <2> QED BY <2>4, <2>5, <2>6, <2>7, <2>8, <2>9, <2>10, <2>11, Zenon DEF IInv
<1>b. CASE ~finalized
  <2>1. Take(TRUE)
    BY <1>b, Zenon DEF FinalEpoch
  <2>2. starting' = starting /\ asked' = asked /\ epoch' = epoch
    BY <2>1 DEF Take
  <2>3. pc' \in [Walkers -> Places]
    BY <1>0, <1>1, Zenon DEF TypeOK
  <2>4. WalkState'
    BY <1>0, <1>1, <2>2, Zenon DEF WalkState
  <2> QED BY <1>1, <1>2, <1>b, <2>1, <2>3, <2>4, TakeKeeps, Zenon
<1> QED BY <1>a, <1>b, Zenon

(* Ground: the batch gets its one grounding. *)
LEMMA GroundKeeps ==
  ASSUME IInv, Ground
  PROVE  IInv'
<1> USE FirstPositive, WalkersFacts DEF IInv, Ground, coordinator, run, envelope, history
<1>0. ASSUME NEW i \in Items
      PROVE  /\ groundedBy'[i] \in Seq(Nat)
             /\ Len(groundedBy'[i]) = IF i \in flush.items THEN Len(groundedBy[i]) + 1 ELSE Len(groundedBy[i])
  BY DEF TypeOK
<1>1. TypeOK'
  <2>1. groundedBy' \in [Items -> Seq(Nat)] BY <1>0
  <2> QED BY Zenon, <2>1 DEF TypeOK
<1>2. BarrierState' BY DEF BarrierState, TypeOK
<1>3. StampWindow' BY DEF StampWindow, TypeOK, BarrierState
<1>4. ClosedInOrder' BY DEF ClosedInOrder, TypeOK, BarrierState
<1>6. MirrorFollows' BY DEF MirrorFollows, TypeOK, BarrierState
<1>7. WalkState' BY DEF WalkState, Over, TypeOK, BarrierState
<1>8. NothingStranded' BY DEF NothingStranded, TypeOK, BarrierState
<1>5. CapturesAccounted'
  <2> SUFFICES ASSUME NEW i \in Items
               PROVE  /\ fate'[i] = "pending" <=> i \in items'
                      /\ fate'[i] = "taken" <=> i \in flush'.items
                      /\ Len(groundedBy'[i]) = IF fate'[i] = "grounded" THEN 1 ELSE 0
    BY DEF CapturesAccounted
  <2>1. fate'[i] = (IF i \in flush.items THEN "grounded" ELSE fate[i]) /\ flush'.items = {}
    BY DEF TypeOK
  <2>2. i \in flush.items => i \notin items /\ Len(groundedBy[i]) = 0
    BY DEF CapturesAccounted
  <2> QED BY <1>0, <2>1, <2>2 DEF CapturesAccounted
<1> QED BY <1>1, <1>2, <1>3, <1>4, <1>5, <1>6, <1>7, <1>8, Zenon

(* GroundFails only moves the barrier to its retry. *)
LEMMA GroundFailsKeeps ==
  ASSUME IInv, GroundFails
  PROVE  IInv'
<1> USE FirstPositive, WalkersFacts DEF IInv, GroundFails, coordinator, run, envelope, history
<1>1. TypeOK' BY Zenon DEF TypeOK, BarrierState
<1>2. BarrierState' BY DEF BarrierState, TypeOK
<1>3. StampWindow' BY DEF StampWindow, TypeOK, BarrierState
<1>4. ClosedInOrder' BY DEF ClosedInOrder, TypeOK, BarrierState
<1>5. CapturesAccounted' BY DEF CapturesAccounted, TypeOK, BarrierState
<1>6. MirrorFollows' BY DEF MirrorFollows, TypeOK, BarrierState
<1>7. WalkState' BY DEF WalkState, Over, TypeOK, BarrierState
<1>8. NothingStranded' BY DEF NothingStranded, TypeOK, BarrierState
<1> QED BY <1>1, <1>2, <1>3, <1>4, <1>5, <1>6, <1>7, <1>8, Zenon

(* Abort: the batch is given up and the epoch stays open. *)
LEMMA AbortKeeps ==
  ASSUME IInv, Abort
  PROVE  IInv'
<1> USE FirstPositive, WalkersFacts DEF IInv, Abort, coordinator, run, envelope, history
<1>1. TypeOK' BY Zenon DEF TypeOK, BarrierState
<1>2. BarrierState' BY DEF BarrierState, TypeOK
<1>3. StampWindow' BY DEF StampWindow, TypeOK, BarrierState
<1>4. ClosedInOrder' BY DEF ClosedInOrder, TypeOK, BarrierState
<1>5. CapturesAccounted' BY DEF CapturesAccounted, TypeOK, BarrierState
<1>6. MirrorFollows' BY DEF MirrorFollows, TypeOK, BarrierState
<1>7. WalkState' BY DEF WalkState, Over, TypeOK, BarrierState
<1>8. NothingStranded' BY DEF NothingStranded, TypeOK, BarrierState
<1> QED BY <1>1, <1>2, <1>3, <1>4, <1>5, <1>6, <1>7, <1>8, Zenon

(* ApplyResult: the envelope is at the closing epoch, so the guard passes. *)
LEMMA ApplyKeeps ==
  ASSUME IInv, NEW j \in Jobs, ApplyResult(j)
  PROVE  IInv'
<1> USE FirstPositive, WalkersFacts
<1>t. TypeOK /\ BarrierState /\ MirrorFollows /\ WalkState
  BY Zenon DEF IInv
<1>e. /\ flush.at = "await" /\ flush.epoch = epoch /\ env[Trunk] = epoch
      /\ slice[Trunk] \in Nat /\ slice[Trunk] <= epoch /\ epoch \in Nat
  <2>1. flush.at = "await"
    BY Zenon DEF ApplyResult
  <2>2. flush.epoch = epoch
    BY <1>t, <2>1 DEF BarrierState
  <2>3. env[Trunk] = epoch /\ slice[Trunk] <= epoch
    BY <1>t, <2>1 DEF MirrorFollows
  <2>4. slice[Trunk] \in Nat /\ epoch \in Nat
    BY <1>t DEF TypeOK
  <2> QED BY <2>1, <2>2, <2>3, <2>4, Zenon
<1>s. ~Stale(Trunk, flush.epoch)
  BY <1>e DEF Stale
<1>a. /\ slice' = [slice EXCEPT ![Trunk] = flush.epoch]
      /\ env' = [env EXCEPT ![Trunk] = IF flush.epoch > @ THEN flush.epoch ELSE @]
      /\ dropped' = dropped /\ appliedAs' = [appliedAs EXCEPT ![j] = flush.epoch]
      /\ flush' = [flush EXCEPT !.jobs = @ \ {j}]
  BY <1>s, Zenon DEF ApplyResult, Apply
<1>b. /\ epoch' = epoch /\ inFlush' = inFlush /\ items' = items /\ jobs' = jobs
      /\ finalized' = finalized /\ pc' = pc /\ starting' = starting /\ ready' = ready
      /\ finals' = finals /\ asked' = asked /\ blocking' = blocking /\ fate' = fate
      /\ stamp' = stamp /\ groundedBy' = groundedBy /\ requestedAt' = requestedAt /\ closed' = closed
  BY DEF ApplyResult, run, history
<1>c. env' = env /\ slice' \in [Walkers -> Nat] /\ slice'[Trunk] = epoch
      /\ \A b \in Walkers : b # Trunk => slice'[b] = slice[b]
  BY <1>a, <1>e, <1>t DEF TypeOK
<1>d. /\ flush' \in [at: {"idle", "ground", "retry", "await", "mirror", "report", "end"},
                    final: BOOLEAN, epoch: Nat, items: SUBSET Items, jobs: SUBSET Jobs, err: BOOLEAN]
      /\ flush'.at = flush.at /\ flush'.epoch = flush.epoch /\ flush'.items = flush.items
      /\ flush'.final = flush.final /\ flush'.err = flush.err
  <2>1. flush \in [at: {"idle", "ground", "retry", "await", "mirror", "report", "end"},
                   final: BOOLEAN, epoch: Nat, items: SUBSET Items, jobs: SUBSET Jobs, err: BOOLEAN]
    BY <1>t, Zenon DEF TypeOK
  <2> QED BY <1>a, <2>1
<1>1. TypeOK'
  <2>1. appliedAs' \in [Jobs -> Nat]
    BY <1>a, <1>e, <1>t DEF TypeOK
  <2> QED BY <1>a, <1>b, <1>c, <1>d, <2>1, <1>t, Zenon DEF TypeOK
<1>2. BarrierState' BY <1>b, <1>d, <1>t, Zenon DEF BarrierState
<1>3. StampWindow' BY <1>b, <1>d, Zenon DEF IInv, StampWindow
<1>4. ClosedInOrder' BY <1>b, <1>d, Zenon DEF IInv, ClosedInOrder
<1>5. CapturesAccounted' BY <1>b, <1>d, Zenon DEF IInv, CapturesAccounted
<1>6. MirrorFollows'
  <2>1. ASSUME NEW b \in Walkers PROVE slice'[b] <= epoch
    BY <1>c, <1>e, <1>t DEF MirrorFollows
  <2> QED BY <1>a, <1>b, <1>c, <1>d, <1>e, <1>t, <2>1, Zenon DEF MirrorFollows
<1>7. WalkState'
  <2>1. asked[Trunk] = 0
    BY <1>e, <1>t, TrunkNotAsking
  <2>2. ASSUME NEW b \in Walkers, asked[b] # 0 PROVE slice'[b] <= asked[b]
    BY <1>c, <1>t, <2>1, <2>2, Zenon DEF WalkState
  <2> QED BY <1>b, <1>c, <1>d, <1>t, <2>2, Zenon DEF WalkState
<1>8. NothingStranded' BY <1>b, Zenon DEF IInv, NothingStranded
<1> QED BY <1>1, <1>2, <1>3, <1>4, <1>5, <1>6, <1>7, <1>8, Zenon DEF IInv

(* JobFailed: an error of a job does not keep the epoch open. *)
LEMMA JobFailedKeeps ==
  ASSUME IInv, NEW j \in Jobs, NEW c \in BOOLEAN, JobFailed(j, c)
  PROVE  IInv'
<1> USE FirstPositive, WalkersFacts DEF IInv, JobFailed, coordinator, run, envelope, history
<1>1. TypeOK' BY Zenon DEF TypeOK, BarrierState
<1>2. BarrierState' BY DEF BarrierState, TypeOK
<1>3. StampWindow' BY DEF StampWindow, TypeOK, BarrierState
<1>4. ClosedInOrder' BY DEF ClosedInOrder, TypeOK, BarrierState
<1>5. CapturesAccounted' BY DEF CapturesAccounted, TypeOK, BarrierState
<1>6. MirrorFollows' BY DEF MirrorFollows, TypeOK, BarrierState
<1>7. WalkState' BY DEF WalkState, Over, TypeOK, BarrierState
<1>8. NothingStranded' BY DEF NothingStranded, TypeOK, BarrierState
<1> QED BY <1>1, <1>2, <1>3, <1>4, <1>5, <1>6, <1>7, <1>8, Zenon

(* Abandon: a late job is forgotten. *)
LEMMA AbandonKeeps ==
  ASSUME IInv, NEW j \in Jobs, Abandon(j)
  PROVE  IInv'
<1> USE FirstPositive, WalkersFacts DEF IInv, Abandon, coordinator, run, envelope, history
<1>1. TypeOK' BY Zenon DEF TypeOK, BarrierState
<1>2. BarrierState' BY DEF BarrierState, TypeOK
<1>3. StampWindow' BY DEF StampWindow, TypeOK, BarrierState
<1>4. ClosedInOrder' BY DEF ClosedInOrder, TypeOK, BarrierState
<1>5. CapturesAccounted' BY DEF CapturesAccounted, TypeOK, BarrierState
<1>6. MirrorFollows' BY DEF MirrorFollows, TypeOK, BarrierState
<1>7. WalkState' BY DEF WalkState, Over, TypeOK, BarrierState
<1>8. NothingStranded' BY DEF NothingStranded, TypeOK, BarrierState
<1> QED BY <1>1, <1>2, <1>3, <1>4, <1>5, <1>6, <1>7, <1>8, Zenon

(* Advance: what was captured in the flush now carries the open epoch. *)
LEMMA AdvanceKeeps ==
  ASSUME IInv, Advance
  PROVE  IInv'
<1> USE FirstPositive, WalkersFacts DEF IInv, Advance, coordinator, run, envelope, history
<1>1. TypeOK'
  <2>1. epoch' \in Nat BY DEF TypeOK
  <2>2. inFlush' = (flush'.at # "idle") BY DEF TypeOK
  <2> QED BY Zenon, <2>1, <2>2 DEF TypeOK
<1>2. BarrierState' BY DEF BarrierState, TypeOK
<1>3. StampWindow' BY DEF StampWindow, TypeOK, BarrierState
<1>4. ClosedInOrder' BY DEF ClosedInOrder, TypeOK, BarrierState
<1>5. CapturesAccounted' BY DEF CapturesAccounted, TypeOK, BarrierState
<1>6. MirrorFollows' BY DEF MirrorFollows, TypeOK, BarrierState
<1>7. WalkState' BY DEF WalkState, Over, TypeOK, BarrierState
<1>8. NothingStranded' BY DEF NothingStranded, TypeOK, BarrierState
<1> QED BY <1>1, <1>2, <1>3, <1>4, <1>5, <1>6, <1>7, <1>8, Zenon

(* Mirror: the envelope catches up. *)
LEMMA MirrorKeeps ==
  ASSUME IInv, Mirror
  PROVE  IInv'
<1> USE FirstPositive, WalkersFacts DEF IInv, Mirror, coordinator, run, envelope, history
<1>1. TypeOK' BY Zenon DEF TypeOK, BarrierState
<1>2. BarrierState' BY DEF BarrierState, TypeOK
<1>3. StampWindow' BY DEF StampWindow, TypeOK, BarrierState
<1>4. ClosedInOrder' BY DEF ClosedInOrder, TypeOK, BarrierState
<1>5. CapturesAccounted' BY DEF CapturesAccounted, TypeOK, BarrierState
<1>6. MirrorFollows' BY DEF MirrorFollows, TypeOK, BarrierState
<1>7. WalkState'
  <2>1. asked[Trunk] = 0
    BY TrunkNotAsking
  <2>2. /\ pc' = pc /\ asked' = asked /\ starting' = starting /\ finalized' = finalized
        /\ slice' = slice /\ epoch' = epoch /\ flush.at # "idle" /\ WalkState
    OBVIOUS
  <2>3. \A b \in Walkers : b # Trunk => env'[b] = env[b]
    BY DEF TypeOK
  <2> HIDE DEF IInv, Mirror, coordinator, run, envelope, history
  <2> QED BY <2>1, <2>2, <2>3, Zenon DEF WalkState
<1>8. NothingStranded' BY DEF NothingStranded, TypeOK, BarrierState
<1> QED BY <1>1, <1>2, <1>3, <1>4, <1>5, <1>6, <1>7, <1>8, Zenon

(* ReportClosed: the next event in order. *)
LEMMA ReportKeeps ==
  ASSUME IInv, ReportClosed
  PROVE  IInv'
<1> USE FirstPositive, WalkersFacts DEF IInv, ReportClosed, coordinator, run, envelope, history
<1>0. /\ closed' \in Seq([epoch: Nat, final: BOOLEAN])
      /\ Len(closed') = Len(closed) + 1
      /\ closed'[Len(closed) + 1] = [epoch |-> flush.epoch, final |-> flush.final]
      /\ \A k \in 1..Len(closed) : closed'[k] = closed[k]
  BY DEF TypeOK
<1>1. TypeOK' BY Zenon, <1>0 DEF TypeOK
<1>2. BarrierState' BY DEF BarrierState, TypeOK
<1>3. StampWindow' BY DEF StampWindow, TypeOK, BarrierState
<1>5. CapturesAccounted' BY DEF CapturesAccounted, TypeOK, BarrierState
<1>6. MirrorFollows' BY DEF MirrorFollows, TypeOK, BarrierState
<1>7. WalkState' BY DEF WalkState, Over, TypeOK, BarrierState
<1>8. NothingStranded' BY DEF NothingStranded, TypeOK, BarrierState
<1>4. ClosedInOrder'
  <2>0. flush.at \in {"mirror", "report"} /\ flush.epoch \in Nat /\ Len(closed) \in Nat /\ epoch \in Nat
    BY DEF TypeOK
  <2>a. epoch = First + Len(closed) + 1
    BY <2>0 DEF ClosedInOrder
  <2>b. flush.epoch + 1 = epoch
    BY <2>0 DEF BarrierState
  <2>1. epoch = First + Len(closed) + 1 /\ flush.epoch = First + Len(closed)
    <3> HIDE DEF IInv, ReportClosed
    <3>1. \A f, n, l \in Nat : f + 1 = n + l + 1 => f = n + l
      OBVIOUS
    <3> QED BY <2>0, <2>a, <2>b, <3>1
  <2>2. \A k \in 1..Len(closed') :
          closed'[k].epoch = First + k - 1 /\ (closed'[k].final => k = Len(closed'))
    BY <1>0, <2>1 DEF ClosedInOrder, BarrierState, TypeOK
  <2>3. epoch' = First + Len(closed') /\ flush'.at = "end"
    BY <1>0, <2>1 DEF TypeOK
  <2> QED BY <2>2, <2>3 DEF ClosedInOrder
<1> QED BY <1>1, <1>2, <1>3, <1>4, <1>5, <1>6, <1>7, <1>8, Zenon

(* End: the epoch was advanced before, or the barrier failed. *)
LEMMA EndKeeps ==
  ASSUME IInv, End
  PROVE  IInv'
<1>0. TypeOK /\ BarrierState /\ WalkState
  BY Zenon DEF IInv
<1>t. /\ epoch \in Nat /\ flush.epoch \in Nat /\ pc \in [Walkers -> Places]
  BY <1>0 DEF TypeOK
<1>a. /\ items' = items /\ jobs' = jobs /\ starting' = starting /\ ready' = ready
      /\ asked' = asked /\ blocking' = blocking /\ fate' = fate /\ stamp' = stamp
      /\ groundedBy' = groundedBy /\ requestedAt' = requestedAt /\ closed' = closed
      /\ finalized' = finalized /\ finals' = finals /\ env' = env /\ slice' = slice
      /\ appliedAs' = appliedAs /\ dropped' = dropped
  BY DEF End, envelope, history
<1>b. /\ flush.at = "end" /\ inFlush' = FALSE /\ flush' = NoFlush
      /\ epoch' = (IF flush.err THEN epoch ELSE flush.epoch + 1)
      /\ pc' = [w \in Walkers |-> IF pc[w] # "barrier" THEN pc[w]
                                  ELSE IF flush.err THEN "failed" ELSE "running"]
  BY Zenon DEF End
<1>c. epoch' = epoch /\ flush.items = {}
  BY <1>0, <1>b, <1>t DEF BarrierState
<1>d. flush'.at = "idle" /\ flush'.items = {} /\ ~flush'.final
  BY <1>b, Zenon DEF NoFlush
<1>e. /\ pc' \in [Walkers -> Places]
      /\ \A w \in Walkers : pc[w] # "barrier" => pc'[w] = pc[w]
      /\ \A w \in Walkers : pc'[w] = pc[w] \/ (pc[w] = "barrier" /\ pc'[w] \in {"failed", "running"})
  BY <1>b, <1>t DEF Places
<1>1. TypeOK'
  <2>1. flush' \in [at: {"idle", "ground", "retry", "await", "mirror", "report", "end"},
                    final: BOOLEAN, epoch: Nat, items: SUBSET Items, jobs: SUBSET Jobs, err: BOOLEAN]
    <3>1. NoFlush \in [at: {"idle", "ground", "retry", "await", "mirror", "report", "end"},
                      final: BOOLEAN, epoch: Nat, items: SUBSET Items, jobs: SUBSET Jobs, err: BOOLEAN]
      BY DEF NoFlush
    <3> QED BY <1>b, <3>1, Zenon
  <2>2. inFlush' = (flush'.at # "idle")
    BY <1>b, <1>d, Zenon
  <2> QED BY <1>0, <1>a, <1>c, <1>e, <2>1, <2>2, Zenon DEF TypeOK
<1>2. BarrierState'
  <2>1. flush'.at \notin {"ground", "retry", "await"} /\ flush'.at \notin {"mirror", "report"}
        /\ flush'.at # "end" /\ flush'.at \in {"idle", "end"}
    BY <1>d
  <2>2. \A k \in 1..Len(closed) : closed[k].final => finalized
    BY <1>0, Zenon DEF BarrierState
  <2> QED BY <1>a, <1>d, <2>1, <2>2, Zenon DEF BarrierState
<1>3. StampWindow'
  BY <1>a, <1>c, <1>d, Zenon DEF IInv, StampWindow
<1>4. ClosedInOrder'
  <2>1. flush.at \notin {"mirror", "report"} /\ flush'.at \notin {"mirror", "report"}
    BY <1>b, <1>d
  <2> QED BY <1>a, <1>c, <2>1, Zenon DEF IInv, ClosedInOrder
<1>5. CapturesAccounted'
  BY <1>a, <1>c, <1>d, Zenon DEF IInv, CapturesAccounted
<1>6. MirrorFollows'
  <2>1. flush.at # "mirror"
    BY <1>b
  <2> QED BY <1>a, <1>c, <2>1, Zenon DEF IInv, MirrorFollows
<1>7. WalkState'
  <2>1. finalized => pc'[Trunk] \in Over
    <3>1. finalized => pc[Trunk] \in Over
      BY <1>0, Zenon DEF WalkState
    <3>2. pc[Trunk] \in Over => pc[Trunk] # "barrier"
      BY DEF Over
    <3> QED BY <1>e, <3>1, <3>2, WalkersFacts, Zenon
  <2>2. ASSUME NEW a \in Branches, pc'[a] \notin {"unborn", "joined"}
        PROVE  pc'[Trunk] = "running" /\ asked[Trunk] = 0 /\ \A j \in Jobs : <<Trunk, j>> \notin starting
    <3>1. pc[a] \notin {"unborn", "joined"}
      BY <1>e, <2>2, WalkersFacts
    <3>2. pc[Trunk] = "running" /\ asked[Trunk] = 0 /\ \A j \in Jobs : <<Trunk, j>> \notin starting
      BY <1>0, <3>1, Zenon DEF WalkState
    <3> QED BY <1>e, <3>2, WalkersFacts
  <2>3. ASSUME NEW b \in Walkers, pc[b] = "running" PROVE pc'[b] = "running"
    BY <1>e, <2>3
  <2> QED BY <1>0, <1>a, <1>c, <1>d, <2>1, <2>2, <2>3, Zenon DEF WalkState
<1>8. NothingStranded'
  BY <1>a, Zenon DEF IInv, NothingStranded
<1> QED BY <1>1, <1>2, <1>3, <1>4, <1>5, <1>6, <1>7, <1>8, Zenon DEF IInv

(* A stuttering step keeps the invariant. *)
LEMMA StutterKeeps ==
  ASSUME IInv, UNCHANGED vars
  PROVE  IInv'
<1> USE FirstPositive, WalkersFacts DEF IInv, vars, coordinator, run, envelope, history
<1>1. TypeOK' BY ZenonT(60) DEF TypeOK, BarrierState
<1>2. BarrierState' BY ZenonT(60) DEF BarrierState, TypeOK
<1>3. StampWindow' BY ZenonT(60) DEF StampWindow, TypeOK, BarrierState
<1>4. ClosedInOrder' BY ZenonT(60) DEF ClosedInOrder, TypeOK, BarrierState
<1>5. CapturesAccounted' BY ZenonT(60) DEF CapturesAccounted, TypeOK, BarrierState
<1>6. MirrorFollows' BY ZenonT(60) DEF MirrorFollows, TypeOK, BarrierState
<1>7. WalkState' BY ZenonT(60) DEF WalkState, Over, TypeOK, BarrierState
<1>8. NothingStranded' BY ZenonT(60) DEF NothingStranded, TypeOK, BarrierState
<1> QED BY <1>1, <1>2, <1>3, <1>4, <1>5, <1>6, <1>7, <1>8, Zenon

(* Every step keeps the invariant. *)
LEMMA StepInv == IInv /\ [Next]_vars => IInv'
<1> SUFFICES ASSUME IInv, [Next]_vars PROVE IInv' OBVIOUS
<1>1. ASSUME NEW b \in Walkers, Walk(b) PROVE IInv'
  BY <1>1, EnqueueKeeps, RequestKeeps, TrackKeeps, CloseKeeps, FinishKeeps,
     RequestBlockingKeeps, ApplyBlockingKeeps, BlockingFailsKeeps, Zenon DEF Walk
<1>2. ASSUME NEW j \in Jobs, Complete(j) PROVE IInv'
  BY <1>2, CompleteKeeps, Zenon
<1>3. CASE FinalEpoch
  BY <1>3, FinalKeeps, Zenon
<1>4. CASE Flushing
  BY <1>4, GroundKeeps, GroundFailsKeeps, AbortKeeps, ApplyKeeps, JobFailedKeeps, AbandonKeeps,
     AdvanceKeeps, MirrorKeeps, ReportKeeps, EndKeeps, Zenon DEF Flushing
<1>5. CASE UNCHANGED vars
  BY <1>5, StutterKeeps, Zenon
<1>6. CASE Fork \/ (\E b \in Branches : CloneEnvelope(b)) \/ Join
  BY <1>6, ForkKeeps, CloneKeeps, JoinKeeps, Zenon
<1> QED
  BY <1>1, <1>2, <1>3, <1>4, <1>5, <1>6, Zenon DEF Next

(* The invariant holds throughout. *)
LEMMA AlwaysInv == Spec => []IInv
BY InitInv, StepInv, PTL DEF Spec

(* The variables keep their types, and inFlush marks the barrier in flight. *)
THEOREM EpochTypes == Spec => []TypeOK
<1>1. IInv => TypeOK BY DEF IInv
<1> QED BY <1>1, AlwaysInv, PTL

(* No capture is queued or flushed under an epoch that has been closed. *)
THEOREM StampsOpen == Spec => []StampWindow
<1>1. IInv => StampWindow BY DEF IInv
<1> QED BY <1>1, AlwaysInv, PTL

(* However barriers race and fail, each epoch is closed once and in order. *)
THEOREM EpochsCloseOnce == Spec => []ClosedInOrder
<1>1. IInv => ClosedInOrder BY DEF IInv
<1> QED BY <1>1, AlwaysInv, PTL

(* No capture is lost or grounded twice. *)
THEOREM NoCaptureLost == Spec => []CapturesAccounted
<1>1. IInv => CapturesAccounted BY DEF IInv
<1> QED BY <1>1, AlwaysInv, PTL

(* Between barriers the run's envelope carries the open epoch; no slice is *)
(* of an epoch to come, and no result is dropped as stale.                 *)
THEOREM EnvelopeMirrors == Spec => []MirrorFollows
<1>1. IInv => MirrorFollows BY DEF IInv
<1> QED BY <1>1, AlwaysInv, PTL

(* The final barrier leaves nothing in the queues. *)
THEOREM FinalTakesAll == Spec => []NothingStranded
<1>1. IInv => NothingStranded BY DEF IInv
<1> QED BY <1>1, AlwaysInv, PTL

-----------------------------------------------------------------------------
(* A job is requested in an epoch that is open or past, has a result only  *)
(* when it was requested, and is applied as of no earlier epoch.           *)
Attributed ==
  /\ \A j \in Jobs : requestedAt[j] <= epoch
  /\ \A j \in ready : requestedAt[j] # 0
  /\ \A j \in Jobs : appliedAs[j] # 0 => requestedAt[j] # 0 /\ requestedAt[j] <= appliedAs[j]

(* No job was requested yet. *)
LEMMA InitAttributed == Init => Attributed
BY FirstPositive DEF Init, Attributed

(* Every step leaves the jobs attributed: the epoch never goes back, and   *)
(* ApplyResult stamps a result with the epoch that is open.                *)
LEMMA StepAttributed == IInv /\ Attributed /\ [Next]_vars => Attributed'
<1> SUFFICES ASSUME IInv, Attributed, [Next]_vars PROVE Attributed' OBVIOUS
<1>t. epoch \in Nat /\ requestedAt \in [Jobs -> Nat] /\ appliedAs \in [Jobs -> Nat] /\ ready \subseteq Jobs
  BY DEF IInv, TypeOK
<1>s. ASSUME UNCHANGED <<ready, requestedAt, appliedAs>>, epoch' \in Nat, epoch' >= epoch
      PROVE  Attributed'
  BY <1>s, <1>t DEF Attributed
<1>e. ASSUME UNCHANGED <<epoch, ready, requestedAt, appliedAs>>
      PROVE  Attributed'
  BY <1>e, <1>s, <1>t
<1>1. ASSUME NEW b \in Walkers, Walk(b) PROVE Attributed'
  <2>1. ASSUME NEW j \in Jobs, RequestBackground(b, j) PROVE Attributed'
    BY <2>1, <1>t DEF RequestBackground, Attributed, coordinator, envelope
  <2>2. CASE ~ \E j \in Jobs : RequestBackground(b, j)
    BY <1>1, <2>2, <1>e, Zenon
       DEF Walk, EnqueueCapture, TrackStreamJob, CloseEpochIfPending, Take, Finish,
           RequestBlocking, ApplyBlocking, BlockingFails, coordinator, run, envelope, history
  <2> QED BY <2>1, <2>2
<1>2. ASSUME NEW j \in Jobs, Complete(j) PROVE Attributed'
  BY <1>2, <1>t DEF Complete, Attributed, coordinator, envelope, history
<1>3. CASE FinalEpoch
  BY <1>3, <1>e, Zenon DEF FinalEpoch, Take, history, envelope
<1>4. CASE Flushing
  <2>1. ASSUME NEW j \in Jobs, ApplyResult(j) PROVE Attributed'
    <3>1. flush.epoch = epoch /\ j \in ready /\ UNCHANGED <<epoch, ready, requestedAt>>
      BY <2>1 DEF ApplyResult, IInv, BarrierState, run, history
    <3>2. appliedAs' = appliedAs \/ appliedAs' = [appliedAs EXCEPT ![j] = flush.epoch]
      BY <2>1, Zenon DEF ApplyResult
    <3> QED BY <3>1, <3>2, <1>t DEF Attributed
  <2>2. CASE Advance
    <3>1. epoch' = epoch + 1
      BY <2>2 DEF Advance, IInv, BarrierState
    <3> QED BY <2>2, <3>1, <1>s, <1>t DEF Advance, run, envelope, history
  <2>3. CASE End
    <3>1. epoch' = (IF flush.err THEN epoch ELSE flush.epoch + 1) /\ flush.at = "end" /\ flush.epoch \in Nat
      BY <2>3 DEF End, IInv, TypeOK
    <3>2. flush.epoch + 1 = epoch \/ (flush.err /\ flush.epoch = epoch)
      BY <3>1, Zenon DEF IInv, BarrierState
    <3>3. epoch' = epoch
      BY <3>1, <3>2, <1>t
    <3> QED BY <2>3, <3>3, <1>e DEF End, envelope, history
  <2>4. CASE ~(Advance \/ End \/ \E j \in Jobs : ApplyResult(j))
    BY <1>4, <2>4, <1>e, Zenon
       DEF Flushing, Ground, GroundFails, Abort, JobFailed, Abandon, Mirror, ReportClosed,
           run, envelope, history
  <2> QED BY <2>1, <2>2, <2>3, <2>4
<1>5. CASE UNCHANGED vars
  BY <1>5, <1>e DEF vars, coordinator, run, envelope, history
<1>6. CASE Fork \/ (\E b \in Branches : CloneEnvelope(b)) \/ Join
  BY <1>6, <1>e, Zenon DEF Fork, CloneEnvelope, Join, coordinator, envelope, history
<1> QED
  BY <1>1, <1>2, <1>3, <1>4, <1>5, <1>6, Zenon DEF Next

(* ApplyResult never attributes a result to an epoch before the one its    *)
(* request was made in, whichever branch's barrier awaits the job.         *)
THEOREM ResultsAttributed == Spec => []NeverAppliedEarly
<1>1. Attributed => NeverAppliedEarly BY DEF Attributed, NeverAppliedEarly
<1> QED BY <1>1, AlwaysInv, InitAttributed, StepAttributed, PTL DEF Spec

=============================================================================
