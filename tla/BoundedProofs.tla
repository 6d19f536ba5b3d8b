--------------------------- MODULE BoundedProofs ----------------------------
(***************************************************************************)
(* What is bounded, and what comes to an end.                              *)
(*                                                                         *)
(* The ring of governance/bounded, for every capacity: it holds the last   *)
(* values appended, oldest first.  Its cache, for every capacity: all that *)
(* is in it can be evicted, its map never passes the cap, and only lazy    *)
(* expiry puts its order and its map out of step.                          *)
(*                                                                         *)
(* The runner process, for any jobs and any further services: nothing works *)
(* on the store after it is closed, and the status file ends as draining.  *)
(***************************************************************************)
EXTENDS TLAPS, Runner, BoundedCache, Ring

(* The provers may take a minute for a leaf, and each leaf two attempts.   *)
USE SMTT(60), Z3T(60)

-----------------------------------------------------------------------------
(* The runner process. *)

(* What a service that StopAll has left behind can no longer do. *)
StoppedOK ==
  /\ \A s \in Services : svc[s] \in {"stopping", "stopped"} => s \in cancelled
  /\ svc["executor"] = "stopped" => busy = {}
  /\ svc["spool-watcher"] = "stopped" => ingesting = NoJob
  /\ svc["status-writer"] = "stopped" => drained /\ flushing = NoCall

(* The final flush follows the last heartbeat, and nothing follows it. *)
FlushOK ==
  /\ ~looping => ticking = NoCall
  /\ drained => ~looping
  /\ flushing # NoCall => drained /\ flushing.status.draining
  /\ drained /\ flushing = NoCall /\ ~unflushed => file.draining

(* StopAll goes from the last service to the first, and the store closes   *)
(* when it has stopped them all.                                           *)
StopOrder ==
  /\ phase \in {"stopping", "exited"} =>
       \A i \in 1..Len(Order) : i > stopAt => svc[Order[i]] = "stopped"
  /\ phase = "exited" => stopAt = 0
  /\ storeOpen <=> phase # "exited"

(* The inductive invariant of the runner. *)
RunnerInv ==
  /\ RunnerTypeOK
  /\ StoppedOK
  /\ FlushOK
  /\ StopOrder

(* The order of registration names the services, the three of every        *)
(* runner among them.                                                      *)
LEMMA OrderFacts ==
  /\ Len(Order) \in Nat
  /\ \A i \in 1..Len(Order) : Order[i] \in Services
  /\ {"spool-watcher", "executor", "status-writer"} \subseteq Services
  /\ \A s \in Services : \E i \in 1..Len(Order) : s = Order[i]
<1>1. Len(Order) \in Nat /\ Len(Order) >= 3
      /\ Order[1] = "spool-watcher" /\ Order[2] = "executor" /\ Order[3] = "status-writer"
  BY DEF Order
<1> QED BY <1>1 DEF Services

(* A run that has exited has stopped every service. *)
LEMMA RunnerInvImplies == RunnerInv => NothingUsesClosedStore /\ FinalStatusDraining
<1> SUFFICES ASSUME RunnerInv, phase = "exited"
             PROVE  /\ busy = {} /\ ingesting = NoJob /\ ticking = NoCall /\ flushing = NoCall
                    /\ ~unflushed => file.draining
  BY DEF RunnerInv, StopOrder, NothingUsesClosedStore, FinalStatusDraining
<1>1. \A s \in Services : svc[s] = "stopped"
  BY OrderFacts DEF RunnerInv, StopOrder
<1> QED BY <1>1, OrderFacts DEF RunnerInv, StoppedOK, FlushOK

(* Nothing has been started, and no status was written. *)
LEMMA InitRunner == RunnerInit => RunnerInv
<1> SUFFICES ASSUME RunnerInit PROVE RunnerInv
  OBVIOUS
<1>1. NoStatus \in Status /\ NoCall \in WriteCall
  BY DEF NoStatus, NoCall, WriteCall, Status, Snapshots, JobStates
<1>2. storeOpen \in BOOLEAN /\ looping \in BOOLEAN /\ drained \in BOOLEAN /\ unflushed \in BOOLEAN
  BY Zenon DEF RunnerInit
<1>3. RunnerTypeOK
  BY <1>1, <1>2, OrderFacts DEF RunnerInit, RunnerTypeOK, Snapshots, JobStates
<1> QED BY <1>3, OrderFacts DEF RunnerInit, RunnerInv, StoppedOK, FlushOK, StopOrder

(* The service manager and the signals. *)
LEMMA ManagerKeeps ==
  ASSUME RunnerInv, ManagerStep \/ ContextDone \/ Drain \/ GraceFires
  PROVE  RunnerInv'
<1> USE DEF RunnerInv, RunnerTypeOK, ManagerStep, storeVars, statusVars
<1>1. ASSUME NEW s \in Services, StartService(s) PROVE RunnerInv'
  BY <1>1, OrderFacts DEF StartService, StoppedOK, FlushOK, StopOrder
<1>2. CASE StartAllReturns
  BY <1>2 DEF StartAllReturns, StoppedOK, FlushOK, StopOrder
<1>3. CASE ContextDone
  BY <1>3 DEF ContextDone, StoppedOK, FlushOK, StopOrder
<1>4. CASE Drain
  BY <1>4, OrderFacts DEF Drain, StoppedOK, FlushOK, StopOrder
<1>5. CASE GraceFires
  BY <1>5 DEF GraceFires, StoppedOK, FlushOK, StopOrder
<1>6. CASE BeginStop
  BY <1>6, OrderFacts DEF BeginStop, Stopping, StoppedOK, FlushOK, StopOrder
<1>7. CASE EndStop
  <2>1. /\ Stopping = "executor" => busy = {}
        /\ Stopping = "spool-watcher" => ingesting = NoJob
        /\ Stopping = "status-writer" => flushing = NoCall /\ drained
    BY <1>7, Zenon DEF EndStop, Joined
  <2>2. RunnerTypeOK' /\ FlushOK' /\ StopOrder'
    BY <1>7, <2>1, OrderFacts DEF EndStop, Stopping, FlushOK, StopOrder
  <2>3. StoppedOK'
    BY <1>7, <2>1, OrderFacts DEF EndStop, Stopping, StoppedOK
  <2> QED BY Zenon, <2>2, <2>3
<1>8. CASE RunReturns
  <2>1. storeOpen' \in BOOLEAN /\ ~storeOpen'
    BY <1>8, Zenon DEF RunReturns
  <2> QED BY <1>8, <2>1 DEF RunReturns, StoppedOK, FlushOK, StopOrder
<1> QED BY Zenon, <1>1, <1>2, <1>3, <1>4, <1>5, <1>6, <1>7, <1>8

(* The work of the services: it begins only under a live context. *)
LEMMA WorkKeeps ==
  ASSUME RunnerInv,
         (\E j \in Jobs : BeginIngest(j) \/ Claim(j) \/ HandlerReturns(j)) \/ EndIngest
  PROVE  RunnerInv'
<1> USE DEF RunnerInv, RunnerTypeOK, manager, statusVars, storeVars, StoppedOK, FlushOK, StopOrder,
       Snapshots, JobStates
<1>1. ASSUME NEW j \in Jobs, BeginIngest(j) PROVE RunnerInv'
  BY <1>1, OrderFacts DEF BeginIngest, Live
<1>2. ASSUME NEW j \in Jobs, Claim(j) PROVE RunnerInv'
  BY <1>2, OrderFacts DEF Claim, Live
<1>3. ASSUME NEW j \in Jobs, HandlerReturns(j) PROVE RunnerInv'
  BY <1>3 DEF HandlerReturns
<1>4. CASE EndIngest
  BY <1>4 DEF EndIngest
<1> QED BY Zenon, <1>1, <1>2, <1>3, <1>4

(* A call of writeOnce keeps the flag it read on entry. *)
LEMMA Entering ==
  ASSUME NEW flag \in BOOLEAN
  PROVE  /\ Entered(flag) \in WriteCall /\ Entered(flag).status.draining = flag
         /\ Entered(flag) # NoCall
BY DEF Entered, WriteCall, Status, NoStatus, NoCall, Snapshots, JobStates

(* Listing the jobs changes only the counts of the call. *)
LEMMA Listing ==
  ASSUME RunnerTypeOK, NEW call \in WriteCall
  PROVE  /\ Listed(call) \in WriteCall /\ Listed(call).status.draining = call.status.draining
         /\ Listed(call).at = "listed"
BY DEF RunnerTypeOK, Listed, WriteCall, Status

(* The status writer touches nothing but the status. *)
LEMMA StatusFrame ==
  ASSUME RunnerInv, UNCHANGED <<manager, storeVars, busy, ingesting>>,
         looping' \in BOOLEAN, drained' \in BOOLEAN, unflushed' \in BOOLEAN,
         ticking' \in WriteCall, flushing' \in WriteCall, file' \in Status,
         FlushOK', svc["status-writer"] = "stopped" => drained' /\ flushing' = NoCall
  PROVE  RunnerInv'
<1>1. /\ UNCHANGED <<phase, svc, stopAt, cancelled, grace, state, storeOpen, busy, ingesting>>
  BY Zenon DEF manager, storeVars
<1>2. RunnerTypeOK'
  BY <1>1, Zenon DEF RunnerInv, RunnerTypeOK
<1>3. StoppedOK'
  BY <1>1, Zenon DEF RunnerInv, StoppedOK
<1> QED BY <1>1, <1>2, <1>3, Zenon DEF RunnerInv, StopOrder

(* The status writer: the heartbeat ends before the flush begins. *)
LEMMA StatusKeeps ==
  ASSUME RunnerInv, Heartbeat \/ LoopReturns \/ StatusStep
  PROVE  RunnerInv'
<1>0. /\ looping \in BOOLEAN /\ drained \in BOOLEAN /\ unflushed \in BOOLEAN
      /\ ticking \in WriteCall /\ flushing \in WriteCall /\ file \in Status
      /\ svc["status-writer"] = "stopped" => drained /\ flushing = NoCall
      /\ FlushOK
  BY DEF RunnerInv, RunnerTypeOK, StoppedOK
<1>a. NoCall \in WriteCall
  BY DEF NoCall, NoStatus, WriteCall, Status, Snapshots, JobStates
<1>1. CASE Heartbeat
  BY <1>0, <1>1, Entering, StatusFrame DEF Heartbeat, FlushOK
<1>2. CASE LoopReturns
  <2>1. /\ looping' \in BOOLEAN /\ ~looping' /\ ticking = NoCall
        /\ UNCHANGED <<manager, storeVars, busy, ingesting, ticking, flushing, drained, file, unflushed>>
    BY <1>2, Zenon DEF LoopReturns
  <2>2. FlushOK'
    BY <1>0, <2>1, Zenon DEF FlushOK
  <2> QED BY <1>0, <2>1, <2>2, StatusFrame
<1>3. CASE TickLists
  <2>1. ticking' \in WriteCall /\ ticking # NoCall
    BY <1>0, <1>3, Listing DEF RunnerInv, TickLists, NoCall
  <2>2. FlushOK'
    BY <1>0, <1>3, <2>1 DEF TickLists, FlushOK
  <2> QED BY <1>0, <1>3, <2>1, <2>2, StatusFrame DEF TickLists
<1>4. CASE TickWrites
  <2>1. ticking' = NoCall /\ file' \in Status
    BY <1>0, <1>4 DEF TickWrites, WriteCall
  <2>2. /\ ticking # NoCall
        /\ UNCHANGED <<manager, storeVars, busy, ingesting, looping, flushing, drained, unflushed>>
    BY <1>4 DEF TickWrites, NoCall
  <2>3. FlushOK'
    BY <1>0, <2>1, <2>2, Zenon DEF FlushOK
  <2> QED BY <1>0, <1>a, <2>1, <2>2, <2>3, StatusFrame, Zenon
<1>5. CASE Flush
  <2>1. drained' \in BOOLEAN /\ drained' /\ flushing' = Entered(TRUE)
    BY <1>5, Zenon DEF Flush
  <2>2. Entered(TRUE) \in WriteCall /\ Entered(TRUE).status.draining /\ Entered(TRUE) # NoCall
    BY Entering, Zenon
  <2>3. /\ ~looping /\ svc["status-writer"] = "stopping"
        /\ UNCHANGED <<manager, storeVars, busy, ingesting, looping, ticking, file, unflushed>>
    BY <1>5, Zenon DEF Flush
  <2>4. FlushOK'
    BY <1>0, <2>1, <2>2, <2>3, Zenon DEF FlushOK
  <2> QED BY <1>0, <2>1, <2>2, <2>3, <2>4, StatusFrame, Zenon
<1>6. CASE FlushLists
  BY <1>0, <1>6, Listing, StatusFrame DEF RunnerInv, FlushLists, FlushOK, NoCall
<1>7. CASE FlushWrites
  <2>1. flushing' = NoCall /\ file' \in Status /\ unflushed' \in BOOLEAN
    <3>1. flushing.status \in Status
      BY <1>0 DEF WriteCall
    <3> QED BY <1>0, <1>7, <3>1, Zenon DEF FlushWrites
  <2>2. /\ flushing # NoCall
        /\ UNCHANGED <<manager, storeVars, busy, ingesting, looping, ticking, drained>>
    BY <1>7 DEF FlushWrites, NoCall
  <2>3. file' = flushing.status \/ unflushed'
    BY <1>7, Zenon DEF FlushWrites
  <2>4. FlushOK'
    BY <1>0, <2>1, <2>2, <2>3, Zenon DEF FlushOK
  <2> QED BY <1>0, <1>a, <2>1, <2>2, <2>4, StatusFrame, Zenon
<1> QED BY <1>1, <1>2, <1>3, <1>4, <1>5, <1>6, <1>7 DEF StatusStep

(* Every step preserves the inductive invariant. *)
LEMMA RunnerInvHolds == RunnerSpec => []RunnerInv
<1>1. RunnerInv /\ [RunnerNext]_runnerVars => RunnerInv'
  <2> SUFFICES ASSUME RunnerInv, [RunnerNext]_runnerVars PROVE RunnerInv'
    OBVIOUS
  <2>1. CASE UNCHANGED runnerVars
    BY <2>1 DEF runnerVars, manager, storeVars, statusVars, RunnerInv, RunnerTypeOK, StoppedOK,
       FlushOK, StopOrder
  <2>2. CASE RunnerNext
    BY <2>1, <2>2, ManagerKeeps, WorkKeeps, StatusKeeps DEF RunnerNext, Terminated
  <2> QED BY <2>1, <2>2
<1> QED BY <1>1, InitRunner, PTL DEF RunnerSpec

(* spool.go, "the runner's deferred store close must never run under an    *)
(* in-flight drain": for any jobs and any number of workers, with or       *)
(* without the refresh submitter.                                          *)
THEOREM StoreClosedLast == RunnerSpec => []NothingUsesClosedStore
BY RunnerInvHolds, RunnerInvImplies, PTL

(* runner.go, "flush status.json with draining=true": the status file a    *)
(* run leaves behind is that of the final flush, if that was written.      *)
THEOREM FlushIsLast == RunnerSpec => []FinalStatusDraining
BY RunnerInvHolds, RunnerInvImplies, PTL

-----------------------------------------------------------------------------
(* The ring. *)

(* The index arithmetic of Append and Snapshot. *)
Wrapped(x) == IF x < Capacity THEN x ELSE x - Capacity

(* A sum of two indices wraps at most once. *)
LEMMA WrapOnce ==
  ASSUME NEW x \in 0 .. 2 * Capacity - 1
  PROVE  x % Capacity = Wrapped(x) /\ Wrapped(x) \in Slots
BY CapacityAssumption DEF Wrapped, Slots

(* The inductive invariant of the ring: each retained element is where the *)
(* wrapped index says.                                                     *)
At(i) == elements[(next + i - 1) % Capacity]
RingInv ==
  /\ RingTypeOK
  /\ Len(recent) = size
  /\ \A i \in 1 .. size : recent[i] = At(i)

(* Ring.Append keeps RingInv, whether or not the ring is full. *)
LEMMA AppendKeeps ==
  ASSUME RingInv, NEW v \in Values, AppendValue(v)
  PROVE  RingInv'
<1> USE CapacityAssumption DEF RingInv, RingTypeOK, Slots
<1> DEFINE w == (next + size) % Capacity
<1>1. w = Wrapped(next + size) /\ w \in Slots
  <2>1. next + size \in 0 .. 2 * Capacity - 1
    OBVIOUS
  <2> QED BY <2>1, WrapOnce, Zenon
<1>2. ASSUME NEW i \in 1 .. Capacity
      PROVE  (next + i - 1) % Capacity = Wrapped(next + i - 1) /\ Wrapped(next + i - 1) \in Slots
  <2>1. next + i - 1 \in 0 .. 2 * Capacity - 1
    BY <1>2
  <2> QED BY <2>1, WrapOnce, Zenon
<1>3. elements' = [elements EXCEPT ![w] = v] /\ elements' \in [Slots -> Values]
  BY <1>1 DEF AppendValue
<1> HIDE DEF w
<1>4. CASE size < Capacity
  <2>1. next' = next /\ size' = size + 1 /\ recent' = Append(recent, v)
    BY <1>4 DEF AppendValue, Remembered
  <2>2. ASSUME NEW i \in 1 .. size PROVE recent'[i] = At(i)'
    <3>1. Wrapped(next + i - 1) \in Slots /\ Wrapped(next + i - 1) # w
      BY <1>1, <1>2, <1>4 DEF Wrapped
    <3>2. (next + i - 1) % Capacity = Wrapped(next + i - 1)
      <4>1. i \in 1 .. Capacity
        OBVIOUS
      <4> QED BY <4>1, <1>2, Zenon
    <3>3. At(i) = elements[Wrapped(next + i - 1)] /\ At(i)' = elements'[Wrapped(next + i - 1)]
      BY <3>2, <2>1 DEF At
    <3>4. At(i)' = At(i)
      BY <3>1, <3>3, <1>3
    <3> QED BY <3>4, <2>1
  <2>3. ASSUME NEW i \in Nat, i = size + 1 PROVE recent'[i] = At(i)'
    <3>1. next + i - 1 = next + size
      BY <2>3
    <3>2. At(i)' = elements'[w]
      BY Zenon, <2>1, <3>1 DEF At, w
    <3> QED BY <3>2, <2>1, <2>3, <1>1, <1>3
  <2>4. Len(recent') = size' /\ recent' \in Seq(Values)
    BY <2>1
  <2>5. \A i \in 1 .. size' : recent'[i] = At(i)'
    BY <2>1, <2>2, <2>3
  <2> QED BY <2>1, <2>4, <2>5, <1>3, <1>4
<1>5. CASE size = Capacity
  <2>1. next' = (next + 1) % Capacity /\ size' = size /\ recent' = Append(Tail(recent), v)
    BY <1>5 DEF AppendValue, Remembered
  <2>2. next' = Wrapped(next + 1) /\ next' \in Slots
    <3>1. next + 1 \in 0 .. 2 * Capacity - 1
      OBVIOUS
    <3> QED BY <3>1, <2>1, WrapOnce, Zenon
  <2>3. w = next
    BY <1>1, <1>5 DEF Wrapped
  <2>4. Len(recent') = size' /\ recent' \in Seq(Values) /\ Len(Tail(recent)) = Capacity - 1
    BY <2>1, <1>5
  <2>5. ASSUME NEW i \in 1 .. Capacity PROVE recent'[i] = At(i)'
    <3>1. (next' + i - 1) % Capacity = Wrapped(next' + i - 1)
      <4>1. next' + i - 1 \in 0 .. 2 * Capacity - 1
        BY <2>2
      <4> QED BY <4>1, WrapOnce, Zenon
    <3>2. At(i)' = elements'[Wrapped(next' + i - 1)]
      BY <3>1 DEF At
    <3>3. CASE i = Capacity
      <4>1. Wrapped(next' + i - 1) = w
        BY <3>3, <2>2, <2>3 DEF Wrapped
      <4>2. At(i)' = v
        BY <4>1, <3>2, <1>1, <1>3
      <4> QED BY <4>2, <3>3, <2>1, <2>4
    <3>4. CASE i < Capacity
      <4>1. Wrapped(next' + i - 1) = Wrapped(next + i) /\ Wrapped(next + i) \in Slots \ {w}
        BY <3>4, <2>2, <2>3 DEF Wrapped
      <4>2. At(i + 1) = elements[Wrapped(next + i)]
        <5>1. next + i \in 0 .. 2 * Capacity - 1 /\ next + (i + 1) - 1 = next + i
          OBVIOUS
        <5>2. (next + i) % Capacity = Wrapped(next + i)
          BY <5>1, WrapOnce, Zenon
        <5> QED BY <5>1, <5>2 DEF At
      <4>3. At(i)' = At(i + 1)
        BY <4>1, <4>2, <3>2, <1>3
      <4>4. recent'[i] = recent[i + 1]
        BY <2>1, <2>4, <3>4, <1>5
      <4> QED BY <4>3, <4>4, <3>4, <1>5
    <3> QED BY <3>3, <3>4
  <2> QED BY <2>1, <2>2, <2>4, <2>5, <1>3, <1>5
<1> QED BY <1>4, <1>5

(* RingInv is an inductive invariant of the ring. *)
LEMMA RingInvHolds == RingSpec => []RingInv
<1>1. RingInit => RingInv
  BY CapacityAssumption DEF RingInit, RingInv, RingTypeOK, Slots
<1>2. RingInv /\ [RingNext]_ringVars => RingInv'
  <2>1. ASSUME RingInv, RingNext PROVE RingInv'
    BY <2>1, AppendKeeps DEF RingNext
  <2>2. ASSUME RingInv, UNCHANGED ringVars PROVE RingInv'
    BY <2>2 DEF ringVars, RingInv, RingTypeOK, At
  <2> QED BY <2>1, <2>2
<1> QED BY <1>1, <1>2, PTL DEF RingSpec

(* Ring.Snapshot: for every capacity, it is the last Capacity values appended,   *)
(* oldest first.                                                            *)
THEOREM SnapshotExact == RingSpec => []SnapshotIsRecent
<1>1. RingInv => SnapshotIsRecent
  <2> SUFFICES ASSUME RingInv PROVE Snapshot = recent
    BY DEF SnapshotIsRecent
  <2>1. recent = [i \in 1 .. size |-> recent[i]]
    BY DEF RingInv, RingTypeOK
  <2> QED BY <2>1 DEF RingInv, Snapshot, At
<1> QED BY <1>1, RingInvHolds, PTL

-----------------------------------------------------------------------------
(* The cache. *)

(* The inductive invariant of the cache. *)
CacheInv == TypeOK /\ Evictable

(* No key is at two positions. *)
Once(s) == \A i, m \in 1 .. Len(s) : s[i] = s[m] => i = m

(* removeFromOrderLocked: the order loses one position of k, and every      *)
(* other key of it stays.                                                   *)
LEMMA DropFacts ==
  ASSUME NEW s \in Seq(Keys), NEW k \in Keys, NEW i \in 1 .. Len(s), IsFirst(s, k, i)
  PROVE  /\ DropAt(s, i) \in Seq(Keys)
         /\ Len(DropAt(s, i)) = Len(s) - 1
         /\ \A j \in 1 .. Len(s) : s[j] # k =>
              \E m \in 1 .. Len(s) - 1 : DropAt(s, i)[m] = s[j]
<1> DEFINE d == DropAt(s, i)
<1>1. i \in 1 .. Len(s) /\ s[i] = k
  BY DEF IsFirst
<1>2. d \in Seq(Keys) /\ Len(d) = Len(s) - 1
  BY <1>1 DEF DropAt
<1>3. ASSUME NEW j \in 1 .. Len(s), s[j] # k
      PROVE  \E m \in 1 .. Len(s) - 1 : d[m] = s[j]
  <2>1. CASE j < i
    <3>1. j \in 1 .. Len(s) - 1 /\ d[j] = s[j]
      BY <1>1, <2>1 DEF DropAt
    <3> QED BY <3>1
  <2>2. CASE j > i
    <3>1. j - 1 \in 1 .. Len(s) - 1 /\ d[j - 1] = s[j]
      BY <1>1, <2>2 DEF DropAt
    <3> QED BY <3>1
  <2> QED BY <1>1, <1>3, <2>1, <2>2
<1> QED BY Zenon, <1>2, <1>3

(* Sweep: the filtered order is no longer than the order and holds every    *)
(* kept key of it.                                                          *)
LEMMA FilterFacts ==
  ASSUME NEW kept, order \in Seq(Keys), FilterOrder(kept)
  PROVE  /\ order' \in Seq(Keys)
         /\ Len(order') <= Len(order)
         /\ InOrder \cap kept \subseteq InOrder'
         /\ InOrder' \subseteq InOrder \cap kept
         /\ Once(order) => Once(order')
<1> DEFINE pos == {i \in 1 .. Len(order) : order[i] \in kept}
<1>0. PICK n \in 0 .. Len(order) : \E f \in [1 .. n -> pos] :
        /\ \A i, m \in 1 .. n : i < m => f[i] < f[m]
        /\ \A p \in pos : \E i \in 1 .. n : f[i] = p
        /\ order' = [i \in 1 .. n |-> order[f[i]]]
  BY Zenon DEF FilterOrder
<1>1. PICK f \in [1 .. n -> pos] :
        /\ \A i, m \in 1 .. n : i < m => f[i] < f[m]
        /\ \A p \in pos : \E i \in 1 .. n : f[i] = p
        /\ order' = [i \in 1 .. n |-> order[f[i]]]
  BY <1>0, Zenon
<1>2. n \in Nat /\ n <= Len(order)
  OBVIOUS
<1>3. \A i \in 1 .. n : f[i] \in 1 .. Len(order) /\ order[f[i]] \in Keys /\ order[f[i]] \in kept
  BY <1>1
<1>4. order' \in Seq(Keys) /\ Len(order') = n
  BY <1>1, <1>2, <1>3
<1>5. InOrder \cap kept \subseteq InOrder'
  <2> SUFFICES ASSUME NEW p \in 1 .. Len(order), order[p] \in kept
               PROVE  \E i \in 1 .. Len(order') : order'[i] = order[p]
    BY DEF InOrder
  <2>1. PICK i \in 1 .. n : f[i] = p
    BY <1>1
  <2> QED BY Zenon, <2>1, <1>1, <1>4
<1>6. \A i \in 1 .. Len(order') : i \in 1 .. n /\ order'[i] = order[f[i]]
  BY <1>1, <1>4
<1>7. InOrder' \subseteq InOrder \cap kept
  BY <1>3, <1>6, Zenon DEF InOrder
<1>8. ASSUME Once(order), NEW i \in 1 .. Len(order'), NEW m \in 1 .. Len(order'),
             order'[i] = order'[m]
      PROVE  i = m
  <2>1. f[i] = f[m] /\ i \in 1 .. n /\ m \in 1 .. n
    <3>1. i \in 1 .. n /\ m \in 1 .. n /\ order[f[i]] = order[f[m]]
      BY <1>6, <1>8, Zenon
    <3>2. f[i] \in 1 .. Len(order) /\ f[m] \in 1 .. Len(order)
      BY <1>3, <3>1, Zenon
    <3> QED BY <1>8, <3>1, <3>2, Zenon DEF Once
  <2> QED BY <1>1, <1>3, <2>1
<1> QED BY Zenon, <1>2, <1>4, <1>5, <1>7, <1>8 DEF Once

(* Delete, and TakeIf of an entry that is not expired, keep CacheInv. *)
LEMMA DeleteKeeps ==
  ASSUME CacheInv, NEW k \in Keys, Delete(k)
  PROVE  CacheInv'
<1> USE DEF CacheInv, TypeOK, Evictable
<1>1. PICK i \in 1 .. Len(order) : IsFirst(order, k, i) /\ order' = DropAt(order, i)
  BY DEF Delete, removeFromOrderLocked
<1>2. /\ order' \in Seq(Keys)
      /\ Len(order') = Len(order) - 1
      /\ \A j \in 1 .. Len(order) : order[j] # k => \E m \in 1 .. Len(order) - 1 : order'[m] = order[j]
  <2>1. order \in Seq(Keys)
    OBVIOUS
  <2>2. /\ DropAt(order, i) \in Seq(Keys)
        /\ Len(DropAt(order, i)) = Len(order) - 1
        /\ \A j \in 1 .. Len(order) : order[j] # k =>
             \E m \in 1 .. Len(order) - 1 : DropAt(order, i)[m] = order[j]
    BY Zenon, <1>1, <2>1, DropFacts
  <2> QED BY <1>1, <2>2, Zenon
<1>3. live' \subseteq InOrder'
  <2> SUFFICES ASSUME NEW x \in live, x # k PROVE \E m \in 1 .. Len(order') : order'[m] = x
    BY Zenon DEF Delete, InOrder
  <2>1. PICK j \in 1 .. Len(order) : order[j] = x
    BY DEF InOrder
  <2>2. PICK m \in 1 .. Len(order) - 1 : order'[m] = x
    BY Zenon, <2>1, <1>2
  <2>3. Len(order') = Len(order) - 1
    BY <1>2, Zenon
  <2> QED BY <2>2, <2>3, Zenon
<1>4. age' \in [Keys -> 0 .. Ttl] /\ live' \subseteq Keys
  BY BoundsAssumption DEF Delete, Forget
<1>5. Len(order') <= Cap
  BY <1>2, BoundsAssumption
<1> QED BY Zenon, <1>2, <1>3, <1>4, <1>5

(* Get of an expired entry keeps CacheInv: its key only stays in the order. *)
LEMMA GetKeeps ==
  ASSUME CacheInv, NEW k \in Keys, Get(k)
  PROVE  CacheInv'
BY BoundsAssumption DEF CacheInv, TypeOK, Evictable, Get, Forget, InOrder

(* A refreshing Put keeps CacheInv: the key moves to the end. *)
LEMMA PutExistingKeeps ==
  ASSUME CacheInv, NEW k \in Keys, PutExisting(k)
  PROVE  CacheInv'
<1> USE DEF CacheInv, TypeOK, Evictable
<1>1. PICK i \in 1 .. Len(order) : IsFirst(order, k, i) /\ order' = Append(DropAt(order, i), k)
  BY DEF PutExisting, touchLocked
<1> DEFINE d == DropAt(order, i)
<1>2. /\ d \in Seq(Keys)
      /\ Len(d) = Len(order) - 1
      /\ \A j \in 1 .. Len(order) : order[j] # k => \E m \in 1 .. Len(order) - 1 : d[m] = order[j]
  <2>1. order \in Seq(Keys)
    OBVIOUS
  <2> QED BY Zenon, <1>1, <2>1, DropFacts
<1> HIDE DEF d
<1>3. order' = Append(d, k)
  BY <1>1 DEF d
<1>4. order' \in Seq(Keys) /\ Len(order') = Len(order)
  BY <1>2, <1>3
<1>5. order'[Len(order)] = k /\ \A m \in 1 .. Len(order) - 1 : order'[m] = d[m]
  BY <1>2, <1>3
<1>6. live' \subseteq InOrder'
  <2> SUFFICES ASSUME NEW x \in live PROVE \E m \in 1 .. Len(order') : order'[m] = x
    BY Zenon DEF PutExisting, InOrder
  <2>1. PICK j \in 1 .. Len(order) : order[j] = x
    BY DEF InOrder
  <2>2. CASE x = k
    BY <2>1, <2>2, <1>4, <1>5
  <2>3. CASE x # k
    <3>1. PICK m \in 1 .. Len(order) - 1 : d[m] = x
      BY Zenon, <2>1, <2>3, <1>2
    <3>2. order'[m] = x
      BY <3>1, <1>5
    <3>3. m \in 1 .. Len(order')
      BY <1>4
    <3> QED BY <3>2, <3>3
  <2> QED BY <2>2, <2>3
<1>7. age' \in [Keys -> 0 .. Ttl] /\ live' = live
  BY BoundsAssumption DEF PutExisting
<1> QED BY Zenon, <1>4, <1>6, <1>7

(* An inserting Put keeps CacheInv: what the trim takes off the order it    *)
(* takes out of the map.                                                    *)
LEMMA PutNewKeeps ==
  ASSUME CacheInv, NEW k \in Keys, PutNew(k)
  PROVE  CacheInv'
<1> USE DEF CacheInv, TypeOK, Evictable
<1> DEFINE longer == Append(order, k)
<1>1. /\ longer \in Seq(Keys) /\ Len(longer) = Len(order) + 1
      /\ \A m \in 1 .. Len(order) : longer[m] = order[m]
      /\ longer[Len(order) + 1] = k
  OBVIOUS
<1>2. \A x \in live \cup {k} : \E m \in 1 .. Len(longer) : longer[m] = x
  BY <1>1 DEF InOrder
<1>3. CASE Len(longer) > Cap
  <2>1. order' = Tail(longer) /\ live' = (live \cup {k}) \ {Head(longer)} /\ Forget({Head(longer)})
    BY Zenon, <1>3 DEF PutNew
  <2> HIDE DEF longer
  <2>2. /\ order' \in Seq(Keys) /\ Len(order') = Len(longer) - 1
        /\ \A m \in 2 .. Len(longer) : order'[m - 1] = longer[m]
        /\ Head(longer) = longer[1]
    BY <1>1, <2>1
  <2>3. live' \subseteq InOrder'
    <3> SUFFICES ASSUME NEW x \in live' PROVE \E m \in 1 .. Len(order') : order'[m] = x
      BY DEF InOrder
    <3>1. PICK m \in 1 .. Len(longer) : longer[m] = x
      BY <1>2, <2>1
    <3>2. m \in 2 .. Len(longer) /\ m - 1 \in 1 .. Len(order')
      BY <3>1, <2>1, <2>2, <1>1
    <3> QED BY Zenon, <3>1, <3>2, <2>2
  <2>4. age' \in [Keys -> 0 .. Ttl] /\ live' \subseteq Keys
    BY <2>1, BoundsAssumption DEF Forget
  <2>5. Len(order') <= Cap
    BY <2>2, <1>1
  <2> QED BY <2>2, <2>3, <2>4, <2>5
<1>4. CASE ~(Len(longer) > Cap)
  <2>1. order' = longer /\ live' = live \cup {k} /\ age' = age
    BY <1>4 DEF PutNew
  <2> HIDE DEF longer
  <2>2. live' \subseteq InOrder'
    BY Zenon, <2>1, <1>2 DEF InOrder
  <2> QED BY <2>1, <2>2, <1>1, <1>4, BoundsAssumption
<1> QED BY Zenon, <1>3, <1>4

(* Sweep keeps CacheInv. *)
LEMMA SweepKeeps ==
  ASSUME CacheInv, Sweep
  PROVE  CacheInv'
<1> USE DEF CacheInv, TypeOK, Evictable
<1> DEFINE due == {k \in live \cap InOrder : Expired(k)}
<1>1. live' = live \ due /\ Forget(due) /\ FilterOrder(live \ due)
  BY DEF Sweep
<1>2. /\ order' \in Seq(Keys)
      /\ Len(order') <= Len(order)
      /\ InOrder \cap (live \ due) \subseteq InOrder'
  BY <1>1, FilterFacts
<1>3. live' \subseteq InOrder' /\ live' \subseteq Keys
  BY <1>1, <1>2
<1>4. age' \in [Keys -> 0 .. Ttl]
  BY <1>1, BoundsAssumption DEF Forget
<1>5. Len(order') <= Cap
  BY <1>2, BoundsAssumption
<1> QED BY Zenon, <1>2, <1>3, <1>4, <1>5

(* The clock and Reset keep CacheInv. *)
LEMMA OtherKeeps ==
  ASSUME CacheInv, Tick \/ Reset \/ UNCHANGED vars
  PROVE  CacheInv'
<1> USE BoundsAssumption DEF CacheInv, TypeOK, Evictable, InOrder
<1>1. CASE Tick
  BY <1>1 DEF Tick
<1>2. CASE Reset
  BY <1>2 DEF Reset, Forget
<1>3. CASE UNCHANGED vars
  BY <1>3 DEF vars
<1> QED BY Zenon, <1>1, <1>2, <1>3

(* CacheInv is an inductive invariant of the cache. *)
LEMMA CacheInvHolds == Spec => []CacheInv
<1>1. Init => CacheInv
  BY BoundsAssumption DEF Init, CacheInv, TypeOK, Evictable, InOrder
<1>2. CacheInv /\ [Next]_vars => CacheInv'
  <2> SUFFICES ASSUME CacheInv, [Next]_vars PROVE CacheInv'
    OBVIOUS
  <2>1. CASE Tick \/ Reset \/ UNCHANGED vars
    BY <2>1, OtherKeeps
  <2>2. CASE Sweep
    BY <2>2, SweepKeeps
  <2>3. ASSUME NEW k \in Keys, Get(k) \/ Put(k) \/ Delete(k) \/ TakeIf(k) PROVE CacheInv'
    BY <2>3, GetKeeps, PutNewKeeps, PutExistingKeeps, DeleteKeeps DEF Put, TakeIf
  <2> QED BY <2>1, <2>2, <2>3 DEF Next
<1> QED BY <1>1, <1>2, PTL DEF Spec

(* Cache: whatever the interleaving of puts, expiries and sweeps, every     *)
(* entry can be evicted and the order stays within the cap.                 *)
THEOREM AlwaysEvictable == Spec => []Evictable
BY CacheInvHolds, PTL DEF CacheInv

(* removeFromOrderLocked on an order without duplicates: k is gone.         *)
LEMMA DropOnce ==
  ASSUME NEW s \in Seq(Keys), NEW k \in Keys, NEW i \in 1 .. Len(s), IsFirst(s, k, i), Once(s)
  PROVE  /\ Once(DropAt(s, i))
         /\ \A m \in 1 .. Len(s) - 1 :
              DropAt(s, i)[m] # k /\ \E j \in 1 .. Len(s) : s[j] = DropAt(s, i)[m]
<1> DEFINE d == DropAt(s, i)
           from == [m \in 1 .. Len(s) - 1 |-> IF m < i THEN m ELSE m + 1]
<1>1. s[i] = k /\ Len(s) \in Nat /\ Len(d) = Len(s) - 1
  BY DropFacts DEF IsFirst
<1>2. ASSUME NEW m \in 1 .. Len(s) - 1
      PROVE  from[m] \in 1 .. Len(s) /\ from[m] # i /\ d[m] = s[from[m]]
  BY <1>1 DEF DropAt
<1>3. ASSUME NEW m \in 1 .. Len(s) - 1, NEW p \in 1 .. Len(s) - 1, from[m] = from[p]
      PROVE  m = p
  BY <1>1, <1>3
<1> HIDE DEF d, from
<1>4. Once(d)
  <2> SUFFICES ASSUME NEW m \in 1 .. Len(d), NEW p \in 1 .. Len(d), d[m] = d[p] PROVE m = p
    BY Zenon DEF Once
  <2>1. m \in 1 .. Len(s) - 1 /\ p \in 1 .. Len(s) - 1
    BY <1>1, Zenon
  <2>2. s[from[m]] = s[from[p]] /\ from[m] \in 1 .. Len(s) /\ from[p] \in 1 .. Len(s)
    BY <1>2, <2>1, Zenon
  <2> QED BY <1>3, <2>1, <2>2, Zenon DEF Once
<1>5. \A m \in 1 .. Len(s) - 1 : d[m] # k /\ \E j \in 1 .. Len(s) : s[j] = d[m]
  BY <1>1, <1>2 DEF Once
<1> QED BY <1>4, <1>5 DEF d

(* Put of an entry, Delete and Sweep keep an exact order exact. *)
LEMMA ExactKept ==
  ASSUME CacheInv, Exact, NEW k \in Keys, PutExisting(k) \/ Delete(k) \/ Sweep
  PROVE  Exact'
<1> USE DEF CacheInv, TypeOK
<1>0. Once(order) /\ InOrder = live /\ order \in Seq(Keys) /\ Len(order) \in Nat
  BY DEF Exact, Once
<1>1. ASSUME NEW i \in 1 .. Len(order), IsFirst(order, k, i)
      PROVE  /\ DropAt(order, i) \in Seq(Keys) /\ Len(DropAt(order, i)) = Len(order) - 1
             /\ Once(DropAt(order, i))
             /\ {DropAt(order, i)[m] : m \in 1 .. Len(order) - 1} = live \ {k}
  <2> DEFINE d == DropAt(order, i)
  <2>1. /\ d \in Seq(Keys) /\ Len(d) = Len(order) - 1
        /\ \A j \in 1 .. Len(order) : order[j] # k => \E m \in 1 .. Len(order) - 1 : d[m] = order[j]
    BY <1>0, <1>1, DropFacts, Zenon
  <2>2. /\ Once(d)
        /\ \A m \in 1 .. Len(order) - 1 : d[m] # k /\ \E j \in 1 .. Len(order) : order[j] = d[m]
    <3>1. /\ Once(DropAt(order, i))
          /\ \A m \in 1 .. Len(order) - 1 :
               DropAt(order, i)[m] # k /\ \E j \in 1 .. Len(order) : order[j] = DropAt(order, i)[m]
      BY <1>0, <1>1, DropOnce
    <3> QED BY <3>1, Zenon
  <2> HIDE DEF d
  <2>3. {d[m] : m \in 1 .. Len(order) - 1} = live \ {k}
    <3>1. ASSUME NEW m \in 1 .. Len(order) - 1 PROVE d[m] \in live \ {k}
      BY <1>0, <2>2, Zenon DEF InOrder
    <3>2. ASSUME NEW x \in live \ {k} PROVE \E m \in 1 .. Len(order) - 1 : d[m] = x
      BY <1>0, <2>1, Zenon DEF InOrder
    <3> QED BY <3>1, <3>2, Zenon
  <2> QED BY <2>1, <2>2, <2>3 DEF d
<1>2. CASE Delete(k)
  <2>1. PICK i \in 1 .. Len(order) : IsFirst(order, k, i) /\ order' = DropAt(order, i)
    BY <1>2 DEF Delete, removeFromOrderLocked
  <2>2. Once(order') /\ {order'[m] : m \in 1 .. Len(order')} = live \ {k}
    BY <1>1, <2>1, Zenon
  <2>3. live' = live \ {k}
    BY <1>2 DEF Delete
  <2> QED BY <2>2, <2>3, Zenon DEF Exact, Once, InOrder
<1>3. CASE PutExisting(k)
  <2>1. PICK i \in 1 .. Len(order) :
          IsFirst(order, k, i) /\ order' = Append(DropAt(order, i), k)
    BY <1>3 DEF PutExisting, touchLocked
  <2> DEFINE d == DropAt(order, i)
             n == Len(order) - 1
  <2>2. /\ d \in Seq(Keys) /\ Len(d) = n /\ n \in Nat /\ Once(d)
        /\ {d[m] : m \in 1 .. n} = live \ {k}
    BY <1>0, <1>1, <2>1
  <2>3. order' = Append(d, k) /\ live' = live /\ k \in live
    BY <1>3, <2>1 DEF PutExisting
  <2> HIDE DEF d, n
  <2>4. /\ Len(order') = n + 1 /\ order'[n + 1] = k
        /\ \A m \in 1 .. n : order'[m] = d[m] /\ d[m] # k
    BY <2>2, <2>3
  <2>5. Once(order')
    BY <2>2, <2>4 DEF Once
  <2>6. {order'[m] : m \in 1 .. Len(order')} = live'
    BY <2>2, <2>3, <2>4
  <2> QED BY <2>5, <2>6 DEF Exact, Once, InOrder
<1>4. CASE Sweep
  <2> DEFINE due == {x \in live \cap InOrder : Expired(x)}
  <2>1. live' = live \ due /\ FilterOrder(live \ due)
    BY <1>4, Zenon DEF Sweep
  <2> HIDE DEF due
  <2>2. InOrder' = InOrder \cap (live \ due) /\ Once(order')
    BY <1>0, <2>1, FilterFacts
  <2> QED BY <1>0, <2>1, <2>2 DEF Exact, Once
<1> QED BY <1>2, <1>3, <1>4

(* So does Put of a new key, trimmed or not, and what is left of the steps. *)
LEMMA ExactKeptToo ==
  ASSUME CacheInv, Exact, NEW k \in Keys, PutNew(k) \/ Tick \/ Reset \/ UNCHANGED vars
  PROVE  Exact'
<1> USE DEF CacheInv, TypeOK
<1>1. CASE Tick \/ UNCHANGED vars
  BY <1>1 DEF Tick, vars, Exact, InOrder
<1>2. CASE Reset
  BY <1>2 DEF Reset, Exact, InOrder
<1>3. CASE PutNew(k)
  <2> DEFINE longer == Append(order, k)
             n == Len(order)
  <2>1. /\ n \in Nat /\ Len(longer) = n + 1 /\ longer \in Seq(Keys) /\ longer[n + 1] = k
        /\ \A m \in 1 .. n : longer[m] = order[m] /\ longer[m] # k
        /\ {order[m] : m \in 1 .. n} = live
        /\ \A i, m \in 1 .. n : order[i] = order[m] => i = m
    BY <1>3 DEF Exact, InOrder, PutNew
  <2>2. \/ order' = Tail(longer) /\ live' = (live \cup {k}) \ {Head(longer)}
        \/ order' = longer /\ live' = live \cup {k}
    BY <1>3, Zenon DEF PutNew
  <2> HIDE DEF longer, n
  <2>3. Once(longer) /\ {longer[m] : m \in 1 .. n + 1} = live \cup {k}
    BY <2>1 DEF Once
  <2>4. CASE order' = longer /\ live' = live \cup {k}
    BY <2>1, <2>3, <2>4 DEF Exact, Once, InOrder
  <2>5. CASE order' = Tail(longer) /\ live' = (live \cup {k}) \ {Head(longer)}
    <3>1. /\ Len(order') = n /\ Head(longer) = longer[1]
          /\ \A m \in 1 .. n : order'[m] = longer[m + 1]
      BY <2>1, <2>5
    <3>2. \A i, m \in 1 .. n : order'[i] = order'[m] => i = m
      BY <2>1, <2>3, <3>1 DEF Once
    <3>3. \A m \in 1 .. n : order'[m] \in live'
      BY <2>1, <2>3, <2>5, <3>1 DEF Once
    <3>4. ASSUME NEW x \in live' PROVE \E m \in 1 .. n : order'[m] = x
      <4>1. PICK j \in 1 .. n + 1 : longer[j] = x
        BY <2>3, <2>5, Zenon
      <4>2. j - 1 \in 1 .. n /\ order'[j - 1] = x
        BY <2>1, <2>5, <3>1, <4>1
      <4> QED BY <4>2
    <3> QED BY <3>1, <3>2, <3>3, <3>4 DEF Exact, InOrder
  <2> QED BY <2>2, <2>4, <2>5
<1> QED BY <1>1, <1>2, <1>3

(* Cache: only the lazy expiry of Get and TakeIf makes an exact order       *)
(* inexact; Put, Delete, Sweep and Reset keep order and map in step.        *)
THEOREM OrderStaysExact == Spec => OrderExact
<1>1. CacheInv /\ [Next]_vars => [Exact /\ ~(\E k \in Keys : Get(k)) => Exact']_vars
  <2> SUFFICES ASSUME CacheInv, [Next]_vars, Exact, ~(\E k \in Keys : Get(k)) PROVE Exact'
    OBVIOUS
  <2>1. CASE UNCHANGED vars
    BY <2>1 DEF vars, Exact, InOrder
  <2>2. ASSUME NEW k \in Keys, Get(k) \/ Put(k) \/ Delete(k) \/ TakeIf(k) PROVE Exact'
    BY <2>2, ExactKept, ExactKeptToo, Zenon DEF Put, TakeIf
  <2>3. CASE Tick
    BY <2>3 DEF Tick, Exact, InOrder
  <2>4. CASE Reset
    BY <2>4 DEF Reset, Exact, InOrder
  <2>5. CASE Sweep
    <3>1. PICK k \in Keys : TRUE
      BY <2>5 DEF Sweep, CacheInv, TypeOK
    <3> QED BY <2>5, <3>1, ExactKept
  <2> QED BY <2>1, <2>2, <2>3, <2>4, <2>5, Zenon DEF Next
<1> QED BY <1>1, CacheInvHolds, PTL DEF Spec, OrderExact

(* Cardinalities, for what follows only. *)
INSTANCE FiniteSetTheorems

(* Cache: the map never holds more than cap entries. *)
THEOREM CapKept == Spec => []WithinCap
<1>1. CacheInv => WithinCap
  <2> SUFFICES ASSUME CacheInv PROVE Cardinality(live) <= Cap
    BY DEF WithinCap
  <2>1. Len(order) \in Nat /\ Len(order) <= Cap /\ Cap \in Nat /\ live \in SUBSET InOrder
    BY BoundsAssumption DEF CacheInv, TypeOK, Evictable
  <2>2. [i \in 1 .. Len(order) |-> order[i]] \in Surjection(1 .. Len(order), InOrder)
    BY DEF Surjection, InOrder
  <2>3. IsFiniteSet(1 .. Len(order)) /\ Cardinality(1 .. Len(order)) = Len(order)
    <3>1. Len(order) \in Nat
      BY <2>1
    <3>2. /\ IsFiniteSet(1 .. Len(order))
          /\ Cardinality(1 .. Len(order)) = IF 1 > Len(order) THEN 0 ELSE Len(order) - 1 + 1
      BY <3>1, FS_Interval
    <3> QED BY <3>1, <3>2
  <2>4. IsFiniteSet(InOrder) /\ Cardinality(InOrder) <= Cardinality(1 .. Len(order))
    BY <2>2, <2>3, FS_Surjection
  <2>5. IsFiniteSet(live) /\ Cardinality(live) <= Cardinality(InOrder)
    BY <2>1, <2>4, FS_Subset
  <2>6. Cardinality(live) \in Nat /\ Cardinality(InOrder) \in Nat
    BY <2>4, <2>5, FS_CardinalityType
  <2> QED BY <2>1, <2>3, <2>4, <2>5, <2>6
<1> QED BY <1>1, CacheInvHolds, PTL

=============================================================================
