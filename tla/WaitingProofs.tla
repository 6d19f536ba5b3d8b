--------------------------- MODULE WaitingProofs ----------------------------
(***************************************************************************)
(* Who waits, for whom, and for how long.                                  *)
(*                                                                         *)
(* The HITL broker, for every set of requests: each is resolved once, the  *)
(* caller and the sink are told the same, and what a person decided.       *)
(*                                                                         *)
(* The job scheduler, for every schedule and any Starts and Stops: what    *)
(* Stop waits for, and when a job may begin again.                         *)
(***************************************************************************)
EXTENDS TLAPS, Scheduler, HITLBroker

(* The provers may take a minute for a leaf, and each leaf two attempts.   *)
USE SMTT(60), Z3T(60)

-----------------------------------------------------------------------------
(* The HITL broker. *)

(* What a person decides, what the sink is told of an outcome, and all it   *)
(* may be told.                                                             *)
Human == {"granted", "refused"}
Verdict(o) == IF o = "granted" THEN "approved" ELSE IF o = "refused" THEN "denied" ELSE "expired"
Entries == {"requested", "approved", "denied", "expired"}

(* A submission: whoever takes it out of the pending state, the person or  *)
(* the sweeper, is the only one to report on it, and does so once.         *)
AsyncOK(r) ==
  /\ pc[r] \in {"idle", "registered", "done"}
  /\ outcome[r] \notin Human
  /\ state[r] \in {"pending", "expired"} => resolver[r].at = "idle"
  /\ resolver[r].at # "sending"
  /\ r \in reaped => state[r] = "expired"
  /\ state[r] = "pending" \/ r \in reaped \/ resolver[r].at \in {"deleting", "reporting"}
       => Resolutions(r) = {}

(* The records of a blocking call, by where it is. *)
CallOK(r) ==
  /\ pc[r] \in {"idle", "registered"} => records[r] = <<>> /\ outcome[r] = "none"
  /\ pc[r] \in {"waiting", "expired", "reporting"} =>
       records[r] = <<"requested">> /\ outcome[r] = "none"
  /\ pc[r] = "received" => records[r] = <<"requested">> /\ outcome[r] \in Human
  /\ pc[r] = "unlisting" => /\ records[r] = <<"requested", Verdict(outcome[r])>>
                            /\ outcome[r] \in Human
  /\ pc[r] = "done" => /\ records[r] = <<"requested", Verdict(outcome[r])>>
                       /\ outcome[r] \in Human \cup {"timeout", "skipped"}
  /\ outcome[r] = "skipped" => r \in Skipping
  /\ pc[r] \in {"reporting", "done"} => r \notin requests \cup waiters

(* A blocking request is pending only while its waiter is there, so its    *)
(* decision takes one way: the locked section, the channel, the caller.    *)
DecisionOK(r) ==
  /\ r \notin reaped
  /\ r \in requests /\ state[r] = "pending" => r \in waiters
  /\ resolver[r].at \in {"idle", "sending", "returned"}
  /\ resolver[r].at # "idle" => state[r] # "pending"
  /\ resolver[r].at # "returned" => chan[r] = <<>>
  /\ chan[r] \in {<<>>, <<resolver[r].decision>>}
  /\ outcome[r] \in Human =>
       /\ resolver[r].at = "returned"
       /\ resolver[r].decision = Verdict(outcome[r])

(* The inductive invariant. *)
BrokerInv ==
  /\ TypeOK
  /\ \A r \in Async : AsyncOK(r)
  /\ \A r \in Blocking : CallOK(r) /\ DecisionOK(r)
  /\ OneResolution

(* A sequence of two elements is the pair of them. *)
LEMMA Pair ==
  ASSUME NEW S, NEW s \in Seq(S), Len(s) = 2
  PROVE  s = <<s[1], s[2]>>
OBVIOUS

(* A report adds one entry, to the records of its request. *)
LEMMA ReportAppends ==
  ASSUME TypeOK, NEW r \in Requests, NEW x \in Entries,
         Report(r, x)
  PROVE  /\ records' \in [Requests -> Seq(Entries)]
         /\ \A q \in Requests \ {r} : records'[q] = records[q] /\ Resolutions(q)' = Resolutions(q)
         /\ x = "requested" => Resolutions(r)' = Resolutions(r)
         /\ Resolutions(r) = {} => \A i, j \in Resolutions(r)' : i = j
         /\ records[r] = <<>> => records'[r] = <<x>>
         /\ records[r] = <<"requested">> => records'[r] = <<"requested", x>>
<1> USE DEF TypeOK, Report, Entries
<1>1. /\ records' \in [Requests -> Seq(Entries)]
      /\ \A q \in Requests \ {r} : records'[q] = records[q]
      /\ records'[r] = Append(records[r], x)
  OBVIOUS
<1>2. /\ Len(records'[r]) = Len(records[r]) + 1
      /\ \A i \in 1..Len(records[r]) : records'[r][i] = records[r][i]
      /\ records'[r][Len(records[r]) + 1] = x
  BY <1>1
<1>3. \A q \in Requests \ {r} : Resolutions(q)' = Resolutions(q)
  BY <1>1 DEF Resolutions
<1>4. x = "requested" => Resolutions(r)' = Resolutions(r)
  BY <1>1, <1>2 DEF Resolutions
<1>5. ASSUME Resolutions(r) = {} PROVE \A i, j \in Resolutions(r)' : i = j
  <2>1. \A i \in 1..Len(records[r]) : records[r][i] = "requested"
    BY <1>5 DEF Resolutions
  <2>2. \A i \in Resolutions(r)' : i = Len(records[r]) + 1
    BY <1>1, <1>2, <2>1 DEF Resolutions
  <2> QED BY <2>2
<1>6. records[r] = <<>> => records'[r] = <<x>>
  BY <1>1
<1>7. ASSUME records[r] = <<"requested">> PROVE records'[r] = <<"requested", x>>
  <2>1. Len(records'[r]) = 2 /\ records'[r][1] = "requested" /\ records'[r][2] = x
    BY <1>2, <1>7
  <2>2. records'[r] \in Seq(Entries)
    BY <1>1
  <2>3. records'[r] = <<records'[r][1], records'[r][2]>>
    BY <2>1, <2>2, Pair, Zenon
  <2> QED BY <2>1, <2>3
<1> QED BY <1>1, <1>2, <1>3, <1>4, <1>5, <1>6, <1>7

(* Every step keeps the variables in their types. *)
LEMMA BrokerTypes ==
  ASSUME TypeOK, Next, \A r \in Blocking : r \in requests /\ state[r] = "pending" => r \in waiters
  PROVE  TypeOK'
<1> DEFINE Pcs == {"idle", "registered", "waiting", "received", "unlisting", "expired",
                   "reporting", "done"}
           Outcomes == {"none", "granted", "refused", "timeout", "skipped", "submitted"}
           CallTypes == pc \in [Requests -> Pcs] /\ outcome \in [Requests -> Outcomes]
           Lists == /\ requests \subseteq Requests /\ waiters \subseteq Blocking
                    /\ reaped \subseteq Async /\ sweeping \in {"on", "stopping", "off"}
                    /\ state \in [Requests -> {"pending", "approved", "denied", "expired"}]
           Channels == chan \in [Requests -> {<<>>} \cup {<<d>> : d \in Decisions}]
           Resolvers == resolver \in [Requests -> [at: {"idle", "sending", "deleting", "reporting",
                                                      "returned"}, decision: Decisions]]
           Reports == records \in [Requests -> Seq(Entries)]
<1>0. TypeOK <=> CallTypes /\ Lists /\ Channels /\ Resolvers /\ Reports
  BY Zenon DEF TypeOK, Entries
<1>0a. TypeOK' <=> CallTypes' /\ Lists' /\ Channels' /\ Resolvers' /\ Reports'
  BY Zenon DEF TypeOK, Entries
<1>1. ASSUME NEW r \in Requests,
             \/ Enlist(r) \/ Receive(r) \/ Expire(r) \/ Unlist(r) \/ RemoveExpired(r)
             \/ ReportRequested(r) \/ ReportDecision(r) \/ ReportExpired(r)
      PROVE  CallTypes' /\ Lists' /\ Channels' /\ UNCHANGED resolver
  <2>1. CallTypes /\ Lists
    BY <1>0
  <2>2. CallTypes' /\ Lists'
    BY <1>1, <2>1, KindsAssumption DEF Enlist, Receive, Expire, Unlist, RemoveExpired,
       ReportRequested, ReportDecision, ReportExpired, Goto, Return, Requests
  <2>3. UNCHANGED chan \/ chan' = [chan EXCEPT ![r] = <<>>]
    BY <1>1, Zenon DEF Enlist, Receive, Expire, Unlist, RemoveExpired, ReportRequested,
       ReportDecision, ReportExpired
  <2>4. UNCHANGED resolver
    BY <1>1, Zenon DEF Enlist, Receive, Expire, Unlist, RemoveExpired, ReportRequested,
       ReportDecision, ReportExpired
  <2>5. Channels
    BY <1>0
  <2>6. Channels'
    BY <2>3, <2>5
  <2> QED BY <2>2, <2>4, <2>6
<1>2. ASSUME NEW r \in Requests,
             \/ \E d \in Decisions : Resolve(r, d)
             \/ Send(r) \/ DeleteResolved(r) \/ ReportResolved(r) \/ ReportReaped(r)
      PROVE  CallTypes' /\ Lists' /\ Channels' /\ Resolvers'
  <2>1. CallTypes /\ Lists /\ Resolvers
    BY <1>0
  <2>2. Lists' /\ UNCHANGED <<pc, outcome>>
    BY <1>2, <2>1 DEF Resolve, Send, DeleteResolved, ReportResolved, ReportReaped, Decisions
  <2>3. Resolvers' /\ resolver[r].decision \in Decisions
    BY <1>2, <2>1 DEF Resolve, Send, DeleteResolved, ReportResolved, ReportReaped
  <2>4. UNCHANGED chan \/ chan' = [chan EXCEPT ![r] = <<resolver[r].decision>>]
    BY <1>2, Zenon DEF Resolve, Send, DeleteResolved, ReportResolved, ReportReaped
  <2>5. Channels
    BY <1>0
  <2>6. Channels'
    BY <2>3, <2>4, <2>5
  <2> QED BY <2>1, <2>2, <2>3, <2>6
<1>3. ASSUME NEW r \in Requests,
             \/ ReportRequested(r) \/ ReportDecision(r) \/ ReportExpired(r)
             \/ ReportResolved(r) \/ ReportReaped(r)
      PROVE  Reports'
  <2>1. Resolvers
    BY <1>0
  <2>2. \E x \in Entries : Report(r, x)
    BY <1>3, <2>1 DEF ReportRequested, ReportDecision, ReportExpired, ReportResolved, ReportReaped,
       Entries, Decisions
  <2> QED BY <2>2, ReportAppends
<1>4. ASSUME NEW r \in Requests,
             \/ Enlist(r) \/ Receive(r) \/ Expire(r) \/ Unlist(r) \/ RemoveExpired(r)
             \/ (\E d \in Decisions : Resolve(r, d)) \/ Send(r) \/ DeleteResolved(r)
      PROVE  UNCHANGED records
  BY <1>4, Zenon DEF Enlist, Receive, Expire, Unlist, RemoveExpired, Resolve, Send, DeleteResolved
<1>5. ASSUME Stop \/ SweeperExits \/ \E due \in SUBSET Requests : ExpireDue(due)
      PROVE  TypeOK'
  <2>1. Lists
    BY <1>0
  <2>2. Lists' /\ UNCHANGED <<pc, outcome, chan, resolver, records>>
    BY <1>5, <2>1 DEF Stop, SweeperExits, ExpireDue, Requests
  <2> QED BY <1>0, <1>0a, <2>2, Zenon
<1> HIDE DEF CallTypes, Lists, Channels, Resolvers, Reports
<1>6. CASE \E r \in Requests : \/ Enlist(r) \/ Receive(r) \/ Expire(r) \/ Call(r)
                              \/ (\E d \in Decisions : Resolve(r, d)) \/ Resolving(r)
                              \/ ReportReaped(r)
  <2>1. UNCHANGED resolver => Resolvers'
    BY <1>0 DEF Resolvers
  <2>2. UNCHANGED records => Reports'
    BY <1>0 DEF Reports
  <2> QED BY <1>6, <1>0a, <1>1, <1>2, <1>3, <1>4, <2>1, <2>2 DEF Call, Resolving
<1> QED BY <1>5, <1>6 DEF Next

(* Nothing has been asked yet. *)
LEMMA InitBroker == Init => BrokerInv
<1> SUFFICES ASSUME Init PROVE BrokerInv
  OBVIOUS
<1>1. TypeOK
  BY KindsAssumption DEF Init, TypeOK, Idle, Decisions
<1>2. \A r \in Requests : Resolutions(r) = {}
  BY DEF Init, Resolutions
<1> QED BY <1>1, <1>2 DEF Init, BrokerInv, Requests, OneResolution, Idle, AsyncOK, CallOK, DecisionOK, Human

(* The steps of a call that report nothing. *)
LEMMA CallMoves ==
  ASSUME BrokerInv, NEW r \in Requests,
         Enlist(r) \/ Receive(r) \/ Expire(r) \/ Unlist(r) \/ RemoveExpired(r)
  PROVE  BrokerInv'
<1> USE DEF BrokerInv, Enlist, Receive, Expire, Unlist, RemoveExpired, Goto
<1>1. TypeOK'
  BY BrokerTypes DEF Next, Call, DecisionOK
<1>2. \A q \in Requests : Resolutions(q)' = Resolutions(q)
  BY DEF Resolutions
<1>3. ASSUME NEW q \in Async PROVE AsyncOK(q)'
  BY <1>2, KindsAssumption DEF AsyncOK, Requests, TypeOK
<1>4. ASSUME NEW q \in Blocking PROVE CallOK(q)'
  BY KindsAssumption DEF CallOK, DecisionOK, Requests, TypeOK, Human, Decisions
<1>5. ASSUME NEW q \in Blocking PROVE DecisionOK(q)'
  BY KindsAssumption DEF CallOK, DecisionOK, Requests, TypeOK, Human, Decisions, Verdict
<1>6. OneResolution'
  BY <1>2 DEF OneResolution
<1> QED BY Zenon, <1>1, <1>3, <1>4, <1>5, <1>6

(* The steps of a call that report. *)
LEMMA CallReports ==
  ASSUME BrokerInv, NEW r \in Requests,
         ReportRequested(r) \/ ReportDecision(r) \/ ReportExpired(r)
  PROVE  BrokerInv'
<1> USE DEF BrokerInv, ReportRequested, ReportDecision, ReportExpired, Return, Goto
<1>0. PICK x \in Entries :
        /\ Report(r, x)
        /\ pc[r] = "registered" => x = "requested"
        /\ pc[r] = "received" => x = Verdict(outcome[r])
        /\ pc[r] = "reporting" => x = "expired"
  BY DEF Entries, Verdict, CallOK, AsyncOK, Requests, Human
<1>a. /\ records' \in [Requests -> Seq(Entries)]
      /\ \A q \in Requests \ {r} : records'[q] = records[q] /\ Resolutions(q)' = Resolutions(q)
      /\ x = "requested" => Resolutions(r)' = Resolutions(r)
      /\ Resolutions(r) = {} => \A i, j \in Resolutions(r)' : i = j
      /\ records[r] = <<>> => records'[r] = <<x>>
      /\ records[r] = <<"requested">> => records'[r] = <<"requested", x>>
  BY Zenon, <1>0, ReportAppends
<1>1. TypeOK'
  BY BrokerTypes DEF Next, Call, DecisionOK
<1>2. ASSUME NEW q \in Async PROVE AsyncOK(q)' /\ \A i, j \in Resolutions(q)' : i = j
  <2>1. q = r => x = "requested"
    BY <1>0, KindsAssumption DEF AsyncOK
  <2>2. Resolutions(q)' = Resolutions(q)
    BY <1>a, <2>1 DEF Requests
  <2>3. AsyncOK(q)'
    BY <2>2, KindsAssumption DEF AsyncOK, Requests, TypeOK, Human
  <2> QED BY <2>2, <2>3 DEF OneResolution, Requests
<1>3. ASSUME NEW q \in Blocking PROVE CallOK(q)'
  <2>1. CASE q # r
    BY <1>a, <2>1, KindsAssumption DEF CallOK, Requests, TypeOK
  <2>2. CASE q = r
    BY <1>0, <1>a, <2>2, KindsAssumption DEF CallOK, Requests, TypeOK, Human, Verdict
  <2> QED BY Zenon, <2>1, <2>2
<1>4. ASSUME NEW q \in Blocking PROVE DecisionOK(q)'
  BY <1>0, KindsAssumption DEF CallOK, DecisionOK, Requests, TypeOK, Human, Verdict
<1>5. ASSUME NEW q \in Blocking PROVE \A i, j \in Resolutions(q)' : i = j
  <2>1. CASE q # r
    BY <1>a, <2>1 DEF OneResolution, Requests
  <2>2. CASE q = r
    <3>1. records[r] = <<>> \/ records[r] = <<"requested">>
      BY <2>2 DEF CallOK
    <3>2. Resolutions(r) = {}
      BY <3>1 DEF Resolutions
    <3> QED BY Zenon, <1>a, <2>2, <3>2
  <2> QED BY Zenon, <2>1, <2>2
<1> QED BY Zenon, <1>1, <1>2, <1>3, <1>4, <1>5 DEF OneResolution, Requests

(* A person's call: of a blocking request only the channel learns of it,   *)
(* and a submission has no channel.                                        *)
LEMMA ResolveMoves ==
  ASSUME BrokerInv, NEW r \in Requests,
         (\E d \in Decisions : Resolve(r, d)) \/ Send(r) \/ DeleteResolved(r)
  PROVE  BrokerInv'
<1> USE DEF BrokerInv, Resolve, Send, DeleteResolved
<1>1. TypeOK'
  BY BrokerTypes DEF Next, Resolving, DecisionOK
<1>2. \A q \in Requests : Resolutions(q)' = Resolutions(q)
  BY DEF Resolutions
<1>3. ASSUME NEW q \in Async PROVE AsyncOK(q)'
  BY <1>2, KindsAssumption DEF AsyncOK, Requests, TypeOK, Decisions
<1>4. ASSUME NEW q \in Blocking PROVE CallOK(q)'
  BY KindsAssumption DEF CallOK, DecisionOK, Requests, TypeOK
<1>5. ASSUME NEW q \in Blocking PROVE DecisionOK(q)'
  BY KindsAssumption DEF DecisionOK, Requests, TypeOK, Decisions
<1>6. OneResolution'
  BY <1>2 DEF OneResolution
<1> QED BY Zenon, <1>1, <1>3, <1>4, <1>5, <1>6

(* The reports on a submission, by the call that resolved it or by the     *)
(* sweeper: whoever makes it, nobody made one before.                      *)
LEMMA SubmissionReports ==
  ASSUME BrokerInv, NEW r \in Requests, ReportResolved(r) \/ ReportReaped(r)
  PROVE  BrokerInv'
<1> USE DEF BrokerInv, ReportResolved, ReportReaped
<1>1. TypeOK'
  BY BrokerTypes DEF Next, Resolving, DecisionOK
<1>2. r \in Async /\ Resolutions(r) = {}
  BY DEF Requests, DecisionOK, AsyncOK
<1>3. PICK x \in Entries : Report(r, x)
  <2>1. resolver \in [Requests -> [at: {"idle", "sending", "deleting", "reporting", "returned"},
                                  decision: Decisions]]
    BY Zenon DEF TypeOK
  <2>2. resolver[r].decision \in Decisions
    BY <2>1
  <2> QED BY <2>2, Zenon DEF Entries, Decisions
<1>4. /\ \A q \in Requests \ {r} : records'[q] = records[q] /\ Resolutions(q)' = Resolutions(q)
      /\ \A i, j \in Resolutions(r)' : i = j
  BY Zenon, <1>2, <1>3, ReportAppends
<1>5. ASSUME NEW q \in Async PROVE AsyncOK(q)'
  BY <1>2, <1>4 DEF AsyncOK, Requests, TypeOK
<1>6. ASSUME NEW q \in Blocking PROVE CallOK(q)' /\ DecisionOK(q)'
  <2>1. /\ UNCHANGED <<pc, outcome, requests, state, waiters, chan>>
        /\ records'[q] = records[q] /\ resolver'[q] = resolver[q] /\ reaped' \subseteq reaped
    <3>1. q \in Requests \ {r}
      BY <1>2, KindsAssumption DEF Requests
    <3>2. resolver'[q] = resolver[q]
      BY <3>1 DEF TypeOK
    <3> QED BY Zenon, <1>4, <3>1, <3>2
  <2>2. CallOK(q)'
    BY <2>1 DEF CallOK
  <2> QED BY <2>1, <2>2 DEF DecisionOK
<1>7. OneResolution'
  BY <1>4 DEF OneResolution
<1> QED BY Zenon, <1>1, <1>5, <1>6, <1>7

(* The sweeper: what it expires is pending and without a waiter, so it is  *)
(* a submission that nobody has resolved.                                  *)
LEMMA SweeperKeeps ==
  ASSUME BrokerInv, Stop \/ SweeperExits \/ \E due \in SUBSET Requests : ExpireDue(due)
  PROVE  BrokerInv'
<1> USE DEF BrokerInv, Stop, SweeperExits, ExpireDue
<1>1. TypeOK'
  BY BrokerTypes DEF Next, DecisionOK
<1>2. \A q \in Requests : Resolutions(q)' = Resolutions(q)
  BY DEF Resolutions
<1>3. ASSUME NEW q \in Async PROVE AsyncOK(q)'
  BY <1>2 DEF AsyncOK, Requests, TypeOK
<1>4. ASSUME NEW q \in Blocking PROVE CallOK(q)' /\ DecisionOK(q)'
  <2>1. /\ UNCHANGED <<pc, outcome, records, waiters, chan, resolver>>
        /\ state'[q] = state[q] /\ requests' \subseteq requests /\ q \notin reaped'
    BY DEF DecisionOK, Requests, TypeOK
  <2>2. CallOK(q)'
    BY <2>1 DEF CallOK
  <2> QED BY <2>1, <2>2 DEF DecisionOK
<1>5. OneResolution'
  BY <1>2 DEF OneResolution
<1> QED BY <1>1, <1>3, <1>4, <1>5

(* Every step preserves the inductive invariant. *)
LEMMA BrokerInvHolds == Spec => []BrokerInv
<1>1. BrokerInv /\ [Next]_vars => BrokerInv'
  <2> SUFFICES ASSUME BrokerInv, [Next]_vars PROVE BrokerInv'
    OBVIOUS
  <2>1. CASE UNCHANGED vars
    BY <2>1 DEF vars, BrokerInv, TypeOK, AsyncOK, CallOK, DecisionOK, OneResolution, Resolutions
  <2>2. CASE Next
    BY <2>2, CallMoves, CallReports, ResolveMoves, SubmissionReports, SweeperKeeps
       DEF Next, Call, Resolving
  <2> QED BY <2>1, <2>2
<1> QED BY <1>1, InitBroker, PTL DEF Spec

(* resolve, "this path does not emit to avoid duplicate records": however  *)
(* many requests there are, each is reported resolved at most once.        *)
THEOREM ResolvedOnce == Spec => []OneResolution
<1>1. BrokerInv => OneResolution
  BY DEF BrokerInv
<1> QED BY <1>1, BrokerInvHolds, PTL

(* RequestPermission: the sink was told of the request and of how the wait *)
(* for it ended.                                                           *)
THEOREM SinkTold == Spec => []SinkToldEnding
<1>1. BrokerInv => SinkToldEnding
  <2> SUFFICES ASSUME BrokerInv, NEW r \in Blocking, pc[r] = "done"
               PROVE  /\ outcome[r] \in DOMAIN Heard
                      /\ records[r] = <<"requested", Heard[outcome[r]]>>
    BY DEF SinkToldEnding
  <2>1. /\ records[r] = <<"requested", Verdict(outcome[r])>>
        /\ outcome[r] \in {"granted", "refused", "timeout", "skipped"}
    BY DEF BrokerInv, CallOK, Human
  <2>2. outcome[r] \in DOMAIN Heard /\ Heard[outcome[r]] = Verdict(outcome[r])
    BY <2>1 DEF Verdict, Heard
  <2> QED BY <2>1, <2>2, Zenon
<1> QED BY <1>1, BrokerInvHolds, PTL

(* A grant or a refusal is a person's decision on this very request, but   *)
(* for the grant of the skip behaviour.                                    *)
THEOREM PersonDecides == Spec => []DecisionIsHuman
<1>1. BrokerInv => DecisionIsHuman
  BY DEF BrokerInv, CallOK, DecisionOK, DecisionIsHuman, Human, Verdict
<1> QED BY <1>1, BrokerInvHolds, PTL

(* deleteFn and the timeout path: a call that returned has left nothing in *)
(* the registry or among the waiters.                                      *)
THEOREM RegistryCleared == Spec => []NothingLeftBehind
<1>1. BrokerInv => NothingLeftBehind
  BY DEF BrokerInv, CallOK, NothingLeftBehind
<1> QED BY <1>1, BrokerInvHolds, PTL

-----------------------------------------------------------------------------
(* The job scheduler. *)

INSTANCE FiniteSetTheorems

(* Where a loop may be. *)
LoopStates == {"new", "refused", "spawning", "due", "considering", "begun", "idle", "gone"}

(* The types of the variables; the history of the beginnings is lastRun.   *)
SchedulerTypes ==
  /\ clock \in Nat
  /\ loop \in [Starts -> LoopStates]
  /\ at \in [Starts -> Nat]
  /\ copy \in [Starts -> [JobNumbers -> Int]]
  /\ now \in [Starts -> Int]
  /\ lastRun \in [JobNumbers -> Int]
  /\ began = lastRun
  /\ inFlight \in [JobNumbers -> {0, 1}]
  /\ wg \in Int
  /\ stop \in [Stops -> {"new", "waiting", "returned"}]
  /\ crowded \in BOOLEAN

(* The loops and the actions that the wait group counts. *)
Counted == {l \in Starts : loop[l] \in {"due", "considering", "begun", "idle"}}
Flying == {j \in JobNumbers : inFlight[j] = 1}

(* The wait group counts them all. *)
Counting ==
  /\ IsFiniteSet(Counted) /\ IsFiniteSet(Flying)
  /\ wg = Cardinality(Counted) + Cardinality(Flying)

(* A Stop that met no Start has no Start on the way to its wait group. *)
Unmet ==
  \A s \in Stops : stop[s] = "waiting" /\ s \notin met => \A l \in Starts : loop[l] # "spawning"

(* A job is marked from tryBegin to finish, by one loop at a time. *)
Marking ==
  /\ \A l \in Starts : loop[l] = "begun" =>
       /\ at[l] \in JobNumbers \cap running
       /\ inFlight[at[l]] = 0
       /\ \A m \in Starts : loop[m] = "begun" /\ at[m] = at[l] => m = l
  /\ Flying \subseteq running

(* A loop that is alone works on a copy that is up to date for the jobs it *)
(* has still to consider.                                                  *)
Copying ==
  /\ \A l \in Starts : loop[l] = "begun" => ShouldRun(at[l], copy[l][at[l]], now[l])
  /\ ~crowded =>
       /\ \A l, m \in Starts : Alive(l) /\ Alive(m) => l = m
       /\ \A l \in Starts : loop[l] \in {"considering", "begun"} =>
            \A j \in JobNumbers : j >= at[l] => copy[l][j] = lastRun[j]

(* The inductive invariant. *)
SchedulerInv == SchedulerTypes /\ Counting /\ Unmet /\ Marking /\ Copying

(* Jobs are numbered as the scheduler lists them. *)
LEMMA JobNumbersAreNat == JobNumbers \subseteq Nat
BY ScheduleAssumption DEF JobNumbers

(* The steps that StopJoins and IntervalKept speak of. *)
Joined ==
  \A s \in Stops : stop[s] = "waiting" /\ stop'[s] = "returned" /\ s \notin met
    => /\ \A l \in Starts : ~Alive(l)
       /\ \A j \in JobNumbers : inFlight[j] = 0

Spaced ==
  \A j \in JobNumbers :
    inFlight'[j] > inFlight[j] =>
      /\ inFlight[j] = 0
      /\ ~crowded' /\ Schedule[j].interval > 0 /\ began[j] # Never
           => began'[j] > began[j] + Schedule[j].interval

(* A Stop returns when the wait group is at zero, and the group counts the *)
(* loops and the actions.                                                  *)
LEMMA JoinStep ==
  ASSUME SchedulerInv
  PROVE  [SchedulerNext]_schedulerVars => Joined
<1>1. ASSUME [SchedulerNext]_schedulerVars, NEW s \in Stops, stop[s] = "waiting", stop'[s] = "returned"
      PROVE  wg = 0
  <2>0. stop' # stop /\ DOMAIN stop = Stops
    BY <1>1, Zenon DEF SchedulerInv, SchedulerTypes
  <2>1. ASSUME NEW l \in Starts, \/ StartCalled(l) \/ StartSpawns(l) \/ RunJobs(l) \/ Consider(l)
                                \/ Begin(l) \/ RunJobsEnds(l) \/ LoopTicks(l) \/ LoopEnds(l)
        PROVE  stop' = stop
    BY <2>1, Zenon DEF StartCalled, StartSpawns, RunJobs, Consider, Begin, RunJobsEnds, LoopTicks,
                       LoopEnds
  <2>2. ASSUME NEW j, ActionReturns(j) \/ Minute \/ UNCHANGED schedulerVars PROVE stop' = stop
    BY <2>2, Zenon DEF ActionReturns, Minute, schedulerVars
  <2>3. PICK t \in Stops : StopCalled(t) \/ StopReturns(t)
    BY <1>1, <2>0, <2>1, <2>2, Zenon DEF SchedulerNext
  <2>4. CASE StopCalled(t)
    <3>1. stop[t] = "new" /\ stop' = [stop EXCEPT ![t] = "waiting"]
      BY <2>4, Zenon DEF StopCalled
    <3> QED BY <1>1, <2>0, <3>1
  <2>5. CASE StopReturns(t)
    BY <2>5, Zenon DEF StopReturns
  <2> QED BY <2>3, <2>4, <2>5
<1>2. ASSUME wg = 0, NEW s \in Stops, stop[s] = "waiting", s \notin met
      PROVE  (\A l \in Starts : ~Alive(l)) /\ (\A j \in JobNumbers : inFlight[j] = 0)
  <2>1. Counted = {} /\ Flying = {}
    BY <1>2, FS_CardinalityType, FS_EmptySet DEF SchedulerInv, Counting
  <2>2. \A j \in JobNumbers : inFlight[j] = 0
    BY <2>1 DEF SchedulerInv, SchedulerTypes, Flying
  <2> QED BY <1>2, <2>1, <2>2 DEF SchedulerInv, Unmet, Counted, Alive
<1> QED BY Zenon, <1>1, <1>2 DEF Joined

(* A loop begins only a job it found due and marked; alone, it looked at   *)
(* an up-to-date copy of lastRun.                                          *)
LEMMA IntervalStep ==
  ASSUME SchedulerInv, [SchedulerNext]_schedulerVars
  PROVE  Spaced
<1>1. ASSUME NEW j \in JobNumbers, inFlight'[j] > inFlight[j]
      PROVE  /\ inFlight[j] = 0
             /\ ~crowded' /\ Schedule[j].interval > 0 /\ began[j] # Never
                  => began'[j] > began[j] + Schedule[j].interval
  <2>0. inFlight[j] \in {0, 1} /\ inFlight' # inFlight
    BY <1>1 DEF SchedulerInv, SchedulerTypes
  <2>1. ~ (\E k \in JobNumbers : ActionReturns(k))
    BY <1>1, <2>0 DEF SchedulerInv, SchedulerTypes, ActionReturns
  <2>2. PICK l \in Starts : Begin(l)
    BY Zenon, <2>0, <2>1 DEF SchedulerNext, schedulerVars, StartCalled, StartSpawns, RunJobs, Consider,
       RunJobsEnds, LoopTicks, LoopEnds, StopCalled, StopReturns, Minute
  <2>3. at[l] \in JobNumbers /\ inFlight[at[l]] = 0 /\ ShouldRun(at[l], copy[l][at[l]], now[l])
    BY <2>2 DEF SchedulerInv, Begin, Marking, Copying
  <2>4. j = at[l]
    BY <1>1, <2>2, <2>3 DEF SchedulerInv, SchedulerTypes, Begin
  <2>5. ASSUME ~crowded', Schedule[j].interval > 0, began[j] # Never
        PROVE  began'[j] > began[j] + Schedule[j].interval
    <3>1. copy[l][j] = began[j] /\ began'[j] = now[l]
      BY <2>2, <2>3, <2>4, <2>5, JobNumbersAreNat DEF SchedulerInv, SchedulerTypes, Begin, Copying
    <3>2. began[j] + Schedule[j].interval < now[l]
      BY <2>3, <2>4, <2>5, <3>1 DEF ShouldRun
    <3>3. now[l] \in Int /\ began[j] \in Int /\ Schedule[j].interval \in Nat
      BY ScheduleAssumption DEF SchedulerInv, SchedulerTypes, JobNumbers
    <3> QED BY <3>1, <3>2, <3>3
  <2> QED BY <2>3, <2>4, <2>5
<1> QED BY <1>1 DEF Spaced

(* One more in a finite set, *)
LEMMA OneMore ==
  ASSUME NEW S, IsFiniteSet(S), NEW x, x \notin S
  PROVE  IsFiniteSet(S \cup {x}) /\ Cardinality(S \cup {x}) = Cardinality(S) + 1
BY FS_AddElement

(* and one less. *)
LEMMA OneLess ==
  ASSUME NEW S, IsFiniteSet(S), NEW x \in S
  PROVE  /\ IsFiniteSet(S \ {x}) /\ Cardinality(S) \in Nat
         /\ Cardinality(S \ {x}) = Cardinality(S) - 1
BY FS_RemoveElement, FS_CardinalityType

(* Nothing has been started. *)
LEMMA InitScheduler == SchedulerInit => SchedulerInv
<1> SUFFICES ASSUME SchedulerInit PROVE SchedulerInv
  OBVIOUS
<1>1. Counted = {} /\ Flying = {}
  BY DEF SchedulerInit, Counted, Flying
<1>2. Counting
  BY <1>1, FS_EmptySet DEF SchedulerInit, Counting
<1>3. crowded \in BOOLEAN
  BY Zenon DEF SchedulerInit
<1>4. SchedulerTypes
  BY <1>3 DEF SchedulerInit, SchedulerTypes, LoopStates, Never
<1> QED BY <1>1, <1>2, <1>4 DEF SchedulerInit, SchedulerInv, Unmet, Marking, Copying, Alive

(* A step of one loop that begins nothing: what the others have begun and  *)
(* copied stands, and its own copy, if it takes one, is up to date.        *)
LEMMA OthersKeep ==
  ASSUME SchedulerTypes, NEW l \in Starts,
         \A m \in Starts \ {l} : /\ loop'[m] = loop[m] /\ at'[m] = at[m]
                                 /\ copy'[m] = copy[m] /\ now'[m] = now[m],
         loop'[l] # "begun",
         loop'[l] = "considering" => copy'[l] = lastRun,
         Alive(l)' => Alive(l),
         UNCHANGED <<lastRun, crowded, inFlight, running>>
  PROVE  (Marking => Marking') /\ (Copying => Copying')
<1>1. ASSUME NEW m \in Starts, loop'[m] = "begun" PROVE m \in Starts \ {l} /\ loop[m] = "begun"
  BY <1>1, Zenon
<1>2. Marking => Marking'
  <2>1. Flying' = Flying
    BY Zenon DEF Flying
  <2> QED BY <1>1, <2>1 DEF Marking
<1>3. ASSUME Copying PROVE Copying'
  <2>1. \A m \in Starts : loop'[m] = "begun" => ShouldRun(at'[m], copy'[m][at'[m]], now'[m])
    BY <1>1, <1>3, Zenon DEF Copying
  <2>2. ASSUME ~crowded, NEW m \in Starts, NEW k \in Starts, Alive(m)', Alive(k)' PROVE m = k
    BY <1>3, <2>2, Zenon DEF Copying, Alive
  <2>3. ASSUME ~crowded, NEW m \in Starts, loop'[m] \in {"considering", "begun"},
               NEW j \in JobNumbers, j >= at'[m]
        PROVE  copy'[m][j] = lastRun[j]
    <3>1. CASE m = l
      BY <2>3, <3>1, Zenon
    <3>2. CASE m # l
      BY <1>3, <2>3, <3>2, Zenon DEF Copying
    <3> QED BY <3>1, <3>2
  <2> QED BY <2>1, <2>2, <2>3, Zenon DEF Copying
<1> QED BY <1>2, <1>3

(* Start: the loop is alive, and not yet counted. *)
LEMMA StartKeeps ==
  ASSUME SchedulerInv, NEW l \in Starts, StartCalled(l)
  PROVE  SchedulerInv'
<1> USE DEF SchedulerInv, SchedulerTypes, LoopStates
<1>0. /\ loop[l] = "new" /\ \E x \in {"refused", "spawning"} : loop' = [loop EXCEPT ![l] = x]
      /\ UNCHANGED <<clock, at, copy, now, lastRun, began, running, inFlight, wg, stop>>
      /\ met' = met \cup {s \in Stops : stop[s] = "waiting"}
  BY Zenon DEF StartCalled
<1>a. crowded' \in BOOLEAN
  BY Zenon DEF StartCalled
<1>b. \/ loop' = [loop EXCEPT ![l] = "refused"] /\ (~crowded' => ~crowded)
      \/ loop' = [loop EXCEPT ![l] = "spawning"]
         /\ (~crowded' => ~crowded /\ \A m \in Starts : ~Alive(m))
  BY Zenon DEF StartCalled
<1>1. SchedulerTypes'
  BY <1>0, <1>a
<1>2. Counted' = Counted /\ Flying' = Flying
  BY <1>0 DEF Counted, Flying
<1>3. Counting' /\ Unmet' /\ Marking'
  BY <1>0, <1>2 DEF Counting, Unmet, Marking
<1>4. Copying'
  <2>1. CASE loop' = [loop EXCEPT ![l] = "refused"] /\ (~crowded' => ~crowded)
    BY <1>0, <2>1 DEF Copying, Alive
  <2>2. CASE loop' = [loop EXCEPT ![l] = "spawning"]
             /\ (~crowded' => ~crowded /\ \A m \in Starts : ~Alive(m))
    BY <1>0, <2>2 DEF Copying, Alive
  <2> QED BY <1>b, <2>1, <2>2
<1> QED BY Zenon, <1>1, <1>3, <1>4

(* The loop is counted when its goroutine is launched. *)
LEMMA SpawnKeeps ==
  ASSUME SchedulerInv, NEW l \in Starts, StartSpawns(l)
  PROVE  SchedulerInv'
<1> USE DEF SchedulerInv, SchedulerTypes, StartSpawns, LoopStates
<1>1. SchedulerTypes'
  OBVIOUS
<1>2. l \notin Counted /\ Counted' = Counted \cup {l} /\ Flying' = Flying
  BY DEF Counted, Flying
<1>3. Counting'
  <2>1. IsFiniteSet(Counted) /\ IsFiniteSet(Flying)
    BY DEF Counting
  <2>2. IsFiniteSet(Counted \cup {l}) /\ Cardinality(Counted \cup {l}) = Cardinality(Counted) + 1
    BY <1>2, <2>1, OneMore
  <2>3. Cardinality(Counted) \in Nat /\ Cardinality(Flying) \in Nat
    BY <2>1, FS_CardinalityType
  <2> QED BY <1>2, <2>1, <2>2, <2>3 DEF Counting
<1>4. Unmet'
  BY DEF Unmet
<1>5. /\ \A m \in Starts \ {l} : /\ loop'[m] = loop[m] /\ at'[m] = at[m]
                                 /\ copy'[m] = copy[m] /\ now'[m] = now[m]
      /\ loop[l] = "spawning" /\ loop'[l] = "due"
  OBVIOUS
<1>6. Alive(l)
  BY <1>5 DEF Alive
<1>7. Marking' /\ Copying'
  BY <1>5, <1>6, OthersKeep
<1> QED BY Zenon, <1>1, <1>3, <1>4, <1>7

(* Stop cancels the loops and waits, whether or not a Start is under way.  *)
LEMMA StopKeeps ==
  ASSUME SchedulerInv, NEW s \in Stops, StopCalled(s) \/ StopReturns(s)
  PROVE  SchedulerInv'
<1> USE DEF SchedulerInv, SchedulerTypes, StopCalled, StopReturns
<1>1. SchedulerTypes'
  OBVIOUS
<1>2. Counted' = Counted /\ Flying' = Flying
  BY DEF Counted, Flying
<1>3. Counting' /\ Marking' /\ Copying'
  <2>1. UNCHANGED <<loop, at, copy, now, lastRun, running, inFlight, wg, crowded>>
    BY Zenon
  <2>2. Counting' /\ Marking'
    BY <1>2, <2>1, Zenon DEF Counting, Marking
  <2>3. Copying'
    BY <2>1, Zenon DEF Copying, Alive
  <2> QED BY <2>2, <2>3
<1>4. Unmet'
  BY DEF Unmet
<1> QED BY Zenon, <1>1, <1>3, <1>4

(* The steps of a loop that begin nothing. *)
LEMMA LoopKeeps ==
  ASSUME SchedulerInv, NEW l \in Starts, RunJobs(l) \/ RunJobsEnds(l) \/ LoopTicks(l)
  PROVE  SchedulerInv'
<1> USE DEF SchedulerInv, SchedulerTypes, LoopStates
<1>0. /\ \A m \in Starts \ {l} : /\ loop'[m] = loop[m] /\ at'[m] = at[m]
                                 /\ copy'[m] = copy[m] /\ now'[m] = now[m]
      /\ Alive(l) /\ loop'[l] \in {"due", "considering", "idle"}
      /\ loop'[l] = "considering" => copy'[l] = lastRun
      /\ UNCHANGED <<lastRun, crowded, inFlight, running, wg, stop, met>>
  <2>1. CASE RunJobs(l)
    BY <2>1 DEF RunJobs, Alive
  <2>2. CASE RunJobsEnds(l)
    BY <2>2 DEF RunJobsEnds, Alive
  <2>3. CASE LoopTicks(l)
    BY <2>3 DEF LoopTicks, Alive
  <2> QED BY <2>1, <2>2, <2>3, Zenon
<1>1. SchedulerTypes'
  <2>1. CASE RunJobs(l)
    BY <2>1 DEF RunJobs
  <2>2. CASE RunJobsEnds(l)
    BY <2>2 DEF RunJobsEnds, Never
  <2>3. CASE LoopTicks(l)
    BY <2>3 DEF LoopTicks
  <2> QED BY <2>1, <2>2, <2>3, Zenon
<1>2. Counted' = Counted /\ Flying' = Flying
  BY DEF Counted, Flying, RunJobs, RunJobsEnds, LoopTicks
<1>3. Counting'
  BY <1>0, <1>2, Zenon DEF Counting
<1>4. Unmet'
  BY <1>0 DEF Unmet
<1>5. loop'[l] # "begun" /\ (Alive(l)' => Alive(l))
  BY <1>0, Zenon
<1>6. Marking' /\ Copying'
  BY <1>0, <1>5, OthersKeep, Zenon
<1> QED BY Zenon, <1>1, <1>3, <1>4, <1>6

(* A loop that ends is counted out. *)
LEMMA LoopEndKeeps ==
  ASSUME SchedulerInv, NEW l \in Starts, LoopEnds(l)
  PROVE  SchedulerInv'
<1> USE DEF SchedulerInv, SchedulerTypes, LoopEnds, LoopStates
<1>1. SchedulerTypes'
  OBVIOUS
<1>2. l \in Counted /\ Counted' = Counted \ {l} /\ Flying' = Flying
  BY DEF Counted, Flying
<1>3. Counting'
  <2>1. IsFiniteSet(Counted) /\ IsFiniteSet(Flying)
    BY DEF Counting
  <2>2. IsFiniteSet(Counted \ {l}) /\ Cardinality(Counted \ {l}) = Cardinality(Counted) - 1
    BY <1>2, <2>1, OneLess
  <2>3. Cardinality(Counted) \in Nat /\ Cardinality(Flying) \in Nat
    BY <2>1, FS_CardinalityType
  <2> QED BY <1>2, <2>1, <2>2, <2>3 DEF Counting
<1>4. Unmet'
  BY DEF Unmet
<1>5. /\ \A m \in Starts \ {l} : /\ loop'[m] = loop[m] /\ at'[m] = at[m]
                                 /\ copy'[m] = copy[m] /\ now'[m] = now[m]
      /\ loop[l] = "idle" /\ loop'[l] = "gone"
  OBVIOUS
<1>6. Alive(l)
  BY <1>5 DEF Alive
<1>7. Marking' /\ Copying'
  BY <1>5, <1>6, OthersKeep
<1> QED BY Zenon, <1>1, <1>3, <1>4, <1>7

(* tryBegin: one loop gets the mark. *)
LEMMA ConsiderKeeps ==
  ASSUME SchedulerInv, NEW l \in Starts, Consider(l)
  PROVE  SchedulerInv'
<1> USE DEF SchedulerInv, SchedulerTypes, Consider, LoopStates
<1>1. SchedulerTypes'
  OBVIOUS
<1>2. Counted' = Counted /\ Flying' = Flying
  BY DEF Counted, Flying
<1>3. Counting' /\ Unmet'
  BY <1>2 DEF Counting, Unmet
<1>4. Marking'
  <2>1. CASE ShouldRun(at[l], copy[l][at[l]], now[l]) /\ at[l] \notin running
    BY <1>2, <2>1 DEF Marking, Flying
  <2>2. CASE ~(ShouldRun(at[l], copy[l][at[l]], now[l]) /\ at[l] \notin running)
    BY <1>2, <2>2 DEF Marking
  <2> QED BY <2>1, <2>2
<1>5. Copying'
  BY JobNumbersAreNat DEF Copying, Alive
<1> QED BY Zenon, <1>1, <1>3, <1>4, <1>5

(* markRun: the job is in flight, and its mark stays. *)
LEMMA BeginKeeps ==
  ASSUME SchedulerInv, NEW l \in Starts, Begin(l)
  PROVE  SchedulerInv'
<1> USE DEF SchedulerInv, SchedulerTypes, Begin, LoopStates
<1>0. at[l] \in JobNumbers /\ inFlight[at[l]] = 0 /\ at[l] \in running
  BY DEF Marking
<1>1. SchedulerTypes'
  BY <1>0
<1>2. at[l] \notin Flying /\ Flying' = Flying \cup {at[l]} /\ Counted' = Counted
  BY <1>0 DEF Counted, Flying
<1>3. Counting'
  <2>1. IsFiniteSet(Counted) /\ IsFiniteSet(Flying)
    BY DEF Counting
  <2>2. IsFiniteSet(Flying \cup {at[l]}) /\ Cardinality(Flying \cup {at[l]}) = Cardinality(Flying) + 1
    BY <1>2, <2>1, OneMore, Zenon
  <2>3. Cardinality(Counted) \in Nat /\ Cardinality(Flying) \in Nat
    BY <2>1, FS_CardinalityType
  <2>4. wg' = wg + 1
    BY Zenon
  <2> HIDE DEF SchedulerTypes, Begin
  <2> QED BY <1>2, <2>1, <2>2, <2>3, <2>4 DEF Counting
<1>4. Unmet'
  BY DEF Unmet
<1>5. Marking'
  BY <1>0, <1>2 DEF Marking
<1>6. Copying'
  BY <1>0, JobNumbersAreNat DEF Copying, Alive
<1> QED BY Zenon, <1>1, <1>3, <1>4, <1>5, <1>6

(* finish: no loop has begun a job that is in flight. *)
LEMMA ReturnKeeps ==
  ASSUME SchedulerInv, NEW j \in JobNumbers, ActionReturns(j)
  PROVE  SchedulerInv'
<1> USE DEF SchedulerInv, SchedulerTypes, ActionReturns
<1>1. SchedulerTypes'
  OBVIOUS
<1>2. j \in Flying /\ Flying' = Flying \ {j} /\ Counted' = Counted
  BY DEF Counted, Flying
<1>3. Counting'
  <2>1. IsFiniteSet(Counted) /\ IsFiniteSet(Flying)
    BY DEF Counting
  <2>2. IsFiniteSet(Flying \ {j}) /\ Cardinality(Flying \ {j}) = Cardinality(Flying) - 1
    BY <1>2, <2>1, OneLess
  <2>3. Cardinality(Counted) \in Nat /\ Cardinality(Flying) \in Nat
    BY <2>1, FS_CardinalityType
  <2> QED BY <1>2, <2>1, <2>2, <2>3 DEF Counting
<1>4. Unmet' /\ Copying'
  BY DEF Unmet, Copying, Alive
<1>5. Marking'
  <2>1. /\ inFlight[j] = 1 /\ running' = running \ {j} /\ UNCHANGED <<loop, at>>
        /\ \A k \in JobNumbers \ {j} : inFlight'[k] = inFlight[k]
    OBVIOUS
  <2>2. \A l \in Starts : loop[l] = "begun" => at[l] # j
    BY <2>1 DEF Marking
  <2> QED BY <1>2, <2>1, <2>2 DEF Marking
<1> QED BY Zenon, <1>1, <1>3, <1>4, <1>5

(* Every step preserves the inductive invariant. *)
LEMMA SchedulerInvHolds == SchedulerSpec => []SchedulerInv
<1>1. SchedulerInv /\ [SchedulerNext]_schedulerVars => SchedulerInv'
  <2> SUFFICES ASSUME SchedulerInv, [SchedulerNext]_schedulerVars PROVE SchedulerInv'
    OBVIOUS
  (* Neither a stutter nor the passing of a minute touches what is counted. *)
  <2>0. ASSUME UNCHANGED <<began, canceller, cancelled, loop, at, copy, now, lastRun, running,
                           inFlight, wg, stop, met, crowded>>, SchedulerTypes'
        PROVE  SchedulerInv'
    <3>1. Counted' = Counted /\ Flying' = Flying
      BY <2>0, Zenon DEF Counted, Flying, Alive
    <3>2. Counting'
      BY <2>0, <3>1, Zenon DEF SchedulerInv, Counting
    <3>3. Unmet'
      BY <2>0, <3>1, Zenon DEF SchedulerInv, Unmet, Alive
    <3>4. Marking'
      BY <2>0, <3>1, Zenon DEF SchedulerInv, Marking, Alive
    <3>5. Copying'
      BY <2>0, <3>1, Zenon DEF SchedulerInv, Copying, Alive
    <3> QED BY <2>0, <3>2, <3>3, <3>4, <3>5, Zenon DEF SchedulerInv
  <2>1. CASE UNCHANGED schedulerVars
    <3>1. SchedulerTypes'
      BY <2>1, Zenon DEF SchedulerInv, SchedulerTypes, schedulerVars, localVars
    <3> QED BY <2>0, <2>1, <3>1, Zenon DEF schedulerVars, localVars
  <2>2. CASE Minute
    <3>1. SchedulerTypes'
      BY <2>2 DEF SchedulerInv, SchedulerTypes, Minute
    <3> QED BY <2>0, <2>2, <3>1, Zenon DEF Minute
  <2>3. CASE SchedulerNext
    BY <2>2, <2>3, StartKeeps, SpawnKeeps, StopKeeps, LoopKeeps, LoopEndKeeps, ConsiderKeeps,
       BeginKeeps, ReturnKeeps DEF SchedulerNext
  <2> QED BY <2>1, <2>3
<1> QED BY <1>1, InitScheduler, PTL DEF SchedulerSpec

(* Stop, for any number of overlapping calls of Start and Stop and any     *)
(* schedule: when it returns and no Start met it, the loop and all its     *)
(* actions are over.                                                       *)
THEOREM StopLeavesNothing == SchedulerSpec => StopJoins
<1>1. SchedulerInv /\ [SchedulerNext]_schedulerVars => [Joined]_schedulerVars
  BY JoinStep, Zenon
<1> QED BY <1>1, SchedulerInvHolds, PTL DEF SchedulerSpec, StopJoins, Joined

(* runJobs, "an interval job runs only once its interval has elapsed since *)
(* it last began", as long as no two loops have been alive at once; and    *)
(* never beside itself, whatever loops there are.  For any schedule.       *)
THEOREM IntervalsRespected == SchedulerSpec => IntervalKept
<1>1. SchedulerInv /\ [SchedulerNext]_schedulerVars => [Spaced]_schedulerVars
  BY IntervalStep, Zenon
<1> QED BY <1>1, SchedulerInvHolds, PTL DEF SchedulerSpec, IntervalKept, Spaced

=============================================================================
