----------------------------- MODULE HITLBroker -----------------------------
(***************************************************************************)
(* The broker of human approvals (governance/authorization/hitl.go):       *)
(* callers that block until a decision, a timeout or their context ends;   *)
(* requests submitted without waiting; a person who approves or denies;    *)
(* the sweeper that expires what nobody answers.  The mutex makes each     *)
(* locked section one step; channel operations, the select and the calls   *)
(* of the decision sink are steps of their own.                            *)
(*                                                                         *)
(* A request stands for its id, which is a clock reading: two that read    *)
(* the same one, of which the second is refused, are left out.  So are the *)
(* permissive posture, which never registers anything, and the broadcast   *)
(* to subscribers, which changes nothing here.                             *)
(***************************************************************************)
EXTENDS Naturals, Sequences

CONSTANTS
  Blocking,       \* requests made with RequestPermission
  Async,          \* requests made with SubmitAsync
  Skipping        \* blocking requests whose TimeoutBehavior is skip

Requests == Blocking \cup Async

ASSUME KindsAssumption == Blocking \cap Async = {} /\ Skipping \subseteq Blocking

VARIABLES
  pc,             \* the call that makes the request
  outcome,        \* what that call returned
  requests,       \* h.requests
  state,          \* PermissionRequest.State
  waiters,        \* h.waiters
  chan,           \* the waiter channel, with room for one decision
  resolver,       \* the Approve or Deny call that won, and its decision
  reaped,         \* expired by the sweeper, not yet reported
  records,        \* what the decision sink was told of each request
  sweeping        \* sweepLoop: on, stopping once Stop is called, off

vars == <<pc, outcome, requests, state, waiters, chan, resolver, reaped, records, sweeping>>

Decisions == {"approved", "denied"}
Idle == [at |-> "idle", decision |-> "denied"]

(* Every variable ranges over its type. *)
TypeOK ==
  /\ pc \in [Requests -> {"idle", "registered", "waiting", "received", "unlisting",
                          "expired", "reporting", "done"}]
  /\ outcome \in [Requests -> {"none", "granted", "refused", "timeout", "skipped", "submitted"}]
  /\ requests \subseteq Requests
  /\ state \in [Requests -> {"pending", "approved", "denied", "expired"}]
  /\ waiters \subseteq Blocking
  /\ chan \in [Requests -> {<<>>} \cup {<<d>> : d \in Decisions}]
  /\ resolver \in [Requests -> [at: {"idle", "sending", "deleting", "reporting", "returned"},
                                decision: Decisions]]
  /\ reaped \subseteq Async
  /\ records \in [Requests -> Seq({"requested", "approved", "denied", "expired"})]
  /\ sweeping \in {"on", "stopping", "off"}

Init ==
  /\ pc = [r \in Requests |-> "idle"]
  /\ outcome = [r \in Requests |-> "none"]
  /\ requests = {}
  /\ state = [r \in Requests |-> "pending"]
  /\ waiters = {}
  /\ chan = [r \in Requests |-> <<>>]
  /\ resolver = [r \in Requests |-> Idle]
  /\ reaped = {}
  /\ records = [r \in Requests |-> <<>>]
  /\ sweeping = "on"

Goto(r, l) == pc' = [pc EXCEPT ![r] = l]
Report(r, what) == records' = [records EXCEPT ![r] = Append(@, what)]
Return(r, o) == Goto(r, "done") /\ outcome' = [outcome EXCEPT ![r] = o]

-----------------------------------------------------------------------------
(* RequestPermission and SubmitAsync. *)

Enlist(r) ==
  /\ pc[r] = "idle"
  /\ requests' = requests \cup {r}
  /\ waiters' = IF r \in Blocking THEN waiters \cup {r} ELSE waiters
  /\ Goto(r, "registered")
  /\ UNCHANGED <<outcome, state, chan, resolver, reaped, records, sweeping>>

(* emitRequested; a submission then returns its id. *)
ReportRequested(r) ==
  /\ pc[r] = "registered"
  /\ Report(r, "requested")
  /\ IF r \in Blocking
     THEN Goto(r, "waiting") /\ UNCHANGED outcome
     ELSE Return(r, "submitted")
  /\ UNCHANGED <<requests, state, waiters, chan, resolver, reaped, sweeping>>

(* A slip: an empty channel reads as the zero decision. *)
ReceiveZero(r) ==
  /\ pc[r] = "waiting"
  /\ chan' = [chan EXCEPT ![r] = <<>>]
  /\ outcome' = [outcome EXCEPT ![r] = IF chan[r] = <<"approved">> THEN "granted" ELSE "refused"]
  /\ Goto(r, "received")
  /\ UNCHANGED <<requests, state, waiters, resolver, reaped, records, sweeping>>

(* The select of RequestPermission takes the decision ... *)
Receive(r) ==
  /\ pc[r] = "waiting"
  /\ chan[r] # <<>>
  /\ chan' = [chan EXCEPT ![r] = <<>>]
  /\ outcome' = [outcome EXCEPT ![r] = IF Head(chan[r]) = "approved" THEN "granted" ELSE "refused"]
  /\ Goto(r, "received")
  /\ UNCHANGED <<requests, state, waiters, resolver, reaped, records, sweeping>>

ReportDecision(r) ==
  /\ pc[r] = "received"
  /\ Report(r, IF outcome[r] = "granted" THEN "approved" ELSE "denied")
  /\ Goto(r, "unlisting")
  /\ UNCHANGED <<outcome, requests, state, waiters, chan, resolver, reaped, sweeping>>

(* ... and deleteFn runs as the call returns; *)
Unlist(r) ==
  /\ pc[r] = "unlisting"
  /\ requests' = requests \ {r}
  /\ waiters' = waiters \ {r}
  /\ Goto(r, "done")
  /\ UNCHANGED <<outcome, state, chan, resolver, reaped, records, sweeping>>

(* A slip: only requests with the skip behaviour have a timer. *)
ExpireSkipping(r) ==
  /\ pc[r] = "waiting"
  /\ r \in Skipping
  /\ Goto(r, "expired")
  /\ UNCHANGED <<outcome, requests, state, waiters, chan, resolver, reaped, records, sweeping>>

(* or it takes the timer, or ctx.Done, free to do so when a decision is    *)
(* ready as well.                                                          *)
Expire(r) ==
  /\ pc[r] = "waiting"
  /\ Goto(r, "expired")
  /\ UNCHANGED <<outcome, requests, state, waiters, chan, resolver, reaped, records, sweeping>>

(* A slip: the waiter is left behind. *)
RemoveKeepsWaiter(r) ==
  /\ pc[r] = "expired"
  /\ requests' = requests \ {r}
  /\ Goto(r, "reporting")
  /\ UNCHANGED <<outcome, state, waiters, chan, resolver, reaped, records, sweeping>>

RemoveExpired(r) ==
  /\ pc[r] = "expired"
  /\ requests' = requests \ {r}
  /\ waiters' = waiters \ {r}
  /\ Goto(r, "reporting")
  /\ UNCHANGED <<outcome, state, chan, resolver, reaped, records, sweeping>>

(* A slip: a skipped request is reported as approved. *)
ReportSkipApproved(r) ==
  /\ pc[r] = "reporting"
  /\ \/ Report(r, "expired") /\ Return(r, "timeout")
     \/ r \in Skipping /\ Report(r, "approved") /\ Return(r, "skipped")
  /\ UNCHANGED <<requests, state, waiters, chan, resolver, reaped, sweeping>>

(* The skip behaviour makes a grant of a timeout, not of a cancellation. *)
ReportExpired(r) ==
  /\ pc[r] = "reporting"
  /\ Report(r, "expired")
  /\ \/ Return(r, "timeout")
     \/ r \in Skipping /\ Return(r, "skipped")
  /\ UNCHANGED <<requests, state, waiters, chan, resolver, reaped, sweeping>>

-----------------------------------------------------------------------------
(* Approve and Deny: resolve. *)

(* The locked section; the calls that find nothing pending return an error *)
(* and change nothing.                                                     *)
Resolve(r, d) ==
  /\ r \in requests
  /\ state[r] = "pending"
  /\ state' = [state EXCEPT ![r] = d]
  /\ resolver' = [resolver EXCEPT ![r] =
                    [at |-> IF r \in waiters THEN "sending" ELSE "deleting", decision |-> d]]
  /\ waiters' = waiters \ {r}
  /\ UNCHANGED <<pc, outcome, requests, chan, reaped, records, sweeping>>

Send(r) ==
  /\ resolver[r].at = "sending"
  /\ chan[r] = <<>>
  /\ chan' = [chan EXCEPT ![r] = <<resolver[r].decision>>]
  /\ resolver' = [resolver EXCEPT ![r].at = "returned"]
  /\ UNCHANGED <<pc, outcome, requests, state, waiters, reaped, records, sweeping>>

(* The second locked section, for a request without a waiter. *)
DeleteResolved(r) ==
  /\ resolver[r].at = "deleting"
  /\ requests' = requests \ {r}
  /\ resolver' = [resolver EXCEPT ![r].at = "reporting"]
  /\ UNCHANGED <<pc, outcome, state, waiters, chan, reaped, records, sweeping>>

ReportResolved(r) ==
  /\ resolver[r].at = "reporting"
  /\ Report(r, resolver[r].decision)
  /\ resolver' = [resolver EXCEPT ![r].at = "returned"]
  /\ UNCHANGED <<pc, outcome, requests, state, waiters, chan, reaped, sweeping>>

-----------------------------------------------------------------------------
(* The sweeper. *)

(* A slip: the state is not looked at. *)
ExpireDueAny(due) ==
  /\ sweeping # "off" /\ reaped = {}
  /\ due # {}
  /\ due \subseteq requests \ waiters
  /\ state' = [r \in Requests |-> IF r \in due THEN "expired" ELSE state[r]]
  /\ requests' = requests \ due
  /\ reaped' = reaped \cup (due \cap Async)
  /\ UNCHANGED <<pc, outcome, waiters, chan, resolver, records, sweeping>>

(* A slip: submissions are passed over. *)
ExpireDueBlocking(due) ==
  /\ sweeping # "off" /\ reaped = {}
  /\ due # {}
  /\ due \subseteq {r \in requests \ (waiters \cup Async) : state[r] = "pending"}
  /\ state' = [r \in Requests |-> IF r \in due THEN "expired" ELSE state[r]]
  /\ requests' = requests \ due
  /\ reaped' = reaped \cup due
  /\ UNCHANGED <<pc, outcome, waiters, chan, resolver, records, sweeping>>

(* expireDue: the pending requests without a waiter whose time is up, any  *)
(* of them.  The ones of the pass before have been reported: the sweeper   *)
(* is one goroutine.                                                       *)
ExpireDue(due) ==
  /\ sweeping # "off" /\ reaped = {}
  /\ due # {}
  /\ due \subseteq {r \in requests \ waiters : state[r] = "pending"}
  /\ state' = [r \in Requests |-> IF r \in due THEN "expired" ELSE state[r]]
  /\ requests' = requests \ due
  /\ reaped' = reaped \cup due
  /\ UNCHANGED <<pc, outcome, waiters, chan, resolver, records, sweeping>>

ReportReaped(r) ==
  /\ r \in reaped
  /\ reaped' = reaped \ {r}
  /\ Report(r, "expired")
  /\ UNCHANGED <<pc, outcome, requests, state, waiters, chan, resolver, sweeping>>

(* Stop closes sweepStop; the loop may take a tick that is ready first. *)
Stop ==
  /\ sweeping = "on"
  /\ sweeping' = "stopping"
  /\ UNCHANGED <<pc, outcome, requests, state, waiters, chan, resolver, reaped, records>>

SweeperExits ==
  /\ sweeping = "stopping"
  /\ reaped = {}
  /\ sweeping' = "off"
  /\ UNCHANGED <<pc, outcome, requests, state, waiters, chan, resolver, reaped, records>>

-----------------------------------------------------------------------------
Call(r) ==
  \/ ReportRequested(r) \/ ReportDecision(r) \/ Unlist(r)
  \/ RemoveExpired(r) \/ ReportExpired(r)
Resolving(r) == Send(r) \/ DeleteResolved(r) \/ ReportResolved(r)

Next ==
  \/ \E r \in Requests :
       \/ Enlist(r) \/ Receive(r) \/ Expire(r) \/ Call(r)
       \/ \E d \in Decisions : Resolve(r, d)
       \/ Resolving(r)
       \/ ReportReaped(r)
  \/ \E due \in SUBSET Requests : ExpireDue(due)
  \/ Stop \/ SweeperExits

Spec == Init /\ [][Next]_vars

(* Goroutines go on, timers fire, the sweeper ticks; nobody has to answer  *)
(* a request.                                                              *)
FairSpec ==
  /\ Spec
  /\ \A r \in Requests :
       /\ WF_vars(Call(r)) /\ WF_vars(Resolving(r)) /\ WF_vars(ReportReaped(r))
       /\ WF_vars(Expire(r) \/ Receive(r))
       /\ WF_vars(ExpireDue({r}))

-----------------------------------------------------------------------------
Resolutions(r) == {i \in 1..Len(records[r]) : records[r][i] # "requested"}

(* resolve: "this path does not emit to avoid duplicate records": however  *)
(* a decision, a timeout and the sweeper race, a request is reported       *)
(* resolved at most once.                                                  *)
OneResolution == \A r \in Requests : \A i, j \in Resolutions(r) : i = j

(* What the sink hears of each ending.  A skip is a grant nobody gave: the *)
(* caller goes on with it, and the sink hears of an expiry.                *)
Heard == [granted |-> "approved", refused |-> "denied", timeout |-> "expired", skipped |-> "expired"]

(* RequestPermission: when the call has returned, the sink was told of the *)
(* request and then of how the wait ended, and of nothing else: a decision *)
(* the caller got is the one reported, and one it missed never is.         *)
SinkToldEnding ==
  \A r \in Blocking : pc[r] = "done" =>
    /\ outcome[r] \in DOMAIN Heard
    /\ records[r] = <<"requested", Heard[outcome[r]]>>

(* A decision the caller got is that of the person whose call resolved     *)
(* this request; the one grant that comes from no person goes to a request *)
(* that asked to be skipped on timeout.                                    *)
DecisionIsHuman ==
  \A r \in Blocking :
    /\ outcome[r] \in {"granted", "refused"} =>
         /\ resolver[r].at = "returned"
         /\ resolver[r].decision = IF outcome[r] = "granted" THEN "approved" ELSE "denied"
    /\ outcome[r] = "skipped" => r \in Skipping

(* No call leaves its request or its waiter behind. *)
NothingLeftBehind ==
  \A r \in Blocking : pc[r] = "done" => r \notin requests \cup waiters

(* RequestPermission returns, whether or not anyone answers. *)
CallReturns == \A r \in Requests : pc[r] # "idle" ~> pc[r] = "done"

(* The sweeper "expires async entries past the broker TTL so a request     *)
(* that nobody answers cannot hold the stale-consent window open": unless  *)
(* the broker is stopped, a submission leaves the registry.                *)
SubmissionSettles == \A r \in Async : r \in requests ~> (r \notin requests \/ sweeping # "on")
=============================================================================
