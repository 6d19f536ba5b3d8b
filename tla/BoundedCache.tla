---------------------------- MODULE BoundedCache ----------------------------
(***************************************************************************)
(* The bounded map with insert-order eviction and optional expiry          *)
(* (governance/bounded/cache.go).  Every method holds the mutex            *)
(* throughout, so a method is one step.  Values are left out: only         *)
(* TakeIf's condition looks at one, and either answer is possible.  The    *)
(* counters are left out, and the onEvict hook, which is nil wherever a    *)
(* cache is made.                                                          *)
(***************************************************************************)
EXTENDS Integers, Sequences, FiniteSets

CONSTANTS
  Keys,
  Cap,
  Ttl             \* in ticks of the clock; 0 disables expiry

(* "Construct with a positive cap": every cache of the code has one. *)
ASSUME BoundsAssumption == Cap \in Nat \ {0} /\ Ttl \in Nat

VARIABLES
  live,           \* the keys of entries
  age,            \* ticks since insertedAt, up to Ttl
  order           \* the LRU order, oldest first

vars == <<live, age, order>>

InOrder == {order[i] : i \in 1 .. Len(order)}

(* Every variable ranges over its type. *)
TypeOK ==
  /\ live \subseteq Keys
  /\ age \in [Keys -> 0 .. Ttl]
  /\ order \in Seq(Keys)

Init ==
  /\ live = {}
  /\ age = [k \in Keys |-> 0]
  /\ order = <<>>

(* The clock moves on. *)
Tick ==
  /\ age' = [k \in Keys |-> IF k \in live /\ age[k] < Ttl THEN age[k] + 1 ELSE age[k]]
  /\ UNCHANGED <<live, order>>

Expired(k) == Ttl > 0 /\ age[k] >= Ttl

(* The position of the first k, and s without it. *)
IsFirst(s, k, i) ==
  i \in 1 .. Len(s) /\ s[i] = k /\ \A m \in 1 .. i - 1 : s[m] # k
DropAt(s, i) == [m \in 1 .. Len(s) - 1 |-> IF m < i THEN s[m] ELSE s[m + 1]]

(* touchLocked and removeFromOrderLocked, for the key of an entry: it is    *)
(* in the order (Evictable), once or more.                                  *)
touchLocked(k) ==
  \E i \in 1 .. Len(order) : IsFirst(order, k, i) /\ order' = Append(DropAt(order, i), k)
removeFromOrderLocked(k) ==
  \E i \in 1 .. Len(order) : IsFirst(order, k, i) /\ order' = DropAt(order, i)

(* The live slice of Sweep: the positions whose key is kept, in order. *)
FilterOrder(kept) ==
  LET pos == {i \in 1 .. Len(order) : order[i] \in kept}
  IN \E n \in 0 .. Len(order) : \E f \in [1 .. n -> pos] :
       /\ \A i, m \in 1 .. n : i < m => f[i] < f[m]
       /\ \A p \in pos : \E i \in 1 .. n : f[i] = p
       /\ order' = [i \in 1 .. n |-> order[f[i]]]

(* An entry that left the map; its age starts over with the next Put. *)
Forget(gone) == age' = [k \in Keys |-> IF k \in gone THEN 0 ELSE age[k]]

-----------------------------------------------------------------------------
(* Get: an expired entry is deleted from the map, not from the order; any   *)
(* other Get changes nothing.                                               *)
Get(k) ==
  /\ k \in live
  /\ Expired(k)
  /\ live' = live \ {k}
  /\ Forget({k})
  /\ UNCHANGED order

PutExisting(k) ==
  /\ k \in live
  /\ touchLocked(k)
  /\ age' = [age EXCEPT ![k] = 0]
  /\ UNCHANGED live

(* A new entry: the order is one longer than before, so the loop over      *)
(* len(order) > cap trims at most one position; an entry is evicted when   *)
(* the position's key has one, the entry just inserted included.           *)
PutNew(k) ==
  /\ k \notin live
  /\ LET longer == Append(order, k) IN
     IF Len(longer) > Cap
     THEN /\ order' = Tail(longer)
          /\ live' = (live \cup {k}) \ {Head(longer)}
          /\ Forget({Head(longer)})
     ELSE /\ order' = longer
          /\ live' = live \cup {k}
          /\ UNCHANGED age

Put(k) == PutExisting(k) \/ PutNew(k)

(* A slip: the order keeps the deleted key. *)
DeleteKeepsOrder(k) ==
  /\ k \in live
  /\ live' = live \ {k}
  /\ Forget({k})
  /\ UNCHANGED order

Delete(k) ==
  /\ k \in live
  /\ live' = live \ {k}
  /\ Forget({k})
  /\ removeFromOrderLocked(k)

(* TakeIf: expiry as in Get, else the entry goes when the condition holds. *)
TakeIf(k) == Get(k) \/ (~Expired(k) /\ Delete(k))

(* Sweep: the order is filtered only when something expired. *)
Sweep ==
  LET due == {k \in live \cap InOrder : Expired(k)} IN
  /\ due # {}
  /\ live' = live \ due
  /\ Forget(due)
  /\ FilterOrder(live \ due)

Reset ==
  /\ live' = {}
  /\ Forget(Keys)
  /\ order' = <<>>

Next ==
  \/ Tick \/ Sweep \/ Reset
  \/ \E k \in Keys : Get(k) \/ Put(k) \/ Delete(k) \/ TakeIf(k)

Spec == Init /\ [][Next]_vars

-----------------------------------------------------------------------------
(* cache.go, "every cache/map/queue has a cap": the map never outgrows it. *)
WithinCap == Cardinality(live) <= Cap

(* Put evicts through the order alone, so an entry that is not in it would *)
(* stay for ever: every entry is in the order, which never outgrows Cap,   *)
(* though expiry leaves keys behind in it.                                 *)
Evictable == live \subseteq InOrder /\ Len(order) <= Cap

(* The order is exactly the map's keys, each once. *)
Exact ==
  /\ InOrder = live
  /\ \A i, m \in 1 .. Len(order) : order[i] = order[m] => i = m

(* Only the lazy expiry of Get and TakeIf, which leaves the key in the      *)
(* order, ever makes an exact order inexact: Put, Delete and Sweep keep     *)
(* the order and the map in step.                                           *)
OrderExact == [][Exact /\ ~(\E k \in Keys : Get(k)) => Exact']_vars
=============================================================================
