-------------------------------- MODULE Ring --------------------------------
(***************************************************************************)
(* The ring buffer (governance/bounded/ring.go), beside the sequence of    *)
(* elements it stands for.  Every method holds the mutex throughout, so a  *)
(* method is one step.                                                     *)
(***************************************************************************)
EXTENDS Integers, Sequences

CONSTANTS
  Values,
  Capacity        \* NewRing panics unless it is positive

ASSUME CapacityAssumption == Capacity \in Nat \ {0}

VARIABLES
  elements,       \* the slots, indexed from 0 as in the code
  next,           \* index of the oldest element
  size,
  recent          \* history: the last Capacity values appended, oldest first

ringVars == <<elements, next, size, recent>>

Slots == 0 .. Capacity - 1

(* Every variable ranges over its type. *)
RingTypeOK ==
  /\ elements \in [Slots -> Values]
  /\ next \in Slots
  /\ size \in 0 .. Capacity
  /\ recent \in Seq(Values)

(* NewRing: every slot holds the zero value of T. *)
RingInit ==
  /\ \E zero \in Values : elements = [s \in Slots |-> zero]
  /\ next = 0
  /\ size = 0
  /\ recent = <<>>

(* What the ring promises: the oldest value makes room. *)
Remembered(v) ==
  IF Len(recent) < Capacity THEN Append(recent, v) ELSE Append(Tail(recent), v)

(* A slip: the write of a full ring does not move the oldest index. *)
AppendInPlace(v) ==
  /\ elements' = [elements EXCEPT ![(next + size) % Capacity] = v]
  /\ UNCHANGED next
  /\ size' = IF size = Capacity THEN size ELSE size + 1
  /\ recent' = Remembered(v)

(* Ring.Append. *)
AppendValue(v) ==
  /\ elements' = [elements EXCEPT ![(next + size) % Capacity] = v]
  /\ next' = IF size = Capacity THEN (next + 1) % Capacity ELSE next
  /\ size' = IF size = Capacity THEN size ELSE size + 1
  /\ recent' = Remembered(v)

Snapshot == [i \in 1 .. size |-> elements[(next + i - 1) % Capacity]]

RingNext == \E v \in Values : AppendValue(v)

RingSpec == RingInit /\ [][RingNext]_ringVars

(* ring.go: "Snapshot returns the retained elements oldest-first", and      *)
(* "appending past capacity overwrites the oldest element": it is the last  *)
(* Capacity values appended, in order, however the indices wrap.            *)
SnapshotIsRecent == Snapshot = recent
=============================================================================
