------------------------------ MODULE Backoff ------------------------------
(***************************************************************************)
(* The retry delay (jobs/handler.go, NextBackoff) along the life of one    *)
(* job: every failed attempt asks for the next delay.  A delay is an       *)
(* integer of the machine, so a shift that is too long wraps.              *)
(***************************************************************************)
EXTENDS Integers

CONSTANTS
  Half,           \* 2^63: a machine integer is in -Half .. Half - 1
  Bases,          \* values of Spec.Backoff, valid or not
  MaxSpecBackoff, \* Spec.Valid: 24 hours
  DefaultBase,    \* 30 seconds
  DelayCap,       \* 5 minutes
  Attempts        \* bound: the attempts looked at

maxBackoffBase == (2 * Half) \div 32 - 1

MachineInt == -Half .. Half - 1

(* 24h << 5 is "far inside int64", as the comment on maxBackoffBase says.   *)
ASSUME WidthAssumption ==
  /\ Half \in Nat \ {0}
  /\ Bases \subseteq MachineInt
  /\ MaxSpecBackoff \in Nat /\ DefaultBase \in Nat \ {0} /\ DelayCap \in Nat \ {0}
  /\ DefaultBase <= MaxSpecBackoff
  /\ 32 * MaxSpecBackoff < Half
  /\ Attempts \subseteq Int

VARIABLES
  backoff,        \* Spec.Backoff
  attempt,        \* the attempt that is running
  delay           \* what NextBackoff answered; 0 before the first answer

backoffVars == <<backoff, attempt, delay>>

ValidBackoff(b) == b \in 0 .. MaxSpecBackoff

(* Two's complement. *)
Wrap(x) == IF x \in MachineInt THEN x ELSE ((x + Half) % (2 * Half)) - Half

Clamp(b) ==
  LET given == IF b <= 0 THEN DefaultBase ELSE b IN
  IF given > maxBackoffBase THEN maxBackoffBase ELSE given

(* A slip: the shift is limited after the first attempt is counted in. *)
ShiftFromOne(n) ==
  LET first == IF n < 1 THEN 1 ELSE n IN
  IF first > 5 THEN 5 ELSE first

Shift(n) ==
  LET first == IF n < 1 THEN 1 ELSE n IN
  IF first - 1 > 5 THEN 5 ELSE first - 1

Scale(n) == <<1, 2, 4, 8, 16, 32>>[Shift(n) + 1]

NextBackoff(b, n) ==
  LET d == Wrap(Clamp(b) * Scale(n)) IN
  IF d > DelayCap THEN DelayCap ELSE d

(* A job that Spec.Valid let in, at its first attempt. *)
BackoffInit ==
  /\ backoff \in Bases /\ ValidBackoff(backoff)
  /\ attempt = 1
  /\ delay = 0

Fail ==
  /\ attempt \in Attempts
  /\ delay' = NextBackoff(backoff, attempt)
  /\ attempt' = attempt + 1
  /\ UNCHANGED backoff

BackoffNext == Fail

BackoffSpec == BackoffInit /\ [][BackoffNext]_backoffVars

-----------------------------------------------------------------------------
(* Every variable ranges over its type. *)
BackoffTypeOK ==
  /\ backoff \in MachineInt
  /\ attempt \in Nat \ {0}
  /\ delay \in Nat

(* handler.go, "base 30s when Spec.Backoff is unspecified, exponential x2  *)
(* per attempt, capped at 32x the base and at 5 minutes": the curve,       *)
(* defined by doubling from one attempt to the next.                       *)
Base == IF backoff = 0 THEN DefaultBase ELSE backoff
Least(x, y) == IF x <= y THEN x ELSE y
Curve[n \in Nat] ==
  IF n <= 1 THEN Least(Base, DelayCap)
  ELSE Least(Least(2 * Curve[n - 1], 32 * Base), DelayCap)
DelayIsCurve == attempt > 1 => delay = Curve[attempt - 1]

(* NextBackoff: the delay of a failed attempt of a valid job is positive,  *)
(* at most five minutes and at most 32 times the base, so the next attempt *)
(* is never in the past.                                                   *)
DelayWithinCaps ==
  attempt > 1 => delay \in 1 .. DelayCap /\ delay <= 32 * Base

(* NextBackoff: a later failure never waits less than an earlier one. *)
BackoffGrows == [][delay' >= delay]_backoffVars
=============================================================================
