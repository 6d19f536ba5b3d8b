---------------------------- MODULE QueueProofs -----------------------------
(***************************************************************************)
(* Jobs and ids that queue, and are tried again.                           *)
(*                                                                         *)
(* The spool, for any submissions, correlate ids and contents, and with or *)
(* without file-system and store faults: what was accepted is not lost,    *)
(* what was refused is not run.  The retry delay, for every word width,    *)
(* cap, default and valid Spec.Backoff: it is positive, capped, does not   *)
(* shrink and is the documented curve.  The invalidation pass, for every   *)
(* graph of chunks, depth limit and size of its buffer: the loop never     *)
(* waits beside work with nothing set to wake it, and a flush that ends    *)
(* has propagated all it should.                                           *)
(*                                                                         *)
(* The curve and the search are defined by recursion over the naturals; a  *)
(* section shows that such a function exists.                              *)
(***************************************************************************)
EXTENDS WellFoundedInduction, TLAPS, Backoff, Invalidation, Spool

(* The provers may take a minute for a leaf, and each leaf two attempts.   *)
USE SMTT(60), Z3T(60)

-----------------------------------------------------------------------------
(* The spool. *)

(* The watcher only handles files that are where it believes them to be:   *)
(* nobody else takes a file out of pending/ or claimed/.                   *)
WatcherOK ==
  /\ wpc \in {"rename", "apply", "remove"} => cur \in Files /\ cur \notin todo
  /\ wpc = "rename" => place[cur] = "pending" /\ leg = "pending"
  /\ wpc \in {"apply", "remove"} => place[cur] = "claimed"
  /\ wpc = "remove" => Ingested(cur)
  /\ wpc \in {"next", "rename", "apply", "remove"} => \A f \in todo : place[f] = leg

(* What a client's answer says about its file. *)
ClientOK(f) ==
  /\ answer[f] = "none" => place[f] = "unwritten"
  /\ answer[f] = "writing" => place[f] \in Temps \cup {"debris"}
  /\ answer[f] = "refused" => place[f] \in {"unwritten", "gone", "debris"}
  /\ answer[f] \in {"published", "accepted"} =>
       \/ place[f] \in {"pending", "claimed"}
       \/ place[f] = "failed" /\ Content[f] = "malformed"
       \/ place[f] = "gone" /\ Ingested(f)
  /\ place[f] \in {"pending", "claimed"} => f \in whole
  /\ place[f] = "failed" => Content[f] = "malformed"

(* A job was made from a published, complete and well-formed file. *)
JobOK(i) ==
  LET f == madeFrom[i] IN
  f # NoFile =>
    /\ f \in whole
    /\ Content[f] # "malformed"
    /\ Correlate[f] = i
    /\ answer[f] \in {"published", "accepted", "unknown"}

(* The inductive invariant. *)
SInv ==
  /\ TypeOK
  /\ WatcherOK
  /\ \A f \in Files : ClientOK(f)
  /\ \A i \in Ids : JobOK(i)

-----------------------------------------------------------------------------
(* It holds initially. *)
LEMMA InitSInv == Init => SInv
BY DEF Init, SInv, TypeOK, Places, WatcherOK, ClientOK, JobOK, Temps

(* The client's steps keep it: they touch only a file that the watcher     *)
(* does not look at yet.                                                   *)
LEMMA ClientKeepsSInv ==
  ASSUME SInv, NEW f \in Files, ClientStep(f) \/ ClientDies(f) \/ TempAges(f)
  PROVE  SInv'
<1> USE DEF SInv, TypeOK, Places, WatcherOK, ClientOK, JobOK, Temps, Ingested, Move, Answer,
            watcherVars, clientVars
<1>1. CASE OpenTemp(f)
  BY <1>1 DEF OpenTemp
<1>2. CASE WriteTemp(f)
  BY <1>2 DEF WriteTemp, Refuse
<1>3. CASE RenameTemp(f)
  BY <1>3 DEF RenameTemp, Refuse
<1>4. CASE Accept(f)
  BY <1>4 DEF Accept
<1>5. CASE ClientDies(f)
  BY <1>5 DEF ClientDies
<1>6. CASE TempAges(f)
  BY <1>6 DEF TempAges
<1> QED
  BY Zenon, <1>1, <1>2, <1>3, <1>4, <1>5, <1>6 DEF ClientStep

(* The watcher's steps keep it. *)
LEMMA WatcherKeepsSInv ==
  ASSUME SInv, Boot \/ StopWatcher \/ Exit \/ RunnerDies \/ DrainStep
  PROVE  SInv'
<1> USE DEF SInv, TypeOK, Places, WatcherOK, ClientOK, JobOK, Temps, Ingested, Move, Goto,
            clientVars
<1>1. CASE Boot
  BY <1>1 DEF Boot
<1>2. CASE StopWatcher \/ Exit \/ RunnerDies
  BY <1>2 DEF StopWatcher, Exit, RunnerDies
<1>3. CASE SweepDone \/ Tick \/ Scan
  BY <1>3 DEF SweepDone, Tick, Scan
<1>4. CASE LegDone \/ PassCancelled
  BY <1>4 DEF LegDone, PassCancelled
<1>5. ASSUME NEW f \in Files, SweepDebris(f) PROVE SInv'
  BY <1>5 DEF SweepDebris
<1>6. ASSUME NEW f \in Files, ReadNext(f) PROVE SInv'
  BY <1>6 DEF ReadNext
<1>7. CASE ClaimFile
  BY <1>7 DEF ClaimFile, Done
<1>8. CASE RejectFile
  BY <1>8, ContentAssumption DEF RejectFile, Done, Ingestible
<1>9. CASE CreateJob
  BY <1>9, NoFileAssumption DEF CreateJob, Done, Ingestible, Ids
<1>10. CASE RemoveFile
  BY <1>10 DEF RemoveFile, Done
<1> QED
  BY Zenon, <1>1, <1>2, <1>3, <1>4, <1>5, <1>6, <1>7, <1>8, <1>9, <1>10 DEF DrainStep

(* Every step keeps it. *)
LEMMA NextSInv == SInv /\ [Next]_vars => SInv'
<1> SUFFICES ASSUME SInv, [Next]_vars PROVE SInv'
  OBVIOUS
<1>1. CASE UNCHANGED vars
  BY <1>1 DEF vars, clientVars, watcherVars, SInv, TypeOK, WatcherOK, ClientOK, JobOK, Ingested
<1> QED
  BY <1>1, ClientKeepsSInv, WatcherKeepsSInv DEF Next

(* The inductive invariant holds in every reachable state. *)
THEOREM SpoolInvariance == Spec => []SInv
BY InitSInv, NextSInv, PTL DEF Spec

(* Every variable of the spool keeps its type (TypeOK). *)
THEOREM SpoolTypes == Spec => []TypeOK
<1>1. SInv => TypeOK
  BY DEF SInv
<1> QED
  BY <1>1, SpoolInvariance, PTL

(* An accepted submission is never lost, wherever client and runner crash  *)
(* and whichever calls fail (WriteSpoolFile, drainOnce, ingest).           *)
THEOREM NoSubmissionLost == Spec => []AcceptedNeverLost
<1>1. SInv => AcceptedNeverLost
  BY DEF SInv, ClientOK, AcceptedNeverLost
<1> QED
  BY <1>1, SpoolInvariance, PTL

(* Jobs are made from complete, well-formed files that were not refused    *)
(* (WriteSpoolFile's error paths, ingest).                                 *)
THEOREM JobsComeFromSubmissions == Spec => []JobsAccounted
<1>1. SInv => RefusedNeverIngested
  BY NoFileAssumption DEF SInv, ClientOK, JobOK, RefusedNeverIngested
<1>2. SInv => JobsFromWholeFiles
  BY DEF SInv, JobOK, JobsFromWholeFiles
<1>3. SInv => JobsAccounted
  BY <1>1, <1>2 DEF JobsAccounted
<1> QED
  BY <1>3, SpoolInvariance, PTL

(* failed/ holds only malformed submissions and unpublished debris.        *)
THEOREM FailedIsMalformed == Spec => []FailedOnlyMalformed
<1>1. SInv => FailedOnlyMalformed
  BY DEF SInv, TypeOK, ClientOK, FailedOnlyMalformed
<1> QED
  BY <1>1, SpoolInvariance, PTL

-----------------------------------------------------------------------------
(* Functions by recursion over the naturals. *)

(* The order of the naturals is well founded. *)
LEMMA LeastNumber ==
  ASSUME NEW T \in SUBSET Nat, T # {}
  PROVE  \E n \in T : \A m \in T : n <= m
<1>1. PICK n \in T : \A m \in T : ~ (<<m, n>> \in OpToRel(<, Nat))
  BY NatLessThanWellFounded, WFMin, Zenon
<1>2. ASSUME NEW m \in T, m < n PROVE <<m, n>> \in OpToRel(<, Nat)
  BY <1>2 DEF OpToRel
<1>3. \A m \in T : ~ (m < n)
  BY <1>1, <1>2, Zenon
<1>4. \A m \in T : n <= m
  BY <1>3
<1> QED BY <1>4, Zenon

(* A set that has 0, and n + 1 whenever it has n, has every natural.       *)
LEMMA Induction ==
  ASSUME NEW S, 0 \in S, \A n \in Nat : n \in S => n + 1 \in S
  PROVE  Nat \subseteq S
<1> SUFFICES ASSUME Nat \ S # {} PROVE FALSE
  OBVIOUS
<1>0. Nat \ S \in SUBSET Nat
  OBVIOUS
<1>1. PICK n \in Nat \ S : \A m \in Nat \ S : n <= m
  BY <1>0, LeastNumber, Zenon
<1>2. n # 0 /\ n - 1 \in Nat
  BY <1>1
<1>3. n - 1 \in S
  BY <1>1, <1>2
<1> QED BY <1>1, <1>2, <1>3

(* The function f starts with a and goes on by step. *)
Steps(T) == [Nat -> [T -> T]]
Follows(f, T, a, step) ==
  /\ f \in [Nat -> T]
  /\ f[0] = a
  /\ \A n \in Nat : f[n + 1] = step[n + 1][f[n]]

(* A function by recursion over the naturals. *)
LEMMA Recursion ==
  ASSUME NEW T, NEW a \in T, NEW step \in Steps(T)
  PROVE  \E f : Follows(f, T, a, step)
<1> USE DEF Steps
<1> DEFINE Part(n) == {g \in [0 .. n -> T] :
                         g[0] = a /\ \A m \in 1 .. n : g[m] = step[m][g[m - 1]]}
<1>1. \A n \in Nat : Part(n) # {}
  <2> DEFINE S == {n \in Nat : Part(n) # {}}
  <2>1. 0 \in S
    <3>1. [i \in 0 .. 0 |-> a] \in Part(0)
      OBVIOUS
    <3>2. Part(0) # {}
      BY <3>1, Zenon
    <3> QED BY <3>2, Zenon
  <2>2. ASSUME NEW n \in Nat, n \in S PROVE n + 1 \in S
    <3>1. PICK g \in Part(n) : TRUE
      BY <2>2, Zenon
    <3> DEFINE h == [i \in 0 .. n + 1 |-> IF i = n + 1 THEN step[n + 1][g[n]] ELSE g[i]]
    <3>0. g \in [0 .. n -> T] /\ g[0] = a /\ \A m \in 1 .. n : g[m] = step[m][g[m - 1]]
      BY <3>1
    <3>2. h \in [0 .. n + 1 -> T]
      BY <3>0
    <3>3. h[0] = a
      BY <3>0
    <3>4. ASSUME NEW m \in 1 .. n + 1 PROVE h[m] = step[m][h[m - 1]]
      <4>1. CASE m = n + 1
        BY <4>1
      <4>2. CASE m # n + 1
        BY <4>2, <3>0
      <4> QED BY <4>1, <4>2
    <3> HIDE DEF h
    <3>5. h \in Part(n + 1)
      BY <3>2, <3>3, <3>4
    <3>6. Part(n + 1) # {} /\ n + 1 \in Nat
      <4>1. n + 1 \in Nat
        OBVIOUS
      <4> QED BY <3>5, <4>1, Zenon
    <3> QED BY <3>6, Zenon
  <2> HIDE DEF S
  <2>3. Nat \subseteq S
    BY <2>1, <2>2, Induction, Zenon
  <2>4. ASSUME NEW n \in Nat PROVE Part(n) # {}
    BY <2>3, Zenon DEF S
  <2> QED BY <2>4, Zenon
<1>2. ASSUME NEW n \in Nat, NEW k \in Nat, NEW g \in Part(n), NEW h \in Part(k)
      PROVE  \A i \in Nat : i <= n /\ i <= k => g[i] = h[i]
  <2> DEFINE S == {i \in Nat : i <= n /\ i <= k => g[i] = h[i]}
  <2>0. /\ g[0] = a /\ \A m \in 1 .. n : g[m] = step[m][g[m - 1]]
        /\ h[0] = a /\ \A m \in 1 .. k : h[m] = step[m][h[m - 1]]
    BY <1>2
  <2>1. 0 \in S
    BY <2>0
  <2>2. ASSUME NEW i \in Nat, i \in S PROVE i + 1 \in S
    <3> SUFFICES ASSUME i + 1 <= n, i + 1 <= k PROVE g[i + 1] = h[i + 1]
      OBVIOUS
    <3>1. g[i] = h[i]
      BY <2>2
    <3>2. g[i + 1] = step[i + 1][g[i]] /\ h[i + 1] = step[i + 1][h[i]]
      BY <2>0
    <3> QED BY <3>1, <3>2
  <2> HIDE DEF S
  <2>3. Nat \subseteq S
    BY <2>1, <2>2, Induction, Zenon
  <2> QED BY <2>3 DEF S
<1> DEFINE G(n) == CHOOSE g \in Part(n) : TRUE
           f == [n \in Nat |-> G(n)[n]]
<1>3. \A n \in Nat : G(n) \in Part(n)
  BY <1>1, Zenon
<1> HIDE DEF G
<1>4. ASSUME NEW n \in Nat
      PROVE  /\ G(n) \in [0 .. n -> T]
             /\ G(n)[0] = a
             /\ \A m \in 1 .. n : G(n)[m] = step[m][G(n)[m - 1]]
  BY <1>3
<1> HIDE DEF Part
<1>5. f \in [Nat -> T] /\ f[0] = a
  BY <1>4
<1>6. ASSUME NEW n \in Nat PROVE f[n + 1] = step[n + 1][f[n]]
  <2>1. G(n + 1)[n] = G(n)[n]
    BY <1>2, <1>3
  <2>2. G(n + 1)[n + 1] = step[n + 1][G(n + 1)[n]]
    BY <1>4
  <2> QED BY <2>1, <2>2
<1> HIDE DEF f
<1>7. Follows(f, T, a, step)
  BY <1>5, <1>6 DEF Follows
<1> QED BY <1>7, Zenon

-----------------------------------------------------------------------------
(* The retry delay. *)

(* Shift and Scale: the factor of NextBackoff is one of the six powers of   *)
(* two, and a later attempt has no smaller factor.                          *)
LEMMA ScaleRange ==
  ASSUME NEW n \in Int
  PROVE  /\ Scale(n) \in 1 .. 32
         /\ Scale(n) <= Scale(n + 1)
BY DEF Scale, Shift

(* Clamp: a valid base is not clamped, and an unspecified one is replaced.  *)
LEMMA ValidBase ==
  ASSUME NEW b \in Int, ValidBackoff(b)
  PROVE  /\ Clamp(b) = IF b = 0 THEN DefaultBase ELSE b
         /\ Clamp(b) \in 1 .. MaxSpecBackoff
BY WidthAssumption DEF ValidBackoff, Clamp, maxBackoffBase

(* NextBackoff: a valid base never reaches the word's limit, so the product *)
(* is exact and the answer is it or the cap.                                *)
LEMMA ExactDelay ==
  ASSUME NEW b \in Int, ValidBackoff(b), NEW n \in Int
  PROVE  /\ Clamp(b) * Scale(n) \in 1 .. 32 * Clamp(b)
         /\ NextBackoff(b, n) = Least(Clamp(b) * Scale(n), DelayCap)
<1> DEFINE c == Clamp(b)
           k == Scale(n)
<1>1. c \in 1 .. MaxSpecBackoff /\ k \in 1 .. 32
  BY ValidBase, ScaleRange
<1>2. c \in Nat /\ c >= 1 /\ c <= MaxSpecBackoff /\ k \in Nat /\ k >= 1 /\ k <= 32
  BY <1>1, WidthAssumption
<1> HIDE DEF c, k
<1>3. c * k \in Int /\ c * k >= 1 /\ c * k <= 32 * c
  BY <1>2
<1>4. Wrap(c * k) = c * k
  BY <1>2, <1>3, WidthAssumption DEF Wrap, MachineInt
<1> QED
  BY <1>2, <1>3, <1>4, WidthAssumption DEF NextBackoff, Least, c, k

(* The delays stay within their caps and the next one is no smaller: what  *)
(* is true of the last delay and the attempt it was computed for.          *)
DelayInv ==
  /\ BackoffTypeOK
  /\ ValidBackoff(backoff)
  /\ DelayWithinCaps
  /\ attempt = 1 => delay = 0
  /\ attempt > 1 => delay = NextBackoff(backoff, attempt - 1)

(* A failed attempt preserves DelayInv and never shortens the delay. *)
LEMMA FailKeeps ==
  ASSUME DelayInv, Fail
  PROVE  DelayInv' /\ delay' >= delay
<1> USE DEF DelayInv, BackoffTypeOK
<1>0. backoff \in Int
  BY WidthAssumption DEF MachineInt
<1>1. backoff' = backoff /\ attempt' = attempt + 1 /\ delay' = NextBackoff(backoff, attempt)
  BY DEF Fail
<1>2. Clamp(backoff) = Base /\ Clamp(backoff) \in Nat /\ Base \in Nat \ {0}
  BY <1>0, ValidBase, WidthAssumption DEF Base
<1>3. /\ Clamp(backoff) * Scale(attempt) \in 1 .. 32 * Clamp(backoff)
      /\ delay' = Least(Clamp(backoff) * Scale(attempt), DelayCap)
  BY <1>0, <1>1, ExactDelay
<1>4. delay' \in 1 .. DelayCap /\ delay' <= 32 * Base
  BY <1>2, <1>3, WidthAssumption DEF Least
<1>5. DelayWithinCaps'
  BY <1>1, <1>4 DEF DelayWithinCaps, Base
<1>6. delay' >= delay
  <2>1. CASE attempt = 1
    BY <2>1, <1>4, WidthAssumption
  <2>2. CASE attempt > 1
    <3>1. /\ Clamp(backoff) * Scale(attempt - 1) \in 1 .. 32 * Clamp(backoff)
          /\ delay = Least(Clamp(backoff) * Scale(attempt - 1), DelayCap)
      BY <2>2, <1>0, ExactDelay
    <3>2. Scale(attempt - 1) \in Nat /\ Scale(attempt) \in Nat /\ Scale(attempt - 1) <= Scale(attempt)
      <4>1. attempt - 1 \in Int /\ (attempt - 1) + 1 = attempt
        OBVIOUS
      <4> QED BY <4>1, ScaleRange
    <3>3. ASSUME NEW c \in Nat, NEW x \in Nat, NEW y \in Nat, x <= y
          PROVE  c * x <= c * y
      BY <3>3
    <3>4. Clamp(backoff) * Scale(attempt - 1) <= Clamp(backoff) * Scale(attempt)
      BY <3>2, <3>3, <1>2
    <3> QED
      BY <3>1, <3>4, <1>3, <1>2, WidthAssumption DEF Least
  <2> QED BY <2>1, <2>2
<1>7. attempt' > 1 /\ delay' = NextBackoff(backoff', attempt' - 1)
  BY <1>1
<1>8. ValidBackoff(backoff)' /\ BackoffTypeOK'
  BY <1>1, <1>4, WidthAssumption DEF ValidBackoff
<1> QED
  BY <1>5, <1>6, <1>7, <1>8

(* DelayInv is an inductive invariant of a valid job's retries. *)
LEMMA DelayInvHolds == BackoffSpec => []DelayInv
<1>1. BackoffInit => DelayInv
  BY WidthAssumption DEF BackoffInit, DelayInv, BackoffTypeOK, ValidBackoff, DelayWithinCaps, MachineInt
<1>2. DelayInv /\ [BackoffNext]_backoffVars => DelayInv'
  <2>1. ASSUME DelayInv, BackoffNext PROVE DelayInv'
    BY <2>1, FailKeeps DEF BackoffNext
  <2>2. ASSUME DelayInv, UNCHANGED backoffVars PROVE DelayInv'
    BY <2>2 DEF backoffVars, DelayInv, BackoffTypeOK, ValidBackoff, DelayWithinCaps, Base
  <2> QED BY <2>1, <2>2
<1> QED BY <1>1, <1>2, PTL DEF BackoffSpec

(* NextBackoff: for a job that Spec.Valid accepts, no failure schedules a   *)
(* retry in the past or later than five minutes or 32 times the base.       *)
THEOREM DelayBounded == BackoffSpec => []DelayWithinCaps
BY DelayInvHolds, PTL DEF DelayInv

(* NextBackoff: the delays of one job never shrink. *)
THEOREM DelayGrows == BackoffSpec => BackoffGrows
<1>1. DelayInv /\ [BackoffNext]_backoffVars => [delay' >= delay]_backoffVars
  BY FailKeeps DEF BackoffNext
<1> QED BY <1>1, DelayInvHolds, PTL DEF BackoffSpec, BackoffGrows

(* Scale: a power of two that doubles with the attempt, up to 32. *)
LEMMA ScaleDoubles ==
  ASSUME NEW n \in Nat \ {0}
  PROVE  /\ Scale(n) \in {1, 2, 4, 8, 16, 32}
         /\ Scale(n + 1) = Least(2 * Scale(n), 32)
BY DEF Scale, Shift, Least

(* Doubling under two caps is a recursion over the naturals. *)
LEMMA CurveExists ==
  ASSUME NEW b \in Int, NEW c \in Int
  PROVE  \E f : f = [n \in Nat |-> IF n <= 1 THEN Least(b, c)
                                   ELSE Least(Least(2 * f[n - 1], 32 * b), c)]
<1> DEFINE first == Least(b, c)
           Level(n, x) == IF n <= 1 THEN first ELSE Least(Least(2 * x, 32 * b), c)
           step == [n \in Nat |-> [x \in Int |-> Level(n, x)]]
<1>0. first \in Int
  BY DEF Least
<1>1. \A n \in Nat, x \in Int : Level(n, x) \in Int
  BY DEF Least
<1> HIDE DEF first, Level
<1>2. step \in Steps(Int)
  BY <1>1 DEF Steps
<1> HIDE DEF step
<1>3. PICK f : Follows(f, Int, first, step)
  BY <1>0, <1>2, Recursion, Zenon
<1>4. f = [n \in Nat |-> Level(n, f[n - 1])]
  <2>1. ASSUME NEW n \in Nat PROVE f[n] = Level(n, f[n - 1])
    <3>1. CASE n = 0
      BY <3>1, <1>3 DEF Level, Follows
    <3>2. CASE n # 0
      <4>1. n - 1 \in Nat /\ n = (n - 1) + 1
        BY <3>2
      <4>2. f[n] = step[n][f[n - 1]] /\ f[n - 1] \in Int
        BY <1>3, <4>1 DEF Follows
      <4> QED BY <4>1, <4>2 DEF step
    <3> QED BY <3>1, <3>2
  <2> QED BY <2>1, <1>3 DEF Follows
<1> QED BY <1>4, Zenon DEF Level, first

(* Curve is the function its definition describes. *)
LEMMA CurveDefined ==
  Base \in Int =>
    \A n \in Nat :
      Curve[n] = IF n <= 1 THEN Least(Base, DelayCap)
                 ELSE Least(Least(2 * Curve[n - 1], 32 * Base), DelayCap)
<1> SUFFICES ASSUME Base \in Int
             PROVE  \A n \in Nat :
                      Curve[n] = IF n <= 1 THEN Least(Base, DelayCap)
                                 ELSE Least(Least(2 * Curve[n - 1], 32 * Base), DelayCap)
  OBVIOUS
<1>1. DelayCap \in Int
  BY WidthAssumption
<1>2. \E f : f = [n \in Nat |-> IF n <= 1 THEN Least(Base, DelayCap)
                               ELSE Least(Least(2 * f[n - 1], 32 * Base), DelayCap)]
  BY <1>1, CurveExists, Zenon
<1>3. Curve = [n \in Nat |-> IF n <= 1 THEN Least(Base, DelayCap)
                            ELSE Least(Least(2 * Curve[n - 1], 32 * Base), DelayCap)]
  BY <1>2, Zenon DEF Curve
<1> QED BY <1>3, Zenon

(* ... and the doubling ends where the shift of NextBackoff does. *)
LEMMA CurveClosed ==
  ASSUME Base \in Nat \ {0}
  PROVE  \A n \in Nat : Curve[n + 1] = Least(Base * Scale(n + 1), DelayCap)
<1> DEFINE S == {n \in Nat : Curve[n + 1] = Least(Base * Scale(n + 1), DelayCap)}
<1>0. \A n \in Nat :
        Curve[n] = IF n <= 1 THEN Least(Base, DelayCap)
                   ELSE Least(Least(2 * Curve[n - 1], 32 * Base), DelayCap)
  BY CurveDefined
<1>1. 0 \in S
  <2>1. Curve[1] = Least(Base, DelayCap)
    BY <1>0
  <2>2. Base * Scale(1) = Base
    BY DEF Scale, Shift
  <2> QED BY <2>1, <2>2
<1>2. ASSUME NEW n \in Nat, n \in S PROVE n + 1 \in S
  <2>1. Curve[n + 1] = Least(Base * Scale(n + 1), DelayCap)
    BY <1>2
  <2>2. Curve[(n + 1) + 1] = Least(Least(2 * Curve[n + 1], 32 * Base), DelayCap)
    BY <1>0
  <2>3. Scale(n + 1) \in {1, 2, 4, 8, 16, 32} /\ Scale((n + 1) + 1) = Least(2 * Scale(n + 1), 32)
    BY ScaleDoubles
  <2>4. ASSUME NEW k \in {1, 2, 4, 8, 16, 32}
        PROVE  Least(Least(2 * Least(Base * k, DelayCap), 32 * Base), DelayCap)
                 = Least(Base * Least(2 * k, 32), DelayCap)
    BY WidthAssumption DEF Least
  <2>5. Curve[(n + 1) + 1] = Least(Base * Scale((n + 1) + 1), DelayCap)
    BY <2>1, <2>2, <2>3, <2>4
  <2> QED BY <2>5
<1> HIDE DEF S
<1>3. Nat \subseteq S
  BY <1>1, <1>2, Induction, Zenon
<1> QED BY <1>3 DEF S

(* NextBackoff: along the life of a valid job the delays are the documented *)
(* curve, for every base, cap and number of attempts.                       *)
THEOREM DelaysFollowCurve == BackoffSpec => []DelayIsCurve
<1>1. DelayInv => DelayIsCurve
  <2> SUFFICES ASSUME DelayInv, attempt > 1 PROVE delay = Curve[attempt - 1]
    BY Zenon DEF DelayIsCurve
  <2>1. backoff \in Int /\ ValidBackoff(backoff) /\ attempt \in Nat
    BY WidthAssumption DEF DelayInv, BackoffTypeOK, MachineInt
  <2>2. attempt - 2 \in Nat /\ (attempt - 2) + 1 = attempt - 1 /\ attempt - 1 \in Int
    BY <2>1
  <2>3. Clamp(backoff) = Base /\ Base \in Nat \ {0}
    BY <2>1, ValidBase, WidthAssumption DEF Base
  <2>4. delay = Least(Base * Scale(attempt - 1), DelayCap)
    BY <2>1, <2>2, <2>3, ExactDelay DEF DelayInv
  <2>5. Curve[(attempt - 2) + 1] = Least(Base * Scale((attempt - 2) + 1), DelayCap)
    BY <2>2, <2>3, CurveClosed, Zenon
  <2> QED BY <2>2, <2>4, <2>5
<1> QED BY <1>1, DelayInvHolds, PTL

-----------------------------------------------------------------------------
(* The invalidation loop. *)

Flushing == {"handling", "emitting", "taking", "propagating", "surfacing", "clearing"}
Awaited == kick \/ drain = "signalling"

(* What a Drain folds while a flush is under way is not in the flush's     *)
(* hand, so its kick must outlive the flush.                               *)
LoopInv ==
  /\ WorkHasWakeup
  /\ pass \in Flushing /\ revision # {} => Awaited
  /\ pass \in {"propagating", "surfacing", "clearing"} /\ ~ (pending \subseteq hand) => Awaited

(* What the publishers and a Drain do. *)
LEMMA DrainKeepsLoop ==
  ASSUME LoopInv, (\E paths \in Revisions : Publish(paths)) \/ DrainFolds \/ DrainSignals
  PROVE  LoopInv'
<1> USE DEF LoopInv, WorkHasWakeup, Awaited, Flushing
<1>1. CASE \E paths \in Revisions : Publish(paths)
  BY <1>1 DEF Publish
<1>2. CASE DrainFolds
  BY <1>2 DEF DrainFolds
<1>3. CASE DrainSignals
  BY <1>3 DEF DrainSignals
<1> QED BY <1>1, <1>2, <1>3

(* The select: only here is a kick consumed, and only if it arms the timer *)
(* or there is no work.                                                    *)
LEMMA SelectKeepsLoop ==
  ASSUME LoopInv, LoopReceives \/ LoopKicked \/ LoopStops \/ FlushTakesRevision
  PROVE  LoopInv'
<1> USE DEF LoopInv, WorkHasWakeup, Awaited, Flushing
<1>1. CASE LoopReceives
  BY <1>1 DEF LoopReceives
<1>2. CASE LoopKicked
  <2>1. pending' # {} \/ revision' # {} => timer'
    BY <1>2, Zenon DEF LoopKicked
  <2> QED BY <1>2, <2>1 DEF LoopKicked
<1>3. CASE LoopStops
  BY <1>3 DEF LoopStops
<1>4. CASE FlushTakesRevision
  BY <1>4 DEF FlushTakesRevision
<1> QED BY <1>1, <1>2, <1>3, <1>4

(* The flush: it ends with the timer armed, or with nothing left that it   *)
(* had not seen.                                                           *)
LEMMA FlushKeepsLoop ==
  ASSUME LoopInv,
         \/ HandleSucceeds \/ HandleFails \/ RestoreRevision \/ EmitStaled
         \/ FlushTakesPending \/ Propagates \/ PropagateFails \/ Surfaces \/ SurfaceFails
         \/ FlushClears
  PROVE  LoopInv'
<1> USE DEF LoopInv, WorkHasWakeup, Awaited, Flushing
<1>1. CASE HandleSucceeds
  BY <1>1 DEF HandleSucceeds
<1>2. CASE HandleFails
  BY <1>2 DEF HandleFails
<1>3. CASE RestoreRevision
  BY <1>3 DEF RestoreRevision
<1>4. CASE EmitStaled
  BY <1>4 DEF EmitStaled
<1>5. CASE FlushTakesPending
  BY <1>5 DEF FlushTakesPending
<1>6. CASE Propagates \/ PropagateFails
  <2>1. CASE Propagates
    BY <2>1 DEF Propagates
  <2>2. CASE PropagateFails
    BY <2>2 DEF PropagateFails, Fails
  <2> QED BY <1>6, <2>1, <2>2
<1>7. CASE Surfaces \/ SurfaceFails
  <2>1. CASE Surfaces
    BY <2>1 DEF Surfaces
  <2>2. CASE SurfaceFails
    BY <2>2 DEF SurfaceFails, Fails
  <2> QED BY <1>7, <2>1, <2>2
<1>8. CASE FlushClears
  BY <1>8 DEF FlushClears
<1> HIDE DEF LoopInv
<1> QED BY <1>1, <1>2, <1>3, <1>4, <1>5, <1>6, <1>7, <1>8, Zenon

(* The work a Drain or an event adds to the buffer is never left behind:   *)
(* whenever the loop waits with work, something is set to wake it.         *)
THEOREM WorkNotForgotten == InvalidationSpec => []WorkHasWakeup
<1>1. InvalidationInit => LoopInv
  BY DEF InvalidationInit, LoopInv, WorkHasWakeup, Flushing
<1>2. LoopInv /\ [InvalidationNext]_invalidationVars => LoopInv'
  <2> SUFFICES ASSUME LoopInv, [InvalidationNext]_invalidationVars PROVE LoopInv'
    OBVIOUS
  <2>1. CASE UNCHANGED invalidationVars
    BY <2>1 DEF invalidationVars, LoopInv, WorkHasWakeup, Awaited
  <2>2. CASE InvalidationNext
    BY <2>2, DrainKeepsLoop, SelectKeepsLoop, FlushKeepsLoop DEF InvalidationNext
  <2> QED BY <2>1, <2>2
<1>3. LoopInv => WorkHasWakeup
  BY DEF LoopInv
<1> QED BY <1>1, <1>2, <1>3, PTL DEF InvalidationSpec

-----------------------------------------------------------------------------
(* How far staleness is propagated. *)

(* Neighbours stays among the chunks. *)
LEMMA NeighboursTyped ==
  ASSUME NEW s \in SUBSET Chunk PROVE Neighbours(s) \in SUBSET Chunk
BY InvalidationBounds DEF Neighbours

(* The levels of the search of PropagateSync. *)
LEMMA WithinDefined ==
  ASSUME NEW s \in SUBSET Chunk
  PROVE  /\ Within(s) \in [Nat -> SUBSET Chunk]
         /\ Within(s)[0] = s
         /\ \A d \in Nat : Within(s)[d + 1] = Within(s)[d] \cup Neighbours(Within(s)[d])
<1> DEFINE T == SUBSET Chunk
           step == [d \in Nat |-> [x \in T |-> x \cup Neighbours(x)]]
           Level(f) == [d \in Nat |-> IF d = 0 THEN s ELSE f[d - 1] \cup Neighbours(f[d - 1])]
<1>1. \A x \in T : x \cup Neighbours(x) \in T
  BY NeighboursTyped
<1>2. step \in Steps(T)
  BY <1>1 DEF Steps
<1> HIDE DEF T, step
<1>3. s \in T
  BY DEF T
<1>4. PICK f : Follows(f, T, s, step)
  BY <1>2, <1>3, Recursion, Zenon
<1>5. \A d \in Nat : f[d + 1] = f[d] \cup Neighbours(f[d])
  <2> SUFFICES ASSUME NEW d \in Nat PROVE f[d + 1] = f[d] \cup Neighbours(f[d])
    OBVIOUS
  <2>1. d + 1 \in Nat /\ f[d] \in T /\ f[d + 1] = step[d + 1][f[d]]
    BY <1>4 DEF Follows
  <2> QED BY <2>1 DEF step
<1>6. f = Level(f)
  <2>1. ASSUME NEW d \in Nat PROVE f[d] = IF d = 0 THEN s ELSE f[d - 1] \cup Neighbours(f[d - 1])
    <3>1. CASE d = 0
      BY <3>1, <1>4 DEF Follows
    <3>2. CASE d # 0
      <4>1. d - 1 \in Nat /\ d = (d - 1) + 1
        BY <3>2
      <4> QED BY <1>5, <4>1, <3>2
    <3> QED BY <3>1, <3>2
  <2> QED BY <2>1, <1>4 DEF Follows
<1>7. Within(s) = Level(Within(s))
  BY <1>6, Zenon DEF Within
<1> DEFINE W == Within(s)
<1> HIDE DEF W
<1>8. \A d \in Nat : W[d] = IF d = 0 THEN s ELSE W[d - 1] \cup Neighbours(W[d - 1])
  BY <1>7, Zenon DEF W
<1>9. W[0] = s /\ \A d \in Nat : W[d + 1] = W[d] \cup Neighbours(W[d])
  <2>1. ASSUME NEW d \in Nat PROVE W[d + 1] = W[d] \cup Neighbours(W[d])
    <3>1. d + 1 \in Nat /\ d + 1 # 0 /\ (d + 1) - 1 = d
      OBVIOUS
    <3>2. W[d + 1] = W[(d + 1) - 1] \cup Neighbours(W[(d + 1) - 1])
      BY <1>8, <3>1, Zenon
    <3> QED BY <3>1, <3>2, Zenon
  <2> QED BY <1>8, <2>1, Zenon
<1>10. W \in [Nat -> SUBSET Chunk]
  <2> DEFINE S == {d \in Nat : W[d] \in SUBSET Chunk}
  <2>1. 0 \in S
    BY <1>9
  <2>2. ASSUME NEW d \in Nat, d \in S PROVE d + 1 \in S
    BY <2>2, <1>9, NeighboursTyped
  <2> HIDE DEF S
  <2>3. Nat \subseteq S
    BY <2>1, <2>2, Induction, Zenon
  <2>4. W = [d \in Nat |-> W[d]]
    BY <1>7, Zenon DEF W
  <2> QED BY <2>3, <2>4 DEF S
<1> QED BY <1>9, <1>10 DEF W

(* Wherever edges lead from a chunk of s within the depth limit is met. *)
LEMMA LedToIsMet ==
  ASSUME NEW s \in SUBSET Chunk, NEW c \in s
  PROVE  LedTo(c) \subseteq Within(s)[MaxDepth]
<1> DEFINE W == Within(s)
<1> HIDE DEF W
<1>0. W \in [Nat -> SUBSET Chunk] /\ W[0] = s /\ \A d \in Nat : W[d + 1] = W[d] \cup Neighbours(W[d])
  BY WithinDefined DEF W
<1> SUFFICES ASSUME NEW x \in LedTo(c) PROVE x \in W[MaxDepth]
  BY DEF W
<1>1. PICK path \in [0 .. MaxDepth -> Chunk] :
        /\ path[0] = c /\ path[MaxDepth] = x
        /\ \A i \in 1 .. MaxDepth : path[i] = path[i - 1] \/ <<path[i - 1], path[i]>> \in StaleEdges
  BY DEF LedTo
<1> DEFINE S == {i \in Nat : i <= MaxDepth => path[i] \in W[i]}
<1>2. 0 \in S
  BY <1>0, <1>1
<1>3. ASSUME NEW i \in Nat, i \in S PROVE i + 1 \in S
  <2> SUFFICES ASSUME i + 1 <= MaxDepth PROVE path[i + 1] \in W[i + 1]
    OBVIOUS
  <2>1. i + 1 \in 1 .. MaxDepth /\ (i + 1) - 1 = i /\ path[i] \in W[i]
    BY <1>3, InvalidationBounds
  <2>2. path[i + 1] = path[i] \/ <<path[i], path[i + 1]>> \in StaleEdges
    BY <1>1, <2>1
  <2>3. <<path[i], path[i + 1]>> \in StaleEdges => path[i + 1] \in Neighbours(W[i])
    BY <2>1 DEF Neighbours
  <2> QED BY <1>0, <2>1, <2>2, <2>3
<1> HIDE DEF S
<1>4. Nat \subseteq S
  BY <1>2, <1>3, Induction, Zenon
<1> QED BY <1>1, <1>4, InvalidationBounds DEF S

(* Events name chunks; a staled event names stale ones, and so does the     *)
(* pending set they are folded into.                                        *)
KnowledgeEvent == [kind : {"revision", "staled"}, ids : SUBSET Chunk]
StaleIds ==
  /\ stale \subseteq Chunk /\ revision \subseteq Chunk /\ pending \subseteq stale
  /\ bus \in Seq(KnowledgeEvent)
  /\ \A i \in 1 .. Len(bus) : bus[i].kind = "staled" => bus[i].ids \subseteq stale

(* A channel whose staled events name stale ids, and one more such event. *)
LEMMA AppendKeepsIds ==
  ASSUME NEW q \in Seq(KnowledgeEvent), NEW e \in KnowledgeEvent, NEW s,
         \A i \in 1 .. Len(q) : q[i].kind = "staled" => q[i].ids \subseteq s,
         e.kind = "staled" => e.ids \subseteq s
  PROVE  /\ Append(q, e) \in Seq(KnowledgeEvent)
         /\ \A i \in 1 .. Len(Append(q, e)) :
              Append(q, e)[i].kind = "staled" => Append(q, e)[i].ids \subseteq s
OBVIOUS

(* What the flush holds: once it has propagated, all that edges lead to     *)
(* from the ids in its hand is stale.                                       *)
HandOK ==
  /\ hand \subseteq Chunk /\ found \subseteq Chunk
  /\ pass = "emitting" => found \subseteq stale
  /\ pass \in {"propagating", "surfacing", "clearing"} => hand \subseteq stale
HandReached ==
  pass \in {"surfacing", "clearing"} => \A c \in hand : LedTo(c) \subseteq stale

PropInv == StaleIds /\ HandOK /\ HandReached /\ PropagationComplete

(* The search meets only chunks, level by level. *)
LEMMA WithinTyped ==
  ASSUME NEW s \in SUBSET Chunk, NEW d \in Nat
  PROVE  Within(s)[d] \in SUBSET Chunk
<1> DEFINE W == Within(s)
<1> HIDE DEF W
<1>1. W \in [Nat -> SUBSET Chunk]
  BY WithinDefined DEF W
<1> QED BY <1>1 DEF W

(* What stays stale: a step that unmarks nothing and ends no flush. *)
LEMMA MarkingKeeps ==
  ASSUME PropagationComplete, stale \subseteq stale', flushed' = flushed
  PROVE  PropagationComplete'
BY DEF PropagationComplete, LedTo

(* LedTo depends on no state. *)
LEMMA ReachedKept ==
  ASSUME pass' \in {"surfacing", "clearing"} => \A c \in hand' : LedTo(c) \subseteq stale'
  PROVE  HandReached'
BY DEF HandReached, LedTo

(* receiveEvent, and the publishers: the buffer and the channel. *)
LEMMA EventsKeep ==
  ASSUME PropInv,
         \/ \E paths \in Revisions : Publish(paths)
         \/ DrainFolds \/ LoopReceives
  PROVE  PropInv'
<1> USE DEF PropInv
<1>1. UNCHANGED <<stale, pass, hand, found, flushed>>
  BY Zenon DEF Publish, DrainFolds, LoopReceives
<1>2. HandOK' /\ HandReached' /\ PropagationComplete'
  <2>1. HandOK'
    BY <1>1 DEF HandOK
  <2>2. HandReached'
    BY <1>1, ReachedKept DEF HandReached
  <2>3. PropagationComplete'
    BY <1>1, MarkingKeeps
  <2> QED BY <2>1, <2>2, <2>3, Zenon
<1>3. StaleIds'
  <2>1. CASE \E paths \in Revisions : Publish(paths)
    <3>1. PICK paths \in Revisions : Publish(paths)
      BY <2>1, Zenon
    <3>2. RevisionEvent(paths) \in KnowledgeEvent /\ RevisionEvent(paths).kind # "staled"
      BY InvalidationBounds DEF RevisionEvent, KnowledgeEvent
    <3>3. /\ UNCHANGED <<stale, revision, pending>>
          /\ bus' = Append(bus, RevisionEvent(paths)) \/ bus' = bus
      BY <3>1, Zenon DEF Publish
    <3> QED BY <3>2, <3>3, AppendKeepsIds DEF StaleIds
  <2>2. CASE DrainFolds \/ LoopReceives
    <3>1. bus # <<>> /\ bus' = Tail(bus) /\ Fold(Head(bus))
      BY <2>2, Zenon DEF DrainFolds, LoopReceives
    <3>2. Head(bus) \in KnowledgeEvent /\ (Head(bus).kind = "staled" => Head(bus).ids \subseteq stale)
      BY <3>1 DEF StaleIds
    <3>3. revision' \subseteq Chunk /\ pending' \subseteq stale
      BY <3>1, <3>2 DEF StaleIds, Fold, KnowledgeEvent
    <3> QED BY <1>1, <3>1, <3>3 DEF StaleIds
  <2> QED BY <2>1, <2>2
<1> QED BY <1>2, <1>3, Zenon

(* The steps of the loop and of flush that mark nothing. *)
LEMMA QuietStepsKeep ==
  ASSUME PropInv,
         \/ DrainSignals \/ LoopKicked \/ LoopStops
         \/ FlushTakesRevision \/ RestoreRevision \/ EmitStaled
         \/ FlushTakesPending \/ Surfaces \/ SurfaceFails
  PROVE  PropInv'
<1> USE DEF PropInv
<1>1. UNCHANGED <<stale, flushed>>
  BY Zenon DEF DrainSignals, LoopKicked, LoopStops, FlushTakesRevision, RestoreRevision, EmitStaled,
               FlushTakesPending, Surfaces, SurfaceFails
<1>2. PropagationComplete'
  BY <1>1, MarkingKeeps
<1>6. HandReached'
  <2>1. \/ pass' \notin {"surfacing", "clearing"}
        \/ pass \in {"surfacing", "clearing"} /\ hand' = hand
    <3>1. CASE DrainSignals \/ LoopKicked \/ LoopStops
      BY <3>1 DEF DrainSignals, LoopKicked, LoopStops
    <3>2. CASE FlushTakesRevision \/ RestoreRevision \/ EmitStaled
      BY <3>2 DEF FlushTakesRevision, RestoreRevision, EmitStaled
    <3>3. CASE FlushTakesPending \/ Surfaces \/ SurfaceFails
      <4>1. \/ pass' \in {"select", "propagating"}
            \/ pass = "surfacing" /\ hand' = hand
        BY <3>3, Zenon DEF FlushTakesPending, Surfaces, SurfaceFails, Fails
      <4> QED BY <4>1
    <3> QED BY <3>1, <3>2, <3>3, Zenon
  <2> QED BY <1>1, <2>1, ReachedKept DEF HandReached
<1>3. CASE DrainSignals \/ LoopKicked \/ LoopStops \/ FlushTakesPending \/ Surfaces
  <2>1. StaleIds'
    <3>1. UNCHANGED <<stale, revision, pending, bus>>
      BY <1>3, Zenon DEF DrainSignals, LoopKicked, LoopStops, FlushTakesPending, Surfaces
    <3> QED BY <3>1 DEF StaleIds
  <2>2. CASE FlushTakesPending
    <3>1. HandOK'
      BY <2>2, <1>1 DEF FlushTakesPending, HandOK, StaleIds
    <3> QED BY <1>2, <1>6, <2>1, <3>1, Zenon
  <2>3. CASE DrainSignals \/ LoopKicked \/ LoopStops \/ Surfaces
    <3>1. UNCHANGED <<stale, hand, found>>
      BY <2>3, Zenon DEF DrainSignals, LoopKicked, LoopStops, Surfaces
    <3>2. pass' = pass \/ pass' = "gone" \/ (pass = "surfacing" /\ pass' = "clearing")
      BY <2>3, Zenon DEF DrainSignals, LoopKicked, LoopStops, Surfaces
    <3>3. HandOK'
      BY <3>1, <3>2 DEF HandOK
    <3> QED BY <1>2, <1>6, <2>1, <3>3, Zenon
  <2> QED BY <1>2, <1>6, <1>3, <2>1, <2>2, <2>3, Zenon
<1>4. CASE FlushTakesRevision \/ RestoreRevision \/ SurfaceFails
  <2>1. pass' \notin {"emitting", "propagating", "surfacing", "clearing"}
    BY <1>4 DEF FlushTakesRevision, RestoreRevision, SurfaceFails, Fails
  <2>2. /\ bus' = bus /\ pending' = pending
        /\ hand' \in {hand, revision, {}} /\ revision' \in {hand, revision, {}}
        /\ found' \in {found, {}}
    BY <1>4 DEF FlushTakesRevision, RestoreRevision, SurfaceFails, Fails
  <2>3. HandOK'
    BY <2>1, <2>2 DEF HandOK, StaleIds
  <2>4. StaleIds'
    BY <1>1, <2>2 DEF HandOK, StaleIds
  <2> QED BY <1>2, <1>6, <2>3, <2>4, Zenon
<1>5. CASE EmitStaled
  <2>1. /\ UNCHANGED <<stale, revision, pending, hand>> /\ found' = {} /\ pass' = "taking"
        /\ bus' = Append(bus, StaledEvent(found)) \/ bus' = bus
        /\ found \subseteq stale
    BY <1>5 DEF EmitStaled, HandOK
  <2>2. HandOK'
    BY <2>1 DEF HandOK
  <2>3. StaleIds'
    <3>1. StaledEvent(found) \in KnowledgeEvent /\ StaledEvent(found).ids \subseteq stale
      BY <2>1 DEF StaledEvent, HandOK, KnowledgeEvent
    <3> QED BY <2>1, <3>1, AppendKeepsIds DEF StaleIds
  <2> QED BY <1>2, <1>6, <2>2, <2>3, Zenon
<1> QED BY <1>3, <1>4, <1>5, Zenon

(* The steps of flush that mark chunks, and the one that ends it. *)
LEMMA MarksKeep ==
  ASSUME PropInv,
         \/ HandleSucceeds \/ HandleFails \/ Propagates \/ PropagateFails \/ FlushClears
  PROVE  PropInv'
<1> USE DEF PropInv
<1>0. \A d \in Nat : Within(hand)[d] \in SUBSET Chunk
  BY WithinTyped DEF HandOK
<1>1. stale \subseteq stale' /\ stale' \subseteq Chunk
  <2>1. CASE HandleSucceeds \/ HandleFails \/ FlushClears
    <3>1. stale' = stale \/ \E part : part \subseteq hand /\ stale' = stale \cup part
      BY <2>1, Zenon DEF HandleSucceeds, HandleFails, FlushClears
    <3> QED BY <3>1 DEF StaleIds, HandOK
  <2>2. CASE Propagates
    BY <2>2, <1>0, InvalidationBounds DEF Propagates, StaleIds
  <2>3. CASE PropagateFails
    <3>1. PICK d \in 1 .. MaxDepth : \E part \in SUBSET (Within(hand)[d] \ Within(hand)[d - 1]) :
            stale' = stale \cup ((Within(hand)[d - 1] \cup part) \ hand)
      BY <2>3, Zenon DEF PropagateFails
    <3>2. d \in Nat /\ d - 1 \in Nat
      BY InvalidationBounds
    <3> QED BY <3>1, <3>2, <1>0 DEF StaleIds
  <2> QED BY <2>1, <2>2, <2>3, Zenon
<1>2. bus' = bus /\ revision' = revision /\ pending' \subseteq pending
  BY Zenon DEF HandleSucceeds, HandleFails, Propagates, PropagateFails, FlushClears
<1>3. StaleIds'
  BY <1>1, <1>2 DEF StaleIds
<1>4. CASE FlushClears
  <2>1. /\ pass = "clearing" /\ flushed' = flushed \cup hand /\ stale' = stale
        /\ hand' = {} /\ found' = {} /\ pass' = "select"
    BY <1>4, Zenon DEF FlushClears
  <2>2. \A c \in hand : LedTo(c) \subseteq stale
    BY <2>1, Zenon DEF HandReached
  <2>3. PropagationComplete'
    <3>1. \A c \in flushed \cup hand : LedTo(c) \subseteq stale
      BY <2>2 DEF PropagationComplete
    <3> QED BY <3>1, <2>1, Zenon DEF PropagationComplete, LedTo
  <2>4. HandOK'
    BY <2>1 DEF HandOK
  <2>5. HandReached'
    BY <2>1, ReachedKept
  <2> QED BY <1>3, <2>3, <2>4, <2>5, Zenon
<1>5. CASE HandleSucceeds \/ HandleFails \/ Propagates \/ PropagateFails
  <2>1. flushed' = flushed
    BY <1>5, Zenon DEF HandleSucceeds, HandleFails, Propagates, PropagateFails
  <2>2. PropagationComplete'
    BY <1>1, <2>1, MarkingKeeps
  <2>3. CASE HandleSucceeds \/ HandleFails \/ PropagateFails
    <3>1. /\ pass' \notin {"propagating", "surfacing", "clearing"}
          /\ hand' \in {hand, {}} /\ found' \in {found, {}, hand \ stale}
          /\ pass' = "emitting" => found' \subseteq stale'
      <4>1. CASE HandleSucceeds
        BY <4>1 DEF HandleSucceeds
      <4>2. CASE HandleFails
        BY <4>2 DEF HandleFails
      <4>3. CASE PropagateFails
        BY <4>3 DEF PropagateFails, Fails
      <4> QED BY <2>3, <4>1, <4>2, <4>3, Zenon
    <3>2. HandOK'
      BY <3>1 DEF HandOK
    <3>3. HandReached'
      BY <3>1, ReachedKept
    <3> QED BY <1>3, <2>2, <3>2, <3>3, Zenon
  <2>4. CASE Propagates
    <3>1. /\ pass = "propagating" /\ pass' = "surfacing" /\ hand' = hand
          /\ found' = Within(hand)[MaxDepth] \ (stale \cup hand)
          /\ stale' = stale \cup (Within(hand)[MaxDepth] \ hand)
      BY <2>4, Zenon DEF Propagates
    <3>2. Within(hand)[MaxDepth] \subseteq stale' /\ Within(hand)[MaxDepth] \in SUBSET Chunk
      BY <3>1, <1>0, InvalidationBounds DEF HandOK
    <3>3. \A c \in hand : LedTo(c) \subseteq Within(hand)[MaxDepth]
      BY LedToIsMet DEF HandOK
    <3>4. HandReached'
      BY <3>1, <3>2, <3>3, ReachedKept
    <3>5. HandOK'
      BY <3>1, <3>2 DEF HandOK
    <3> QED BY <1>3, <2>2, <3>4, <3>5, Zenon
  <2> QED BY <1>3, <1>5, <2>2, <2>3, <2>4, Zenon
<1> QED BY <1>4, <1>5, Zenon

(* flush, PropagateSync: whatever failed before, the ids a flush clears from *)
(* the buffer have all they lead to within the depth limit marked stale.     *)
THEOREM PropagationReaches == InvalidationSpec => []PropagationComplete
<1>1. InvalidationInit => PropInv
  BY DEF InvalidationInit, PropInv, StaleIds, HandOK, HandReached, PropagationComplete
<1>2. PropInv /\ [InvalidationNext]_invalidationVars => PropInv'
  <2>1. ASSUME PropInv, InvalidationNext PROVE PropInv'
    BY <2>1, EventsKeep, QuietStepsKeep, MarksKeep, Zenon DEF InvalidationNext
  <2>2. ASSUME PropInv, UNCHANGED invalidationVars PROVE PropInv'
    <3>1. UNCHANGED <<stale, bus, revision, pending, pass, hand, found, flushed>>
      BY <2>2, Zenon DEF invalidationVars
    <3>2. PropagationComplete'
      BY <2>2, <3>1, MarkingKeeps DEF PropInv
    <3>3. StaleIds' /\ HandOK'
      BY <2>2, <3>1 DEF PropInv, StaleIds, HandOK
    <3>4. HandReached'
      BY <2>2, <3>1, ReachedKept DEF PropInv, HandReached
    <3> QED BY <3>2, <3>3, <3>4, Zenon DEF PropInv
  <2> QED BY <2>1, <2>2, Zenon
<1> QED BY <1>1, <1>2, PTL DEF InvalidationSpec, PropInv

=============================================================================
