----------------------------- MODULE Scheduler -----------------------------
(***************************************************************************)
(* The service scheduler (execution/services/scheduler.go, cron.go): a     *)
(* loop that looks at its jobs once when it is started and then once a     *)
(* minute, and runs each due job in a goroutine of its own.  Start and     *)
(* Stop are called by the service manager for its own callers, so calls    *)
(* may overlap: Start puts its loop under the wait group only after it has *)
(* released the lock, Stop lets a new Start in while it still waits.  Each *)
(* locked section is one step; a loop works on a copy of the jobs.         *)
(***************************************************************************)
EXTENDS Integers, FiniteSets

CONSTANTS
  Starts,       \* calls of Start, each the loop it may begin
  Stops,        \* calls of Stop
  Schedule,     \* job number -> [interval |-> minutes or 0, cron |-> field]
  MaxClock      \* bound on the minutes that pass

ASSUME ScheduleAssumption ==
  /\ MaxClock \in Nat
  /\ DOMAIN Schedule \subseteq Nat
  /\ \A j \in DOMAIN Schedule : Schedule[j].interval \in Nat

VARIABLES
  clock,      \* the minute
  canceller,  \* the loop s.Cancel belongs to, or NoLoop
  cancelled,  \* the loops whose context is cancelled
  loop,       \* loop -> what it is doing
  at,         \* loop -> the job it considers next
  copy,       \* loop -> the LastRun of each job, as copied
  now,        \* loop -> the time it read
  tick,       \* the loops whose ticker holds a tick
  lastRun,    \* job -> when it was last marked as begun, or Never
  running,    \* the jobs marked as in flight
  began,      \* job -> when its action last started (history)
  inFlight,   \* job -> its actions that have not returned
  wg,         \* the wait group's counter
  stop,       \* Stop call -> "new", "waiting" or "returned"
  met,        \* the Stop calls that overlapped a Start, or found one live
  crowded     \* two loops were alive at once

localVars == <<at, copy, now>>
schedulerVars == <<clock, canceller, cancelled, loop, localVars, tick, lastRun, running, began,
                   inFlight, wg, stop, met, crowded>>

NoLoop == "none"
Never == -1
JobNumbers == DOMAIN Schedule

SchedulerInit ==
  /\ clock = 0
  /\ canceller = NoLoop
  /\ cancelled = {}
  /\ loop = [l \in Starts |-> "new"]
  /\ at = [l \in Starts |-> 1]
  /\ copy = [l \in Starts |-> [j \in JobNumbers |-> Never]]
  /\ now = [l \in Starts |-> 0]
  /\ tick = {}
  /\ lastRun = [j \in JobNumbers |-> Never]
  /\ running = {}
  /\ began = [j \in JobNumbers |-> Never]
  /\ inFlight = [j \in JobNumbers |-> 0]
  /\ wg = 0
  /\ stop = [s \in Stops |-> "new"]
  /\ met = {}
  /\ crowded = FALSE

-----------------------------------------------------------------------------
(***************************************************************************)
(* What is due                                                             *)
(***************************************************************************)

\* matchCronField, on a parsed field: a wildcard, a stepped range, a range, a
\* list or one value.  The code steps from start while i <= end, so the step
\* must be positive (a step of zero never ends).
MatchCronField(field, value, lower, upper) ==
  CASE field.kind = "any"   -> TRUE
    [] field.kind = "every" -> value \in lower .. upper /\ (value - lower) % field.step = 0
    [] field.kind = "step"  -> /\ value \in field.from .. field.to
                               /\ (value - field.from) % field.step = 0
    [] field.kind = "range" -> value \in field.from .. field.to
    [] field.kind = "list"  -> value \in field.values
    [] field.kind = "none"  -> FALSE

\* shouldRun: an interval job once its interval has passed since it began, a
\* job never run at once; a cron job whenever the minute matches.
ShouldRun(j, last, t) ==
  IF Schedule[j].interval > 0
    THEN last = Never \/ last + Schedule[j].interval < t
    ELSE MatchCronField(Schedule[j].cron, t % 60, 0, 59)

-----------------------------------------------------------------------------
(***************************************************************************)
(* Start and Stop                                                          *)
(***************************************************************************)

Alive(l) == loop[l] \in {"spawning", "due", "considering", "begun", "idle"}

\* The locked half of Start: refused while a cancel function is set.
StartCalled(l) ==
  /\ loop[l] = "new"
  /\ IF canceller # NoLoop
       THEN /\ loop' = [loop EXCEPT ![l] = "refused"]
            /\ UNCHANGED <<canceller, crowded>>
       ELSE /\ loop' = [loop EXCEPT ![l] = "spawning"]
            /\ canceller' = l
            /\ crowded' = (crowded \/ \E m \in Starts : Alive(m))
  /\ met' = met \cup {s \in Stops : stop[s] = "waiting"}
  /\ UNCHANGED <<began, clock, cancelled, at, copy, now, tick, lastRun, running, inFlight, wg, stop>>

\* The rest of Start: count the loop in, and begin it.
StartSpawns(l) ==
  /\ loop[l] = "spawning"
  /\ wg' = wg + 1
  /\ loop' = [loop EXCEPT ![l] = "due"]
  /\ UNCHANGED <<began, clock, canceller, cancelled, at, copy, now, tick, lastRun, running, inFlight,
                 stop, met, crowded>>

\* Stop takes the cancel function under the lock and calls it.
StopCalled(s) ==
  /\ stop[s] = "new"
  /\ stop' = [stop EXCEPT ![s] = "waiting"]
  /\ canceller' = NoLoop
  /\ cancelled' = cancelled \cup ({canceller} \ {NoLoop})
  /\ met' = IF \E l \in Starts : loop[l] = "spawning" THEN met \cup {s} ELSE met
  /\ UNCHANGED <<began, clock, loop, at, copy, now, tick, lastRun, running, inFlight, wg, crowded>>

\* ... and returns when the wait group is empty.
StopReturns(s) ==
  /\ stop[s] = "waiting"
  /\ wg = 0
  /\ stop' = [stop EXCEPT ![s] = "returned"]
  /\ UNCHANGED <<began, clock, canceller, cancelled, loop, at, copy, now, tick, lastRun, running,
                 inFlight, wg, met, crowded>>

-----------------------------------------------------------------------------
(***************************************************************************)
(* The loop                                                                *)
(***************************************************************************)

\* runJobs copies the jobs under the lock and reads the time once.
RunJobs(l) ==
  /\ loop[l] = "due"
  /\ loop' = [loop EXCEPT ![l] = "considering"]
  /\ copy' = [copy EXCEPT ![l] = lastRun]
  /\ now' = [now EXCEPT ![l] = clock]
  /\ at' = [at EXCEPT ![l] = 1]
  /\ UNCHANGED <<began, clock, canceller, cancelled, tick, lastRun, running, inFlight, wg, stop, met,
                 crowded>>

\* A slip: a job still in flight is begun again.
ConsiderAgain(l) ==
  /\ loop[l] = "considering"
  /\ at[l] \in JobNumbers
  /\ IF ShouldRun(at[l], copy[l][at[l]], now[l])
       THEN /\ running' = running \cup {at[l]}
            /\ loop' = [loop EXCEPT ![l] = "begun"]
            /\ UNCHANGED at
       ELSE /\ at' = [at EXCEPT ![l] = @ + 1]
            /\ UNCHANGED <<running, loop>>
  /\ UNCHANGED <<began, clock, canceller, cancelled, copy, now, tick, lastRun, inFlight, wg, stop, met,
                 crowded>>

\* The next job of the copy: not due, skipped as still in flight, or begun
\* (tryBegin).
Consider(l) ==
  /\ loop[l] = "considering"
  /\ at[l] \in JobNumbers
  /\ IF ShouldRun(at[l], copy[l][at[l]], now[l]) /\ at[l] \notin running
       THEN /\ running' = running \cup {at[l]}
            /\ loop' = [loop EXCEPT ![l] = "begun"]
            /\ UNCHANGED at
       ELSE /\ at' = [at EXCEPT ![l] = @ + 1]
            /\ UNCHANGED <<running, loop>>
  /\ UNCHANGED <<began, clock, canceller, cancelled, copy, now, tick, lastRun, inFlight, wg, stop, met,
                 crowded>>

\* A slip: the action counts itself in once it runs, and so not in time.
BeginUncounted(l) ==
  /\ loop[l] = "begun"
  /\ lastRun' = [lastRun EXCEPT ![at[l]] = now[l]]
  /\ began' = [began EXCEPT ![at[l]] = now[l]]
  /\ inFlight' = [inFlight EXCEPT ![at[l]] = @ + 1]
  /\ at' = [at EXCEPT ![l] = @ + 1]
  /\ loop' = [loop EXCEPT ![l] = "considering"]
  /\ UNCHANGED <<clock, canceller, cancelled, copy, now, tick, running, wg, stop, met, crowded>>

\* A slip: only the loop's copy of the job learns that it ran.
BeginUnmarked(l) ==
  /\ loop[l] = "begun"
  /\ copy' = [copy EXCEPT ![l][at[l]] = now[l]]
  /\ began' = [began EXCEPT ![at[l]] = now[l]]
  /\ inFlight' = [inFlight EXCEPT ![at[l]] = @ + 1]
  /\ wg' = wg + 1
  /\ at' = [at EXCEPT ![l] = @ + 1]
  /\ loop' = [loop EXCEPT ![l] = "considering"]
  /\ UNCHANGED <<clock, canceller, cancelled, lastRun, now, tick, running, stop, met, crowded>>

\* markRun on the stored job, and the action starts under the wait group.
Begin(l) ==
  /\ loop[l] = "begun"
  /\ lastRun' = [lastRun EXCEPT ![at[l]] = now[l]]
  /\ began' = [began EXCEPT ![at[l]] = now[l]]
  /\ inFlight' = [inFlight EXCEPT ![at[l]] = @ + 1]
  /\ wg' = wg + 1
  /\ at' = [at EXCEPT ![l] = @ + 1]
  /\ loop' = [loop EXCEPT ![l] = "considering"]
  /\ UNCHANGED <<clock, canceller, cancelled, copy, now, tick, running, stop, met, crowded>>

\* runJobs returns; its locals are gone.
RunJobsEnds(l) ==
  /\ loop[l] = "considering"
  /\ at[l] \notin JobNumbers
  /\ loop' = [loop EXCEPT ![l] = "idle"]
  /\ at' = [at EXCEPT ![l] = 1]
  /\ copy' = [copy EXCEPT ![l] = [j \in JobNumbers |-> Never]]
  /\ now' = [now EXCEPT ![l] = 0]
  /\ UNCHANGED <<clock, canceller, cancelled, tick, lastRun, running, began, inFlight, wg, stop,
                 met, crowded>>

\* The select: a tick, or the end of the context.  When both are ready the
\* loop may still take the tick.
LoopTicks(l) ==
  /\ loop[l] = "idle"
  /\ l \in tick
  /\ tick' = tick \ {l}
  /\ loop' = [loop EXCEPT ![l] = "due"]
  /\ UNCHANGED <<began, clock, canceller, cancelled, at, copy, now, lastRun, running, inFlight, wg,
                 stop, met, crowded>>

LoopEnds(l) ==
  /\ loop[l] = "idle"
  /\ l \in cancelled
  /\ wg' = wg - 1
  /\ loop' = [loop EXCEPT ![l] = "gone"]
  /\ UNCHANGED <<began, clock, canceller, cancelled, at, copy, now, tick, lastRun, running, inFlight,
                 stop, met, crowded>>

\* An action returns: finish clears the mark, then the group is told.
ActionReturns(j) ==
  /\ inFlight[j] > 0
  /\ inFlight' = [inFlight EXCEPT ![j] = @ - 1]
  /\ running' = running \ {j}
  /\ wg' = wg - 1
  /\ UNCHANGED <<began, clock, canceller, cancelled, loop, at, copy, now, tick, lastRun, stop, met,
                 crowded>>

\* A minute passes; the tickers of the loops that run hold one tick at most.
Minute ==
  /\ clock < MaxClock
  /\ clock' = clock + 1
  /\ tick' = tick \cup {l \in Starts : Alive(l) /\ loop[l] # "spawning"}
  /\ UNCHANGED <<began, canceller, cancelled, loop, at, copy, now, lastRun, running, inFlight, wg,
                 stop, met, crowded>>

SchedulerNext ==
  \/ \E l \in Starts : \/ StartCalled(l) \/ StartSpawns(l) \/ RunJobs(l) \/ Consider(l)
                       \/ Begin(l) \/ RunJobsEnds(l) \/ LoopTicks(l) \/ LoopEnds(l)
  \/ \E s \in Stops : StopCalled(s) \/ StopReturns(s)
  \/ \E j \in JobNumbers : ActionReturns(j)
  \/ Minute

SchedulerSpec == SchedulerInit /\ [][SchedulerNext]_schedulerVars

-----------------------------------------------------------------------------
(***************************************************************************)
(* Properties                                                              *)
(***************************************************************************)

\* "an interval job runs only once its interval has elapsed since it last
\* began": successive beginnings are further apart than the interval as long
\* as one loop at a time is alive.  (Two loops, from a Start let in while a
\* Stop still waits, may run a job twice in one minute from stale copies.)
\* With one loop or two, a job still in flight is "skipped ... instead of
\* running concurrently".
IntervalKept ==
  [][\A j \in JobNumbers :
       inFlight'[j] > inFlight[j] =>
         /\ inFlight[j] = 0
         /\ ~crowded' /\ Schedule[j].interval > 0 /\ began[j] # Never
              => began'[j] > began[j] + Schedule[j].interval]_schedulerVars

\* Stop joins: when it returns, and no Start met it, the loop and every
\* action it began are over, however late the loop noticed the cancelled
\* context.  (A Start that has not yet counted its loop in is missed.)
StopJoins ==
  [][\A s \in Stops : stop[s] = "waiting" /\ stop'[s] = "returned" /\ s \notin met
       => /\ \A l \in Starts : ~Alive(l)
          /\ \A j \in JobNumbers : inFlight[j] = 0]_schedulerVars
=============================================================================
