--------------------------- MODULE RunCoordinator ---------------------------
(***************************************************************************)
(* The quiesce protocol of an interactive runtime                          *)
(* (app/relurpish/runtime/runcoordinator.go).  Every run registers under   *)
(* its task id before it works and deregisters when it is over; Close      *)
(* closes the intake, waits for the runs up to the drain deadline, cancels *)
(* the context they all derive from, waits up to the reap deadline,        *)
(* reports who completed, was cancelled or had to be abandoned, and only   *)
(* then takes the stores down (Runtime.Close).  Close has one caller.      *)
(*                                                                         *)
(* Runs race the closer: each locked section is one step, and what the     *)
(* closer read under the lock may be stale when it acts on it.  A run may  *)
(* ignore its cancelled context for as long as it likes.                   *)
(***************************************************************************)
EXTENDS Naturals, FiniteSets

CONSTANTS
  Calls,      \* calls of runCoordinated, each one registration identity
  TaskIDs,    \* the ids they come with
  NoRun       \* no live run holds the id

ASSUME NoRunAssumption == NoRun \notin Calls

VARIABLES
  runs,         \* task id -> the registration that holds it (c.runs)
  phase,        \* call -> "new", "working", "over" or "refused"
  taskOf,       \* call -> the id it came with
  intake,       \* "open" or "closed" (c.closed)
  parentDone,   \* the shared parent context is cancelled
  wake,         \* c.wake holds its one token
  closer,       \* where Runtime.Close stands
  seen,         \* the ids waitForFinished read last
  deadline,     \* the deadline of the current wait has passed
  initial,      \* the ids DrainAndStop listed first
  remaining,    \* what the drain wait returned
  report        \* RunDrainReport, by class

closeVars == <<intake, parentDone, closer, seen, deadline, initial, remaining, report>>
coordinatorVars == <<runs, phase, taskOf, wake, closeVars>>

Classes == {"completed", "cancelled", "abandoned"}

CloserStates == {"idle", "listing", "looking", "deciding", "asleep", "cancelling",
                 "relooking", "redeciding", "reasleep", "reported", "down"}

EmptyReport == [k \in Classes |-> {}]

CoordinatorInit ==
  /\ runs = [t \in TaskIDs |-> NoRun]
  /\ phase = [c \in Calls |-> "new"]
  /\ taskOf \in [Calls -> TaskIDs]
  /\ intake = "open"
  /\ parentDone = FALSE
  /\ wake = FALSE
  /\ closer = "idle"
  /\ seen = {}
  /\ deadline = FALSE
  /\ initial = {}
  /\ remaining = {}
  /\ report = EmptyReport

\* The ids of the live registrations.
IDs == {t \in TaskIDs : runs[t] # NoRun}

-----------------------------------------------------------------------------
(***************************************************************************)
(* The runs                                                                *)
(***************************************************************************)

\* A slip: a second run under a live id silently takes the entry over.
RegisterOverwrites(c) ==
  /\ phase[c] = "new"
  /\ IF intake = "closed"
       THEN /\ phase' = [phase EXCEPT ![c] = "refused"]
            /\ UNCHANGED runs
       ELSE /\ phase' = [phase EXCEPT ![c] = "working"]
            /\ runs' = [runs EXCEPT ![taskOf[c]] = c]
  /\ UNCHANGED <<taskOf, wake, closeVars>>

\* Register: refused once the intake is closed and while a live run holds
\* the id; runCoordinated then returns without running anything.
Register(c) ==
  /\ phase[c] = "new"
  /\ IF intake = "closed" \/ runs[taskOf[c]] # NoRun
       THEN /\ phase' = [phase EXCEPT ![c] = "refused"]
            /\ UNCHANGED runs
       ELSE /\ phase' = [phase EXCEPT ![c] = "working"]
            /\ runs' = [runs EXCEPT ![taskOf[c]] = c]
  /\ UNCHANGED <<taskOf, wake, closeVars>>

\* A slip: the finished run leaves without waking the closer.
DoneSilently(c) ==
  /\ phase[c] = "working"
  /\ phase' = [phase EXCEPT ![c] = "over"]
  /\ IF runs[taskOf[c]] = c
       THEN runs' = [runs EXCEPT ![taskOf[c]] = NoRun]
       ELSE UNCHANGED runs
  /\ UNCHANGED <<taskOf, wake, closeVars>>

\* The run returns and its deferred done() deletes the entry if it is still
\* its own, waking the closer: the send never blocks, one token is enough.
Done(c) ==
  /\ phase[c] = "working"
  /\ phase' = [phase EXCEPT ![c] = "over"]
  /\ IF runs[taskOf[c]] = c
       THEN /\ runs' = [runs EXCEPT ![taskOf[c]] = NoRun]
            /\ wake' = TRUE
       ELSE UNCHANGED <<runs, wake>>
  /\ UNCHANGED <<taskOf, closeVars>>

-----------------------------------------------------------------------------
(***************************************************************************)
(* Close                                                                   *)
(***************************************************************************)

\* DrainAndStop closes the intake under the lock, and lists the runs in a
\* second locked section: a run that leaves in between is in no class.
CloseIntake ==
  /\ closer = "idle"
  /\ intake' = "closed"
  /\ closer' = "listing"
  /\ UNCHANGED <<runs, phase, taskOf, parentDone, wake, seen, deadline, initial, remaining, report>>

ListInitial ==
  /\ closer = "listing"
  /\ initial' = IDs
  /\ closer' = "looking"
  /\ UNCHANGED <<runs, phase, taskOf, intake, parentDone, wake, seen, deadline, remaining, report>>

\* waitForFinished, in the drain and again in the reap: read the ids, then
\* see whether the deadline has passed, else sleep for a token or the timer.
Look(look, decide) ==
  /\ closer = look
  /\ seen' = IDs
  /\ closer' = decide
  /\ UNCHANGED <<runs, phase, taskOf, intake, parentDone, wake, deadline, initial, remaining, report>>

Sleep(decide, asleep) ==
  /\ closer = decide
  /\ seen # {}
  /\ ~deadline
  /\ closer' = asleep
  /\ UNCHANGED <<runs, phase, taskOf, intake, parentDone, wake, seen, deadline, initial, remaining, report>>

Wakes(asleep, look) ==
  /\ closer = asleep
  /\ \/ /\ wake
        /\ wake' = FALSE
     \/ /\ deadline
        /\ UNCHANGED wake
  /\ closer' = look
  /\ UNCHANGED <<runs, phase, taskOf, intake, parentDone, seen, deadline, initial, remaining, report>>

Waiting == {"looking", "deciding", "asleep", "relooking", "redeciding", "reasleep"}

DeadlinePasses ==
  /\ closer \in Waiting
  /\ ~deadline
  /\ deadline' = TRUE
  /\ UNCHANGED <<runs, phase, taskOf, intake, parentDone, wake, closer, seen, initial, remaining, report>>

\* Everything finished: the ids listed first have completed.
Drained ==
  /\ closer = "deciding"
  /\ seen = {}
  /\ report' = [report EXCEPT !["completed"] = initial]
  /\ closer' = "reported"
  /\ UNCHANGED <<runs, phase, taskOf, intake, parentDone, wake, seen, deadline, initial, remaining>>

\* A slip: the ids are read again for the second half of the report.
DrainExpiresRereads ==
  /\ closer = "deciding"
  /\ seen # {}
  /\ deadline
  /\ remaining' = IDs
  /\ report' = [report EXCEPT !["completed"] = initial \ seen]
  /\ closer' = "cancelling"
  /\ UNCHANGED <<runs, phase, taskOf, intake, parentDone, wake, seen, deadline, initial>>

\* The drain deadline: who was still registered at the last look remains.
DrainExpires ==
  /\ closer = "deciding"
  /\ seen # {}
  /\ deadline
  /\ remaining' = seen
  /\ report' = [report EXCEPT !["completed"] = initial \ seen]
  /\ closer' = "cancelling"
  /\ UNCHANGED <<runs, phase, taskOf, intake, parentDone, wake, seen, deadline, initial>>

CancelParent ==
  /\ closer = "cancelling"
  /\ parentDone' = TRUE
  /\ deadline' = FALSE
  /\ closer' = "relooking"
  /\ UNCHANGED <<runs, phase, taskOf, intake, wake, seen, initial, remaining, report>>

\* The reap wait returns nil or the ids that are left at its deadline.
Reaped ==
  /\ closer = "redeciding"
  /\ seen = {} \/ deadline
  /\ report' = [report EXCEPT !["cancelled"] = remaining \ seen, !["abandoned"] = seen]
  /\ closer' = "reported"
  /\ UNCHANGED <<runs, phase, taskOf, intake, parentDone, wake, seen, deadline, initial, remaining>>

\* The rest of Runtime.Close: telemetry, bridge, sink, providers, workspace
\* and the runner child go down, in this order.
Teardown ==
  /\ closer = "reported"
  /\ closer' = "down"
  /\ UNCHANGED <<runs, phase, taskOf, intake, parentDone, wake, seen, deadline, initial, remaining, report>>

CoordinatorNext ==
  \/ \E c \in Calls : Register(c) \/ Done(c)
  \/ CloseIntake \/ ListInitial \/ CancelParent \/ DeadlinePasses
  \/ Look("looking", "deciding") \/ Look("relooking", "redeciding")
  \/ Sleep("deciding", "asleep") \/ Sleep("redeciding", "reasleep")
  \/ Wakes("asleep", "looking") \/ Wakes("reasleep", "relooking")
  \/ Drained \/ DrainExpires \/ Reaped \/ Teardown

CoordinatorSpec == CoordinatorInit /\ [][CoordinatorNext]_coordinatorVars

-----------------------------------------------------------------------------
(***************************************************************************)
(* Properties                                                              *)
(***************************************************************************)

\* Types, and which call may hold an id.
CoordinatorTypeOK ==
  /\ runs \in [TaskIDs -> Calls \cup {NoRun}]
  /\ phase \in [Calls -> {"new", "working", "over", "refused"}]
  /\ taskOf \in [Calls -> TaskIDs]
  /\ intake \in {"open", "closed"}
  /\ parentDone \in BOOLEAN
  /\ wake \in BOOLEAN
  /\ closer \in CloserStates
  /\ seen \subseteq TaskIDs
  /\ deadline \in BOOLEAN
  /\ initial \subseteq TaskIDs
  /\ remaining \subseteq TaskIDs
  /\ report \in [Classes -> SUBSET TaskIDs]

\* "so teardown never races an active writer": when the stores go down, a
\* run that still works is one the report names as abandoned and whose
\* context has been cancelled, whatever runs registered, finished or ignored
\* their cancellation while Close was waiting.
SurvivorsNamed ==
  closer = "down" =>
    \A c \in Calls : phase[c] = "working" => /\ taskOf[c] \in report["abandoned"]
                                             /\ parentDone

\* RunDrainReport classifies each run Close listed, and no other, in exactly
\* one class, although the three classes are computed from lists read at
\* three different times.
ReportPartitions ==
  closer \in {"reported", "down"} =>
    /\ UNION {report[k] : k \in Classes} = initial
    /\ \A j, k \in Classes : j # k => report[j] \cap report[k] = {}

\* The closer never sleeps out its deadline after the last run has left: its
\* token waits for it, even if the run left between the look and the sleep
\* (waitForFinished, signalLocked).
NoLostWakeup ==
  closer \in {"asleep", "reasleep"} /\ IDs = {} => wake
=============================================================================
