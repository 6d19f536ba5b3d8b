-------------------------------- MODULE Spool --------------------------------
(***************************************************************************)
(* The submission edge (ayenitd/spool.go, ayenitd/spoolclient.go): the app *)
(* writes a submission as a temp file and renames it into pending/, the    *)
(* runner's watcher claims it by a rename into claimed/, creates the job   *)
(* and deletes the file.                                                   *)
(*                                                                         *)
(* The two processes share nothing but the directories.  A step is one     *)
(* file-system call or one store transaction, so a crash of either side    *)
(* may fall between any two of them.  File names carry a nanosecond stamp  *)
(* and never collide, hence one place per file.  Power loss is left out:   *)
(* what a process has renamed or committed stays.                          *)
(***************************************************************************)
EXTENDS Naturals, FiniteSets

CONSTANTS
  Files,          \* the submissions
  Correlate,      \* their correlate ids; two submissions may share one
  Content,        \* what each file holds: good or malformed
  StoreFaults,    \* may store.Create fail?
  FsFaults        \* may a file-system call fail?

NoFile == "no file"

Ids == {Correlate[f] : f \in Files}

ASSUME ContentAssumption == \A f \in Files : Content[f] \in {"good", "malformed"}
ASSUME FaultAssumption == StoreFaults \in BOOLEAN /\ FsFaults \in BOOLEAN
ASSUME NoFileAssumption == NoFile \notin Files

VARIABLES
  place,          \* where each file is
  whole,          \* files whose data has been written and synced
  answer,         \* what WriteSpoolFile has told its caller
  wpc, leg,       \* the watcher: its place in loop/drainOnce/ingest, its leg
  todo, cur,      \* the names still to visit, the file being ingested
  ctx,            \* the watcher's context: live or cancelled
  madeFrom        \* the store: the file each job was created from

clientVars == <<whole, answer>>
watcherVars == <<wpc, leg, todo, cur, ctx>>
vars == <<place, clientVars, watcherVars, madeFrom>>

Places == {"unwritten", "temp", "staleTemp", "pending", "claimed", "failed", "debris", "gone"}

(* Every variable ranges over its type. *)
TypeOK ==
  /\ place \in [Files -> Places]
  /\ whole \subseteq Files
  /\ answer \in [Files -> {"none", "writing", "published", "accepted", "refused", "unknown"}]
  /\ wpc \in {"down", "sweep", "scan", "next", "rename", "apply", "remove", "idle"}
  /\ leg \in {"pending", "claimed"}
  /\ todo \subseteq Files
  /\ cur \in Files \cup {NoFile}
  /\ ctx \in {"live", "cancelled"}
  /\ madeFrom \in [Ids -> Files \cup {NoFile}]

Init ==
  /\ place = [f \in Files |-> "unwritten"]
  /\ whole = {}
  /\ answer = [f \in Files |-> "none"]
  /\ wpc = "down"
  /\ leg = "pending"
  /\ todo = {}
  /\ cur = NoFile
  /\ ctx = "cancelled"
  /\ madeFrom = [i \in Ids |-> NoFile]

(* A temp file is stale once it was not written to for pendingDebrisAge. *)
Temps == {"temp", "staleTemp"}

Move(f, to) == place' = [place EXCEPT ![f] = to]
Answer(f, a) == answer' = [answer EXCEPT ![f] = a]

-----------------------------------------------------------------------------
(* The client: WriteSpoolFile. *)

(* A slip: the file is opened under its final name. *)
OpenFinal(f) ==
  /\ answer[f] = "none"
  /\ \/ Move(f, "pending") /\ Answer(f, "writing")
     \/ FsFaults /\ Answer(f, "refused") /\ UNCHANGED place
  /\ UNCHANGED <<whole, watcherVars, madeFrom>>

OpenTemp(f) ==
  /\ answer[f] = "none"
  /\ \/ Move(f, "temp") /\ Answer(f, "writing")
     \/ FsFaults /\ Answer(f, "refused") /\ UNCHANGED place
  /\ UNCHANGED <<whole, watcherVars, madeFrom>>

(* Give up: remove the temp file, if the boot sweep has not moved it. *)
Refuse(f) ==
  /\ IF place[f] \in Temps THEN Move(f, "gone") ELSE UNCHANGED place
  /\ Answer(f, "refused")

(* Write, fsync and close; any of them may fail. *)
WriteTemp(f) ==
  /\ answer[f] = "writing"
  /\ f \notin whole
  /\ \/ whole' = whole \cup {f} /\ UNCHANGED <<place, answer>>
     \/ FsFaults /\ Refuse(f) /\ UNCHANGED whole
  /\ UNCHANGED <<watcherVars, madeFrom>>

(* Rename into pending/; it fails when the boot sweep took the temp file.  *)
RenameTemp(f) ==
  /\ answer[f] = "writing"
  /\ f \in whole
  /\ \/ place[f] \in Temps /\ Move(f, "pending") /\ Answer(f, "published")
     \/ (place[f] \notin Temps \/ FsFaults) /\ Refuse(f)
  /\ UNCHANGED <<whole, watcherVars, madeFrom>>

(* Directory fsync (its error is ignored), then nil to the caller. *)
Accept(f) ==
  /\ answer[f] = "published"
  /\ Answer(f, "accepted")
  /\ UNCHANGED <<place, whole, watcherVars, madeFrom>>

(* The app dies inside WriteSpoolFile: its caller never hears an answer. *)
ClientDies(f) ==
  /\ answer[f] \in {"writing", "published"}
  /\ Answer(f, "unknown")
  /\ UNCHANGED <<place, whole, watcherVars, madeFrom>>

(* An hour passes without a write to the temp file, its writer dead or     *)
(* merely suspended.                                                       *)
TempAges(f) ==
  /\ place[f] = "temp"
  /\ Move(f, "staleTemp")
  /\ UNCHANGED <<clientVars, watcherVars, madeFrom>>

-----------------------------------------------------------------------------
(* The watcher: Start, loop, Stop. *)

Goto(label) == wpc' = label

(* Start and the ReadDir of sweepPendingDebris. *)
Boot ==
  /\ wpc = "down"
  /\ Goto("sweep")
  /\ ctx' = "live"
  /\ todo' = {f \in Files : place[f] \in Temps}
  /\ UNCHANGED <<place, clientVars, leg, cur, madeFrom>>

(* One name of sweepPendingDebris: an old temp file moves to failed/. *)
SweepDebris(f) ==
  /\ wpc = "sweep"
  /\ f \in todo
  /\ todo' = todo \ {f}
  /\ \/ place[f] = "staleTemp" /\ Move(f, "debris")
     \/ (place[f] # "staleTemp" \/ FsFaults) /\ UNCHANGED place
  /\ UNCHANGED <<clientVars, wpc, leg, cur, ctx, madeFrom>>

SweepDone ==
  /\ wpc = "sweep"
  /\ todo = {}
  /\ Goto("scan")
  /\ leg' = "pending"
  /\ UNCHANGED <<place, clientVars, todo, cur, ctx, madeFrom>>

Tick ==
  /\ wpc = "idle"
  /\ Goto("scan")
  /\ leg' = "pending"
  /\ UNCHANGED <<place, clientVars, todo, cur, ctx, madeFrom>>

StopWatcher ==
  /\ wpc # "down"
  /\ ctx = "live"
  /\ ctx' = "cancelled"
  /\ UNCHANGED <<place, clientVars, wpc, leg, todo, cur, madeFrom>>

Exit ==
  /\ wpc = "idle"
  /\ ctx = "cancelled"
  /\ Goto("down")
  /\ leg' = "pending"
  /\ UNCHANGED <<place, clientVars, todo, cur, ctx, madeFrom>>

RunnerDies ==
  /\ wpc # "down"
  /\ Goto("down")
  /\ leg' = "pending"
  /\ todo' = {}
  /\ cur' = NoFile
  /\ ctx' = "cancelled"
  /\ UNCHANGED <<place, clientVars, madeFrom>>

-----------------------------------------------------------------------------
(* drainOnce and ingest. *)

(* ReadDir of this leg's directory; an error ends the pass. *)
Scan ==
  /\ wpc = "scan"
  /\ \/ todo' = {f \in Files : place[f] = leg} /\ Goto("next")
     \/ FsFaults /\ todo' = {} /\ Goto("idle")
  /\ UNCHANGED <<place, clientVars, leg, cur, ctx, madeFrom>>

(* A slip: only pending/ is drained, claimed/ never. *)
LegDonePendingOnly ==
  /\ wpc = "next"
  /\ todo = {}
  /\ Goto("idle")
  /\ UNCHANGED <<place, clientVars, leg, todo, cur, ctx, madeFrom>>

(* All names visited: on to the claimed leg, or the pass is over. *)
LegDone ==
  /\ wpc = "next"
  /\ todo = {}
  /\ IF leg = "pending" THEN leg' = "claimed" /\ Goto("scan")
     ELSE Goto("idle") /\ UNCHANGED leg
  /\ UNCHANGED <<place, clientVars, todo, cur, ctx, madeFrom>>

(* The context check before each name. *)
PassCancelled ==
  /\ wpc = "next"
  /\ todo # {}
  /\ ctx = "cancelled"
  /\ todo' = {}
  /\ Goto("idle")
  /\ UNCHANGED <<place, clientVars, leg, cur, ctx, madeFrom>>

(* ReadFile; when it fails the next pass catches the file. *)
ReadNext(f) ==
  /\ wpc = "next"
  /\ ctx = "live"
  /\ f \in todo
  /\ todo' = todo \ {f}
  /\ \/ cur' = f /\ Goto(IF leg = "pending" THEN "rename" ELSE "apply")
     \/ FsFaults /\ UNCHANGED <<cur, wpc>>
  /\ UNCHANGED <<place, clientVars, leg, ctx, madeFrom>>

Done == Goto("next") /\ cur' = NoFile

ClaimFile ==
  /\ wpc = "rename"
  /\ \/ Move(cur, "claimed") /\ Goto("apply") /\ UNCHANGED cur
     \/ FsFaults /\ Done /\ UNCHANGED place
  /\ UNCHANGED <<clientVars, leg, todo, ctx, madeFrom>>

(* A slip: validation only looks at complete data, not at its content. *)
AnyIngestible(f) == f \in whole

(* Unmarshal, correlate id, Spec.Valid.  A partly written file does not    *)
(* parse; unknown fields are no obstacle to json.Unmarshal, so a file with *)
(* them is good.                                                           *)
Ingestible(f) == f \in whole /\ Content[f] = "good"

(* fail: move to failed/, the error of the rename ignored. *)
RejectFile ==
  /\ wpc = "apply"
  /\ ~Ingestible(cur)
  /\ \/ Move(cur, "failed")
     \/ FsFaults /\ UNCHANGED place
  /\ Done
  /\ UNCHANGED <<clientVars, leg, todo, ctx, madeFrom>>

(* A slip: the file is deleted before the job exists. *)
CreateAfterRemove ==
  /\ wpc = "apply"
  /\ Ingestible(cur)
  /\ Move(cur, "gone")
  /\ \/ /\ ctx = "live"
        /\ madeFrom' = [madeFrom EXCEPT ![Correlate[cur]] = IF @ = NoFile THEN cur ELSE @]
     \/ (ctx = "cancelled" \/ StoreFaults) /\ UNCHANGED madeFrom
  /\ Done
  /\ UNCHANGED <<clientVars, leg, todo, ctx>>

(* store.Create under the watcher's context: nil and ErrExists go on to    *)
(* the removal, any other error leaves the file in claimed/.               *)
CreateJob ==
  /\ wpc = "apply"
  /\ Ingestible(cur)
  /\ \/ /\ ctx = "live"
        /\ madeFrom' = [madeFrom EXCEPT ![Correlate[cur]] = IF @ = NoFile THEN cur ELSE @]
        /\ Goto("remove")
        /\ UNCHANGED cur
     \/ /\ ctx = "cancelled" \/ StoreFaults
        /\ Done
        /\ UNCHANGED madeFrom
  /\ UNCHANGED <<place, clientVars, leg, todo, ctx>>

RemoveFile ==
  /\ wpc = "remove"
  /\ \/ Move(cur, "gone")
     \/ FsFaults /\ UNCHANGED place
  /\ Done
  /\ UNCHANGED <<clientVars, leg, todo, ctx, madeFrom>>

ClientStep(f) ==
  OpenTemp(f) \/ WriteTemp(f) \/ RenameTemp(f) \/ Accept(f)

(* What the watcher's goroutine does of itself. *)
DrainStep ==
  \/ SweepDone \/ Scan \/ LegDone \/ PassCancelled
  \/ ClaimFile \/ RejectFile \/ CreateJob \/ RemoveFile \/ Tick
  \/ \E f \in Files : SweepDebris(f) \/ ReadNext(f)

Next ==
  \/ \E f \in Files : ClientStep(f) \/ ClientDies(f) \/ TempAges(f)
  \/ Boot \/ StopWatcher \/ Exit \/ RunnerDies
  \/ DrainStep

Spec == Init /\ [][Next]_vars

(* A live watcher goroutine and its ticker keep going. *)
SpoolFairness == WF_vars(DrainStep)

-----------------------------------------------------------------------------
(* Properties. *)

Ingested(f) == madeFrom[Correlate[f]] # NoFile

(* spoolclient.go: submission works whether the runner is up, starting or  *)
(* dead.  An accepted submission is in the spool, in failed/ because it is *)
(* malformed, or its correlate id has a job: no crash, fault or boot sweep *)
(* on either side loses it.                                                *)
AcceptedNeverLost ==
  \A f \in Files :
    answer[f] = "accepted" =>
      \/ place[f] \in {"pending", "claimed"}
      \/ place[f] = "failed" /\ Content[f] = "malformed"
      \/ Ingested(f)

(* When WriteSpoolFile returns an error the submission never becomes a     *)
(* job: nothing of it is left where the watcher looks.                     *)
RefusedNeverIngested ==
  \A f \in Files :
    answer[f] = "refused" =>
      /\ place[f] \in {"unwritten", "gone", "debris"}
      /\ \A i \in Ids : madeFrom[i] # f

(* A job is only made from a complete, well-formed file that was renamed   *)
(* into pending/: the atomic-rename protocol never exposes a partial file. *)
JobsFromWholeFiles ==
  \A i \in Ids :
    LET f == madeFrom[i] IN
    f # NoFile => f \in whole /\ Content[f] # "malformed" /\ Correlate[f] = i

(* WriteSpoolFile and ingest agree on what becomes a job: nothing that was *)
(* refused, and nothing that is partly written or malformed.               *)
JobsAccounted == RefusedNeverIngested /\ JobsFromWholeFiles

(* failed/ holds only malformed submissions and the debris of writers that *)
(* never published: no file a client was told is accepted is set aside     *)
(* while it is well-formed.                                                *)
FailedOnlyMalformed ==
  \A f \in Files :
    /\ place[f] = "failed" => Content[f] = "malformed"
    /\ place[f] = "debris" => answer[f] \in {"writing", "refused", "unknown"}

(* A call of the watcher that fails. *)
WatcherFault ==
  \/ Scan /\ wpc' = "idle"
  \/ \E f \in Files : ReadNext(f) /\ cur' = cur
  \/ (ClaimFile \/ RejectFile \/ RemoveFile) /\ place' = place
  \/ CreateJob /\ wpc' = "next"

(* ingest, "next pass catches it": with a watcher that stays up and faults *)
(* that come to an end, however many there were, every accepted submission *)
(* is ingested or rejected, and leaves the spool directories.              *)
SpoolDrains ==
  \A f \in Files :
    <>[](wpc # "down" /\ ctx = "live") /\ <>[][~WatcherFault]_vars =>
      (answer[f] = "accepted" ~>
         place[f] \in {"failed", "gone"} /\ (Content[f] = "malformed" \/ Ingested(f)))
=============================================================================
