----------------------------- MODULE Grounding -----------------------------
(***************************************************************************)
(* Writers of the knowledge graph: the engine with its durable records and *)
(* its memory mirror (context/knowledge/graphdb), the chunk store over it  *)
(* (context/knowledge/store.go) and the grounding service                  *)
(* (context/knowledge/grounding.go).                                       *)
(*                                                                         *)
(* Every mutation commits first and takes the lock of the mirror only then *)
(* to apply, so the commits of two writers and their applies may come in   *)
(* different orders.  Ground re-decides its merge under that lock and      *)
(* starts over when the decision has changed; Save and Delete do not.      *)
(***************************************************************************)
EXTENDS Integers, Sequences, FiniteSets, FiniteSetsExt

CONSTANTS
  Chunks,               \* content addresses
  Grounders,            \* Ground calls; each stands for its grounding records
  Savers,               \* MarkOneSync, Tombstone and Delete calls
  Batches,              \* what a Ground call may be given: sequences of items
  SaveTargets,          \* chunks the Savers write
  MaxGroundingRecords,
  ApplyBatchRetries

Callers == Grounders \cup Savers
NoChunk == [version |-> 0]
Items == [id: Chunks, sources: SUBSET Chunks]
NoWrites == <<>>

ASSUME GroundingBounds ==
  MaxGroundingRecords \in Nat \ {0} /\ ApplyBatchRetries \in Nat
ASSUME GroundingCallers ==
  /\ Grounders \cap Savers = {}
  /\ Batches \subseteq Seq(Items)
  /\ SaveTargets \subseteq Chunks

VARIABLES
  disk,           \* the Badger records
  mirror,         \* adjacencyStore.nodes; NoChunk also for a deleted node
  call,           \* where each call is, and what it carries
  kept,           \* history: <<caller, chunk>> of every acknowledged grounding
  saved,          \* history: chunks that a Save or a Delete has written
  owed            \* history: for each Ground, the chunks of its rejected commits
                  \* that it has not applied since

groundingVars == <<disk, mirror, call, kept, saved, owed>>

Freshness == {"valid", "stale"}
NoCall == [at |-> "idle", batch |-> <<>>, writes |-> NoWrites, attempt |-> 0]

(* What a process that has just loaded its graph holds: NewGroundingService *)
(* over records that earlier runs wrote.                                    *)
GroundingInit ==
  /\ disk \in [Chunks -> {NoChunk} \cup
                 {[version |-> 1, gen |-> 1, by |-> <<>>, freshness |-> f, tombstoned |-> t] :
                     f \in Freshness, t \in BOOLEAN}]
  /\ mirror = disk
  /\ call = [p \in Callers |-> NoCall]
  /\ kept = {}
  /\ saved = {}
  /\ owed = [p \in Grounders |-> {}]

(* The records s with the writes w over them. *)
Over(s, w) == [c \in Chunks |-> IF c \in DOMAIN w THEN w[c] ELSE s[c]]

Returned == {"ok", "skipped", "failed"}

Goes(p, at) == call' = [call EXCEPT ![p].at = at]

-----------------------------------------------------------------------------
(* The merge rule, shared by Save and Ground. *)

(* A slip: a derivation of the same generation brings a chunk back. *)
PreservedOlder(gen, old) == old # NoChunk /\ old.tombstoned /\ gen < old.gen

(* applyMergeRule, mergePreserved. *)
Preserved(gen, old) == old # NoChunk /\ old.tombstoned /\ gen <= old.gen

(* applyMergeRule otherwise: the version counts up, and a tombstone is     *)
(* cleared by the newer derivation.                                        *)
Merged(new, old) ==
  IF old = NoChunk THEN [new EXCEPT !.version = IF @ = 0 THEN 1 ELSE @]
  ELSE LET bumped == [new EXCEPT !.version = IF @ <= old.version THEN old.version + 1 ELSE @]
       IN IF old.tombstoned
          THEN [bumped EXCEPT !.tombstoned = FALSE, !.freshness = "valid"]
          ELSE bumped

-----------------------------------------------------------------------------
(* GroundingService.Ground. *)

(* maxSourceGeneration + 1. *)
Generation(sources, s) ==
  1 + Max({0} \cup {s[c].gen : c \in {d \in sources : s[d] # NoChunk}})

(* capGroundingRecords, newest first.  The code makes a record for each     *)
(* item; the call stands for that of the item that stays on the chunk.      *)
GroundedBy(p, old) ==
  LET all == <<p>> \o (IF old = NoChunk THEN <<>> ELSE old.by)
  IN SubSeq(all, 1, Min({Len(all), MaxGroundingRecords}))

(* decide for one item: the merged chunk, against the records s. *)
Grounded(p, item, s) ==
  [Merged([version |-> 0, gen |-> Generation(item.sources, s), by |-> <<>>,
           freshness |-> "valid", tombstoned |-> FALSE], s[item.id])
   EXCEPT !.by = GroundedBy(p, s[item.id])]

(* decide for the batch.  Every item is decided against s, and of two      *)
(* items with one content address the later is the one that stays; the     *)
(* record of the earlier, reported as grounded too, goes with its chunk.   *)
Decide(p, batch, s) ==
  LET admitted == {i \in 1 .. Len(batch) :
                     ~Preserved(Generation(batch[i].sources, s), s[batch[i].id])}
  IN [c \in {batch[i].id : i \in admitted} |->
        Grounded(p, batch[Max({i \in admitted : batch[i].id = c})], s)]

(* Ground is called; its first decide is that of the first attempt.        *)
GroundCalled(p) ==
  /\ call[p].at = "idle"
  /\ \E b \in Batches : call' = [call EXCEPT ![p].at = "deciding", ![p].batch = b]
  /\ UNCHANGED <<disk, mirror, kept, saved, owed>>

(* The prepare of ApplyBatchChecked: fresh reads, fresh decision; an empty *)
(* batch returns at once.                                                  *)
Prepare(p) ==
  /\ call[p].at = "deciding"
  /\ LET w == Decide(p, call[p].batch, mirror)
     IN IF DOMAIN w = {}
        THEN Goes(p, "skipped")
        ELSE call' = [call EXCEPT ![p].at = "decided", ![p].writes = w]
  /\ UNCHANGED <<disk, mirror, kept, saved, owed>>

(* persist in ApplyBatchValidated. *)
GroundCommits(p) ==
  /\ p \in Grounders
  /\ call[p].at = "decided"
  /\ disk' = Over(disk, call[p].writes)
  /\ Goes(p, "committed")
  /\ UNCHANGED <<mirror, kept, saved, owed>>

(* A conflict of any kind: another attempt while the budget lasts. *)
Retry(p) ==
  call' = [call EXCEPT ![p].at = IF call[p].attempt >= ApplyBatchRetries
                                 THEN "failed" ELSE "backoff",
                       ![p].attempt = @ + 1]

(* Two transactions that overlap: badger.ErrConflict, nothing is written. *)
CommitConflicts(p) ==
  /\ p \in Grounders
  /\ call[p].at = "decided"
  /\ \E q \in Callers \ {p} :
       /\ call[q].at \in {"decided", "committed"}
       /\ DOMAIN call[p].writes \cap DOMAIN call[q].writes # {}
  /\ Retry(p)
  /\ UNCHANGED <<disk, mirror, kept, saved, owed>>

(* The wait between two attempts ends, or the caller's context is done. *)
BackoffEnds(p) ==
  /\ call[p].at = "backoff"
  /\ Goes(p, "deciding")
  /\ UNCHANGED <<disk, mirror, kept, saved, owed>>

BackoffCancelled(p) ==
  /\ call[p].at = "backoff"
  /\ Goes(p, "failed")
  /\ UNCHANGED <<disk, mirror, kept, saved, owed>>

(* A slip: the nil validator of ApplyBatch, where the checked one belongs. *)
StillHoldsAlways(p) == TRUE

(* sameGroundingDecision, under the lock of the mirror. *)
StillHolds(p) == Decide(p, call[p].batch, mirror) = call[p].writes

(* The apply section of ApplyBatchValidated: validate, then apply and      *)
(* acknowledge.                                                            *)
GroundApplies(p) ==
  /\ p \in Grounders
  /\ call[p].at = "committed"
  /\ StillHolds(p)
  /\ mirror' = Over(mirror, call[p].writes)
  /\ kept' = kept \cup ({p} \X DOMAIN call[p].writes)
  /\ owed' = [owed EXCEPT ![p] = @ \ DOMAIN call[p].writes]
  /\ Goes(p, "ok")
  /\ UNCHANGED <<disk, saved>>

(* ErrBatchConflict: the mirror is left alone, the commit has happened. *)
GroundRejected(p) ==
  /\ p \in Grounders
  /\ call[p].at = "committed"
  /\ ~StillHolds(p)
  /\ owed' = [owed EXCEPT ![p] = @ \cup DOMAIN call[p].writes]
  /\ Retry(p)
  /\ UNCHANGED <<disk, mirror, kept, saved>>

-----------------------------------------------------------------------------
(* Store.Save over a loaded copy, and Delete. *)

(* The Load of MarkOneSync (live chunks whose freshness changes) or of     *)
(* Tombstone (any chunk): the copy that will be saved.                     *)
LoadCopy(p, c) ==
  /\ call[p].at = "idle"
  /\ mirror[c] # NoChunk
  /\ \/ /\ ~mirror[c].tombstoned
        /\ mirror[c].freshness # "stale"
        /\ call' = [call EXCEPT ![p].at = "loaded",
                      ![p].writes = [d \in {c} |-> [mirror[c] EXCEPT !.freshness = "stale"]]]
     \/ call' = [call EXCEPT ![p].at = "loaded",
                   ![p].writes = [d \in {c} |-> [mirror[c] EXCEPT !.tombstoned = TRUE]]]
  /\ UNCHANGED <<disk, mirror, kept, saved, owed>>

(* Save reads the stored record again and applies the merge rule to it. *)
SaveMerges(p) ==
  /\ call[p].at = "loaded"
  /\ \E c \in DOMAIN call[p].writes :
       LET copy == call[p].writes[c]
       IN IF Preserved(copy.gen, mirror[c])
          THEN Goes(p, "skipped")
          ELSE call' = [call EXCEPT ![p].at = "decided",
                          ![p].writes = [d \in {c} |-> Merged(copy, mirror[c])]]
  /\ UNCHANGED <<disk, mirror, kept, saved, owed>>

(* Delete reads nothing. *)
DeleteCalled(p, c) ==
  /\ call[p].at = "idle"
  /\ call' = [call EXCEPT ![p].at = "decided", ![p].writes = [d \in {c} |-> NoChunk]]
  /\ UNCHANGED <<disk, mirror, kept, saved, owed>>

(* UpsertNodes, DeleteNodes: commit, then apply whatever is there now. *)
SaveCommits(p) ==
  /\ p \in Savers
  /\ call[p].at = "decided"
  /\ disk' = Over(disk, call[p].writes)
  /\ Goes(p, "committed")
  /\ UNCHANGED <<mirror, kept, saved, owed>>

SaveApplies(p) ==
  /\ p \in Savers
  /\ call[p].at = "committed"
  /\ mirror' = Over(mirror, call[p].writes)
  /\ saved' = saved \cup DOMAIN call[p].writes
  /\ Goes(p, "ok")
  /\ UNCHANGED <<disk, kept, owed>>

(* The commit of any call fails and the error goes to the caller. *)
CommitFails(p) ==
  /\ call[p].at = "decided"
  /\ Goes(p, "failed")
  /\ UNCHANGED <<disk, mirror, kept, saved, owed>>

(* The process dies with the calls it was in; the next one loads the       *)
(* records (badgerBackend.load).  The histories start again with it.       *)
Restart ==
  /\ mirror' = disk
  /\ call' = [p \in Callers |-> IF call[p].at \in Returned THEN call[p]
                                ELSE [NoCall EXCEPT !.at = "failed"]]
  /\ kept' = {}
  /\ saved' = {}
  /\ owed' = [p \in Grounders |-> {}]
  /\ UNCHANGED disk

-----------------------------------------------------------------------------
GroundStep(p) ==
  \/ Prepare(p) \/ GroundCommits(p) \/ CommitConflicts(p)
  \/ BackoffEnds(p) \/ BackoffCancelled(p)
  \/ GroundApplies(p) \/ GroundRejected(p)

GroundingNext ==
  \/ \E p \in Grounders : GroundCalled(p) \/ GroundStep(p)
  \/ \E p \in Savers, c \in SaveTargets : LoadCopy(p, c) \/ DeleteCalled(p, c)
  \/ \E p \in Savers : SaveMerges(p) \/ SaveCommits(p) \/ SaveApplies(p)
  \/ \E p \in Callers : CommitFails(p)
  \/ Restart

GroundingSpec == GroundingInit /\ [][GroundingNext]_groundingVars

-----------------------------------------------------------------------------
(* Properties. *)

(* Ground: "Concurrent identical grounds therefore serialize to one        *)
(* version bump with merged GroundedBy".  In one process, a grounding that *)
(* was acknowledged stays in the provenance of its chunk, whoever grounds  *)
(* it meanwhile, until newer records fill the list or a Save replaces it.  *)
NoLostMerge ==
  \A p \in Grounders, c \in Chunks \ saved :
     <<p, c>> \in kept =>
       /\ mirror[c] # NoChunk
       /\ \/ \E i \in DOMAIN mirror[c].by : mirror[c].by[i] = p
          \/ Len(mirror[c].by) = MaxGroundingRecords

(* What a restart may load that the mirror did not hold: a Save or Delete  *)
(* has written the chunk, whose commit and apply may have come in another  *)
(* order than those of others; a commit has not been applied; or a         *)
(* rejected commit is left.                                                *)
Unsettled(c) ==
  \/ c \in saved
  \/ \E p \in Callers : call[p].at = "committed" /\ c \in DOMAIN call[p].writes
  \/ \E p \in Grounders : c \in owed[p]

(* applyMergeRule: a newer derivation "is the only path that may clear a   *)
(* tombstone".  No step of a Ground brings a tombstoned chunk back but     *)
(* with a higher derivation generation, though it was decided before the   *)
(* chunk was tombstoned.  There are two other ways back: a Save or Delete  *)
(* applies what it merged with an older record, and a restart loads        *)
(* records that the mirror never held; one that finds the chunk settled    *)
(* keeps it tombstoned.                                                    *)
TombstoneHolds ==
  [][\A c \in Chunks :
       mirror[c] # NoChunk /\ mirror[c].tombstoned =>
         \/ /\ mirror'[c] # NoChunk
            /\ mirror'[c].tombstoned \/ mirror'[c].gen > mirror[c].gen
         \/ \E p \in Savers : SaveApplies(p) /\ c \in DOMAIN call[p].writes
         \/ Restart /\ Unsettled(c)]_groundingVars

(* ApplyBatchValidated: "the retry's re-commit supersedes this batch's log *)
(* entry".  With no call between its commit and its apply, and whatever    *)
(* was committed and rejected on the way, the records differ from the      *)
(* mirror, on chunks only Ground writes, in nothing but rejected commits   *)
(* whose call has not applied the chunk since: a restart loads what was    *)
(* acknowledged.  A retry whose decision leaves a chunk of the rejected    *)
(* commit out supersedes nothing for it.                                   *)
RetrySupersedes ==
  (\A p \in Callers : call[p].at # "committed") =>
    \A c \in Chunks \ saved :
       disk[c] = mirror[c] \/ \E p \in Grounders : c \in owed[p]

(* ApplyBatchValidated: "A ErrBatchConflict (or badger.ErrConflict)        *)
(* failure leaves both the durable log and the memory mirror untouched by  *)
(* this batch".  So with no call between its commit and its apply, the     *)
(* records are those of the mirror.                                        *)
RejectedLeavesDisk ==
  (\A p \in Callers : call[p].at # "committed") =>
    \A c \in Chunks \ saved : disk[c] = mirror[c]
=============================================================================
