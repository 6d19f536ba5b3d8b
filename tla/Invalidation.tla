--------------------------- MODULE Invalidation ---------------------------
(***************************************************************************)
(* The knowledge-invalidation pass (context/knowledge/invalidation.go,     *)
(* staleness.go, events.go).  A subscription of the knowledge event bus    *)
(* brings code revisions and staled chunks; the pass folds them into a     *)
(* debounce buffer and, when its timer fires, flushes: it marks the chunks *)
(* of a changed revision stale, propagates staleness to the chunks their   *)
(* outgoing invalidates and derives_from edges lead to, and reports.  A    *)
(* flush that fails is retried after a backoff.                            *)
(*                                                                         *)
(* Three actors meet in the buffer: the publishers, the pass's own loop    *)
(* (which also publishes, into the subscription it alone empties while it  *)
(* flushes) and Drain, which the epoch barrier calls from a run.  Each     *)
(* locked section is one step; store and reporter may fail at any call.    *)
(* A path stands for the one chunk found at it; revisions carry no number. *)
(***************************************************************************)
EXTENDS Naturals, Sequences

CONSTANTS
  Chunk,        \* chunks
  StaleEdges,   \* the invalidates and derives_from edges: <<FromChunk, ToChunk>>
  MaxDepth,     \* StalenessManager.MaxDepth
  Revisions,    \* the path sets revision events may carry
  EventBuffer,  \* invalidationEventBuffer
  MaxEvents,    \* bound on the revision events published
  MaxFailures   \* bound on the store and reporter errors

ASSUME InvalidationBounds ==
  /\ MaxDepth \in Nat \ {0} /\ EventBuffer \in Nat \ {0}
  /\ Revisions \subseteq SUBSET Chunk
  /\ StaleEdges \subseteq Chunk \X Chunk

VARIABLES
  stale,      \* the chunks marked stale in the store
  bus,        \* the subscription's channel
  published,  \* revision events published so far
  revision,   \* pendingRevision: its paths, {} for nil
  pending,    \* the pending stale set
  kick,       \* p.kick holds its token
  timer,      \* the loop's timer is armed
  pass,       \* where the loop stands
  hand,       \* the revision or the ids flush has taken
  found,      \* what BulkMarkStaleCollect or PropagateSync returned
  drain,      \* "idle", or "signalling" between the fold and the kick
  failed,     \* store and reporter errors so far
  flushed     \* ids of the flushes that ended without error (history)

invalidationVars ==
  <<stale, bus, published, revision, pending, kick, timer, pass, hand, found, drain, failed, flushed>>

InvalidationInit ==
  /\ stale = {}
  /\ bus = <<>>
  /\ published = 0
  /\ revision = {}
  /\ pending = {}
  /\ kick = FALSE
  /\ timer = FALSE
  /\ pass = "select"
  /\ hand = {}
  /\ found = {}
  /\ drain = "idle"
  /\ failed = 0
  /\ flushed = {}

\* The two kinds of event the pass listens to.
RevisionEvent(paths) == [kind |-> "revision", ids |-> paths]
StaledEvent(ids) == [kind |-> "staled", ids |-> ids]

-----------------------------------------------------------------------------
(***************************************************************************)
(* The bus                                                                 *)
(***************************************************************************)

\* A publisher's event reaches the channel, or finds it full through the
\* publish timeout and is dropped (EventBus.deliver); a loop that has gone
\* has taken its subscription back.
Publish(paths) ==
  /\ published < MaxEvents
  /\ published' = published + 1
  /\ \/ pass # "gone" /\ Len(bus) < EventBuffer /\ bus' = Append(bus, RevisionEvent(paths))
     \/ (pass = "gone" \/ Len(bus) = EventBuffer) /\ UNCHANGED bus
  /\ UNCHANGED <<stale, revision, pending, kick, timer, pass, hand, found, drain, failed, flushed>>

\* receiveEvent: fold one event into the debounce buffer.
Fold(event) ==
  IF event.kind = "revision"
    THEN revision' = revision \cup event.ids /\ UNCHANGED pending
    ELSE pending' = pending \cup event.ids /\ UNCHANGED revision

\* One round of Drain: an event already queued is folded, and then the loop
\* is told of it.
DrainFolds ==
  /\ drain = "idle"
  /\ pass # "gone"
  /\ bus # <<>>
  /\ bus' = Tail(bus)
  /\ Fold(Head(bus))
  /\ drain' = "signalling"
  /\ UNCHANGED <<stale, published, kick, timer, pass, hand, found, failed, flushed>>

\* A slip: the drain folds without a word.
DrainKeepsQuiet ==
  /\ drain = "signalling"
  /\ drain' = "idle"
  /\ UNCHANGED <<stale, bus, published, revision, pending, kick, timer, pass, hand, found,
                 failed, flushed>>

DrainSignals ==
  /\ drain = "signalling"
  /\ kick' = TRUE
  /\ drain' = "idle"
  /\ UNCHANGED <<stale, bus, published, revision, pending, timer, pass, hand, found, failed,
                 flushed>>

-----------------------------------------------------------------------------
(***************************************************************************)
(* The loop's select                                                       *)
(***************************************************************************)

\* An event arms the debounce timer.
LoopReceives ==
  /\ pass = "select"
  /\ bus # <<>>
  /\ bus' = Tail(bus)
  /\ Fold(Head(bus))
  /\ timer' = TRUE
  /\ UNCHANGED <<stale, published, kick, pass, hand, found, drain, failed, flushed>>

\* The kick arms it if there is work.
LoopKicked ==
  /\ pass = "select"
  /\ kick
  /\ kick' = FALSE
  /\ timer' = (timer \/ pending # {} \/ revision # {})
  /\ UNCHANGED <<stale, bus, published, revision, pending, pass, hand, found, drain, failed,
                 flushed>>

\* Stop: the loop leaves its select; what is pending is left.
LoopStops ==
  /\ pass = "select"
  /\ pass' = "gone"
  /\ timer' = FALSE
  /\ UNCHANGED <<stale, bus, published, revision, pending, kick, hand, found, drain, failed,
                 flushed>>

-----------------------------------------------------------------------------
(***************************************************************************)
(* flush                                                                   *)
(***************************************************************************)

\* A failed flush goes back to the select with the backoff armed.
Fails ==
  /\ failed < MaxFailures
  /\ failed' = failed + 1
  /\ pass' = "select"
  /\ timer' = TRUE
  /\ hand' = {}
  /\ found' = {}

\* The timer fires: the pending revision is taken out of the buffer.
FlushTakesRevision ==
  /\ pass = "select"
  /\ timer
  /\ timer' = FALSE
  /\ hand' = revision
  /\ revision' = {}
  /\ pass' = IF revision = {} THEN "taking" ELSE "handling"
  /\ UNCHANGED <<stale, bus, published, pending, kick, found, drain, failed, flushed>>

\* HandleRevisionChanged: the chunks at the paths that are not stale yet are
\* marked; if there were any, an event says which.
HandleSucceeds ==
  /\ pass = "handling"
  /\ found' = hand \ stale
  /\ stale' = stale \cup hand
  /\ pass' = IF hand \subseteq stale THEN "taking" ELSE "emitting"
  /\ UNCHANGED <<bus, published, revision, pending, kick, timer, hand, drain, failed, flushed>>

\* ... or an error stops it part way: what it has marked stays marked, and
\* the list of what it marked is lost (BulkMarkStaleCollect returns nil).
HandleFails ==
  /\ pass = "handling"
  /\ failed < MaxFailures
  /\ failed' = failed + 1
  /\ \E marked \in SUBSET (hand \ stale) : /\ marked # hand \ stale \/ hand \subseteq stale
                                           /\ stale' = stale \cup marked
  /\ pass' = "restoring"
  /\ UNCHANGED <<bus, published, revision, pending, kick, timer, hand, found, drain, flushed>>

\* restoreRevision puts the taken revision back, over whatever a Drain has
\* folded meanwhile.
RestoreRevision ==
  /\ pass = "restoring"
  /\ revision' = hand
  /\ hand' = {}
  /\ pass' = "select"
  /\ timer' = TRUE
  /\ UNCHANGED <<stale, bus, published, pending, kick, found, drain, failed, flushed>>

\* EmitChunkStaled, into the channel the loop itself would empty: a full one
\* can only be relieved by a Drain, else the event is dropped.
EmitStaled ==
  /\ pass = "emitting"
  /\ \/ Len(bus) < EventBuffer /\ bus' = Append(bus, StaledEvent(found))
     \/ Len(bus) = EventBuffer /\ UNCHANGED bus
  /\ found' = {}
  /\ pass' = "taking"
  /\ UNCHANGED <<stale, published, revision, pending, kick, timer, hand, drain, failed, flushed>>

\* takePending copies the stale set; with none the flush is over.
FlushTakesPending ==
  /\ pass = "taking"
  /\ hand' = pending
  /\ pass' = IF pending = {} THEN "select" ELSE "propagating"
  /\ UNCHANGED <<stale, bus, published, revision, pending, kick, timer, found, drain, failed,
                 flushed>>

\* LoadEdgesFrom: the far ends of the outgoing edges.
Neighbours(s) == {e[2] : e \in {d \in StaleEdges : d[1] \in s}}

\* A slip: the search does not go on through a chunk that is stale already.
WithinFresh(s) ==
  LET met[d \in Nat] == IF d = 0 THEN s
                        ELSE met[d - 1] \cup Neighbours(s \cup (met[d - 1] \ stale))
  IN  met

\* What a breadth-first search from s has met within d levels.
Within(s) ==
  LET met[d \in Nat] == IF d = 0 THEN s ELSE met[d - 1] \cup Neighbours(met[d - 1])
  IN  met

\* PropagateSync: everything within the depth limit becomes stale, and the
\* chunks that were not are returned.  The search goes on through chunks
\* that are stale already, so a retry finds what a failed attempt missed.
Propagates ==
  /\ pass = "propagating"
  /\ found' = Within(hand)[MaxDepth] \ (stale \cup hand)
  /\ stale' = stale \cup (Within(hand)[MaxDepth] \ hand)
  /\ pass' = "surfacing"
  /\ UNCHANGED <<bus, published, revision, pending, kick, timer, hand, drain, failed, flushed>>

\* ... or an error stops the search at some level, part of it marked.
PropagateFails ==
  /\ pass = "propagating"
  /\ Fails
  /\ \E d \in 1 .. MaxDepth :
       \E part \in SUBSET (Within(hand)[d] \ Within(hand)[d - 1]) :
         stale' = stale \cup ((Within(hand)[d - 1] \cup part) \ hand)
  /\ UNCHANGED <<bus, published, revision, pending, kick, drain, flushed>>

\* SurfaceStaleChunks, for the ids and then for what was propagated.
Surfaces ==
  /\ pass = "surfacing"
  /\ pass' = "clearing"
  /\ UNCHANGED <<stale, bus, published, revision, pending, kick, timer, hand, found, drain,
                 failed, flushed>>

SurfaceFails ==
  /\ pass = "surfacing"
  /\ Fails
  /\ UNCHANGED <<stale, bus, published, revision, pending, kick, drain, flushed>>

\* clearPending, the end of a flush that worked; the timer stays off.
FlushClears ==
  /\ pass = "clearing"
  /\ pending' = pending \ hand
  /\ flushed' = flushed \cup hand
  /\ hand' = {}
  /\ found' = {}
  /\ pass' = "select"
  /\ UNCHANGED <<stale, bus, published, revision, kick, timer, drain, failed>>

InvalidationNext ==
  \/ \E paths \in Revisions : Publish(paths)
  \/ DrainFolds \/ DrainSignals
  \/ LoopReceives \/ LoopKicked \/ LoopStops
  \/ FlushTakesRevision \/ HandleSucceeds \/ HandleFails \/ RestoreRevision \/ EmitStaled
  \/ FlushTakesPending \/ Propagates \/ PropagateFails \/ Surfaces \/ SurfaceFails \/ FlushClears

InvalidationSpec == InvalidationInit /\ [][InvalidationNext]_invalidationVars

-----------------------------------------------------------------------------
(***************************************************************************)
(* Properties                                                              *)
(***************************************************************************)

\* c, and where a path of at most MaxDepth edges leads from it.  A
\* derives_from edge leads from a capture to its sources.
LedTo(c) ==
  {x \in Chunk : \E path \in [0 .. MaxDepth -> Chunk] :
     /\ path[0] = c /\ path[MaxDepth] = x
     /\ \A i \in 1 .. MaxDepth : path[i] = path[i - 1] \/ <<path[i - 1], path[i]>> \in StaleEdges}

\* What a flush that ended without error has cleared from the buffer has
\* been propagated: every chunk that outgoing edges lead to within the depth
\* limit is stale, even if an earlier attempt failed half way and left part
\* of them marked (PropagateSync, flush).
PropagationComplete ==
  \A c \in flushed : LedTo(c) \subseteq stale

\* Work in the buffer is never forgotten: when the loop sits in its select,
\* the timer is armed or a kick is there or on its way, whoever folded the
\* work and whenever, in the middle of a flush included (run, signal).
WorkHasWakeup ==
  pass = "select" /\ (pending # {} \/ revision # {})
    => timer \/ kick \/ drain = "signalling"
=============================================================================
