-------------------------- MODULE GroundingProofs --------------------------
(***************************************************************************)
(* For every set of chunks, callers and batches, and every length of the   *)
(* provenance list: a grounding that was acknowledged is not lost to a     *)
(* concurrent one; what a rejected commit leaves in the records of the     *)
(* graph stays there only as long as nobody applies the chunk; and a       *)
(* grounding clears a tombstone only by a higher derivation generation.    *)
(***************************************************************************)
EXTENDS WellFoundedInduction, TLAPS, Grounding

USE SMTT(60), Z3T(60)

-----------------------------------------------------------------------------
(* The greatest index, and the shorter length. *)

Less == OpToRel(<, Nat)

(* The order of the naturals is well founded. *)
LEMMA LessFacts ==
  /\ IsWellFoundedOn(Less, Nat)
  /\ Less = {ss \in Nat \X Nat : ss[1] < ss[2]}
BY NatLessThanWellFounded DEF Less, OpToRel

(* decide: among the positions of a batch that hold one content address    *)
(* there is a last one.                                                    *)
LEMMA MaxIn ==
  ASSUME NEW n \in Nat, NEW S \in SUBSET (0 .. n), S # {}
  PROVE  Max(S) \in S
<1> DEFINE T == {n - x : x \in S}
<1>1. T \subseteq Nat /\ T # {}
  <2>1. PICK z \in S : TRUE
    BY Zenon
  <2>2. n - z \in T
    OBVIOUS
  <2>3. \A x \in S : n - x \in Nat
    OBVIOUS
  <2> QED BY <2>2, <2>3
<1>2. PICK x \in T : \A y \in T : ~ (<<y, x>> \in Less)
  <2> HIDE DEF T
  <2> QED BY <1>1, LessFacts, WFMin, Zenon
<1>3. \A y \in T : x <= y
  <2> HIDE DEF T
  <2>1. T \subseteq Int /\ x \in Nat
    BY <1>1
  <2>2. \A y \in T : ~ (y < x)
    <3>1. \A y \in T : y < x => <<y, x>> \in Less
      BY <1>1, LessFacts
    <3> QED BY <1>2, <3>1, Zenon
  <2> QED BY <2>1, <2>2
<1>4. PICK m \in S : x = n - m
  BY <1>2
<1>5. \A y \in S : m >= y
  <2> SUFFICES ASSUME NEW y \in S PROVE m >= y
    OBVIOUS
  <2>1. n - m <= n - y
    BY <1>3, <1>4
  <2> QED BY <2>1, <1>4
<1> QED BY <1>5, Zenon DEF Max

(* capGroundingRecords cuts at the smaller of two lengths. *)
LEMMA MinOfTwo ==
  ASSUME NEW x \in Nat, NEW y \in Nat
  PROVE  Min({x, y}) = IF x <= y THEN x ELSE y
<1> DEFINE z == IF x <= y THEN x ELSE y
<1>1. z \in {x, y} /\ \A w \in {x, y} : z <= w
  OBVIOUS
<1>2. ASSUME NEW u \in {x, y}, \A w \in {x, y} : u <= w PROVE u = z
  BY <1>2
<1> QED BY <1>1, <1>2 DEF Min

-----------------------------------------------------------------------------
(* What a Ground decides. *)

(* A stored chunk, as far as it matters here. *)
Chunked(r) ==
  /\ "by" \in DOMAIN r /\ r.by \in Seq(Grounders)
  /\ "version" \in DOMAIN r /\ r.version \in Nat
  /\ "gen" \in DOMAIN r
Stored(r) == r = NoChunk \/ Chunked(r)

Listed(p, r) ==
  \/ \E i \in DOMAIN r.by : r.by[i] = p
  \/ Len(r.by) = MaxGroundingRecords

(* A chunk is not the absence of one. *)
LEMMA ChunkedIsThere == \A r : Chunked(r) => r # NoChunk
BY DEF Chunked, NoChunk

(* GroundedBy: the new record comes first, and an older one goes only when *)
(* the list is full.                                                       *)
LEMMA GroundedByFacts ==
  ASSUME NEW p \in Grounders, NEW old, Stored(old)
  PROVE  /\ GroundedBy(p, old) \in Seq(Grounders)
         /\ 1 \in DOMAIN GroundedBy(p, old) /\ GroundedBy(p, old)[1] = p
         /\ \A q : Chunked(old) /\ Listed(q, old) =>
              \/ \E i \in DOMAIN GroundedBy(p, old) : GroundedBy(p, old)[i] = q
              \/ Len(GroundedBy(p, old)) = MaxGroundingRecords
<1> DEFINE rest == IF old = NoChunk THEN <<>> ELSE old.by
           all == <<p>> \o rest
           n == IF Len(all) <= MaxGroundingRecords THEN Len(all) ELSE MaxGroundingRecords
<1>1. rest \in Seq(Grounders)
  BY DEF Stored, Chunked
<1> HIDE DEF rest
<1>2. /\ all \in Seq(Grounders) /\ Len(all) = Len(rest) + 1 /\ all[1] = p
      /\ \A i \in 1 .. Len(rest) : all[i + 1] = rest[i]
  BY <1>1
<1>3. GroundedBy(p, old) = SubSeq(all, 1, n)
  BY <1>1, <1>2, MinOfTwo, GroundingBounds DEF GroundedBy, rest
<1>4. n \in 1 .. Len(all)
  BY <1>1, <1>2, GroundingBounds
<1> HIDE DEF all
<1>5. /\ SubSeq(all, 1, n) \in Seq(Grounders) /\ Len(SubSeq(all, 1, n)) = n
      /\ \A i \in 1 .. n : SubSeq(all, 1, n)[i] = all[i]
  BY <1>2, <1>4
<1>6. ASSUME NEW q, Chunked(old), Listed(q, old)
      PROVE  \/ \E i \in DOMAIN GroundedBy(p, old) : GroundedBy(p, old)[i] = q
             \/ Len(GroundedBy(p, old)) = MaxGroundingRecords
  <2>1. rest = old.by
    BY <1>6, ChunkedIsThere DEF rest
  <2>2. CASE Len(rest) = MaxGroundingRecords
    BY <2>2, <1>2, <1>3, <1>5, GroundingBounds
  <2>3. CASE \E i \in DOMAIN rest : rest[i] = q
    <3>1. PICK i \in 1 .. Len(rest) : rest[i] = q
      BY <2>3, <1>1
    <3>2. CASE i + 1 <= n
      <4>1. i + 1 \in 1 .. n /\ all[i + 1] = q
        BY <3>1, <3>2, <1>1, <1>2, <1>4
      <4>2. i + 1 \in DOMAIN SubSeq(all, 1, n) /\ SubSeq(all, 1, n)[i + 1] = q
        BY <4>1, <1>5
      <4> HIDE DEF n
      <4> QED BY <4>2, <1>3, Zenon
    <3>3. CASE ~ (i + 1 <= n)
      BY <3>1, <3>3, <1>1, <1>2, <1>3, <1>5, GroundingBounds
    <3> QED BY <3>2, <3>3
  <2> QED BY <1>6, <2>1, <2>2, <2>3 DEF Listed
<1> QED BY <1>2, <1>3, <1>4, <1>5, <1>6

(* Merged keeps what a chunk is, and touches neither the provenance nor    *)
(* the generation; a new chunk gets the version after that of the old one. *)
LEMMA MergedFacts ==
  ASSUME NEW new, NEW old, Chunked(new), Stored(old)
  PROVE  /\ Chunked(Merged(new, old))
         /\ Merged(new, old).by = new.by /\ Merged(new, old).gen = new.gen
         /\ new.version = 0 => Merged(new, old).version = old.version + 1
BY DEF Merged, Chunked, Stored, NoChunk

(* decide: a chunk the batch writes is one of the graph's, and its         *)
(* provenance is that of the records it was decided against, with the      *)
(* caller's in front.                                                      *)
LEMMA DecideFacts ==
  ASSUME NEW p \in Grounders, NEW batch \in Seq(Items),
         NEW s, \A c \in Chunks : Stored(s[c]),
         NEW c \in DOMAIN Decide(p, batch, s)
  PROVE  /\ c \in Chunks
         /\ Chunked(Decide(p, batch, s)[c])
         /\ Decide(p, batch, s)[c].by = GroundedBy(p, s[c])
         /\ Decide(p, batch, s)[c].version = s[c].version + 1
         /\ \E sources \in SUBSET Chunks :
              /\ Decide(p, batch, s)[c].gen = Generation(sources, s)
              /\ ~Preserved(Generation(sources, s), s[c])
<1> DEFINE admitted == {i \in 1 .. Len(batch) :
                         ~Preserved(Generation(batch[i].sources, s), s[batch[i].id])}
           those == {i \in admitted : batch[i].id = c}
           item == batch[Max(those)]
<1>1. DOMAIN Decide(p, batch, s) = {batch[i].id : i \in admitted}
  BY DEF Decide
<1>2. those # {} /\ those \in SUBSET (0 .. Len(batch)) /\ Len(batch) \in Nat
  BY <1>1
<1>3. Max(those) \in those
  <2> HIDE DEF those
  <2> QED BY <1>2, MaxIn, Zenon
<1>4. /\ item.id = c /\ c \in Chunks /\ item.sources \in SUBSET Chunks
      /\ ~Preserved(Generation(item.sources, s), s[c])
  <2>1. \A i \in 1 .. Len(batch) : batch[i] \in Items
    OBVIOUS
  <2>2. \A r \in Items : r.id \in Chunks /\ r.sources \in SUBSET Chunks
    BY DEF Items
  <2>3. /\ Max(those) \in 1 .. Len(batch) /\ item.id = c
        /\ ~Preserved(Generation(item.sources, s), s[item.id])
    BY <1>3, Zenon
  <2> QED BY <2>1, <2>2, <2>3, Zenon
<1>5. Decide(p, batch, s)[c] = Grounded(p, item, s)
  BY <1>1 DEF Decide
<1> HIDE DEF item
<1>6. /\ Chunked(Grounded(p, item, s)) /\ Grounded(p, item, s).by = GroundedBy(p, s[c])
      /\ Grounded(p, item, s).version = s[c].version + 1
      /\ Grounded(p, item, s).gen = Generation(item.sources, s)
  <2> DEFINE blank == [version |-> 0, gen |-> Generation(item.sources, s), by |-> <<>>,
                       freshness |-> "valid", tombstoned |-> FALSE]
  <2>1. Chunked(blank) /\ blank.version = 0 /\ blank.gen = Generation(item.sources, s)
    BY DEF Chunked
  <2> HIDE DEF blank
  <2>2. /\ Chunked(Merged(blank, s[c])) /\ Merged(blank, s[c]).version = s[c].version + 1
        /\ Merged(blank, s[c]).gen = blank.gen
    BY <1>4, <2>1, MergedFacts
  <2>3. Grounded(p, item, s) = [Merged(blank, s[c]) EXCEPT !.by = GroundedBy(p, s[c])]
    BY <1>4 DEF Grounded, blank
  <2>4. GroundedBy(p, s[c]) \in Seq(Grounders)
    BY <1>4, GroundedByFacts
  <2> QED BY <2>1, <2>2, <2>3, <2>4 DEF Chunked
<1> QED BY <1>4, <1>5, <1>6, Zenon

-----------------------------------------------------------------------------
(* The invariant. *)

(* A call and what it carries; a saver's copy is one of a stored chunk. *)
CallShape(r) ==
  /\ {"at", "batch", "writes", "attempt"} \subseteq DOMAIN r
  /\ r.batch \in Seq(Items)
  /\ \A c \in DOMAIN r.writes : c \in Chunks /\ Stored(r.writes[c])
  /\ r.at = "loaded" => \A c \in DOMAIN r.writes : Chunked(r.writes[c])

IInv ==
  /\ DOMAIN call = Callers
  /\ \A p \in Callers : CallShape(call[p])
  /\ \A c \in Chunks : Stored(mirror[c]) /\ Stored(disk[c])
  /\ NoLostMerge

(* What was decided has the shape of a batch's writes. *)
LEMMA DecidedShape ==
  ASSUME IInv, NEW p \in Grounders
  PROVE  \A c \in DOMAIN Decide(p, call[p].batch, mirror) :
           /\ c \in Chunks
           /\ Chunked(Decide(p, call[p].batch, mirror)[c])
           /\ Decide(p, call[p].batch, mirror)[c].by = GroundedBy(p, mirror[c])
           /\ Decide(p, call[p].batch, mirror)[c].version = mirror[c].version + 1
           /\ \E sources \in SUBSET Chunks :
                /\ Decide(p, call[p].batch, mirror)[c].gen = Generation(sources, mirror)
                /\ ~Preserved(Generation(sources, mirror), mirror[c])
<1>1. call[p].batch \in Seq(Items)
  BY DEF IInv, CallShape, Callers
<1> QED BY <1>1, DecideFacts DEF IInv

(* A call that moves on keeps what it carries. *)
LEMMA MoveKeeps ==
  ASSUME IInv, NEW p \in Callers,
         \/ \E at \in {"skipped", "committed", "deciding", "failed", "ok"} : Goes(p, at)
         \/ Retry(p)
  PROVE  DOMAIN call' = Callers /\ \A q \in Callers : CallShape(call'[q])
<1> USE DEF IInv
<1>1. CASE Retry(p)
  <2> DEFINE at == IF call[p].attempt >= ApplyBatchRetries THEN "failed" ELSE "backoff"
  <2>1. /\ DOMAIN call' = Callers
        /\ call'[p] = [call[p] EXCEPT !.at = at, !.attempt = call[p].attempt + 1]
        /\ \A q \in Callers \ {p} : call'[q] = call[q]
    BY <1>1 DEF Retry
  <2>2. at # "loaded"
    OBVIOUS
  <2> HIDE DEF at
  <2>3. CallShape(call'[p])
    BY <2>1, <2>2 DEF CallShape
  <2> QED BY <2>1, <2>3
<1>2. ASSUME NEW at \in {"skipped", "committed", "deciding", "failed", "ok"}, Goes(p, at)
      PROVE  DOMAIN call' = Callers /\ \A q \in Callers : CallShape(call'[q])
  <2>1. /\ DOMAIN call' = Callers
        /\ call'[p] = [call[p] EXCEPT !.at = at]
        /\ \A q \in Callers \ {p} : call'[q] = call[q]
    BY <1>2 DEF Goes
  <2>2. CallShape(call'[p])
    BY <2>1 DEF CallShape
  <2> QED BY <2>1, <2>2
<1> QED BY <1>1, <1>2

(* Steps that only move a Ground call. *)
LEMMA CallKeeps ==
  ASSUME IInv, NEW p \in Grounders,
         \/ GroundCalled(p) \/ Prepare(p) \/ CommitConflicts(p)
         \/ BackoffEnds(p) \/ BackoffCancelled(p) \/ GroundRejected(p)
  PROVE  IInv'
<1> USE DEF IInv
<1>1. p \in Callers
  BY DEF Callers
<1>2. mirror' = mirror /\ disk' = disk /\ kept' = kept /\ saved' = saved
  BY DEF GroundCalled, Prepare, CommitConflicts, BackoffEnds, BackoffCancelled, GroundRejected
<1>3. NoLostMerge'
  BY <1>2 DEF NoLostMerge
<1>4. DOMAIN call' = Callers /\ \A q \in Callers : CallShape(call'[q])
  <2>1. CASE GroundCalled(p)
    <3>1. PICK b \in Batches : call' = [call EXCEPT ![p].at = "deciding", ![p].batch = b]
      BY <2>1, Zenon DEF GroundCalled
    <3>2. b \in Seq(Items)
      BY GroundingCallers
    <3>3. /\ DOMAIN call' = Callers
          /\ call'[p] = [call[p] EXCEPT !.at = "deciding", !.batch = b]
          /\ \A q \in Callers \ {p} : call'[q] = call[q]
      BY <1>1, <3>1
    <3>4. CallShape(call'[p])
      BY <1>1, <3>2, <3>3 DEF CallShape
    <3> QED BY <3>3, <3>4
  <2>2. CASE Prepare(p)
    BY <1>1, <2>2, DecidedShape DEF Prepare, CallShape, Goes, Stored
  <2>3. CASE CommitConflicts(p) \/ GroundRejected(p)
    BY <1>1, <2>3, MoveKeeps DEF CommitConflicts, GroundRejected
  <2>4. CASE BackoffEnds(p) \/ BackoffCancelled(p)
    BY <1>1, <2>4, MoveKeeps DEF BackoffEnds, BackoffCancelled
  <2> QED BY <2>1, <2>2, <2>3, <2>4
<1> QED BY <1>2, <1>3, <1>4

(* Steps that only move a saver's call. *)
LEMMA SaverKeeps ==
  ASSUME IInv, NEW p \in Savers,
         \/ \E c \in SaveTargets : LoadCopy(p, c) \/ DeleteCalled(p, c)
         \/ SaveMerges(p)
  PROVE  IInv'
<1> USE DEF IInv
<1>1. p \in Callers /\ SaveTargets \subseteq Chunks
  BY GroundingCallers DEF Callers
<1>2. mirror' = mirror /\ disk' = disk /\ kept' = kept /\ saved' = saved
  BY Zenon DEF LoadCopy, DeleteCalled, SaveMerges
<1>3. NoLostMerge'
  BY <1>2 DEF NoLostMerge
<1>4. ASSUME NEW w, \A d \in DOMAIN w : d \in Chunks /\ Chunked(w[d]),
             \/ call' = [call EXCEPT ![p].at = "loaded", ![p].writes = w]
             \/ call' = [call EXCEPT ![p].at = "decided", ![p].writes = w]
      PROVE  DOMAIN call' = Callers /\ \A q \in Callers : CallShape(call'[q])
  <2>1. /\ DOMAIN call' = Callers
        /\ "at" \in DOMAIN call'[p] /\ "batch" \in DOMAIN call'[p]
        /\ "writes" \in DOMAIN call'[p] /\ "attempt" \in DOMAIN call'[p]
        /\ call'[p].batch = call[p].batch /\ call'[p].writes = w
        /\ \A q \in Callers \ {p} : call'[q] = call[q]
    BY <1>1, <1>4 DEF CallShape
  <2>2. CallShape(call'[p])
    BY <1>1, <1>4, <2>1 DEF CallShape, Stored
  <2> QED BY <2>1, <2>2
<1>5. DOMAIN call' = Callers /\ \A q \in Callers : CallShape(call'[q])
  <2>1. ASSUME NEW c \in SaveTargets, LoadCopy(p, c)
        PROVE  DOMAIN call' = Callers /\ \A q \in Callers : CallShape(call'[q])
    <3> DEFINE staled == [d \in {c} |-> [mirror[c] EXCEPT !.freshness = "stale"]]
               buried == [d \in {c} |-> [mirror[c] EXCEPT !.tombstoned = TRUE]]
    <3>1. Chunked(mirror[c])
      BY <1>1, <2>1 DEF LoadCopy, Stored
    <3>2. /\ \A d \in DOMAIN staled : d \in Chunks /\ Chunked(staled[d])
          /\ \A d \in DOMAIN buried : d \in Chunks /\ Chunked(buried[d])
      BY <1>1, <3>1 DEF Chunked
    <3>3. \/ call' = [call EXCEPT ![p].at = "loaded", ![p].writes = staled]
          \/ call' = [call EXCEPT ![p].at = "loaded", ![p].writes = buried]
      BY <2>1, Zenon DEF LoadCopy
    <3> HIDE DEF staled, buried
    <3> QED BY <3>2, <3>3, <1>4, Zenon
  <2>2. ASSUME NEW c \in SaveTargets, DeleteCalled(p, c)
        PROVE  DOMAIN call' = Callers /\ \A q \in Callers : CallShape(call'[q])
    <3> DEFINE none == [d \in {c} |-> NoChunk]
    <3>0. \A d \in DOMAIN none : d \in Chunks /\ none[d] = NoChunk
      BY <1>1
    <3>1. call' = [call EXCEPT ![p].at = "decided", ![p].writes = none]
      BY <2>2, Zenon DEF DeleteCalled
    <3> HIDE DEF none
    <3>2. /\ DOMAIN call' = Callers
          /\ call'[p] = [call[p] EXCEPT !.at = "decided", !.writes = none]
          /\ \A q \in Callers \ {p} : call'[q] = call[q]
      BY <1>1, <3>1
    <3>3. CallShape(call'[p])
      BY <1>1, <3>0, <3>2 DEF CallShape, Stored
    <3> QED BY <3>2, <3>3
  <2>3. CASE SaveMerges(p)
    <3>1. PICK c \in DOMAIN call[p].writes :
            \/ Goes(p, "skipped")
            \/ call' = [call EXCEPT ![p].at = "decided",
                          ![p].writes = [d \in {c} |-> Merged(call[p].writes[c], mirror[c])]]
      BY <2>3, Zenon DEF SaveMerges
    <3> DEFINE merged == [d \in {c} |-> Merged(call[p].writes[c], mirror[c])]
    <3>2. \A d \in DOMAIN merged : d \in Chunks /\ Chunked(merged[d])
      BY <1>1, <2>3, <3>1, MergedFacts DEF SaveMerges, CallShape
    <3>3. CASE Goes(p, "skipped")
      BY <1>1, <3>3, MoveKeeps
    <3>4. CASE call' = [call EXCEPT ![p].at = "decided", ![p].writes = merged]
      <4> HIDE DEF merged
      <4> QED BY <3>2, <3>4, <1>4, Zenon
    <3> QED BY <3>1, <3>3, <3>4
  <2> QED BY <2>1, <2>2, <2>3
<1> QED BY <1>2, <1>3, <1>5

(* A commit writes the records only. *)
LEMMA CommitKeeps ==
  ASSUME IInv, NEW p \in Callers, GroundCommits(p) \/ SaveCommits(p) \/ CommitFails(p)
  PROVE  IInv'
<1> USE DEF IInv
<1>1. DOMAIN call' = Callers /\ \A q \in Callers : CallShape(call'[q])
  BY MoveKeeps DEF GroundCommits, SaveCommits, CommitFails
<1>2. \A c \in Chunks : Stored(disk'[c])
  BY DEF GroundCommits, SaveCommits, CommitFails, Over, CallShape
<1>3. mirror' = mirror /\ NoLostMerge'
  BY DEF GroundCommits, SaveCommits, CommitFails, NoLostMerge
<1> QED BY <1>1, <1>2, <1>3

(* SaveApplies: what a saver overwrites is no longer claimed. *)
LEMMA SaveAppliesKeeps ==
  ASSUME IInv, NEW p \in Savers, SaveApplies(p)
  PROVE  IInv'
<1> USE DEF IInv
<1>0. p \in Callers
  BY DEF Callers
<1>1. DOMAIN call' = Callers /\ \A q \in Callers : CallShape(call'[q])
  BY <1>0, MoveKeeps DEF SaveApplies
<1>2. \A c \in Chunks : Stored(mirror'[c]) /\ Stored(disk'[c])
  BY <1>0 DEF SaveApplies, Over, CallShape
<1>3. \A c \in Chunks \ saved' : c \in Chunks \ saved /\ mirror'[c] = mirror[c]
  BY DEF SaveApplies, Over
<1>4. NoLostMerge'
  BY <1>3 DEF SaveApplies, NoLostMerge
<1> QED BY <1>1, <1>2, <1>4

(* GroundApplies: the decision still holds, so what is applied extends the *)
(* provenance the mirror has now.                                          *)
LEMMA GroundAppliesKeeps ==
  ASSUME IInv, NEW p \in Grounders, GroundApplies(p)
  PROVE  IInv'
<1> USE DEF IInv
<1> DEFINE w == call[p].writes
<1>0. p \in Callers
  BY DEF Callers
<1>1. DOMAIN call' = Callers /\ \A q \in Callers : CallShape(call'[q])
  BY <1>0, MoveKeeps DEF GroundApplies
<1>2. \A c \in DOMAIN w : c \in Chunks /\ Chunked(w[c]) /\ w[c].by = GroundedBy(p, mirror[c])
  BY DecidedShape DEF GroundApplies, StillHolds
<1>3. /\ mirror' = Over(mirror, w) /\ saved' = saved /\ disk' = disk
      /\ kept' = kept \cup ({p} \X DOMAIN w)
  BY DEF GroundApplies
<1> HIDE DEF w
<1>4. \A c \in Chunks : mirror'[c] = IF c \in DOMAIN w THEN w[c] ELSE mirror[c]
  BY <1>3 DEF Over
<1>5. \A c \in Chunks : Stored(mirror'[c]) /\ Stored(disk'[c])
  BY <1>2, <1>3, <1>4 DEF Stored
<1>6. ASSUME NEW q \in Grounders, NEW c \in Chunks \ saved, <<q, c>> \in kept'
      PROVE  mirror'[c] # NoChunk /\ Listed(q, mirror'[c])
  <2>1. CASE c \notin DOMAIN w
    <3>1. <<q, c>> \in kept /\ mirror'[c] = mirror[c]
      BY <1>3, <1>4, <1>6, <2>1
    <3> QED BY <3>1 DEF NoLostMerge, Listed
  <2>2. CASE c \in DOMAIN w
    <3>1. Chunked(mirror'[c]) /\ mirror'[c].by = GroundedBy(p, mirror[c]) /\ Stored(mirror[c])
      BY <1>2, <1>4, <2>2
    <3>2. CASE q = p
      BY <3>1, <3>2, GroundedByFacts, ChunkedIsThere DEF Listed
    <3>3. CASE <<q, c>> \in kept
      <4>1. Chunked(mirror[c]) /\ Listed(q, mirror[c])
        BY <3>1, <3>3 DEF NoLostMerge, Listed, Stored
      <4>2. \/ \E i \in DOMAIN GroundedBy(p, mirror[c]) : GroundedBy(p, mirror[c])[i] = q
            \/ Len(GroundedBy(p, mirror[c])) = MaxGroundingRecords
        BY <3>1, <4>1, GroundedByFacts, Zenon
      <4>3. Listed(q, mirror'[c])
        BY <3>1, <4>2, Zenon DEF Listed
      <4> QED BY <3>1, <4>3, ChunkedIsThere
    <3> QED BY <1>3, <1>6, <3>2, <3>3
  <2> QED BY <2>1, <2>2
<1>7. NoLostMerge'
  BY <1>3, <1>6 DEF NoLostMerge, Listed
<1> QED BY <1>1, <1>5, <1>7

(* The initial states, and a restart, load stored chunks. *)
LEMMA InitInv == GroundingInit => IInv
<1> SUFFICES ASSUME GroundingInit PROVE IInv
  OBVIOUS
<1>1. \A c \in Chunks : Stored(disk[c])
  <2> SUFFICES ASSUME NEW c \in Chunks, disk[c] # NoChunk PROVE Chunked(disk[c])
    BY DEF Stored
  <2>1. PICK f \in Freshness, t \in BOOLEAN :
          disk[c] = [version |-> 1, gen |-> 1, by |-> <<>>, freshness |-> f, tombstoned |-> t]
    BY DEF GroundingInit
  <2> QED BY <2>1 DEF Chunked
<1>2. CallShape(NoCall)
  BY DEF CallShape, NoCall, NoWrites
<1> QED BY <1>1, <1>2 DEF GroundingInit, IInv, NoLostMerge

(* Restart: the mirror is loaded from the log and no call is left. *)
LEMMA RestartKeeps == IInv /\ Restart => IInv'
<1> SUFFICES ASSUME IInv, Restart PROVE IInv'
  OBVIOUS
<1>1. CallShape([NoCall EXCEPT !.at = "failed"])
  BY DEF CallShape, NoCall, NoWrites
<1>2. DOMAIN call' = Callers /\ \A q \in Callers : CallShape(call'[q])
  BY <1>1 DEF Restart, IInv
<1> QED BY <1>2 DEF Restart, IInv, NoLostMerge

(* Every step keeps the shapes and every acknowledged grounding. *)
LEMMA NextInv == IInv /\ [GroundingNext]_groundingVars => IInv'
<1> SUFFICES ASSUME IInv, [GroundingNext]_groundingVars PROVE IInv'
  OBVIOUS
<1>1. CASE UNCHANGED groundingVars
  BY <1>1 DEF groundingVars, IInv, NoLostMerge
<1>2. CASE \E p \in Grounders : GroundCalled(p) \/ GroundStep(p)
  BY <1>2, CallKeeps, CommitKeeps, GroundAppliesKeeps DEF GroundStep, Callers
<1>3. CASE \E p \in Savers, c \in SaveTargets : LoadCopy(p, c) \/ DeleteCalled(p, c)
  BY <1>3, SaverKeeps
<1>4. CASE \E p \in Savers : SaveMerges(p) \/ SaveCommits(p) \/ SaveApplies(p)
  BY <1>4, SaverKeeps, CommitKeeps, SaveAppliesKeeps DEF Callers
<1>5. CASE \E p \in Callers : CommitFails(p)
  BY <1>5, CommitKeeps
<1> QED BY <1>1, <1>2, <1>3, <1>4, <1>5, RestartKeeps DEF GroundingNext

(* Ground, "Concurrent identical grounds therefore serialize to one        *)
(* version bump with merged GroundedBy": an acknowledged grounding stays   *)
(* in the provenance of its chunk until newer ones fill the list.          *)
THEOREM MergesKept == GroundingSpec => []NoLostMerge
<1>1. IInv => NoLostMerge
  BY DEF IInv
<1> QED BY <1>1, InitInv, NextInv, PTL DEF GroundingSpec



-----------------------------------------------------------------------------
(* What a rejected commit leaves behind. *)

(* No Save or Delete has written the chunk since the records were loaded. *)
Untouched(c) ==
  /\ c \notin saved
  /\ \A q \in Savers : call[q].at = "committed" => c \notin DOMAIN call[q].writes

Writing(p, c) == call[p].at \in {"decided", "committed"} /\ c \in DOMAIN call[p].writes
Pending(p, c) == call[p].at = "committed" /\ c \in DOMAIN call[p].writes

(* The record of the chunk is one that p has committed and not applied. *)
Owes(p, c) == (Pending(p, c) /\ disk[c] = call[p].writes[c]) \/ c \in owed[p]

(* Ground decides for the next version, so a chunk that another Ground has *)
(* applied since is ahead of the decision.                                 *)
NextVersion(p, c) == Writing(p, c) => call[p].writes[c].version <= mirror[c].version + 1

(* A commit that was overwritten is either outdated or somebody else owes. *)
Backed(p, c) ==
  Pending(p, c) =>
    \/ disk[c] = call[p].writes[c]
    \/ mirror[c].version >= call[p].writes[c].version
    \/ \E q \in Grounders \ {p} : Owes(q, c)

Settled(c) ==
  /\ disk[c] = mirror[c] \/ \E p \in Grounders : Owes(p, c)
  /\ \A p \in Grounders : NextVersion(p, c) /\ Backed(p, c)

OwedInv ==
  /\ DOMAIN owed = Grounders
  /\ \A c \in Chunks : Untouched(c) => Settled(c)

(* A step of one call that is not about a commit: what it decides is the   *)
(* next version, and nothing else is touched.                              *)
LEMMA DecisionKeepsOwed ==
  ASSUME OwedInv, NEW p \in Callers, UNCHANGED <<disk, mirror, saved, owed>>,
         \A q \in Callers \ {p} : call'[q] = call[q],
         call[p].at # "committed", call'[p].at # "committed",
         p \in Grounders => \A c \in Chunks : NextVersion(p, c)'
  PROVE  OwedInv'
<1> SUFFICES ASSUME NEW c \in Chunks, Untouched(c)' PROVE Settled(c)'
  BY DEF OwedInv
<1>1. Untouched(c)
  BY DEF Untouched, Callers
<1>2. Settled(c)
  BY <1>1 DEF OwedInv
<1>3. \A q \in Grounders : (Pending(q, c)' <=> Pending(q, c)) /\ (Owes(q, c)' <=> Owes(q, c))
  BY DEF Pending, Owes, Callers
<1>4. \A q \in Grounders : NextVersion(q, c)'
  BY <1>2 DEF Settled, NextVersion, Writing, Callers
<1>5. ASSUME NEW q \in Grounders PROVE Backed(q, c)'
  <2>1. CASE q = p
    BY <2>1 DEF Backed, Pending
  <2>2. CASE q # p
    BY <1>2, <1>3, <2>2 DEF Backed, Settled, Callers
  <2> QED BY <2>1, <2>2
<1> QED BY <1>2, <1>3, <1>4, <1>5 DEF Settled

(* Steps of a Ground up to its commit. *)
LEMMA GroundDecidesOwed ==
  ASSUME IInv, OwedInv, NEW p \in Grounders,
         \/ GroundCalled(p) \/ Prepare(p) \/ CommitConflicts(p)
         \/ BackoffEnds(p) \/ BackoffCancelled(p)
  PROVE  OwedInv'
<1>0. p \in Callers /\ DOMAIN call = Callers /\ CallShape(call[p])
  BY DEF IInv, Callers
<1>1. /\ UNCHANGED <<disk, mirror, saved, owed>>
      /\ \A q \in Callers \ {p} : call'[q] = call[q]
  BY <1>0 DEF GroundCalled, Prepare, CommitConflicts, BackoffEnds, BackoffCancelled, Goes, Retry
<1>2. call[p].at # "committed"
  BY DEF GroundCalled, Prepare, CommitConflicts, BackoffEnds, BackoffCancelled
<1>3. \/ call'[p].at \in {"deciding", "skipped", "backoff", "failed"}
      \/ call'[p].at = "decided" /\ call'[p].writes = Decide(p, call[p].batch, mirror)
  <2>1. CASE GroundCalled(p)
    <3>1. PICK b \in Batches : call' = [call EXCEPT ![p].at = "deciding", ![p].batch = b]
      BY <2>1, Zenon DEF GroundCalled
    <3> QED BY <1>0, <3>1 DEF CallShape
  <2>2. CASE Prepare(p)
    BY <1>0, <2>2 DEF Prepare, CallShape, Goes
  <2>3. CASE CommitConflicts(p)
    BY <1>0, <2>3 DEF CommitConflicts, CallShape, Retry
  <2>4. CASE BackoffEnds(p) \/ BackoffCancelled(p)
    BY <1>0, <2>4 DEF BackoffEnds, BackoffCancelled, CallShape, Goes
  <2> QED BY <2>1, <2>2, <2>3, <2>4
<1>4. \A c \in Chunks : NextVersion(p, c)'
  <2> SUFFICES ASSUME NEW c \in Chunks, Writing(p, c)'
               PROVE  call'[p].writes[c].version <= mirror[c].version + 1
    BY <1>1 DEF NextVersion
  <2>1. call'[p].writes[c].version = mirror[c].version + 1
    BY <1>3, DecidedShape DEF Writing
  <2>2. mirror[c].version \in Nat
    BY DEF IInv, Stored, Chunked, NoChunk
  <2> QED BY <2>1, <2>2
<1> QED BY <1>0, <1>1, <1>2, <1>3, <1>4, DecisionKeepsOwed

(* A Save or Delete up to its commit, or a failed commit, moves one call. *)
LEMMA SaverMoves ==
  ASSUME IInv, NEW p \in Callers,
         \/ \E c \in SaveTargets : LoadCopy(p, c) \/ DeleteCalled(p, c)
         \/ SaveMerges(p) \/ CommitFails(p)
  PROVE  /\ \A q \in Callers \ {p} : call'[q] = call[q]
         /\ call'[p].at \in {"loaded", "decided", "skipped", "failed"}
<1>1. \/ \E at \in {"loaded", "decided"} : \E w :
           call' = [call EXCEPT ![p].at = at, ![p].writes = w]
      \/ \E at \in {"skipped", "failed"} : call' = [call EXCEPT ![p].at = at]
  <2>1. CASE \E c \in SaveTargets : LoadCopy(p, c)
    BY <2>1, Zenon DEF LoadCopy
  <2>2. CASE \E c \in SaveTargets : DeleteCalled(p, c)
    BY <2>2, Zenon DEF DeleteCalled
  <2>3. CASE SaveMerges(p)
    BY <2>3, Zenon DEF SaveMerges, Goes
  <2>4. CASE CommitFails(p)
    BY <2>4, Zenon DEF CommitFails, Goes
  <2> QED BY <2>1, <2>2, <2>3, <2>4, Zenon
<1>2. DOMAIN call = Callers /\ CallShape(call[p])
  BY DEF IInv
<1> QED BY <1>1, <1>2 DEF CallShape

(* Steps of a Save or Delete up to its commit, and failed commits. *)
LEMMA SaverDecidesOwed ==
  ASSUME IInv, OwedInv, NEW p \in Callers,
         \/ /\ p \in Savers
            /\ \/ \E c \in SaveTargets : LoadCopy(p, c) \/ DeleteCalled(p, c)
               \/ SaveMerges(p)
         \/ CommitFails(p)
  PROVE  OwedInv'
<1>0. DOMAIN call = Callers /\ CallShape(call[p])
  BY DEF IInv
<1>1. UNCHANGED <<disk, mirror, saved, owed>> /\ call[p].at # "committed"
  <2>1. /\ UNCHANGED <<disk, mirror, saved, owed>>
        /\ call[p].at = "idle" \/ call[p].at = "loaded" \/ call[p].at = "decided"
    BY Zenon DEF LoadCopy, DeleteCalled, SaveMerges, CommitFails
  <2> QED BY <2>1
<1>2. /\ \A q \in Callers \ {p} : call'[q] = call[q]
      /\ call'[p].at \in {"loaded", "decided", "skipped", "failed"}
  BY SaverMoves, Zenon
<1>3. p \in Grounders => call'[p].at = "failed"
  BY <1>0, GroundingCallers DEF CommitFails, CallShape, Goes
<1>4. p \in Grounders => \A c \in Chunks : NextVersion(p, c)'
  BY <1>3 DEF NextVersion, Writing
<1> QED BY <1>1, <1>2, <1>4, DecisionKeepsOwed

(* A commit of a Ground: what it writes, it owes. *)
LEMMA CommitKeepsOwed ==
  ASSUME IInv, OwedInv, NEW p \in Grounders, GroundCommits(p)
  PROVE  OwedInv'
<1> DEFINE w == call[p].writes
<1>1. /\ UNCHANGED <<mirror, saved, owed>> /\ call[p].at = "decided"
      /\ \A c \in Chunks : disk'[c] = IF c \in DOMAIN w THEN w[c] ELSE disk[c]
      /\ call'[p].at = "committed" /\ call'[p].writes = w
      /\ \A q \in Callers \ {p} : call'[q] = call[q]
  BY DEF GroundCommits, Over, Goes, IInv, Callers, CallShape
<1> HIDE DEF w
<1> SUFFICES ASSUME NEW c \in Chunks, Untouched(c)' PROVE Settled(c)'
  BY <1>1 DEF OwedInv
<1>2. p \notin Savers /\ Savers \subseteq Callers /\ Grounders \subseteq Callers
  BY GroundingCallers DEF Callers
<1>3. Settled(c)
  BY <1>1, <1>2 DEF OwedInv, Untouched
<1>4. \A q \in Grounders : NextVersion(q, c)'
  <2>1. \A q \in Grounders : Writing(q, c)' => Writing(q, c) /\ call'[q].writes = call[q].writes
    BY <1>1, <1>2 DEF Writing, w
  <2> QED BY <1>1, <1>3, <2>1 DEF Settled, NextVersion
<1>5. CASE c \in DOMAIN w
  <2>1. Owes(p, c)' /\ disk'[c] = call'[p].writes[c]
    BY <1>1, <1>5 DEF Owes, Pending
  <2>2. \A q \in Grounders : Backed(q, c)'
    BY <2>1 DEF Backed
  <2> QED BY <1>4, <2>1, <2>2 DEF Settled
<1>6. CASE c \notin DOMAIN w
  <2>1. \A q \in Grounders : (Pending(q, c)' <=> Pending(q, c)) /\ (Owes(q, c)' <=> Owes(q, c))
    BY <1>1, <1>2, <1>6 DEF Pending, Owes, w
  <2>2. \A q \in Grounders : Pending(q, c) => q # p
    BY <1>1 DEF Pending
  <2>3. \A q \in Grounders : Backed(q, c)'
    BY <1>1, <1>2, <1>3, <1>6, <2>1, <2>2 DEF Backed, Settled
  <2> QED BY <1>1, <1>3, <1>4, <1>6, <2>1, <2>3 DEF Settled
<1> QED BY <1>5, <1>6

(* A rejected batch: what it had committed is owed from now on. *)
LEMMA RejectKeepsOwed ==
  ASSUME IInv, OwedInv, NEW p \in Grounders, GroundRejected(p)
  PROVE  OwedInv'
<1> DEFINE w == call[p].writes
<1>1. /\ UNCHANGED <<disk, mirror, saved>> /\ DOMAIN owed' = Grounders
      /\ owed'[p] = owed[p] \cup DOMAIN w
      /\ \A q \in Grounders \ {p} : owed'[q] = owed[q]
  BY DEF GroundRejected, OwedInv
<1>2. /\ call'[p].at \in {"failed", "backoff"}
      /\ \A q \in Callers \ {p} : call'[q] = call[q]
  BY DEF GroundRejected, Retry, IInv, Callers, CallShape
<1> HIDE DEF w
<1> SUFFICES ASSUME NEW c \in Chunks, Untouched(c)' PROVE Settled(c)'
  BY <1>1 DEF OwedInv
<1>3. p \notin Savers /\ Savers \subseteq Callers /\ Grounders \subseteq Callers
  BY GroundingCallers DEF Callers
<1>4. Settled(c)
  BY <1>1, <1>2, <1>3 DEF OwedInv, Untouched
<1>5. \A q \in Grounders : Owes(q, c) => Owes(q, c)'
  <2>1. Owes(p, c) => Owes(p, c)'
    BY <1>1 DEF Owes, Pending, w
  <2> QED BY <1>1, <1>2, <1>3, <2>1 DEF Owes, Pending
<1>6. \A q \in Grounders : NextVersion(q, c)' /\ Backed(q, c)'
  <2>1. NextVersion(p, c)' /\ Backed(p, c)'
    BY <1>2 DEF NextVersion, Backed, Writing, Pending
  <2>2. ASSUME NEW q \in Grounders \ {p} PROVE NextVersion(q, c)' /\ Backed(q, c)'
    BY <1>1, <1>2, <1>3, <1>4, <1>5 DEF Settled, NextVersion, Backed, Writing, Pending
  <2> QED BY <2>1, <2>2
<1> QED BY <1>1, <1>4, <1>5, <1>6 DEF Settled

(* An applied batch.  The decision still holds, so the mirror is not ahead *)
(* of it: the records are what is applied, or another Ground owes them.    *)
(* Any other decision about the chunk is now behind the mirror.            *)
LEMMA ApplyKeepsOwed ==
  ASSUME IInv, OwedInv, NEW p \in Grounders, GroundApplies(p)
  PROVE  OwedInv'
<1> DEFINE w == call[p].writes
<1>1. /\ UNCHANGED <<disk, saved>> /\ DOMAIN owed' = Grounders
      /\ owed'[p] = owed[p] \ DOMAIN w
      /\ \A q \in Grounders \ {p} : owed'[q] = owed[q]
      /\ \A c \in Chunks : mirror'[c] = IF c \in DOMAIN w THEN w[c] ELSE mirror[c]
  BY DEF GroundApplies, OwedInv, Over
<1>2. /\ call[p].at = "committed" /\ call'[p].at = "ok"
      /\ \A q \in Callers \ {p} : call'[q] = call[q]
  BY DEF GroundApplies, Goes, IInv, Callers, CallShape
<1>3. \A c \in DOMAIN w : w[c].version = mirror[c].version + 1
  <2>1. w = Decide(p, call[p].batch, mirror)
    BY Zenon DEF GroundApplies, StillHolds
  <2> QED BY <2>1, DecidedShape, Zenon
<1>4. \A q \in Grounders : \A c \in Chunks :
        mirror[c].version \in Nat /\ (c \in DOMAIN call[q].writes => call[q].writes[c].version \in Nat)
  <2>1. \A rec : Stored(rec) => rec.version \in Nat
    BY DEF Stored, Chunked, NoChunk
  <2> QED BY <2>1, Zenon DEF IInv, CallShape, Callers
<1> SUFFICES ASSUME NEW c \in Chunks, Untouched(c)' PROVE Settled(c)'
  BY <1>1 DEF OwedInv
<1>5. p \notin Savers /\ Savers \subseteq Callers /\ Grounders \subseteq Callers
  BY GroundingCallers DEF Callers
<1>6. Settled(c)
  BY <1>1, <1>2, <1>5 DEF OwedInv, Untouched
<1>7. NextVersion(p, c)' /\ Backed(p, c)'
  BY <1>2 DEF NextVersion, Backed, Writing, Pending
<1>8. \A q \in Grounders \ {p} :
        /\ Owes(q, c)' <=> Owes(q, c)
        /\ Pending(q, c)' <=> Pending(q, c)
        /\ Writing(q, c)' <=> Writing(q, c)
        /\ call'[q] = call[q]
  BY <1>1, <1>2, <1>5 DEF Owes, Pending, Writing
<1>9. CASE c \in DOMAIN w
  <2>1. mirror'[c] = w[c] /\ mirror'[c].version = mirror[c].version + 1
    BY <1>1, <1>3, <1>9
  <2>2. disk[c] = w[c] \/ \E q \in Grounders \ {p} : Owes(q, c)
    <3>1. Pending(p, c) /\ ~ (mirror[c].version >= w[c].version)
      BY <1>2, <1>3, <1>4, <1>9 DEF Pending
    <3> QED BY <1>6, <3>1 DEF Settled, Backed
  <2>3. disk'[c] = mirror'[c] \/ \E q \in Grounders : Owes(q, c)'
    BY <1>1, <1>8, <2>1, <2>2
  <2>4. ASSUME NEW q \in Grounders \ {p}, Writing(q, c)
        PROVE  call[q].writes[c].version <= mirror[c].version + 1
    BY <1>6, <2>4 DEF Settled, NextVersion
  <2>5. ASSUME NEW q \in Grounders \ {p} PROVE NextVersion(q, c)' /\ Backed(q, c)'
    <3>1. /\ mirror[c].version \in Nat /\ mirror'[c].version \in Nat
          /\ c \in DOMAIN call[q].writes => call[q].writes[c].version \in Nat
      BY <1>4, <2>1
    <3>2. call'[q] = call[q]
      BY <1>8
    <3>3. NextVersion(q, c)'
      <4>1. SUFFICES ASSUME Writing(q, c)' PROVE call'[q].writes[c].version <= mirror'[c].version + 1
        BY DEF NextVersion
      <4>2. c \in DOMAIN call[q].writes /\ call[q].writes[c].version <= mirror[c].version + 1
        BY <1>8, <2>4, <4>1 DEF Writing
      <4> QED BY <2>1, <3>1, <3>2, <4>2
    <3>4. Backed(q, c)'
      <4>1. SUFFICES ASSUME Pending(q, c)' PROVE mirror'[c].version >= call'[q].writes[c].version
        BY DEF Backed
      <4>2. Writing(q, c) /\ c \in DOMAIN call[q].writes
        BY <1>8, <4>1 DEF Pending, Writing
      <4>3. call[q].writes[c].version <= mirror[c].version + 1
        BY <2>4, <4>2
      <4> QED BY <2>1, <3>1, <3>2, <4>2, <4>3
    <3> QED BY <3>3, <3>4
  <2> QED BY <1>7, <2>3, <2>5 DEF Settled
<1>10. CASE c \notin DOMAIN w
  <2>1. mirror'[c] = mirror[c] /\ disk'[c] = disk[c]
    BY <1>1, <1>10
  <2>2. Owes(p, c) => Owes(p, c)'
    BY <1>1, <1>10 DEF Owes, Pending
  <2>3. ASSUME NEW q \in Grounders \ {p} PROVE NextVersion(q, c)' /\ Backed(q, c)'
    <3>1. NextVersion(q, c)'
      BY <1>6, <1>8, <2>1, Zenon DEF Settled, NextVersion
    <3>2. Backed(q, c)'
      BY <1>6, <1>8, <2>1, <2>2, Zenon DEF Settled, Backed
    <3> QED BY <3>1, <3>2, Zenon
  <2>4. disk'[c] = mirror'[c] \/ \E q \in Grounders : Owes(q, c)'
    BY <1>6, <1>8, <2>1, <2>2, Zenon DEF Settled
  <2> QED BY <1>7, <2>3, <2>4, Zenon DEF Settled
<1> QED BY <1>9, <1>10

(* A Save or Delete touches what it commits, and a restart forgets. *)
LEMMA SaverKeepsOwed ==
  ASSUME IInv, OwedInv, NEW p \in Savers, SaveCommits(p) \/ SaveApplies(p)
  PROVE  OwedInv'
<1> DEFINE w == call[p].writes
<1>1. /\ owed' = owed
      /\ \A c \in Chunks \ DOMAIN w : disk'[c] = disk[c] /\ mirror'[c] = mirror[c]
      /\ SaveCommits(p) => saved' = saved /\ call'[p].at = "committed"
      /\ SaveApplies(p) => saved' = saved \cup DOMAIN w
      /\ call'[p].writes = w
      /\ \A q \in Callers \ {p} : call'[q] = call[q]
  BY DEF SaveCommits, SaveApplies, Over, Goes, IInv, Callers, CallShape
<1> HIDE DEF w
<1> SUFFICES ASSUME NEW c \in Chunks, Untouched(c)' PROVE Settled(c)'
  BY <1>1 DEF OwedInv
<1>2. p \notin Grounders /\ Savers \subseteq Callers /\ Grounders \subseteq Callers
  BY GroundingCallers DEF Callers
<1>3. c \notin DOMAIN w /\ Untouched(c)
  BY <1>1, <1>2 DEF Untouched, w
<1>4. Settled(c) /\ disk'[c] = disk[c] /\ mirror'[c] = mirror[c]
  BY <1>1, <1>3 DEF OwedInv
<1>5. \A q \in Grounders : call'[q] = call[q]
  BY <1>1, <1>2
<1>6. \A q \in Grounders : Owes(q, c)' <=> Owes(q, c)
  BY <1>1, <1>4, <1>5, Zenon DEF Owes, Pending
<1>7. \A q \in Grounders : NextVersion(q, c)' /\ Backed(q, c)'
  BY <1>4, <1>5, <1>6, Zenon DEF Settled, NextVersion, Backed, Pending, Writing
<1> QED BY <1>4, <1>6, <1>7, Zenon DEF Settled

(* Whatever is committed, rejected and retried, the records are accounted  *)
(* for.                                                                    *)
LEMMA OwedHolds ==
  /\ GroundingInit => OwedInv
  /\ IInv /\ OwedInv /\ [GroundingNext]_groundingVars => OwedInv'
<1>1. GroundingInit => OwedInv
  BY DEF GroundingInit, OwedInv, Settled, NextVersion, Backed, Pending, Writing, NoCall, Callers
<1>2. IInv /\ OwedInv /\ [GroundingNext]_groundingVars => OwedInv'
  <2> SUFFICES ASSUME IInv, OwedInv, [GroundingNext]_groundingVars PROVE OwedInv'
    OBVIOUS
  <2>1. CASE UNCHANGED groundingVars
    <3>1. disk' = disk /\ mirror' = mirror /\ call' = call /\ saved' = saved /\ owed' = owed
      BY <2>1 DEF groundingVars
    <3>2. ASSUME NEW c \in Chunks, Untouched(c)' PROVE Settled(c)
      BY <3>1, <3>2, Zenon DEF OwedInv, Untouched
    <3>3. ASSUME NEW c \in Chunks
          PROVE  /\ \A p \in Grounders : Owes(p, c) => Owes(p, c)'
                 /\ \A p \in Grounders : NextVersion(p, c) => NextVersion(p, c)'
      BY <3>1, Zenon DEF NextVersion, Owes, Pending, Writing
    <3>4. ASSUME NEW c \in Chunks, NEW p \in Grounders, Backed(p, c) PROVE Backed(p, c)'
      BY <3>1, <3>3, <3>4, Zenon DEF Backed, Pending
    <3>5. ASSUME NEW c \in Chunks, Settled(c) PROVE Settled(c)'
      BY <3>1, <3>3, <3>4, <3>5, Zenon DEF Settled
    <3> QED BY <3>1, <3>2, <3>5, Zenon DEF OwedInv
  <2>2. CASE \E p \in Grounders : GroundCalled(p) \/ GroundStep(p)
    BY <2>2, GroundDecidesOwed, CommitKeepsOwed, RejectKeepsOwed, ApplyKeepsOwed, Zenon
       DEF GroundStep
  <2>3. CASE \/ \E p \in Savers, c \in SaveTargets : LoadCopy(p, c) \/ DeleteCalled(p, c)
             \/ \E p \in Savers : SaveMerges(p) \/ SaveCommits(p) \/ SaveApplies(p)
             \/ \E p \in Callers : CommitFails(p)
    BY <2>3, SaverDecidesOwed, SaverKeepsOwed DEF Callers
  <2>4. CASE Restart
    <3>1. \A p \in Callers : call'[p].at \notin {"decided", "committed"}
      BY <2>4 DEF Restart, Returned, NoCall
    <3>2. \A p \in Grounders, c \in Chunks : NextVersion(p, c)' /\ Backed(p, c)'
      BY <3>1 DEF NextVersion, Backed, Pending, Writing, Callers
    <3>3. \A c \in Chunks : disk'[c] = mirror'[c]
      BY <2>4 DEF Restart
    <3>4. DOMAIN owed' = Grounders
      BY <2>4 DEF Restart
    <3> QED BY <3>2, <3>3, <3>4 DEF OwedInv, Settled
  <2> QED BY <2>1, <2>2, <2>3, <2>4 DEF GroundingNext
<1> QED BY <1>1, <1>2, Zenon

(* ApplyBatchValidated, "the retry's re-commit supersedes this batch's log *)
(* entry": what a rejected commit left in the records is there only until  *)
(* its call applies the chunk, or another Ground does.                     *)
THEOREM RejectedIsSuperseded == GroundingSpec => []RetrySupersedes
<1>1. OwedInv => RetrySupersedes
  BY DEF OwedInv, RetrySupersedes, Untouched, Settled, Owes, Pending, Callers
<1> QED BY <1>1, OwedHolds, InitInv, NextInv, PTL DEF GroundingSpec

-----------------------------------------------------------------------------
(* The generations of tombstoned chunks. *)

(* Each Ground counts up from the generations there are, so at any time    *)
(* they are all below some number; a Ground can take the greatest.         *)
Dated(r, n) == r # NoChunk => r.gen \in 0 .. n
AllDated(n) ==
  /\ \A c \in Chunks : Dated(mirror[c], n) /\ Dated(disk[c], n)
  /\ \A p \in Callers : \A c \in DOMAIN call[p].writes : Dated(call[p].writes[c], n)
DatedInv == \E n \in Nat : AllDated(n)

(* maxSourceGeneration + 1 exists, and is at most one more than the bound. *)
LEMMA GenerationBound ==
  ASSUME NEW n \in Nat, NEW s, \A c \in Chunks : Dated(s[c], n), NEW sources \in SUBSET Chunks
  PROVE  Generation(sources, s) \in 0 .. n + 1
<1> DEFINE G == {0} \cup {s[c].gen : c \in {d \in sources : s[d] # NoChunk}}
<1>1. G \in SUBSET (0 .. n) /\ G # {}
  BY DEF Dated
<1> HIDE DEF G
<1>2. Max(G) \in G
  BY <1>1, MaxIn, Zenon
<1>3. Generation(sources, s) = 1 + Max(G)
  BY DEF Generation, G
<1>4. Max(G) \in 0 .. n
  BY <1>1, <1>2, Zenon
<1> DEFINE m == Max(G)
<1> HIDE DEF m
<1>5. m \in 0 .. n => 1 + m \in 0 .. n + 1
  OBVIOUS
<1> QED BY <1>3, <1>4, <1>5, Zenon DEF m

(* What a step decides is dated one higher at most. *)
LEMMA WritesDated ==
  ASSUME IInv, NEW n \in Nat, AllDated(n), GroundingNext, NEW p \in Callers
  PROVE  \A c \in DOMAIN call'[p].writes : Dated(call'[p].writes[c], n + 1)
<1> DEFINE Fine(w) == \A c \in DOMAIN w : Dated(w[c], n + 1)
<1>0. /\ DOMAIN call = Callers /\ Grounders \subseteq Callers /\ Savers \subseteq Callers
      /\ \A q \in Callers : CallShape(call[q])
      /\ \A c \in Chunks : Stored(mirror[c])
      /\ SaveTargets \subseteq Chunks
  BY GroundingCallers DEF IInv, Callers
<1>1. \A q \in Callers : Fine(call[q].writes)
  BY DEF AllDated, Dated
<1>2. \A c \in Chunks : Dated(mirror[c], n + 1)
  BY DEF AllDated, Dated
<1> HIDE DEF Fine
<1>3. ASSUME NEW q \in Callers, NEW w, NEW at, Fine(w),
             call' = [call EXCEPT ![q].at = at, ![q].writes = w]
      PROVE  Fine(call'[p].writes)
  BY <1>0, <1>1, <1>3 DEF CallShape
<1>4. ASSUME NEW q \in Callers, NEW at, Goes(q, at) PROVE Fine(call'[p].writes)
  BY <1>0, <1>1, <1>4 DEF CallShape, Goes
<1>5. ASSUME NEW q \in Grounders, GroundCalled(q) PROVE Fine(call'[p].writes)
  <2>1. PICK b \in Batches : call' = [call EXCEPT ![q].at = "deciding", ![q].batch = b]
    BY <1>5, Zenon DEF GroundCalled
  <2> QED BY <1>0, <1>1, <2>1 DEF CallShape
<1>6. ASSUME NEW q \in Grounders, Prepare(q) PROVE Fine(call'[p].writes)
  <2> DEFINE w == Decide(q, call[q].batch, mirror)
  <2>1. ASSUME NEW c \in DOMAIN w PROVE Dated(w[c], n + 1)
    <3>1. PICK sources \in SUBSET Chunks : w[c].gen = Generation(sources, mirror)
      BY <2>1, DecidedShape, Zenon
    <3>2. \A d \in Chunks : Dated(mirror[d], n)
      BY DEF AllDated
    <3>3. Generation(sources, mirror) \in 0 .. n + 1
      BY <3>2, GenerationBound, Zenon
    <3> QED BY <3>1, <3>3, Zenon DEF Dated
  <2>2. Goes(q, "skipped") \/ call' = [call EXCEPT ![q].at = "decided", ![q].writes = w]
    BY <1>6, Zenon DEF Prepare
  <2>3. Fine(w)
    BY <2>1, Zenon DEF Fine
  <2> HIDE DEF w
  <2> QED BY <1>0, <1>3, <1>4, <2>2, <2>3, Zenon
<1>7. ASSUME NEW q \in Callers, Retry(q) PROVE Fine(call'[p].writes)
  BY <1>0, <1>1, <1>7 DEF CallShape, Retry
<1>8. ASSUME NEW q \in Savers, NEW c \in SaveTargets, LoadCopy(q, c)
      PROVE  Fine(call'[p].writes)
  <2> DEFINE staled == [d \in {c} |-> [mirror[c] EXCEPT !.freshness = "stale"]]
             buried == [d \in {c} |-> [mirror[c] EXCEPT !.tombstoned = TRUE]]
  <2>1. Chunked(mirror[c]) /\ Dated(mirror[c], n + 1) /\ mirror[c] # NoChunk
    BY <1>0, <1>2, <1>8 DEF LoadCopy, Stored
  <2>2. Fine(staled) /\ Fine(buried)
    BY <2>1 DEF Fine, Dated, Chunked
  <2>3. \/ call' = [call EXCEPT ![q].at = "loaded", ![q].writes = staled]
        \/ call' = [call EXCEPT ![q].at = "loaded", ![q].writes = buried]
    BY <1>8, Zenon DEF LoadCopy
  <2> HIDE DEF staled, buried
  <2> QED BY <1>0, <1>3, <2>2, <2>3, Zenon
<1>9. ASSUME NEW q \in Savers, NEW c \in SaveTargets, DeleteCalled(q, c)
      PROVE  Fine(call'[p].writes)
  <2> DEFINE none == [d \in {c} |-> NoChunk]
  <2>1. Fine(none)
    BY DEF Fine, Dated
  <2>2. call' = [call EXCEPT ![q].at = "decided", ![q].writes = none]
    BY <1>9, Zenon DEF DeleteCalled
  <2> HIDE DEF none
  <2> QED BY <1>0, <1>3, <2>1, <2>2, Zenon
<1>10. ASSUME NEW q \in Savers, SaveMerges(q) PROVE Fine(call'[p].writes)
  <2>1. PICK c \in DOMAIN call[q].writes :
          \/ Goes(q, "skipped")
          \/ call' = [call EXCEPT ![q].at = "decided",
                        ![q].writes = [d \in {c} |-> Merged(call[q].writes[c], mirror[c])]]
    BY <1>10, Zenon DEF SaveMerges
  <2> DEFINE merged == [d \in {c} |-> Merged(call[q].writes[c], mirror[c])]
  <2>2. c \in Chunks /\ Chunked(call[q].writes[c]) /\ Dated(call[q].writes[c], n + 1)
    BY <1>0, <1>1, <1>10 DEF SaveMerges, CallShape, Fine
  <2>3. Merged(call[q].writes[c], mirror[c]).gen = call[q].writes[c].gen
    BY <1>0, <2>2, MergedFacts
  <2>4. Fine(merged)
    BY <2>2, <2>3, ChunkedIsThere DEF Fine, Dated
  <2> HIDE DEF merged
  <2> QED BY <1>0, <1>3, <1>4, <2>1, <2>4, Zenon DEF merged
<1>11. ASSUME Restart PROVE Fine(call'[p].writes)
  <2>1. call'[p] = call[p] \/ call'[p].writes = NoWrites
    BY <1>11 DEF Restart, NoCall
  <2>2. Fine(NoWrites)
    BY DEF Fine, NoWrites
  <2> QED BY <1>1, <2>1, <2>2 DEF Fine
<1>12. Fine(call'[p].writes)
  <2>1. CASE \E q \in Grounders : GroundCalled(q) \/ GroundStep(q)
    BY <1>0, <1>4, <1>5, <1>6, <1>7, <2>1, Zenon
       DEF GroundStep, GroundCommits, CommitConflicts, BackoffEnds, BackoffCancelled,
           GroundApplies, GroundRejected
  <2>2. CASE \E q \in Savers, c \in SaveTargets : LoadCopy(q, c) \/ DeleteCalled(q, c)
    BY <1>8, <1>9, <2>2, Zenon
  <2>3. CASE \E q \in Savers : SaveMerges(q) \/ SaveCommits(q) \/ SaveApplies(q)
    BY <1>0, <1>4, <1>10, <2>3, Zenon DEF SaveCommits, SaveApplies
  <2>4. CASE \E q \in Callers : CommitFails(q)
    BY <1>4, <2>4, Zenon DEF CommitFails
  <2> QED BY <1>11, <2>1, <2>2, <2>3, <2>4, Zenon DEF GroundingNext
<1> QED BY <1>12 DEF Fine

(* The records and the mirror only ever take what some call has decided. *)
LEMMA StepDated ==
  ASSUME IInv, NEW n \in Nat, AllDated(n), GroundingNext
  PROVE  AllDated(n + 1)'
<1>1. \A r : Dated(r, n) => Dated(r, n + 1)
  BY DEF Dated
<1>2. ASSUME NEW s, NEW p \in Callers, \A c \in Chunks : Dated(s[c], n)
      PROVE  \A c \in Chunks : Dated(Over(s, call[p].writes)[c], n)
  BY <1>2 DEF AllDated, Over
<1>3. \/ mirror' = mirror \/ mirror' = disk
      \/ \E p \in Callers : mirror' = Over(mirror, call[p].writes)
  BY Zenon DEF GroundingNext, GroundCalled, GroundStep, Prepare, GroundCommits, CommitConflicts,
     BackoffEnds, BackoffCancelled, GroundApplies, GroundRejected, LoadCopy, DeleteCalled,
     SaveMerges, SaveCommits, SaveApplies, CommitFails, Restart, Callers
<1>4. disk' = disk \/ \E p \in Callers : disk' = Over(disk, call[p].writes)
  BY Zenon DEF GroundingNext, GroundCalled, GroundStep, Prepare, GroundCommits, CommitConflicts,
     BackoffEnds, BackoffCancelled, GroundApplies, GroundRejected, LoadCopy, DeleteCalled,
     SaveMerges, SaveCommits, SaveApplies, CommitFails, Restart, Callers
<1>5. \A c \in Chunks : Dated(mirror'[c], n) /\ Dated(disk'[c], n)
  BY <1>2, <1>3, <1>4, Zenon DEF AllDated
<1> QED BY <1>1, <1>5, WritesDated DEF AllDated

(* The mirror is written by an apply or loaded by a restart. *)
LEMMA MirrorWritten ==
  ASSUME GroundingNext
  PROVE  \/ mirror' = mirror \/ Restart
         \/ \E p \in Grounders : GroundApplies(p)
         \/ \E p \in Savers : SaveApplies(p)
BY Zenon DEF GroundingNext, GroundCalled, GroundStep, Prepare, GroundCommits, CommitConflicts,
   BackoffEnds, BackoffCancelled, GroundRejected, LoadCopy, DeleteCalled, SaveMerges, SaveCommits,
   CommitFails

Lasts(c) ==
  mirror'[c] # NoChunk /\ (mirror'[c].tombstoned \/ mirror'[c].gen > mirror[c].gen)

(* The apply of a Ground: its decision holds for the chunk as it is now. *)
LEMMA GroundKeepsTombstone ==
  ASSUME IInv, NEW n \in Nat, AllDated(n), NEW p \in Grounders, GroundApplies(p),
         NEW c \in Chunks, mirror[c] # NoChunk, mirror[c].tombstoned
  PROVE  Lasts(c)
<1> DEFINE w == Decide(p, call[p].batch, mirror)
<1>1. mirror'[c] = IF c \in DOMAIN w THEN w[c] ELSE mirror[c]
  <2>1. mirror' = Over(mirror, w)
    BY Zenon DEF GroundApplies, StillHolds
  <2> HIDE DEF w
  <2> QED BY <2>1, Zenon DEF Over
<1>2. \A d \in DOMAIN w : Chunked(w[d]) /\ \E sources \in SUBSET Chunks :
        w[d].gen = Generation(sources, mirror) /\ ~Preserved(Generation(sources, mirror), mirror[d])
  BY DecidedShape, Zenon
<1> HIDE DEF w
<1>3. CASE c \notin DOMAIN w
  BY <1>1, <1>3, Zenon DEF Lasts
<1>4. CASE c \in DOMAIN w
  <2>1. PICK sources \in SUBSET Chunks :
          w[c].gen = Generation(sources, mirror) /\ ~Preserved(Generation(sources, mirror), mirror[c])
    BY <1>2, <1>4, Zenon
  <2>2. Generation(sources, mirror) \in Int /\ mirror[c].gen \in Int
    <3>1. \A d \in Chunks : Dated(mirror[d], n)
      BY DEF AllDated
    <3>2. Generation(sources, mirror) \in 0 .. n + 1
      BY <3>1, GenerationBound, Zenon
    <3> QED BY <3>1, <3>2 DEF Dated
  <2>3. ~ (Generation(sources, mirror) <= mirror[c].gen)
    BY <2>1 DEF Preserved
  <2>4. w[c] # NoChunk /\ mirror'[c] = w[c]
    BY <1>1, <1>2, <1>4, ChunkedIsThere, Zenon
  <2>5. w[c].gen > mirror[c].gen
    BY <2>1, <2>2, <2>3
  <2> QED BY <2>4, <2>5, Zenon DEF Lasts
<1> QED BY <1>3, <1>4, Zenon

(* A restart that finds the chunk settled loads what the mirror held. *)
LEMMA RestartKeepsSettled ==
  ASSUME OwedInv, Restart, NEW c \in Chunks, ~Unsettled(c)
  PROVE  mirror'[c] = mirror[c]
<1>1. Untouched(c) /\ \A p \in Grounders : ~Owes(p, c)
  BY Zenon DEF Unsettled, Untouched, Owes, Pending, Callers
<1>2. disk[c] = mirror[c]
  BY <1>1, Zenon DEF OwedInv, Settled
<1> QED BY <1>2, Zenon DEF Restart

(* applyMergeRule, "the only path that may clear a tombstone": a Ground    *)
(* whose decision was made before the chunk was tombstoned, or that is no  *)
(* newer, does not bring it back; nor does a restart, unless a Save or     *)
(* Delete, an unapplied or a rejected commit left another record of it.    *)
THEOREM TombstonesHold == GroundingSpec => TombstoneHolds
<1> DEFINE Kept == \A c \in Chunks :
                     mirror[c] # NoChunk /\ mirror[c].tombstoned =>
                       \/ /\ mirror'[c] # NoChunk
                          /\ mirror'[c].tombstoned \/ mirror'[c].gen > mirror[c].gen
                       \/ \E p \in Savers : SaveApplies(p) /\ c \in DOMAIN call[p].writes
                       \/ Restart /\ Unsettled(c)
<1>1. GroundingInit => DatedInv
  <2> SUFFICES ASSUME GroundingInit PROVE AllDated(1)
    BY DEF DatedInv
  <2>1. ASSUME NEW c \in Chunks PROVE Dated(disk[c], 1)
    BY DEF GroundingInit, Dated
  <2> QED BY <2>1 DEF GroundingInit, AllDated, NoCall, NoWrites
<1>2. IInv /\ DatedInv /\ [GroundingNext]_groundingVars => DatedInv'
  <2> SUFFICES ASSUME IInv, NEW n \in Nat, AllDated(n), [GroundingNext]_groundingVars
               PROVE  DatedInv'
    BY DEF DatedInv
  <2>1. CASE UNCHANGED groundingVars
    BY <2>1 DEF groundingVars, DatedInv, AllDated
  <2>2. CASE GroundingNext
    <3>1. AllDated(n + 1)' /\ n + 1 \in Nat
      BY <2>2, StepDated
    <3> QED BY <3>1 DEF DatedInv
  <2> QED BY <2>1, <2>2
<1>3. IInv /\ DatedInv /\ OwedInv /\ [GroundingNext]_groundingVars => [Kept]_groundingVars
  <2> SUFFICES ASSUME IInv, NEW n \in Nat, AllDated(n), OwedInv, GroundingNext,
                      NEW c \in Chunks, mirror[c] # NoChunk, mirror[c].tombstoned
               PROVE  \/ Lasts(c)
                      \/ \E p \in Savers : SaveApplies(p) /\ c \in DOMAIN call[p].writes
                      \/ Restart /\ Unsettled(c)
    BY Zenon DEF DatedInv, Lasts
  <2>1. CASE mirror' = mirror
    BY <2>1, Zenon DEF Lasts
  <2>2. CASE Restart
    BY <2>2, RestartKeepsSettled, Zenon DEF Lasts
  <2>3. CASE \E p \in Grounders : GroundApplies(p)
    BY <2>3, GroundKeepsTombstone, Zenon
  <2>4. ASSUME NEW p \in Savers, SaveApplies(p), c \notin DOMAIN call[p].writes
        PROVE  Lasts(c)
    <3>1. mirror' = Over(mirror, call[p].writes)
      BY <2>4, Zenon DEF SaveApplies
    <3>2. mirror'[c] = mirror[c]
      BY <2>4, <3>1, Zenon DEF Over
    <3> QED BY <3>2, Zenon DEF Lasts
  <2> QED BY <2>1, <2>2, <2>3, <2>4, MirrorWritten, Zenon
<1> HIDE DEF Kept
<1>4. GroundingSpec => [][Kept]_groundingVars
  BY <1>1, <1>2, <1>3, OwedHolds, InitInv, NextInv, PTL DEF GroundingSpec
<1> QED BY <1>4 DEF Kept, TombstoneHolds

=============================================================================
