----------------------------- MODULE AuditChain -----------------------------
(***************************************************************************)
(* The file-backed audit log (governance/policy/chain_logger.go): strict   *)
(* records go through a bounded queue to one writer, which appends them,   *)
(* hash-chained, to day files and rewrites the head anchor in batches; a   *)
(* boot resumes at the anchor or replays the files.                        *)
(*                                                                         *)
(* A hash is the sequence of the records it covers: SHA-256 without        *)
(* collisions.  Records are of a strict class; the others are only         *)
(* counted.  A crash loses the process, never bytes already written.       *)
(* There is no clock: a record brings the day its caller put on it, or     *)
(* gets that of the moment of the call, and reaches the writer behind      *)
(* records of other days, earlier and later.                               *)
(***************************************************************************)
EXTENDS Integers, Sequences, Functions

CONSTANTS
  Recs,           \* the records that are logged, each once
  Queries,        \* calls of Query, ReadChain and VerifyChain
  QueueSize,      \* FileChainOptions.QueueSize
  MaxLines,       \* MaxFileBytes, counted in lines
  Days,           \* bound: the days 1 .. Days
  MaxRot,         \* bound: rotation files of one day
  MaxBoots,       \* bound: lives of the process
  MaxFaults       \* bound: failing opens and writes

Tamper == "tamper_rotation"    \* the record of the genesis entry
NoFile == 0
Path == 0 - 1                  \* a head anchor that names a full path

ASSUME AuditBounds ==
  /\ QueueSize \in Nat \ {0} /\ MaxLines \in Nat \ {0}
  /\ {Days, MaxBoots, MaxFaults} \subseteq Nat

(* The number of a rotation is written with two digits and the names are   *)
(* sorted as strings: up to r99 that is the order of the numbers, but r100 *)
(* comes before r11.                                                       *)
ASSUME TwoDigits == MaxRot \in 0 .. 99

(* Files in replay order: chain-<day>.jsonl sorts before its rotations     *)
(* chain-<day>.r01.jsonl, .r02, ...                                        *)
FileOf(day, rot) == (day - 1) * (MaxRot + 1) + rot + 1
Files == 1 .. Days * (MaxRot + 1)
DayOf(f) == ((f - 1) \div (MaxRot + 1)) + 1

VARIABLES
  files,          \* the lines of each file; a file that is not there is Absent
  head,           \* head.json
  ws,             \* chainWriterState; ws.genesis is the pending genesis entry
  queue,          \* l.ch
  writer,         \* the goroutine run: running, draining, gone
  closing,        \* Close: open, marked, stopped, returned or timedOut; dead: no process
  log,            \* each Log call
  stamp,          \* the day of the record a Log call is sending, 0 for none
  query,          \* each Query call: where it is, what was logged before it, what it saw
  boots, faults,
  lost,           \* records the writer counted as dropped, or a crash found queued
  owed,           \* history: records accepted before Close was called
  damaged,        \* history: a line was torn, or a write failed
  misplaced       \* history: see Crash and Appends

auditVars == <<files, head, ws, queue, writer, closing, log, stamp, query, boots, faults,
               lost, owed, damaged, misplaced>>
clients == <<log, stamp, query>>
process == <<writer, closing, boots>>
ghosts == <<lost, owed, damaged, misplaced>>

Absent == <<[kind |-> "absent"]>>
NoHead == [seq |-> 0, hash |-> <<>>, file |-> NoFile]
Torn == [kind |-> "torn"]       \* half a line, without its newline
Garbled == [kind |-> "garbled"] \* half a line with a whole one behind it, and the newline
Entry(seq, rec, prev) ==
  [kind |-> "entry", seq |-> seq, rec |-> rec, prev |-> prev, hash |-> Append(prev, rec)]

Item(rec, day) == [rec |-> rec, day |-> day]
Barrier(q) == [sync |-> q]
IsBarrier(i) == "sync" \in DOMAIN i

Present == {f \in Files : files[f] # Absent}

(* tailLastEntry: the last line of a file that has one. *)
Last(s) == s[Len(s)]

(* The lines of all files, in replay order. *)
Content(fs, f) == IF f \notin Files \/ fs[f] = Absent THEN <<>> ELSE fs[f]
Lines(fs) ==
  LET upTo[f \in Nat] == IF f = 0 THEN <<>> ELSE upTo[f - 1] \o Content(fs, f)
  IN  upTo[Days * (MaxRot + 1)]

(* What Query finds, and the files it cannot read. *)
Written ==
  {e.rec : e \in {l \in UNION {Range(files[f]) : f \in Present} : l.kind = "entry"}}
Corrupt == {f \in Present : \E i \in DOMAIN files[f] : files[f][i] \in {Torn, Garbled}}
Accepted == {r \in Recs : log[r] = "accepted"}
Up == writer # "gone"

NewWriter(seq, hash, tampered) ==
  [file |-> NoFile, seq |-> seq, hash |-> hash, genesis |-> tampered]

AuditInit ==
  /\ files = [f \in Files |-> Absent]
  /\ head = NoHead
  /\ ws = NewWriter(0, <<>>, FALSE)
  /\ queue = <<>>
  /\ writer = "running"
  /\ closing = "open"
  /\ log = [r \in Recs |-> "new"]
  /\ stamp = [r \in Recs |-> 0]
  /\ query = [q \in Queries |-> [at |-> "new", before |-> {}, saw |-> {}]]
  /\ boots = 1 /\ faults = 0
  /\ lost = {} /\ owed = {} /\ damaged = FALSE /\ misplaced = FALSE

-----------------------------------------------------------------------------
(* Producers. *)

LogTo(r, at, d) == log' = [log EXCEPT ![r] = at] /\ stamp' = [stamp EXCEPT ![r] = d]

(* Log: the closed flag, the timestamp, then the select.  Between the flag *)
(* and the select Close may run, and records of other days go first.       *)
LogCalled(r) ==
  /\ Up
  /\ log[r] = "new"
  /\ IF closing = "open"
     THEN \E d \in 1 .. Days : LogTo(r, "sending", d)
     ELSE LogTo(r, "refused", 0)
  /\ UNCHANGED <<files, head, ws, queue, process, query, faults, ghosts>>

LogSends(r) ==
  /\ log[r] = "sending"
  /\ Len(queue) < QueueSize
  /\ queue' = Append(queue, Item(r, stamp[r]))
  /\ LogTo(r, "accepted", 0)
  /\ UNCHANGED <<files, head, ws, process, query, faults, ghosts>>

(* The enqueue timer, the caller's context, or the closed stop channel. *)
LogGivesUp(r) ==
  /\ log[r] = "sending"
  /\ LogTo(r, "refused", 0)
  /\ UNCHANGED <<files, head, ws, queue, process, query, faults, ghosts>>

QueryTo(q, at) == query' = [query EXCEPT ![q].at = at]

(* flushToDisk: a closed logger is taken for a drained one. *)
QueryCalled(q) ==
  /\ closing # "dead"
  /\ query[q].at = "new"
  /\ query' = [query EXCEPT ![q].at = IF closing = "open" THEN "sending" ELSE "unsynced",
                            ![q].before = Accepted]
  /\ UNCHANGED <<files, head, ws, queue, process, log, stamp, faults, ghosts>>

QuerySends(q) ==
  /\ query[q].at = "sending"
  /\ Len(queue) < QueueSize
  /\ queue' = Append(queue, Barrier(q))
  /\ QueryTo(q, "waiting")
  /\ UNCHANGED <<files, head, ws, process, log, stamp, faults, ghosts>>

(* The drain timer, the caller's context, or the closed stop channel. *)
QueryGivesUp(q) ==
  /\ query[q].at \in {"sending", "waiting"}
  /\ QueryTo(q, "failed")
  /\ UNCHANGED <<files, head, ws, queue, process, log, stamp, faults, ghosts>>

(* The files are read after the barrier. *)
QueryReads(q) ==
  /\ query[q].at \in {"synced", "unsynced"}
  /\ query' = [query EXCEPT ![q].at = IF Corrupt # {} THEN "failed"
                                       ELSE IF @ = "synced" THEN "answered" ELSE "read",
                            ![q].saw = Written]
  /\ UNCHANGED <<files, head, ws, queue, process, log, stamp, faults, ghosts>>

-----------------------------------------------------------------------------
(* The writer. *)

(* nextRotationNameLocked: the first free name; none beyond the bound. *)
NextRotation(d) ==
  LET free == {n \in 1 .. MaxRot : FileOf(d, n) \notin Present}
  IN IF free = {} THEN NoFile ELSE FileOf(d, CHOOSE n \in free : \A m \in free : n <= m)

(* A slip: a late record goes back to the file of its day. *)
PlacedByDay(d) ==
  IF ws.file = NoFile \/ d # DayOf(ws.file)
  THEN IF ws.genesis THEN NextRotation(d) ELSE FileOf(d, 0)
  ELSE IF Len(files[ws.file]) >= MaxLines THEN NextRotation(DayOf(ws.file)) ELSE ws.file

(* ensureWriterFileLocked: where a record of day d goes.  It steps forward *)
(* only, from the file that is open.                                       *)
Placed(d) ==
  IF ws.file = NoFile \/ d > DayOf(ws.file)
  THEN IF ws.genesis THEN NextRotation(d) ELSE FileOf(d, 0)
  ELSE IF Len(files[ws.file]) >= MaxLines THEN NextRotation(DayOf(ws.file)) ELSE ws.file

(* A writer with no file open, after a boot or an open that failed, goes   *)
(* by the day of its record alone: to a day file that has rotations after  *)
(* it already, or to a day before the last.                                *)
Reopened(f) == ws.file = NoFile /\ \E g \in Present : g > f

(* Bytes after torn ones run into them; the newline of a record ends that. *)
WithLine(f, line) ==
  LET old == IF files[f] = Absent THEN <<>> ELSE files[f]
  IN [files EXCEPT ![f] = IF old = <<>> \/ Last(old) # Torn THEN Append(old, line)
                          ELSE IF line = Torn THEN old
                          ELSE [old EXCEPT ![Len(old)] = Garbled]]

(* appendLocked: placed, numbered, chained and written. *)
Appends(item) ==
  LET f == Placed(item.day)
  IN /\ f \in Files
     /\ files' = WithLine(f, Entry(ws.seq + 1, item.rec, ws.hash))
     /\ ws' = [file |-> f, seq |-> ws.seq + 1, hash |-> Append(ws.hash, item.rec),
               genesis |-> FALSE]
     /\ misplaced' = (misplaced \/ Reopened(f))
     /\ UNCHANGED <<faults, lost, owed, damaged>>

(* The file cannot be opened: counted, and nothing is numbered. *)
OpenFails(item) ==
  LET f == Placed(item.day)
  IN /\ f # ws.file
     /\ faults < MaxFaults
     /\ faults' = faults + 1
     /\ ws' = [ws EXCEPT !.file = NoFile]
     /\ lost' = lost \cup {item.rec}
     /\ UNCHANGED <<files, owed, damaged, misplaced>>

(* The write fails, with or without a part of the line: the number stays   *)
(* taken.                                                                  *)
WriteFails(item) ==
  LET f == Placed(item.day)
  IN /\ f \in Files
     /\ faults < MaxFaults
     /\ faults' = faults + 1
     /\ ws' = [ws EXCEPT !.file = f, !.seq = @ + 1]
     /\ files' \in {WithLine(f, Torn), [files EXCEPT ![f] = IF @ = Absent THEN <<>> ELSE @]}
     /\ lost' = lost \cup {item.rec}
     /\ damaged' = TRUE
     /\ UNCHANGED <<owed, misplaced>>

AppendOutcome(item) == Appends(item) \/ OpenFails(item) \/ WriteFails(item)

(* writeHeadLocked. *)
HeadNow ==
  IF ws.file = NoFile \/ ws.seq = 0 THEN head
  ELSE [seq |-> ws.seq, hash |-> ws.hash, file |-> ws.file]

(* run takes one request: a record, or a barrier. *)
WriterAppends ==
  /\ Up
  /\ queue # <<>>
  /\ ~IsBarrier(Head(queue))
  /\ AppendOutcome(Head(queue))
  /\ queue' = Tail(queue)
  /\ UNCHANGED <<head, process, clients>>

(* A slip: the barrier is answered before what is queued ahead of it. *)
WriterSyncsFirst ==
  /\ Up
  /\ \E i \in DOMAIN queue :
       /\ IsBarrier(queue[i])
       /\ query' = [query EXCEPT ![queue[i].sync].at = IF @ = "waiting" THEN "synced" ELSE @]
       /\ queue' = SubSeq(queue, 1, i - 1) \o SubSeq(queue, i + 1, Len(queue))
  /\ head' = IF writer = "running" THEN HeadNow ELSE head
  /\ UNCHANGED <<files, ws, process, log, stamp, faults, ghosts>>

WriterSyncs ==
  /\ Up
  /\ queue # <<>>
  /\ IsBarrier(Head(queue))
  /\ query' = [query EXCEPT ![Head(queue).sync].at = IF @ = "waiting" THEN "synced" ELSE @]
  /\ queue' = Tail(queue)
  /\ head' = IF writer = "running" THEN HeadNow ELSE head
  /\ UNCHANGED <<files, ws, process, log, stamp, faults, ghosts>>

(* The flush ticker. *)
WriterTicks ==
  /\ writer = "running"
  /\ head' = HeadNow
  /\ UNCHANGED <<files, ws, queue, process, clients, faults, ghosts>>

WriterStops ==
  /\ writer = "running"
  /\ closing \notin {"open", "marked"}
  /\ writer' = "draining"
  /\ UNCHANGED <<files, head, ws, queue, closing, boots, clients, faults, ghosts>>

(* A slip: the stop signal ends the writer with the queue as it is. *)
WriterQuits ==
  /\ writer = "draining"
  /\ head' = HeadNow
  /\ ws' = [ws EXCEPT !.file = NoFile]
  /\ writer' = "gone"
  /\ UNCHANGED <<files, queue, closing, boots, clients, faults, ghosts>>

(* The queue was empty when the drain looked: last head, file closed. *)
WriterEnds ==
  /\ writer = "draining"
  /\ queue = <<>>
  /\ head' = HeadNow
  /\ ws' = [ws EXCEPT !.file = NoFile]
  /\ writer' = "gone"
  /\ UNCHANGED <<files, queue, closing, boots, clients, faults, ghosts>>

-----------------------------------------------------------------------------
(* Close, crash and boot. *)

CloseMarks ==
  /\ Up
  /\ closing = "open"
  /\ closing' = "marked"
  /\ owed' = Accepted
  /\ UNCHANGED <<files, head, ws, queue, writer, boots, clients, faults, lost, damaged,
                 misplaced>>

CloseStops ==
  /\ closing = "marked"
  /\ closing' = "stopped"
  /\ UNCHANGED <<files, head, ws, queue, writer, boots, clients, faults, ghosts>>

CloseReturns ==
  /\ closing = "stopped"
  /\ \/ writer = "gone" /\ closing' = "returned"
     \/ writer # "gone" /\ closing' = "timedOut"
  /\ UNCHANGED <<files, head, ws, queue, writer, boots, clients, faults, ghosts>>

(* The O(1) check of bootValidate: the anchor against the last line of the *)
(* file it names.                                                          *)
Anchored ==
  /\ head.file \in Present
  /\ files[head.file] # <<>>
  /\ Last(files[head.file]) \notin {Torn, Garbled}
  /\ Last(files[head.file]).seq = head.seq
  /\ Last(files[head.file]).hash = head.hash

(* replayChain: the lines that check out, from the first on.  A file with  *)
(* a line that does not parse counts for nothing, nor does what follows.   *)
Sound(lines, i) ==
  LET line == lines[i]
      prev == IF i = 1 THEN <<>> ELSE lines[i - 1].hash
  IN line.seq = i /\ line.prev = prev /\ line.hash = Append(prev, line.rec)

Parsed == Lines([f \in Files |-> IF \E g \in Corrupt : g <= f THEN Absent ELSE files[f]])
ValidPrefix ==
  CHOOSE k \in 0 .. Len(Parsed) :
    /\ \A i \in 1 .. k : Sound(Parsed, i)
    /\ k < Len(Parsed) => ~Sound(Parsed, k + 1)

(* A slip: the last record of the valid prefix is written again. *)
BootBehind(k, broken) == NewWriter(k - 1, IF k <= 1 THEN <<>> ELSE Parsed[k - 1].hash, broken)

(* bootValidate after a replay: the merge point for new records. *)
BootAt(k, broken) == NewWriter(k, IF k = 0 THEN <<>> ELSE Parsed[k].hash, broken)

(* NewFileChainAuditLogger: bootValidate, and the genesis entry of a       *)
(* broken chain ahead of every record.                                     *)
Boot ==
  /\ closing = "dead"
  /\ boots < MaxBoots
  /\ LET k == ValidPrefix
         broken == k < Len(Lines(files))
         resumed == IF Present = {} THEN NewWriter(0, <<>>, FALSE)
                    ELSE IF Anchored THEN NewWriter(head.seq, head.hash, FALSE)
                    ELSE BootAt(k, broken)
     IN /\ ws' = resumed
        /\ IF resumed.genesis
           THEN \E d \in 1 .. Days : queue' = <<Item(Tamper, d)>>
           ELSE queue' = <<>>
        /\ head' = IF Present # {} /\ ~Anchored /\ (broken => k # 0)
                      /\ (broken \/ head.file = NoFile)
                   THEN [seq |-> k, hash |-> resumed.hash,
                         file |-> IF k = 0 THEN NoFile ELSE Path]
                   ELSE head
  /\ writer' = "running"
  /\ closing' = "open"
  /\ boots' = boots + 1
  /\ UNCHANGED <<files, clients, faults, ghosts>>

(* The process ends, at any moment: after Close, or by a crash, which may  *)
(* cut the line that is being written.  A writer that has moved on to a    *)
(* new file since the last head, whether it is still there or could not    *)
(* open the next one, leaves an anchor that still checks out.              *)
Crash ==
  /\ closing # "dead"
  /\ \/ UNCHANGED <<files, faults, damaged>>
     \/ /\ Up /\ queue # <<>> /\ ~IsBarrier(Head(queue))
        /\ Placed(Head(queue).day) \in Files
        /\ faults < MaxFaults
        /\ faults' = faults + 1
        /\ files' = WithLine(Placed(Head(queue).day), Torn)
        /\ damaged' = TRUE
  /\ misplaced' = (misplaced \/ (Anchored /\ \E g \in Present : g > head.file /\ files[g] # <<>>))
  /\ lost' = lost \cup {i.rec : i \in {j \in Range(queue) : ~IsBarrier(j)}}
  /\ queue' = <<>>
  /\ writer' = "gone"
  /\ closing' = "dead"
  /\ log' = [r \in Recs |-> IF log[r] = "sending" THEN "refused" ELSE log[r]]
  /\ stamp' = [r \in Recs |-> 0]
  /\ query' = [q \in Queries |-> IF query[q].at \in {"new", "answered", "read"}
                                 THEN query[q] ELSE [query[q] EXCEPT !.at = "failed"]]
  /\ UNCHANGED <<head, ws, boots, owed>>

-----------------------------------------------------------------------------
LogStep(r) == LogCalled(r) \/ LogSends(r) \/ LogGivesUp(r)
QueryStep(q) == QueryCalled(q) \/ QuerySends(q) \/ QueryGivesUp(q) \/ QueryReads(q)
WriterStep == WriterAppends \/ WriterSyncs \/ WriterTicks \/ WriterStops \/ WriterEnds

AuditNext ==
  \/ \E r \in Recs : LogStep(r)
  \/ \E q \in Queries : QueryStep(q)
  \/ WriterStep
  \/ CloseMarks \/ CloseStops \/ CloseReturns
  \/ Crash \/ Boot

AuditSpec == AuditInit /\ [][AuditNext]_auditVars

-----------------------------------------------------------------------------
(* Properties. *)

(* chain_logger.go: Query is flushed first "so a completed Log is always   *)
(* observable here".  An answer that came through its barrier holds every  *)
(* record whose Log had returned before the call, unless the writer        *)
(* counted it as dropped or a crash lost it with the queue.                *)
LoggedIsObservable ==
  \A q \in Queries :
     query[q].at = "answered" => query[q].before \subseteq query[q].saw \cup lost

(* Close "stops the writer, drains the queue": when it returns in time,    *)
(* every record whose Log had returned before Close was called is in the   *)
(* files or was counted, whatever other calls were under way.              *)
ClosedIsDrained ==
  closing = "returned" /\ ~damaged => owed \subseteq Written \cup lost

(* The chain as VerifyChain replays it is whole: across crashes at any     *)
(* point, stale anchors, rollovers, rotations, records that come late or   *)
(* early and files that could not be opened, as long as no line was torn,  *)
(* no write failed, no process left an anchor that checks out with lines   *)
(* in a later file, and no writer that had no file open went back to a     *)
(* file before the last.  While a file is open, ensureWriterFileLocked     *)
(* "STEPS FORWARD ONLY", whatever the days.                                *)
ChainReplays ==
  ~damaged /\ ~misplaced => LET all == Lines(files) IN \A i \in DOMAIN all : Sound(all, i)

(* bootValidate: "Healthy chains resume from the head anchor (O(1)); when  *)
(* the anchor is missing or stale, a full replay decides".  A writer that  *)
(* met no failure numbers its next record after the last line there is.    *)
ResumesAtTail == Up /\ ~damaged => ws.seq = Len(Lines(files))
=============================================================================
