---------------------------- MODULE AuditProofs ----------------------------
(***************************************************************************)
(* The audit log, for every set of records and queries, every queue size   *)
(* and any crashes, boots and failing writes: a query that was answered    *)
(* saw what was logged before it, Close leaves nothing behind, and a chain *)
(* that nothing damaged or misplaced replays without a gap.                *)
(***************************************************************************)
EXTENDS TLAPS, AuditChain

(* The provers may take a minute for a leaf, and each leaf two attempts.   *)
USE SMTT(60), Z3T(60)

-----------------------------------------------------------------------------
(* Sequences of whatever they hold. *)

Listed(s) == \E S : s \in Seq(S)

(* One more at the end. *)
LEMMA AppendFacts ==
  ASSUME NEW s, NEW e, Listed(s)
  PROVE  /\ Listed(Append(s, e))
         /\ Len(s) \in Nat /\ DOMAIN s = 1 .. Len(s)
         /\ Len(Append(s, e)) = Len(s) + 1
         /\ DOMAIN Append(s, e) = 1 .. Len(s) + 1
         /\ \A i \in 1 .. Len(s) : Append(s, e)[i] = s[i]
         /\ Append(s, e)[Len(s) + 1] = e
<1>1. PICK S : s \in Seq(S)
  BY DEF Listed
<1> DEFINE T == S \cup {e}
<1>2. s \in Seq(T) /\ e \in T
  BY <1>1
<1> HIDE DEF T
<1>3. /\ Append(s, e) \in Seq(T)
      /\ Len(s) \in Nat /\ DOMAIN s = 1 .. Len(s)
      /\ Len(Append(s, e)) = Len(s) + 1
      /\ DOMAIN Append(s, e) = 1 .. Len(s) + 1
      /\ \A i \in 1 .. Len(s) : Append(s, e)[i] = s[i]
      /\ Append(s, e)[Len(s) + 1] = e
  BY <1>2
<1> QED BY <1>3, Zenon DEF Listed

(* One less at the front. *)
LEMMA TailFacts ==
  ASSUME NEW s, Listed(s), s # <<>>
  PROVE  /\ Listed(Tail(s))
         /\ Len(s) \in Nat /\ Len(s) >= 1 /\ DOMAIN s = 1 .. Len(s) /\ Head(s) = s[1]
         /\ DOMAIN Tail(s) = 1 .. Len(s) - 1 /\ Len(Tail(s)) = Len(s) - 1
         /\ \A i \in 1 .. Len(s) - 1 : Tail(s)[i] = s[i + 1]
<1>1. PICK S : s \in Seq(S)
  BY DEF Listed
<1>2. Tail(s) \in Seq(S)
  BY <1>1
<1> QED BY <1>1, <1>2 DEF Listed

-----------------------------------------------------------------------------
(* The files. *)

(* There is a sequence of lines per file; a torn line comes with damage. *)
FilesOK ==
  /\ DOMAIN files = Files
  /\ \A f \in Files : Listed(files[f])
  /\ ~damaged => Corrupt = {}

(* What is in the files and what spoils them, line by line. *)
ByLine ==
  /\ \A r : r \in Written <=>
       \E f \in Files : /\ files[f] # Absent
                        /\ \E i \in DOMAIN files[f] :
                             files[f][i].kind = "entry" /\ files[f][i].rec = r
  /\ \A f : f \in Corrupt <=>
       f \in Files /\ files[f] # Absent /\ \E i \in DOMAIN files[f] : files[f][i] \in {Torn, Garbled}

(* Written and Corrupt are that. *)
LEMMA LineByLine == ByLine
<1>1. \A r : r \in Written <=>
       \E f \in Files : /\ files[f] # Absent
                        /\ \E i \in DOMAIN files[f] :
                             files[f][i].kind = "entry" /\ files[f][i].rec = r
  <2> SUFFICES ASSUME NEW r
               PROVE  r \in Written <=>
                        \E f \in Files : /\ files[f] # Absent
                                         /\ \E i \in DOMAIN files[f] :
                                              files[f][i].kind = "entry" /\ files[f][i].rec = r
    OBVIOUS
  <2>1. ASSUME r \in Written
        PROVE  \E f \in Files : /\ files[f] # Absent
                                /\ \E i \in DOMAIN files[f] :
                                     files[f][i].kind = "entry" /\ files[f][i].rec = r
    <3>1. PICK e \in UNION {Range(files[f]) : f \in Present} : e.kind = "entry" /\ e.rec = r
      BY <2>1, Zenon DEF Written
    <3>2. PICK f \in Present : e \in Range(files[f])
      BY <3>1, Zenon
    <3>3. PICK i \in DOMAIN files[f] : files[f][i] = e
      BY <3>2, Zenon DEF Range
    <3> QED BY <3>1, <3>2, <3>3, Zenon DEF Present
  <2>2. ASSUME NEW f \in Files, files[f] # Absent, NEW i \in DOMAIN files[f],
               files[f][i].kind = "entry", files[f][i].rec = r
        PROVE  r \in Written
    <3>1. f \in Present /\ files[f][i] \in Range(files[f])
      BY <2>2, Zenon DEF Present, Range
    <3>2. files[f][i] \in UNION {Range(files[g]) : g \in Present}
      BY <3>1, Zenon
    <3> QED BY <2>2, <3>2, Zenon DEF Written
  <2> QED BY <2>1, <2>2, Zenon
<1> QED BY <1>1, Zenon DEF ByLine, Corrupt, Present

(* After a step, too. *)
LEMMA LineByLineNext == ByLine'
BY LineByLine, PTL

(* No line of a file goes away; torn bytes may get their newline. *)
Grows ==
  \A f \in Files :
    files[f] # Absent =>
      /\ files'[f] # Absent
      /\ \A i \in DOMAIN files[f] :
           /\ i \in DOMAIN files'[f]
           /\ \/ files'[f][i] = files[f][i]
              \/ files[f][i] = Torn /\ files'[f][i] = Garbled

(* So neither does a record or a torn line. *)
LEMMA GrowsFacts == Grows => Written \subseteq Written' /\ Corrupt \subseteq Corrupt'
<1> SUFFICES ASSUME Grows PROVE Written \subseteq Written' /\ Corrupt \subseteq Corrupt'
  OBVIOUS
<1>1. ASSUME NEW r \in Written PROVE r \in Written'
  <2>1. PICK f \in Files :
          /\ files[f] # Absent
          /\ \E i \in DOMAIN files[f] : files[f][i].kind = "entry" /\ files[f][i].rec = r
    BY LineByLine, Zenon DEF ByLine
  <2>3. PICK i \in DOMAIN files[f] : files[f][i].kind = "entry" /\ files[f][i].rec = r
    BY <2>1, Zenon
  <2>2. /\ files'[f] # Absent /\ i \in DOMAIN files'[f]
        /\ files'[f][i] = files[f][i] \/ files[f][i] = Torn
    BY <2>1, Zenon DEF Grows
  <2>4. files[f][i] # Torn
    BY <2>3 DEF Torn
  <2> QED BY <2>3, <2>2, <2>4, LineByLineNext, Zenon DEF ByLine
<1>2. ASSUME NEW f \in Corrupt PROVE f \in Corrupt'
  <2>1. PICK i \in DOMAIN files[f] :
          f \in Files /\ files[f] # Absent /\ files[f][i] \in {Torn, Garbled}
    BY LineByLine, Zenon DEF ByLine
  <2>2. files'[f] # Absent /\ i \in DOMAIN files'[f] /\ files'[f][i] \in {Torn, Garbled}
    BY <2>1, Zenon DEF Grows
  <2> QED BY <2>1, <2>2, LineByLineNext DEF ByLine
<1> QED BY <1>1, <1>2

(* appendLocked adds a line; a record right behind torn bytes is swallowed *)
(* with them, and only there.                                              *)
LEMMA LineAdded ==
  ASSUME FilesOK, NEW f \in Files, NEW line, files' = WithLine(f, line),
         line = Torn \/ line.kind = "entry"
  PROVE  /\ DOMAIN files' = Files /\ \A g \in Files : Listed(files'[g])
         /\ Grows
         /\ line.kind = "entry" /\ Corrupt = {} => line.rec \in Written' /\ Corrupt' = {}
<1> DEFINE old == IF files[f] = Absent THEN <<>> ELSE files[f]
<1>0. Listed(old)
  <2>1. Listed(<<>>)
    BY DEF Listed
  <2> QED BY <2>1 DEF FilesOK
<1> DEFINE spoilt == [old EXCEPT ![Len(old)] = Garbled]
           new == IF old = <<>> \/ Last(old) # Torn THEN Append(old, line)
                  ELSE IF line = Torn THEN old ELSE spoilt
<1>1. files' = [files EXCEPT ![f] = new]
  BY Zenon DEF WithLine
<1>2. /\ DOMAIN files' = Files
      /\ \A g \in Files \ {f} : files'[g] = files[g]
      /\ files'[f] = new
  BY <1>1 DEF FilesOK
<1> HIDE DEF old
<1>6. ASSUME old # <<>>
      PROVE  /\ Len(old) \in DOMAIN old /\ Listed(spoilt) /\ DOMAIN spoilt = DOMAIN old
             /\ spoilt[Len(old)] = Garbled
             /\ \A i \in DOMAIN old : i # Len(old) => spoilt[i] = old[i]
  <2>1. PICK S : old \in Seq(S)
    BY <1>0 DEF Listed
  <2> DEFINE T == S \cup {Garbled}
  <2>2. old \in Seq(T) /\ Garbled \in T
    BY <2>1
  <2> HIDE DEF T
  <2>3. spoilt \in Seq(T) /\ Len(old) \in DOMAIN old
    BY <1>6, <2>2
  <2> QED BY <2>2, <2>3 DEF Listed
<1>3. \A g \in Files : Listed(files'[g])
  <2>1. Listed(Append(old, line))
    BY <1>0, AppendFacts, Zenon
  <2>2. Listed(new)
    BY <1>0, <1>6, <2>1, Zenon
  <2> QED BY <1>2, <2>2, Zenon DEF FilesOK
<1>4. CASE old # <<>> /\ Last(old) = Torn /\ files'[f] \in {old, spoilt}
  <2>1. files[f] # Absent /\ old = files[f]
    BY <1>4 DEF old
  <2>2. Len(old) \in DOMAIN old /\ old[Len(old)] = Torn
    BY <1>4, <1>6, Zenon DEF Last
  <2>3. f \in Corrupt
    BY <2>1, <2>2, <1>4, LineByLine DEF ByLine
  <2>5. spoilt # Absent
    <3>1. DOMAIN Absent = {1} /\ Absent[1] # Garbled
      BY DEF Absent, Garbled
    <3>2. Len(old) \in DOMAIN spoilt /\ spoilt[Len(old)] = Garbled
      BY <1>4, <1>6, Zenon
    <3> HIDE DEF spoilt
    <3> QED BY <3>1, <3>2, Zenon
  <2> HIDE DEF spoilt
  <2>4. Grows
    <3>1. /\ files'[f] # Absent
          /\ \A i \in DOMAIN files[f] :
               /\ i \in DOMAIN files'[f]
               /\ files'[f][i] = files[f][i] \/ (files[f][i] = Torn /\ files'[f][i] = Garbled)
      BY <1>4, <1>6, <2>1, <2>2, <2>5, Zenon
    <3> QED BY <1>2, <3>1, Zenon DEF Grows
  <2> QED BY <1>2, <1>3, <2>3, <2>4, Zenon
<1>5. CASE files'[f] = Append(old, line)
  <2> DEFINE n == Len(old) + 1
  <2>1. /\ n \in Nat /\ n >= 1 /\ DOMAIN old = 1 .. n - 1 /\ DOMAIN files'[f] = 1 .. n
        /\ \A i \in 1 .. n - 1 : files'[f][i] = old[i]
        /\ files'[f][n] = line
    BY <1>0, <1>5, AppendFacts
  <2> HIDE DEF n
  <2>2. files'[f] # Absent
    <3>1. DOMAIN Absent = 1 .. 1 /\ Absent[1].kind = "absent" /\ Torn.kind = "torn"
      BY DEF Absent, Torn
    <3>2. files'[f] = Absent => n = 1
      <4>1. n \in DOMAIN files'[f]
        BY <2>1
      <4> QED BY <3>1, <4>1
    <3>3. ASSUME files'[f] = Absent PROVE line.kind = "absent"
      BY <2>1, <3>1, <3>2, <3>3
    <3> QED BY <3>1, <3>3
  <2>3. Grows
    <3>1. files[f] # Absent => old = files[f]
      BY DEF old
    <3> QED BY <1>2, <2>1, <2>2, <3>1 DEF Grows
  <2>4. ASSUME line.kind = "entry", Corrupt = {} PROVE line.rec \in Written' /\ Corrupt' = {}
    <3>1. line.rec \in Written'
      BY <2>1, <2>2, <2>4, LineByLineNext DEF ByLine
    <3>2. line \notin {Torn, Garbled}
      BY <2>4 DEF Torn, Garbled
    <3>3. ASSUME NEW g \in Corrupt' PROVE FALSE
      <4>1. PICK i \in DOMAIN files'[g] :
              g \in Files /\ files'[g] # Absent /\ files'[g][i] \in {Torn, Garbled}
        BY LineByLineNext DEF ByLine
      <4>2. CASE g # f
        BY <1>2, <2>4, <4>1, <4>2, LineByLine DEF ByLine
      <4>3. CASE g = f
        <5>1. i \in 1 .. n - 1 /\ old[i] \in {Torn, Garbled}
          BY <2>1, <3>2, <4>1, <4>3
        <5>2. files[f] # Absent /\ old = files[f]
          BY <2>1, <5>1 DEF old
        <5>3. f \in Corrupt
          BY <2>1, <5>1, <5>2, LineByLine DEF ByLine
        <5> QED BY <2>4, <5>3
      <4> QED BY <4>2, <4>3
    <3> QED BY <3>1, <3>3
  <2> QED BY <1>2, <1>3, <2>3, <2>4
<1> QED BY <1>2, <1>4, <1>5, Zenon

-----------------------------------------------------------------------------
(* What is on its way. *)

(* The records ahead of place i of a queue. *)
Ahead(s, i) == {s[k].rec : k \in {j \in DOMAIN s : j < i /\ ~IsBarrier(s[j])}}

(* All of them. *)
Queued(s) == Ahead(s, Len(s) + 1)

(* The records that are in the files or were counted as dropped. *)
Safe == Written \cup lost

(* A life that ended left no request and no producer behind. *)
DeadIsOver ==
  /\ closing \in {"returned", "dead"} => writer = "gone"
  /\ closing = "dead" =>
       /\ queue = <<>>
       /\ \A r \in Recs : log[r] # "sending"
       /\ \A q \in Queries : query[q].at # "sending"

(* What each accepted record, each query and Close can count on.           *)
OnTheWay ==
  /\ Corrupt = {} =>
       /\ Accepted \subseteq Safe \cup Queued(queue)
       /\ writer = "gone" => owed \subseteq Safe
       /\ \A q \in Queries :
            /\ query[q].at = "waiting" =>
                 \A i \in DOMAIN queue :
                    queue[i] = Barrier(q) => query[q].before \subseteq Safe \cup Ahead(queue, i)
            /\ query[q].at = "synced" => query[q].before \subseteq Safe
  /\ owed \subseteq Accepted
  /\ \A q \in Queries :
       /\ query[q].at = "sending" => query[q].before \subseteq Accepted
       /\ query[q].at \in {"new", "sending"} => \A i \in DOMAIN queue : queue[i] # Barrier(q)

(* A barrier is that of a query; a record has a day. *)
RequestOK(e) ==
  IF IsBarrier(e) THEN \E q \in Queries : e = Barrier(q) ELSE e.day \in Nat

QueueOK == \A i \in DOMAIN queue : RequestOK(queue[i])

(* Which calls there are, and what a query remembers. *)
CallsOK ==
  /\ DOMAIN log = Recs /\ stamp \in [Recs -> Nat]
  /\ DOMAIN query = Queries
  /\ \A q \in Queries : DOMAIN query[q] = {"at", "before", "saw"}

(* The inductive invariant of the chain. *)
AuditInv == FilesOK /\ Listed(queue) /\ QueueOK /\ CallsOK /\ DeadIsOver /\ OnTheWay

(* A record to write is no barrier; a barrier names its query. *)
LEMMA RequestFacts ==
  /\ \A r, d : ~IsBarrier(Item(r, d)) /\ Item(r, d).rec = r /\ Item(r, d).day = d
  /\ \A q : IsBarrier(Barrier(q)) /\ Barrier(q).sync = q
BY DEF Item, Barrier, IsBarrier

(* A send: nothing ahead of a place changes, and the new request is last.  *)
LEMMA SendFacts ==
  ASSUME NEW s, Listed(s), NEW e
  PROVE  /\ \A i \in DOMAIN s : Ahead(s, i) \subseteq Ahead(Append(s, e), i)
         /\ Queued(s) \subseteq Ahead(Append(s, e), Len(s) + 1)
         /\ Queued(s) \subseteq Queued(Append(s, e))
         /\ ~IsBarrier(e) => e.rec \in Queued(Append(s, e))
<1> DEFINE n == Len(s)
           t == Append(s, e)
<1>1. /\ n \in Nat /\ DOMAIN s = 1 .. n
      /\ Len(t) = n + 1 /\ DOMAIN t = 1 .. n + 1
      /\ \A i \in 1 .. n : t[i] = s[i]
      /\ t[n + 1] = e
  BY AppendFacts
<1> HIDE DEF n, t
<1>2. ASSUME NEW i \in 1 .. n + 1 PROVE Ahead(s, i) \subseteq Ahead(t, i)
  BY <1>1 DEF Ahead
<1>3. Ahead(t, n + 1) \subseteq Ahead(t, n + 2) /\ (~IsBarrier(e) => e.rec \in Ahead(t, n + 2))
  BY <1>1 DEF Ahead
<1>4. Queued(s) = Ahead(s, n + 1) /\ Queued(t) = Ahead(t, n + 2)
  BY <1>1 DEF Queued, n
<1>5. Ahead(s, n + 1) \subseteq Ahead(t, n + 1) /\ \A i \in DOMAIN s : Ahead(s, i) \subseteq Ahead(t, i)
  BY <1>1, <1>2
<1> QED BY <1>3, <1>4, <1>5 DEF n, t

(* A receive: what was ahead of a place still is, but for the head.        *)
LEMMA ReceiveFacts ==
  ASSUME NEW s, Listed(s), s # <<>>
  PROVE  /\ 1 \in DOMAIN s /\ Head(s) = s[1]
         /\ Ahead(s, 1) = {}
         /\ \A i \in DOMAIN Tail(s) :
              /\ i + 1 \in DOMAIN s /\ Tail(s)[i] = s[i + 1]
              /\ \A r \in Ahead(s, i + 1) :
                   r \in Ahead(Tail(s), i) \/ (~IsBarrier(Head(s)) /\ r = Head(s).rec)
         /\ \A r \in Queued(s) :
              r \in Queued(Tail(s)) \/ (~IsBarrier(Head(s)) /\ r = Head(s).rec)
<1> DEFINE n == Len(s)
           t == Tail(s)
<1>1. /\ n \in Nat /\ n >= 1 /\ DOMAIN s = 1 .. n /\ Head(s) = s[1]
      /\ DOMAIN t = 1 .. n - 1 /\ Len(t) = n - 1
      /\ \A i \in 1 .. n - 1 : t[i] = s[i + 1]
  BY TailFacts
<1> HIDE DEF n, t
<1>2. ASSUME NEW i \in 1 .. n, NEW r \in Ahead(s, i + 1)
      PROVE  r \in Ahead(t, i) \/ (~IsBarrier(Head(s)) /\ r = Head(s).rec)
  <2>1. PICK k \in 1 .. n : k < i + 1 /\ ~IsBarrier(s[k]) /\ r = s[k].rec
    BY <1>1, <1>2 DEF Ahead
  <2>2. CASE k = 1
    BY <1>1, <2>1, <2>2
  <2>3. CASE k # 1
    <3> DEFINE m == k - 1
    <3>1. m \in 1 .. n - 1 /\ m < i /\ t[m] = s[k]
      BY <1>1, <2>1, <2>3
    <3> HIDE DEF m
    <3>2. m \in DOMAIN t /\ m < i /\ ~IsBarrier(t[m]) /\ r = t[m].rec
      BY <1>1, <2>1, <3>1
    <3> QED BY <3>2, Zenon DEF Ahead
  <2> QED BY <2>2, <2>3
<1>3. Queued(s) = Ahead(s, n + 1) /\ Queued(t) = Ahead(t, n)
  BY <1>1 DEF Queued, n
<1>4. Ahead(s, 1) = {}
  BY <1>1 DEF Ahead
<1>5. n \in 1 .. n /\ \A i \in DOMAIN t : i \in 1 .. n /\ i + 1 \in DOMAIN s
  BY <1>1
<1>6. \A r \in Queued(s) : r \in Queued(t) \/ (~IsBarrier(Head(s)) /\ r = Head(s).rec)
  BY <1>2, <1>3, <1>5
<1>7. \A i \in DOMAIN t : \A r \in Ahead(s, i + 1) :
         r \in Ahead(t, i) \/ (~IsBarrier(Head(s)) /\ r = Head(s).rec)
  BY <1>2, <1>5, Zenon
<1>8. 1 \in DOMAIN s /\ \A i \in DOMAIN t : t[i] = s[i + 1]
  BY <1>1
<1> QED BY <1>1, <1>4, <1>5, <1>6, <1>7, <1>8, Zenon DEF t

(* An empty queue has nothing in it. *)
LEMMA EmptyFacts == Listed(<<>>) /\ Queued(<<>>) = {} /\ DOMAIN << >> = {}
<1>1. Listed(<<>>)
  BY DEF Listed
<1> QED BY <1>1 DEF Queued, Ahead

-----------------------------------------------------------------------------
(* What a step does to the files. *)

(* Files nobody touches say the same. *)
LEMMA FilesStay == UNCHANGED files => Written' = Written /\ Corrupt' = Corrupt
BY DEF Written, Corrupt, Present

(* A write that is answered by a line, a count or torn bytes: what was     *)
(* written stays, and the record is in the files or counted, unless it     *)
(* ran into torn bytes.                                                    *)
LEMMA OutcomeFacts ==
  ASSUME FilesOK, NEW item, AppendOutcome(item)
  PROVE  /\ FilesOK'
         /\ Written \subseteq Written' /\ Corrupt \subseteq Corrupt' /\ lost \subseteq lost'
         /\ Corrupt' = {} => item.rec \in Written' \cup lost'
         /\ owed' = owed
<1>1. CASE Appends(item)
  <2> DEFINE line == Entry(ws.seq + 1, item.rec, ws.hash)
  <2>1. PICK f \in Files : files' = WithLine(f, line)
    BY <1>1 DEF Appends
  <2>2. line.kind = "entry" /\ line.rec = item.rec
    BY DEF Entry
  <2>3. lost' = lost /\ owed' = owed /\ damaged' = damaged
    BY <1>1 DEF Appends
  <2> HIDE DEF line
  <2>4. /\ DOMAIN files' = Files /\ \A g \in Files : Listed(files'[g])
        /\ Grows
        /\ Corrupt = {} => line.rec \in Written' /\ Corrupt' = {}
    BY <2>1, <2>2, LineAdded
  <2>5. Written \subseteq Written' /\ Corrupt \subseteq Corrupt'
    BY <2>4, GrowsFacts
  <2> QED BY <2>2, <2>3, <2>4, <2>5 DEF FilesOK
<1>2. CASE OpenFails(item)
  <2>1. files' = files /\ lost' = lost \cup {item.rec} /\ owed' = owed /\ damaged' = damaged
    BY <1>2 DEF OpenFails
  <2> QED BY <2>1, FilesStay DEF FilesOK
<1>3. CASE WriteFails(item)
  <2>1. /\ lost' = lost \cup {item.rec} /\ owed' = owed /\ damaged'
    BY <1>3 DEF WriteFails
  <2>2. PICK f \in Files :
          files' \in {WithLine(f, Torn), [files EXCEPT ![f] = IF @ = Absent THEN <<>> ELSE @]}
    BY <1>3 DEF WriteFails
  <2>3. DOMAIN files' = Files /\ (\A g \in Files : Listed(files'[g])) /\ Grows
    <3>1. CASE files' = WithLine(f, Torn)
      BY <3>1, LineAdded
    <3>2. CASE files' = [files EXCEPT ![f] = IF @ = Absent THEN <<>> ELSE @]
      BY <3>2, EmptyFacts DEF FilesOK, Grows
    <3> QED BY <2>2, <3>1, <3>2
  <2>4. Written \subseteq Written' /\ Corrupt \subseteq Corrupt'
    BY <2>3, GrowsFacts
  <2> QED BY <2>1, <2>3, <2>4 DEF FilesOK
<1> QED BY <1>1, <1>2, <1>3 DEF AppendOutcome

(* A boot finds no process, and starts with the genesis entry at most.     *)
LEMMA BootFacts ==
  Boot => /\ closing = "dead" /\ closing' = "open" /\ writer' = "running"
          /\ queue' = <<>> \/ \E d \in 1 .. Days : queue' = <<Item(Tamper, d)>>
          /\ files' = files /\ log' = log /\ stamp' = stamp /\ query' = query
          /\ lost' = lost /\ owed' = owed /\ damaged' = damaged
BY Zenon DEF Boot, clients, ghosts

(* Every step leaves files that are well formed, and takes nothing back.   *)
LEMMA FilesStep ==
  ASSUME AuditInv, AuditNext
  PROVE  /\ FilesOK'
         /\ Written \subseteq Written' /\ Corrupt \subseteq Corrupt' /\ lost \subseteq lost'
<1> USE DEF AuditInv
<1>1. ASSUME UNCHANGED <<files, lost, damaged>>
      PROVE  /\ FilesOK'
             /\ Written \subseteq Written' /\ Corrupt \subseteq Corrupt' /\ lost \subseteq lost'
  BY <1>1, FilesStay DEF FilesOK
<1>2. ASSUME NEW r \in Recs, LogStep(r) PROVE UNCHANGED <<files, lost, damaged>>
  BY <1>2 DEF LogStep, LogCalled, LogSends, LogGivesUp, ghosts
<1>3. ASSUME NEW q \in Queries, QueryStep(q) PROVE UNCHANGED <<files, lost, damaged>>
  BY <1>3 DEF QueryStep, QueryCalled, QuerySends, QueryGivesUp, QueryReads, ghosts
<1>4. CASE WriterAppends
  BY <1>4, OutcomeFacts DEF WriterAppends
<1>5. CASE WriterSyncs \/ WriterTicks \/ WriterStops \/ WriterEnds
  BY <1>1, <1>5 DEF WriterSyncs, WriterTicks, WriterStops, WriterEnds, ghosts
<1>6. CASE CloseMarks \/ CloseStops \/ CloseReturns \/ Boot
  BY <1>1, <1>6, BootFacts DEF CloseMarks, CloseStops, CloseReturns, ghosts
<1>7. CASE Crash
  <2>1. lost \subseteq lost'
    BY <1>7 DEF Crash
  <2>2. \/ UNCHANGED <<files, damaged>>
        \/ damaged' /\ \E f \in Files : files' = WithLine(f, Torn)
    BY <1>7, Zenon DEF Crash
  <2>3. CASE UNCHANGED <<files, damaged>>
    BY <2>1, <2>3, FilesStay DEF FilesOK
  <2>4. CASE damaged' /\ \E f \in Files : files' = WithLine(f, Torn)
    <3>1. DOMAIN files' = Files /\ (\A g \in Files : Listed(files'[g])) /\ Grows
      BY <2>4, LineAdded
    <3> QED BY <2>1, <2>4, <3>1, GrowsFacts DEF FilesOK
  <2> QED BY <2>2, <2>3, <2>4
<1> QED BY <1>1, <1>2, <1>3, <1>4, <1>5, <1>6, <1>7, Zenon DEF AuditNext, WriterStep

(* The queue stays a queue of records and barriers, the calls stay calls.  *)
LEMMA ShapeStep ==
  ASSUME AuditInv, AuditNext
  PROVE  (Listed(queue) /\ QueueOK /\ CallsOK)'
<1> USE DEF AuditInv
<1>0. ASSUME NEW e, RequestOK(e),
             queue' = queue \/ queue' = Append(queue, e)
      PROVE  (Listed(queue) /\ QueueOK)'
  <2>1. CASE queue' = queue
    BY <2>1 DEF QueueOK
  <2>2. CASE queue' = Append(queue, e)
    <3> DEFINE n == Len(queue)
    <3>1. /\ Listed(queue') /\ n \in Nat /\ DOMAIN queue = 1 .. n /\ DOMAIN queue' = 1 .. n + 1
          /\ \A i \in 1 .. n : queue'[i] = queue[i]
          /\ queue'[n + 1] = e
      BY <2>2, AppendFacts
    <3> HIDE DEF n
    <3>2. ASSUME NEW i \in DOMAIN queue' PROVE i \in DOMAIN queue \/ i = n + 1
      BY <3>1
    <3> QED BY <1>0, <3>1, <3>2, Zenon DEF QueueOK
  <2> QED BY <1>0, <2>1, <2>2
<1>1. ASSUME NEW r \in Recs, LogStep(r) PROVE (Listed(queue) /\ QueueOK /\ CallsOK)'
  <2>1. CallsOK'
    <3>1. \E at, d : d \in Nat /\ LogTo(r, at, d)
      <4>1. \A d \in 1 .. Days : d \in Nat
        BY AuditBounds
      <4>2. 0 \in Nat
        OBVIOUS
      <4>3. ASSUME LogCalled(r) PROVE \E at, d : d \in Nat /\ LogTo(r, at, d)
        BY <4>1, <4>2, <4>3, Zenon DEF LogCalled
      <4> QED BY <1>1, <4>2, <4>3, Zenon DEF LogStep, LogSends, LogGivesUp
    <3> QED BY <1>1, <3>1 DEF LogTo, CallsOK, LogStep, LogCalled, LogSends, LogGivesUp
  <2>2. queue' = queue \/ queue' = Append(queue, Item(r, stamp[r]))
    BY <1>1 DEF LogStep, LogCalled, LogSends, LogGivesUp
  <2>3. RequestOK(Item(r, stamp[r]))
    BY RequestFacts DEF RequestOK, CallsOK
  <2> QED BY <1>0, <2>1, <2>2, <2>3, Zenon
<1>2. ASSUME NEW q \in Queries, QueryStep(q) PROVE (Listed(queue) /\ QueueOK /\ CallsOK)'
  <2>1. CallsOK'
    BY <1>2 DEF QueryStep, QueryCalled, QuerySends, QueryGivesUp, QueryReads, QueryTo, CallsOK
  <2>2. queue' = queue \/ queue' = Append(queue, Barrier(q))
    BY <1>2 DEF QueryStep, QueryCalled, QuerySends, QueryGivesUp, QueryReads
  <2>3. RequestOK(Barrier(q))
    BY RequestFacts, Zenon DEF RequestOK
  <2> QED BY <1>0, <2>1, <2>2, <2>3, Zenon
<1>3. CASE WriterAppends \/ WriterSyncs
  <2>1. CallsOK'
    BY <1>3 DEF WriterAppends, WriterSyncs, CallsOK, clients
  <2>2. queue # <<>> /\ queue' = Tail(queue)
    BY <1>3 DEF WriterAppends, WriterSyncs
  <2>3. /\ Listed(queue')
        /\ \A i \in DOMAIN queue' : i + 1 \in DOMAIN queue /\ queue'[i] = queue[i + 1]
    BY <2>2, TailFacts, ReceiveFacts
  <2> QED BY <2>1, <2>3 DEF QueueOK
<1>4. ASSUME UNCHANGED <<queue, log, stamp, query>> PROVE (Listed(queue) /\ QueueOK /\ CallsOK)'
  BY <1>4 DEF QueueOK, CallsOK
<1>5. CASE WriterTicks \/ WriterStops \/ WriterEnds \/ CloseMarks \/ CloseStops \/ CloseReturns
            
  BY <1>4, <1>5 DEF WriterTicks, WriterStops, WriterEnds, CloseMarks, CloseStops,
                    CloseReturns, clients
<1>6. CASE Boot
  <2>1. CallsOK'
    BY <1>6, BootFacts DEF CallsOK
  <2>2. CASE queue' = <<>>
    BY <2>1, <2>2, EmptyFacts DEF QueueOK
  <2>3. ASSUME NEW d \in 1 .. Days, queue' = <<Item(Tamper, d)>>
        PROVE  (Listed(queue) /\ QueueOK)'
    <3>1. Listed(queue') /\ DOMAIN queue' = {1} /\ queue'[1] = Item(Tamper, d)
      <4> DEFINE e == Item(Tamper, d)
      <4> HIDE DEF e
      <4>1. <<e>> \in Seq({e}) /\ DOMAIN <<e>> = {1} /\ <<e>>[1] = e
        OBVIOUS
      <4> QED BY <2>3, <4>1, Zenon DEF e, Listed
    <3>2. RequestOK(Item(Tamper, d))
      <4>1. d \in Nat
        BY AuditBounds
      <4> QED BY <4>1, RequestFacts, Zenon DEF RequestOK
    <3> QED BY <3>1, <3>2, Zenon DEF QueueOK
  <2> QED BY <1>6, <2>1, <2>2, <2>3, BootFacts, Zenon
<1>7. CASE Crash
  <2>1. queue' = <<>> /\ CallsOK'
    BY <1>7 DEF Crash, CallsOK
  <2> QED BY <2>1, EmptyFacts DEF QueueOK
<1> QED BY <1>1, <1>2, <1>3, <1>5, <1>6, <1>7, Zenon DEF AuditNext, WriterStep

(* Nobody stays behind in a process that is gone. *)
LEMMA DeadStep ==
  ASSUME AuditInv, AuditNext
  PROVE  DeadIsOver'
<1> USE DEF AuditInv, CallsOK, DeadIsOver
<1>1. ASSUME NEW r \in Recs, LogStep(r) PROVE DeadIsOver'
  BY <1>1 DEF LogStep, LogCalled, LogSends, LogGivesUp, LogTo, process, Up
<1>2. ASSUME NEW q \in Queries, QueryStep(q) PROVE DeadIsOver'
  BY <1>2 DEF QueryStep, QueryCalled, QuerySends, QueryGivesUp, QueryReads, QueryTo, process
<1>3. CASE WriterAppends \/ WriterSyncs
  BY <1>3 DEF WriterAppends, WriterSyncs, process, clients, Up
<1>4. CASE WriterTicks \/ WriterStops \/ WriterEnds
  BY <1>4 DEF WriterTicks, WriterStops, WriterEnds, process, clients
<1>5. CASE CloseMarks \/ CloseStops \/ CloseReturns \/ Boot
  BY <1>5, BootFacts DEF CloseMarks, CloseStops, CloseReturns, process, clients, Up
<1>6. CASE Crash
  BY <1>6 DEF Crash
<1> QED BY <1>1, <1>2, <1>3, <1>4, <1>5, <1>6, Zenon DEF AuditNext, WriterStep

(* Nothing that a record, a query or Close counts on is taken back.        *)
LEMMA WayStep ==
  ASSUME AuditInv, AuditNext
  PROVE  OnTheWay'
<1> USE DEF AuditInv
<1>0. Safe \subseteq Safe' /\ (Corrupt' = {} => Corrupt = {})
  BY FilesStep DEF Safe
<1>1. ASSUME UNCHANGED <<queue, query>>, Accepted' = Accepted, owed' \subseteq Accepted,
             writer' = "gone" => queue = <<>> \/ (writer = "gone" /\ owed' = owed)
      PROVE  OnTheWay'
  BY <1>0, <1>1, EmptyFacts DEF OnTheWay
<1>2. ASSUME UNCHANGED log PROVE Accepted' = Accepted
  BY <1>2 DEF Accepted
<1>3. ASSUME NEW r \in Recs, LogCalled(r) \/ LogGivesUp(r) PROVE OnTheWay'
  <2>1. Accepted' = Accepted
    BY <1>3 DEF LogCalled, LogGivesUp, LogTo, Accepted, CallsOK
  <2>2. UNCHANGED <<queue, query, owed, writer>>
    BY <1>3, Zenon DEF LogCalled, LogGivesUp, ghosts, process
  <2>3. owed \subseteq Accepted
    BY Zenon DEF OnTheWay
  <2>4. queue' = queue /\ query' = query /\ owed' = owed /\ writer' = writer
    BY <2>2
  <2> QED BY <1>1, <2>1, <2>3, <2>4, Zenon
<1>4. ASSUME NEW r \in Recs, LogSends(r) PROVE OnTheWay'
  <2>1. Accepted' = Accepted \cup {r} /\ UNCHANGED <<query, owed, writer>>
        /\ queue' = Append(queue, Item(r, stamp[r]))
    BY <1>4 DEF LogSends, LogTo, Accepted, CallsOK, ghosts, process
  <2>2. /\ \A i \in DOMAIN queue : Ahead(queue, i) \subseteq Ahead(queue', i)
        /\ Queued(queue) \cup {r} \subseteq Queued(queue')
    BY <2>1, SendFacts, RequestFacts
  <2>3. ASSUME NEW q, NEW i \in DOMAIN queue', queue'[i] = Barrier(q)
        PROVE  i \in DOMAIN queue /\ queue[i] = Barrier(q)
    BY <2>1, <2>3, AppendFacts, RequestFacts
  <2> QED BY <1>0, <2>1, <2>2, <2>3 DEF OnTheWay
<1>5. ASSUME NEW q \in Queries, QueryCalled(q) \/ QueryGivesUp(q) \/ QueryReads(q)
      PROVE  OnTheWay'
  <2>1. UNCHANGED <<queue, log, owed, writer>>
    BY <1>5 DEF QueryCalled, QueryGivesUp, QueryReads, ghosts, process
  <2>2. \/ /\ query[q].at = "new" /\ query'[q].at \in {"sending", "unsynced"}
           /\ query'[q].before = Accepted
        \/ query'[q].at \in {"failed", "answered", "read"}
    BY <1>5 DEF QueryCalled, QueryGivesUp, QueryReads, QueryTo, CallsOK
  <2>3. \A p \in Queries \ {q} : query'[p] = query[p]
    BY <1>5 DEF QueryCalled, QueryGivesUp, QueryReads, QueryTo, CallsOK
  <2> QED BY <1>0, <1>2, <2>1, <2>2, <2>3 DEF OnTheWay
<1>6. ASSUME NEW q \in Queries, QuerySends(q) PROVE OnTheWay'
  <2>1. UNCHANGED <<log, owed, writer>> /\ queue' = Append(queue, Barrier(q))
    BY <1>6 DEF QuerySends, ghosts, process
  <2>2. /\ query[q].at = "sending" /\ query'[q].at = "waiting"
        /\ query'[q].before = query[q].before
        /\ \A p \in Queries \ {q} : query'[p] = query[p]
    BY <1>6 DEF QuerySends, QueryTo, CallsOK
  <2>3. /\ \A i \in DOMAIN queue : Ahead(queue, i) \subseteq Ahead(queue', i)
        /\ Queued(queue) \subseteq Queued(queue')
        /\ Queued(queue) \subseteq Ahead(queue', Len(queue) + 1)
    BY <2>1, SendFacts
  <2>4. ASSUME NEW p, NEW i \in DOMAIN queue', queue'[i] = Barrier(p)
        PROVE  \/ i \in DOMAIN queue /\ queue[i] = Barrier(p)
               \/ i = Len(queue) + 1 /\ p = q
    BY <2>1, <2>4, AppendFacts, RequestFacts
  <2> QED BY <1>0, <1>2, <2>1, <2>2, <2>3, <2>4 DEF OnTheWay
<1>7. CASE WriterAppends
  <2>1. UNCHANGED <<query, log, owed, writer>> /\ queue # <<>> /\ queue' = Tail(queue)
    BY <1>7, OutcomeFacts DEF WriterAppends, process, clients
  <2>2. Corrupt' = {} => Head(queue).rec \in Safe'
    BY <1>7, OutcomeFacts DEF WriterAppends, Safe
  <2>3. /\ \A i \in DOMAIN queue' :
             /\ i + 1 \in DOMAIN queue /\ queue'[i] = queue[i + 1]
             /\ \A r \in Ahead(queue, i + 1) : r \in Ahead(queue', i) \/ r = Head(queue).rec
        /\ \A r \in Queued(queue) : r \in Queued(queue') \/ r = Head(queue).rec
    BY <2>1, ReceiveFacts
  <2> QED BY <1>0, <1>2, <2>1, <2>2, <2>3 DEF OnTheWay
<1>8. CASE WriterSyncs
  <2>1. UNCHANGED <<log, owed, writer>> /\ queue # <<>> /\ queue' = Tail(queue)
        /\ IsBarrier(Head(queue))
    BY <1>8 DEF WriterSyncs, process, ghosts
  <2>2. /\ 1 \in DOMAIN queue /\ Head(queue) = queue[1] /\ Ahead(queue, 1) = {}
        /\ \A i \in DOMAIN queue' :
             /\ i + 1 \in DOMAIN queue /\ queue'[i] = queue[i + 1]
             /\ Ahead(queue, i + 1) \subseteq Ahead(queue', i)
        /\ Queued(queue) \subseteq Queued(queue')
    BY <2>1, ReceiveFacts
  <2>3. PICK q \in Queries : queue[1] = Barrier(q)
    BY <2>1, <2>2, Zenon DEF QueueOK, RequestOK
  <2>4. /\ query'[q].at = IF query[q].at = "waiting" THEN "synced" ELSE query[q].at
        /\ query'[q].before = query[q].before
        /\ \A p \in Queries \ {q} : query'[p] = query[p]
    BY <1>8, <2>2, <2>3, RequestFacts DEF WriterSyncs, CallsOK
  <2> QED BY <1>0, <1>2, <2>1, <2>2, <2>3, <2>4 DEF OnTheWay
<1>9. CASE WriterTicks \/ WriterStops \/ WriterEnds \/ CloseMarks \/ CloseStops \/ CloseReturns
  <2>1. UNCHANGED <<queue, query, log>>
    BY <1>9 DEF WriterTicks, WriterStops, WriterEnds, CloseMarks, CloseStops, CloseReturns,
                clients
  <2>2. /\ owed' = owed \/ (owed' = Accepted /\ writer' # "gone")
        /\ writer' = "gone" => queue = <<>> \/ writer = "gone"
    BY <1>9 DEF WriterTicks, WriterStops, WriterEnds, CloseMarks, CloseStops, CloseReturns,
                process, ghosts, Up
  <2>3. owed \subseteq Accepted /\ Accepted \subseteq Accepted
    BY Zenon DEF OnTheWay
  <2>4. queue' = queue /\ query' = query /\ log' = log
    BY <2>1
  <2> QED BY <1>1, <1>2, <2>2, <2>3, <2>4, Zenon
<1>10. CASE Boot
  <2>1. UNCHANGED <<log, query, owed>> /\ writer' = "running" /\ queue = <<>>
    BY <1>10, BootFacts DEF DeadIsOver
  <2>2. ASSUME NEW q, NEW i \in DOMAIN queue' PROVE queue'[i] # Barrier(q)
    BY <1>10, BootFacts, RequestFacts
  <2> QED BY <1>0, <1>2, <2>1, <2>2, EmptyFacts DEF OnTheWay
<1>11. CASE Crash
  <2>1. Queued(queue) \subseteq Safe'
    <3>1. lost' = lost \cup {i.rec : i \in {j \in Range(queue) : ~IsBarrier(j)}}
      BY <1>11, Zenon DEF Crash
    <3> QED BY <3>1, Zenon DEF Safe, Queued, Ahead, Range
  <2>2. Accepted' = Accepted
    BY <1>11 DEF Crash, Accepted, CallsOK
  <2>3. \A q \in Queries : /\ query'[q].at \in {"new", "answered", "read", "failed"}
    BY <1>11 DEF Crash, CallsOK
  <2>4. queue' = <<>> /\ owed' = owed
    BY <1>11 DEF Crash
  <2> QED BY <1>0, <2>1, <2>2, <2>3, <2>4, EmptyFacts DEF OnTheWay
<1> QED BY <1>3, <1>4, <1>5, <1>6, <1>7, <1>8, <1>9, <1>10, <1>11, Zenon
        DEF AuditNext, WriterStep, LogStep, QueryStep

-----------------------------------------------------------------------------
(* AuditInv holds at the start and is kept by every step. *)
LEMMA AuditInvariance == AuditSpec => []AuditInv
<1>1. AuditInit => AuditInv
  <2> SUFFICES ASSUME AuditInit PROVE AuditInv
    OBVIOUS
  <2>1. FilesOK
    <3>1. Listed(Absent)
      <4> DEFINE e == [kind |-> "absent"]
      <4>1. <<e>> \in Seq({e})
        OBVIOUS
      <4> QED BY <4>1, Zenon DEF Absent, Listed
    <3>2. Corrupt = {}
      BY LineByLine DEF ByLine, AuditInit
    <3> QED BY <3>1, <3>2 DEF AuditInit, FilesOK
  <2>2. queue = <<>> /\ Accepted = {} /\ owed = {} /\ CallsOK /\ DeadIsOver
    BY DEF AuditInit, Accepted, CallsOK, DeadIsOver
  <2>3. OnTheWay
    BY <2>2, EmptyFacts DEF AuditInit, OnTheWay
  <2> QED BY <2>1, <2>2, <2>3, EmptyFacts DEF AuditInv, QueueOK
<1>2. AuditInv /\ [AuditNext]_auditVars => AuditInv'
  <2>1. CASE AuditNext
    BY <2>1, FilesStep, ShapeStep, DeadStep, WayStep, Zenon DEF AuditInv
  <2>2. ASSUME AuditInv, UNCHANGED auditVars PROVE AuditInv'
    <3>1. /\ Written' = Written /\ Corrupt' = Corrupt
          /\ UNCHANGED <<files, queue, writer, closing, log, stamp, query, lost, owed, damaged>>
      BY <2>2, FilesStay DEF auditVars
    <3>2. FilesOK'
      BY <2>2, <3>1 DEF AuditInv, FilesOK
    <3>3. (Listed(queue) /\ QueueOK /\ CallsOK)'
      BY <2>2, <3>1 DEF AuditInv, QueueOK, CallsOK
    <3>4. DeadIsOver'
      BY <2>2, <3>1 DEF AuditInv, DeadIsOver
    <3>5. OnTheWay'
      <4>1. Accepted' = Accepted /\ Safe' = Safe
        BY <3>1 DEF Accepted, Safe
      <4>2. queue' = queue /\ writer' = writer /\ query' = query /\ owed' = owed
        BY <3>1
      <4> QED BY <2>2, <3>1, <4>1, <4>2, Zenon DEF AuditInv, OnTheWay
    <3> QED BY <3>2, <3>3, <3>4, <3>5 DEF AuditInv
  <2> QED BY <2>1, <2>2, Zenon
<1> QED BY <1>1, <1>2, PTL DEF AuditSpec

(* Query's flush: an answer that came through its barrier holds every      *)
(* record whose Log had returned before, or the record was counted as      *)
(* dropped; for any records, queries, queue size, faults and crashes.      *)
THEOREM QueriesSeeTheLogged == AuditSpec => []LoggedIsObservable
<1>1. AuditInit => LoggedIsObservable
  BY DEF AuditInit, LoggedIsObservable
<1>2. AuditInv /\ LoggedIsObservable /\ [AuditNext]_auditVars => LoggedIsObservable'
  <2> SUFFICES ASSUME AuditInv, LoggedIsObservable, [AuditNext]_auditVars,
                      NEW q \in Queries, query'[q].at = "answered"
               PROVE  query'[q].before \subseteq query'[q].saw \cup lost'
    BY DEF LoggedIsObservable
  <2>0. lost \subseteq lost'
    BY FilesStep DEF auditVars
  <2> DEFINE Same == /\ query[q].at = "answered"
                     /\ query'[q].before = query[q].before /\ query'[q].saw = query[q].saw
  <2>1. CASE Same
    BY <2>0, <2>1 DEF LoggedIsObservable
  <2>2. CASE QueryReads(q)
    BY <2>0, <2>2 DEF QueryReads, AuditInv, CallsOK, OnTheWay, Safe
  <2>3. Same \/ QueryReads(q)
    <3>0. query' = query => Same
      OBVIOUS
    <3>1. ASSUME NEW p \in Queries, QueryStep(p) PROVE Same \/ QueryReads(q)
      BY <3>1 DEF QueryStep, QueryCalled, QuerySends, QueryGivesUp, QueryReads, QueryTo,
                  AuditInv, CallsOK
    <3>2. CASE WriterSyncs
      BY <3>2 DEF WriterSyncs, AuditInv, CallsOK
    <3>6. CASE Crash
      <4>1. query'[q] = IF query[q].at \in {"new", "answered", "read"}
                        THEN query[q] ELSE [query[q] EXCEPT !.at = "failed"]
        BY <3>6 DEF Crash
      <4> QED BY <4>1 DEF AuditInv, CallsOK
    <3>3. ASSUME NEW r \in Recs, LogStep(r) PROVE query' = query
      BY <3>3 DEF LogStep, LogCalled, LogSends, LogGivesUp
    <3>4. CASE \/ WriterAppends \/ WriterTicks \/ WriterStops \/ WriterEnds
               \/ CloseMarks \/ CloseStops \/ CloseReturns \/ Boot
      BY <3>4, BootFacts DEF WriterAppends, WriterTicks, WriterStops, WriterEnds,
         CloseMarks, CloseStops, CloseReturns, clients
    <3>5. CASE UNCHANGED auditVars
      BY <3>5 DEF auditVars
    <3> QED BY <3>0, <3>1, <3>2, <3>3, <3>4, <3>5, <3>6, Zenon DEF AuditNext, WriterStep
  <2> QED BY <2>1, <2>2, <2>3
<1> QED BY <1>1, <1>2, AuditInvariance, PTL DEF AuditSpec

(* Close: when it returns in time, every record whose Log had returned     *)
(* before it was called is in the files or was counted, whatever else was  *)
(* under way.                                                              *)
THEOREM CloseDrains == AuditSpec => []ClosedIsDrained
<1>1. AuditInv => ClosedIsDrained
  BY DEF AuditInv, FilesOK, DeadIsOver, OnTheWay, ClosedIsDrained, Safe
<1> QED BY <1>1, AuditInvariance, PTL

-----------------------------------------------------------------------------
(* Functions by recursion over the naturals, as in QueueProofs: the files  *)
(* are read one after the other.                                           *)

INSTANCE WellFoundedInduction

(* The order of the naturals is well founded. *)
LEMMA LeastNumber ==
  ASSUME NEW T \in SUBSET Nat, T # {}
  PROVE  \E n \in T : \A m \in T : n <= m
<1>1. PICK n \in T : \A m \in T : ~ (<<m, n>> \in OpToRel(<, Nat))
  BY NatLessThanWellFounded, WFMin, Zenon
<1>2. ASSUME NEW m \in T, m < n PROVE <<m, n>> \in OpToRel(<, Nat)
  BY <1>2 DEF OpToRel
<1>3. \A m \in T : ~ (m < n)
  BY <1>1, <1>2, Zenon
<1>4. \A m \in T : n <= m
  BY <1>3
<1> QED BY <1>4, Zenon

(* A set that has 0, and n + 1 whenever it has n, has every natural.       *)
LEMMA Induction ==
  ASSUME NEW S, 0 \in S, \A n \in Nat : n \in S => n + 1 \in S
  PROVE  Nat \subseteq S
<1> SUFFICES ASSUME Nat \ S # {} PROVE FALSE
  OBVIOUS
<1>0. Nat \ S \in SUBSET Nat
  OBVIOUS
<1>1. PICK n \in Nat \ S : \A m \in Nat \ S : n <= m
  BY <1>0, LeastNumber, Zenon
<1>2. n # 0 /\ n - 1 \in Nat
  BY <1>1
<1>3. n - 1 \in S
  BY <1>1, <1>2
<1> QED BY <1>1, <1>2, <1>3

(* The function f starts with a and goes on by step. *)
Steps(T) == [Nat -> [T -> T]]
Follows(f, T, a, step) ==
  /\ f \in [Nat -> T]
  /\ f[0] = a
  /\ \A n \in Nat : f[n + 1] = step[n + 1][f[n]]

(* A function by recursion over the naturals. *)
LEMMA Recursion ==
  ASSUME NEW T, NEW a \in T, NEW step \in Steps(T)
  PROVE  \E f : Follows(f, T, a, step)
<1> USE DEF Steps
<1> DEFINE Part(n) == {g \in [0 .. n -> T] :
                         g[0] = a /\ \A m \in 1 .. n : g[m] = step[m][g[m - 1]]}
<1>1. \A n \in Nat : Part(n) # {}
  <2> DEFINE S == {n \in Nat : Part(n) # {}}
  <2>1. 0 \in S
    <3>1. [i \in 0 .. 0 |-> a] \in Part(0)
      OBVIOUS
    <3>2. Part(0) # {}
      BY <3>1, Zenon
    <3> QED BY <3>2, Zenon
  <2>2. ASSUME NEW n \in Nat, n \in S PROVE n + 1 \in S
    <3>1. PICK g \in Part(n) : TRUE
      BY <2>2, Zenon
    <3> DEFINE h == [i \in 0 .. n + 1 |-> IF i = n + 1 THEN step[n + 1][g[n]] ELSE g[i]]
    <3>0. g \in [0 .. n -> T] /\ g[0] = a /\ \A m \in 1 .. n : g[m] = step[m][g[m - 1]]
      BY <3>1
    <3>2. h \in [0 .. n + 1 -> T]
      BY <3>0
    <3>3. h[0] = a
      BY <3>0
    <3>4. ASSUME NEW m \in 1 .. n + 1 PROVE h[m] = step[m][h[m - 1]]
      <4>1. CASE m = n + 1
        BY <4>1
      <4>2. CASE m # n + 1
        BY <4>2, <3>0
      <4> QED BY <4>1, <4>2, Zenon
    <3> HIDE DEF h
    <3>5. h \in Part(n + 1)
      BY <3>2, <3>3, <3>4
    <3>6. Part(n + 1) # {} /\ n + 1 \in Nat
      <4>1. n + 1 \in Nat
        OBVIOUS
      <4> QED BY <3>5, <4>1, Zenon
    <3> QED BY <3>6, Zenon
  <2> HIDE DEF S
  <2>3. Nat \subseteq S
    BY <2>1, <2>2, Induction, Zenon
  <2>4. ASSUME NEW n \in Nat PROVE Part(n) # {}
    BY <2>3, Zenon DEF S
  <2> QED BY <2>4, Zenon
<1>2. ASSUME NEW n \in Nat, NEW k \in Nat, NEW g \in Part(n), NEW h \in Part(k)
      PROVE  \A i \in Nat : i <= n /\ i <= k => g[i] = h[i]
  <2> DEFINE S == {i \in Nat : i <= n /\ i <= k => g[i] = h[i]}
  <2>0. /\ g[0] = a /\ \A m \in 1 .. n : g[m] = step[m][g[m - 1]]
        /\ h[0] = a /\ \A m \in 1 .. k : h[m] = step[m][h[m - 1]]
    BY <1>2
  <2>1. 0 \in S
    BY <2>0
  <2>2. ASSUME NEW i \in Nat, i \in S PROVE i + 1 \in S
    <3> SUFFICES ASSUME i + 1 <= n, i + 1 <= k PROVE g[i + 1] = h[i + 1]
      OBVIOUS
    <3>1. g[i] = h[i]
      BY <2>2
    <3>2. g[i + 1] = step[i + 1][g[i]] /\ h[i + 1] = step[i + 1][h[i]]
      BY <2>0
    <3> QED BY <3>1, <3>2
  <2> HIDE DEF S
  <2>3. Nat \subseteq S
    BY <2>1, <2>2, Induction, Zenon
  <2> QED BY <2>3 DEF S
<1> DEFINE G(n) == CHOOSE g \in Part(n) : TRUE
           f == [n \in Nat |-> G(n)[n]]
<1>3. \A n \in Nat : G(n) \in Part(n)
  BY <1>1, Zenon
<1> HIDE DEF G
<1>4. ASSUME NEW n \in Nat
      PROVE  /\ G(n) \in [0 .. n -> T]
             /\ G(n)[0] = a
             /\ \A m \in 1 .. n : G(n)[m] = step[m][G(n)[m - 1]]
  BY <1>3
<1> HIDE DEF Part
<1>5. f \in [Nat -> T] /\ f[0] = a
  BY <1>4
<1>6. ASSUME NEW n \in Nat PROVE f[n + 1] = step[n + 1][f[n]]
  <2>1. G(n + 1)[n] = G(n)[n]
    BY <1>2, <1>3
  <2>2. G(n + 1)[n + 1] = step[n + 1][G(n + 1)[n]]
    BY <1>4
  <2> QED BY <2>1, <2>2
<1> HIDE DEF f
<1>7. Follows(f, T, a, step)
  BY <1>5, <1>6 DEF Follows
<1> QED BY <1>7, Zenon

-----------------------------------------------------------------------------
(* The log as one sequence. *)

(* Where the replay ends. *)
LastFile == Days * (MaxRot + 1)

(* Every file is a sequence of members of S. *)
Typed(fs, S) == \A f \in Files : Content(fs, f) \in Seq(S)

(* How the replay goes from one file to the next. *)
Reading(fs, S) == [n \in Nat |-> [x \in Seq(S) |-> x \o Content(fs, n)]]

(* The replay up to each file. *)
Replay(fs, S, up) ==
  /\ up \in [Nat -> Seq(S)]
  /\ up[0] = <<>>
  /\ \A n \in Nat : up[n + 1] = up[n] \o Content(fs, n + 1)

(* Lines is where a replay of the files ends. *)
LEMMA LinesDefined ==
  ASSUME NEW fs, NEW S, Typed(fs, S)
  PROVE  \E up : Replay(fs, S, up) /\ Lines(fs) = up[LastFile]
<1> DEFINE T == Seq(S)
           Level(f) == [n \in Nat |-> IF n = 0 THEN <<>> ELSE f[n - 1] \o Content(fs, n)]
           up == CHOOSE f : f = Level(f)
<1>1. \A n \in Nat : Content(fs, n) \in T
  BY DEF Typed, Content
<1>2. Reading(fs, S) \in Steps(T)
  BY <1>1 DEF Steps, Reading
<1>3. <<>> \in T
  OBVIOUS
<1> HIDE DEF T
<1>4. PICK f : Follows(f, T, <<>>, Reading(fs, S))
  BY <1>2, <1>3, Recursion, Zenon
<1>5. ASSUME NEW n \in Nat PROVE f[n + 1] = f[n] \o Content(fs, n + 1)
  <2>1. n + 1 \in Nat /\ f[n] \in T /\ f[n + 1] = Reading(fs, S)[n + 1][f[n]]
    BY <1>4 DEF Follows
  <2> QED BY <2>1, Zenon DEF Reading, T
<1>6. ASSUME NEW n \in Nat PROVE f[n] = IF n = 0 THEN <<>> ELSE f[n - 1] \o Content(fs, n)
  <2>1. CASE n = 0
    BY <2>1, <1>4 DEF Follows
  <2>2. CASE n # 0
    <3>1. n - 1 \in Nat /\ n = (n - 1) + 1
      BY <2>2
    <3>2. f[(n - 1) + 1] = f[n - 1] \o Content(fs, (n - 1) + 1)
      BY <1>5, <3>1, Zenon
    <3> QED BY <3>1, <3>2, <2>2, Zenon
  <2> QED BY <2>1, <2>2
<1>7. f = Level(f)
  <2>1. f = [n \in Nat |-> f[n]]
    BY <1>4, Zenon DEF Follows
  <2> QED BY <1>6, <2>1, Zenon
<1>8. up = Level(up)
  BY <1>7, Zenon
<1>9. Lines(fs) = up[LastFile]
  BY Zenon DEF Lines, LastFile
<1> HIDE DEF up
<1>10. \A n \in Nat : up[n] = IF n = 0 THEN <<>> ELSE up[n - 1] \o Content(fs, n)
  BY <1>8, Zenon
<1>11. ASSUME NEW n \in Nat PROVE up[n + 1] = up[n] \o Content(fs, n + 1)
  <2>1. n + 1 \in Nat /\ n + 1 # 0 /\ (n + 1) - 1 = n
    OBVIOUS
  <2>2. up[n + 1] = up[(n + 1) - 1] \o Content(fs, n + 1)
    BY <1>10, <2>1, Zenon
  <2> QED BY <2>1, <2>2, Zenon
<1>12. up[0] = <<>>
  BY <1>10, Zenon
<1>13. up \in [Nat -> Seq(S)]
  <2> DEFINE R == {n \in Nat : up[n] \in T}
  <2>1. 0 \in R
    BY <1>12, <1>3
  <2>2. ASSUME NEW n \in Nat, n \in R PROVE n + 1 \in R
    <3>1. n + 1 \in Nat /\ up[n] \in Seq(S)
      BY <2>2 DEF T
    <3>2. Content(fs, n + 1) \in Seq(S)
      BY <3>1, <1>1, Zenon DEF T
    <3>3. up[n] \o Content(fs, n + 1) \in Seq(S)
      BY <3>1, <3>2
    <3> QED BY <3>1, <3>3, <1>11, Zenon DEF T
  <2> HIDE DEF R
  <2>3. Nat \subseteq R
    BY <2>1, <2>2, Induction, Zenon
  <2>4. up = [n \in Nat |-> up[n]]
    BY <1>8, Zenon
  <2> QED BY <2>3, <2>4 DEF R, T
<1> QED BY <1>9, <1>11, <1>12, <1>13, Zenon DEF Replay


(* No file after h has a line. *)
Over(fs, h) == \A g \in Files : g > h => Content(fs, g) = <<>>

(* Files that agree up to k. *)
Alike(fs, gs, k) == \A g \in Files : g <= k => Content(fs, g) = Content(gs, g)

(* Where no file after h has a line, the replay stays as it is after h. *)
LEMMA Idle ==
  ASSUME NEW fs, NEW S, NEW up, Replay(fs, S, up), NEW h \in Nat, Over(fs, h)
  PROVE  \A n \in Nat : n >= h => up[n] = up[h]
<1> DEFINE R == {n \in Nat : n >= h => up[n] = up[h]}
<1>1. 0 \in R
  <2>1. ASSUME 0 >= h PROVE h = 0
    BY <2>1
  <2> QED BY <2>1
<1>2. ASSUME NEW n \in Nat, n \in R PROVE n + 1 \in R
  <2>1. CASE n >= h
    <3>1. up[n] = up[h] /\ up[n] \in Seq(S) /\ up[n + 1] = up[n] \o Content(fs, n + 1)
      BY <1>2, <2>1, Zenon DEF Replay
    <3>2. n + 1 \in Nat /\ n + 1 > h
      BY <2>1
    <3>3. Content(fs, n + 1) = <<>>
      BY <3>2, Zenon DEF Content, Over
    <3>4. up[n] \o <<>> = up[n]
      BY <3>1
    <3> QED BY <3>1, <3>2, <3>3, <3>4, Zenon
  <2>2. CASE ~ n >= h
    <3>1. ASSUME n + 1 >= h PROVE n + 1 = h
      BY <2>2, <3>1
    <3> QED BY <3>1
  <2> QED BY <2>1, <2>2
<1> HIDE DEF R
<1>3. Nat \subseteq R
  BY <1>1, <1>2, Induction, Zenon
<1> QED BY <1>3 DEF R

(* Files that agree up to k are replayed alike up to k. *)
LEMMA Agree ==
  ASSUME NEW fs, NEW gs, NEW S, NEW up, NEW vp, Replay(fs, S, up), Replay(gs, S, vp),
         NEW k \in Nat, Alike(fs, gs, k)
  PROVE  \A n \in Nat : n <= k => up[n] = vp[n]
<1> DEFINE R == {n \in Nat : n <= k => up[n] = vp[n]}
<1>1. 0 \in R
  BY DEF Replay
<1>2. ASSUME NEW n \in Nat, n \in R PROVE n + 1 \in R
  <2>1. CASE n + 1 <= k
    <3>1. n <= k /\ n + 1 \in Nat
      BY <2>1
    <3>2. /\ up[n] = vp[n]
          /\ up[n + 1] = up[n] \o Content(fs, n + 1)
          /\ vp[n + 1] = vp[n] \o Content(gs, n + 1)
      BY <1>2, <3>1, Zenon DEF Replay
    <3>3. Content(fs, n + 1) = Content(gs, n + 1)
      BY <2>1, <3>1, Zenon DEF Content, Alike
    <3> QED BY <3>1, <3>2, <3>3, Zenon
  <2> QED BY <2>1
<1> HIDE DEF R
<1>3. Nat \subseteq R
  BY <1>1, <1>2, Induction, Zenon
<1> QED BY <1>3 DEF R

(* A sequence of whatever it holds is one of members of any set that has   *)
(* its elements.                                                           *)
LEMMA Member ==
  ASSUME NEW s, Listed(s), NEW S, \A i \in DOMAIN s : s[i] \in S
  PROVE  s \in Seq(S)
<1>1. PICK T : s \in Seq(T)
  BY DEF Listed
<1>2. Len(s) \in Nat /\ DOMAIN s = 1 .. Len(s) /\ s = [i \in 1 .. Len(s) |-> s[i]]
  BY <1>1
<1>3. s \in [1 .. Len(s) -> S]
  BY <1>2, Zenon
<1> QED BY <1>2, <1>3

(* Every file is a sequence. *)
Readable(fs) == DOMAIN fs = Files /\ \A f \in Files : Listed(fs[f])

(* The files have their elements in one set, with any other set. *)
LEMMA Common ==
  ASSUME NEW fs, Readable(fs), NEW gs, Readable(gs)
  PROVE  \E S : Typed(fs, S) /\ Typed(gs, S)
<1> DEFINE S == (UNION {{fs[f][i] : i \in DOMAIN fs[f]} : f \in Files})
                \cup (UNION {{gs[f][i] : i \in DOMAIN gs[f]} : f \in Files})
<1>1. ASSUME NEW f \in Files PROVE Content(fs, f) \in Seq(S)
  <2>1. Listed(fs[f])
    BY Zenon DEF Readable
  <2>2. ASSUME NEW i \in DOMAIN fs[f] PROVE fs[f][i] \in S
    OBVIOUS
  <2> HIDE DEF S
  <2>3. fs[f] \in Seq(S)
    BY <2>1, <2>2, Member, Zenon
  <2>4. <<>> \in Seq(S)
    OBVIOUS
  <2> QED BY <2>3, <2>4, Zenon DEF Content
<1>2. ASSUME NEW f \in Files PROVE Content(gs, f) \in Seq(S)
  <2>1. Listed(gs[f])
    BY Zenon DEF Readable
  <2>2. ASSUME NEW i \in DOMAIN gs[f] PROVE gs[f][i] \in S
    OBVIOUS
  <2> HIDE DEF S
  <2>3. gs[f] \in Seq(S)
    BY <2>1, <2>2, Member, Zenon
  <2>4. <<>> \in Seq(S)
    OBVIOUS
  <2> QED BY <2>3, <2>4, Zenon DEF Content
<1> HIDE DEF S
<1> QED BY <1>1, <1>2, Zenon DEF Typed

(* A line at the end of the last part is a line at the end of the whole. *)
LEMMA AppendLast ==
  ASSUME NEW S, NEW s \in Seq(S), NEW t \in Seq(S), NEW e \in S
  PROVE  s \o Append(t, e) = Append(s \o t, e)
<1> DEFINE a == s \o Append(t, e)
           b == Append(s \o t, e)
<1>1. Append(t, e) \in Seq(S) /\ Len(Append(t, e)) = Len(t) + 1 /\ s \o t \in Seq(S)
      /\ Len(s \o t) = Len(s) + Len(t) /\ Len(s) \in Nat /\ Len(t) \in Nat
  OBVIOUS
<1>2. a \in Seq(S) /\ b \in Seq(S) /\ Len(a) = Len(s) + Len(t) + 1 /\ Len(b) = Len(s) + Len(t) + 1
  BY <1>1
<1>3. ASSUME NEW i \in 1 .. Len(s) + Len(t) + 1 PROVE a[i] = b[i]
  BY <1>1, <1>3
<1> HIDE DEF a, b
<1>4. a = b
  BY <1>1, <1>2, <1>3
<1> QED BY <1>4 DEF a, b


(* The number of files. *)
LEMMA FileNumbers == LastFile \in Nat /\ Files = 1 .. LastFile
<1>1. Days \in Nat /\ MaxRot \in Nat
  BY AuditBounds, TwoDigits
<1>2. LastFile \in Nat
  BY <1>1 DEF LastFile
<1> QED BY <1>2 DEF LastFile, Files

(* The quotient that DayOf takes. *)
LEMMA Division ==
  ASSUME NEW m \in Nat, m > 0, NEW d \in Nat, NEW n \in 0 .. m - 1
  PROVE  (d * m + n) \div m = d
<1> DEFINE q == (d * m + n) \div m
<1>1. q \in Nat /\ m * q <= d * m + n /\ d * m + n < m * q + m
  <2>1. d * m + n \in Nat
    OBVIOUS
  <2> QED BY <2>1
<1> HIDE DEF q
<1>2. ASSUME NEW a \in Nat, NEW b \in Nat, a < b PROVE m * a + m <= m * b
  <2>1. m * (a + 1) <= m * b
    BY <1>2
  <2>2. m * (a + 1) = m * a + m
    OBVIOUS
  <2> QED BY <2>1, <2>2
<1>3. m * d = d * m
  OBVIOUS
<1>4. ~(q < d) /\ ~(d < q)
  BY <1>1, <1>2, <1>3
<1> QED BY <1>1, <1>4 DEF q

(* The names of a day follow one another, and those of a later day follow  *)
(* them all.                                                               *)
LEMMA NameOrder ==
  /\ \A d \in Nat, n \in Int, k \in Int : FileOf(d, n) <= FileOf(d, k) <=> n <= k
  /\ \A d \in Nat, n \in 0 .. MaxRot : FileOf(d, n) \in Files => DayOf(FileOf(d, n)) = d
  /\ \A f \in Files : DayOf(f) \in Nat /\ \A d \in Nat : d > DayOf(f) => f <= FileOf(d, 0)
<1> DEFINE m == MaxRot + 1
<1>0. MaxRot \in Nat /\ m \in Nat /\ m > 0
  BY TwoDigits
<1>1. ASSUME NEW d \in Nat, NEW n \in Int, NEW k \in Int
      PROVE  FileOf(d, n) <= FileOf(d, k) <=> n <= k
  <2>1. (d - 1) * (MaxRot + 1) \in Int
    BY <1>0
  <2> DEFINE c == (d - 1) * (MaxRot + 1)
  <2> HIDE DEF c
  <2>2. FileOf(d, n) = c + n + 1 /\ FileOf(d, k) = c + k + 1 /\ c \in Int
    BY <2>1 DEF FileOf, c
  <2> QED BY <2>2
<1>2. ASSUME NEW d \in Nat, NEW n \in 0 .. MaxRot, FileOf(d, n) \in Files
      PROVE  DayOf(FileOf(d, n)) = d
  <2>1. FileOf(d, n) = (d - 1) * m + n + 1 /\ FileOf(d, n) >= 1
    BY <1>0, <1>2, FileNumbers DEF FileOf
  <2>2. d # 0
    <3>1. d = 0 => (d - 1) * m = 0 - m
      BY <1>0
    <3> HIDE DEF m
    <3> QED BY <1>0, <2>1, <3>1 DEF m
  <2>3. d - 1 \in Nat /\ n \in 0 .. m - 1
    BY <1>0, <2>2
  <2>4. ((d - 1) * m + n) \div m = d - 1
    BY <1>0, <2>3, Division
  <2>5. FileOf(d, n) - 1 = (d - 1) * m + n
    BY <1>0, <2>1, <2>3
  <2> QED BY <2>3, <2>4, <2>5 DEF DayOf
<1>3. ASSUME NEW f \in Files
      PROVE  DayOf(f) \in Nat /\ \A d \in Nat : d > DayOf(f) => f <= FileOf(d, 0)
  <2> DEFINE q == (f - 1) \div m
  <2>1. f - 1 \in Nat /\ DayOf(f) = q + 1
    BY FileNumbers DEF DayOf
  <2>2. q \in Nat /\ f - 1 < m * q + m
    BY <1>0, <2>1
  <2> HIDE DEF q
  <2>3. ASSUME NEW d \in Nat, d > q + 1 PROVE f <= FileOf(d, 0)
    <3>1. m * (q + 1) <= m * (d - 1)
      BY <1>0, <2>2, <2>3
    <3>2. m * (q + 1) = m * q + m /\ m * (d - 1) = (d - 1) * m
      BY <1>0, <2>2
    <3>3. FileOf(d, 0) = (d - 1) * m + 1 /\ (d - 1) * m \in Int /\ m * q \in Int
      BY <1>0, <2>2 DEF FileOf
    <3> DEFINE x == m * q
               y == (d - 1) * m
    <3>4. f - 1 < x + m /\ x + m <= y /\ FileOf(d, 0) = y + 1 /\ x \in Int /\ y \in Int
      BY <2>2, <3>1, <3>2, <3>3
    <3>5. f \in Int
      BY FileNumbers
    <3> HIDE DEF m, x, y
    <3> QED BY <1>0, <3>4, <3>5
  <2> QED BY <2>1, <2>2, <2>3
<1> QED BY <1>1, <1>2, <1>3, Zenon

(* The log is a sequence, and empty when every file is. *)
LEMMA LinesListed ==
  ASSUME NEW fs, Readable(fs)
  PROVE  /\ Listed(Lines(fs))
         /\ (\A f \in Files : Content(fs, f) = <<>>) => Lines(fs) = <<>>
<1>1. PICK S : Typed(fs, S)
  BY Common, Zenon
<1>2. PICK up : Replay(fs, S, up) /\ Lines(fs) = up[LastFile]
  BY <1>1, LinesDefined, Zenon
<1>3. Lines(fs) \in Seq(S)
  BY <1>2, FileNumbers, Zenon DEF Replay
<1>4. ASSUME \A f \in Files : Content(fs, f) = <<>> PROVE Lines(fs) = <<>>
  <2>1. 0 \in Nat /\ LastFile >= 0 /\ Over(fs, 0)
    BY <1>4, FileNumbers DEF Over
  <2>2. up[LastFile] = up[0]
    BY <1>2, <1>4, <2>1, FileNumbers, Idle, Zenon
  <2> QED BY <2>2, <1>2, Zenon DEF Replay
<1> QED BY <1>3, <1>4, Zenon DEF Listed

(* Files of the same lines make the same log. *)
LEMMA LinesSame ==
  ASSUME NEW fs, Readable(fs), NEW gs, Readable(gs),
         \A f \in Files : Content(gs, f) = Content(fs, f)
  PROVE  Lines(gs) = Lines(fs)
<1>1. PICK S : Typed(fs, S) /\ Typed(gs, S)
  BY Common, Zenon
<1>2. PICK up : Replay(fs, S, up) /\ Lines(fs) = up[LastFile]
  BY <1>1, LinesDefined, Zenon
<1>3. PICK vp : Replay(gs, S, vp) /\ Lines(gs) = vp[LastFile]
  BY <1>1, LinesDefined, Zenon
<1>4. Alike(fs, gs, LastFile)
  BY Zenon DEF Alike
<1>5. LastFile \in Nat /\ LastFile <= LastFile
  BY FileNumbers
<1>6. up[LastFile] = vp[LastFile]
  BY <1>2, <1>3, <1>4, <1>5, Agree
<1> QED BY <1>2, <1>3, <1>6, Zenon

(* The last line of the last file that has one is the last of the log. *)
LEMMA LinesLast ==
  ASSUME NEW fs, Readable(fs), NEW f \in Files, Content(fs, f) # <<>>,
         Over(fs, f)
  PROVE  Lines(fs) # <<>> /\ Last(Lines(fs)) = Last(Content(fs, f))
<1>1. PICK S : Typed(fs, S)
  BY Common, Zenon
<1>2. PICK up : Replay(fs, S, up) /\ Lines(fs) = up[LastFile]
  BY <1>1, LinesDefined, Zenon
<1>3. f \in Nat /\ f - 1 \in Nat /\ (f - 1) + 1 = f /\ LastFile \in Nat /\ LastFile >= f
  BY FileNumbers
<1>4. Lines(fs) = up[f]
  BY <1>2, <1>3, Idle
<1>5. up[(f - 1) + 1] = up[f - 1] \o Content(fs, (f - 1) + 1) /\ up[f - 1] \in Seq(S)
  BY <1>2, <1>3, Zenon DEF Replay
<1>6. Lines(fs) = up[f - 1] \o Content(fs, f)
  BY <1>3, <1>4, <1>5, Zenon
<1>7. Content(fs, f) \in Seq(S)
  BY <1>1, Zenon DEF Typed
<1>8. ASSUME NEW s \in Seq(S), NEW t \in Seq(S), t # <<>>
      PROVE  s \o t # <<>> /\ (s \o t)[Len(s \o t)] = t[Len(t)]
  <2>1. Len(s) \in Nat /\ Len(t) \in Nat /\ Len(t) > 0 /\ Len(s \o t) = Len(s) + Len(t)
    BY <1>8
  <2> QED BY <2>1
<1>9. /\ up[f - 1] \o Content(fs, f) # <<>>
      /\ (up[f - 1] \o Content(fs, f))[Len(up[f - 1] \o Content(fs, f))]
           = Content(fs, f)[Len(Content(fs, f))]
  BY <1>5, <1>7, <1>8, Zenon
<1> QED BY <1>6, <1>9, Zenon DEF Last

(* One line more in file f, at its end. *)
Longer(fs, gs, f, line) ==
  /\ \A g \in Files : g # f => Content(gs, g) = Content(fs, g)
  /\ Listed(Content(fs, f))
  /\ Content(gs, f) = Append(Content(fs, f), line)

(* A line appended to the last file that has any is appended to the log. *)
LEMMA LinesGrow ==
  ASSUME NEW fs, Readable(fs), NEW gs, Readable(gs), NEW f \in Files, NEW line,
         Longer(fs, gs, f, line), Over(fs, f)
  PROVE  Lines(gs) = Append(Lines(fs), line)
<1>1. PICK S : Typed(fs, S) /\ Typed(gs, S)
  BY Common, Zenon
<1>2. PICK up : Replay(fs, S, up) /\ Lines(fs) = up[LastFile]
  BY <1>1, LinesDefined, Zenon
<1>3. PICK vp : Replay(gs, S, vp) /\ Lines(gs) = vp[LastFile]
  BY <1>1, LinesDefined, Zenon
<1>4. f \in Nat /\ f - 1 \in Nat /\ (f - 1) + 1 = f /\ LastFile \in Nat /\ LastFile >= f
  BY FileNumbers
<1>5. \A g \in Files : (g > f => g # f) /\ (g <= f - 1 => g # f)
  BY FileNumbers
<1>6. Over(gs, f)
  BY <1>5, Zenon DEF Over, Longer
<1>7. up[LastFile] = up[f] /\ vp[LastFile] = vp[f]
  <2>1. up[LastFile] = up[f]
    BY <1>2, <1>4, Idle
  <2>2. vp[LastFile] = vp[f]
    BY <1>3, <1>4, <1>6, Idle
  <2> QED BY <2>1, <2>2
<1>8. Alike(fs, gs, f - 1)
  BY <1>5, Zenon DEF Alike, Longer
<1>9. f - 1 <= f - 1
  BY <1>4
<1>10. up[f - 1] = vp[f - 1]
  <2>1. \A n \in Nat : n <= f - 1 => up[n] = vp[n]
    BY <1>2, <1>3, <1>4, <1>8, Agree
  <2> QED BY <1>4, <1>9, <2>1, Zenon
<1>11. /\ up[(f - 1) + 1] = up[f - 1] \o Content(fs, (f - 1) + 1) /\ up[f - 1] \in Seq(S)
       /\ vp[(f - 1) + 1] = vp[f - 1] \o Content(gs, (f - 1) + 1)
  BY <1>2, <1>3, <1>4, Zenon DEF Replay
<1>12. /\ Lines(fs) = up[f - 1] \o Content(fs, f)
       /\ Lines(gs) = up[f - 1] \o Append(Content(fs, f), line)
  BY <1>2, <1>3, <1>4, <1>7, <1>10, <1>11, Zenon DEF Longer
<1>13. Content(fs, f) \in Seq(S) /\ Append(Content(fs, f), line) \in Seq(S)
  BY <1>1, Zenon DEF Typed, Longer
<1>14. line \in S
  <2> DEFINE s == Content(fs, f)
             t == Append(Content(fs, f), line)
  <2>1. Len(s) \in Nat /\ DOMAIN t = 1 .. Len(s) + 1 /\ t[Len(s) + 1] = line /\ t \in Seq(S)
    BY <1>13, AppendFacts, Zenon DEF Longer
  <2> HIDE DEF s, t
  <2> QED BY <2>1
<1>15. up[f - 1] \o Append(Content(fs, f), line) = Append(up[f - 1] \o Content(fs, f), line)
  <2> DEFINE s == up[f - 1]
             t == Content(fs, f)
  <2>1. s \in Seq(S) /\ t \in Seq(S)
    BY <1>11, <1>13
  <2> HIDE DEF s, t
  <2>2. s \o Append(t, line) = Append(s \o t, line)
    BY <2>1, <1>14, AppendLast
  <2> QED BY <2>2 DEF s, t
<1> QED BY <1>12, <1>15, Zenon


-----------------------------------------------------------------------------
(* The chain. *)

(* Every line follows from the one before it. *)
Whole(s) == \A i \in DOMAIN s : Sound(s, i)

(* The number and the hash of the last line. *)
AtEnd(s, seq, hash) == seq = Len(s) /\ hash = IF seq = 0 THEN <<>> ELSE s[seq].hash

(* appendLocked at the end of a whole chain makes a whole chain. *)
LEMMA ChainGrows ==
  ASSUME NEW s, Listed(s), Whole(s), NEW seq, NEW hash, AtEnd(s, seq, hash), NEW rec
  PROVE  /\ Whole(Append(s, Entry(seq + 1, rec, hash)))
         /\ AtEnd(Append(s, Entry(seq + 1, rec, hash)), seq + 1, Append(hash, rec))
<1> DEFINE line == Entry(seq + 1, rec, hash)
           t == Append(s, line)
<1>1. line.seq = seq + 1 /\ line.rec = rec /\ line.prev = hash /\ line.hash = Append(hash, rec)
  BY DEF Entry
<1>2. /\ seq = Len(s) /\ seq \in Nat /\ DOMAIN s = 1 .. seq
      /\ DOMAIN t = 1 .. seq + 1 /\ Len(t) = seq + 1
      /\ \A i \in 1 .. seq : t[i] = s[i]
      /\ t[seq + 1] = line
  BY AppendFacts DEF AtEnd
<1> HIDE DEF line, t
<1>3. ASSUME NEW i \in 1 .. seq PROVE Sound(t, i)
  <2>1. t[i] = s[i] /\ (i # 1 => t[i - 1] = s[i - 1]) /\ Sound(s, i)
    BY <1>2 DEF Whole
  <2> QED BY <2>1, Zenon DEF Sound
<1>4. Sound(t, seq + 1)
  <2>1. seq # 0 => t[seq] = s[seq]
    BY <1>2
  <2>2. (seq + 1 = 1 <=> seq = 0) /\ (seq + 1) - 1 = seq
    BY <1>2
  <2>3. hash = IF seq + 1 = 1 THEN <<>> ELSE t[(seq + 1) - 1].hash
    BY <2>1, <2>2, Zenon DEF AtEnd
  <2> QED BY <1>1, <1>2, <2>3, Zenon DEF Sound
<1>5. Whole(t)
  <2>1. \A i \in DOMAIN t : i \in 1 .. seq \/ i = seq + 1
    BY <1>2
  <2> QED BY <1>3, <1>4, <2>1, Zenon DEF Whole
<1>6. AtEnd(t, seq + 1, Append(hash, rec))
  <2>1. seq + 1 # 0
    BY <1>2
  <2> QED BY <1>1, <1>2, <2>1, Zenon DEF AtEnd
<1> QED BY <1>5, <1>6, Zenon DEF t, line

(* The last line of a whole chain says where it ends. *)
LEMMA LastSaysAll ==
  ASSUME NEW s, Listed(s), Whole(s), s # <<>>
  PROVE  AtEnd(s, Last(s).seq, Last(s).hash)
<1>1. Len(s) \in Nat /\ Len(s) # 0 /\ Len(s) \in DOMAIN s
  <2>1. PICK S : s \in Seq(S)
    BY DEF Listed
  <2> QED BY <2>1
<1>2. s[Len(s)].seq = Len(s)
  BY <1>1, Zenon DEF Whole, Sound
<1> QED BY <1>1, <1>2, Zenon DEF AtEnd, Last

(* A replay finds no end to a whole chain but the last line. *)
LEMMA PrefixIsAll ==
  ASSUME Listed(Parsed), Whole(Parsed)
  PROVE  ValidPrefix = Len(Parsed)
<1> DEFINE s == Parsed
           Ends(k) == /\ \A i \in 1 .. k : Sound(s, i)
                      /\ k < Len(s) => ~Sound(s, k + 1)
<1>1. Len(s) \in Nat /\ DOMAIN s = 1 .. Len(s)
  <2>1. PICK S : s \in Seq(S)
    BY DEF Listed
  <2> HIDE DEF s
  <2> QED BY <2>1
<1>2. ValidPrefix = CHOOSE k \in 0 .. Len(s) : Ends(k)
  BY Zenon DEF ValidPrefix
<1>3. \A i \in 1 .. Len(s) : Sound(s, i)
  BY <1>1, Zenon DEF Whole
<1> HIDE DEF s
<1>4. Len(s) \in 0 .. Len(s) /\ Ends(Len(s))
  BY <1>1, <1>3
<1>5. ASSUME NEW k \in 0 .. Len(s), Ends(k) PROVE k = Len(s)
  <2>1. k < Len(s) => k + 1 \in 1 .. Len(s)
    BY <1>1
  <2>2. ~ (k < Len(s))
    BY <1>3, <1>5, <2>1, Zenon
  <2>3. Len(s) \in Int /\ k \in Int /\ k <= Len(s)
    BY <1>1
  <2> QED BY <2>2, <2>3
<1> HIDE DEF Ends
<1>6. ValidPrefix \in 0 .. Len(s) /\ Ends(ValidPrefix)
  BY <1>2, <1>4, Zenon
<1> QED BY <1>5, <1>6, Zenon DEF s

(* A file is one of the files, and the rotations of its day up to it are   *)
(* taken.                                                                  *)
Filled(f, taken) ==
  /\ f \in Files
  /\ \A n \in 1 .. MaxRot : FileOf(DayOf(f), n) <= f => FileOf(DayOf(f), n) \in taken

(* What the writer of a chain that was never damaged or misplaced goes by: *)
(* the last number and hash, and the last file, open behind the rotations  *)
(* of its day.                                                             *)
WriterAtEnd ==
  Up => /\ AtEnd(Lines(files), ws.seq, ws.hash)
        /\ ~ws.genesis
        /\ ws.file # NoFile => \A g \in Present : g <= ws.file
        /\ ws.file # NoFile => Filled(ws.file, Present)

(* What a boot would go by. *)
AnchorAtEnd ==
  closing = "dead" /\ Anchored => \A g \in Present : g > head.file => files[g] = <<>>

(* The fields of the writer's state. *)
Fields == DOMAIN ws = {"file", "seq", "hash", "genesis"}

(* The inductive invariant of the replay. *)
ChainInv ==
  /\ Fields
  /\ ~damaged /\ ~misplaced => Whole(Lines(files)) /\ WriterAtEnd /\ AnchorAtEnd

(* A written line is there. *)
LEMMA LineIsThere ==
  ASSUME NEW s, Listed(s), NEW line, line.kind = "entry"
  PROVE  Append(s, line) # Absent
<1> DEFINE t == Append(s, line)
           n == Len(s) + 1
<1>1. n \in Nat /\ n \in DOMAIN t /\ t[n] = line
  BY AppendFacts
<1>2. DOMAIN Absent = {1} /\ Absent[1].kind = "absent"
  BY DEF Absent
<1> HIDE DEF t, n
<1>3. ASSUME t = Absent PROVE FALSE
  BY <1>1, <1>2, <1>3
<1> QED BY <1>3 DEF t


(* Log, Query, Close, the ticker, an open that fails and the writer's end  *)
(* touch no file, and no head that a boot will read.                       *)
Quiet ==
  /\ UNCHANGED <<files, damaged, misplaced>>
  /\ Up' => Up
  /\ ws'.seq = ws.seq /\ ws'.hash = ws.hash /\ ws'.genesis = ws.genesis
  /\ ws'.file \in {ws.file, NoFile}
  /\ closing' = "dead" => closing = "dead" /\ head' = head

(* Such a step changes nothing the replay goes by. *)
LEMMA QuietKeeps ==
  ASSUME ChainInv, Quiet, Fields'
  PROVE  ChainInv'
<1> SUFFICES ASSUME ~damaged', ~misplaced'
             PROVE  (Whole(Lines(files)) /\ WriterAtEnd /\ AnchorAtEnd)'
  BY DEF ChainInv
<1>1. files' = files /\ Whole(Lines(files)) /\ WriterAtEnd /\ AnchorAtEnd
  BY DEF Quiet, ChainInv
<1>2. Whole(Lines(files')) /\ Present' = Present /\ Lines(files') = Lines(files)
  BY <1>1, Zenon DEF Present
<1>3. WriterAtEnd'
  <2>1. /\ Up' => Up
        /\ ws'.seq = ws.seq /\ ws'.hash = ws.hash /\ ws'.genesis = ws.genesis
        /\ ws'.file = ws.file \/ ws'.file = NoFile
    BY Zenon DEF Quiet
  <2>2. Up' => AtEnd(Lines(files'), ws'.seq, ws'.hash) /\ ~ws'.genesis
    BY <1>1, <1>2, <2>1, Zenon DEF WriterAtEnd
  <2>3. ASSUME Up', ws'.file # NoFile
        PROVE  (\A g \in Present' : g <= ws'.file) /\ Filled(ws'.file, Present')
    <3>1. ws'.file = ws.file /\ Up
      BY <2>1, <2>3, Zenon
    <3> QED BY <1>1, <1>2, <2>3, <3>1, Zenon DEF WriterAtEnd
  <2> QED BY <2>2, <2>3, Zenon DEF WriterAtEnd
<1>4. AnchorAtEnd'
  <2>1. ASSUME closing' = "dead", Anchored'
        PROVE  closing = "dead" /\ Anchored /\ head' = head
    BY <1>1, <1>2, <2>1, Zenon DEF Anchored, Quiet
  <2> QED BY <1>1, <1>2, <2>1, Zenon DEF AnchorAtEnd
<1> QED BY <1>2, <1>3, <1>4

(* The first free rotation of a day. *)
LEMMA FirstFree ==
  ASSUME NEW d \in Nat, NextRotation(d) \in Files
  PROVE  \E n \in 1 .. MaxRot :
           /\ NextRotation(d) = FileOf(d, n)
           /\ FileOf(d, n) \notin Present
           /\ \A k \in 1 .. MaxRot : k < n => FileOf(d, k) \in Present
<1> DEFINE free == {n \in 1 .. MaxRot : FileOf(d, n) \notin Present}
           least == CHOOSE n \in free : \A k \in free : n <= k
<1>1. free # {} /\ NextRotation(d) = FileOf(d, least)
  BY FileNumbers DEF NextRotation, NoFile
<1>2. free \subseteq Nat
  BY TwoDigits
<1>3. \E n \in free : \A k \in free : n <= k
  <2> HIDE DEF free
  <2> QED BY <1>1, <1>2, LeastNumber, Zenon
<1>4. least \in free /\ \A k \in free : least <= k
  BY <1>3, Zenon
<1> HIDE DEF least
<1>5. ASSUME NEW k \in 1 .. MaxRot, k < least PROVE FileOf(d, k) \in Present
  BY <1>2, <1>4, <1>5
<1> QED BY <1>1, <1>4, <1>5, Zenon

(* ensureWriterFileLocked steps forward from the open file: to a later     *)
(* day, or to the first free rotation, which is the next one.              *)
LEMMA PlacedAhead ==
  ASSUME NEW d \in Nat, Placed(d) \in Files, ~ws.genesis,
         ws.file # NoFile => Filled(ws.file, Present)
  PROVE  /\ ws.file # NoFile => ws.file <= Placed(d)
         /\ Filled(Placed(d), Present \cup {Placed(d)})
<1> DEFINE f == Placed(d)
<1>0. MaxRot \in Nat
  BY TwoDigits
<1>1. ASSUME f = FileOf(d, 0) PROVE Filled(f, Present \cup {f})
  <2>1. DayOf(f) = d
    BY <1>0, <1>1, NameOrder
  <2>2. \A n \in 1 .. MaxRot : ~(FileOf(d, n) <= FileOf(d, 0))
    BY <1>0, NameOrder
  <2> QED BY <1>1, <2>1, <2>2, Zenon DEF Filled
<1>2. CASE ws.file = NoFile
  <2>1. f = FileOf(d, 0)
    BY <1>2, Zenon DEF Placed
  <2> QED BY <1>1, <1>2, <2>1, Zenon
<1>3. CASE ws.file # NoFile /\ d > DayOf(ws.file)
  <2>1. f = FileOf(d, 0)
    BY <1>3, Zenon DEF Placed
  <2>2. ws.file <= FileOf(d, 0)
    BY <1>3, NameOrder DEF Filled
  <2> QED BY <1>1, <2>1, <2>2, Zenon
<1>4. CASE ws.file # NoFile /\ f = ws.file
  <2>1. ws.file <= ws.file
    BY <1>4, FileNumbers DEF Filled
  <2> QED BY <1>4, <2>1, Zenon DEF Filled
<1>5. CASE ws.file # NoFile /\ f = NextRotation(DayOf(ws.file))
  <2> DEFINE e == DayOf(ws.file)
  <2>0. e \in Nat /\ ws.file \in Files /\ ws.file \in Int
    BY <1>5, NameOrder, FileNumbers DEF Filled
  <2>1. PICK n \in 1 .. MaxRot :
          /\ f = FileOf(e, n)
          /\ FileOf(e, n) \notin Present
          /\ \A k \in 1 .. MaxRot : k < n => FileOf(e, k) \in Present
    BY <1>5, <2>0, FirstFree, Zenon
  <2>2. ~(f <= ws.file)
    BY <1>5, <2>1, Zenon DEF Filled
  <2>3. n \in 0 .. MaxRot /\ n \in Int /\ f \in Int
    BY <1>0, FileNumbers
  <2>4. DayOf(f) = e
    <3> HIDE DEF e, f
    <3>1. FileOf(e, n) \in Files
      BY <2>1, Zenon DEF f
    <3> QED BY <2>0, <2>1, <2>3, <3>1, NameOrder, Zenon
  <2>5. ws.file <= f
    BY <2>0, <2>2, <2>3
  <2>6. ASSUME NEW k \in 1 .. MaxRot, FileOf(e, k) <= f PROVE FileOf(e, k) \in Present \cup {f}
    <3>1. k \in Int
      BY <1>0
    <3>2. k <= n
      BY <2>0, <2>1, <2>3, <2>6, <3>1, NameOrder, Zenon
    <3>3. k = n \/ k < n
      BY <2>3, <3>1, <3>2
    <3> QED BY <2>1, <3>3, Zenon
  <2> QED BY <2>4, <2>5, <2>6, Zenon DEF Filled
<1>6. ws.file # NoFile => d > DayOf(ws.file) \/ f = ws.file \/ f = NextRotation(DayOf(ws.file))
  BY Zenon DEF Placed
<1> QED BY <1>2, <1>3, <1>4, <1>5, <1>6, Zenon

(* appendLocked in a whole chain: the line is the last of the log. *)
LEMMA AppendExtends ==
  ASSUME AuditInv, ChainInv, Up, NEW item, item.day \in Nat, Appends(item),
         ~damaged', ~misplaced'
  PROVE  Whole(Lines(files)') /\ WriterAtEnd'
<1> DEFINE f == Placed(item.day)
           line == Entry(ws.seq + 1, item.rec, ws.hash)
           old == Content(files, f)
<1>1. /\ f \in Files /\ files' = WithLine(f, line)
      /\ ws' = [file |-> f, seq |-> ws.seq + 1, hash |-> Append(ws.hash, item.rec),
                genesis |-> FALSE]
      /\ misplaced' = (misplaced \/ Reopened(f))
      /\ damaged' = damaged
  BY Zenon DEF Appends
<1>2. line.kind = "entry"
  BY DEF Entry
<1>3. /\ Whole(Lines(files)) /\ AtEnd(Lines(files), ws.seq, ws.hash)
      /\ ws.file # NoFile => \A g \in Present : g <= ws.file
      /\ ws.file # NoFile => Filled(ws.file, Present)
      /\ ~ws.genesis
  <2>1. ~damaged /\ ~misplaced
    BY <1>1, Zenon
  <2> QED BY <2>1, Zenon DEF ChainInv, WriterAtEnd
<1>18. /\ ws.file # NoFile => ws.file <= f /\ ws.file \in Files
       /\ Filled(f, Present \cup {f})
  BY <1>1, <1>3, PlacedAhead, Zenon DEF Filled
<1> HIDE DEF f
<1>4. \A g \in Present : g <= f
  <2>1. ~Reopened(f)
    BY <1>1, Zenon
  <2>2. f \in Int /\ Files \subseteq Int /\ Present \subseteq Int
    BY <1>1, FileNumbers DEF Present
  <2>3. ASSUME ws.file = NoFile, NEW g \in Present PROVE g <= f
    <3>1. ~(g > f)
      BY <2>1, <2>3, Zenon DEF Reopened
    <3> QED BY <2>2, <3>1
  <2>4. ASSUME ws.file # NoFile, NEW g \in Present PROVE g <= f
    <3>1. g <= ws.file /\ ws.file <= f /\ ws.file \in Int
      BY <1>3, <1>18, <2>2, <2>4, Zenon
    <3> QED BY <2>2, <3>1
  <2> QED BY <2>3, <2>4, Zenon
<1>5. Readable(files) /\ Corrupt = {}
  BY <1>1 DEF AuditInv, FilesOK, Readable
<1>6. Listed(old) /\ old = IF files[f] = Absent THEN <<>> ELSE files[f]
  BY <1>1, <1>5, EmptyFacts, Zenon DEF Readable, Content
<1>7. ~ (old # <<>> /\ Last(old) = Torn)
  <2>1. ASSUME old # <<>>, Last(old) = Torn PROVE FALSE
    <3>1. old = files[f] /\ files[f] # Absent
      BY <1>6, <2>1
    <3> HIDE DEF old
    <3>2. Len(old) \in DOMAIN old
      <4>1. PICK S : old \in Seq(S)
        BY <1>6 DEF Listed
      <4> QED BY <4>1, <2>1
    <3> QED BY <1>1, <1>5, <2>1, <3>1, <3>2, LineByLine, Zenon DEF ByLine, Last
  <2> QED BY <2>1
<1>8. files' = [files EXCEPT ![f] = Append(old, line)]
  BY <1>1, <1>6, <1>7, Zenon DEF WithLine
<1> HIDE DEF old, line
<1>9. /\ DOMAIN files' = Files /\ files'[f] = Append(old, line)
      /\ \A g \in Files : g # f => files'[g] = files[g]
  BY <1>1, <1>5, <1>8 DEF Readable
<1>10. Append(old, line) # Absent
  BY <1>2, <1>6, LineIsThere, Zenon
<1>11. Longer(files, files', f, line)
  BY <1>1, <1>6, <1>9, <1>10, Zenon DEF Longer, Content, old
<1>12. Readable(files')
  <2>1. Listed(Append(old, line))
    BY <1>6, AppendFacts, Zenon
  <2> QED BY <1>5, <1>9, <2>1, Zenon DEF Readable
<1>13. Over(files, f)
  <2>1. ASSUME NEW g \in Files, g > f PROVE g \notin Present
    <3>1. g \in Int /\ f \in Int
      BY <1>1, FileNumbers
    <3> QED BY <1>4, <2>1, <3>1
  <2> QED BY <2>1, Zenon DEF Over, Content, Present
<1>14. Lines(files') = Append(Lines(files), line)
  BY <1>1, <1>5, <1>11, <1>12, <1>13, LinesGrow
<1>15. Listed(Lines(files))
  BY <1>5, LinesListed, Zenon
<1>16. /\ Whole(Lines(files'))
       /\ AtEnd(Lines(files'), ws.seq + 1, Append(ws.hash, item.rec))
  BY <1>3, <1>14, <1>15, ChainGrows, Zenon DEF line
<1>17. \A g \in Present' : g <= f
  <2>1. \A g \in Present' : g = f \/ g \in Present
    BY <1>9, Zenon DEF Present
  <2>2. f <= f
    BY <1>1, FileNumbers
  <2> QED BY <1>4, <2>1, <2>2, Zenon
<1>19. Filled(f, Present')
  <2>1. Present \cup {f} \subseteq Present'
    BY <1>1, <1>9, <1>10, Zenon DEF Present
  <2> QED BY <1>18, <2>1, Zenon DEF Filled
<1>20. ws'.file = f /\ ws'.seq = ws.seq + 1 /\ ws'.hash = Append(ws.hash, item.rec) /\ ~ws'.genesis
  BY <1>1
<1> QED BY <1>16, <1>17, <1>19, <1>20, Zenon DEF WriterAtEnd


(* bootValidate of a whole chain resumes at its end: by the anchor, whose  *)
(* line is the last, or by the replay.                                     *)
LEMMA BootResumes ==
  ASSUME AuditInv, ChainInv, Boot, ~damaged, ~misplaced
  PROVE  WriterAtEnd'
<1> DEFINE broken == ValidPrefix < Len(Lines(files))
           s == Lines(files)
<1>1. /\ files' = files
      /\ ws' = IF Present = {} THEN NewWriter(0, <<>>, FALSE)
               ELSE IF Anchored THEN NewWriter(head.seq, head.hash, FALSE)
               ELSE BootAt(ValidPrefix, broken)
  BY Zenon DEF Boot
<1>2. Whole(s) /\ AnchorAtEnd /\ closing = "dead"
  BY Zenon DEF ChainInv, Boot
<1>3. Readable(files) /\ Corrupt = {}
  BY Zenon DEF AuditInv, FilesOK, Readable
<1>4. Listed(s)
  BY <1>3, LinesListed, Zenon
<1>5. ASSUME NEW seq, NEW hash, AtEnd(s, seq, hash), ws' = NewWriter(seq, hash, FALSE)
      PROVE  WriterAtEnd'
  <2> HIDE DEF s
  <2>1. ws'.seq = seq /\ ws'.hash = hash /\ ~ws'.genesis /\ ws'.file = NoFile
    BY <1>5 DEF NewWriter
  <2> QED BY <1>1, <1>5, <2>1, Zenon DEF WriterAtEnd, s
<1>6. CASE Present = {}
  <2>1. \A f \in Files : Content(files, f) = <<>>
    BY <1>6, Zenon DEF Present, Content
  <2>2. s = <<>>
    BY <1>3, <2>1, LinesListed, Zenon
  <2>3. AtEnd(s, 0, <<>>)
    BY <2>2 DEF AtEnd
  <2> QED BY <1>1, <1>5, <1>6, <2>3, Zenon
<1>7. CASE Present # {} /\ Anchored
  <2> DEFINE f == head.file
  <2>1. /\ f \in Files /\ files[f] # Absent /\ files[f] # <<>>
        /\ Last(files[f]).seq = head.seq /\ Last(files[f]).hash = head.hash
    BY <1>7, Zenon DEF Anchored, Present
  <2>2. Content(files, f) = files[f] /\ Content(files, f) # <<>>
    BY <2>1, Zenon DEF Content
  <2>3. Over(files, f)
    BY <1>2, <1>7, Zenon DEF AnchorAtEnd, Over, Content, Present
  <2>4. s # <<>> /\ Last(s) = Last(Content(files, f))
    BY <1>3, <2>1, <2>2, <2>3, LinesLast, Zenon
  <2>5. AtEnd(s, Last(s).seq, Last(s).hash)
    BY <1>2, <1>4, <2>4, LastSaysAll, Zenon
  <2>6. AtEnd(s, head.seq, head.hash)
    BY <2>1, <2>2, <2>4, <2>5, Zenon
  <2> QED BY <1>1, <1>5, <1>7, <2>6, Zenon
<1>8. CASE Present # {} /\ ~Anchored
  <2> DEFINE gs == [f \in Files |-> IF \E g \in Corrupt : g <= f THEN Absent ELSE files[f]]
  <2>1. DOMAIN gs = Files /\ \A f \in Files : gs[f] = files[f]
    BY <1>3, Zenon
  <2>2. Parsed = s
    <3>1. Parsed = Lines(gs)
      BY Zenon DEF Parsed
    <3> HIDE DEF gs
    <3>2. Readable(gs) /\ \A f \in Files : Content(gs, f) = Content(files, f)
      BY <1>3, <2>1, Zenon DEF Readable, Content
    <3> QED BY <1>3, <3>1, <3>2, LinesSame
  <2>3. ValidPrefix = Len(s)
    BY <1>2, <1>4, <2>2, PrefixIsAll, Zenon
  <2>4. Len(s) \in Nat
    BY <1>4, AppendFacts, Zenon
  <2>5. broken = FALSE
    <3> HIDE DEF s
    <3> QED BY <2>3, <2>4 DEF s
  <2>6. BootAt(ValidPrefix, broken)
          = NewWriter(Len(s), IF Len(s) = 0 THEN <<>> ELSE s[Len(s)].hash, FALSE)
    BY <2>2, <2>3, <2>5, Zenon DEF BootAt
  <2> QED BY <1>1, <1>5, <1>8, <2>6, Zenon DEF AtEnd
<1> QED BY <1>6, <1>7, <1>8, Zenon

(* Every step keeps the fields of the writer's state. *)
LEMMA FieldsStep ==
  ASSUME Fields, AuditNext
  PROVE  Fields'
<1> USE DEF Fields
<1>1. ASSUME NEW r \in Recs, LogStep(r) PROVE ws' = ws
  BY <1>1 DEF LogStep, LogCalled, LogSends, LogGivesUp
<1>2. ASSUME NEW q \in Queries, QueryStep(q) PROVE ws' = ws
  BY <1>2 DEF QueryStep, QueryCalled, QuerySends, QueryGivesUp, QueryReads
<1>3. ASSUME NEW item, AppendOutcome(item) PROVE Fields'
  <2>1. CASE Appends(item)
    <3>1. \E f, seq, hash : ws' = [file |-> f, seq |-> seq, hash |-> hash, genesis |-> FALSE]
      BY <2>1, Zenon DEF Appends
    <3> QED BY <3>1
  <2>2. CASE OpenFails(item)
    BY <2>2 DEF OpenFails
  <2>3. CASE WriteFails(item)
    <3>1. \E f : ws' = [ws EXCEPT !.file = f, !.seq = @ + 1]
      BY <2>3, Zenon DEF WriteFails
    <3> QED BY <3>1
  <2> QED BY <1>3, <2>1, <2>2, <2>3, Zenon DEF AppendOutcome
<1>4. CASE WriterAppends
  BY <1>3, <1>4, Zenon DEF WriterAppends
<1>5. CASE WriterEnds
  BY <1>5 DEF WriterEnds
<1>6. CASE \/ WriterSyncs \/ WriterTicks \/ WriterStops
           \/ CloseMarks \/ CloseStops \/ CloseReturns \/ Crash
  BY <1>6, Zenon DEF WriterSyncs, WriterTicks, WriterStops, CloseMarks, CloseStops,
                     CloseReturns, Crash
<1>7. CASE Boot
  <2>1. \E seq, hash, tampered : ws' = NewWriter(seq, hash, tampered)
    BY <1>7, Zenon DEF Boot, BootAt
  <2> QED BY <2>1 DEF NewWriter
<1> QED BY <1>1, <1>2, <1>4, <1>5, <1>6, <1>7, Zenon DEF AuditNext, WriterStep


(* The steps that are Quiet. *)
LEMMA QuietSteps ==
  ASSUME AuditInv, ChainInv, AuditNext
  PROVE  Quiet \/ (Up /\ WriterAppends /\ ~OpenFails(Head(queue))) \/ Crash \/ Boot
<1> DEFINE Same == UNCHANGED <<files, ws, damaged, misplaced, head, closing, writer>>
<1>0. Same => Quiet
  BY DEF Quiet, Up
<1>1. ASSUME NEW r \in Recs, LogStep(r) PROVE Quiet
  <2>1. Same
    BY <1>1, Zenon DEF LogStep, LogCalled, LogSends, LogGivesUp, ghosts, process
  <2> QED BY <1>0, <2>1, Zenon
<1>2. ASSUME NEW q \in Queries, QueryStep(q) PROVE Quiet
  <2>1. Same
    BY <1>2, Zenon DEF QueryStep, QueryCalled, QuerySends, QueryGivesUp, QueryReads, ghosts,
                       process
  <2> QED BY <1>0, <2>1, Zenon
<1>3. Up => closing # "dead"
  BY DEF AuditInv, DeadIsOver, Up
<1>4. CASE WriterAppends /\ OpenFails(Head(queue))
  <2>1. /\ UNCHANGED <<files, damaged, misplaced, closing, writer>>
        /\ ws' = [ws EXCEPT !.file = NoFile] /\ Up
    BY <1>4, Zenon DEF WriterAppends, OpenFails, process
  <2> QED BY <1>3, <2>1 DEF Quiet, Up, ChainInv, Fields
<1>5. CASE WriterSyncs \/ WriterTicks
  <2>1. UNCHANGED <<files, ws, damaged, misplaced, closing, writer>> /\ Up
    BY <1>5 DEF WriterSyncs, WriterTicks, ghosts, process, Up
  <2> QED BY <1>3, <2>1 DEF Quiet, Up
<1>6. CASE WriterEnds
  <2>1. /\ UNCHANGED <<files, damaged, misplaced, closing>>
        /\ ws' = [ws EXCEPT !.file = NoFile] /\ Up /\ writer' = "gone"
    BY <1>6 DEF WriterEnds, ghosts, Up
  <2> QED BY <1>3, <2>1 DEF Quiet, Up, ChainInv, Fields
<1>7. CASE WriterStops \/ CloseMarks \/ CloseStops \/ CloseReturns
  <2>1. /\ UNCHANGED <<files, ws, damaged, misplaced, head>>
        /\ closing' = "dead" => closing = "dead"
        /\ Up' => Up
    BY <1>7 DEF WriterStops, CloseMarks, CloseStops, CloseReturns, ghosts, process, Up
  <2> QED BY <2>1 DEF Quiet
<1>8. WriterAppends => Up
  BY DEF WriterAppends
<1> QED BY <1>1, <1>2, <1>4, <1>5, <1>6, <1>7, <1>8, Zenon DEF AuditNext, WriterStep

(* Every step keeps the chain whole, the writer and the anchor at its end. *)
LEMMA ChainStep ==
  ASSUME AuditInv, ChainInv, AuditNext
  PROVE  ChainInv'
<1>1. Fields'
  BY FieldsStep, Zenon DEF ChainInv
<1>2. CASE Quiet
  BY <1>1, <1>2, QuietKeeps, Zenon
<1>3. ASSUME ~damaged', ~misplaced', Up, WriterAppends, ~OpenFails(Head(queue))
      PROVE  (Whole(Lines(files)) /\ WriterAtEnd /\ AnchorAtEnd)'
  <2>1. Appends(Head(queue))
    BY <1>3, Zenon DEF WriterAppends, AppendOutcome, WriteFails
  <2>4. Head(queue).day \in Nat
    <3>1. 1 \in DOMAIN queue /\ Head(queue) = queue[1]
      BY <1>3, ReceiveFacts DEF WriterAppends, AuditInv
    <3> QED BY <1>3, <3>1, Zenon DEF WriterAppends, AuditInv, QueueOK, RequestOK
  <2>2. closing' # "dead"
    BY <1>3 DEF WriterAppends, process, AuditInv, DeadIsOver, Up
  <2>3. AnchorAtEnd'
    BY <2>2, Zenon DEF AnchorAtEnd
  <2> QED BY <1>3, <2>1, <2>3, <2>4, AppendExtends, Zenon
<1>4. ASSUME ~damaged', ~misplaced', Crash
      PROVE  (Whole(Lines(files)) /\ WriterAtEnd /\ AnchorAtEnd)'
  <2>1. /\ files' = files /\ damaged' = damaged /\ head' = head /\ writer' = "gone"
        /\ misplaced' = \/ misplaced
                        \/ Anchored /\ \E g \in Present : g > head.file /\ files[g] # <<>>
    BY <1>4, Zenon DEF Crash
  <2>2. ~damaged /\ ~misplaced
    BY <1>4, <2>1, Zenon
  <2>3. Whole(Lines(files'))
    BY <2>1, <2>2, Zenon DEF ChainInv
  <2>4. WriterAtEnd'
    BY <2>1 DEF WriterAtEnd, Up
  <2>5. (Anchored' <=> Anchored) /\ Present' = Present
    BY <2>1, Zenon DEF Anchored, Present
  <2>6. Anchored => \A g \in Present : g > head.file => files[g] = <<>>
    BY <1>4, <2>1, Zenon
  <2>7. AnchorAtEnd'
    BY <2>1, <2>5, <2>6, Zenon DEF AnchorAtEnd
  <2> QED BY <2>3, <2>4, <2>7, Zenon
<1>5. ASSUME ~damaged', ~misplaced', Boot
      PROVE  (Whole(Lines(files)) /\ WriterAtEnd /\ AnchorAtEnd)'
  <2>1. files' = files /\ damaged' = damaged /\ misplaced' = misplaced /\ closing' = "open"
    BY <1>5, Zenon DEF Boot, ghosts
  <2>2. ~damaged /\ ~misplaced
    BY <1>5, <2>1, Zenon
  <2>3. Whole(Lines(files'))
    BY <2>1, <2>2, Zenon DEF ChainInv
  <2>4. AnchorAtEnd'
    BY <2>1 DEF AnchorAtEnd
  <2>5. WriterAtEnd'
    BY <1>5, <2>2, BootResumes, Zenon
  <2> QED BY <2>3, <2>4, <2>5, Zenon
<1> QED BY <1>1, <1>2, <1>3, <1>4, <1>5, QuietSteps, Zenon DEF ChainInv

(* ChainInv holds at the start and is kept by every step. *)
LEMMA ChainInvariance == AuditSpec => []ChainInv
<1>1. AuditInit /\ AuditInv => ChainInv
  <2> SUFFICES ASSUME AuditInit, AuditInv PROVE ChainInv
    OBVIOUS
  <2>1. /\ files = [f \in Files |-> Absent] /\ closing = "open"
        /\ ws = NewWriter(0, <<>>, FALSE)
    BY Zenon DEF AuditInit
  <2>2. Readable(files)
    BY Zenon DEF AuditInv, FilesOK, Readable
  <2>3. \A f \in Files : Content(files, f) = <<>>
    BY <2>1, Zenon DEF Content
  <2>4. Lines(files) = <<>>
    BY <2>2, <2>3, LinesListed, Zenon
  <2>5. Fields /\ ws.seq = 0 /\ ws.hash = <<>> /\ ~ws.genesis /\ ws.file = NoFile
    <3>1. ws = [file |-> NoFile, seq |-> 0, hash |-> <<>>, genesis |-> FALSE]
      BY <2>1, Zenon DEF NewWriter
    <3>2. ws.seq = 0 /\ ws.hash = <<>> /\ ~ws.genesis /\ ws.file = NoFile
      BY <3>1, Zenon
    <3>3. DOMAIN ws = {"file", "seq", "hash", "genesis"}
      BY <3>1
    <3> QED BY <3>2, <3>3, Zenon DEF Fields
  <2>6. AtEnd(<<>>, 0, <<>>) /\ Whole(<<>>)
    BY EmptyFacts DEF AtEnd, Whole
  <2>7. WriterAtEnd
    BY <2>4, <2>5, <2>6, Zenon DEF WriterAtEnd
  <2>8. AnchorAtEnd
    BY <2>1 DEF AnchorAtEnd
  <2> QED BY <2>4, <2>5, <2>6, <2>7, <2>8, Zenon DEF ChainInv
<1>2. AuditInv /\ ChainInv /\ [AuditNext]_auditVars => ChainInv'
  <2>1. CASE AuditNext
    BY <2>1, ChainStep, Zenon
  <2>2. ASSUME ChainInv, UNCHANGED auditVars PROVE ChainInv'
    <3>1. Fields' /\ Quiet
      BY <2>2 DEF auditVars, ChainInv, Fields, Quiet, Up
    <3> QED BY <2>2, <3>1, QuietKeeps, Zenon
  <2> QED BY <2>1, <2>2, Zenon
<1> QED BY <1>1, <1>2, AuditInvariance, PTL DEF AuditSpec

(* VerifyChain: as long as no line was torn, no write failed, no process   *)
(* left an anchor that checks out with lines in a later file and no day    *)
(* file was opened again after its rotations, every line follows from the  *)
(* one before it, across any crashes, boots, rollovers and failed opens.   *)
THEOREM ChainStaysWhole == AuditSpec => []ChainReplays
<1>1. ChainInv => ChainReplays
  BY Zenon DEF ChainInv, ChainReplays, Whole
<1> QED BY <1>1, ChainInvariance, PTL

=============================================================================
