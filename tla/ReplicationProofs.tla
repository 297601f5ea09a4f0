------------------------- MODULE ReplicationProofs --------------------------
(***************************************************************************)
(* Proofs about Replication, for every number of callers, every limit and  *)
(* every bound: as long as no line of its log is malformed, the replica    *)
(* never claims more than it has on disk, and holds a prefix of the        *)
(* master's log if no two entries share a second; and between two starts   *)
(* it applies entries in order, whatever its log has lost.                 *)
(***************************************************************************)
EXTENDS Replication, FiniteSetTheorems, TLAPS

Thread ==
    [pc : {"idle", "pull", "check", "apply", "newline", "mark"}, from : Nat, batch : Seq(Nat),
     batch_seen : SUBSET Nat, count : Nat]

\* The types, and the shape of a batch: what is left of an interval of
\* positions of the log, not empty while its first entry is being applied.
TypeOK ==
    /\ log \in Seq([time : Nat, refused : BOOLEAN])
    /\ registered \in Nat
    /\ store \in Seq(Nat) /\ local \in Seq(Nat)
    /\ line \in {"blank", "entry", "malformed"} /\ spoilt \in BOOLEAN
    /\ line = "malformed" => spoilt
    /\ last_applied_index \in Nat
    /\ applied_entry_timestamps \in SUBSET Nat
    /\ thread \in [Syncers -> Thread]
    /\ seeded \in Nat
    /\ clean \in BOOLEAN
    /\ \A t \in Syncers :
        LET b == thread[t].batch
        IN  /\ thread[t].pc = "idle" => thread[t].count = 0
            /\ thread[t].pc \in {"apply", "newline", "mark"} => b # <<>>
            /\ \A i \in 1..Len(b) : b[i] \in 1..Len(log) /\ b[i] = b[1] + (i - 1)

\* The caller has applied an entry and not yet marked it.
Unmarked(t) == thread[t].pc \in {"newline", "mark"}

\* The entries a caller has applied and not yet counted in last_applied_index.
Pending(t) == thread[t].count + (IF Unmarked(t) THEN 1 ELSE 0)

\* Every position of the local log is claimed at most once: by
\* last_applied_index, or by one caller that has applied it and not yet counted
\* it there.
Shared(mine, done) ==
    /\ \A t \in Syncers : mine[t] \cap done = {}
    /\ \A t, u \in Syncers : t # u => mine[t] \cap mine[u] = {}
    /\ \A t \in Syncers : Pending(t) <= Cardinality(mine[t])
    /\ last_applied_index <= Cardinality(done)

Claims ==
    /\ registered <= Len(local)
    /\ \A t \in Syncers : thread[t].from <= Len(local)
    /\ \E mine \in [Syncers -> SUBSET (1..Len(local))], done \in SUBSET (1..Len(local)) :
          Shared(mine, done)

\* The entries applied since the last start.
Session == (seeded + 1)..Len(store)

\* The second of an entry that is applied and not yet marked.
Marking == {Time(thread[t].batch[1]) : t \in {t \in Syncers : Unmarked(t)}}

\* What is counted, and what is about to be, is in the store.
Counted ==
    \A t \in Syncers : /\ last_applied_index + Pending(t) <= Len(store)
                      /\ thread[t].from <= Len(store)

\* The order of the entries rests on the guards: the second of every entry up
\* to the last one applied, skipped ones included, is in the guard, so what
\* passes the guard comes later in the log.
Order ==
    /\ own = "idle"
    /\ ~spoilt => local = store
    /\ Counted
    /\ \A t, u \in Syncers : At(t, "idle") \/ At(u, "idle") \/ t = u
    /\ seeded <= last_applied_index /\ seeded <= Len(store)
    /\ \A i, j \in Session : i < j => store[i] < store[j]
    /\ \A i \in Session : i <= store[i] /\ store[i] <= Len(log)
    /\ \A i \in Session : \A n \in (seeded + 1)..store[i] :
          Time(n) \in applied_entry_timestamps \cup Marking

\* The same for the batch of the caller that is under way.
Guarded(t) ==
    LET th == thread[t]
        n == th.batch[1]
    IN  /\ ~At(t, "idle") => seeded <= th.from
        /\ th.batch # <<>> =>
              /\ seeded < n
              /\ \A m \in (seeded + 1)..(n - 1) : Time(m) \in applied_entry_timestamps
        /\ At(t, "pull") \/ At(t, "check") => th.batch_seen \subseteq applied_entry_timestamps
        /\ At(t, "apply") \/ Unmarked(t) =>
              th.batch_seen \subseteq applied_entry_timestamps \cup {Time(n)}
        /\ At(t, "apply") => Time(n) \notin applied_entry_timestamps
        /\ Unmarked(t) => seeded < Len(store) /\ store[Len(store)] = n

\* With one entry a second, nothing is skipped that has not been applied.
Prefix ==
    /\ \A i \in 1..Len(store) : store[i] = i
    /\ Len(store) <= Len(log)
    /\ \A x \in applied_entry_timestamps : \E i \in Session : x = Time(i)

Inv ==
    /\ TypeOK
    /\ ~spoilt => Claims
    /\ clean => Order /\ \A t \in Syncers : Guarded(t)
    /\ clean /\ ~spoilt /\ Distinct => Prefix

-----------------------------------------------------------------------------
(* Types *)

LEMMA IdleType == Idle \in Thread
  BY DEF Idle, Thread

\* A step of one caller leaves the others alone.
LEMMA GotoFacts ==
    ASSUME TypeOK, NEW t \in Syncers, NEW th \in Thread, Goto(t, th)
    PROVE  /\ thread' \in [Syncers -> Thread]
           /\ thread'[t] = th
           /\ \A u \in Syncers : u # t => thread'[u] = thread[u]
  BY DEF TypeOK, Goto

\* The batch the master serves: an interval of positions of its log.
LEMMA BatchServed ==
    ASSUME TypeOK, NEW from \in Nat
    PROVE  /\ get_wal_entries(from) \in Seq(Nat)
           /\ \A i \in 1..Len(get_wal_entries(from)) :
                /\ get_wal_entries(from)[i] = from + i
                /\ get_wal_entries(from)[i] \in 1..Len(log)
<1> DEFINE end == IF from + Limit < Len(log) THEN from + Limit ELSE Len(log)
<1>1. CASE from >= Len(log)
  BY <1>1 DEF get_wal_entries
<1>2. CASE ~(from >= Len(log))
  <2>1. end \in Nat /\ Len(log) \in Nat /\ end - from \in Nat /\ end <= Len(log)
    BY <1>2, ReplicationAssumption DEF TypeOK
  <2>2. get_wal_entries(from) = [i \in 1..(end - from) |-> from + i]
    BY <1>2 DEF get_wal_entries
  <2> HIDE DEF end
  <2>3. get_wal_entries(from) \in Seq(Nat) /\ Len(get_wal_entries(from)) = end - from
    BY <2>1, <2>2
  <2> QED BY <2>1, <2>2, <2>3
<1> QED BY <1>1, <1>2

LEMMA TimeType == ASSUME TypeOK, NEW n \in 1..Len(log) PROVE Time(n) \in Nat
<1> DEFINE R == [time : Nat, refused : BOOLEAN]
<1>1. log \in Seq(R)
  BY DEF TypeOK
<1>2. \A r \in R : r.time \in Nat
  OBVIOUS
<1> HIDE DEF R
<1>3. log[n] \in R
  BY <1>1
<1> QED BY <1>2, <1>3 DEF Time

\* What is left of a batch is of the same shape.
LEMMA TailOfBatch ==
    ASSUME TypeOK, NEW t \in Syncers, thread[t].batch # <<>>
    PROVE  LET b == thread[t].batch
           IN  /\ b \in Seq(Nat) /\ b[1] \in 1..Len(log)
               /\ Tail(b) \in Seq(Nat)
               /\ \A i \in 1..Len(Tail(b)) :
                    /\ Tail(b)[i] \in 1..Len(log)
                    /\ Tail(b)[i] = Tail(b)[1] + (i - 1)
               /\ Tail(b) # <<>> => Tail(b)[1] = b[1] + 1
<1> DEFINE b == thread[t].batch
<1>1. b \in Seq(Nat) /\ Len(b) > 0
  BY DEF TypeOK, Thread
<1>2. \A i \in 1..Len(b) : b[i] \in 1..Len(log) /\ b[i] = b[1] + (i - 1)
  BY DEF TypeOK
<1> HIDE DEF b
<1>3. /\ Tail(b) \in Seq(Nat) /\ Len(Tail(b)) = Len(b) - 1
      /\ \A i \in 1..Len(Tail(b)) : Tail(b)[i] = b[i + 1]
  BY <1>1
<1>4. ASSUME NEW i \in 1..Len(Tail(b))
      PROVE  /\ Tail(b)[i] \in 1..Len(log)
             /\ Tail(b)[i] = b[1] + i
  BY <1>1, <1>2, <1>3
<1>5. Tail(b) # <<>> => 1 \in 1..Len(Tail(b))
  BY <1>3
<1>6. b[1] \in Nat /\ b[1] \in 1..Len(log)
  BY <1>1, <1>2
<1>7. \A i \in 1..Len(Tail(b)) : Tail(b)[i] = Tail(b)[1] + (i - 1)
  <2> TAKE i \in 1..Len(Tail(b))
  <2>1. 1 \in 1..Len(Tail(b)) /\ i \in Nat
    BY <1>3
  <2>2. Tail(b)[1] = b[1] + 1 /\ Tail(b)[i] = b[1] + i
    BY <2>1, <1>4
  <2> QED BY <2>1, <2>2, <1>6
<1> QED BY <1>1, <1>3, <1>4, <1>5, <1>6, <1>7 DEF b

\* The conjunct of TypeOK about one caller.
BatchOK(t) ==
    LET b == thread[t].batch
    IN  /\ thread[t].pc = "idle" => thread[t].count = 0
        /\ thread[t].pc \in {"apply", "newline", "mark"} => b # <<>>
        /\ \A i \in 1..Len(b) : b[i] \in 1..Len(log) /\ b[i] = b[1] + (i - 1)

\* What the log file holds.
FileOK ==
    /\ local \in Seq(Nat) /\ line \in {"blank", "entry", "malformed"} /\ spoilt \in BOOLEAN
    /\ line = "malformed" => spoilt

\* A write leaves the file such, and adds an entry or spoils a line.
LEMMA FileFacts ==
    ASSUME FileOK, NEW n \in Nat,
           write_text(n) \/ cut_text \/ write_newline \/ UNCHANGED file
    PROVE  /\ FileOK'
           /\ spoilt => spoilt'
           /\ write_text(n) /\ ~spoilt' => local' = Append(local, n)
           /\ cut_text => spoilt'
           /\ write_newline \/ UNCHANGED file => local' = local /\ spoilt' = spoilt
           /\ ~spoilt' => local' = local \/ local' = Append(local, n)
<1>1. ASSUME cut_text
      PROVE  FileOK' /\ spoilt'
  <2>1. PICK f \in Seq(Nat) : f = local
    BY DEF FileOK
  <2>2. Front(f) \in Seq(Nat)
    BY DEF Front
  <2>3. local' \in Seq(Nat)
    BY <1>1, <2>1, <2>2 DEF cut_text
  <2> QED BY <1>1, <2>3 DEF cut_text, FileOK
<1>2. ASSUME write_text(n), line = "blank"
      PROVE  FileOK' /\ spoilt' = spoilt /\ local' = Append(local, n)
  BY <1>2 DEF write_text, FileOK
<1>3. ASSUME write_text(n), line # "blank"
      PROVE  cut_text
  BY <1>3 DEF write_text
<1>4. ASSUME write_newline \/ UNCHANGED file
      PROVE  FileOK' /\ local' = local /\ spoilt' = spoilt
  BY <1>4 DEF write_newline, file, FileOK
<1> QED BY <1>1, <1>2, <1>3, <1>4

LEMMA TypeInit == Init => TypeOK
<1> SUFFICES ASSUME Init PROVE TypeOK
  OBVIOUS
<1>1. thread \in [Syncers -> Thread] /\ \A t \in Syncers : thread[t] = Idle
  BY IdleType DEF Init
<1>2. \A t \in Syncers : BatchOK(t)
  BY <1>1 DEF BatchOK, Idle
<1>3. spoilt = FALSE /\ clean = TRUE /\ line = "blank"
  BY DEF Init
<1>4. spoilt \in BOOLEAN /\ clean \in BOOLEAN
  BY <1>3, Zenon
<1>5. /\ <<>> \in Seq([time : Nat, refused : BOOLEAN]) /\ <<>> \in Seq(Nat)
      /\ 0 \in Nat /\ {} \in SUBSET Nat /\ "blank" # "malformed"
  OBVIOUS
<1>6. /\ log = <<>> /\ registered = 0 /\ store = <<>> /\ local = <<>>
      /\ last_applied_index = 0 /\ applied_entry_timestamps = {} /\ seeded = 0
  BY DEF Init
<1>7. line \in {"blank", "entry", "malformed"} /\ (line = "malformed" => spoilt)
  BY <1>3, <1>5, Zenon
<1> QED BY <1>1, <1>2, <1>4, <1>5, <1>6, <1>7, Zenon DEF TypeOK, BatchOK

LEMMA IdleBatch == ASSUME NEW t \in Syncers, thread[t] = Idle PROVE BatchOK(t)
  BY DEF BatchOK, Idle

\* A step of one caller that leaves the log alone.
LEMMA ThreadStep ==
    ASSUME TypeOK, NEW t \in Syncers, NEW th \in Thread, Goto(t, th), log' = log,
           BatchOK(t)'
    PROVE  thread' \in [Syncers -> Thread] /\ \A u \in Syncers : BatchOK(u)'
<1>1. thread' \in [Syncers -> Thread] /\ \A u \in Syncers : u # t => thread'[u] = thread[u]
  BY GotoFacts
<1>2. ASSUME NEW u \in Syncers PROVE BatchOK(u)'
  <2>1. CASE u = t
    BY <2>1
  <2>2. CASE u # t
    BY <2>2, <1>1 DEF TypeOK, BatchOK
  <2> QED BY <2>1, <2>2
<1> QED BY <1>1, <1>2

LEMMA HeadOfBatch ==
    ASSUME TypeOK, NEW t \in Syncers, thread[t].batch # <<>>
    PROVE  /\ Len(log) \in Nat
           /\ thread[t].batch[1] \in 1..Len(log) /\ thread[t].batch[1] \in Nat
           /\ Tail(thread[t].batch) # <<>> =>
                Tail(thread[t].batch)[1] = thread[t].batch[1] + 1
<1>1. Len(log) \in Nat
  BY DEF TypeOK
<1>2. /\ thread[t].batch[1] \in 1..Len(log)
      /\ Tail(thread[t].batch) # <<>> => Tail(thread[t].batch)[1] = thread[t].batch[1] + 1
  BY TailOfBatch
<1> QED BY <1>1, <1>2

LEMMA TypeStep == ASSUME TypeOK, Next PROVE TypeOK'
<1> USE DEF replica
<1>0. \A t \in Syncers : thread[t] \in Thread /\ BatchOK(t)
  BY DEF TypeOK, BatchOK
<1>a. TypeOK' <=> /\ log' \in Seq([time : Nat, refused : BOOLEAN])
                  /\ registered' \in Nat
                  /\ store' \in Seq(Nat) /\ FileOK'
                  /\ last_applied_index' \in Nat
                  /\ applied_entry_timestamps' \in SUBSET Nat
                  /\ thread' \in [Syncers -> Thread]
                  /\ seeded' \in Nat
                  /\ clean' \in BOOLEAN
                  /\ \A t \in Syncers : BatchOK(t)'
  BY DEF TypeOK, BatchOK, FileOK
<1>b. FileOK /\ (UNCHANGED file => FileOK')
  BY DEF TypeOK, FileOK, file
<1>1. ASSUME NEW refused \in BOOLEAN, NEW later \in 0..1, MasterAppend(refused, later)
      PROVE  TypeOK'
  <2> DEFINE second == IF log = <<>> THEN 0 ELSE Last(log).time + later
  <2>1. second \in Nat
    <3>1. CASE log = <<>>
      BY <3>1
    <3>2. CASE log # <<>>
      <4>1. Len(log) \in 1..Len(log)
        BY <3>2 DEF TypeOK
      <4>2. Last(log).time \in Nat
        BY <4>1, TimeType DEF Last, Time
      <4> QED BY <3>2, <4>2
    <3> QED BY <3>1, <3>2
  <2>2. log' = Append(log, [time |-> second, refused |-> refused])
    BY <1>1 DEF MasterAppend
  <2> HIDE DEF second
  <2>3. log' \in Seq([time : Nat, refused : BOOLEAN]) /\ Len(log') = Len(log) + 1
    BY <2>1, <2>2 DEF TypeOK
  <2>4. \A t \in Syncers : BatchOK(t)'
    <3>1. thread' = thread /\ Len(log) \in Nat
      BY <1>1 DEF MasterAppend, TypeOK
    <3>2. \A i \in 1..Len(log) : i \in 1..Len(log')
      BY <2>3, <3>1
    <3> QED BY <1>0, <3>1, <3>2 DEF BatchOK
  <2> QED BY <1>1, <1>a, <1>b, <2>3, <2>4 DEF MasterAppend, TypeOK
<1>2. ASSUME NEW t \in Syncers, StartSync(t) PROVE TypeOK'
  <2> DEFINE th == [Idle EXCEPT !.pc = "pull", !.from = last_applied_index]
  <2>1. th \in Thread /\ th.batch = <<>> /\ th.pc = "pull"
    <3>1. last_applied_index \in Nat
      BY DEF TypeOK
    <3>2. Idle \in Thread /\ Idle.batch = <<>>
      BY IdleType DEF Idle
    <3> QED BY <3>1, <3>2 DEF Thread
  <2>2. Goto(t, th) /\ log' = log
    BY <1>2 DEF StartSync
  <2> HIDE DEF th
  <2>3. BatchOK(t)'
    BY <2>1, <2>2, GotoFacts DEF BatchOK
  <2>4. thread' \in [Syncers -> Thread] /\ \A u \in Syncers : BatchOK(u)'
    BY <2>1, <2>2, <2>3, ThreadStep
  <2> QED BY <1>2, <1>a, <1>b, <2>4 DEF StartSync, TypeOK
<1>3. ASSUME NEW t \in Syncers, PullEntries(t) PROVE TypeOK'
  <2> DEFINE batch == get_wal_entries(thread[t].from)
             th == IF batch = <<>> THEN Idle
                   ELSE [thread[t] EXCEPT !.pc = "check", !.batch = batch]
  <2>0. thread[t].from \in Nat
    BY <1>0 DEF Thread
  <2>1. /\ batch \in Seq(Nat)
        /\ \A i \in 1..Len(batch) : batch[i] = thread[t].from + i /\ batch[i] \in 1..Len(log)
    BY <2>0, BatchServed
  <2> HIDE DEF batch
  <2>2. th \in Thread /\ (th = Idle \/ (th.batch = batch /\ th.pc = "check"))
    <3>1. CASE batch = <<>>
      <4>1. th = Idle
        BY <3>1
      <4> HIDE DEF th
      <4> QED BY <4>1, IdleType
    <3>2. CASE batch # <<>>
      BY <3>2, <1>0, <2>1 DEF Thread
    <3> QED BY <3>1, <3>2
  <2>3. Goto(t, th) /\ log' = log
    BY <1>3 DEF PullEntries, batch
  <2> HIDE DEF th
  <2>4. BatchOK(t)'
    <3>1. thread'[t] = th
      BY <2>2, <2>3, GotoFacts
    <3>2. CASE th = Idle
      BY <3>1, <3>2 DEF BatchOK, Idle
    <3>3. CASE th.batch = batch /\ th.pc = "check"
      <4>1. \A i \in 1..Len(batch) : i \in Nat /\ 1 \in 1..Len(batch)
        BY <2>1
      <4>2. \A i \in 1..Len(batch) : batch[i] = batch[1] + (i - 1)
        BY <4>1, <2>0, <2>1
      <4> QED BY <3>1, <3>3, <4>2, <2>1, <2>3 DEF BatchOK
    <3> QED BY <2>2, <3>2, <3>3
  <2>5. thread' \in [Syncers -> Thread] /\ \A u \in Syncers : BatchOK(u)'
    BY <2>2, <2>3, <2>4, ThreadStep
  <2> QED BY <1>3, <1>a, <1>b, <2>0, <2>5 DEF PullEntries, TypeOK
<1>4. ASSUME NEW t \in Syncers, CheckEntry(t) PROVE TypeOK'
  <2> DEFINE b == thread[t].batch
             seen == [thread[t] EXCEPT !.batch_seen = @ \cup {Time(b[1])}]
             th == IF IsDuplicate(thread[t]) THEN [seen EXCEPT !.batch = Tail(@)]
                   ELSE [seen EXCEPT !.pc = "apply"]
  <2>1. b # <<>> /\ Goto(t, th) /\ log' = log
    BY <1>4 DEF CheckEntry
  <2>2. /\ b \in Seq(Nat) /\ b[1] \in 1..Len(log) /\ Tail(b) \in Seq(Nat)
        /\ \A i \in 1..Len(Tail(b)) : /\ Tail(b)[i] \in 1..Len(log)
                                      /\ Tail(b)[i] = Tail(b)[1] + (i - 1)
    BY <2>1, TailOfBatch
  <2>3. Time(b[1]) \in Nat
    BY <2>2, TimeType
  <2>4. /\ th \in Thread
        /\ \/ th.batch = Tail(b) /\ th.pc = thread[t].pc
           \/ th.batch = b /\ th.pc = "apply"
    BY <1>0, <2>2, <2>3 DEF Thread
  <2>5. thread'[t] = th /\ thread[t].pc = "check"
    BY <1>4, <2>1, <2>4, GotoFacts DEF CheckEntry, At
  <2> HIDE DEF th
  <2>6. BatchOK(t)'
    <3>1. CASE th.batch = Tail(b) /\ th.pc = thread[t].pc
      BY <3>1, <2>1, <2>2, <2>5 DEF BatchOK
    <3>2. CASE th.batch = b /\ th.pc = "apply"
      BY <3>2, <1>0, <2>1, <2>5 DEF BatchOK
    <3> QED BY <2>4, <3>1, <3>2
  <2>7. thread' \in [Syncers -> Thread] /\ \A u \in Syncers : BatchOK(u)'
    BY <2>1, <2>4, <2>6, ThreadStep
  <2> QED BY <1>4, <1>a, <1>b, <2>7 DEF CheckEntry, TypeOK
<1>5. ASSUME NEW t \in Syncers, apply_wal_entry(t) \/ AppendFails(t) \/ EndLine(t) PROVE TypeOK'
  <2> DEFINE n == thread[t].batch[1]
             th(pc) == [thread[t] EXCEPT !.pc = pc]
  <2>1. thread[t].batch # <<>> /\ thread[t].pc # "idle"
    BY <1>0, <1>5 DEF apply_wal_entry, AppendFails, EndLine, At, BatchOK
  <2>2. n \in Nat
    BY <2>1, HeadOfBatch
  <2>3. \A pc \in {"newline", "mark"} :
          th(pc) \in Thread /\ th(pc).batch = thread[t].batch /\ th(pc).pc = pc
    BY <1>0 DEF Thread
  <2> HIDE DEF n
  <2>6. /\ log' = log /\ registered' = registered /\ seeded' = seeded
        /\ last_applied_index' = last_applied_index
        /\ applied_entry_timestamps' = applied_entry_timestamps
        /\ clean' \in {clean, FALSE}
        /\ store' \in {store, Append(store, n)}
        /\ write_text(n) \/ cut_text \/ write_newline \/ UNCHANGED file
    BY <1>5 DEF apply_wal_entry, AppendFails, EndLine, n
  <2>7. /\ log' \in Seq([time : Nat, refused : BOOLEAN]) /\ registered' \in Nat
        /\ store' \in Seq(Nat) /\ FileOK' /\ last_applied_index' \in Nat
        /\ applied_entry_timestamps' \in SUBSET Nat /\ seeded' \in Nat /\ clean' \in BOOLEAN
    <3>1. store' \in Seq(Nat)
      <4>1. store \in Seq(Nat)
        BY DEF TypeOK
      <4> QED BY <2>2, <2>6, <4>1
    <3>2. clean' \in BOOLEAN
      BY <2>6 DEF TypeOK
    <3>3. FileOK'
      BY <1>b, <2>2, <2>6, FileFacts
    <3> QED BY <3>1, <3>2, <3>3, <2>6 DEF TypeOK
  <2>4. CASE Goto(t, Idle)
    <3>1. BatchOK(t)'
      BY <2>4, GotoFacts, IdleType DEF BatchOK, Idle
    <3>2. thread' \in [Syncers -> Thread] /\ \A u \in Syncers : BatchOK(u)'
      BY <2>4, <2>6, <3>1, IdleType, ThreadStep
    <3> QED BY <1>a, <2>7, <3>2
  <2>5. ASSUME NEW pc \in {"newline", "mark"}, Goto(t, th(pc))
        PROVE  TypeOK'
    <3>0. PICK i : i = th(pc)
      OBVIOUS
    <3>1. i \in Thread /\ i.batch = thread[t].batch /\ i.pc = pc /\ Goto(t, i)
      BY <2>3, <2>5, <3>0
    <3>2. BatchOK(t)'
      <4>1. thread'[t] = i
        BY <3>1, GotoFacts
      <4> QED BY <1>0, <2>1, <2>6, <3>1, <4>1 DEF BatchOK
    <3>3. thread' \in [Syncers -> Thread] /\ \A u \in Syncers : BatchOK(u)'
      BY <2>6, <3>1, <3>2, ThreadStep
    <3> QED BY <1>a, <2>7, <3>3
  <2> QED BY <1>5, <2>4, <2>5 DEF apply_wal_entry, AppendFails, EndLine
<1>6. ASSUME NEW t \in Syncers, MarkEntry(t) PROVE TypeOK'
  <2> DEFINE b == thread[t].batch
             th == [thread[t] EXCEPT !.pc = "check", !.batch = Tail(@), !.count = @ + 1]
  <2>1. b # <<>> /\ Goto(t, th) /\ log' = log
    BY <1>0, <1>6 DEF MarkEntry, At, BatchOK
  <2>2. /\ b \in Seq(Nat) /\ b[1] \in 1..Len(log) /\ Tail(b) \in Seq(Nat)
        /\ \A i \in 1..Len(Tail(b)) : /\ Tail(b)[i] \in 1..Len(log)
                                      /\ Tail(b)[i] = Tail(b)[1] + (i - 1)
    BY <2>1, TailOfBatch
  <2>3. Time(b[1]) \in Nat
    BY <2>2, TimeType
  <2>4. th \in Thread /\ th.batch = Tail(b) /\ th.pc = "check"
    <3>1. thread[t] \in Thread
      BY <1>0
    <3>2. thread[t].count + 1 \in Nat
      BY <3>1 DEF Thread
    <3> QED BY <2>2, <3>1, <3>2 DEF Thread
  <2>5. thread'[t] = th
    BY <2>1, <2>4, GotoFacts
  <2> HIDE DEF th
  <2>6. BatchOK(t)'
    BY <2>1, <2>2, <2>4, <2>5 DEF BatchOK
  <2>7. thread' \in [Syncers -> Thread] /\ \A u \in Syncers : BatchOK(u)'
    BY <2>1, <2>4, <2>6, ThreadStep
  <2> QED BY <1>6, <1>a, <1>b, <2>3, <2>7 DEF MarkEntry, TypeOK
<1>7. ASSUME NEW t \in Syncers, AdvanceIndex(t) \/ RequestFails(t) PROVE TypeOK'
  <2>1. Goto(t, Idle) /\ log' = log
    BY <1>7 DEF AdvanceIndex, RequestFails
  <2>2. BatchOK(t)'
    BY <2>1, GotoFacts, IdleType DEF BatchOK, Idle
  <2>3. thread' \in [Syncers -> Thread] /\ \A u \in Syncers : BatchOK(u)'
    BY <2>1, <2>2, IdleType, ThreadStep
  <2>4. thread[t].count \in Nat /\ thread[t].from \in Nat
    BY <1>0 DEF Thread
  <2>5. /\ store' = store /\ UNCHANGED file /\ seeded' = seeded /\ clean' = clean
        /\ applied_entry_timestamps' = applied_entry_timestamps
        /\ registered' \in {registered, thread[t].from}
        /\ last_applied_index' \in {last_applied_index, last_applied_index + thread[t].count}
    BY <1>7 DEF AdvanceIndex, AdvanceBy, RequestFails
  <2>6. registered' \in Nat /\ last_applied_index' \in Nat
    BY <2>4, <2>5 DEF TypeOK
  <2> QED BY <1>a, <1>b, <2>1, <2>3, <2>5, <2>6 DEF TypeOK
<1>8. ASSUME OwnText \/ OwnNewline \/ OwnApply PROVE TypeOK'
  <2>1. /\ \A t \in Syncers : BatchOK(t)'
        /\ UNCHANGED <<log, registered, last_applied_index, applied_entry_timestamps, thread, seeded>>
        /\ store' \in {store, Append(store, 0)} /\ clean' \in {clean, FALSE}
        /\ write_text(0) \/ cut_text \/ write_newline \/ UNCHANGED file
    BY <1>0, <1>8 DEF OwnText, OwnNewline, OwnApply, BatchOK
  <2>2. store \in Seq(Nat) /\ Append(store, 0) \in Seq(Nat)
    BY DEF TypeOK
  <2>2a. store' \in Seq(Nat)
    BY <2>1, <2>2
  <2>2b. clean' \in BOOLEAN
    BY <2>1 DEF TypeOK
  <2>3. FileOK'
    BY <1>b, <2>1, FileFacts
  <2> QED BY <1>a, <2>1, <2>2a, <2>2b, <2>3 DEF TypeOK
<1>9. ASSUME Restart PROVE TypeOK'
  <2>1. thread' \in [Syncers -> Thread] /\ \A t \in Syncers : thread'[t] = Idle
    BY <1>9, IdleType DEF Restart
  <2>2. \A t \in Syncers : BatchOK(t)'
    BY <2>1 DEF BatchOK, Idle
  <2> QED BY <1>9, <1>a, <1>b, <2>1, <2>2 DEF Restart, Seed, TypeOK
<1> QED
  BY <1>1, <1>2, <1>3, <1>4, <1>5, <1>6, <1>7, <1>8, <1>9 DEF Next, Sync

-----------------------------------------------------------------------------
(* What the replica claims to have *)

LEMMA PartOfLog ==
    ASSUME NEW n \in Nat, NEW S \in SUBSET (1..n)
    PROVE  IsFiniteSet(S) /\ Cardinality(S) \in Nat /\ Cardinality(S) <= n
<1>1. IsFiniteSet(1..n) /\ Cardinality(1..n) = n
  BY FS_Interval
<1>2. IsFiniteSet(S) /\ Cardinality(S) <= Cardinality(1..n)
  BY <1>1, FS_Subset
<1> QED BY <1>1, <1>2, FS_CardinalityType

LEMMA PendingType == ASSUME TypeOK, NEW t \in Syncers PROVE Pending(t) \in Nat
<1>1. thread[t].count \in Nat
  BY DEF TypeOK, Thread
<1> QED BY <1>1 DEF Pending

LEMMA PendingTypeNext == ASSUME TypeOK', NEW t \in Syncers PROVE Pending(t)' \in Nat
<1>1. thread'[t].count \in Nat
  BY DEF TypeOK, Thread
<1> QED BY <1>1 DEF Pending

Sharing == \E mine \in [Syncers -> SUBSET (1..Len(local))], done \in SUBSET (1..Len(local)) :
               Shared(mine, done)

\* A step after which no caller has more pending, and the local log is no
\* shorter, needs no new division.
LEMMA SharingKept ==
    ASSUME TypeOK, TypeOK', Sharing,
           Len(local) <= Len(local'), last_applied_index' = last_applied_index,
           \A t \in Syncers : Pending(t)' <= Pending(t)
    PROVE  Sharing'
<1>1. PICK mine \in [Syncers -> SUBSET (1..Len(local))], done \in SUBSET (1..Len(local)) :
         Shared(mine, done)
  BY DEF Sharing
<1>2. Len(local) \in Nat /\ Len(local') \in Nat
  BY DEF TypeOK
<1>3. 1..Len(local) \subseteq 1..Len(local')
  BY <1>2
<1>4. /\ mine \in [Syncers -> SUBSET (1..Len(local'))]
      /\ done \in SUBSET (1..Len(local'))
  BY <1>3
<1>5. \A t \in Syncers : Pending(t)' <= Cardinality(mine[t])
  <2> TAKE t \in Syncers
  <2>1. Pending(t) \in Nat /\ Pending(t)' \in Nat
    BY PendingType, PendingTypeNext
  <2>2. Cardinality(mine[t]) \in Nat
    BY <1>2, PartOfLog
  <2>3. Pending(t)' <= Pending(t) /\ Pending(t) <= Cardinality(mine[t])
    BY <1>1 DEF Shared
  <2> QED BY <2>1, <2>2, <2>3
<1>6. Shared(mine, done)'
  BY <1>1, <1>5 DEF Shared
<1> QED BY <1>4, <1>6 DEF Sharing

\* The entry that is appended to the local log goes to the caller.
LEMMA SharingAfterApply ==
    ASSUME TypeOK, TypeOK', Sharing, NEW t \in Syncers, NEW n,
           local' = Append(local, n), last_applied_index' = last_applied_index,
           Pending(t)' = Pending(t) + 1,
           \A u \in Syncers : u # t => Pending(u)' = Pending(u)
    PROVE  Sharing'
<1>1. PICK mine \in [Syncers -> SUBSET (1..Len(local))], done \in SUBSET (1..Len(local)) :
         Shared(mine, done)
  BY DEF Sharing
<1>0. PICK new : new = Len(local) + 1
  OBVIOUS
<1>a. PICK more : more = [mine EXCEPT ![t] = @ \cup {new}]
  OBVIOUS
<1>2. Len(local) \in Nat /\ Len(local') = new
  <2>1. local \in Seq(Nat) /\ local' \in Seq(Nat)
    BY DEF TypeOK
  <2> QED BY <1>0, <2>1
<1>3. 1..Len(local) \subseteq 1..Len(local') /\ new \in 1..Len(local') /\ new \notin 1..Len(local)
  BY <1>0, <1>2
<1>4. more \in [Syncers -> SUBSET (1..Len(local'))] /\ done \in SUBSET (1..Len(local'))
  BY <1>3, <1>a
<1>5. /\ more[t] = mine[t] \cup {new}
      /\ \A u \in Syncers : u # t => more[u] = mine[u]
      /\ \A u \in Syncers : new \notin mine[u]
      /\ new \notin done
  BY <1>3, <1>a
<1>6. /\ \A u \in Syncers : more[u] \cap done = {}
      /\ \A u, v \in Syncers : u # v => more[u] \cap more[v] = {}
  BY <1>1, <1>5 DEF Shared
<1>7. \A u \in Syncers : Pending(u)' <= Cardinality(more[u])
  <2> TAKE u \in Syncers
  <2>1. CASE u = t
    <3>1. IsFiniteSet(mine[t]) /\ Cardinality(mine[t]) \in Nat
      BY <1>2, PartOfLog
    <3>2. Cardinality(more[t]) = Cardinality(mine[t]) + 1
      BY <3>1, <1>5, FS_AddElement
    <3>3. Pending(t) \in Nat /\ Pending(t) <= Cardinality(mine[t])
      BY <1>1, PendingType DEF Shared
    <3> QED BY <2>1, <3>1, <3>2, <3>3
  <2>2. CASE u # t
    BY <2>2, <1>1, <1>5 DEF Shared
  <2> QED BY <2>1, <2>2
<1>8. Shared(more, done)'
  BY <1>1, <1>6, <1>7 DEF Shared
<1> QED BY <1>4, <1>8 DEF Sharing

\* The caller's entries go over to last_applied_index.
LEMMA SharingAfterAdvance ==
    ASSUME TypeOK, TypeOK', Sharing, NEW t \in Syncers,
           local' = local, last_applied_index' = last_applied_index + Pending(t),
           Pending(t)' = 0,
           \A u \in Syncers : u # t => Pending(u)' = Pending(u)
    PROVE  Sharing'
<1>1. PICK mine \in [Syncers -> SUBSET (1..Len(local))], done \in SUBSET (1..Len(local)) :
         Shared(mine, done)
  BY DEF Sharing
<1> DEFINE less == [mine EXCEPT ![t] = {}]
           more == done \cup mine[t]
<1>2. Len(local) \in Nat
  BY DEF TypeOK
<1>3. less \in [Syncers -> SUBSET (1..Len(local'))] /\ more \in SUBSET (1..Len(local'))
  OBVIOUS
<1>4. less[t] = {} /\ \A u \in Syncers : u # t => less[u] = mine[u]
  OBVIOUS
<1> HIDE DEF less
<1>5. /\ \A u \in Syncers : less[u] \cap more = {}
      /\ \A u, v \in Syncers : u # v => less[u] \cap less[v] = {}
  BY <1>1, <1>4 DEF Shared
<1>6. last_applied_index' <= Cardinality(more)
  <2>1. /\ IsFiniteSet(mine[t]) /\ Cardinality(mine[t]) \in Nat
        /\ IsFiniteSet(done) /\ Cardinality(done) \in Nat
    BY <1>2, PartOfLog
  <2>2. done \cap mine[t] = {}
    BY <1>1 DEF Shared
  <2>3. Cardinality(done \cap mine[t]) = 0
    BY <2>2, FS_EmptySet
  <2>4. Cardinality(more) = Cardinality(done) + Cardinality(mine[t])
    <3>1. Cardinality(done \cup mine[t])
             = Cardinality(done) + Cardinality(mine[t]) - Cardinality(done \cap mine[t])
      BY <2>1, FS_Union
    <3> QED BY <2>1, <2>3, <3>1
  <2>5. /\ Pending(t) \in Nat /\ Pending(t) <= Cardinality(mine[t])
        /\ last_applied_index \in Nat /\ last_applied_index <= Cardinality(done)
    BY <1>1, PendingType DEF Shared, TypeOK
  <2> QED BY <2>1, <2>4, <2>5
<1> HIDE DEF more
<1>7. \A u \in Syncers : Pending(u)' <= Cardinality(less[u])
  <2> TAKE u \in Syncers
  <2>1. CASE u = t
    BY <2>1, <1>4, FS_EmptySet
  <2>2. CASE u # t
    BY <2>2, <1>1, <1>4 DEF Shared
  <2> QED BY <2>1, <2>2
<1>8. Shared(less, more)'
  BY <1>5, <1>6, <1>7 DEF Shared
<1> QED BY <1>3, <1>8 DEF Sharing

\* After a start, all of the local log is counted.
LEMMA SharingAfterRestart ==
    ASSUME TypeOK', last_applied_index' = Len(local'), \A t \in Syncers : Pending(t)' = 0
    PROVE  Sharing'
<1>0. PICK n : n = Len(local')
  OBVIOUS
<1> DEFINE mine == [t \in Syncers |-> {}]
           done == 1..n
<1>1. mine \in [Syncers -> SUBSET (1..Len(local'))] /\ done \in SUBSET (1..Len(local'))
  BY <1>0
<1>2. n \in Nat
  BY <1>0 DEF TypeOK
<1>3. Cardinality(done) = n
  BY <1>2, FS_Interval
<1>4. \A t \in Syncers : mine[t] = {} /\ Pending(t)' <= Cardinality(mine[t])
  BY FS_EmptySet
<1> HIDE DEF mine, done
<1>5. Shared(mine, done)'
  BY <1>0, <1>2, <1>3, <1>4 DEF Shared
<1> QED BY <1>1, <1>5 DEF Sharing

-----------------------------------------------------------------------------
(* The steps of a caller, field by field *)

Others(t) == \A u \in Syncers : u # t => thread'[u] = thread[u]

LEMMA GotoAt ==
    ASSUME TypeOK, NEW t \in Syncers, NEW th, Goto(t, th)
    PROVE  thread'[t] = th /\ Others(t)
  BY DEF TypeOK, Goto, Others

LEMMA StartFacts ==
    ASSUME TypeOK, NEW t \in Syncers, StartSync(t)
    PROVE  /\ Others(t) /\ At(t, "idle")
           /\ UNCHANGED <<log, registered, store, file, own, last_applied_index,
                          applied_entry_timestamps, seeded>>
           /\ thread'[t].pc = "pull" /\ thread'[t].from = last_applied_index
           /\ thread'[t].batch = <<>> /\ thread'[t].batch_seen = {} /\ thread'[t].count = 0
           /\ clean' => clean /\ \A u \in Syncers : u # t => At(u, "idle")
<1> DEFINE th == [Idle EXCEPT !.pc = "pull", !.from = last_applied_index]
<1>1. thread'[t] = th /\ Others(t)
  BY GotoAt DEF StartSync
<1>2. /\ th.pc = "pull" /\ th.from = last_applied_index
      /\ th.batch = <<>> /\ th.batch_seen = {} /\ th.count = 0
  BY DEF Idle
<1> QED BY <1>1, <1>2 DEF StartSync, replica

LEMMA PullFacts ==
    ASSUME TypeOK, NEW t \in Syncers, PullEntries(t)
    PROVE  /\ Others(t) /\ At(t, "pull")
           /\ UNCHANGED <<log, store, file, own, last_applied_index,
                          applied_entry_timestamps, seeded, clean>>
           /\ registered' = thread[t].from
           /\ \/ thread'[t] = Idle
              \/ /\ thread'[t].pc = "check" /\ thread'[t].from = thread[t].from
                 /\ thread'[t].batch = get_wal_entries(thread[t].from)
                 /\ thread'[t].batch # <<>>
                 /\ thread'[t].batch_seen = thread[t].batch_seen
                 /\ thread'[t].count = thread[t].count
<1> DEFINE batch == get_wal_entries(thread[t].from)
           th == [thread[t] EXCEPT !.pc = "check", !.batch = batch]
<1>1. Others(t) /\ thread'[t] = IF batch = <<>> THEN Idle ELSE th
  BY GotoAt DEF PullEntries
<1>2. thread[t] \in Thread
  BY DEF TypeOK
<1> HIDE DEF batch
<1>3. /\ th.pc = "check" /\ th.from = thread[t].from /\ th.batch = batch
      /\ th.batch_seen = thread[t].batch_seen /\ th.count = thread[t].count
  BY <1>2 DEF Thread
<1> HIDE DEF th
<1>4. \/ thread'[t] = Idle
      \/ thread'[t] = th /\ batch # <<>>
  BY <1>1
<1> QED BY <1>1, <1>3, <1>4 DEF PullEntries, replica, batch

LEMMA CheckFacts ==
    ASSUME TypeOK, NEW t \in Syncers, CheckEntry(t)
    PROVE  LET n == thread[t].batch[1]
           IN  /\ Others(t) /\ At(t, "check") /\ thread[t].batch # <<>>
               /\ UNCHANGED <<log, registered, store, file, own, last_applied_index,
                              applied_entry_timestamps, seeded, clean>>
               /\ thread'[t].from = thread[t].from /\ thread'[t].count = thread[t].count
               /\ thread'[t].batch_seen = thread[t].batch_seen \cup {Time(n)}
               /\ \/ /\ Time(n) \in thread[t].batch_seen \cup applied_entry_timestamps
                     /\ thread'[t].pc = "check" /\ thread'[t].batch = Tail(thread[t].batch)
                  \/ /\ Time(n) \notin thread[t].batch_seen \cup applied_entry_timestamps
                     /\ thread'[t].pc = "apply" /\ thread'[t].batch = thread[t].batch
<1> DEFINE n == thread[t].batch[1]
           seen == [thread[t] EXCEPT !.batch_seen = @ \cup {Time(n)}]
           skip == [seen EXCEPT !.batch = Tail(@)]
           take == [seen EXCEPT !.pc = "apply"]
<1>1. /\ Others(t) /\ thread'[t] = IF IsDuplicate(thread[t]) THEN skip ELSE take
  BY GotoAt DEF CheckEntry
<1>2. thread[t] \in Thread /\ At(t, "check") /\ thread[t].batch # <<>>
  BY DEF TypeOK, CheckEntry
<1>3. /\ skip.pc = "check" /\ skip.batch = Tail(thread[t].batch)
      /\ skip.from = thread[t].from /\ skip.count = thread[t].count
      /\ skip.batch_seen = thread[t].batch_seen \cup {Time(n)}
  BY <1>2 DEF Thread, At
<1>4. /\ take.pc = "apply" /\ take.batch = thread[t].batch
      /\ take.from = thread[t].from /\ take.count = thread[t].count
      /\ take.batch_seen = thread[t].batch_seen \cup {Time(n)}
  BY <1>2 DEF Thread
<1> HIDE DEF skip, take
<1>5. CASE IsDuplicate(thread[t])
  BY <1>1, <1>2, <1>3, <1>5 DEF CheckEntry, replica, IsDuplicate
<1>6. CASE ~IsDuplicate(thread[t])
  BY <1>1, <1>2, <1>4, <1>6 DEF CheckEntry, replica, IsDuplicate
<1> QED BY <1>5, <1>6

\* The entry is applied; the other outcome of apply_wal_entry is in EndFacts.
LEMMA ApplyFacts ==
    ASSUME TypeOK, NEW t \in Syncers, apply_wal_entry(t), ~log[thread[t].batch[1]].refused
    PROVE  LET n == thread[t].batch[1]
           IN  /\ Others(t) /\ At(t, "apply") /\ thread[t].batch # <<>> /\ n \in 1..Len(log)
               /\ UNCHANGED <<log, registered, own, last_applied_index,
                              applied_entry_timestamps, seeded, clean>>
               /\ store' = Append(store, n)
               /\ ~spoilt' => ~spoilt /\ local' = Append(local, n)
               /\ thread'[t].pc = "newline" /\ thread'[t].from = thread[t].from
               /\ thread'[t].batch = thread[t].batch /\ thread'[t].count = thread[t].count
               /\ thread'[t].batch_seen = thread[t].batch_seen
<1> DEFINE th == [thread[t] EXCEPT !.pc = "newline"]
<1>1. thread'[t] = th /\ Others(t)
  BY GotoAt DEF apply_wal_entry
<1>2. thread[t] \in Thread /\ thread[t].batch # <<>>
  BY DEF TypeOK, apply_wal_entry, At
<1>3. /\ th.pc = "newline" /\ th.from = thread[t].from
      /\ th.batch = thread[t].batch /\ th.count = thread[t].count
      /\ th.batch_seen = thread[t].batch_seen
  BY <1>2 DEF Thread
<1>4. thread[t].batch[1] \in 1..Len(log)
  BY <1>2, TailOfBatch
<1> HIDE DEF th
<1>5. store' = Append(store, thread[t].batch[1]) /\ write_text(thread[t].batch[1])
  BY DEF apply_wal_entry
<1>6. ~spoilt' => ~spoilt /\ local' = Append(local, thread[t].batch[1])
  <2>1. FileOK /\ thread[t].batch[1] \in Nat
    BY <1>2, HeadOfBatch DEF TypeOK, FileOK
  <2>2. spoilt => spoilt'
    BY <1>5, <2>1, FileFacts
  <2>3. ~spoilt' => local' = Append(local, thread[t].batch[1])
    BY <1>5, <2>1, FileFacts
  <2> QED BY <2>2, <2>3
<1>7. UNCHANGED <<log, registered, own, last_applied_index,
                  applied_entry_timestamps, seeded, clean>> /\ At(t, "apply")
  BY DEF apply_wal_entry
<1> QED BY <1>1, <1>2, <1>3, <1>4, <1>5, <1>6, <1>7

LEMMA LineFacts ==
    ASSUME TypeOK, NEW t \in Syncers, EndLine(t)
    PROVE  /\ Others(t) /\ At(t, "newline") /\ thread[t].batch # <<>>
           /\ UNCHANGED <<log, registered, store, local, spoilt, own, last_applied_index,
                          applied_entry_timestamps, seeded, clean>>
           /\ thread'[t].pc = "mark" /\ thread'[t].from = thread[t].from
           /\ thread'[t].batch = thread[t].batch /\ thread'[t].count = thread[t].count
           /\ thread'[t].batch_seen = thread[t].batch_seen
<1> DEFINE th == [thread[t] EXCEPT !.pc = "mark"]
<1>1. thread'[t] = th /\ Others(t)
  BY GotoAt DEF EndLine
<1>2. thread[t] \in Thread /\ thread[t].batch # <<>>
  BY DEF TypeOK, EndLine, At
<1>3. /\ th.pc = "mark" /\ th.from = thread[t].from
      /\ th.batch = thread[t].batch /\ th.count = thread[t].count
      /\ th.batch_seen = thread[t].batch_seen
  BY <1>2 DEF Thread
<1> HIDE DEF th
<1> QED BY <1>1, <1>2, <1>3 DEF EndLine, write_newline

LEMMA MarkFacts ==
    ASSUME TypeOK, NEW t \in Syncers, MarkEntry(t)
    PROVE  /\ Others(t) /\ At(t, "mark") /\ thread[t].batch # <<>>
           /\ UNCHANGED <<log, registered, store, file, own, last_applied_index, seeded, clean>>
           /\ applied_entry_timestamps'
                = applied_entry_timestamps \cup {Time(thread[t].batch[1])}
           /\ thread'[t].pc = "check" /\ thread'[t].from = thread[t].from
           /\ thread'[t].batch = Tail(thread[t].batch)
           /\ thread'[t].count = thread[t].count + 1
           /\ thread'[t].batch_seen = thread[t].batch_seen
<1> DEFINE th == [thread[t] EXCEPT !.pc = "check", !.batch = Tail(@), !.count = @ + 1]
<1>1. thread'[t] = th /\ Others(t)
  BY GotoAt DEF MarkEntry
<1>2. thread[t] \in Thread /\ thread[t].batch # <<>>
  BY DEF TypeOK, MarkEntry, At
<1>3. /\ th.pc = "check" /\ th.from = thread[t].from
      /\ th.batch = Tail(thread[t].batch) /\ th.count = thread[t].count + 1
      /\ th.batch_seen = thread[t].batch_seen
  BY <1>2 DEF Thread
<1> HIDE DEF th
<1> QED BY <1>1, <1>2, <1>3 DEF MarkEntry

\* A sync that is over: done, failed, or refused by the store.
Ends(t) ==
    \/ AdvanceIndex(t) \/ RequestFails(t) \/ AppendFails(t)
    \/ apply_wal_entry(t) /\ log[thread[t].batch[1]].refused

LEMMA EndFacts ==
    ASSUME TypeOK, NEW t \in Syncers, Ends(t)
    PROVE  /\ Others(t) /\ thread'[t] = Idle /\ ~At(t, "idle")
           /\ UNCHANGED <<log, own, applied_entry_timestamps, seeded>>
           /\ ~spoilt' => ~spoilt /\ local' = local
           /\ registered' \in {registered, thread[t].from}
           /\ clean' => clean /\ store' = store /\ ~Unmarked(t)
           /\ \/ last_applied_index' = last_applied_index
              \/ /\ last_applied_index' = last_applied_index + thread[t].count
                 /\ At(t, "check")
<1>1. thread'[t] = Idle /\ Others(t)
  BY GotoAt DEF Ends, AdvanceIndex, RequestFails, AppendFails, apply_wal_entry
<1>2. UNCHANGED file \/ cut_text
  BY DEF Ends, AdvanceIndex, RequestFails, AppendFails, apply_wal_entry, replica
<1>3. ~spoilt' => ~spoilt /\ local' = local
  BY <1>2 DEF file, cut_text
<1>4. clean' => clean /\ store' = store /\ ~Unmarked(t)
  BY DEF Ends, AdvanceIndex, RequestFails, AppendFails, apply_wal_entry, replica, Unmarked, At
<1>5. /\ UNCHANGED <<log, own, applied_entry_timestamps, seeded>>
      /\ registered' \in {registered, thread[t].from} /\ ~At(t, "idle")
  BY DEF Ends, AdvanceIndex, RequestFails, AppendFails, apply_wal_entry, replica, At
<1>6. \/ last_applied_index' = last_applied_index
      \/ /\ last_applied_index' = last_applied_index + thread[t].count
         /\ At(t, "check")
  BY DEF Ends, AdvanceIndex, AdvanceBy, RequestFails, AppendFails, apply_wal_entry, replica
<1> QED BY <1>1, <1>3, <1>4, <1>5, <1>6

\* A client's own write.
Own == OwnText \/ OwnNewline \/ OwnApply

LEMMA OwnFacts ==
    ASSUME TypeOK, Own
    PROVE  /\ UNCHANGED <<log, registered, last_applied_index, applied_entry_timestamps,
                          thread, seeded>>
           /\ ~spoilt' => ~spoilt /\ (local' = local \/ local' = Append(local, 0))
           /\ ~(clean' /\ (clean => own = "idle"))
<1>1. /\ UNCHANGED <<log, registered, last_applied_index, applied_entry_timestamps,
                      thread, seeded>>
      /\ write_text(0) \/ cut_text \/ write_newline \/ UNCHANGED file
      /\ ~clean' \/ (own # "idle" /\ clean' = clean)
  BY DEF Own, OwnText, OwnNewline, OwnApply
<1>2. FileOK
  BY DEF TypeOK, FileOK
<1>3. spoilt => spoilt'
  BY <1>1, <1>2, FileFacts
<1>4. ~spoilt' => local' = local \/ local' = Append(local, 0)
  BY <1>1, <1>2, FileFacts
<1> QED BY <1>1, <1>3, <1>4

\* Every step of the system is one of these.
LEMMA StepCases ==
    ASSUME Next
    PROVE  \/ \E refused \in BOOLEAN, later \in 0..1 : MasterAppend(refused, later)
           \/ \E t \in Syncers :
                 \/ StartSync(t) \/ PullEntries(t) \/ CheckEntry(t) \/ MarkEntry(t) \/ EndLine(t)
                 \/ apply_wal_entry(t) /\ ~log[thread[t].batch[1]].refused
                 \/ Ends(t)
           \/ Own \/ Restart
  BY DEF Next, Sync, Ends, Own

\* The master's log only grows.
LEMMA AppendFacts ==
    ASSUME TypeOK, NEW refused \in BOOLEAN, NEW later \in 0..1, MasterAppend(refused, later)
    PROVE  /\ Len(log') = Len(log) + 1 /\ Len(log) \in Nat
           /\ \A i \in 1..Len(log) : log'[i] = log[i]
           /\ UNCHANGED <<registered, store, file, own, last_applied_index,
                          applied_entry_timestamps, thread, seeded, clean>>
<1> DEFINE e == [time |-> IF log = <<>> THEN 0 ELSE Last(log).time + later,
                 refused |-> refused]
<1>1. log' = Append(log, e)
  BY DEF MasterAppend
<1> HIDE DEF e
<1>2. PICK R : log \in Seq(R)
  BY DEF TypeOK
<1> QED BY <1>1, <1>2 DEF MasterAppend, replica

\* A malformed line stays.
LEMMA SpoiltStays == ASSUME TypeOK, Next, ~spoilt' PROVE ~spoilt
<1>1. \A refused \in BOOLEAN, later \in 0..1 : MasterAppend(refused, later) => UNCHANGED spoilt
  BY AppendFacts DEF file
<1>2. \A t \in Syncers : StartSync(t) \/ PullEntries(t) \/ CheckEntry(t) \/ MarkEntry(t) \/ EndLine(t)
                           => UNCHANGED spoilt
  BY StartFacts, PullFacts, CheckFacts, MarkFacts, LineFacts DEF file
<1>3. \A t \in Syncers : apply_wal_entry(t) /\ ~log[thread[t].batch[1]].refused => ~spoilt
  BY ApplyFacts
<1>4. \A t \in Syncers : Ends(t) => ~spoilt
  BY EndFacts
<1>5. Own => ~spoilt
  BY OwnFacts
<1>6. Restart => UNCHANGED spoilt
  BY DEF Restart, file
<1> QED BY <1>1, <1>2, <1>3, <1>4, <1>5, <1>6, StepCases

-----------------------------------------------------------------------------
(* NeverClaimsTooMuch *)

LEMMA ClaimsInit == Init => Claims
<1> SUFFICES ASSUME Init PROVE Claims
  OBVIOUS
<1> DEFINE mine == [t \in Syncers |-> {}]
<1>1. mine \in [Syncers -> SUBSET (1..Len(local))] /\ {} \in SUBSET (1..Len(local))
  OBVIOUS
<1>2. /\ registered = 0 /\ Len(local) = 0 /\ last_applied_index = 0
      /\ \A t \in Syncers : thread[t] = Idle
  BY DEF Init
<1>3. \A t \in Syncers : mine[t] = {} /\ Pending(t) = 0 /\ thread[t].from = 0
  BY <1>2 DEF Pending, Unmarked, Idle
<1>4. Cardinality({}) = 0
  BY FS_EmptySet
<1> HIDE DEF mine
<1>6. \A t \in Syncers : Cardinality(mine[t]) = 0 /\ mine[t] \cap {} = {}
  BY <1>3, <1>4
<1>7. \A t, u \in Syncers : mine[t] \cap mine[u] = {}
  BY <1>3
<1>5. Shared(mine, {})
  BY <1>2, <1>3, <1>4, <1>6, <1>7 DEF Shared
<1> QED BY <1>1, <1>2, <1>3, <1>5 DEF Claims

LEMMA ClaimsStep == ASSUME TypeOK, TypeOK', ~spoilt => Claims, Next, ~spoilt' PROVE Claims'
<1> USE DEF Others
<1>0. Claims
  BY SpoiltStays
<1>a. Sharing
  BY <1>0 DEF Claims, Sharing
<1>b. /\ Len(local) \in Nat /\ registered \in Nat
      /\ \A t \in Syncers : thread[t].from \in Nat /\ thread[t].count \in Nat
  <2>1. Len(local) \in Nat /\ registered \in Nat
    BY DEF TypeOK
  <2>2. \A t \in Syncers : thread[t] \in Thread
    BY DEF TypeOK
  <2>3. \A t \in Syncers : thread[t].from \in Nat /\ thread[t].count \in Nat
    BY <2>2 DEF Thread
  <2> QED BY <2>1, <2>3
<1>c. ASSUME Len(local) <= Len(local'), Sharing',
             registered' \in {registered} \cup {thread[t].from : t \in Syncers},
             \A t \in Syncers : thread'[t].from \in {thread[t].from, last_applied_index, 0}
      PROVE  Claims'
  <2>1. last_applied_index <= Len(local)
    <3>1. PICK mine \in [Syncers -> SUBSET (1..Len(local))], done \in SUBSET (1..Len(local)) :
             Shared(mine, done)
      BY <1>a DEF Sharing
    <3>2. Cardinality(done) \in Nat /\ Cardinality(done) <= Len(local)
      BY <1>b, PartOfLog
    <3>3. last_applied_index \in Nat /\ last_applied_index <= Cardinality(done)
      BY <3>1 DEF Shared, TypeOK
    <3> QED BY <1>b, <3>2, <3>3
  <2>2. last_applied_index \in Nat /\ Len(local') \in Nat
    BY DEF TypeOK
  <2>3. registered <= Len(local) /\ \A t \in Syncers : thread[t].from <= Len(local)
    BY <1>0 DEF Claims
  <2>4. registered' <= Len(local')
    BY <1>b, <1>c, <2>2, <2>3
  <2>5. \A t \in Syncers : thread'[t].from <= Len(local')
    BY <1>b, <1>c, <2>1, <2>2, <2>3
  <2> QED BY <1>c, <2>4, <2>5 DEF Claims, Sharing
<1>d. Idle.from = 0 /\ Idle.count = 0 /\ Idle.pc = "idle"
  BY DEF Idle
<1>1. ASSUME NEW refused \in BOOLEAN, NEW later \in 0..1, MasterAppend(refused, later)
      PROVE  Claims'
  <2>1. UNCHANGED <<registered, local, last_applied_index, thread>>
    BY <1>1, AppendFacts DEF file
  <2>2. \A t \in Syncers : Pending(t)' = Pending(t) /\ Pending(t) \in Nat
    BY <2>1, PendingType DEF Pending, Unmarked
  <2>3. Sharing'
    BY <1>a, <1>b, <2>1, <2>2, SharingKept
  <2> QED BY <1>b, <1>c, <2>1, <2>3
<1>2. ASSUME NEW t \in Syncers, StartSync(t) \/ PullEntries(t) \/ CheckEntry(t) \/ MarkEntry(t) \/ EndLine(t)
      PROVE  Claims'
  <2>1. /\ Others(t) /\ local' = local /\ last_applied_index' = last_applied_index
        /\ registered' \in {registered, thread[t].from}
        /\ thread'[t].from \in {thread[t].from, last_applied_index, 0}
        /\ \/ thread'[t].count = 0 /\ thread'[t].pc \in {"idle", "pull"}
           \/ thread'[t].count = thread[t].count /\ thread'[t].pc \in {"check", "apply"}
           \/ thread'[t].count = thread[t].count + 1 /\ thread'[t].pc = "check" /\ At(t, "mark")
           \/ thread'[t].count = thread[t].count /\ thread'[t].pc = "mark" /\ At(t, "newline")
    BY <1>2, <1>d, StartFacts, PullFacts, CheckFacts, MarkFacts, LineFacts DEF file
  <2>2. Pending(t) \in Nat /\ Pending(t)' <= Pending(t)
    BY <1>b, <2>1, PendingType DEF Pending, Unmarked, At
  <2>3. \A u \in Syncers : Pending(u)' <= Pending(u)
    BY <2>1, <2>2, PendingType DEF Pending, Unmarked
  <2>4. Sharing'
    BY <1>a, <1>b, <2>1, <2>3, SharingKept
  <2> QED BY <1>b, <1>c, <2>1, <2>4
<1>3. ASSUME NEW t \in Syncers, apply_wal_entry(t), ~log[thread[t].batch[1]].refused
      PROVE  Claims'
  <2> DEFINE n == thread[t].batch[1]
  <2>1. /\ Others(t) /\ local' = Append(local, n)
        /\ last_applied_index' = last_applied_index /\ registered' = registered
        /\ thread'[t].from = thread[t].from
        /\ thread'[t].count = thread[t].count /\ thread'[t].pc = "newline" /\ At(t, "apply")
    BY <1>3, ApplyFacts
  <2>2. Pending(t)' = Pending(t) + 1
    BY <1>b, <2>1 DEF Pending, Unmarked, At
  <2>3. \A u \in Syncers : u # t => Pending(u)' = Pending(u)
    BY <2>1 DEF Pending, Unmarked
  <2>4. Sharing'
    BY <1>a, <2>1, <2>2, <2>3, SharingAfterApply
  <2>5. Len(local') = Len(local) + 1
    BY <2>1 DEF TypeOK
  <2> QED BY <1>b, <1>c, <2>1, <2>4, <2>5
<1>4. ASSUME NEW t \in Syncers, Ends(t) PROVE Claims'
  <2>1. /\ Others(t) /\ thread'[t] = Idle /\ local' = local
        /\ registered' \in {registered, thread[t].from}
        /\ \/ last_applied_index' = last_applied_index
           \/ last_applied_index' = last_applied_index + thread[t].count /\ At(t, "check")
    BY <1>4, EndFacts
  <2>2. Pending(t)' = 0 /\ \A u \in Syncers : u # t => Pending(u)' = Pending(u)
    BY <1>d, <2>1 DEF Pending, Unmarked
  <2>3. CASE last_applied_index' = last_applied_index
    <3>1. \A u \in Syncers : Pending(u)' <= Pending(u)
      BY <2>2, PendingType
    <3>2. Sharing'
      BY <1>a, <1>b, <2>1, <2>3, <3>1, SharingKept
    <3> QED BY <1>b, <1>c, <1>d, <2>1, <3>2
  <2>4. CASE last_applied_index' = last_applied_index + thread[t].count /\ At(t, "check")
    <3>1. Pending(t) = thread[t].count
      BY <1>b, <2>4 DEF Pending, Unmarked, At
    <3>2. Sharing'
      BY <1>a, <2>1, <2>2, <2>4, <3>1, SharingAfterAdvance
    <3> QED BY <1>b, <1>c, <1>d, <2>1, <3>2
  <2> QED BY <2>1, <2>3, <2>4
<1>5. ASSUME Own PROVE Claims'
  <2>1. /\ UNCHANGED <<registered, last_applied_index, thread>>
        /\ local' = local \/ local' = Append(local, 0)
    BY <1>5, OwnFacts
  <2>2. \A t \in Syncers : Pending(t)' <= Pending(t)
    BY <2>1, PendingType DEF Pending, Unmarked
  <2>3. Len(local) <= Len(local')
    BY <2>1 DEF TypeOK
  <2>4. Sharing'
    BY <1>a, <1>b, <2>1, <2>2, <2>3, SharingKept
  <2> QED BY <1>b, <1>c, <2>1, <2>3, <2>4
<1>6. ASSUME Restart PROVE Claims'
  <2>1. /\ local' = local /\ registered' = registered /\ last_applied_index' = Len(local)
        /\ \A t \in Syncers : thread'[t] = Idle
    BY <1>6 DEF Restart, Seed, file
  <2>2. \A t \in Syncers : Pending(t)' = 0
    BY <1>d, <2>1 DEF Pending, Unmarked
  <2>3. Sharing'
    BY <2>1, <2>2, SharingAfterRestart
  <2> QED BY <1>b, <1>c, <1>d, <2>1, <2>3
<1> QED
  BY <1>1, <1>2, <1>3, <1>4, <1>5, <1>6, StepCases

-----------------------------------------------------------------------------
(* The order of the entries *)

Alone(t) == \A u \in Syncers : u # t => At(u, "idle")

LEMMA MarkingAlone ==
    ASSUME NEW t \in Syncers, Alone(t)
    PROVE  Marking = IF Unmarked(t) THEN {Time(thread[t].batch[1])} ELSE {}
  BY DEF Marking, Alone, Unmarked, At

LEMMA MarkingAloneNext ==
    ASSUME NEW t \in Syncers, Alone(t)'
    PROVE  Marking' = IF Unmarked(t)' THEN {Time(thread[t].batch[1])'} ELSE {}
  BY DEF Marking, Alone, Unmarked, At

\* A step of a caller that was alone and stays so: the part of Order and
\* Guarded about the others is as before.
LEMMA AloneStep ==
    ASSUME NEW t \in Syncers, Others(t),
           Order, \A u \in Syncers : Guarded(u),
           ~At(t, "idle") \/ Alone(t),
           log' = log, seeded' = seeded,
           applied_entry_timestamps \subseteq applied_entry_timestamps'
    PROVE  /\ Alone(t) /\ Alone(t)'
           /\ \A u \in Syncers : u # t => Guarded(u)'
           /\ \A u, v \in Syncers : (At(u, "idle") \/ At(v, "idle") \/ u = v)'
<1>1. Alone(t)
  BY DEF Order, Alone
<1>2. Alone(t)'
  BY <1>1 DEF Alone, Others, At
<1>3. ASSUME NEW u \in Syncers, u # t PROVE Guarded(u)'
  <2>1. thread'[u] = thread[u] /\ thread[u].pc = "idle"
    BY <1>1, <1>3 DEF Others, Alone, At
  <2>2. Guarded(u)
    OBVIOUS
  <2>3. \A m : Time(m)' = Time(m)
    BY DEF Time
  <2> QED BY <2>1, <2>2, <2>3 DEF Guarded, Unmarked, At
<1> QED BY <1>1, <1>2, <1>3 DEF Alone

\* Such a step that leaves no more pending than the store has grown by.
LEMMA CountedStep ==
    ASSUME TypeOK, Counted, NEW t \in Syncers, Others(t), Alone(t),
           NEW n \in Nat, n = Len(store'), Len(store) <= n, last_applied_index' \in Nat,
           NEW pending \in Nat, pending = Pending(t)', last_applied_index' + pending <= n,
           thread'[t].from <= n
    PROVE  Counted'
<1>1. Len(store) \in Nat
  BY DEF TypeOK
<1>2. ASSUME NEW u \in Syncers, u # t
      PROVE  last_applied_index' + Pending(u)' <= n /\ thread'[u].from <= n
  <2>1. thread'[u] = thread[u] /\ thread[u].pc = "idle"
    BY <1>2 DEF Others, Alone, At
  <2>2. thread[u] \in Thread /\ thread[u].count = 0
    BY <2>1 DEF TypeOK
  <2>3. Pending(u)' = 0
    BY <2>1, <2>2 DEF Pending, Unmarked
  <2>4. thread[u].from \in Nat /\ thread[u].from <= Len(store)
    BY <2>2 DEF Thread, Counted
  <2>5. last_applied_index' + 0 <= n
    OBVIOUS
  <2>6. thread[u].from <= n
    BY <1>1, <2>4
  <2> QED BY <2>1, <2>3, <2>5, <2>6
<1> QED BY <1>2 DEF Counted

\* What the guard covers.
Covered == applied_entry_timestamps \cup Marking

\* Such a step keeps Order if store stays and the guard covers no less.
LEMMA OrderKept ==
    ASSUME Order, UNCHANGED <<log, store, own, seeded>>, ~spoilt' => ~spoilt /\ local' = local,
           Counted', seeded <= last_applied_index',
           Covered \subseteq Covered',
           \A u, v \in Syncers : (At(u, "idle") \/ At(v, "idle") \/ u = v)'
    PROVE  Order'
<1>1. Session' = Session /\ \A n : Time(n)' = Time(n)
  BY DEF Session, Time
<1> QED BY <1>1 DEF Order, Covered

LEMMA OrderInit == Init => Order /\ \A t \in Syncers : Guarded(t)
<1> SUFFICES ASSUME Init PROVE Order /\ \A t \in Syncers : Guarded(t)
  OBVIOUS
<1>1. /\ log = <<>> /\ store = <<>> /\ local = <<>> /\ last_applied_index = 0 /\ seeded = 0
      /\ \A t \in Syncers : thread[t] = Idle
  BY DEF Init
<1>2. Session = {}
  BY <1>1 DEF Session
<1>3. Order
  <2>1. Counted
    BY <1>1 DEF Counted, Pending, Unmarked, Idle
  <2>2. own = "idle" /\ Len(store) = 0
    BY <1>1 DEF Init
  <2> QED BY <1>1, <1>2, <2>1, <2>2 DEF Order, At, Idle
<1>4. ASSUME NEW t \in Syncers PROVE Guarded(t)
  BY <1>1 DEF Guarded, Unmarked, At, Idle
<1> QED BY <1>3, <1>4

Ordered == Order /\ \A t \in Syncers : Guarded(t)

LEMMA Typed ==
    ASSUME TypeOK, NEW t \in Syncers
    PROVE  /\ Len(store) \in Nat /\ last_applied_index \in Nat /\ seeded \in Nat
           /\ thread[t].count \in Nat /\ thread[t].from \in Nat
<1>1. thread[t] \in Thread
  BY DEF TypeOK
<1> QED BY <1>1 DEF TypeOK, Thread

LEMMA OrderAppend ==
    ASSUME TypeOK, Ordered,
           NEW refused \in BOOLEAN, NEW later \in 0..1, MasterAppend(refused, later)
    PROVE  Ordered'
<1>1. /\ Len(log) \in Nat /\ Len(log') = Len(log) + 1
      /\ \A i \in 1..Len(log) : Time(i)' = Time(i)
      /\ UNCHANGED <<store, local, spoilt, own, last_applied_index, applied_entry_timestamps,
                     thread, seeded>>
  BY AppendFacts DEF Time, file
<1>2. \A t \in Syncers : thread[t].batch # <<>> => thread[t].batch[1] \in 1..Len(log)
  BY TailOfBatch
<1>3. \A t \in Syncers : Unmarked(t) => thread[t].batch # <<>>
  BY DEF TypeOK, Unmarked
<1>4. Marking' = Marking
  BY <1>1, <1>2, <1>3 DEF Marking, Unmarked
<1>5. Session' = Session /\ seeded \in Nat /\ Session \subseteq Nat /\ store \in Seq(Nat)
  BY <1>1 DEF Session, TypeOK
<1>6. \A i \in Session : store[i] \in Nat /\ i <= store[i] /\ store[i] <= Len(log)
  <2> TAKE i \in Session
  <2>1. i \in 1..Len(store)
    BY <1>5 DEF Session
  <2> QED BY <1>5, <2>1 DEF Ordered, Order
<1>7. \A i \in Session : \A n \in (seeded + 1)..store[i] : Time(n)' = Time(n)
  BY <1>1, <1>5, <1>6
<1>8. Order'
  <2>1. Counted'
    BY <1>1 DEF Ordered, Order, Counted, Pending, Unmarked
  <2> QED BY <1>1, <1>4, <1>5, <1>6, <1>7, <2>1 DEF Ordered, Order, At
<1>9. ASSUME NEW t \in Syncers PROVE Guarded(t)'
  <2>1. Guarded(t)
    BY DEF Ordered
  <2>2. CASE thread[t].batch = <<>>
    <3>1. ~Unmarked(t) /\ ~At(t, "apply")
      BY <2>2 DEF TypeOK, Unmarked, At
    <3> QED BY <1>1, <2>1, <2>2, <3>1 DEF Guarded, Unmarked, At
  <2>3. CASE thread[t].batch # <<>>
    <3>1. thread[t].batch[1] \in 1..Len(log)
      BY <1>2, <2>3
    <3>2. Time(thread[t].batch[1])' = Time(thread[t].batch[1])
      BY <1>1, <3>1
    <3>3. \A m \in (seeded + 1)..(thread[t].batch[1] - 1) : Time(m)' = Time(m)
      BY <1>1, <1>5, <3>1
    <3> QED BY <1>1, <2>1, <3>2, <3>3 DEF Guarded, Unmarked, At
  <2> QED BY <2>2, <2>3
<1> QED BY <1>8, <1>9 DEF Ordered

LEMMA OrderStart ==
    ASSUME TypeOK, Ordered, NEW t \in Syncers, StartSync(t), clean'
    PROVE  Ordered'
<1>1. Alone(t) /\ At(t, "idle") /\ Others(t)
  BY StartFacts DEF Alone
<1>2. /\ UNCHANGED <<log, store, local, spoilt, own, last_applied_index, applied_entry_timestamps,
                     seeded>>
      /\ thread'[t].pc = "pull" /\ thread'[t].from = last_applied_index
      /\ thread'[t].batch = <<>> /\ thread'[t].batch_seen = {} /\ thread'[t].count = 0
  BY StartFacts DEF file
<1>3. /\ Alone(t)'
      /\ \A u \in Syncers : u # t => Guarded(u)'
      /\ \A u, v \in Syncers : (At(u, "idle") \/ At(v, "idle") \/ u = v)'
  BY <1>1, <1>2, AloneStep DEF Ordered
<1>4. Marking = {}
  BY <1>1, MarkingAlone DEF Unmarked, At
<1>4a. Counted'
  <2>1. Counted /\ Len(store) \in Nat /\ last_applied_index \in Nat /\ thread[t].count \in Nat
    BY Typed DEF Ordered, Order
  <2>2. Pending(t)' = 0
    BY <1>2 DEF Pending, Unmarked
  <2>3. Pending(t) = thread[t].count
    BY <1>1, <2>1 DEF Pending, Unmarked, At
  <2>4. last_applied_index + Pending(t) <= Len(store)
    BY <2>1 DEF Counted
  <2>5. last_applied_index <= Len(store)
    BY <2>1, <2>3, <2>4
  <2> QED BY <1>1, <1>2, <2>1, <2>2, <2>5, CountedStep
<1>5. Order'
  BY <1>2, <1>3, <1>4, <1>4a, OrderKept DEF Ordered, Order, Covered
<1>6. Guarded(t)'
  BY <1>2 DEF Guarded, Unmarked, At, Ordered, Order
<1> QED BY <1>3, <1>5, <1>6 DEF Ordered

LEMMA OrderPull ==
    ASSUME TypeOK, Ordered, NEW t \in Syncers, PullEntries(t)
    PROVE  Ordered'
<1>1. /\ Others(t) /\ At(t, "pull")
      /\ UNCHANGED <<log, store, local, spoilt, own, last_applied_index, applied_entry_timestamps,
                     seeded>>
      /\ \/ thread'[t] = Idle
         \/ /\ thread'[t].pc = "check" /\ thread'[t].from = thread[t].from
            /\ thread'[t].batch = get_wal_entries(thread[t].from)
            /\ thread'[t].batch # <<>>
            /\ thread'[t].batch_seen = thread[t].batch_seen
            /\ thread'[t].count = thread[t].count
  BY PullFacts DEF file
<1>2. /\ Alone(t) /\ Alone(t)'
      /\ \A u \in Syncers : u # t => Guarded(u)'
      /\ \A u, v \in Syncers : (At(u, "idle") \/ At(v, "idle") \/ u = v)'
  BY <1>1, AloneStep DEF Ordered, At
<1>3. Marking = {}
  BY <1>1, <1>2, MarkingAlone DEF Unmarked, At
<1>3a. Counted'
  <2>1. Counted /\ Len(store) \in Nat /\ last_applied_index \in Nat
        /\ thread[t].count \in Nat /\ thread[t].from \in Nat
    BY Typed DEF Ordered, Order
  <2>2. /\ last_applied_index + Pending(t) <= Len(store) /\ thread[t].from <= Len(store)
    BY <2>1 DEF Counted
  <2>3. Pending(t) = thread[t].count /\ Pending(t)' \in {0, thread[t].count}
    BY <1>1, <2>1 DEF Pending, Unmarked, At, Idle
  <2>4. Pending(t)' \in Nat /\ last_applied_index + Pending(t)' <= Len(store)
    BY <2>1, <2>2, <2>3
  <2>5. thread'[t].from \in {0, thread[t].from}
    BY <1>1 DEF Idle
  <2>6. thread'[t].from <= Len(store)
    BY <2>1, <2>2, <2>5
  <2> QED BY <1>1, <1>2, <2>1, <2>4, <2>6, CountedStep
<1>4. Order'
  BY <1>1, <1>2, <1>3, <1>3a, OrderKept DEF Ordered, Order, Covered
<1>5. CASE thread'[t] = Idle
  <2>1. Guarded(t)'
    BY <1>5 DEF Guarded, Unmarked, At, Idle
  <2> QED BY <1>2, <1>4, <2>1 DEF Ordered
<1>6. CASE thread'[t] # Idle
  <2> DEFINE from == thread[t].from
             b == get_wal_entries(from)
  <2>1. from \in Nat /\ seeded \in Nat /\ Len(store) \in Nat /\ store \in Seq(Nat)
    BY DEF TypeOK, Thread
  <2>2. b \in Seq(Nat) /\ b # <<>> /\ \A i \in 1..Len(b) : b[i] = from + i
    BY <1>1, <1>6, <2>1, BatchServed
  <2>3. thread'[t].batch[1] = from + 1
    <3>1. 1 \in 1..Len(b)
      BY <2>2
    <3>2. b[1] = from + 1
      BY <2>2, <3>1
    <3> QED BY <1>1, <1>6, <3>2
  <2>4. seeded <= from /\ from <= Len(store) /\ thread[t].batch_seen \subseteq applied_entry_timestamps
    BY <1>1 DEF Ordered, Order, Guarded, Counted, At
  <2>5. \A m \in (seeded + 1)..from : Time(m) \in applied_entry_timestamps
    <3> TAKE m \in (seeded + 1)..from
    <3>1. from \in Session /\ from \in 1..Len(store)
      BY <2>1, <2>4 DEF Session
    <3>2. store[from] \in Nat /\ from <= store[from]
      BY <2>1, <3>1 DEF Ordered, Order
    <3>3. m \in (seeded + 1)..store[from]
      BY <2>1, <3>2
    <3> QED BY <1>3, <3>1, <3>3 DEF Ordered, Order
  <2> HIDE DEF b
  <2>6. \A m : Time(m)' = Time(m)
    BY <1>1 DEF Time
  <2>7. (from + 1) - 1 = from
    BY <2>1
  <2>8. Guarded(t)'
    BY <1>1, <1>6, <2>1, <2>3, <2>4, <2>5, <2>6, <2>7 DEF Guarded, Unmarked, At
  <2> QED BY <1>2, <1>4, <2>8 DEF Ordered
<1> QED BY <1>5, <1>6

LEMMA OrderCheck ==
    ASSUME TypeOK, Ordered, NEW t \in Syncers, CheckEntry(t)
    PROVE  Ordered'
<1> DEFINE b == thread[t].batch
           n == b[1]
<1>1. /\ Others(t) /\ At(t, "check") /\ b # <<>>
      /\ UNCHANGED <<log, store, local, spoilt, own, last_applied_index, applied_entry_timestamps,
                     seeded>>
      /\ thread'[t].from = thread[t].from /\ thread'[t].count = thread[t].count
      /\ thread'[t].batch_seen = thread[t].batch_seen \cup {Time(n)}
      /\ \/ /\ Time(n) \in thread[t].batch_seen \cup applied_entry_timestamps
            /\ thread'[t].pc = "check" /\ thread'[t].batch = Tail(b)
         \/ /\ Time(n) \notin thread[t].batch_seen \cup applied_entry_timestamps
            /\ thread'[t].pc = "apply" /\ thread'[t].batch = b
  BY CheckFacts DEF file
<1>2. /\ Alone(t) /\ Alone(t)'
      /\ \A u \in Syncers : u # t => Guarded(u)'
      /\ \A u, v \in Syncers : (At(u, "idle") \/ At(v, "idle") \/ u = v)'
  BY <1>1, AloneStep DEF Ordered, At
<1>3. Marking = {}
  BY <1>1, <1>2, MarkingAlone DEF Unmarked, At
<1>3a. Counted'
  <2>1. Counted /\ Len(store) \in Nat /\ last_applied_index \in Nat
        /\ thread[t].count \in Nat /\ thread[t].from \in Nat
    BY Typed DEF Ordered, Order
  <2>2. /\ last_applied_index + Pending(t) <= Len(store) /\ thread[t].from <= Len(store)
    BY <2>1 DEF Counted
  <2>3. Pending(t) = thread[t].count /\ Pending(t)' = thread[t].count
    BY <1>1, <2>1 DEF Pending, Unmarked, At
  <2> QED BY <1>1, <1>2, <2>1, <2>2, <2>3, CountedStep
<1>4. Order'
  BY <1>1, <1>2, <1>3, <1>3a, OrderKept DEF Ordered, Order, Covered
<1>5. n \in Nat /\ seeded \in Nat /\ (Tail(b) # <<>> => Tail(b)[1] = n + 1)
  <2>1. seeded \in Nat
    BY DEF TypeOK
  <2> QED BY <1>1, <2>1, HeadOfBatch
<1>6. /\ seeded <= thread[t].from /\ seeded < n
      /\ thread[t].batch_seen \subseteq applied_entry_timestamps
      /\ \A m \in (seeded + 1)..(n - 1) : Time(m) \in applied_entry_timestamps
  BY <1>1 DEF Ordered, Guarded, At
<1>7. \A m : Time(m)' = Time(m)
  BY <1>1 DEF Time
<1> HIDE DEF n, b
<1>8. CASE Time(n) \in thread[t].batch_seen \cup applied_entry_timestamps
  <2>1. Time(n) \in applied_entry_timestamps
    BY <1>6, <1>8
  <2>2. \A m \in (seeded + 1)..n : Time(m) \in applied_entry_timestamps
    BY <1>5, <1>6, <2>1
  <2>3. (n + 1) - 1 = n /\ seeded < n + 1
    BY <1>5, <1>6
  <2>4. thread'[t].pc = "check" /\ thread'[t].batch = Tail(b)
    BY <1>1, <1>8
  <2>5. Guarded(t)'
    BY <1>1, <1>5, <1>6, <1>7, <2>1, <2>2, <2>3, <2>4 DEF Guarded, Unmarked, At
  <2> QED BY <1>2, <1>4, <2>5 DEF Ordered
<1>9. CASE Time(n) \notin thread[t].batch_seen \cup applied_entry_timestamps
  <2>1. thread'[t].pc = "apply" /\ thread'[t].batch = b
    BY <1>1, <1>9
  <2>2. Guarded(t)'
    BY <1>1, <1>6, <1>7, <1>9, <2>1 DEF Guarded, Unmarked, At, n
  <2> QED BY <1>2, <1>4, <2>2 DEF Ordered
<1> QED BY <1>8, <1>9

LEMMA OrderApply ==
    ASSUME TypeOK, Ordered, NEW t \in Syncers,
           apply_wal_entry(t), ~log[thread[t].batch[1]].refused
    PROVE  Ordered'
<1> DEFINE n == thread[t].batch[1]
<1>1. /\ Others(t) /\ At(t, "apply") /\ thread[t].batch # <<>> /\ n \in 1..Len(log)
      /\ UNCHANGED <<log, own, last_applied_index, applied_entry_timestamps, seeded>>
      /\ store' = Append(store, n) /\ (~spoilt' => ~spoilt /\ local' = Append(local, n))
      /\ thread'[t].pc = "newline" /\ thread'[t].from = thread[t].from
      /\ thread'[t].count = thread[t].count
      /\ thread'[t].batch = thread[t].batch
      /\ thread'[t].batch_seen = thread[t].batch_seen
  BY ApplyFacts
<1>2. /\ Alone(t) /\ Alone(t)'
      /\ \A u \in Syncers : u # t => Guarded(u)'
      /\ \A u, v \in Syncers : (At(u, "idle") \/ At(v, "idle") \/ u = v)'
  BY <1>1, AloneStep DEF Ordered, At
<1>3. \A m : Time(m)' = Time(m)
  BY <1>1 DEF Time
<1>4. Marking = {} /\ Marking' = {Time(n)}
  BY <1>1, <1>2, <1>3, MarkingAlone, MarkingAloneNext DEF Unmarked, At
<1>5. /\ seeded <= thread[t].from /\ seeded < n /\ Time(n) \notin applied_entry_timestamps
      /\ thread[t].batch_seen \subseteq applied_entry_timestamps \cup {Time(n)}
      /\ \A m \in (seeded + 1)..(n - 1) : Time(m) \in applied_entry_timestamps
  BY <1>1 DEF Ordered, Guarded, At
<1>6. /\ Len(log) \in Nat /\ seeded \in Nat /\ store \in Seq(Nat) /\ Len(store) \in Nat
      /\ n \in Nat /\ n <= Len(log)
  BY <1>1 DEF TypeOK
<1> HIDE DEF n
<1>7. /\ Len(store') = Len(store) + 1 /\ store'[Len(store) + 1] = n
      /\ \A i \in 1..Len(store) : store'[i] = store[i]
  BY <1>1, <1>6
<1>8. Session \subseteq 1..Len(store) /\ Session' = Session \cup {Len(store) + 1}
      /\ Len(store) + 1 \notin Session
  <2>1. seeded <= Len(store)
    BY DEF Ordered, Order
  <2> QED BY <1>1, <1>6, <1>7, <2>1 DEF Session
<1>9. \A i \in Session : store[i] < n
  <2> TAKE i \in Session
  <2>1. store[i] \in Nat
    BY <1>6, <1>8
  <2>2. \A m \in (seeded + 1)..store[i] : Time(m) \in applied_entry_timestamps
    BY <1>4 DEF Ordered, Order
  <2>3. n \notin (seeded + 1)..store[i]
    BY <1>5, <2>2
  <2> QED BY <1>5, <1>6, <2>1, <2>3
<1>10. Len(store) + 1 <= n
  <2>1. CASE Len(store) = seeded
    BY <2>1, <1>5, <1>6
  <2>2. CASE Len(store) # seeded
    <3>1. Len(store) \in Session
      BY <2>2, <1>6 DEF Session, Ordered, Order
    <3>2. Len(store) <= store[Len(store)] /\ store[Len(store)] < n /\ store[Len(store)] \in Nat
      BY <3>1, <1>6, <1>8, <1>9 DEF Ordered, Order
    <3> QED BY <3>2, <1>6
  <2> QED BY <2>1, <2>2
<1>11. Order'
  <2>1. \A i, j \in Session' : i < j => store'[i] < store'[j]
    <3> TAKE i, j \in Session'
    <3>1. CASE i \in Session /\ j \in Session
      BY <3>1, <1>7, <1>8 DEF Ordered, Order
    <3>2. CASE i \in Session /\ j = Len(store) + 1
      BY <3>2, <1>7, <1>8, <1>9
    <3>3. CASE i = Len(store) + 1
      <4>1. j <= Len(store) + 1 /\ j \in Nat
        BY <1>6, <1>8
      <4> QED BY <3>3, <4>1, <1>6
    <3> QED BY <1>8, <3>1, <3>2, <3>3
  <2>2. \A i \in Session' : i <= store'[i] /\ store'[i] <= Len(log')
    BY <1>1, <1>6, <1>7, <1>8, <1>10 DEF Ordered, Order
  <2>3. \A i \in Session' : \A m \in (seeded + 1)..store'[i] :
           Time(m) \in applied_entry_timestamps \cup {Time(n)}
    <3> TAKE i \in Session'
    <3> TAKE m \in (seeded + 1)..store'[i]
    <3>1. CASE i \in Session
      BY <3>1, <1>4, <1>7, <1>8 DEF Ordered, Order
    <3>2. CASE i = Len(store) + 1
      <4>1. m \in (seeded + 1)..n
        BY <3>2, <1>7
      <4>2. m \in (seeded + 1)..(n - 1) \/ m = n
        BY <4>1, <1>6
      <4> QED BY <4>2, <1>5
    <3> QED BY <1>8, <3>1, <3>2
  <2>4. /\ ~spoilt' => local' = store'
        /\ seeded' <= last_applied_index' /\ seeded' <= Len(store') /\ own' = "idle"
    BY <1>1, <1>6, <1>7 DEF Ordered, Order
  <2>5. Counted'
    <3>1. Counted /\ Len(store) \in Nat /\ last_applied_index \in Nat
          /\ thread[t].count \in Nat /\ thread[t].from \in Nat
      BY Typed DEF Ordered, Order
    <3>2. /\ last_applied_index + Pending(t) <= Len(store) /\ thread[t].from <= Len(store)
      BY <3>1 DEF Counted
    <3>3. Pending(t) = thread[t].count /\ Pending(t)' = thread[t].count + 1
      BY <1>1, <3>1 DEF Pending, Unmarked, At
    <3>4. /\ last_applied_index + (thread[t].count + 1) <= Len(store) + 1 /\ Len(store) <= Len(store) + 1
          /\ thread[t].from <= Len(store) + 1 /\ Len(store) + 1 \in Nat
      BY <3>1, <3>2, <3>3
    <3>5. PICK m \in Nat, pending \in Nat : m = Len(store) + 1 /\ pending = thread[t].count + 1
      BY <3>1
    <3> QED BY <1>1, <1>2, <1>7, <3>1, <3>3, <3>4, <3>5, CountedStep
  <2> QED BY <1>1, <1>2, <1>3, <1>4, <2>1, <2>2, <2>3, <2>4, <2>5 DEF Order
<1>12. Guarded(t)'
  <2>1. seeded < Len(store')
    BY <1>6, <1>7 DEF Ordered, Order
  <2>2. store'[Len(store')] = n /\ thread'[t].batch[1] = n
    BY <1>1, <1>7 DEF n
  <2> QED BY <1>1, <1>3, <1>5, <2>1, <2>2 DEF Guarded, Unmarked, At
<1> QED BY <1>2, <1>11, <1>12 DEF Ordered

LEMMA OrderLine ==
    ASSUME TypeOK, Ordered, NEW t \in Syncers, EndLine(t)
    PROVE  Ordered'
<1>1. /\ Others(t) /\ At(t, "newline") /\ thread[t].batch # <<>>
      /\ UNCHANGED <<log, store, local, spoilt, own, last_applied_index, applied_entry_timestamps,
                     seeded>>
      /\ thread'[t].pc = "mark" /\ thread'[t].from = thread[t].from
      /\ thread'[t].batch = thread[t].batch /\ thread'[t].count = thread[t].count
      /\ thread'[t].batch_seen = thread[t].batch_seen
  BY LineFacts
<1>2. /\ Alone(t) /\ Alone(t)'
      /\ \A u \in Syncers : u # t => Guarded(u)'
      /\ \A u, v \in Syncers : (At(u, "idle") \/ At(v, "idle") \/ u = v)'
  BY <1>1, AloneStep DEF Ordered, At
<1>3. \A m : Time(m)' = Time(m)
  BY <1>1 DEF Time
<1>4. Marking' = Marking
  BY <1>1, <1>2, <1>3, MarkingAlone, MarkingAloneNext DEF Unmarked, At
<1>4a. Counted'
  <2>1. Counted /\ Len(store) \in Nat /\ last_applied_index \in Nat
        /\ thread[t].count \in Nat /\ thread[t].from \in Nat
    BY Typed DEF Ordered, Order
  <2>2. /\ last_applied_index + Pending(t) <= Len(store) /\ thread[t].from <= Len(store)
    BY <2>1 DEF Counted
  <2>3. Pending(t) = thread[t].count + 1 /\ Pending(t)' = thread[t].count + 1
    BY <1>1, <2>1 DEF Pending, Unmarked, At
  <2>4. PICK pending \in Nat : pending = thread[t].count + 1
    BY <2>1
  <2> QED BY <1>1, <1>2, <2>1, <2>2, <2>3, <2>4, CountedStep
<1>5. Order'
  BY <1>1, <1>2, <1>4, <1>4a, OrderKept DEF Ordered, Order, Covered
<1>6. Guarded(t)'
  BY <1>1, <1>3 DEF Guarded, Unmarked, At, Ordered
<1> QED BY <1>2, <1>5, <1>6 DEF Ordered

LEMMA OrderMark ==
    ASSUME TypeOK, Ordered, NEW t \in Syncers, MarkEntry(t)
    PROVE  Ordered'
<1> DEFINE b == thread[t].batch
           n == b[1]
<1>1. /\ Others(t) /\ At(t, "mark") /\ b # <<>>
      /\ UNCHANGED <<log, store, local, spoilt, own, last_applied_index, seeded>>
      /\ applied_entry_timestamps' = applied_entry_timestamps \cup {Time(n)}
      /\ thread'[t].pc = "check" /\ thread'[t].from = thread[t].from
      /\ thread'[t].batch = Tail(b) /\ thread'[t].batch_seen = thread[t].batch_seen
      /\ thread'[t].count = thread[t].count + 1
  BY MarkFacts DEF file
<1>2. /\ Alone(t) /\ Alone(t)'
      /\ \A u \in Syncers : u # t => Guarded(u)'
      /\ \A u, v \in Syncers : (At(u, "idle") \/ At(v, "idle") \/ u = v)'
  BY <1>1, AloneStep DEF Ordered, At
<1>3. Marking = {Time(n)}
  BY <1>1, <1>2, MarkingAlone DEF Unmarked, At
<1>3a. Counted'
  <2>1. Counted /\ Len(store) \in Nat /\ last_applied_index \in Nat
        /\ thread[t].count \in Nat /\ thread[t].from \in Nat
    BY Typed DEF Ordered, Order
  <2>2. /\ last_applied_index + Pending(t) <= Len(store) /\ thread[t].from <= Len(store)
    BY <2>1 DEF Counted
  <2>3. Pending(t) = thread[t].count + 1 /\ Pending(t)' = thread[t].count + 1
    BY <1>1, <2>1 DEF Pending, Unmarked, At
  <2>4. PICK pending \in Nat : pending = thread[t].count + 1
    BY <2>1
  <2> QED BY <1>1, <1>2, <2>1, <2>2, <2>3, <2>4, CountedStep
<1>4. n \in Nat /\ seeded \in Nat /\ (Tail(b) # <<>> => Tail(b)[1] = n + 1)
  <2>1. seeded \in Nat
    BY DEF TypeOK
  <2> QED BY <1>1, <2>1, HeadOfBatch
<1>5. /\ seeded <= thread[t].from /\ seeded < n
      /\ thread[t].batch_seen \subseteq applied_entry_timestamps \cup {Time(n)}
      /\ \A m \in (seeded + 1)..(n - 1) : Time(m) \in applied_entry_timestamps
  BY <1>1 DEF Ordered, Guarded, Unmarked, At
<1>6. \A m : Time(m)' = Time(m)
  BY <1>1 DEF Time
<1> HIDE DEF n, b
<1>7. Order'
  BY <1>1, <1>2, <1>3, <1>3a, OrderKept DEF Ordered, Order, Covered
<1>8. \A m \in (seeded + 1)..n : Time(m) \in applied_entry_timestamps'
  BY <1>1, <1>4, <1>5
<1>9. (n + 1) - 1 = n /\ seeded < n + 1
  BY <1>4, <1>5
<1>10. Guarded(t)'
  BY <1>1, <1>4, <1>5, <1>6, <1>8, <1>9 DEF Guarded, Unmarked, At
<1> QED BY <1>2, <1>7, <1>10 DEF Ordered

LEMMA OrderEnds ==
    ASSUME TypeOK, Ordered, NEW t \in Syncers, Ends(t), clean'
    PROVE  Ordered'
<1>1. /\ Others(t) /\ thread'[t] = Idle /\ ~At(t, "idle") /\ ~Unmarked(t)
      /\ UNCHANGED <<log, store, own, applied_entry_timestamps, seeded>>
      /\ ~spoilt' => ~spoilt /\ local' = local
      /\ \/ last_applied_index' = last_applied_index
         \/ last_applied_index' = last_applied_index + thread[t].count
  BY EndFacts
<1>2. /\ Alone(t) /\ Alone(t)'
      /\ \A u \in Syncers : u # t => Guarded(u)'
      /\ \A u, v \in Syncers : (At(u, "idle") \/ At(v, "idle") \/ u = v)'
  BY <1>1, AloneStep DEF Ordered
<1>3. Marking = {}
  BY <1>1, <1>2, MarkingAlone
<1>4. thread[t].count \in Nat /\ last_applied_index \in Nat /\ seeded \in Nat
  BY DEF TypeOK, Thread
<1>5. seeded <= last_applied_index'
  BY <1>1, <1>4 DEF Ordered, Order
<1>5a. Counted'
  <2>1. Counted /\ Len(store) \in Nat
    BY Typed DEF Ordered, Order
  <2>2. last_applied_index + Pending(t) <= Len(store) /\ Pending(t) = thread[t].count
    BY <1>1, <1>4, <2>1 DEF Counted, Pending
  <2>3. PICK n \in Nat : n = Len(store')
    BY <1>1, <2>1
  <2>4. PICK pending \in Nat : pending = 0
    OBVIOUS
  <2>5. pending = Pending(t)' /\ thread'[t].from = 0
    BY <1>1, <2>4 DEF Pending, Unmarked, Idle
  <2>6. n = Len(store) /\ Len(store) <= n
    BY <1>1, <2>1, <2>3
  <2>7. last_applied_index' \in Nat
    BY <1>1, <1>4
  <2>8. last_applied_index' + pending <= n
    BY <1>1, <1>4, <2>1, <2>2, <2>4, <2>6
  <2>9. thread'[t].from <= n
    BY <2>3, <2>5
  <2> QED BY <1>1, <1>2, <2>1, <2>3, <2>4, <2>5, <2>6, <2>7, <2>8, <2>9, CountedStep
<1>6. Order'
  BY <1>1, <1>2, <1>3, <1>5, <1>5a, OrderKept DEF Ordered, Covered
<1>7. Guarded(t)'
  BY <1>1 DEF Guarded, Unmarked, At, Idle
<1> QED BY <1>2, <1>6, <1>7 DEF Ordered

\* Whatever the replica was before, after a start it is in order.
LEMMA OrderRestart == ASSUME TypeOK, Restart PROVE Ordered'
<1>1. /\ store' = local /\ local' = local /\ log' = log /\ own' = "idle"
      /\ last_applied_index' = Len(local) /\ seeded' = Len(local)
      /\ \A t \in Syncers : thread'[t] = Idle
  BY DEF Restart, Seed, file
<1>2. Len(local) \in Nat
  BY DEF TypeOK
<1>3. Session' = {}
  BY <1>1, <1>2 DEF Session
<1>4. Order'
  <2>1. Counted'
    BY <1>1, <1>2 DEF Counted, Pending, Unmarked, Idle
  <2> QED BY <1>1, <1>2, <1>3, <2>1 DEF Order, At, Idle
<1>5. ASSUME NEW t \in Syncers PROVE Guarded(t)'
  BY <1>1 DEF Guarded, Unmarked, At, Idle
<1> QED BY <1>4, <1>5 DEF Ordered

LEMMA OrderStep ==
    ASSUME TypeOK, clean => Ordered, Next, clean'
    PROVE  clean /\ Ordered'
<1>1. ~Own
  <2>1. clean => own = "idle"
    BY DEF Ordered, Order
  <2> QED BY <2>1, OwnFacts
<1>2. clean
  <2>1. \A t \in Syncers : Ends(t) => clean
    BY EndFacts
  <2> QED
    BY <1>1, <2>1, StepCases DEF MasterAppend, StartSync, PullEntries, CheckEntry, MarkEntry,
       EndLine, apply_wal_entry, Restart
<1> QED
  BY <1>1, <1>2, StepCases, OrderAppend, OrderStart, OrderPull, OrderCheck, OrderApply, OrderLine,
     OrderMark, OrderEnds, OrderRestart

-----------------------------------------------------------------------------
(* The prefix *)

LEMMA DistinctBefore == ASSUME TypeOK, Next, Distinct' PROVE Distinct
<1>1. CASE \E refused \in BOOLEAN, later \in 0..1 : MasterAppend(refused, later)
  <2>1. /\ Len(log) \in Nat /\ Len(log') = Len(log) + 1
        /\ \A i \in 1..Len(log) : Time(i)' = Time(i)
    BY <1>1, AppendFacts DEF Time
  <2>2. 1..Len(log) \subseteq 1..Len(log')
    BY <2>1
  <2> QED BY <2>1, <2>2 DEF Distinct
<1>2. CASE log' = log
  BY <1>2 DEF Distinct, Time
<1>3. (\A t \in Syncers : Ends(t) => log' = log) /\ (Own => log' = log)
  BY EndFacts, OwnFacts
<1> QED
  BY <1>1, <1>2, <1>3, StepCases DEF StartSync, PullEntries, CheckEntry, MarkEntry,
     EndLine, apply_wal_entry, Restart

\* Steps that apply nothing and mark nothing.
LEMMA PrefixKept ==
    ASSUME Prefix, UNCHANGED <<log, store, seeded, applied_entry_timestamps>>
    PROVE  Prefix'
  BY DEF Prefix, Session, Time

LEMMA PrefixStep ==
    ASSUME TypeOK, clean => Ordered, clean /\ ~spoilt /\ Distinct => Prefix, Next,
           clean', ~spoilt', Distinct'
    PROVE  Prefix'
<1>1. clean /\ ~spoilt /\ Ordered' /\ Ordered /\ Distinct /\ Prefix
  BY OrderStep, SpoiltStays, DistinctBefore
<1>2. /\ store \in Seq(Nat) /\ Len(store) \in Nat /\ seeded \in Nat /\ Len(log) \in Nat
      /\ seeded <= Len(store)
  BY <1>1 DEF TypeOK, Ordered, Order
<1>3. ASSUME NEW refused \in BOOLEAN, NEW later \in 0..1, MasterAppend(refused, later)
      PROVE  Prefix'
  <2>1. /\ Len(log') = Len(log) + 1
        /\ \A i \in 1..Len(log) : Time(i)' = Time(i)
        /\ UNCHANGED <<store, applied_entry_timestamps, seeded>>
    BY <1>3, AppendFacts DEF Time
  <2>2. Session \subseteq 1..Len(log) /\ Session' = Session
    BY <1>1, <1>2, <2>1 DEF Session, Prefix
  <2> QED BY <1>1, <1>2, <2>1, <2>2 DEF Prefix
<1>4. ASSUME NEW t \in Syncers, StartSync(t) \/ PullEntries(t) \/ CheckEntry(t) \/ EndLine(t) \/ Ends(t)
      PROVE  Prefix'
  <2>1. UNCHANGED <<log, store, seeded, applied_entry_timestamps>>
    BY <1>4, StartFacts, PullFacts, CheckFacts, LineFacts, EndFacts
  <2> QED BY <1>1, <2>1, PrefixKept
<1>5. ASSUME NEW t \in Syncers, apply_wal_entry(t), ~log[thread[t].batch[1]].refused
      PROVE  Prefix'
  <2> DEFINE n == thread[t].batch[1]
  <2>1. /\ At(t, "apply") /\ thread[t].batch # <<>> /\ n \in 1..Len(log)
        /\ UNCHANGED <<log, applied_entry_timestamps, seeded>>
        /\ store' = Append(store, n)
    BY <1>5, ApplyFacts
  <2>2. n \in Nat /\ n <= Len(log)
    BY <1>2, <2>1
  <2>3. /\ seeded < n
        /\ \A m \in (seeded + 1)..(n - 1) : Time(m) \in applied_entry_timestamps
    BY <1>1, <2>1 DEF Ordered, Guarded
  <2> HIDE DEF n
  <2>4. /\ Len(store') = Len(store) + 1 /\ store'[Len(store) + 1] = n
        /\ \A i \in 1..Len(store) : store'[i] = store[i]
    BY <1>2, <2>1, <2>2
  <2>5. Len(store) + 1 <= n
    <3>1. Len(store) + 1 \in Session'
      BY <1>2, <2>1, <2>4 DEF Session
    <3> QED BY <1>1, <2>4, <3>1 DEF Ordered, Order
  <2>6. ~(Len(store) + 1 < n)
    <3> SUFFICES ASSUME Len(store) + 1 < n PROVE FALSE
      OBVIOUS
    <3>1. Len(store) + 1 \in (seeded + 1)..(n - 1)
      BY <1>2, <2>2
    <3>2. PICK i \in Session : Time(Len(store) + 1) = Time(i)
      BY <1>1, <2>3, <3>1 DEF Prefix
    <3>3. i \in 1..Len(log) /\ Len(store) + 1 \in 1..Len(log) /\ i <= Len(store) /\ i \in Nat
      BY <1>1, <1>2, <2>2 DEF Session, Prefix
    <3>4. i = Len(store) + 1
      BY <1>1, <3>2, <3>3 DEF Distinct
    <3> QED BY <1>2, <3>3, <3>4
  <2>7. n = Len(store) + 1
    BY <1>2, <2>2, <2>5, <2>6
  <2>8. \A i \in 1..Len(store') : store'[i] = i
    BY <1>1, <1>2, <2>4, <2>7 DEF Prefix
  <2>9. Len(store') <= Len(log')
    BY <2>1, <2>2, <2>4, <2>7
  <2>10. Session \subseteq Session' /\ \A m : Time(m)' = Time(m)
    BY <1>2, <2>1, <2>4 DEF Session, Time
  <2> QED BY <1>1, <2>1, <2>8, <2>9, <2>10 DEF Prefix
<1>6. ASSUME NEW t \in Syncers, MarkEntry(t) PROVE Prefix'
  <2> DEFINE n == thread[t].batch[1]
  <2>1. /\ At(t, "mark") /\ thread[t].batch # <<>>
        /\ UNCHANGED <<log, store, seeded>>
        /\ applied_entry_timestamps' = applied_entry_timestamps \cup {Time(n)}
    BY <1>6, MarkFacts
  <2>2. seeded < Len(store) /\ store[Len(store)] = n
    BY <1>1, <2>1 DEF Ordered, Guarded, Unmarked, At
  <2> HIDE DEF n
  <2>3. n = Len(store) /\ n \in Session
    BY <1>1, <1>2, <2>2 DEF Session, Prefix
  <2>4. Session' = Session /\ \A m : Time(m)' = Time(m)
    BY <2>1 DEF Session, Time
  <2> QED BY <1>1, <2>1, <2>3, <2>4 DEF Prefix
<1>7. ASSUME Restart PROVE Prefix'
  <2>1. /\ log' = log /\ store' = local /\ applied_entry_timestamps' = {}
    BY <1>7 DEF Restart
  <2>2. local = store
    BY <1>1 DEF Ordered, Order
  <2> QED BY <1>1, <2>1, <2>2 DEF Prefix
<1>8. ~Own
  <2>1. clean => own = "idle"
    BY <1>1 DEF Ordered, Order
  <2> QED BY <2>1, OwnFacts
<1> QED BY <1>3, <1>4, <1>5, <1>6, <1>7, <1>8, StepCases

-----------------------------------------------------------------------------
(* The theorems *)

LEMMA InitOK == Init => Inv
<1> SUFFICES ASSUME Init PROVE Inv
  OBVIOUS
<1>1. TypeOK /\ Claims /\ Order /\ \A t \in Syncers : Guarded(t)
  BY TypeInit, ClaimsInit, OrderInit
<1>2. Prefix
  BY DEF Init, Prefix
<1> QED BY <1>1, <1>2 DEF Inv

LEMMA StepOK == Inv /\ [Next]_vars => Inv'
<1> SUFFICES ASSUME Inv, [Next]_vars PROVE Inv'
  OBVIOUS
<1>1. CASE Next
  <2>1. /\ TypeOK /\ (~spoilt => Claims) /\ (clean => Ordered)
        /\ clean /\ ~spoilt /\ Distinct => Prefix
    BY DEF Inv, Ordered
  <2>2. TypeOK'
    BY <1>1, <2>1, TypeStep
  <2>3. ~spoilt' => Claims'
    BY <1>1, <2>1, <2>2, ClaimsStep
  <2>4. clean' => Ordered'
    BY <1>1, <2>1, OrderStep
  <2>5. clean' /\ ~spoilt' /\ Distinct' => Prefix'
    BY <1>1, <2>1, PrefixStep
  <2> QED BY <2>2, <2>3, <2>4, <2>5 DEF Inv, Ordered
<1>2. CASE UNCHANGED vars
  <2> USE DEF vars, replica, file
  <2>1. TypeOK'
    BY <1>2 DEF Inv, TypeOK
  <2>2. ~spoilt' => Claims'
    BY <1>2 DEF Inv, Claims, Shared, Pending, Unmarked
  <2>3. clean' => Order' /\ \A t \in Syncers : Guarded(t)'
    BY <1>2 DEF Inv, Order, Counted, Pending, Unmarked, Guarded, Session, Marking, Time, At
  <2>4. clean' /\ ~spoilt' /\ Distinct' => Prefix'
    BY <1>2 DEF Inv, Distinct, Prefix, Session, Time
  <2> QED BY <2>1, <2>2, <2>3, <2>4 DEF Inv
<1> QED BY <1>1, <1>2

LEMMA InvHolds == Spec => []Inv
  BY InitOK, StepOK, PTL DEF Spec

\* The index a replica reports to its master, and the one it counts from, never
\* exceed the number of entries in its own log, however many syncs overlap,
\* whatever fails and wherever it crashes, as long as no line of that log is
\* malformed.
THEOREM ClaimsSound == Spec => []NeverClaimsTooMuch
<1>1. Inv => NeverClaimsTooMuch
  <2> SUFFICES ASSUME Inv, ~spoilt PROVE last_applied_index <= Len(local) /\ registered <= Len(local)
    BY DEF NeverClaimsTooMuch
  <2>1. TypeOK /\ Claims
    BY DEF Inv
  <2>2. PICK mine \in [Syncers -> SUBSET (1..Len(local))], done \in SUBSET (1..Len(local)) :
           Shared(mine, done)
    BY <2>1 DEF Claims
  <2>3. Len(local) \in Nat /\ last_applied_index \in Nat
    BY <2>1 DEF TypeOK
  <2>4. Cardinality(done) \in Nat /\ Cardinality(done) <= Len(local)
    BY <2>3, PartOfLog
  <2>5. last_applied_index <= Len(local)
    BY <2>2, <2>3, <2>4 DEF Shared
  <2> QED BY <2>1, <2>5 DEF Claims
<1> QED BY <1>1, InvHolds, PTL

\* Between two starts the replica applies entries in the order of the master's
\* log, none twice, whatever batches and failures the syncs meet and whatever
\* its own log has lost.
THEOREM OrderSound == Spec => []AppliedInOrder
<1>1. Inv => AppliedInOrder
  BY DEF Inv, AppliedInOrder, Order, Session
<1> QED BY <1>1, InvHolds, PTL

\* With at most one entry a second the replica holds a prefix of the master's
\* log, across failing requests, refused entries and crashes, as long as no line
\* of its own log is malformed.
THEOREM PrefixSound == Spec => []ReplicaIsPrefix
<1>1. Inv => ReplicaIsPrefix
  <2> SUFFICES ASSUME Inv, clean, ~spoilt, Distinct PROVE store = [i \in 1..Len(store) |-> i]
    BY DEF ReplicaIsPrefix
  <2>1. store \in Seq(Nat) /\ \A i \in 1..Len(store) : store[i] = i
    BY DEF Inv, TypeOK, Prefix
  <2>2. store = [i \in 1..Len(store) |-> store[i]]
    BY <2>1
  <2> QED BY <2>1, <2>2
<1> QED BY <1>1, InvHolds, PTL
=============================================================================
