---------------------------- MODULE Replication -----------------------------
(***************************************************************************)
(* Replication (src/replication.rs, its endpoints in src/api.rs and its    *)
(* background loop in src/server.rs): a master that serves its log, and a  *)
(* replica that pulls entries and applies them.  sync() may be run by      *)
(* several callers at once, the loop and POST /api/replication/sync, and   *)
(* holds no lock from one of its steps to the next.                        *)
(*                                                                         *)
(* An entry of the master's log is known by its position, the store of the *)
(* replica by the sequence of the entries applied to it, and its log file  *)
(* by the entries that reading it yields: an append is two writes, a text  *)
(* and its newline, and a line in which two texts met, or with a text cut  *)
(* short, is skipped.  (With a key, or cut inside a character, it makes    *)
(* reading the file and so the start fail instead: see Server.)  Left out: *)
(* what is only reported (the lag, the status and the time of the last     *)
(* heartbeat or sync), remove_replica, which nobody calls, and failing     *)
(* appends of the master.                                                  *)
(***************************************************************************)
EXTENDS Integers, Sequences, FiniteSets, SequencesExt

CONSTANTS
    Loop,                   \* the background loop, one caller of sync
    Syncers,                \* all callers: Loop, and requests to sync
    Limit,                  \* entries per response: 100
    MaxEntries,             \* bound on the master's log
    MaxRefused,             \* bound on the entries the replica's store refuses
    MaxRequests,            \* bound on the requests to sync
    MaxMishaps,             \* bound on failing requests, failing texts, own writes
    MaxStarts               \* bound on the starts of the replica

ASSUME ReplicationAssumption ==
    Limit \in Nat \ {0} /\ Loop \in Syncers

VARIABLES
    log,        \* the master's log: the second of each entry, and whether the
                \* replica's store refuses it with an error
    registered, \* the index of the last heartbeat the master got
    store,      \* positions of log applied to the replica's store, 0 for its own writes
    local,      \* the same for the entries read from the replica's own log file
    line,       \* the last line of that file: "blank", one "entry", or "malformed"
    spoilt,     \* whether some line of it is malformed
    own,        \* where a client's write to the replica itself is
    last_applied_index,
    applied_entry_timestamps,
    thread,     \* where each caller is in sync, with its local variables
    requests, mishaps, starts,
    seeded,     \* history: what last_applied_index was at the last start
    clean       \* history: no two syncs overlapped, no append failed, no own writes

file == <<local, line, spoilt>>

replica == <<store, file, own, last_applied_index, applied_entry_timestamps>>

vars == <<log, registered, replica, thread, requests, mishaps, starts, seeded, clean>>

Idle == [pc |-> "idle", from |-> 0, batch |-> <<>>, batch_seen |-> {}, count |-> 0]

Init ==
    /\ log = <<>>
    /\ registered = 0
    /\ store = <<>> /\ local = <<>>
    /\ line = "blank" /\ spoilt = FALSE
    /\ own = "idle"
    /\ last_applied_index = 0
    /\ applied_entry_timestamps = {}
    /\ thread = [t \in Syncers |-> Idle]
    /\ requests = 0 /\ mishaps = 0 /\ starts = 1
    /\ seeded = 0
    /\ clean = TRUE

-----------------------------------------------------------------------------
(* The master *)

\* A client's write reaches the log, in the second of the entry before it or
\* in a later one: the clock is only seen through these seconds, from the first.
MasterAppend(refused, later) ==
    /\ Len(log) < MaxEntries
    /\ refused => Cardinality({i \in 1..Len(log) : log[i].refused}) < MaxRefused
    /\ LET second == IF log = <<>> THEN 0 ELSE Last(log).time + later
       IN  log' = Append(log, [time |-> second, refused |-> refused])
    /\ UNCHANGED <<registered, replica, thread, requests, mishaps, starts, seeded, clean>>

\* Faulty variant: counting entries from one.
get_wal_entries_from_next(from_index) ==
    [i \in 1..(IF Len(log) - from_index - 1 > 0 THEN 1 ELSE 0) |-> from_index + 1 + i]

\* The positions of the entries served from an index on.
get_wal_entries(from_index) ==
    LET end == IF from_index + Limit < Len(log) THEN from_index + Limit ELSE Len(log)
    IN  IF from_index >= Len(log) THEN <<>> ELSE [i \in 1..(end - from_index) |-> from_index + i]

-----------------------------------------------------------------------------
(* The replica's log file *)

\* Part of a text is written: what was in the last line is lost with it.
cut_text ==
    /\ local' = IF line = "entry" THEN Front(local) ELSE local
    /\ line' = "malformed"
    /\ spoilt' = TRUE

\* The text of an entry is written, to the last line whatever is in it.
write_text(n) ==
    IF line = "blank"
    THEN local' = Append(local, n) /\ line' = "entry" /\ UNCHANGED spoilt
    ELSE cut_text

write_newline == line' = "blank" /\ UNCHANGED <<local, spoilt>>

-----------------------------------------------------------------------------
(* The replica *)

At(t, pc) == thread[t].pc = pc

Goto(t, th) == thread' = [thread EXCEPT ![t] = th]

\* sync is called: read last_applied_index.
StartSync(t) ==
    /\ At(t, "idle")
    /\ t # Loop => requests < MaxRequests
    /\ requests' = IF t = Loop THEN requests ELSE requests + 1
    /\ Goto(t, [Idle EXCEPT !.pc = "pull", !.from = last_applied_index])
    /\ clean' = (clean /\ \A u \in Syncers \ {t} : At(u, "idle"))
    /\ UNCHANGED <<log, registered, replica, mishaps, starts, seeded>>

\* send_heartbeat, then fetch_wal_entries; an empty answer ends the sync.  (The
\* heartbeat changes nothing the fetch depends on, so the two are one step.)
PullEntries(t) ==
    /\ At(t, "pull")
    /\ registered' = thread[t].from
    /\ LET batch == get_wal_entries(thread[t].from)
       IN  Goto(t, IF batch = <<>> THEN Idle
                   ELSE [thread[t] EXCEPT !.pc = "check", !.batch = batch])
    /\ UNCHANGED <<log, replica, requests, mishaps, starts, seeded, clean>>

\* One of the two requests is refused (no token), times out, or its answer is
\* lost: the sync returns the error, the master may have been told the index.
RequestFails(t) ==
    /\ At(t, "pull")
    /\ mishaps < MaxMishaps
    /\ mishaps' = mishaps + 1
    /\ registered' \in {registered, thread[t].from}
    /\ Goto(t, Idle)
    /\ UNCHANGED <<log, replica, requests, starts, seeded, clean>>

Time(n) == log[n].time

\* Faulty variant: no guard against duplicates across syncs.
IsDuplicateInBatch(th) == Time(th.batch[1]) \in th.batch_seen

\* The two guards: the second has been seen in this batch, or was applied
\* before in this process.
IsDuplicate(th) ==
    Time(th.batch[1]) \in th.batch_seen \cup applied_entry_timestamps

\* The guards at the head of the loop over the entries.
CheckEntry(t) ==
    LET th == thread[t]
        seen == [th EXCEPT !.batch_seen = @ \cup {Time(th.batch[1])}]
    IN  /\ At(t, "check") /\ th.batch # <<>>
        /\ Goto(t, IF IsDuplicate(th) THEN [seen EXCEPT !.batch = Tail(@)]
                   ELSE [seen EXCEPT !.pc = "apply"])
        /\ UNCHANGED <<log, registered, replica, requests, mishaps, starts, seeded, clean>>

\* The store's write lock is held from the change of the store to the newline.
Locked == \E t \in Syncers : At(t, "newline")

\* apply_wal_entry: the store, and the text in the local log.  An entry the
\* store refuses ends the sync, without a word on those before it.
apply_wal_entry(t) ==
    LET n == thread[t].batch[1]
    IN  /\ At(t, "apply") /\ ~Locked
        /\ IF log[n].refused
           THEN Goto(t, Idle) /\ UNCHANGED <<store, file>>
           ELSE /\ store' = Append(store, n)
                /\ write_text(n)
                /\ Goto(t, [thread[t] EXCEPT !.pc = "newline"])
        /\ UNCHANGED <<log, registered, own, last_applied_index, applied_entry_timestamps,
                       requests, mishaps, starts, seeded, clean>>

\* The rest of the append to the local log.
EndLine(t) ==
    /\ At(t, "newline")
    /\ write_newline
    /\ Goto(t, [thread[t] EXCEPT !.pc = "mark"])
    /\ UNCHANGED <<log, registered, store, own, last_applied_index, applied_entry_timestamps,
                   requests, mishaps, starts, seeded, clean>>

\* The entry is applied, then its append to the local log fails: before the
\* text, in it, or before the newline.  (With a crash next, this is also the
\* crash in the middle of a text.)
AppendFails(t) ==
    /\ mishaps < MaxMishaps
    /\ mishaps' = mishaps + 1
    /\ \/ /\ At(t, "apply") /\ ~Locked /\ ~log[thread[t].batch[1]].refused
          /\ store' = Append(store, thread[t].batch[1])
          /\ cut_text \/ UNCHANGED file
       \/ At(t, "newline") /\ UNCHANGED <<store, file>>
    /\ Goto(t, Idle)
    /\ clean' = FALSE
    /\ UNCHANGED <<log, registered, own, last_applied_index,
                   applied_entry_timestamps, requests, starts, seeded>>

MarkEntry(t) ==
    LET n == thread[t].batch[1]
    IN  /\ At(t, "mark")
        /\ applied_entry_timestamps' = applied_entry_timestamps \cup {Time(n)}
        /\ Goto(t, [thread[t] EXCEPT !.pc = "check", !.batch = Tail(@), !.count = @ + 1])
        /\ UNCHANGED <<log, registered, store, file, own, last_applied_index,
                       requests, mishaps, starts, seeded, clean>>

\* Faulty variant: the index moves past the skipped entries too.
AdvanceByBatch(th) == Len(get_wal_entries(th.from))

AdvanceBy(th) == th.count

\* The end of the loop, and of the sync.
AdvanceIndex(t) ==
    /\ At(t, "check") /\ thread[t].batch = <<>>
    /\ last_applied_index' = last_applied_index + AdvanceBy(thread[t])
    /\ Goto(t, Idle)
    /\ UNCHANGED <<log, registered, store, file, own, applied_entry_timestamps,
                   requests, mishaps, starts, seeded, clean>>

\* A client writes to the replica itself, which is not read-only: the handler
\* logs the command without the store's lock, which it takes to carry it out.
\* Either write to the log may fail.
OwnText ==
    /\ own = "idle" /\ mishaps < MaxMishaps
    /\ mishaps' = mishaps + 1
    /\ \/ write_text(0) /\ own' = "newline"
       \/ cut_text /\ own' = "idle"
    /\ clean' = FALSE
    /\ UNCHANGED <<log, registered, store, last_applied_index, applied_entry_timestamps,
                   thread, requests, starts, seeded>>

OwnNewline ==
    /\ own = "newline"
    /\ \/ write_newline /\ own' = "apply"
       \/ UNCHANGED file /\ own' = "idle"
    /\ UNCHANGED <<log, registered, store, last_applied_index, applied_entry_timestamps,
                   thread, requests, mishaps, starts, seeded, clean>>

OwnApply ==
    /\ own = "apply" /\ ~Locked
    /\ store' = Append(store, 0)
    /\ own' = "idle"
    /\ UNCHANGED <<log, registered, file, last_applied_index, applied_entry_timestamps,
                   thread, requests, mishaps, starts, seeded, clean>>

\* Faulty variant: a new process starts counting anew.
SeedZero(entries) == 0

\* ReplicationReplica::new counts the entries of the local log.
Seed(entries) == Len(entries)

\* The replica crashes at any point, and starts again: the store is replayed
\* from the local log, the guards are forgotten.  A text without its newline
\* is read as any other, and the next text goes to its line.
Restart ==
    /\ starts < MaxStarts
    /\ starts' = starts + 1
    /\ store' = local
    /\ last_applied_index' = Seed(local)
    /\ seeded' = Seed(local)
    /\ applied_entry_timestamps' = {}
    /\ thread' = [t \in Syncers |-> Idle]
    /\ own' = "idle"
    /\ UNCHANGED <<log, registered, file, requests, mishaps, clean>>

-----------------------------------------------------------------------------

Sync(t) ==
    \/ StartSync(t) \/ PullEntries(t) \/ CheckEntry(t)
    \/ apply_wal_entry(t) \/ EndLine(t) \/ MarkEntry(t) \/ AdvanceIndex(t)

Next ==
    \/ \E refused \in BOOLEAN, later \in 0..1 : MasterAppend(refused, later)
    \/ \E t \in Syncers : Sync(t) \/ RequestFails(t) \/ AppendFails(t)
    \/ OwnText \/ OwnNewline \/ OwnApply \/ Restart

Spec == Init /\ [][Next]_vars

\* The background loop calls sync again and again, and a sync that was requested
\* is not given up half way; nobody has to request one.
FairSpec ==
    /\ Spec
    /\ WF_vars(Sync(Loop))
    /\ \A t \in Syncers : WF_vars(~At(t, "idle") /\ Sync(t))

-----------------------------------------------------------------------------
(* Properties *)

\* No two writes of the master in one second.
Distinct == \A i, j \in 1..Len(log) : Time(i) = Time(j) => i = j

\* As long as the master logs at most one entry a second, the replica has
\* applied exactly a prefix of the master's log, each entry once and in order:
\* whatever requests fail and whatever the store refuses, and wherever it
\* crashes as long as no line of its log is malformed.  (That can happen: a
\* crash between the two writes of an append, a start, which reads the entry,
\* and the next entry goes to the same line.  Overlapping syncs, failing
\* appends and own writes are left aside.)
ReplicaIsPrefix ==
    clean /\ ~spoilt /\ Distinct => store = [i \in 1..Len(store) |-> i]

\* Between two starts entries are applied in the order of the master's log and
\* none twice, however many of them the guards skip, and whatever the local log
\* has lost.
AppliedInOrder ==
    clean => \A i, j \in (seeded + 1)..Len(store) : i < j => store[i] < store[j]

\* The master is never told of more entries than the replica has in its own
\* log, overlapping syncs, own writes, failures and restarts included, as long
\* as no line of that log is malformed: what counts as replicated is on the
\* replica's disk.  (Entries that met in one line are gone from it, and still
\* counted.)
NeverClaimsTooMuch ==
    ~spoilt => last_applied_index <= Len(local) /\ registered <= Len(local)

Applied(n) == \E i \in 1..Len(store) : store[i] = n

Accepted == \A i \in 1..Len(log) : ~log[i].refused

CaughtUp == \A n \in 1..Len(log) : Applied(n)

\* The loop catches up: with at most one entry a second, none of them refused,
\* every entry of the master's log is applied once the master rests (as it does
\* here after MaxEntries), unless the local log is spoilt: the next start then
\* counts fewer entries than it should.
CatchesUp == [](clean /\ ~spoilt /\ Distinct /\ Accepted) => []<>CaughtUp

-----------------------------------------------------------------------------
(* A statement of the source that the code does not keep *)

\* replication.rs on sync: "pull and apply new WAL entries", where "duplicate
\* timestamps" are skipped.  So an entry that shares its second with no other
\* is applied in the end, whatever else the master logged.
NewEntriesPulled ==
    [](clean /\ Accepted)
        => \A n \in 1..MaxEntries :
             [](Len(log) >= n => \A i \in 1..Len(log) : Time(i) = Time(n) => i = n)
               => (Len(log) >= n ~> Applied(n))
=============================================================================
