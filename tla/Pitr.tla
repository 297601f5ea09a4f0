-------------------------------- MODULE Pitr --------------------------------
(***************************************************************************)
(* Point-in-time recovery (src/pitr.rs and its handlers in src/api.rs)     *)
(* composed with the server: snapshots of the store, taken by a timer or   *)
(* on request, and recoveries that build a store from a snapshot and the   *)
(* log, without any lock, and then put it in the place of the live one.    *)
(*                                                                         *)
(* The log counts time in seconds, the snapshots' names in nanoseconds.    *)
(* Both are u64 and are compared as they are.                              *)
(***************************************************************************)
EXTENDS Server

CONSTANTS
    Quote,          \* what turns a text into the JSON of a string value
    NANOS,          \* nanoseconds in a second
    Readings,       \* the sub-second readings of the clock that occur
    Takers          \* who takes snapshots at one time: the timer, handlers

\* A time in nanoseconds is beyond every time in seconds.
ASSUME PitrAssumption ==
    /\ NANOS \in Nat /\ NANOS > MaxNow
    /\ Readings \subseteq 0..(NANOS - 1)

VARIABLES
    snapshots,     \* the snapshots directory: what is in the file of a name
                   \* <<nanoseconds, suffix>>
    taking,        \* per taker: the name a snapshot being taken has got, or None
    recovery,      \* the store a recovery has built and not yet put in place, or None
    asOf           \* history: per past second, what the store was at its end

allVars == <<vars, snapshots, taking, recovery, asOf>>

\* All of the server but the count of requests: calls of this module count too.
live == <<mode, mem, disk, job, lock, now, starts, errors, excused>>

Request == mode # "down" /\ requests < MaxRequests /\ requests' = requests + 1

-----------------------------------------------------------------------------
(* Snapshots *)

\* A file cut short.
Torn == [store |-> None]

as_nanos(t, reading) == NANOS * (t + 1) + reading

Resting == [taker \in Takers |-> None]

Chosen == {taking[taker] : taker \in Takers} \ {None}

\* Faulty variant: no look whether the file exists.
free_name_first(ts) == <<ts, 0>>

\* The loop over suffixes, until the name is not taken by a file.
free_name(ts) ==
    LET taken(n) == <<ts, n>> \in DOMAIN snapshots
    IN  <<ts, CHOOSE n \in 0..Cardinality(DOMAIN snapshots) :
                  ~taken(n) /\ \A m \in 0..(n - 1) : taken(m)>>

\* The first half of create_snapshot, up to the file's name.  The timer and the
\* handler hold the read lock over the call: writers wait, other takers do not.
ChooseName(taker) ==
    /\ Request /\ lock = None /\ taking[taker] = None
    /\ \E reading \in Readings :
        LET ts == as_nanos(now, reading)
        IN  /\ \A name \in DOMAIN snapshots \cup Chosen : name[1] <= ts
            /\ taking' = [taking EXCEPT ![taker] = free_name(ts)]
    /\ UNCHANGED <<live, snapshots, recovery, asOf>>

\* The second, fs::write, not through a temporary file and whatever is there by
\* now: it may fail, or the process die, before it or half way, and the file
\* stays as it is then.
WriteSnapshot(taker) ==
    /\ taking[taker] # None
    /\ \/ snapshots' = snapshots
       \/ \E content \in {Serialized, Torn} :
            snapshots' = [name \in DOMAIN snapshots \cup {taking[taker]} |->
                            IF name = taking[taker] THEN content ELSE snapshots[name]]
    /\ taking' = [taking EXCEPT ![taker] = None]
    /\ UNCHANGED <<vars, recovery, asOf>>

\* The cut-off is in seconds.
cleanup_old_snapshots ==
    /\ mode # "down"
    /\ \E max_age_secs \in 0..MaxNow :
        LET cutoff_time == IF max_age_secs > now THEN 0 ELSE now - max_age_secs
            kept == {name \in DOMAIN snapshots : name[1] >= cutoff_time}
        IN  snapshots' = Restrict(snapshots, kept)
    /\ UNCHANGED <<vars, taking, recovery, asOf>>

-----------------------------------------------------------------------------
(* Recovery *)

\* The newest snapshots not after target; of several, the directory's order decides.
BaseSnapshots(target) ==
    LET before == {name \in DOMAIN snapshots : name[1] <= target}
    IN  {name \in before : \A other \in before : other[1] <= name[1]}

\* Faulty variant: the second asked for is left out.
before_target(entries, target) == SelectInSeq(entries, LAMBDA e : e.time >= target)

\* The position of the first entry after target, 0 if there is none.
after_target(entries, target) == SelectInSeq(entries, LAMBDA e : e.time > target)

Replayable(entries, target) ==
    LET stop == after_target(entries, target)
    IN  IF stop = 0 THEN entries ELSE SubSeq(entries, 1, stop - 1)

\* Unlike replay_wal, this one takes the texts of the log as they are: the bare
\* ones of getset and mset come back, a JSON one is stored with its quotes.
\* Errors are only logged.
apply_wal_entry(s, e) ==
    IF e.cmd.op = "set" /\ e.json
    THEN Apply(s, [e.cmd EXCEPT !.text = <<Quote>> \o @], now)
    ELSE Apply(s, e.cmd, now)

\* A snapshot is deserialized without load_from_file: lru_order stays empty.
BaseStore(base) == IF base = None THEN NewStore ELSE load_from_file(snapshots[base], <<>>)

Underway == UNION {job[c].keys : c \in {c \in Clients : job[c] # None}}

\* The keys some entry of the log, of one of the operations or of a form that
\* the replay of a restart drops, is about.
Logged(entries, ops) ==
    UNION {KeysOf(<<entries[i].cmd>>) :
              i \in {i \in 1..Len(entries) : entries[i].cmd.op \in ops \/ Dropped(entries[i])}}

\* What the store was at the end of the second asked for, or is now, and the
\* keys for which nobody can tell: see Excuse, and the log replayed on top of a
\* snapshot that has its effects already.
Expected(target) ==
    IF target < now THEN asOf[target] ELSE [store |-> mem.store, unsure |-> excused \cup Underway]

Unsure(target, base) ==
    IF Glued \/ saved # None THEN Keys
    ELSE Expected(target).unsure
         \cup Logged(read_all(wal), IF base = None THEN {} ELSE NotIdempotent)

\* The base, and the log up to target on top of it.  A torn snapshot or an
\* unreadable log is answered with an error.
RecoverTo(target) ==
    /\ Request /\ recovery = None
    /\ Readable(wal)
    /\ \E base \in IF BaseSnapshots(target) = {} THEN {None} ELSE BaseSnapshots(target) :
        /\ base # None => snapshots[base] # Torn
        /\ recovery' = [store |-> FoldLeft(apply_wal_entry, BaseStore(base),
                                           Replayable(read_all(wal), target)),
                        expected |-> Expected(target).store,
                        unsure |-> Unsure(target, base)]
    /\ UNCHANGED <<live, snapshots, taking, asOf>>

\* To a second, or to a time of the list of snapshots.
recover_to_timestamp ==
    \E target \in (0..now) \cup {name[1] : name \in DOMAIN snapshots} : RecoverTo(target)

recover_to_latest_snapshot ==
    \E name \in DOMAIN snapshots :
        (\A other \in DOMAIN snapshots : other[1] <= name[1]) /\ RecoverTo(name[1])

\* The handler takes the write lock and replaces the store.  The log stays as it
\* is, so a restart does not know of the recovery.
pitr_recover ==
    /\ recovery # None /\ lock = None /\ taking = Resting
    /\ mem' = recovery.store
    /\ recovery' = None
    /\ excused' = Keys
    /\ UNCHANGED <<mode, disk, job, lock, now, requests, starts, errors,
                   snapshots, taking, asOf>>

-----------------------------------------------------------------------------
(* The composition *)

Remember ==
    asOf' = IF now' = now THEN asOf
            ELSE [asOf EXCEPT ![now] =
                    [store |-> mem.store,
                     unsure |-> IF mode = "down" THEN Keys ELSE excused \cup Underway]]

\* The steps that take the write lock.
Writes == Sweep \/ \E c \in Clients : Acquire(c) \/ Run(c)

\* What is under way, recovery or snapshot, dies with the process.
ServerStep ==
    /\ Next
    /\ taking = Resting \/ ~Writes
    /\ Remember
    /\ recovery' = IF mode' = "down" THEN None ELSE recovery
    /\ taking' = IF mode' = "down" THEN Resting ELSE taking
    /\ snapshots' = snapshots

PitrInit ==
    /\ Init
    /\ snapshots = <<>>
    /\ taking = Resting
    /\ recovery = None
    /\ asOf = [t \in 0..MaxNow |-> [store |-> mem.store, unsure |-> Keys]]

PitrNext ==
    \/ ServerStep
    \/ \E taker \in Takers : ChooseName(taker) \/ WriteSnapshot(taker)
    \/ cleanup_old_snapshots
    \/ recover_to_timestamp \/ recover_to_latest_snapshot \/ pitr_recover

PitrSpec == PitrInit /\ [][PitrNext]_allVars

-----------------------------------------------------------------------------
(* Properties *)

Unquoted(v) ==
    IF v.type = "Str" THEN [v EXCEPT !.data = SelectSeq(@, LAMBDA x : x # Quote)] ELSE v

\* x, brought back by a recovery, is y but for the quotes.
Restores(x, y) ==
    IF x = None THEN y = None ELSE SameEntry([x EXCEPT !.value = Unquoted(@)], y)

\* A recovery to a past second brings back what the store was at the end of that
\* second, whatever was written, deleted or expired since and however often the
\* process crashed and started in between; to the present or a snapshot's time,
\* what it was when the log was read.  The exceptions: the JSON quotes around
\* texts, keys nothing is promised for (Unsure), and times to live start anew.
PointInTimeFaithful ==
    [][recovery # None /\ recovery' = None /\ mode' # "down" =>
        \A k \in Keys \ recovery.unsure :
            Restores(mem'.store[k], recovery.expected[k])]_allVars

\* A snapshot is never overwritten by a later one, not even by one that is taken
\* at the same reading of the clock: while its file is there, its content changes
\* at most by a call that had chosen the name before the file was there, and
\* between a file cut short and the very store that both calls keep locked.
SnapshotsKept ==
    [][\A name \in DOMAIN snapshots \cap DOMAIN snapshots' :
        snapshots'[name] = snapshots[name]
            \/ /\ name \in Chosen
               /\ {snapshots[name], snapshots'[name]} \subseteq {Torn, Serialized}
               /\ Serialized' = Serialized]_snapshots
=============================================================================
