# Daikon in TLA+

A formal model of the Daikon key-value server (Rust, `src/src/`): the storage
engine, the write path with its log and its recovery, snapshots and recovery to
a point in time, the saved file and its backups, replication and
publish/subscribe. TLC checks the models on small instances; TLAPS proves most
of their safety properties, and one refinement, for every instance.

## The system

| Component | State | Operations | Module |
|---|---|---|---|
| Storage engine (`kv_store.rs`) | the map of values with expiry times, `memory_bytes`, the LRU vector, one transaction queue, pending keyspace events | strings, counters, batches, expiry, lists, hashes, sketches, MULTI/EXEC/DISCARD, the sweep, the eviction loop | `StoreOps`, `KvStore`, `StoreProofs`, `KvStoreProofs` |
| HyperLogLog (`hyperloglog.rs`) | registers | reserve, add, merge, count | in `StoreOps` |
| Write handlers (`api.rs`), scripts (`lua.rs`) | none of their own: a sequence of log writes and store operations per request | one handler per route | `Server`, `ServerProofs`, `RecoveryProofs` |
| Write-ahead log (`wal.rs`), encryption (`crypto.rs`) | the log file | append, read_all | `Server`, `ServerProofs`, `RecoveryProofs`, `Replication` |
| Server lifecycle (`server.rs`) | the tasks of the process | start, replay, sweep task, snapshot task, sync task, shutdown | `Server`, `RecoveryProofs`, `Pitr`, `Replication` |
| Replication (`replication.rs`) | index, duplicate guard, registered replicas | heartbeat, fetch, apply, sync | `Replication`, `ReplicationProofs` |
| Pub/sub (`pubsub.rs`) | subscriber lists, bounded queues | subscribe, unsubscribe, publish, poll, clean up | `PubSub`, `PubSubProofs` |
| Point-in-time recovery (`pitr.rs`) | the snapshots directory | create, list, recover, clean up | `Pitr`, `PitrProofs` |
| Saved file (`save_with_version` in `kv_store.rs`), command line (`main.rs`) | the file, its backups, the temporary file | load, one command, save | `SavedFile`, `AtomicFile`, `SavedFileProofs` |
| Configuration, statistics, arguments, errors | defaults, unused counters, texts | | not modelled |

How they interact:

* Every route of `api.rs` shares one store behind a `parking_lot::RwLock`. A
  write handler appends an entry to the log first, without that lock, then
  takes the lock, applies the operation, takes the pending keyspace events and
  publishes them through `PubSub`. Two handlers differ: `hash_hincrbyfloat`
  applies, then logs the result while it holds the lock; a script holds the
  lock and carries out its commands one by one: `set`, `setex`, `delete` and
  `incr` are logged before they are applied and end it with an error if they fail,
  `hset` and `hdel` are not logged and their errors are swallowed.
* `server.rs` loads the saved file, replays the log on top of it, starts the
  background tasks (sweep, sync loop, snapshots), serves, and saves at shutdown.
* A snapshot is a copy of the store under its read lock, which the timer and
  several handlers may hold at once. A recovery reads a
  snapshot and the log without any lock, builds a new store and swaps it in
  under the write lock. The log is left as it is.
* The command line is a process of its own: it loads the file, carries out one
  command and saves. It shares the file with other invocations and the server.
* A replica pulls the master's log by index over HTTP and applies it to its own
  store and log. The sync loop and `POST /api/replication/sync` may run at once.

What is hard here, and what each component has to get right (the list of
hazards, each at its line, is in `PROJECT.json`):

* **Storage engine.** Four pieces of state are kept in step by hand: map, LRU
  vector, memory counter, queue. The vector must cover the map and list no key
  twice after any mix of operations; eviction must go from the old end, end,
  and stop in time even though the counter drifts; an expired key stays in the
  map until a sweep and must not come back to life in between; a transaction
  must have the effect of its queue run in order; no removal may go unannounced.
* **Write path.** A crash may fall between any two of: the text of the entry,
  its newline, the change of the store, the save. What a restart brings back
  must be what clients saw. Nobody may wait for ever for the lock.
* **Recovery to a point in time.** What comes back must be the store of one
  moment, though entries are stamped, written and applied at three different
  times and the process may have crashed since. Snapshots must not overwrite
  each other.
* **Saved file.** Whatever step of a save fails or is the process's last, the
  file must be the old or the new store, a command that ended well must stay, and
  the backups must be what the file was.
* **Replication.** Failing requests, retries, crashes within a batch,
  overlapping syncs, a duplicate guard on seconds. The replica must hold a
  prefix of the master's log, claim no more than it has, and catch up. Its own log
  is written like the server's, text and newline apart.
* **Pub/sub.** `publish` reads the list and delivers under two different locks.
  Queues must keep the newest messages, in their publisher's order, and an id
  that has left must hear nothing that is published later.

## The modules

### `StoreOps` and `KvStore`

`StoreOps` has no variables. It describes `struct KvStore` as a record and each
method as an operator from a record to a record, error paths included; the
operators carry the names of the Rust methods. `KvStore` turns them into a state
machine whose actions are the methods, through `Become`, and whose variables are
the fields of that record and the clock `now`. The two-level form lets `Server`
use the same operators for its store in memory and for replay.

What is abstracted, and why it is enough:

* A string is a sequence of one-byte pieces and a list a sequence of such
  items, so sizes are lengths, as `estimate_value_size` needs them.
* A hash field is the number it denotes, counted in halves, or `NonNumeric`:
  exactly what `hincrby` and `hincrbyfloat` can tell apart by parsing.
* An `i64` is `-HalfRange..HalfRange-1`, and addition wraps (`wrap`), as a
  release build does. `checked_add` yields `None` past `MaxU64`.
* A sketch is its precision and the set of what it has seen; its size is its
  number of registers. The estimate is floating point and is left out.
* The eviction loop is described by the number of rounds it makes (`Rounds`,
  `Victims`; `Evicted` lists the keys it announces, in order) and `exec` by its net
  effect (`ExecResults`), because a loop written as recursion is out of the prover's
  reach. `Nth`, the i-th smallest of a set of positions, takes the place of filtering loops,
  here and in `read_all` of `Server`. `ExecMatchesLoop`
  compares `ExecResults` with the loop itself (`RunQueue`): TLC does for queues of
  two, `ExecSound` for all.
* `InvalidKey` stands for every key `validate_key` rejects.

### `Server`

A request is a record with a program, its remaining steps: log this entry, apply
these commands. `Handle` starts one (one operator per handler: `set_value`,
`delete_value`, `incrby_value`, ..., `pipeline_exec`, `lua_exec`); `Acquire`,
`WriteText`, `WriteNewline`, `AppendFails` and `Run` carry it on, interleaved
with those of the other clients. The log is a sequence of lines, each a
sequence of texts, because `append` writes text and newline separately and
takes no lock: two texts on one line, or one cut short by a crash, make
the line malformed. `read_all` skips such a line, or fails as a whole (`ReadFails`): when
the text was cut inside a character, and in an encrypted log always, unless so little of the
line was written that it does not count as encrypted (`Cut`, `CutInside`). A log that
fails yields nothing and keeps the server from starting; the run `recovery` is encrypted,
`server_overlap` is not. `Shutdown`, `Exit`, `Crash` and `Start` are the life of the
process. `load_from_file` and `replay_wal` rebuild the store: the memory counter
comes from the file, the LRU order does not (it is any listing of the loaded
keys, for a hash map has no order).

Time is `now`, in seconds. An entry is stamped when it is created, which may be
before it is written (`WriteText`), which is before it is applied (`Run`); `Sweep` is the
background task, which logs nothing; replay restarts every time to live.
A script is a `set` and an `incr`, both logged, or an `hset` or `hdel`, not logged, and a `set`.
Notifications are off: events are the subject of `KvStore`. `excused` is a history variable. It collects the
keys about which the code makes no promise: those written by requests that
overlapped, by handlers whose entries cannot be replayed (`getset`, `mset`, the
pipelined `set` log a bare text that is not JSON; sketches, and the `hset` and `hdel`
of a script, are not logged; entries queued in a transaction are replayed even if discarded), by requests
whose second write failed, the keys a sweep removed, and after a restart those with an
end that only the saved file knows of (`FileOnly`; see the disagreements below).
`TypeOK` says what programs, entries of the log and saved files look like: in particular
that what is logged as JSON is a command `replay_wal` carries out, and that a handler
under way has a step left.

### `Pitr`

`Server` with more actions: `ChooseName` and `WriteSnapshot`, the two halves of
`create_snapshot`, for each of the `Takers` (the timer, handlers), `cleanup_old_snapshots`, `recover_to_timestamp` / `recover_to_latest_snapshot`,
which build a store, and `pitr_recover`, which swaps it in. Reading the snapshot
and reading the log are one step: snapshots do not change, and none that is
created in between is picked. A snapshot's name is its time in nanoseconds and a
suffix; the log counts seconds. The model keeps both units (`NANOS` is larger than any
time in seconds), so it has the code's consequences: a recovery to a second
never uses a snapshot, a recovery to a snapshot's own time replays the whole log
on top of it, and the clean-up removes nothing. `apply_wal_entry` takes texts as they are,
unlike `replay_wal`: what `set` logged as JSON comes back with its quotes
(`Quote`), what `getset` logged bare comes back right. Between the two halves of a
snapshot its caller holds the read lock: no writer (`Writes`) comes in between, other
takers do, and one that looks for a name at the same reading of the clock before the
first has written chooses the same one. A write of a snapshot may
fail half way (`Torn`). `asOf` is history: the store at the end of each second. Requests
of this module count against `MaxRequests` as well.

### `SavedFile` and `AtomicFile`

`SavedFile` runs invocations of the command line. Each loads the file and adds
its command to the store (`write_command`), or does not but saves all the same
(`refused_command`), or saves with a number of versions of its own
(`save_command`; the server's shutdown is one, with 5), or only reads. A save is `BackUp`, `Prune`,
`CreateTemp`, `WriteTemp`, `Rename`, `Return`, and `Abort` between any two; each
removal of an old backup may fail on its own. A store is
the set of commands it holds, and paths lead to inodes, because a process may hold a
temporary file open that another one truncates or renames. Two parameters switch
hazards on: `Overlap` lets saves of several processes overlap, `FlushFails` lets the
disk be full when the buffered writer is dropped.

`AtomicFile` is the promise: the file gains a command in one step or not at all,
and a command that was reported stays. `FileIsAtomic` says that `SavedFile`
implements it, with `content` the store under the path (nothing, if there is no
file) and `reported` the writing invocations that ended well.

### `Replication`

`sync` in its steps, per caller: `StartSync` (the index read), `PullEntries` (heartbeat
and fetch), then per entry `CheckEntry`, `apply_wal_entry` (the store, and the text in
the replica's own log), `EndLine` (its newline) and `MarkEntry`, then `AdvanceIndex`. No
lock spans two of them, but for the store's write lock from `apply_wal_entry` to `EndLine`
(`Locked`). An entry is its position in the master's log, with its second and whether the
replica's store refuses it. `local` is what reading the replica's log yields, `line` the
state of its last line, `spoilt` whether a line of it is malformed. A crash between text and newline leaves an
entry that the next start reads and counts, and the next text goes to its line: then both
are gone (`cut_text`). That an encrypted log, or one cut inside a character, fails as a whole
is left to `Server`: the replica does not start. `RequestFails`,
`AppendFails` (before or in the text, or before the newline), a client's write to the
replica itself, in three steps and outside the lock until the last (`OwnText`,
`OwnNewline`, `OwnApply`), and `Restart` are the mishaps. Failing appends of the master are
left out. History: `seeded`, the index at the last start, and
`clean`, which turns false with overlapping syncs, failed appends and own writes.

### `PubSub`

Every operation; `publish` in its two halves, `PublishRead` and
`PublishDeliver`. A message is its number, channel and publisher. The list of a
channel is a bag: how often each id is on it, since `publish` appends one
message per occurrence and the order among ids is not observable. `delivered`,
`polled` and `off` are history.

## Runs

| Run | Instance | Shows |
|---|---|---|
| `kv_memory` | 3 keys, limit 9 bytes, values of 1 and 8 bytes, 3 writes | `TypeOK`, `LruTracksStore`, `LimitEnforced`, `EvictsOldestFirst`, `EvictionStopsInTime`, `RemovalsAnnounced` |
| `kv_expiry` | 1 key, counters, appended strings, lists, hashes, sketches, 3 seconds, an overflowing time to live, lists of up to 3, queues of up to 2, 2 writes, notifications on | `RangeIsSlice`, `LruTracksStore`, `ExecMatchesLoop`, `ExpiryKept`, `NoResurrection`, `TtlHonoured`, `RemovalsAnnounced`, `ExpiredEventuallyRemoved` |
| `server_overlap` | 2 clients, every handler, 2 requests, 1 failing write | `TypeOK`, `RecoveryFaithful`, `LockHasOwner`, `LogIsAppendOnly`, `RequestsFinish` |
| `recovery` | 1 client, 2 takers of snapshots, an encrypted log, 3 writes, snapshots or recoveries, 2 seconds, 2 lives | `RecoveryFaithful`, `PointInTimeFaithful`, `SnapshotsKept` |
| `saved_file` | 4 invocations, 3 seconds, 2 versions kept, explicit saves that keep 0 or 1, 2 failures | `FileIsAtomic`, `PreviousVersionKept`, `BackupsAreHistory` |
| `replication` | loop and 1 request, 3 entries, responses of 2, 1 refused, 1 mishap, 2 starts (1.1 million states) | `ReplicaIsPrefix`, `AppliedInOrder`, `NeverClaimsTooMuch`, `CatchesUp` |
| `pubsub` | 2 channels, 1 id, 2 publishers, queue of 2, 3 messages | `NewestKept`, `PublisherOrderKept`, `SilentAfterLeaving` |
| `saved_file_docs`, `server_restart_docs`, `server_shutdown_docs`, `server_expiry_docs`, `replication_docs` | small | the disagreements below |

Why the bounds are enough:

* `kv_memory`: two 8-byte values exceed the limit and one fits, so evictions of
  none, one and all keys occur; a sketch of 16 bytes is larger than the limit;
  three keys are needed to tell "the oldest" from "another". The counter drifts
  with the first rewrite. Keys are interchangeable, hence the symmetry.
* `kv_expiry`: a counter next to its overflow is set, a string is made by an append, the rest by
  their own operations. The seconds before, at and after the expiry time, the second in
  which sweep and `get` disagree included. The properties are per key and no
  operation in the run moves expiry times between keys. A queue of two on one key makes
  its last operation differ from its first and a set repeat; what becomes of several keys
  and longer queues is left to `ExecSound`.
* `server_overlap`: two requests are what it takes to overlap, with every pair
  of handlers and every point for a crash, a shutdown and a failing write.
  One key makes each pair conflict. It is one life of the process and the clock
  stands still (`Session`): restarts and time are the subject of the next run. A cut
  text may be one inside a character, after which the log cannot be read.
* `recovery`: two writes and a recovery are the shortest behaviour in which a
  recovery has something to leave out; a write, a snapshot and a recovery the
  shortest with a base; two snapshots in a second collide. Two seconds are a past
  and a present, a time to live of one second ends within them, and two lives
  put a crash or a shutdown anywhere. Two takers are what it takes to choose one name
  twice. With one client the stamps of the log go up: entries of two clients out of
  order do not occur here. A set, an append, a delete and an expire
  replace, extend, remove and retime a key; the other handlers log and replay
  in the same way.
* `saved_file`: four invocations fill two versions and make the pruning choose;
  three seconds, so that backups collide or not. Invocations are interchangeable,
  hence the symmetry. Savers take turns (`Overlap = FALSE`) and the disk has room;
  `saved_file_docs` drops both assumptions.
* `replication`: three entries with responses of two make a full and a partial
  response; the code's limit of 100 plays no other role. Entries share a
  second or not, freely. Two starts are what `ReplicaIsPrefix` and
  `NeverClaimsTooMuch` take to break if they did not ask for a log without a malformed line:
  a crash between the two writes, a start, one more entry.
* `pubsub`: a queue of two overflows with three messages, or with two if
  the id is on the list twice.

Deadlock is not checked: with all bounds used up, or nobody sending requests,
each of these systems may rest.

**Fairness.** `SweepSpec`: the sweep task runs at every interval and needs only
the write lock; whoever changes the store publishes its pending events soon after (the
handlers and the sweep call `publish_keyspace_events`), so `DrainKeyspaceEvents` is fair as well,
which makes up for the bound on pending events in the guards. `Server!FairSpec`: tasks of requests under way are scheduled by
tokio and parking_lot hands the lock on; nothing else is fair (no request
has to come, no crash, no shutdown). No request outlives its process, so it
is stated for one session. `Replication!FairSpec`:
the loop calls `sync` for ever, and a sync that was requested is not dropped half
way; requests, failures and restarts are not fair.

### Where the code and its documents disagree

* **A save that is not atomic** (`saved_file_docs`). A comment says the file is
  written atomically. The buffered writer is dropped without a flush, so an error of
  its last write is lost and a cut file is renamed over the store: `FileComplete` fails,
  and with it `FileIsAtomic`; the next invocation takes the broken file for an empty store
  and saves over it. (All processes also use one temporary file, so that one truncates what
  another is about to rename. The run has that too, `Overlap`, but TLC stops at the shorter
  trace; with `FlushFails = FALSE` it finds the other.)
* **A refused request keeps the server down** (`server_restart_docs`). `set` is
  logged before its key is validated, and replay treats the refusal as fatal.
* **Replay after an orderly shutdown** (`server_shutdown_docs`). The log is not
  cleared when the store is saved, so appends, pushes and increments take effect
  twice.
* **An extended life cut short** (`server_expiry_docs`). Replay carries out a logged
  `expire` at the time of the restart. If the entry has its value from the saved file and its
  old end has passed by then, the store refuses the `expire`, and a key that
  clients could still read is gone. It takes a value that the log cannot restore by
  itself, such as one that `getset` wrote, and an orderly shutdown.
* **A replica that stalls** (`replication_docs`). The index advances by the
  entries applied, not fetched. Once a whole response consists of skipped
  entries, nothing behind it is ever fetched.

Further disagreements that need no search, found while modelling:

* `memory_bytes` is never reduced for a replaced, deleted or expired value, so
  rewriting one key evicts keys that fit (`kv_store.rs:318`; the README promises
  accurate tracking).
* `subscribe` says "if not already subscribed" (`pubsub.rs:92`) above a push without a
  condition: who subscribes twice gets each message twice.
* The `hset` and `hdel` of a script change the store and are not logged (`lua.rs:115-141`),
  so they are answered and gone after a crash; an error of theirs does not end the script.
* One cut text can keep the server down: if it was cut inside a character, or the log is
  encrypted, `read_all` fails as a whole, though its comment says "Skip malformed
  entries" (`wal.rs:159`).
* A replica that crashes between the two writes of an append counts that entry at its next start and
  loses it, with the one after it, to the start after that.
* Counters, appends to existing keys, lists, hashes and sketches do not look at
  the transaction queue (the README promises queued writes); on the command line
  the queue does not outlive the invocation at all.
* `POST /pitr/recover/latest` is registered after `/pitr/recover/{timestamp}`,
  whose pattern it matches, so the earlier route answers it (`server.rs`).
* A recovery returns the JSON text of values that were `set`; it replays the whole
  log on a snapshot; it resets the notification setting and the transaction queue; a store
  from a snapshot has an empty LRU vector, so that its keys are not evicted until they are
  written again; and a restart undoes the recovery, since the log does not know of it.
* The quotes count: with a value of the largest size allowed, a recovery refuses the
  longer text and leaves the key out (the run `recovery` with `max_value_size = 1` shows it).
* Evictions are not logged, so an evicted key comes back with the next restart.
* `cleanup_old_snapshots` compares nanoseconds with seconds and removes nothing.
* `lrange` takes a `stop` before the front for the front and returns the first element.

## Proofs

For every set of keys, clients, processes, publishers and inputs and every
value of the limits and bounds:

| Module | Theorems |
|---|---|
| `KvStoreProofs` | `TypeCorrect` (`TypeOK`), `LruSound` (`LruTracksStore`), `LimitHolds` (`LimitEnforced`), `ExecSound` (`ExecMatchesLoop`), `OldestFirstSound` (`EvictsOldestFirst`), `StopsInTimeSound` (`EvictionStopsInTime`), `AnnouncedSound` (`RemovalsAnnounced`), `ExpirySound` (`ExpiryKept`), `ResurrectionSound` (`NoResurrection`), `TtlSound` (`TtlHonoured`), `RangeSound` (`RangeIsSlice`) |
| `ServerProofs` | `ServerTyped` (`TypeOK`), `LockSound` (`LockHasOwner`), `LogSound` (`LogIsAppendOnly`) |
| `RecoveryProofs` | `RecoverySound` (`RecoveryFaithful`) |
| `PitrProofs` | `SnapshotsSound` (`SnapshotsKept`) |
| `SavedFileProofs` | `AtomicSound` (`FileIsAtomic`, the refinement of `AtomicFile`), `PreviousSound` (`PreviousVersionKept`), `HistorySound` (`BackupsAreHistory`) |
| `ReplicationProofs` | `ClaimsSound` (`NeverClaimsTooMuch`), `OrderSound` (`AppliedInOrder`), `PrefixSound` (`ReplicaIsPrefix`) |
| `PubSubProofs` | `NewestSound` (`NewestKept`), `PublisherOrderSound` (`PublisherOrderKept`), `SilenceSound` (`SilentAfterLeaving`) |
| `StoreProofs` | lemmas about `Nth`, positions and the operators of `StoreOps`, shared by the storage engine and the server |

The assumptions are the named ones of the modules (limits are naturals, `None`
is none of the values an option can hold, what clients send has its type).
`RecoverySound` assumes `Roomy`: nothing is evicted (there is no limit, or eviction is
off), because evictions are not logged and evicted keys do come back; and no time to
live reaches past 64 bits, where it would become "for ever" or not depending on when replay
computes it. Both are conditions of its runs. The
theorems of `SavedFileProofs` assume `~Overlap` and `~FlushFails`, the conditions
of the run `saved_file`; `saved_file_docs` shows that without them the file may be
torn.

### Storage engine

The invariant that is inductive is `Inv == TypeOK /\ LruTracksStore`. Neither half stands
alone: that `update_lru` keeps the vector free of duplicates needs its
type, and the type of a stored entry after an in-place update needs the entry to be there.
`InvIsStateOK` restates it as a predicate of the record, `StateOK(Kv)`, so that
each operator of `StoreOps` gets one lemma, "from an OK record to an OK
record" (`SetOK`, `DeleteOK`, `ListOK`, ...), and `StepOK` puts them together, one case per
action. The two hard ones are `EnforceOK` (the loop removes a prefix of the
vector; `RoundsArePrefix`, `CellsFinite`, `MemoryAfterShrinks`) and `ExecLru` (the
vector that `exec` rebuilds from the unmoved keys and the last sets is again
without duplicates and covers the new map). `LimitHolds` reads the limit
off `EnforceOK`.

`ExecSound` compares the net effect with the loop. `NetEffect(s, n, t)` is the invariant of
the loop: after n operations each key has the outcome of the last of them that names
it (`LastAmong`, `Outcome`), and the vector lists the unmoved keys first and then the set ones by their
last set (`InOrder`). `NetStep` adds one operation. That the loop has such a result
gives membership in `ExecResults`; that a listing in a given order is unique makes it the only
member. The library's induction theorems take an operator as parameter and cannot be cited; where an
induction over positions is needed, here and for the log, it goes through the set of positions for which the
claim holds (`PositionInduction`, from `LeastNatural`, in `StoreProofs`).

The action properties follow from `Inv` and from what each operator does to one
entry. `EvictsOldestFirst` and `EvictionStopsInTime` rest on the shape of the vector
after `update_lru` (the written key last, the others in their old order,
`UpdateLruShape`) and on the last round of the loop, which frees no more than the size of
its key (`RoundFrees`): `EvictionStopsInTime` speaks of the last victim, so one key too many is one
too many whatever its size. `RemovalsAnnounced` needs that `Evicted` lists every stored key
among the victims and that a sweep lists every due key (`EvictedOK`, `DueListed`).
`RangeIsSlice` needs no step: it holds of every well typed list.

### Server

`ServerInv` is the inductive invariant behind `ServerTyped` and `LockSound`. The store is OK in the sense
of the storage engine (`StateOK`), the log and the saved file have their types, and
`JobInv` says what the requests under way look like. Each program has one of three shapes: `Plain`, every
command logged as JSON and carried out next; `Float`, an `hincrbyfloat`, carried out first and its field logged
afterwards; `Free`, the rest, whose keys are all excused. Requests that overlap on a key are
excused on it (`Apart`), and whoever has reached the log under the lock still has it (`LockOK`).
`LockHasOwner` is part of the invariant.

### Recovery

`RecoveryFaithful` as such is not inductive: between its log write and its change of the store a request makes
the two differ, and a crash in between must leave a state from which the statement follows again. The
argument goes key by key:

* Replay acts on one key as if there were no other: `Course(b, L, t, k, n)` is the entry for `k`
  after the first `n` commands of the log `L`, begun on the entry `b` of the saved file, at
  time `t` (`CourseIs`, from `Sole`: a command of one key depends on and changes that key only).
* `Stands` relates the course to what clients see. With nobody under way on the key the course's end is
  the entry in memory, whenever the replay takes place, and it ends no earlier (`SettledAt`). If a request has logged its command,
  that command is in the log, nothing after it is about the key, and up to it the course is settled (`Waiting`). If an
  `hincrbyfloat` is still to log its field, setting that field settles the course (`FieldDue`).
* `Faithful` says so for every key that is not excused or doubled; `FaithInv` adds `ServerInv` and that whatever
  is queued in a transaction is excused.

Logging turns settled into waiting; carrying out turns waiting into settled, because a command does to the course at
its position what it does to the memory (the effect of a command is a function `After` of the entry and the
time, monotone in the end of the entry's life). A crash or a restart drops the requests; what they
had logged is then part of what is brought back. A shutdown saves the memory, and the log then runs
over its own effects: a key with a command that is not idempotent is `Doubled`, for
any other the second run changes nothing (`Repeats`). Steps that glue lines make the log malformed, which voids the
statement; read_all of a log that is not malformed grows by exactly the entry written.

### Log and snapshots

`LogIsAppendOnly` needs only that the log is never without an open line
(`LogOK`). Every step leaves it alone, adds a newline or adds a text to
the last line (`StepShape`); in a log that can be read the text adds its entry to a blank line
and spoils any other (`TextGrows`), and no line of a log becomes readable again
(`UnreadableStays`).

`SnapshotsKept` rests on `SnapInv`: whoever has chosen a name finds no file there, or one with what is about to
be written, whole or torn. The name is free when it is chosen, for the directory is
finite and there are more suffixes than files (`FreeNameOK`, by the pigeonhole
principle); no writer gets the lock before the file is written (`LockedOK`), so that all who
have chosen a name write the same store; and no call survives the process.

### Saved file

The invariant says that at most one process saves (`Alone`); that the temporary
file is the one it has created and not the live one (`Temporary`, `Inodes`); that it
has in memory what the file holds, with or without its own command (`Memory`); that
a command is in the file only after its rename (`Past`); and that from the copy to
the rename the newest backup is the file (`Copied`). `Memory` with `Temporary` makes
the rename a step of `AtomicFile`, and every other step stutters or reports.

### Replication

`NeverClaimsTooMuch` is stated with overlapping syncs and failing appends, where counts
do not line up with positions. `Claims` therefore says that the positions of the local
log can be shared out: those counted in `last_applied_index` and, per caller, those it has applied
and not yet counted (`Pending`), all disjoint. It holds until a line is malformed, and a
malformed line stays (`SpoiltStays`). For a replica without mishaps (`clean`), `Order` and `Guarded`
say that the second of every entry up to the last one applied is in the duplicate guard or
about to be put there, so what passes the guard comes later in the log, whatever the local log has
lost; with at most one entry a second and no malformed line, `Prefix` says that nothing else is in the guard.

### Pub/sub

Between the two halves of a publish the list it has read is stale. `Known` says
that whoever is on a list, stale ones included, has a queue; `OnTheWay` and `InOrder`
that nothing a subscriber has seen is newer than what its publisher is about to
deliver; `Left` that only messages published before an id left are still on their
way to it.

### What stays with TLC

* Liveness (`ExpiredEventuallyRemoved`, `RequestsFinish`, `CatchesUp`): the prover
  has no fairness and no `ENABLED`.
* `PointInTimeFaithful`, and `RecoveryFaithful` in the composition with `Pitr`. The invariants of
  `ServerProofs` do not carry over: a store recovered from a snapshot has an empty LRU vector
  and texts with quotes, so `StateOK` fails. And the statement is false at the limit of the
  size of values (see above), so it needs an assumption on sizes; TLC checks it well
  below that limit. `RecoverySound` itself is about `Server` without recoveries to a point in time.
* The statements of the documents that the code does not keep: they are false.

## Not modelled

* `config.rs`, `stats.rs`, `cli.rs`, `error.rs`: defaults, counters nobody reads,
  declarations of arguments and texts.
* Reading routes and operations other than `get`, `ttl_seconds` and `lrange`,
  authentication, the form of answers.
* The Lua language: a script is a set and an incr, or an hset or hdel and a set, which
  shows the lock, the logging, its absence, and the failure in the middle. A pipeline is represented likewise.
* Power failures: a rename is taken to be on disk when it returns, though the code
  never calls `fsync`.
* Compression and encryption, which are the identity on a file that is complete.
* What replication only reports: lag, status, times of heartbeats.

## Plan

Done: the storage engine, the write path with a clock, point-in-time recovery, the
saved file with its abstract specification, replication, pub/sub, and a theorem for
every safety property but `PointInTimeFaithful`. What is left:

1. Type correctness of the operators of `StoreOps` without `LruTracksStore`, so that
   the invariants of the server extend to `Pitr`; then `PointInTimeFaithful` under a bound on
   the size of texts, by the courses of `RecoveryProofs` with the log cut at a second.
2. Shorter proofs where lemmas can be shared: the facts about sequences in
   `PubSubProofs`, `ReplicationProofs` and `SavedFileProofs`.
