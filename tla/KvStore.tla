------------------------------ MODULE KvStore -------------------------------
(***************************************************************************)
(* The KvStore of src/kv_store.rs as a state machine: one action per       *)
(* method that takes &mut self, run under the server's write lock, in any  *)
(* order and by any client, interleaved with the passing of time, the      *)
(* background expiry sweep and the publication of keyspace events.         *)
(***************************************************************************)
EXTENDS StoreOps

CONSTANTS
    InvalidKey,  \* a key validate_key rejects (empty, or too long)
    Values,      \* the values clients set
    Pairs,       \* the <<key, text>> pairs of clients' batches
    Texts,       \* the texts clients append
    Items,       \* the sequences of items clients push
    FieldTexts,  \* the texts clients put in hash fields
    Amounts,     \* the amounts clients add
    Ttls,        \* the times to live, in seconds
    Precisions,  \* the sketch precisions clients ask for
    NotifyModes, \* the settings of keyspace_notifications_enabled in use
    MaxNow,      \* bound on the clock
    MaxWrites,   \* bound on total_writes
    MaxQueue,    \* bound on the transaction queue
    MaxEvents,   \* bound on the pending events
    MaxLen       \* bound on the length of a string or list

ASSUME InputsAssumption ==
    /\ InvalidKey \notin Keys
    /\ Values \subseteq Value
    /\ Pairs \subseteq (Keys \cup {InvalidKey}) \X [type : {"Str"}, data : Seq(Char)]
    /\ NotifyModes \subseteq BOOLEAN
    /\ Texts \subseteq Seq(Char) /\ Items \subseteq Seq(Char)
    /\ FieldTexts \subseteq FieldText
    /\ Amounts \subseteq Int /\ Ttls \subseteq Nat /\ Precisions \subseteq Nat
    /\ MaxLen \in Nat

VARIABLES
    store,              \* the map: key -> entry, None if absent
    memory_bytes,       \* stats.memory_bytes
    total_writes,       \* stats.total_writes
    lru_order,          \* keys, least recently used first
    transaction_queue,  \* None, or the operations queued since MULTI
    events,             \* pending_keyspace_events
    notify,             \* config.keyspace_notifications_enabled
    now                 \* the wall clock, in seconds

kv == <<store, memory_bytes, total_writes, lru_order, transaction_queue, events, notify>>

vars == <<kv, now>>

\* The struct as one value, and the step to another value of it.
Kv == [store |-> store, memory_bytes |-> memory_bytes, total_writes |-> total_writes,
       lru_order |-> lru_order, transaction_queue |-> transaction_queue,
       events |-> events, notify |-> notify]

\* The bounds of the model, in one place.
WithinBounds(s) ==
    /\ s.total_writes <= MaxWrites
    /\ s.transaction_queue # None => Len(s.transaction_queue) <= MaxQueue
    /\ Len(s.events) <= MaxEvents
    /\ \A k \in Keys : s.store[k] # None /\ s.store[k].value.type \in {"Str", "List"}
                         => Len(s.store[k].value.data) <= MaxLen

Become(s) ==
    /\ WithinBounds(s)
    /\ store' = s.store
    /\ memory_bytes' = s.memory_bytes
    /\ total_writes' = s.total_writes
    /\ lru_order' = s.lru_order
    /\ transaction_queue' = s.transaction_queue
    /\ events' = s.events
    /\ notify' = s.notify
    /\ now' = now

Init ==
    /\ store = [k \in Keys |-> None]
    /\ memory_bytes = 0
    /\ total_writes = 0
    /\ lru_order = <<>>
    /\ transaction_queue = None
    /\ events = <<>>
    /\ notify \in NotifyModes
    /\ now = 0

-----------------------------------------------------------------------------
(* The operations of the store.  A rejected key leaves everything as it     *)
(* is; only mset can do part of its work before it meets one.               *)

Set(k, v) == Become(set(Kv, k, v, None))

SetWithTtl(k, v, ttl) == Become(set_with_ttl(Kv, k, v, ttl, now))

Delete(k) == Become(delete(Kv, k))

Incr(k) == Become(incrby(Kv, k, 1))

Decr(k) == Become(incrby(Kv, k, -1))

IncrBy(k, amount) == Become(incrby(Kv, k, amount))

AppendText(k, text) == Become(append(Kv, k, text))

GetSet(k, v) == Become(getset(Kv, k, v))

Mset(p, q) == Become(mset(Kv, p, q))

Expire(k, ttl) == Become(expire(Kv, k, ttl, now))

Persist(k) == Become(persist(Kv, k))

CleanupExpired ==
    LET due == Due(Kv, now)
    IN  \E order \in {f \in [1..Cardinality(due) -> due] :
                        \A i, j \in 1..Cardinality(due) : f[i] = f[j] => i = j} :
            Become(cleanup_expired(Kv, now, order))

Multi == Become(multi(Kv))

Discard == in_transaction(Kv) /\ Become(discard(Kv))

Exec == in_transaction(Kv) /\ \E s \in ExecResults(Kv) : Become(s)

LPush(k, items) == Become(lpush(Kv, k, items))

RPush(k, items) == Become(rpush(Kv, k, items))

LPop(k) == Become(lpop(Kv, k))

RPop(k) == Become(rpop(Kv, k))

HSet(k, f, text) == Become(hset(Kv, k, f, text))

HDel(k, f) == Become(hdel(Kv, k, f))

HIncrBy(k, f, amount) == Become(hincrby(Kv, k, f, amount))

HIncrByFloat(k, f, amount) == Become(hincrbyfloat(Kv, k, f, amount))

PfReserve(k, precision) == Become(pfreserve(Kv, k, precision))

PfAdd(k, items) == Become(pfadd(Kv, k, items))

PfMerge(dest, src) == Become(pfmerge(Kv, dest, src))

\* publish_keyspace_events takes the whole queue.
DrainKeyspaceEvents == Become([Kv EXCEPT !.events = <<>>])

SetKeyspaceNotificationsEnabled(enabled) == Become([Kv EXCEPT !.notify = enabled])

Tick == now < MaxNow /\ now' = now + 1 /\ UNCHANGED kv

-----------------------------------------------------------------------------

StringNext ==
    \E k \in Keys :
        \/ \E v \in Values : Set(k, v) \/ GetSet(k, v)
        \/ \E text \in Texts : AppendText(k, text)
        \/ Delete(k)

CounterNext ==
    \E k \in Keys : Incr(k) \/ Decr(k) \/ \E amount \in Amounts : IncrBy(k, amount)

BatchNext == \E p, q \in Pairs : Mset(p, q)

TtlNext ==
    \/ \E k \in Keys : \/ \E ttl \in Ttls : Expire(k, ttl) \/ \E v \in Values : SetWithTtl(k, v, ttl)
                       \/ Persist(k)
    \/ CleanupExpired
    \/ Tick

TransactionNext == Multi \/ Discard \/ Exec

CollectionNext ==
    \E k \in Keys :
        \/ \E items \in Items : LPush(k, items) \/ RPush(k, items)
        \/ LPop(k) \/ RPop(k)
        \/ \E f \in Fields : \/ \E text \in FieldTexts : HSet(k, f, text)
                             \/ HDel(k, f)
                             \/ \E amount \in Amounts : HIncrBy(k, f, amount) \/ HIncrByFloat(k, f, amount)

SketchNext ==
    \E k \in Keys : \/ \E precision \in Precisions : PfReserve(k, precision)
                    \/ \E items \in SUBSET Char : PfAdd(k, items)
                    \/ \E src \in Keys : PfMerge(k, src)

EventNext ==
    DrainKeyspaceEvents \/ \E enabled \in NotifyModes : SetKeyspaceNotificationsEnabled(enabled)

Next ==
    \/ StringNext \/ CounterNext \/ BatchNext \/ TtlNext \/ TransactionNext
    \/ CollectionNext \/ SketchNext \/ EventNext

Spec == Init /\ [][Next]_vars

\* With KV_TTL_CLEANUP_INTERVAL_SECS set, the server sweeps for ever.
SweepSpec == Spec /\ WF_vars(CleanupExpired) /\ WF_vars(DrainKeyspaceEvents)

-----------------------------------------------------------------------------
(* Properties *)

\* The types of the fields.
TypeOK ==
    /\ store \in [Keys -> Entry \cup {None}]
    /\ memory_bytes \in Nat
    /\ total_writes \in Nat
    /\ lru_order \in Seq(Keys)
    /\ transaction_queue \in Seq(TransactionOp) \cup {None}
    /\ events \in Seq(KeyspaceEvent)
    /\ notify \in BOOLEAN
    /\ now \in Nat

\* Every stored key can be found by the eviction loop, and only once: whatever
\* mix of writes, deletes, expiry, evictions and transactions came before,
\* lru_order has no duplicate and covers the map.  A stored key missing from
\* lru_order could never be evicted; a duplicate would be skipped twice.
LruTracksStore ==
    /\ \A i, j \in 1..Len(lru_order) : lru_order[i] = lru_order[j] => i = j
    /\ \A k \in Keys : store[k] # None => \E i \in 1..Len(lru_order) : lru_order[i] = k

Lost(k) == store[k] # None /\ store'[k] = None

\* A set that is carried out, not queued and not refused.
SetNow(k, v) == transaction_queue = None /\ validate_value(v) /\ Set(k, v)

\* enforce_memory_limit does its job whatever the counter had grown to before
\* (creating a list or a sketch never enforces the limit): after a set,
\* memory_bytes is within the limit, or the whole map has been given up.
LimitEnforced ==
    [][max_memory_bytes > 0 /\ lru_eviction_enabled /\ memory_bytes' > max_memory_bytes
       /\ total_writes' = total_writes + 1 /\ (\E k \in Keys, v \in Values : SetNow(k, v))
        => lru_order' = <<>> /\ \A k \in Keys : store'[k] = None]_vars

\* Outside a transaction a step that counts a write and loses a key evicts it
\* (delete and the sweep count no write).
Evicts(k) ==
    transaction_queue = None /\ total_writes' = total_writes + 1 /\ Lost(k)

\* The eviction loop takes keys from the old end only: a set never evicts a
\* key while a key used less recently survives, the written key aside.
EvictsOldestFirst ==
    [][\A i, j \in 1..Len(lru_order) :
        i < j /\ Evicts(lru_order[j]) /\ store'[lru_order[i]] # None
            => lru_order[i] = Last(lru_order')]_vars

\* The last of the keys a step evicts, in the order of the eviction loop.
LastEvicted(i) ==
    /\ Evicts(lru_order[i])
    /\ \A j \in (i + 1)..Len(lru_order) : ~Evicts(lru_order[j])

\* The eviction loop stops as soon as the counter is within the limit: without
\* the last eviction of a set the counter would still be over it.  (When the
\* loop gives up the whole map, the last key evicted is the written one.)
EvictionStopsInTime ==
    [][\A i \in 1..Len(lru_order) :
        LastEvicted(i) /\ lru_order' # <<>> =>
            memory_bytes' + estimate_value_size(store[lru_order[i]].value)
                > max_memory_bytes]_vars

\* With notifications on, no key leaves the map unannounced, be it deleted,
\* swept or evicted by a write of another key; exec alone is silent.
RemovalsAnnounced ==
    [][notify /\ ~Exec =>
        \A k \in Keys : Lost(k) =>
            \E i \in (Len(events) + 1)..Len(events') :
                /\ events'[i].key = k
                /\ events'[i].kind \in {"del", "expired", "evicted"}]_vars

\* The operations that change the value of an existing entry in place: all
\* counters, pushes, pops, field updates, and these operations on k itself.
\* Neither set, getset and mset, which replace the entry, nor pfmerge, which
\* gives the destination a new entry without an end.
ChangesInPlace(k) ==
    \/ CounterNext \/ CollectionNext
    \/ \E text \in Texts : AppendText(k, text)
    \/ \E precision \in Precisions : PfReserve(k, precision)
    \/ \E items \in SUBSET Char : PfAdd(k, items)

\* An entry keeps its expiry time through every operation that changes its
\* value in place, and through the refused ones: a counter, a string that
\* grows, a list, a hash or a sketch does not outlive its session.
ExpiryKept ==
    [][\A k \in Keys :
        store[k] # None /\ (store'[k] = None \/ store'[k].expires_at # store[k].expires_at)
            => ~ChangesInPlace(k)]_vars

\* Running the queue one operation after the other, as the loop of exec does:
\* the struct after each number of operations.
ApplyOp(s, op) ==
    IF op.op = "Set" THEN Write(s, op.key, op.entry)
    ELSE [s EXCEPT !.store = [@ EXCEPT ![op.key] = None]]

Runs(s) ==
    LET queue == s.transaction_queue
        run[n \in 0..Len(queue)] == IF n = 0 THEN s ELSE ApplyOp(run[n - 1], queue[n])
    IN  run

RunQueue(s) == [Runs(s)[Len(s.transaction_queue)] EXCEPT !.transaction_queue = None]

\* The net effect of exec (the last operation on a key wins, set keys become
\* the most recent in the order of their last set) is the one result of the
\* loop over the queue, for every queue of sets and deletes.
ExecMatchesLoop == in_transaction(Kv) => ExecResults(Kv) = {RunQueue(Kv)}

Expired(k) == store[k] # None /\ IsExpired(store[k], now)

\* The background sweep catches up: a key past its expiry time does not stay
\* in the map, out of every reader's sight, for ever.
ExpiredEventuallyRemoved == \A k \in Keys : Expired(k) ~> ~Expired(k)

\* The operations that store a new entry under k.
Replaces(k) ==
    \/ \E v \in Values : Set(k, v) \/ GetSet(k, v) \/ \E ttl \in Ttls : SetWithTtl(k, v, ttl)
    \/ BatchNext
    \/ Exec
    \/ \E src \in Keys : PfMerge(k, src)

\* An expired key is gone for good, though it stays in the map until a sweep:
\* no counter, append, push, field update, pfadd or expire makes it readable
\* again, only a new entry, or persist, which does not look at the time.
NoResurrection ==
    [][\A k \in Keys : Expired(k) /\ get(Kv, k, now)' # None => Replaces(k) \/ Persist(k)]_vars

\* A time to live is a promise: while ttl_seconds answers more than 0, neither
\* the clock nor a sweep takes the key out of a reader's sight, and the answer
\* never falls by more than the time that has passed.  (At 0 get still finds the
\* key, and a sweep of that second removes it.)
TtlHonoured ==
    [][\A k \in Keys : ttl_seconds(Kv, k, now) > 0 /\ (CleanupExpired \/ Tick) =>
        /\ get(Kv, k, now)' # None
        /\ ttl_seconds(Kv, k, now)' >= ttl_seconds(Kv, k, now) - (now' - now)]_vars

\* The index an argument of lrange denotes.
Index(i, len) == IF i < 0 THEN len + i ELSE i

\* lrange answers with exactly the elements between the two indices, in order,
\* for every pair of indices inside, at and beyond both ends of a list that
\* pushes and pops have left behind; an expired list is empty.  (A stop before
\* the front is taken for the front.)
RangeIsSlice ==
    \A k \in Keys : \A start, stop \in -(MaxLen + 1)..(MaxLen + 1) :
        LET list == IF get(Kv, k, now) = None THEN <<>> ELSE ListOf(Kv, k)
            len == Len(list)
            range == {i \in 0..(len - 1) : Index(start, len) <= i /\ i <= Index(stop, len)}
            answer == lrange(Kv, k, start, stop, now)
        IN  stop >= -len =>
                /\ Len(answer) = Cardinality(range)
                /\ \A i \in 1..Len(answer) : answer[i] = list[Min(range) + i]
=============================================================================
