------------------------------ MODULE StoreOps ------------------------------
(***************************************************************************)
(* The storage engine of src/kv_store.rs as pure operators.  A value `s'   *)
(* below is one value of `struct KvStore': the map, the fields of its      *)
(* statistics and configuration that the control depends on, the LRU       *)
(* vector, the transaction queue and the pending keyspace events.  Every   *)
(* operator named after a Rust method returns the value of the struct      *)
(* after that method, error paths included (an Err that changed nothing    *)
(* returns s itself).  KvStore makes a state machine of them.              *)
(*                                                                         *)
(* Left out: the counters nothing reads back (total_keys, total_reads,     *)
(* hits, misses, total_deletes, evictions, expired_keys), log lines, and   *)
(* the timestamp inside an event.  Float and JSON values behave like Bool  *)
(* here: no operation but `set' accepts them.                              *)
(***************************************************************************)
EXTENDS Integers, Sequences, FiniteSets, SequencesExt

CONSTANTS
    Keys,               \* keys validate_key accepts
    Char,               \* one-byte pieces of text: string chunks, list items
    Fields,             \* hash field names
    NonNumeric,         \* a hash field text that does not parse as a number
    HalfRange,          \* 2^63 in the code: an i64 is in -HalfRange..HalfRange-1
    MaxU64,             \* the largest u64, for checked_add on expiry times
    max_value_size,     \* config.max_value_size
    max_memory_bytes,   \* config.max_memory_bytes, 0 for no limit
    lru_eviction_enabled,
    None                \* Rust's None

ASSUME BoundsAssumption ==
    /\ HalfRange \in Nat \ {0}
    /\ MaxU64 \in Nat
    /\ max_value_size \in Nat
    /\ max_memory_bytes \in Nat
    /\ lru_eviction_enabled \in BOOLEAN
    /\ IsFiniteSet(Fields)
    /\ NonNumeric \notin Int

-----------------------------------------------------------------------------
(* Values and entries *)

I64 == -HalfRange .. (HalfRange - 1)

\* Faulty variant: arithmetic that leaves the 64 bits.
wrap_not(n) == n

\* Two's complement addition as compiled without overflow checks.
wrap(n) == ((n + HalfRange) % (2 * HalfRange)) - HalfRange

\* The text of a hash field, as the number it denotes counted in halves, so
\* that the integral texts are the even ones.
FieldText == Int \cup {NonNumeric}

parse_i64(t) == IF t # NonNumeric /\ t % 2 = 0 /\ t \div 2 \in I64 THEN t \div 2 ELSE 0

parse_f64(t) == IF t # NonNumeric THEN t ELSE 0

Sketch == [precision : 4..16, seen : SUBSET Char]

DEFAULT_PRECISION == 10

\* 1 << precision for the precisions 4..16: the one-byte registers of a sketch.
register_count(precision) ==
    <<16, 32, 64, 128, 256, 512, 1024, 2048, 4096, 8192, 16384, 32768, 65536>>[precision - 3]

Value ==
    [type : {"Str"}, data : Seq(Char)]
    \cup [type : {"Int"}, data : I64]
    \cup [type : {"Bool"}, data : BOOLEAN]
    \cup [type : {"List"}, data : Seq(Char)]
    \cup [type : {"Hash"}, data : [Fields -> FieldText \cup {None}]]
    \cup [type : {"HyperLogLog"}, data : Sketch]

Entry == [value : Value, expires_at : Nat \cup {None}]

\* What set, set_with_ttl, mset and delete put on the transaction queue.
TransactionOp ==
    [op : {"Set"}, key : Keys, entry : Entry]
    \cup [op : {"Delete"}, key : Keys]

\* `None' is none of the things an Option of the code can hold.
ASSUME NoneAssumption ==
    /\ None \notin Nat
    /\ None \notin FieldText
    /\ None \notin Value
    /\ None \notin Entry
    /\ None \notin Seq(TransactionOp)

KeyspaceEvent == [kind : {"set", "del", "expired", "evicted"}, key : Keys]

HashFields(v) == {f \in Fields : v.data[f] # None}

estimate_value_size(v) ==
    CASE v.type = "Str" -> Len(v.data)
      [] v.type = "Int" -> 8
      [] v.type = "Bool" -> 1
      [] v.type = "List" -> Len(v.data) + 24
      [] v.type = "Hash" -> 2 * Cardinality(HashFields(v)) + 48
      [] v.type = "HyperLogLog" -> register_count(v.data.precision)

validate_value(v) == estimate_value_size(v) <= max_value_size

\* now.checked_add(ttl): an overflowing expiry time becomes "never expires".
checked_add(now, ttl) == IF now + ttl > MaxU64 THEN None ELSE now + ttl

Has(s, k, type) == s.store[k] # None /\ s.store[k].value.type = type

\* The test of get, expire, keys and ttl_seconds.
IsExpired(entry, now) == entry.expires_at # None /\ now > entry.expires_at

get(s, k, now) ==
    IF s.store[k] = None \/ IsExpired(s.store[k], now)
    THEN None ELSE s.store[k].value

\* The seconds a key has left: -2 if it is not there, -1 if it has no end.
ttl_seconds(s, k, now) ==
    IF s.store[k] = None THEN -2
    ELSE IF s.store[k].expires_at = None THEN -1
    ELSE IF now > s.store[k].expires_at THEN -2
    ELSE Min({s.store[k].expires_at - now, HalfRange - 1})

in_transaction(s) == s.transaction_queue # None

-----------------------------------------------------------------------------
(* Bookkeeping shared by the operations *)

\* Faulty variant: push without retain.
update_lru_push(lru, k) == Append(lru, k)

\* lru_order.retain(|k| k != key); lru_order.push(key).  No key occurs twice
\* in lru_order (KvStore!LruTracksStore), so retain removes one occurrence.
update_lru(lru, k) ==
    LET at(i) == lru[i] = k
        rest == IF \E i \in 1..Len(lru) : at(i)
                THEN RemoveAt(lru, CHOOSE i \in 1..Len(lru) : at(i))
                ELSE lru
    IN  Append(rest, k)

emit_keyspace_event(s, kind, k) ==
    IF s.notify
    THEN [s EXCEPT !.events = Append(@, [kind |-> kind, key |-> k])]
    ELSE s

\* The bytes of the stored values of the first n keys of lru_order, as a set
\* of cells, so that their number is a cardinality.
SizeAt(s, p) ==
    LET e == s.store[s.lru_order[p]]
    IN  IF e = None THEN 0 ELSE estimate_value_size(e.value)

Cells(s, n) == UNION {{p} \X (1..SizeAt(s, p)) : p \in 1..n}

\* memory_bytes after n rounds of the eviction loop (saturating_sub).
MemoryAfter(s, n) ==
    LET freed == Cardinality(Cells(s, n))
    IN  IF freed > s.memory_bytes THEN 0 ELSE s.memory_bytes - freed

\* Faulty variant: evicting at the limit already.
RoundsAtLimit(s) == {p \in 1..Len(s.lru_order) : MemoryAfter(s, p - 1) >= max_memory_bytes}

\* The rounds of the loop: round p runs while memory is still over the limit.
Rounds(s) == {p \in 1..Len(s.lru_order) : MemoryAfter(s, p - 1) > max_memory_bytes}

\* Faulty variant: the second key instead of the first.
VictimsSecond(s, n) == {s.lru_order[p] : p \in 2..(IF n < Len(s.lru_order) THEN n + 1 ELSE n)}

\* lru_order.first(), n times.
Victims(s, n) == {s.lru_order[p] : p \in 1..n}

\* The i-th smallest of a finite set of positions.
Nth(S, i) == CHOOSE p \in S : Cardinality({q \in S : q <= p}) = i

\* The positions among the first n whose key is in the map: a key that delete
\* or the sweep removed stays in lru_order, and its eviction is silent.
StoredAt(s, n) == {p \in 1..n : s.store[s.lru_order[p]] # None}

\* The keys at these positions, in order.
Evicted(s, n) ==
    [i \in 1..Cardinality(StoredAt(s, n)) |-> s.lru_order[Nth(StoredAt(s, n), i)]]

enforce_memory_limit(s) ==
    LET n == Cardinality(Rounds(s))
        victims == Victims(s, n)
        evicted == Evicted(s, n)
    IN  [s EXCEPT
            !.store = [k \in Keys |-> IF k \in victims THEN None ELSE s.store[k]],
            !.memory_bytes = MemoryAfter(s, n),
            !.lru_order = SubSeq(@, n + 1, Len(@)),
            !.events = IF s.notify
                       THEN @ \o [i \in 1..Len(evicted) |->
                                    [kind |-> "evicted", key |-> evicted[i]]]
                       ELSE @]

queue_operation(s, op) == [s EXCEPT !.transaction_queue = Append(@, op)]

\* Store an entry under k, count the write and make k the most recent key:
\* what every successful write of a key does.
Write(s, k, entry) ==
    [s EXCEPT !.store = [@ EXCEPT ![k] = entry],
              !.lru_order = update_lru(@, k),
              !.total_writes = @ + 1]

\* The same for a key that is new to the map, whose bytes are accounted.
Create(s, k, v) ==
    [Write(s, k, [value |-> v, expires_at |-> None])
        EXCEPT !.memory_bytes = @ + estimate_value_size(v)]

\* Faulty variant: a change of value that drops the expiry time.
UpdateForGood(s, k, v) == Write(s, k, [value |-> v, expires_at |-> None])

\* Replace the value of a stored key, keeping its expiry time; the memory
\* counter does not follow the change of size.
Update(s, k, v) == Write(s, k, [value |-> v, expires_at |-> s.store[k].expires_at])

-----------------------------------------------------------------------------
(* Strings, counters, expiry *)

\* Faulty variant: the limit is enforced before the new value is counted.
InsertLimitFirst(s, k, v, exp) ==
    LET bounded == IF max_memory_bytes > 0 /\ lru_eviction_enabled
                   THEN enforce_memory_limit(s) ELSE s
        w == Write(bounded, k, [value |-> v, expires_at |-> exp])
    IN  emit_keyspace_event([w EXCEPT !.memory_bytes = @ + estimate_value_size(v)], "set", k)

\* The body of set and set_with_ttl outside a transaction.
Insert(s, k, v, exp) ==
    LET w == Write(s, k, [value |-> v, expires_at |-> exp])
        grown == [w EXCEPT !.memory_bytes = @ + estimate_value_size(v)]
        bounded == IF max_memory_bytes > 0 /\ lru_eviction_enabled
                   THEN enforce_memory_limit(grown) ELSE grown
    IN  emit_keyspace_event(bounded, "set", k)

set(s, k, v, exp) ==
    IF k \notin Keys \/ ~validate_value(v) THEN s
    ELSE IF in_transaction(s)
         THEN queue_operation(s, [op |-> "Set", key |-> k,
                                  entry |-> [value |-> v, expires_at |-> exp]])
         ELSE Insert(s, k, v, exp)

set_with_ttl(s, k, v, ttl, now) == set(s, k, v, checked_add(now, ttl))

\* Faulty variant: a delete nobody hears of.
delete_silent(s, k) ==
    IF in_transaction(s) THEN queue_operation(s, [op |-> "Delete", key |-> k])
    ELSE [s EXCEPT !.store = [@ EXCEPT ![k] = None]]

delete(s, k) ==
    IF in_transaction(s) THEN queue_operation(s, [op |-> "Delete", key |-> k])
    ELSE IF s.store[k] = None THEN s
    ELSE emit_keyspace_event([s EXCEPT !.store = [@ EXCEPT ![k] = None]], "del", k)

\* incr, decr and incrby: never queued, no look at the expiry time.
incrby(s, k, amount) ==
    IF Has(s, k, "Int")
    THEN Update(s, k, [type |-> "Int", data |-> wrap(s.store[k].value.data + amount)])
    ELSE s

append(s, k, text) ==
    IF s.store[k] = None THEN set(s, k, [type |-> "Str", data |-> text], None)
    ELSE IF Has(s, k, "Str")
    THEN Update(s, k, [type |-> "Str", data |-> s.store[k].value.data \o text])
    ELSE s

getset(s, k, v) == set(s, k, v, None)

\* mset of two pairs <<key, value>>: the first error returns, and leaves what
\* was set (or queued) before it.
mset(s, p, q) ==
    IF p[1] \notin Keys \/ ~validate_value(p[2]) THEN s
    ELSE set(set(s, p[1], p[2], None), q[1], q[2], None)

\* Faulty variant: no look at the expiry time.
expire_any(s, k, ttl, now) ==
    IF s.store[k] = None THEN s
    ELSE emit_keyspace_event(
            [s EXCEPT !.store = [@ EXCEPT ![k] =
                [value |-> s.store[k].value, expires_at |-> checked_add(now, ttl)]]],
            "set", k)

expire(s, k, ttl, now) ==
    IF s.store[k] = None \/ IsExpired(s.store[k], now) THEN s
    ELSE emit_keyspace_event(
            [s EXCEPT !.store = [@ EXCEPT ![k] =
                [value |-> s.store[k].value, expires_at |-> checked_add(now, ttl)]]],
            "set", k)

persist(s, k) ==
    IF s.store[k] = None \/ s.store[k].expires_at = None THEN s
    ELSE emit_keyspace_event(
            [s EXCEPT !.store = [@ EXCEPT ![k] =
                [value |-> s.store[k].value, expires_at |-> None]]],
            "set", k)

\* Faulty variant: a sweep that only sees the keys of the current second.
DueNow(s, now) ==
    {k \in Keys : s.store[k] # None /\ s.store[k].expires_at = now}

\* Faulty variant: a sweep that is a second early.
DueSoon(s, now) ==
    {k \in Keys : /\ s.store[k] # None
                  /\ s.store[k].expires_at # None
                  /\ now + 1 >= s.store[k].expires_at}

\* The keys cleanup_expired collects: `now >= exp', where get has `now > exp'.
Due(s, now) ==
    {k \in Keys : /\ s.store[k] # None
                  /\ s.store[k].expires_at # None
                  /\ now >= s.store[k].expires_at}

\* Faulty variant: a sweep nobody hears of.
cleanup_expired_silent(s, now, order) ==
    [s EXCEPT !.store = [k \in Keys |-> IF k \in Due(s, now) THEN None ELSE s.store[k]]]

\* order is the order in which the HashMap iterates over the due keys.
cleanup_expired(s, now, order) ==
    [s EXCEPT
        !.store = [k \in Keys |-> IF k \in Due(s, now) THEN None ELSE s.store[k]],
        !.events = IF s.notify
                   THEN @ \o [i \in 1..Len(order) |->
                                [kind |-> "expired", key |-> order[i]]]
                   ELSE @]

-----------------------------------------------------------------------------
(* Transactions *)

multi(s) == IF in_transaction(s) THEN s ELSE [s EXCEPT !.transaction_queue = <<>>]

discard(s) == [s EXCEPT !.transaction_queue = None]

\* The ways to list a finite set of positions in ascending order (one).
Ascending(S) ==
    {f \in [1..Cardinality(S) -> S] :
        /\ \A i, j \in 1..Cardinality(S) : i < j => f[i] < f[j]
        /\ \A x \in S : \E i \in 1..Cardinality(S) : f[i] = x}

\* Faulty variant: the first queued operation on a key decides.
IsFirstOp(queue, k, n) ==
    /\ n # 0 => queue[n].key = k
    /\ \A i \in 1..Len(queue) : queue[i].key = k => n # 0 /\ n <= i

\* The position of the last queued operation on k, 0 if there is none.
IsLastOp(queue, k, n) ==
    /\ n # 0 => queue[n].key = k
    /\ \A i \in 1..Len(queue) : queue[i].key = k => i <= n

\* Faulty variant: every Set pushes its key, earlier occurrences stay.
LastSetsAll(queue) == {i \in 1..Len(queue) : queue[i].op = "Set"}

\* The positions of the queue that are the last Set of their key: the order
\* of these decides the order update_lru leaves behind.
LastSets(queue) ==
    {i \in 1..Len(queue) :
        /\ queue[i].op = "Set"
        /\ \A j \in 1..Len(queue) :
              queue[j].op = "Set" /\ queue[j].key = queue[i].key => j <= i}

Sets(queue) == {i \in 1..Len(queue) : queue[i].op = "Set"}

\* The positions of lru_order no Set of the queue moves to the end.
Unmoved(s) ==
    {p \in 1..Len(s.lru_order) :
        \A i \in Sets(s.transaction_queue) : s.transaction_queue[i].key # s.lru_order[p]}

\* The net effect of running the queue: the last operation on a key decides
\* its entry, the keys that were set become the most recent ones.  No
\* accounting of memory, no limit, no event.  Only Set and Delete are ever
\* queued; the other arms of exec's match are unreachable.
exec(s, last, kept, moved) ==
    LET queue == s.transaction_queue
        after(k) == IF last[k] = 0 THEN s.store[k]
                    ELSE IF queue[last[k]].op = "Set" THEN queue[last[k]].entry
                    ELSE None
        front == [i \in 1..Len(kept) |-> s.lru_order[kept[i]]]
        back == [i \in 1..Len(moved) |-> queue[moved[i]].key]
    IN  [s EXCEPT !.store = [k \in Keys |-> after(k)],
                  !.lru_order = front \o back,
                  !.total_writes = @ + Cardinality(Sets(queue)),
                  !.transaction_queue = None]

ExecResults(s) ==
    {exec(s, last, kept, moved) :
        last \in {f \in [Keys -> 0..Len(s.transaction_queue)] :
                     \A k \in Keys : IsLastOp(s.transaction_queue, k, f[k])},
        kept \in Ascending(Unmoved(s)),
        moved \in Ascending(LastSets(s.transaction_queue))}

-----------------------------------------------------------------------------
(* Lists, hashes, sketches: update a value of the right type, create an    *)
(* absent one, refuse any other                                            *)

Upsert(s, k, type, changed, initial) ==
    IF s.store[k] = None THEN Create(s, k, [type |-> type, data |-> initial])
    ELSE IF Has(s, k, type) THEN Update(s, k, [type |-> type, data |-> changed])
    ELSE s

ListOf(s, k) == IF Has(s, k, "List") THEN s.store[k].value.data ELSE <<>>

\* list.insert(0, v) for each value: the pushed values end up reversed.
lpush(s, k, items) ==
    Upsert(s, k, "List", Reverse(items) \o ListOf(s, k), Reverse(items))

rpush(s, k, items) == Upsert(s, k, "List", ListOf(s, k) \o items, items)

lpop(s, k) ==
    IF ListOf(s, k) = <<>> THEN s
    ELSE Update(s, k, [type |-> "List", data |-> Tail(ListOf(s, k))])

rpop(s, k) ==
    IF ListOf(s, k) = <<>> THEN s
    ELSE Update(s, k, [type |-> "List", data |-> Front(ListOf(s, k))])

\* Faulty variant: the end is exclusive.
list_slice_short(list, from, to) == SubSeq(list, from + 1, to)

\* list[from..=to], counted from 0.
list_slice(list, from, to) == SubSeq(list, from + 1, to + 1)

\* Negative indices count from the end; one before the front is taken for the
\* front, as start and as stop.
lrange(s, k, start, stop, now) ==
    LET list == IF get(s, k, now) = None THEN <<>> ELSE ListOf(s, k)
        len == Len(list)
        from == IF start < 0 THEN Max({len + start, 0}) ELSE Min({start, len})
        to == IF stop < 0 THEN Max({len + stop, 0}) ELSE Min({stop, len - 1})
    IN  IF from > to \/ from >= len THEN <<>> ELSE list_slice(list, from, to)

NoFields == [f \in Fields |-> None]

HashOf(s, k) == IF Has(s, k, "Hash") THEN s.store[k].value.data ELSE NoFields

hset(s, k, f, text) ==
    LET changed == [HashOf(s, k) EXCEPT ![f] = text]
    IN  Upsert(s, k, "Hash", changed, changed)

\* hdel of one field; it refreshes the LRU position even if nothing is
\* removed, and leaves an emptied hash in the map.
hdel(s, k, f) ==
    IF ~Has(s, k, "Hash") THEN s
    ELSE [s EXCEPT
            !.store = [@ EXCEPT ![k] =
                [value |-> [type |-> "Hash", data |-> [HashOf(s, k) EXCEPT ![f] = None]],
                 expires_at |-> s.store[k].expires_at]],
            !.lru_order = update_lru(@, k),
            !.total_writes = IF HashOf(s, k)[f] = None THEN @ ELSE @ + 1]

Current(s, k, f, parse(_)) ==
    IF HashOf(s, k)[f] = None THEN 0 ELSE parse(HashOf(s, k)[f])

hincrby(s, k, f, amount) ==
    hset(s, k, f, 2 * wrap(Current(s, k, f, parse_i64) + amount))

\* amount is counted in halves.
hincrbyfloat(s, k, f, amount) == hset(s, k, f, Current(s, k, f, parse_f64) + amount)

NewSketch(precision) ==
    [precision |-> IF precision < 4 THEN 4 ELSE IF precision > 16 THEN 16 ELSE precision,
     seen |-> {}]

pfreserve(s, k, precision) ==
    IF s.store[k] # None THEN s
    ELSE Create(s, k, [type |-> "HyperLogLog", data |-> NewSketch(precision)])

SketchOf(s, k) ==
    IF Has(s, k, "HyperLogLog") THEN s.store[k].value.data ELSE NewSketch(DEFAULT_PRECISION)

\* The registers are a function of the values added, whatever their order, so
\* a sketch is the set of values it has seen.
pfadd(s, k, items) ==
    LET h == [SketchOf(s, k) EXCEPT !.seen = @ \cup items]
    IN  IF items = {} THEN s ELSE Upsert(s, k, "HyperLogLog", h, h)

\* Merge a source into a destination: an error (wrong type, precisions that
\* differ) leaves the map alone, a missing source counts as empty, and the
\* result loses the destination's expiry time.
pfmerge(s, dest, src) ==
    LET merges == dest # src /\ s.store[src] # None
        h == IF merges THEN [SketchOf(s, dest) EXCEPT !.seen = @ \cup SketchOf(s, src).seen]
             ELSE SketchOf(s, dest)
        v == [type |-> "HyperLogLog", data |-> h]
    IN  IF \/ s.store[dest] # None /\ ~Has(s, dest, "HyperLogLog")
           \/ merges /\ ~Has(s, src, "HyperLogLog")
           \/ merges /\ SketchOf(s, src).precision # SketchOf(s, dest).precision
        THEN s
        ELSE IF s.store[dest] = None THEN Create(s, dest, v)
        ELSE Write(s, dest, [value |-> v, expires_at |-> None])

=============================================================================
