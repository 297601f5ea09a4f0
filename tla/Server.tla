------------------------------- MODULE Server -------------------------------
(***************************************************************************)
(* The durability of the server: the write handlers of src/api.rs, the     *)
(* scripts of src/lua.rs, the log file of src/wal.rs, the shutdown, the    *)
(* saved file and the replay of src/server.rs, around the store of         *)
(* StoreOps.                                                               *)
(*                                                                         *)
(* A handler is a short program: append an entry to the log (two writes,   *)
(* not under any lock), apply a command to the store under its write lock. *)
(* Handlers of several clients interleave between these steps, and with    *)
(* the background sweep of expired keys.                                   *)
(***************************************************************************)
EXTENDS StoreOps

CONSTANTS
    Clients,       \* concurrent requests
    Handlers,      \* the handlers in use
    Texts,         \* the texts clients write
    Ttls,          \* None, and the times to live, that clients ask for
    Amounts,       \* the amounts clients add
    InvalidKey,    \* a key validate_key rejects
    Encrypted,     \* KV_AT_REST_KEY is set
    MaxRequests,   \* bound on the requests of a behaviour
    MaxStarts,     \* bound on the starts of the process
    MaxErrors,     \* bound on the failing writes to the log
    MaxNow         \* bound on the clock

ASSUME ServerAssumption ==
    /\ Texts \subseteq Seq(Char) /\ Amounts \subseteq Int
    /\ Ttls \subseteq Nat \cup {None}
    /\ InvalidKey \notin Keys
    /\ Encrypted \in BOOLEAN
    /\ MaxRequests \in Nat /\ MaxStarts \in Nat /\ MaxErrors \in Nat /\ MaxNow \in Nat

VARIABLES
    mode,      \* "up", "stopping" (the shutdown has saved the store), "down"
    mem,       \* the store in memory
    wal,       \* the log file: lines, the last one still open
    saved,     \* the file the shutdown writes: what serde keeps of the store, or None
    job,       \* per client: the rest of its handler's program, or None
    lock,      \* who keeps the store's write lock from one step to the next
    now,       \* the clock, in seconds
    requests, starts, errors,
    excused    \* history: keys whose recovery nobody promised, see Excuse

vars == <<mode, mem, wal, saved, job, lock, now, requests, starts, errors, excused>>

disk == <<wal, saved>>

NewStore == [store |-> [k \in Keys |-> None], memory_bytes |-> 0, total_writes |-> 0,
             lru_order |-> <<>>, transaction_queue |-> None, events |-> <<>>, notify |-> FALSE]

-----------------------------------------------------------------------------
(* The log file.  A line is the sequence of the texts written into it; more *)
(* than one text in a line, or a text cut short, does not parse.            *)

\* A text cut short between two characters or, of an encrypted one, inside the
\* prefix that tells it is encrypted.
Cut == [cmd |-> [op |-> "cut"], json |-> FALSE, time |-> 0]

\* A text cut short inside a character or, of an encrypted one, after the prefix.
CutInside == [cmd |-> [op |-> "cutinside"], json |-> FALSE, time |-> 0]

Cuts == {Cut, CutInside}

\* Faulty variant: the file is opened for writing, not for appending.
write_text_over(file, entry) == [file EXCEPT ![1] = <<entry>>]

write_text(file, entry) == [file EXCEPT ![Len(file)] = Append(@, entry)]

write_newline(file) == Append(file, <<>>)

Malformed(line) == Len(line) > 1 \/ (Len(line) = 1 /\ line[1] \in Cuts)

\* A line that is not UTF-8, or starts as an encrypted one and does not decrypt,
\* makes the whole read fail.
ReadFails(line) ==
    IF Encrypted THEN Malformed(line) /\ line[1] # Cut
    ELSE \E i \in 1..Len(line) : line[i] = CutInside

Readable(file) == \A i \in 1..Len(file) : ~ReadFails(file[i])

\* Blank lines and the other malformed lines are skipped.
Parsed(file) == {p \in 1..Len(file) : file[p] # <<>> /\ ~Malformed(file[p])}

\* The entries of the lines that are left, one each, in order.
ParsedEntries(file) == [i \in 1..Cardinality(Parsed(file)) |-> file[Nth(Parsed(file), i)][1]]

\* An error yields nothing.
read_all(file) == IF Readable(file) THEN ParsedEntries(file) ELSE <<>>

-----------------------------------------------------------------------------
(* Commands *)

Str(text) == [type |-> "Str", data |-> text]

Apply(s, c, t) ==
    CASE c.op = "set" -> IF c.ttl = None THEN set(s, c.key, Str(c.text), None)
                         ELSE set_with_ttl(s, c.key, Str(c.text), c.ttl, t)
      [] c.op = "delete" -> delete(s, c.key)
      [] c.op = "incrby" -> incrby(s, c.key, c.amount)
      [] c.op = "append" -> append(s, c.key, c.text)
      [] c.op = "getset" -> getset(s, c.key, Str(c.text))
      [] c.op = "mset" -> mset(s, <<c.key, Str(c.text)>>, <<c.other, Str(c.text)>>)
      [] c.op = "expire" -> expire(s, c.key, c.ttl, t)
      [] c.op = "persist" -> persist(s, c.key)
      [] c.op = "lpush" -> lpush(s, c.key, c.text)
      [] c.op = "rpush" -> rpush(s, c.key, c.text)
      [] c.op = "lpop" -> lpop(s, c.key)
      [] c.op = "rpop" -> rpop(s, c.key)
      [] c.op = "hset" -> hset(s, c.key, c.field, c.value)
      [] c.op = "hdel" -> hdel(s, c.key, c.field)
      [] c.op = "hincrby" -> hincrby(s, c.key, c.field, c.amount)
      [] c.op = "hincrbyfloat" -> hincrbyfloat(s, c.key, c.field, c.amount)
      [] c.op = "pfadd" -> pfadd(s, c.key, ToSet(c.text))
      [] c.op = "pfreserve" -> pfreserve(s, c.key, c.amount)
      [] c.op = "pfmerge" -> pfmerge(s, c.key, c.other)
      [] c.op = "multi" -> multi(s)
      [] c.op = "discard" -> discard(s)
      [] c.op = "exec" -> IF in_transaction(s) THEN CHOOSE r \in ExecResults(s) : TRUE ELSE s

\* The errors that end a script, or keep a handler from logging afterwards.
Refused(s, c) ==
    CASE c.op = "set" -> c.key \notin Keys \/ ~validate_value(Str(c.text))
      [] c.op = "incrby" -> ~Has(s, c.key, "Int")
      [] c.op = "hincrbyfloat" -> s.store[c.key] # None /\ ~Has(s, c.key, "Hash")
      [] OTHER -> FALSE

\* A value logged as it is, not as JSON, does not parse as a Value on replay.
Dropped(entry) == entry.cmd.op \in {"set", "getset", "mset"} /\ ~entry.json

Poison(entry) == entry.cmd.op = "set" /\ entry.json /\ Refused(NewStore, entry.cmd)

\* Faulty variant: times to live run from the time in the log.
replay_wal_then(s, entries) ==
    FoldLeft(LAMBDA r, e : IF Dropped(e) THEN r ELSE Apply(r, e.cmd, e.time), s, entries)

\* The commands replay carries out.
Replayed(entries) ==
    LET kept == {i \in 1..Len(entries) : ~Dropped(entries[i])}
    IN  [i \in 1..Cardinality(kept) |-> entries[Nth(kept, i)].cmd]

\* The store after each number of commands, carried out at time t.
Applied(s, cmds, t) ==
    LET after[n \in 0..Len(cmds)] == IF n = 0 THEN s ELSE Apply(after[n - 1], cmds[n], t)
    IN  after

\* Times to live start again at the time of the replay.
replay_wal(s, entries) ==
    LET cmds == Replayed(entries) IN Applied(s, cmds, now)[Len(cmds)]

\* What serde keeps of the store.
Serialized ==
    [store |-> mem.store, memory_bytes |-> mem.memory_bytes, total_writes |-> mem.total_writes]

\* load_from_file: what was saved, the transient fields anew.
load_from_file(file, order) ==
    [NewStore EXCEPT !.store = file.store, !.memory_bytes = file.memory_bytes,
                     !.total_writes = file.total_writes, !.lru_order = order]

Stored(st) == {k \in Keys : st[k] # None}

\* The stores a start may come up with; lru_order is in no particular order.
Loaded ==
    IF saved = None THEN {NewStore}
    ELSE {load_from_file(saved, order) : order \in SetToSeqs(Stored(saved.store))}

Startable == Readable(wal) /\ \A i \in 1..Len(read_all(wal)) : ~Poison(read_all(wal)[i])

Recovered == replay_wal(CHOOSE s \in Loaded : TRUE, read_all(wal))

-----------------------------------------------------------------------------
(* Programs of the handlers *)

Log(cmd, json) == [do |-> "log", entry |-> [cmd |-> cmd, json |-> json]]

Do(cmds) == [do |-> "apply", cmds |-> cmds]

KeysOf(cmds) ==
    UNION {IF cmds[i].op = "multi" \/ cmds[i].op = "exec" \/ cmds[i].op = "discard" THEN {}
           ELSE IF cmds[i].op \in {"mset", "pfmerge"} THEN {cmds[i].key, cmds[i].other}
           ELSE {cmds[i].key} : i \in 1..Len(cmds)}

\* kind tells what an error does: "api" and "script" stop, "pipeline" skips the
\* command.  A script, and hincrbyfloat, hold the write lock throughout.
Job(kind, hold, todo, cmds) ==
    [kind |-> kind, hold |-> hold, todo |-> todo, half |-> FALSE, logged |-> FALSE,
     keys |-> KeysOf(cmds), since |-> now]

\* Faulty variant: memory first, log afterwards.
LogLast(cmd, json) == Job("api", FALSE, <<Do(<<cmd>>), Log(cmd, json)>>, <<cmd>>)

LogFirst(cmd, json) == Job("api", FALSE, <<Log(cmd, json), Do(<<cmd>>)>>, <<cmd>>)

Unlogged(cmd) == Job("api", FALSE, <<Do(<<cmd>>)>>, <<cmd>>)

\* Recovery promises nothing for the keys of requests that overlap, for `lost',
\* the keys of commands logged in a form that replay drops or not logged at
\* all, and for the keys of commands that reach the store inside a transaction.
Excuse(c, j, lost) ==
    lost \cup UNION {j.keys \cap job[d].keys : d \in {d \in Clients \ {c} : job[d] # None}}

Begin(c, j, lost) ==
    /\ mode # "down"
    /\ job[c] = None
    /\ requests < MaxRequests
    /\ job' = [job EXCEPT ![c] = j]
    /\ requests' = requests + 1
    /\ excused' = excused \cup Excuse(c, j, lost)
    /\ UNCHANGED <<mode, mem, disk, lock, now, starts, errors>>

Serve(c, handler, cmd) == handler \in Handlers /\ Begin(c, LogFirst(cmd, TRUE), {})

set_value(c) ==
    \E k \in Keys \cup {InvalidKey}, text \in Texts, ttl \in Ttls :
        /\ ttl # 0
        /\ k = InvalidKey => "invalid" \in Handlers
        /\ Serve(c, "set", [op |-> "set", key |-> k, text |-> text, ttl |-> ttl])

delete_value(c) == \E k \in Keys : Serve(c, "delete", [op |-> "delete", key |-> k])

incrby_value(c) ==
    \E k \in Keys, n \in {1, -1} \cup Amounts :
        Serve(c, "incrby", [op |-> "incrby", key |-> k, amount |-> n])

append_value(c) ==
    \E k \in Keys, text \in Texts :
        Serve(c, "append", [op |-> "append", key |-> k, text |-> text])

set_expire(c) ==
    \E k \in Keys, ttl \in Ttls \ {None, 0} :
        Serve(c, "expire", [op |-> "expire", key |-> k, ttl |-> ttl])

persist_key(c) == \E k \in Keys : Serve(c, "persist", [op |-> "persist", key |-> k])

list_push(c) ==
    \E k \in Keys, text \in Texts, op \in {"lpush", "rpush"} :
        Serve(c, "push", [op |-> op, key |-> k, text |-> text])

list_pop(c) ==
    \E k \in Keys, op \in {"lpop", "rpop"} : Serve(c, "pop", [op |-> op, key |-> k])

hash_hset(c) ==
    \E k \in Keys, f \in Fields, n \in Amounts :
        Serve(c, "hset", [op |-> "hset", key |-> k, field |-> f, value |-> n])

hash_hdel(c) ==
    \E k \in Keys, f \in Fields : Serve(c, "hdel", [op |-> "hdel", key |-> k, field |-> f])

hash_hincrby(c) ==
    \E k \in Keys, f \in Fields, n \in Amounts :
        Serve(c, "hincrby", [op |-> "hincrby", key |-> k, field |-> f, amount |-> n])

\* getset and mset log the bare text.
getset_value(c) ==
    /\ "getset" \in Handlers
    /\ \E k \in Keys, text \in Texts :
        Begin(c, LogFirst([op |-> "getset", key |-> k, text |-> text], FALSE), {k})

mset_values(c) ==
    /\ "mset" \in Handlers
    /\ \E k, other \in Keys, text \in Texts :
        Begin(c, LogFirst([op |-> "mset", key |-> k, other |-> other, text |-> text], FALSE),
              {k, other})

\* Applied first, and its result logged as an hset, all under the write lock.
hash_hincrbyfloat(c) ==
    /\ "hincrbyfloat" \in Handlers
    /\ \E k \in Keys, f \in Fields, n \in Amounts :
        LET cmd == [op |-> "hincrbyfloat", key |-> k, field |-> f, amount |-> n]
        IN  Begin(c, Job("api", TRUE, <<Do(<<cmd>>), [do |-> "logfield", key |-> k, field |-> f]>>,
                         <<cmd>>), {})

\* The sketch handlers log nothing.
hll_update(c) ==
    /\ "hll" \in Handlers
    /\ \E k, other \in Keys, text \in Texts :
        \E cmd \in {[op |-> "pfadd", key |-> k, text |-> text],
                    [op |-> "pfreserve", key |-> k, amount |-> 4],
                    [op |-> "pfmerge", key |-> k, other |-> other]} :
            Begin(c, Unlogged(cmd), KeysOf(<<cmd>>))

\* multi, exec and discard log nothing either.
transaction(c) ==
    /\ "transaction" \in Handlers
    /\ \E op \in {"multi", "exec", "discard"} : Begin(c, Unlogged([op |-> op]), {})

\* All entries first, all commands under one lock afterwards; set logs its bare text.
pipeline_exec(c) ==
    /\ "pipeline" \in Handlers
    /\ \E k, other \in Keys, text \in Texts :
        LET cmds == <<[op |-> "append", key |-> k, text |-> text],
                      [op |-> "set", key |-> other, text |-> text, ttl |-> None]>>
        IN  Begin(c, Job("pipeline", FALSE,
                         <<Log(cmds[1], FALSE), Log(cmds[2], FALSE), Do(cmds)>>, cmds),
                  {k, other})

\* A script's set and incr are logged before they are applied; its hset and
\* hdel are not logged, and an error of theirs does not end it.
lua_exec(c) ==
    /\ "lua" \in Handlers
    /\ \E k, other \in Keys, text \in Texts :
        LET first == [op |-> "set", key |-> k, text |-> text, ttl |-> None]
            incr == [op |-> "incrby", key |-> other, amount |-> 1]
        IN  \/ Begin(c, Job("script", TRUE, <<Log(first, TRUE), Do(<<first>>),
                                              Log(incr, TRUE), Do(<<incr>>)>>,
                            <<first, incr>>), {})
            \/ \E f \in Fields, n \in Amounts :
                \E hash \in {[op |-> "hset", key |-> other, field |-> f, value |-> n],
                            [op |-> "hdel", key |-> other, field |-> f]} :
                    Begin(c, Job("script", TRUE, <<Do(<<hash>>), Log(first, TRUE), Do(<<first>>)>>,
                                 <<hash, first>>), {other})

-----------------------------------------------------------------------------
(* The steps of a handler *)

HasLock(c) == IF job[c].hold THEN lock = c ELSE lock = None

\* Faulty variant: a script that fails keeps the lock.
AdvanceKeep(c, j) ==
    /\ job' = [job EXCEPT ![c] = IF j.todo = <<>> THEN None ELSE j]
    /\ lock' = IF j.todo = <<>> /\ lock = c /\ Len(job[c].todo) = 1 THEN None ELSE lock

\* Faulty variant: a request that is through is not taken off the list.
AdvanceLinger(c, j) ==
    /\ job' = [job EXCEPT ![c] = [j EXCEPT !.since = now]]
    /\ lock' = IF j.todo = <<>> /\ lock = c THEN None ELSE lock

\* Go on with what is left of the program; at its end release the lock.
Advance(c, j) ==
    /\ job' = [job EXCEPT ![c] = IF j.todo = <<>> THEN None ELSE [j EXCEPT !.since = now]]
    /\ lock' = IF j.todo = <<>> /\ lock = c THEN None ELSE lock

Stop(j) == [j EXCEPT !.todo = <<>>]

\* The commands of a pipeline that are left when one is skipped.
Without(cmds, cmd) ==
    LET rest == {i \in 1..Len(cmds) : cmds[i] # cmd}
    IN  [i \in 1..Cardinality(rest) |-> cmds[Nth(rest, i)]]

Ready(c, do) == job[c] # None /\ job[c].todo[1].do = do

\* store.write(); a script that finds a transaction open is refused.
Acquire(c) ==
    /\ job[c] # None /\ job[c].hold /\ lock = None
    /\ IF job[c].kind = "script" /\ in_transaction(mem)
       THEN job' = [job EXCEPT ![c] = None] /\ lock' = lock
       ELSE lock' = c /\ job' = job
    /\ UNCHANGED <<mode, mem, disk, now, requests, starts, errors, excused>>

Logging(c) ==
    (Ready(c, "log") \/ Ready(c, "logfield")) /\ (job[c].hold => lock = c)

\* WalEntry::new, called at time t.
EntryOf(instr, t) ==
    IF instr.do = "log" THEN [cmd |-> instr.entry.cmd, json |-> instr.entry.json, time |-> t]
    ELSE [cmd |-> [op |-> "hset", key |-> instr.key, field |-> instr.field,
                   value |-> HashOf(mem, instr.key)[instr.field]],
          json |-> TRUE, time |-> t]

\* The first write_all of append; the entry was created some time before.
WriteText(c) ==
    /\ Logging(c) /\ ~job[c].half
    /\ \E t \in job[c].since..now : wal' = write_text(wal, EntryOf(job[c].todo[1], t))
    /\ job' = [job EXCEPT ![c].half = TRUE, ![c].logged = TRUE]
    /\ UNCHANGED <<mode, mem, saved, lock, now, requests, starts, errors, excused>>

\* The second.
WriteNewline(c) ==
    /\ Logging(c) /\ job[c].half
    /\ wal' = write_newline(wal)
    /\ Advance(c, [job[c] EXCEPT !.todo = Tail(@), !.half = FALSE])
    /\ UNCHANGED <<mode, mem, saved, now, requests, starts, errors, excused>>

\* One of the two fails, the first perhaps half way: a pipeline skips the
\* command, the others give up.  What was written stays.
AppendFails(c) ==
    /\ Logging(c) /\ errors < MaxErrors
    /\ errors' = errors + 1
    /\ wal' \in {wal} \cup (IF job[c].half THEN {} ELSE {write_text(wal, cut) : cut \in Cuts})
    /\ Advance(c, IF job[c].kind = "pipeline"
                  THEN LET rest == Tail(job[c].todo)
                           others == Without(Last(rest).cmds, job[c].todo[1].entry.cmd)
                       IN  [job[c] EXCEPT !.todo = Append(Front(rest), Do(others)), !.half = FALSE]
                  ELSE Stop(job[c]))
    /\ excused' = excused \cup (IF job[c].logged \/ job[c].hold THEN job[c].keys ELSE {})
    /\ UNCHANGED <<mode, mem, saved, now, requests, starts>>

\* The commands under the lock; a handler that holds it stops at an error.
Run(c) ==
    /\ Ready(c, "apply") /\ HasLock(c)
    /\ LET cmds == job[c].todo[1].cmds
       IN  /\ mem' = Applied(mem, cmds, now)[Len(cmds)]
           /\ Advance(c, IF job[c].hold /\ Refused(mem, cmds[1]) THEN Stop(job[c])
                         ELSE [job[c] EXCEPT !.todo = Tail(@)])
           /\ excused' = excused \cup (IF in_transaction(mem) THEN job[c].keys ELSE {})
    /\ UNCHANGED <<mode, disk, now, requests, starts, errors>>

Handle(c) ==
    \/ set_value(c) \/ delete_value(c) \/ incrby_value(c) \/ append_value(c)
    \/ set_expire(c) \/ persist_key(c) \/ list_push(c) \/ list_pop(c)
    \/ hash_hset(c) \/ hash_hdel(c) \/ hash_hincrby(c)
    \/ getset_value(c) \/ mset_values(c) \/ hash_hincrbyfloat(c)
    \/ hll_update(c) \/ transaction(c) \/ pipeline_exec(c) \/ lua_exec(c)

Step(c) == Acquire(c) \/ WriteText(c) \/ WriteNewline(c) \/ Run(c)

-----------------------------------------------------------------------------
(* The life of the process *)

\* The shutdown signal: save_with_version under a read lock, which may fail; the
\* server stops all the same.  Its rename is atomic, so a crash on the way
\* leaves the old file: that is Crash.
Shutdown ==
    /\ mode = "up" /\ lock = None
    /\ mode' = "stopping"
    /\ saved' = saved \/ saved' = Serialized
    /\ UNCHANGED <<mem, wal, job, lock, now, requests, starts, errors, excused>>

Idle == [c \in Clients |-> None]

\* The server stops when the requests under way are done.
Exit ==
    /\ mode = "stopping" /\ job = Idle
    /\ mode' = "down"
    /\ mem' = NewStore
    /\ UNCHANGED <<disk, job, lock, now, requests, starts, errors, excused>>

\* Memory is lost, and a text being written may be cut.
Crash ==
    /\ mode # "down"
    /\ mode' = "down"
    /\ mem' = NewStore
    /\ job' = Idle
    /\ lock' = None
    /\ \/ wal' = wal
       \/ /\ \E c \in Clients : Logging(c) /\ ~job[c].half
          /\ \E cut \in Cuts : wal' = write_text(wal, cut)
    /\ UNCHANGED <<saved, now, requests, starts, errors, excused>>

\* Whatever k was before, this command decides what it is after.
Resets(cmd, k) == cmd.op \in {"set", "delete"} /\ cmd.key = k /\ ~Refused(NewStore, cmd)

\* The keys with an end that only the saved file knows of: what the log holds
\* of them cannot be replayed once that end has passed, see ExpireReapplied.
FileOnly ==
    {k \in Keys :
        /\ saved # None /\ saved.store[k] # None /\ saved.store[k].expires_at # None
        /\ LET cmds == Replayed(read_all(wal)) IN \A i \in 1..Len(cmds) : ~Resets(cmds[i], k)}

\* Load, then replay the whole log on top; a log that does not replay keeps
\* the server from starting.
Start ==
    /\ mode = "down" /\ starts < MaxStarts
    /\ Startable
    /\ \E s \in Loaded : mem' = replay_wal(s, read_all(wal))
    /\ mode' = "up"
    /\ starts' = starts + 1
    /\ excused' = FileOnly
    /\ UNCHANGED <<disk, job, lock, now, requests, errors>>

\* The background sweep, which logs nothing.
Sweep ==
    /\ mode # "down" /\ lock = None
    /\ Due(mem, now) # {}
    /\ \E order \in SetToSeqs(Due(mem, now)) : mem' = cleanup_expired(mem, now, order)
    /\ excused' = excused \cup Due(mem, now)
    /\ UNCHANGED <<mode, disk, job, lock, now, requests, starts, errors>>

Tick ==
    /\ now < MaxNow
    /\ now' = now + 1
    /\ UNCHANGED <<mode, mem, disk, job, lock, requests, starts, errors, excused>>

Init ==
    /\ mode = "up"
    /\ mem = NewStore
    /\ wal = <<<<>>>>
    /\ saved = None
    /\ job = Idle
    /\ lock = None
    /\ now = 0 /\ requests = 0 /\ starts = 1 /\ errors = 0
    /\ excused = {}

\* One life of the process, with the clock standing still.
Session ==
    \/ \E c \in Clients : Handle(c) \/ Step(c) \/ AppendFails(c)
    \/ Shutdown \/ Exit \/ Crash

Next == Session \/ Start \/ Sweep \/ Tick

Spec == Init /\ [][Next]_vars

\* Requests under way make progress: their tasks are scheduled, and the write
\* lock (parking_lot) is handed on.  No request outlives the process, so one
\* session is enough.
FairSpec == Init /\ [][Session]_vars /\ \A c \in Clients : WF_vars(Step(c))

-----------------------------------------------------------------------------
(* Types *)

\* The commands of one key, in the form in which replay carries them out.
KeyCommand ==
    [op : {"set"}, key : Keys \cup {InvalidKey}, text : Texts, ttl : Ttls \cup {None}]
    \cup [op : {"delete", "persist", "lpop", "rpop"}, key : Keys]
    \cup [op : {"append", "lpush", "rpush"}, key : Keys, text : Texts]
    \cup [op : {"expire"}, key : Keys, ttl : Ttls \ {None}]
    \cup [op : {"incrby"}, key : Keys, amount : Int]
    \cup [op : {"hset"}, key : Keys, field : Fields, value : FieldText \cup {None}]
    \cup [op : {"hdel"}, key : Keys, field : Fields]
    \cup [op : {"hincrby"}, key : Keys, field : Fields, amount : Int]

BareCommand ==
    [op : {"getset"}, key : Keys, text : Texts]
    \cup [op : {"mset"}, key : Keys, other : Keys, text : Texts]

Command ==
    KeyCommand \cup BareCommand
    \cup [op : {"hincrbyfloat"}, key : Keys, field : Fields, amount : Int]
    \cup [op : {"pfadd"}, key : Keys, text : Texts]
    \cup [op : {"pfreserve"}, key : Keys, amount : Nat]
    \cup [op : {"pfmerge"}, key : Keys, other : Keys]
    \cup [op : {"multi", "exec", "discard"}]

LogEntry ==
    [cmd : KeyCommand, json : BOOLEAN, time : 0..MaxNow]
    \cup [cmd : BareCommand, json : {FALSE}, time : 0..MaxNow]

Instruction ==
    [do : {"log"}, entry : [cmd : KeyCommand, json : BOOLEAN]
                           \cup [cmd : BareCommand, json : {FALSE}]]
    \cup [do : {"logfield"}, key : Keys, field : Fields]
    \cup [do : {"apply"}, cmds : Seq(Command)]

\* A handler with steps left.
Program ==
    [kind : {"api", "pipeline", "script"}, hold : BOOLEAN, todo : Seq(Instruction) \ {<<>>},
     half : BOOLEAN, logged : BOOLEAN, keys : SUBSET (Keys \cup {InvalidKey}), since : 0..MaxNow]

SavedStore == [store : [Keys -> Entry \cup {None}], memory_bytes : Nat, total_writes : Nat]

IsStore(s) ==
    /\ s.store \in [Keys -> Entry \cup {None}]
    /\ s.memory_bytes \in Nat /\ s.total_writes \in Nat
    /\ s.lru_order \in Seq(Keys)
    /\ s.transaction_queue \in Seq(TransactionOp) \cup {None}
    /\ s.events \in Seq(KeyspaceEvent) /\ s.notify \in BOOLEAN

\* `None' is neither a request under way nor a saved file.
ASSUME NobodyAssumption ==
    None \notin Program /\ None \notin SavedStore /\ None \notin Clients

\* A log line holds commands that replay knows, a handler under way always has a
\* step left, and no handler meets a store, a file or a log it cannot work on.
TypeOK ==
    /\ mode \in {"up", "stopping", "down"}
    /\ IsStore(mem)
    /\ wal \in Seq(Seq(LogEntry \cup Cuts)) \ {<<>>}
    /\ saved \in SavedStore \cup {None}
    /\ job \in [Clients -> Program \cup {None}]
    /\ lock \in Clients \cup {None}
    /\ now \in 0..MaxNow
    /\ requests \in 0..MaxRequests /\ starts \in Nat /\ errors \in 0..MaxErrors
    /\ excused \in SUBSET (Keys \cup {InvalidKey})

-----------------------------------------------------------------------------
(* Properties *)

Glued == \E i \in 1..Len(wal) : Malformed(wal[i])

NotIdempotent == {"incrby", "append", "expire", "lpush", "rpush", "lpop", "rpop", "hincrby"}

\* Once the shutdown has saved the store, the log is replayed on top of its
\* own effects.
Doubled(k) ==
    /\ mode = "stopping"
    /\ LET cmds == Replayed(read_all(wal))
       IN  \E i \in 1..Len(cmds) : cmds[i].key = k /\ cmds[i].op \in NotIdempotent

\* x, brought back by a replay, is the entry y, and does not expire before it.
SameEntry(x, y) ==
    IF x = None \/ y = None THEN x = y
    ELSE /\ x.value.type = y.value.type /\ x.value.data = y.value.data
         /\ \/ x.expires_at = y.expires_at
            \/ x.expires_at # None /\ y.expires_at # None /\ x.expires_at >= y.expires_at

\* What a restart would bring back is what clients see now: for every key but
\* the excused ones, a difference comes from a request under way that has
\* reached the log and not yet the store.  In particular no write that is logged
\* at all is visible before it is safe (a sketch, a command of a transaction and
\* a script's hset and hdel never are), a logged request is replayed as it was
\* carried out, a restart cuts no life short, and the saved file and the log
\* agree.  (A malformed line voids all this.)
RecoveryFaithful ==
    mode # "down" /\ lock = None /\ ~Glued =>
        \A k \in Keys \ excused :
            \/ SameEntry(Recovered.store[k], mem.store[k])
            \/ Doubled(k)
            \/ \E c \in Clients : job[c] # None /\ k \in job[c].keys /\ job[c].logged

\* Whatever fails on the way and wherever it ends, a script or an hincrbyfloat
\* does not leave the write lock behind: who keeps it is a request under way
\* that has steps left, and will give it back with the last of them.
LockHasOwner ==
    lock # None =>
        /\ lock \in Clients
        /\ job[lock] # None /\ job[lock].hold /\ job[lock].todo # <<>>

\* Every request is answered: nobody waits for ever for the lock, whatever
\* fails or crashes on the way.
RequestsFinish == \A c \in Clients : job[c] # None ~> job[c] = None

\* A log that can be read yields what was logged: a crash, a failed write or an
\* overlap may lose the entry it concerns, and never changes the order of those
\* that stay or makes up one: read_all only ever grows at its end or loses its
\* last entry to the next text.  A log that cannot be read never can again.
LogIsAppendOnly ==
    [][Readable(wal') =>
        LET old == read_all(wal)
            new == read_all(wal')
        IN  /\ Readable(wal)
            /\ \/ IsPrefix(old, new)
               \/ old # <<>> /\ new = Front(old)]_wal

-----------------------------------------------------------------------------
(* Statements of the documentation that the code does not keep *)

\* INTEGRATION.md: "On restart, the WAL is replayed to recover state."
\* So whatever clients sent, a log without a malformed line can be replayed.
RestartPossible == ~Glued => Startable

\* server.rs on replay_wal: "any operations logged before shutdown are re-applied".
\* So a key of the saved file whose last logged operation is an expire, carried
\* out or not, is there after a restart while clients can still read it.
ExpireReapplied ==
    mode = "up" /\ job = Idle /\ saved # None /\ ~Glued =>
        \A k \in Keys :
            /\ saved.store[k] # None /\ get(mem, k, now) # None
            /\ LET cmds == Replayed(read_all(wal))
               IN  cmds # <<>> /\ Last(cmds).key = k /\ Last(cmds).op = "expire"
            => get(Recovered, k, now) # None

\* server.rs on replay_wal: "ensures that any operations logged before
\* shutdown are re-applied", to "restore durability": after an orderly
\* shutdown the store that comes back is the one that was saved.
ShutdownRestores ==
    mode = "stopping" /\ saved # None /\ job = Idle /\ mem.store = saved.store /\ excused = {} /\ ~Glued
        => Recovered.store = saved.store
=============================================================================
