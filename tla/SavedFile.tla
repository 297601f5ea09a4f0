----------------------------- MODULE SavedFile ------------------------------
(***************************************************************************)
(* The file of the store: invocations of the command line (src/main.rs)    *)
(* load it, carry out one command and save it with save_with_version of    *)
(* src/kv_store.rs, as the server does when it shuts down.  A save copies  *)
(* the old file to a backup, prunes the backups, writes a temporary file   *)
(* of a fixed name and renames it.  Any of these steps may fail, or be the *)
(* process's last.                                                         *)
(*                                                                         *)
(* A store is the set of the invocations whose commands it holds.  A path  *)
(* leads to an inode, so that a process may go on writing into a file that *)
(* another one has renamed; inodes are named after their creators.         *)
(***************************************************************************)
EXTENDS Integers, Sequences, FiniteSets, SequencesExt

CONSTANTS
    Procs,          \* the invocations
    AutoVersions,   \* the backups the automatic save keeps
    SaveVersions,   \* the backups explicit saves ask for
    Overlap,        \* may two invocations that save run at the same time?
    FlushFails,     \* may the disk be full when the buffered writer is dropped?
    MaxAborts,      \* bound on the saves that fail or are killed
    MaxNow,         \* bound on the clock
    None, Empty, Torn

ASSUME SavedFileAssumption ==
    /\ AutoVersions \in Nat /\ SaveVersions \subseteq Nat
    /\ Overlap \in BOOLEAN /\ FlushFails \in BOOLEAN
    /\ MaxAborts \in Nat /\ MaxNow \in Nat
    /\ None \notin Procs /\ \A store \in SUBSET Procs : store \notin {Empty, Torn}

VARIABLES
    file,        \* the inode of the store's path, or None
    temp,        \* the inode of the temporary path, or None
    data,        \* what is in an inode: a store, or nothing that parses
    backups,     \* the backups by time of modification, the oldest first
    pc, mem, versions, handle,    \* per invocation
    aborts, now

disk == <<file, temp, data, backups>>

vars == <<disk, pc, mem, versions, handle, aborts, now>>

\* serde_json::from_reader succeeds.
Parses(content) == content \notin {Empty, Torn}

Saving(p) == pc[p] \in {"backup", "prune", "create", "write", "rename", "saved"}

-----------------------------------------------------------------------------
(* The invocation *)

\* A file that is missing or does not parse is an empty store; the latter is
\* only reported, and saved over in the end.
load_from_file == IF file # None /\ Parses(data[file]) THEN data[file] ELSE {}

Invoke(p, todo, store, keep) ==
    /\ pc[p] = "idle"
    /\ pc' = [pc EXCEPT ![p] = todo]
    /\ mem' = [mem EXCEPT ![p] = store]
    /\ versions' = [versions EXCEPT ![p] = keep]
    /\ UNCHANGED <<disk, handle, aborts, now>>

MaySave == Overlap \/ \A q \in Procs : ~Saving(q)

\* A command that changes the store.
write_command(p) ==
    MaySave /\ Invoke(p, "backup", load_from_file \cup {p}, AutoVersions)

\* A command that is refused, or changes nothing, is followed by a save all the same.
refused_command(p) == MaySave /\ Invoke(p, "backup", load_from_file, AutoVersions)

save_command(p) ==
    \E keep \in SaveVersions : MaySave /\ Invoke(p, "backup", load_from_file, keep)

\* Commands with should_save = false.
read_command(p) == Invoke(p, "end", load_from_file, 0)

-----------------------------------------------------------------------------
(* save_with_version *)

Goto(p, step) == pc' = [pc EXCEPT ![p] = step]

\* fs::copy to "<file>.bak.<seconds>"; the one of the same second, if there is
\* one, is overwritten and becomes the newest.
copy_to_backup(content) ==
    LET at(i) == backups[i].name = now
        rest == IF \E i \in 1..Len(backups) : at(i)
                THEN RemoveAt(backups, CHOOSE i \in 1..Len(backups) : at(i))
                ELSE backups
    IN  Append(rest, [name |-> now, data |-> content])

\* Faulty variant: the store that is about to be saved is copied.
BackUpNew(p) ==
    /\ pc[p] = "backup"
    /\ IF file = None THEN Goto(p, "create") /\ backups' = backups
       ELSE Goto(p, "prune") /\ backups' = copy_to_backup(mem[p])
    /\ UNCHANGED <<file, temp, data, mem, versions, handle, aborts, now>>

BackUp(p) ==
    /\ pc[p] = "backup"
    /\ IF file = None THEN Goto(p, "create") /\ backups' = backups
       ELSE Goto(p, "prune") /\ backups' = copy_to_backup(data[file])
    /\ UNCHANGED <<file, temp, data, mem, versions, handle, aborts, now>>

\* Faulty variant: the newest ones go.
pruned_newest(n) == SubSeq(backups, 1, n)

\* The newest n backups.
pruned(n) == SubSeq(backups, Len(backups) - n + 1, Len(backups))

\* An error of one remove_file is ignored, and the next is tried: any of the
\* old ones may stay, in their order.
Prune(p) ==
    LET old == Len(backups) - versions[p]
    IN  /\ pc[p] = "prune"
        /\ Goto(p, "create")
        /\ IF old <= 0 THEN backups' = backups /\ aborts' = aborts
           ELSE \/ backups' = pruned(versions[p]) /\ aborts' = aborts
                \/ /\ aborts < MaxAborts /\ aborts' = aborts + 1
                   /\ \E m \in 1..old : \E left \in [1..m -> 1..old] :
                         /\ \A i, j \in 1..m : i < j => left[i] < left[j]
                         /\ backups' = [i \in 1..m |-> backups[left[i]]] \o pruned(versions[p])
        /\ UNCHANGED <<file, temp, data, mem, versions, handle, now>>

\* Faulty variant: the file itself is created anew and written.
CreateInPlace(p) ==
    LET inode == IF file = None THEN p ELSE file
    IN  /\ pc[p] = "create"
        /\ Goto(p, "write")
        /\ temp' = inode
        /\ data' = [data EXCEPT ![inode] = Empty]
        /\ handle' = [handle EXCEPT ![p] = inode]
        /\ UNCHANGED <<file, backups, mem, versions, aborts, now>>

\* File::create: a temporary file that is there already is truncated.
CreateTemp(p) ==
    LET inode == IF temp = None THEN p ELSE temp
    IN  /\ pc[p] = "create"
        /\ Goto(p, "write")
        /\ temp' = inode
        /\ data' = [data EXCEPT ![inode] = Empty]
        /\ handle' = [handle EXCEPT ![p] = inode]
        /\ UNCHANGED <<file, backups, mem, versions, aborts, now>>

\* Over what another process has written, the result may be a mixture.  The
\* writer is dropped without a flush, so an error of its last write is lost.
Written(p) ==
    {mem[p]}
    \cup (IF data[handle[p]] # Empty \/ FlushFails THEN {Torn} ELSE {})
    \cup (IF FlushFails THEN {data[handle[p]]} ELSE {})

WriteTemp(p) ==
    /\ pc[p] = "write"
    /\ Goto(p, "rename")
    /\ \E content \in Written(p) : data' = [data EXCEPT ![handle[p]] = content]
    /\ UNCHANGED <<file, temp, backups, mem, versions, handle, aborts, now>>

\* Another process may have taken the temporary file away.
Rename(p) ==
    /\ pc[p] = "rename"
    /\ IF temp = None THEN Goto(p, "failed") /\ file' = file ELSE Goto(p, "saved") /\ file' = temp
    /\ temp' = None
    /\ UNCHANGED <<data, backups, mem, versions, handle, aborts, now>>

\* The invocation ends without a word of failure.
Return(p) ==
    /\ pc[p] = "saved"
    /\ Goto(p, "end")
    /\ UNCHANGED <<disk, mem, versions, handle, aborts, now>>

\* A step fails and the save with it, or the process is killed on the way.  A
\* copy or a write may have got half way.
Abort(p) ==
    /\ Saving(p) /\ aborts < MaxAborts
    /\ aborts' = aborts + 1
    /\ Goto(p, "failed")
    /\ \/ backups' = backups
       \/ pc[p] = "backup" /\ file # None /\ backups' = copy_to_backup(Torn)
    /\ \/ data' = data
       \/ pc[p] = "write" /\ data' = [data EXCEPT ![handle[p]] = Torn]
    /\ UNCHANGED <<file, temp, mem, versions, handle, now>>

Tick ==
    /\ now < MaxNow
    /\ now' = now + 1
    /\ UNCHANGED <<disk, pc, mem, versions, handle, aborts>>

-----------------------------------------------------------------------------

Init ==
    /\ file = None /\ temp = None
    /\ data = [p \in Procs |-> Empty]
    /\ backups = <<>>
    /\ pc = [p \in Procs |-> "idle"]
    /\ mem = [p \in Procs |-> {}]
    /\ versions = [p \in Procs |-> 0]
    /\ handle = [p \in Procs |-> None]
    /\ aborts = 0 /\ now = 0

Command(p) == write_command(p) \/ refused_command(p) \/ save_command(p) \/ read_command(p)

Save(p) ==
    \/ BackUp(p) \/ Prune(p) \/ CreateTemp(p) \/ WriteTemp(p) \/ Rename(p) \/ Return(p)

Next == Tick \/ \E p \in Procs : Command(p) \/ Save(p) \/ Abort(p)

Spec == Init /\ [][Next]_vars

-----------------------------------------------------------------------------
(* Properties *)

Content == IF file = None THEN {} ELSE data[file]

Reported == {p \in Procs : pc[p] = "end" /\ p \in mem[p]}

AF == INSTANCE AtomicFile WITH
          Commands <- Procs, content <- Content, reported <- Reported

\* As long as saves do not overlap and the disk has room, whatever else fails
\* and whenever a process is killed, the file is one that AtomicFile describes: it
\* changes in one step from one complete store to the next, which adds one
\* command, and a command whose invocation ended well stays.
FileIsAtomic == AF!Spec

\* Whoever saves with at least one version, what the rename replaces is at that
\* moment the newest of the backups.
PreviousVersionKept ==
    [][\A p \in Procs :
        pc[p] = "rename" /\ pc'[p] = "saved" /\ file # None /\ versions[p] > 0 =>
            backups # <<>> /\ Last(backups).data = Content]_vars

\* The backups are earlier states of the file, in the order of their names, and
\* no older one has what a newer one lacks; one may be torn, if a copy was.
BackupsAreHistory ==
    LET good == {i \in 1..Len(backups) : backups[i].data # Torn}
    IN  /\ \A i, j \in 1..Len(backups) : i < j => backups[i].name < backups[j].name
        /\ \A i, j \in good : i < j => backups[i].data \subseteq backups[j].data
        /\ \A i \in good : backups[i].data \subseteq Content

-----------------------------------------------------------------------------
(* A statement of a comment that the code does not keep *)

\* save_with_version: "The file is written atomically (write temp -> rename)".
\* So what is under the path is a complete store at any time.
FileComplete == file # None => Parses(data[file])
=============================================================================
