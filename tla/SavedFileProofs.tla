-------------------------- MODULE SavedFileProofs ---------------------------
(***************************************************************************)
(* Proofs about SavedFile for any number of invocations, backups, aborts   *)
(* and clock values, while saves do not overlap and the disk has room      *)
(* (otherwise the file may be torn, as the run saved_file_docs shows): the *)
(* file implements AtomicFile, what a rename replaces is the newest        *)
(* backup, and the backups are the history of the file.                    *)
(***************************************************************************)
EXTENDS SavedFile, TLAPS

Stores == SUBSET Procs

Steps == {"idle", "backup", "prune", "create", "write", "rename", "saved", "end", "failed"}

\* Its invocation has created, or found, a temporary file.
Created(p) == pc[p] \in {"write", "rename", "saved", "end", "failed"}

Backups == [name : Nat, data : Stores \cup {Torn}]

TypeOK ==
    /\ file \in Procs \cup {None} /\ temp \in Procs \cup {None}
    /\ data \in [Procs -> Stores \cup {Empty, Torn}]
    /\ backups \in Seq(Backups)
    /\ pc \in [Procs -> Steps]
    /\ mem \in [Procs -> Stores]
    /\ versions \in [Procs -> Nat]
    /\ handle \in [Procs -> Procs \cup {None}]
    /\ aborts \in Nat /\ now \in Nat

\* One save at a time.
Alone == \A p, q \in Procs : Saving(p) /\ Saving(q) => p = q

\* The file is complete, no path but its own leads to it, and no inode is
\* created anew while a path leads to it.
Inodes ==
    /\ file # None => file # temp /\ data[file] \in Stores
    /\ \A p \in Procs : p \in {file, temp} => Created(p)

\* A command is in the file once its invocation has renamed, and not before.
Past == \A p \in Procs : p \in Content => pc[p] \in {"saved", "end", "failed"}

\* Before its rename an invocation has in memory what the file holds, with or
\* without its own command; after it, what the file holds.
Memory ==
    \A p \in Procs :
        /\ pc[p] \in {"backup", "prune", "create", "write", "rename"} =>
              mem[p] = Content \/ mem[p] = Content \cup {p}
        /\ pc[p] \in {"saved", "end"} /\ p \in mem[p] => p \in Content

\* The temporary file is the one the saving invocation has created.
Temporary ==
    \A p \in Procs :
        /\ pc[p] \in {"write", "rename"} => temp # None /\ handle[p] = temp
        /\ pc[p] = "write" => data[temp] = Empty
        /\ pc[p] = "rename" => data[temp] = mem[p]

\* No backup is from the future.
Dated == \A i \in 1..Len(backups) : backups[i].name <= now

Newest == backups # <<>> /\ backups[Len(backups)].data = Content

\* From the copy to the rename the file is the newest backup.
Copied ==
    \A p \in Procs :
        /\ pc[p] = "prune" => Newest
        /\ pc[p] \in {"create", "write", "rename"} /\ file # None /\ versions[p] > 0 => Newest

Inv ==
    /\ TypeOK /\ Alone /\ Inodes /\ Past /\ Memory /\ Temporary
    /\ Dated /\ BackupsAreHistory /\ Copied

-----------------------------------------------------------------------------
(* The operators *)

LEMMA ContentType ==
    ASSUME TypeOK, Inodes
    PROVE  Content \in Stores
BY DEF TypeOK, Inodes, Content, Stores

\* What load_from_file returns is what the file holds.
LEMMA Loaded ==
    ASSUME TypeOK, Inodes
    PROVE  load_from_file = Content
BY SavedFileAssumption DEF TypeOK, Inodes, Content, load_from_file, Parses, Stores

\* The backup of the same second is the newest one, so the copy takes its
\* place or is added: everything before it stays where it is.
LEMMA CopyFacts ==
    ASSUME TypeOK, Dated, BackupsAreHistory,
           NEW content \in Stores \cup {Torn}
    PROVE  LET copy == copy_to_backup(content)
           IN  /\ copy \in Seq(Backups) /\ Len(copy) \in Nat \ {0}
               /\ Len(copy) - 1 <= Len(backups)
               /\ copy[Len(copy)] = [name |-> now, data |-> content]
               /\ \A i \in 1..(Len(copy) - 1) : copy[i] = backups[i] /\ backups[i].name < now
<1> DEFINE at(i) == backups[i].name = now
           last == Len(backups)
           new == [name |-> now, data |-> content]
           rest == IF \E i \in 1..last : at(i)
                   THEN RemoveAt(backups, CHOOSE i \in 1..last : at(i))
                   ELSE backups
<1>1. backups \in Seq(Backups) /\ last \in Nat /\ now \in Nat /\ new \in Backups
  BY DEF TypeOK, Backups
<1>2. \A i \in 1..last : backups[i].name \in Nat /\ backups[i].name <= now
  <2>1. \A i \in 1..last : backups[i] \in Backups
    BY <1>1
  <2>2. QED BY <2>1 DEF Dated, Backups
<1>3. \A i, j \in 1..last : i < j => backups[i].name < backups[j].name
  BY DEF BackupsAreHistory
<1>4. copy_to_backup(content) = Append(rest, new)
  BY DEF copy_to_backup
<1>5. /\ rest \in Seq(Backups) /\ Len(rest) <= last
      /\ \A i \in 1..Len(rest) : rest[i] = backups[i] /\ backups[i].name < now
  <2>1. CASE \E i \in 1..last : at(i)
    <3>1. PICK k \in 1..last : at(k) /\ rest = RemoveAt(backups, k)
      BY <2>1
    <3>2. k = last
      BY <1>1, <1>2, <1>3, <3>1
    <3>3. RemoveAt(backups, k) = SubSeq(backups, 1, last - 1) \o SubSeq(backups, last + 1, last)
      BY <3>2, <1>1 DEF RemoveAt
    <3>4. SubSeq(backups, last + 1, last) = << >>
      BY <1>1
    <3>5. SubSeq(backups, 1, last - 1) \in Seq(Backups) /\ Len(SubSeq(backups, 1, last - 1)) = last - 1
          /\ \A i \in 1..(last - 1) : SubSeq(backups, 1, last - 1)[i] = backups[i]
      BY <1>1, <3>1, <3>2
    <3>6. rest = SubSeq(backups, 1, last - 1)
      BY <3>1, <3>3, <3>4, <3>5
    <3> HIDE DEF rest
    <3>7. Len(rest) = last - 1 /\ rest \in Seq(Backups)
          /\ \A i \in 1..(last - 1) : rest[i] = backups[i]
      BY <3>5, <3>6
    <3>8. \A i \in 1..(last - 1) : backups[i].name < now
      BY <1>1, <1>3, <3>1, <3>2
    <3>9. QED BY <1>1, <3>7, <3>8
  <2>2. CASE ~ \E i \in 1..last : at(i)
    BY <2>2, <1>1, <1>2
  <2>3. QED BY <2>1, <2>2
<1> HIDE DEF rest, new
<1>6. /\ Append(rest, new) \in Seq(Backups) /\ Len(Append(rest, new)) = Len(rest) + 1
      /\ Append(rest, new)[Len(rest) + 1] = new /\ Len(rest) \in Nat
      /\ \A i \in 1..Len(rest) : Append(rest, new)[i] = rest[i]
  BY <1>1, <1>5
<1>7. QED
  BY <1>1, <1>4, <1>5, <1>6 DEF new

-----------------------------------------------------------------------------
(* The invariant *)

LEMMA Start == Init => Inv
BY SavedFileAssumption
   DEF Init, Inv, TypeOK, Alone, Inodes, Past, Memory, Temporary, Dated, BackupsAreHistory,
       Copied, Content, Saving, Stores, Steps, Backups

\* Nobody else is saving.
LEMMA OthersRest ==
    ASSUME TypeOK, Alone, NEW p \in Procs, Saving(p), NEW q \in Procs, q # p
    PROVE  pc[q] \in {"idle", "end", "failed"}
BY DEF TypeOK, Alone, Saving, Steps

\* An action that leaves the paths alone, and the file's inode, leaves the file alone.
LEMMA SameContent ==
    ASSUME UNCHANGED file, file # None => data'[file] = data[file]
    PROVE  Content' = Content
BY DEF Content

\* What the backups say when neither they nor the file change.
LEMMA SameBackups ==
    ASSUME Dated, BackupsAreHistory, now \in Nat, now' \in Nat, now <= now',
           TypeOK, UNCHANGED backups, Content' = Content
    PROVE  Dated' /\ BackupsAreHistory' /\ (Newest => Newest')
<1>1. \A i \in 1..Len(backups) : backups[i] \in Backups
  BY DEF TypeOK
<1>2. \A i \in 1..Len(backups) : backups[i].name \in Nat
  BY <1>1 DEF Backups
<1>3. Dated'
  BY <1>2 DEF Dated
<1>4. BackupsAreHistory'
  BY DEF BackupsAreHistory
<1>5. QED BY <1>3, <1>4 DEF Newest

LEMMA InvokeKeeps ==
    ASSUME Inv, NEW p \in Procs, NEW todo \in {"backup", "end"}, NEW store, NEW keep \in Nat,
           Invoke(p, todo, store, keep),
           todo = "backup" => \A q \in Procs : ~Saving(q),
           store = Content \/ (store = Content \cup {p} /\ todo = "backup")
    PROVE  Inv'
<1> USE DEF Inv
<1>0. Content \in Stores
  BY ContentType
<1>1. /\ UNCHANGED <<file, temp, data, backups, handle, aborts, now>>
      /\ pc[p] = "idle" /\ pc' = [pc EXCEPT ![p] = todo] /\ mem' = [mem EXCEPT ![p] = store]
      /\ versions' = [versions EXCEPT ![p] = keep]
  BY DEF Invoke, disk
<1>2. TypeOK'
  BY <1>0, <1>1 DEF TypeOK, Stores, Steps
<1>3. pc'[p] = todo /\ \A q \in Procs : q # p => pc'[q] = pc[q] /\ mem'[q] = mem[q]
  BY <1>1 DEF TypeOK
<1>3a. mem'[p] = store
  BY <1>1 DEF TypeOK
<1>4. Content' = Content
  BY <1>1 DEF Content
<1>5. Alone'
  BY <1>3 DEF Alone, Saving
<1>6. Inodes'
  BY <1>1, <1>3 DEF Inodes, Created
<1>7. p \notin Content
  BY <1>1 DEF Past
<1>8. Past'
  BY <1>3, <1>4, <1>7 DEF Past
<1>9. Memory'
  BY <1>3, <1>3a, <1>4, <1>7 DEF Memory
<1>10. Temporary'
  BY <1>1, <1>3 DEF Temporary
<1>11. Dated' /\ BackupsAreHistory'
  BY <1>1, <1>2, <1>4, SameBackups DEF TypeOK
<1>12. Copied'
  <2>1. Newest' = Newest
    BY <1>1, <1>4 DEF Newest
  <2>2. \A q \in Procs : q # p => versions'[q] = versions[q]
    BY <1>1 DEF TypeOK
  <2>3. QED BY <1>1, <1>3, <2>1, <2>2 DEF Copied
<1>13. QED
  BY <1>2, <1>5, <1>6, <1>8, <1>9, <1>10, <1>11, <1>12

LEMMA CommandKeeps ==
    ASSUME Inv, ~Overlap, NEW p \in Procs, Command(p)
    PROVE  Inv'
<1>1. load_from_file = Content
  BY Loaded DEF Inv
<1>2. AutoVersions \in Nat /\ SaveVersions \subseteq Nat /\ 0 \in Nat
  BY SavedFileAssumption
<1>3. ASSUME MaySave PROVE \A q \in Procs : ~Saving(q)
  BY <1>3 DEF MaySave
<1>4. CASE write_command(p)
  BY <1>1, <1>2, <1>3, <1>4, InvokeKeeps DEF write_command
<1>5. CASE refused_command(p)
  BY <1>1, <1>2, <1>3, <1>5, InvokeKeeps DEF refused_command
<1>6. CASE save_command(p)
  BY <1>1, <1>2, <1>3, <1>6, InvokeKeeps DEF save_command
<1>7. CASE read_command(p)
  BY <1>1, <1>2, <1>7, InvokeKeeps DEF read_command
<1>8. QED BY <1>4, <1>5, <1>6, <1>7 DEF Command

\* A copy of the file, torn or not, joins the history of the file.
LEMMA CopyKeeps ==
    ASSUME Inv, NEW content \in {Content, Torn}, file # None,
           UNCHANGED <<file, data, now>>, backups' = copy_to_backup(content)
    PROVE  Dated' /\ BackupsAreHistory' /\ (content = Content => Newest')
<1> USE DEF Inv
<1> DEFINE last == Len(backups')
<1>1. Content \in Stores /\ Content' = Content
  BY ContentType, SameContent
<1>2. /\ backups' \in Seq(Backups) /\ last \in Nat \ {0}
      /\ last - 1 <= Len(backups) /\ Len(backups) \in Nat
      /\ backups'[last] = [name |-> now, data |-> content]
      /\ \A i \in 1..(last - 1) : backups'[i] = backups[i] /\ backups[i].name < now
  BY <1>1, CopyFacts DEF TypeOK
<1>3. \A i \in 1..Len(backups) : backups[i] \in Backups
  BY DEF TypeOK
<1>4. now \in Nat /\ \A i \in 1..Len(backups) : backups[i].name \in Nat
  BY <1>3 DEF Backups, TypeOK
<1> HIDE DEF last
<1>5. \A i \in 1..last : i = last \/ (i \in 1..(last - 1) /\ i \in 1..Len(backups))
  BY <1>2
<1>6. backups'[last].name = now /\ backups'[last].data = content
  BY <1>2
<1>7. \A i \in 1..last : backups'[i].name <= now
  BY <1>2, <1>4, <1>5, <1>6
<1>8. Dated'
  BY <1>7 DEF Dated, last
<1>9. \A i, j \in 1..last : i < j => backups'[i].name < backups'[j].name
  <2>1. TAKE i, j \in 1..last
  <2>2. HAVE i < j
  <2>3. i \in 1..(last - 1) /\ i \in 1..Len(backups)
    BY <2>2, <1>2, <1>5
  <2>4. CASE j = last
    BY <2>3, <2>4, <1>2, <1>6
  <2>5. CASE j # last
    BY <2>2, <2>3, <2>5, <1>2, <1>5 DEF BackupsAreHistory
  <2>6. QED BY <2>4, <2>5
<1>10. ASSUME NEW i \in 1..last, backups'[i].data # Torn
       PROVE  backups'[i].data \subseteq Content
  <2>1. CASE i = last
    BY <2>1, <1>6, <1>10
  <2>2. CASE i # last
    BY <2>2, <1>2, <1>5, <1>10 DEF BackupsAreHistory
  <2>3. QED BY <2>1, <2>2
<1>11. ASSUME NEW i \in 1..last, NEW j \in 1..last, i < j,
              backups'[i].data # Torn, backups'[j].data # Torn
       PROVE  backups'[i].data \subseteq backups'[j].data
  <2>1. i \in 1..(last - 1) /\ i \in 1..Len(backups)
    BY <1>2, <1>5, <1>11
  <2>2. CASE j = last
    BY <2>2, <1>6, <1>10, <1>11
  <2>3. CASE j # last
    BY <2>1, <2>3, <1>2, <1>5, <1>11 DEF BackupsAreHistory
  <2>4. QED BY <2>2, <2>3
<1>12. BackupsAreHistory'
  BY <1>1, <1>9, <1>10, <1>11 DEF BackupsAreHistory, last
<1>13. content = Content => Newest'
  BY <1>1, <1>2, <1>6 DEF Newest, last
<1>14. QED BY <1>8, <1>12, <1>13

LEMMA BackUpKeeps ==
    ASSUME Inv, NEW p \in Procs, BackUp(p)
    PROVE  Inv'
<1> USE DEF Inv
<1>1. /\ pc[p] = "backup" /\ Saving(p)
      /\ UNCHANGED <<file, temp, data, mem, versions, handle, aborts, now>>
  BY DEF BackUp, Saving
<1>2. PICK to \in {"create", "prune"} :
         /\ pc' = [pc EXCEPT ![p] = to]
         /\ to = "create" => file = None /\ backups' = backups
         /\ to = "prune" => file # None /\ backups' = copy_to_backup(data[file])
  BY DEF BackUp, Goto
<1>3. pc'[p] = to /\ \A q \in Procs : q # p => pc'[q] = pc[q]
  BY <1>2 DEF TypeOK
<1>4. Content' = Content /\ Content \in Stores /\ now \in Nat
  BY <1>1, SameContent, ContentType DEF TypeOK
<1>5. Dated' /\ BackupsAreHistory' /\ (to = "prune" => Newest')
  <2>1. CASE to = "create"
    BY <2>1, <1>1, <1>2, <1>4, SameBackups
  <2>2. CASE to = "prune"
    <3>1. data[file] = Content
      BY <2>2, <1>2 DEF Content
    <3>2. QED BY <2>2, <3>1, <1>1, <1>2, CopyKeeps
  <2>3. QED BY <2>1, <2>2
<1>6. backups' \in Seq(Backups)
  <2>1. CASE to = "create"
    BY <2>1, <1>2 DEF TypeOK
  <2>2. CASE to = "prune"
    BY <2>2, <1>2, <1>4, CopyFacts DEF Content
  <2>3. QED BY <2>1, <2>2
<1>7. TypeOK'
  BY <1>1, <1>2, <1>6 DEF TypeOK, Steps
<1>8. \A q \in Procs : q # p => pc[q] \in {"idle", "end", "failed"}
  BY <1>1, OthersRest
<1>9. Alone'
  BY <1>3, <1>8 DEF Alone, Saving
<1>10. Inodes'
  BY <1>1, <1>3 DEF Inodes, Created
<1>11. Past'
  BY <1>1, <1>3, <1>4 DEF Past
<1>12. Memory'
  BY <1>1, <1>3, <1>4 DEF Memory
<1>13. Temporary'
  BY <1>1, <1>3 DEF Temporary
<1>14. Copied'
  BY <1>1, <1>2, <1>3, <1>5, <1>8 DEF Copied
<1>15. QED BY <1>5, <1>7, <1>9, <1>10, <1>11, <1>12, <1>13, <1>14

\* From the old list to the new one: h[i] is the place the i-th had before.
Selects(h, m) ==
    /\ h \in [1..m -> 1..Len(backups)]
    /\ \A i, j \in 1..m : i < j => h[i] < h[j]
    /\ backups' \in Seq(Backups) /\ Len(backups') = m
    /\ \A i \in 1..m : backups'[i] = backups[h[i]]

\* What is left of the backups keeps its order; if the newest is left, it stays
\* the newest.
LEMMA PruneFacts ==
    ASSUME Inv, NEW m \in Nat, NEW h, Selects(h, m), UNCHANGED <<file, data, now>>
    PROVE  /\ Dated' /\ BackupsAreHistory'
           /\ (Newest /\ m > 0 /\ h[m] = Len(backups) => Newest')
<1> USE DEF Inv
<1>1. backups \in Seq(Backups) /\ Len(backups) \in Nat /\ now \in Nat
  BY DEF TypeOK
<1>2. /\ \A i \in 1..m : h[i] \in 1..Len(backups) /\ backups'[i] = backups[h[i]]
      /\ \A i, j \in 1..m : i < j => h[i] < h[j]
      /\ Len(backups') = m
  BY DEF Selects
<1>3. Content' = Content
  BY SameContent
<1>4. Dated'
  BY <1>2 DEF Dated
<1>5. BackupsAreHistory'
  <2>1. \A i, j \in 1..m : i < j => backups'[i].name < backups'[j].name
    BY <1>2 DEF BackupsAreHistory
  <2>2. ASSUME NEW i \in 1..m, NEW j \in 1..m, i < j,
               backups'[i].data # Torn, backups'[j].data # Torn
        PROVE  backups'[i].data \subseteq backups'[j].data
    <3>1. PICK a \in 1..Len(backups), b \in 1..Len(backups) : a = h[i] /\ b = h[j]
      BY <1>2
    <3>2. a < b /\ backups'[i] = backups[a] /\ backups'[j] = backups[b]
      BY <2>2, <3>1, <1>2
    <3>3. backups[a].data \subseteq backups[b].data
      BY <2>2, <3>2 DEF BackupsAreHistory
    <3>4. QED BY <3>2, <3>3
  <2>3. ASSUME NEW i \in 1..m, backups'[i].data # Torn
        PROVE  backups'[i].data \subseteq Content
    BY <2>3, <1>2 DEF BackupsAreHistory
  <2>4. QED BY <1>2, <1>3, <2>1, <2>2, <2>3 DEF BackupsAreHistory
<1>6. Newest /\ m > 0 /\ h[m] = Len(backups) => Newest'
  <2>1. m > 0 => m \in 1..m /\ backups' # << >>
    BY <1>2
  <2>2. QED BY <2>1, <1>2, <1>3 DEF Newest
<1>7. QED BY <1>4, <1>5, <1>6

\* The newest n backups, by themselves.
LEMMA PrunedFacts ==
    ASSUME Inv, NEW n \in Nat, n < Len(backups)
    PROVE  /\ pruned(n) \in Seq(Backups) /\ Len(pruned(n)) = n
           /\ \A i \in 1..n : pruned(n)[i] = backups[Len(backups) - n + i]
<1> DEFINE cut == Len(backups) - n
<1>1. backups \in Seq(Backups) /\ Len(backups) \in Nat /\ cut \in Nat
  BY DEF Inv, TypeOK
<1>2. pruned(n) = SubSeq(backups, cut + 1, Len(backups))
  BY DEF pruned
<1>3. Len(backups) - (cut + 1) + 1 = n
  BY <1>1
<1>4. \A i \in 1..n : cut + 1 + i - 1 = cut + i
  BY <1>1
<1> HIDE DEF cut
<1>5. /\ pruned(n) \in Seq(Backups) /\ Len(pruned(n)) = n
      /\ \A i \in 1..n : pruned(n)[i] = backups[cut + i]
  BY <1>1, <1>2, <1>3, <1>4
<1>6. QED BY <1>5 DEF cut

\* The pruning leaves the newest n, and the m old ones whose removal failed.
Stay(n, m, left) ==
    /\ n < Len(backups)
    /\ left \in [1..m -> 1..(Len(backups) - n)]
    /\ \A i, j \in 1..m : i < j => left[i] < left[j]
    /\ backups' = [i \in 1..m |-> backups[left[i]]] \o pruned(n)

LEMMA PruneSelects ==
    ASSUME Inv, NEW n \in Nat, NEW m \in Nat, NEW left, Stay(n, m, left)
    PROVE  \E h : Selects(h, m + n) /\ (n > 0 => h[m + n] = Len(backups))
<1>1. PICK len \in Nat : len = Len(backups)
  BY DEF Inv, TypeOK
<1>2. PICK old \in Nat : old = len - n
  <2>1. n < len
    BY <1>1 DEF Stay
  <2>2. len - n \in Nat
    BY <2>1
  <2>3. QED BY <2>2
<1> DEFINE g == [i \in 1..m |-> backups[left[i]]]
           h == [i \in 1..(m + n) |-> IF i <= m THEN left[i] ELSE old + (i - m)]
<1>3. backups \in Seq(Backups) /\ left \in [1..m -> 1..old]
  BY <1>1, <1>2 DEF Inv, TypeOK, Stay
<1>4. \A i \in 1..m : left[i] \in 1..old /\ left[i] \in 1..len
  BY <1>2, <1>3
<1>5. g \in Seq(Backups) /\ Len(g) = m /\ \A i \in 1..m : g[i] = backups[left[i]]
  <2>1. \A i \in 1..m : backups[left[i]] \in Backups
    BY <1>1, <1>3, <1>4
  <2>2. QED BY <2>1
<1>6. /\ pruned(n) \in Seq(Backups) /\ Len(pruned(n)) = n
      /\ \A i \in 1..n : pruned(n)[i] = backups[old + i]
  BY <1>1, <1>2, PrunedFacts DEF Stay
<1>7. PICK tail \in Seq(Backups) : tail = pruned(n)
  BY <1>6
<1>8. backups' = g \o tail
  BY <1>7 DEF Stay
<1>8a. \A i, j \in 1..m : i < j => left[i] < left[j]
  BY DEF Stay
<1> HIDE DEF g, h
<1>9. /\ backups' \in Seq(Backups) /\ Len(backups') = m + n
      /\ \A i \in 1..m : backups'[i] = g[i]
      /\ \A i \in (m + 1)..(m + n) : backups'[i] = tail[i - m]
  <2>1. Len(tail) = n
    BY <1>6, <1>7
  <2>2. PICK kept \in Seq(Backups) : kept = g
    BY <1>5
  <2>3. tail \in Seq(Backups) /\ kept \in Seq(Backups) /\ Len(kept) = m
    BY <1>5, <1>7, <2>2
  <2>4. kept \o tail \in Seq(Backups)
    BY <2>3
  <2>5. Len(kept \o tail) = m + n
    BY <2>1, <2>3
  <2>6. \A i \in 1..m : (kept \o tail)[i] = kept[i]
    BY <2>1, <2>3
  <2>7. \A i \in (m + 1)..(m + n) : (kept \o tail)[i] = tail[i - m]
    BY <2>1, <2>3
  <2> QED BY <1>8, <2>2, <2>4, <2>5, <2>6, <2>7, Zenon
<1> USE DEF h
<1>10. \A i \in 1..(m + n) : (i \in 1..m /\ i <= m) \/ (i \in (m + 1)..(m + n) /\ i - m \in 1..n /\ ~(i <= m))
  OBVIOUS
<1>11. \A i \in 1..(m + n) : h[i] \in 1..len /\ backups'[i] = backups[h[i]]
  BY <1>2, <1>4, <1>5, <1>6, <1>7, <1>9, <1>10
<1>12. \A i, j \in 1..(m + n) : i < j => h[i] < h[j]
  <2>1. TAKE i, j \in 1..(m + n)
  <2>2. HAVE i < j
  <2>3. CASE j <= m
    BY <2>2, <2>3, <1>10, <1>8a
  <2>4. CASE i <= m /\ ~(j <= m)
    <3>1. left[i] <= old /\ j - m >= 1 /\ left[i] \in Nat
      BY <2>4, <1>4, <1>10
    <3>2. QED BY <2>4, <3>1
  <2>5. CASE ~(i <= m)
    BY <2>2, <2>5
  <2>6. QED BY <2>2, <2>3, <2>4, <2>5
<1>13. n > 0 => h[m + n] = Len(backups)
  BY <1>1, <1>2
<1>14. h \in [1..(m + n) -> 1..Len(backups)]
  BY <1>1, <1>11
<1> HIDE DEF h
<1>15. QED BY <1>1, <1>9, <1>11, <1>12, <1>13, <1>14 DEF Selects

LEMMA PruneKeeps ==
    ASSUME Inv, NEW p \in Procs, Prune(p)
    PROVE  Inv'
<1> USE DEF Inv
<1>1. /\ pc[p] = "prune" /\ Saving(p) /\ pc' = [pc EXCEPT ![p] = "create"]
      /\ UNCHANGED <<file, temp, data, mem, versions, handle, now>>
      /\ aborts' \in {aborts, aborts + 1}
  BY DEF Prune, Saving, Goto
<1>2. versions[p] \in Nat /\ Len(backups) \in Nat /\ now \in Nat /\ aborts \in Nat
  BY DEF TypeOK
<1>3. \/ backups' = backups
      \/ versions[p] < Len(backups) /\ backups' = pruned(versions[p])
      \/ /\ versions[p] < Len(backups)
         /\ \E m \in Nat : \E left \in [1..m -> 1..(Len(backups) - versions[p])] :
               /\ \A i, j \in 1..m : i < j => left[i] < left[j]
               /\ backups' = [i \in 1..m |-> backups[left[i]]] \o pruned(versions[p])
  <2>1. CASE Len(backups) - versions[p] <= 0
    BY <1>2, <2>1 DEF Prune
  <2>2. CASE ~(Len(backups) - versions[p] <= 0) /\ backups' = pruned(versions[p])
    BY <1>2, <2>2
  <2>3. CASE /\ ~(Len(backups) - versions[p] <= 0)
             /\ \E m \in 1..(Len(backups) - versions[p]) :
                  \E left \in [1..m -> 1..(Len(backups) - versions[p])] :
                    /\ \A i, j \in 1..m : i < j => left[i] < left[j]
                    /\ backups' = [i \in 1..m |-> backups[left[i]]] \o pruned(versions[p])
    <3>1. versions[p] < Len(backups)
      BY <1>2, <2>3
    <3>2. \A m \in 1..(Len(backups) - versions[p]) : m \in Nat
      BY <1>2
    <3>3. QED BY <2>3, <3>1, <3>2, Zenon
  <2>4. QED BY <2>1, <2>2, <2>3 DEF Prune
<1>4. pc'[p] = "create" /\ \A q \in Procs : q # p => pc'[q] = pc[q]
  BY <1>1 DEF TypeOK
<1>5. Content' = Content
  BY <1>1, SameContent
<1>6. backups' \in Seq(Backups) /\ Dated' /\ BackupsAreHistory'
      /\ (Newest /\ versions[p] > 0 => Newest')
  <2>1. CASE backups' = backups
    BY <2>1, <1>1, <1>2, <1>5, SameBackups DEF TypeOK
  <2>2. CASE versions[p] < Len(backups) /\ backups' = pruned(versions[p])
    <3>1. PICK n \in Nat, len \in Nat : n = versions[p] /\ len = Len(backups)
      BY <1>2
    <3>2. PICK h : h = [i \in 1..n |-> len - n + i]
      OBVIOUS
    <3>3. \A i \in 1..n : h[i] \in 1..len /\ h[i] = len - n + i
      BY <2>2, <3>1, <3>2
    <3>4. /\ backups' \in Seq(Backups) /\ Len(backups') = n
          /\ \A i \in 1..n : backups'[i] = backups[len - n + i]
      BY <2>2, <3>1, PrunedFacts
    <3>5. h \in [1..n -> 1..len] /\ \A i, j \in 1..n : i < j => h[i] < h[j]
      BY <3>2, <3>3
    <3>6. Selects(h, n)
      BY <3>1, <3>3, <3>4, <3>5 DEF Selects
    <3>7. n > 0 => h[n] = len
      BY <3>1, <3>2
    <3>8. QED BY <1>1, <3>1, <3>7, <3>6, PruneFacts DEF Selects
  <2>3. CASE /\ versions[p] < Len(backups)
             /\ \E m \in Nat : \E left \in [1..m -> 1..(Len(backups) - versions[p])] :
                   /\ \A i, j \in 1..m : i < j => left[i] < left[j]
                   /\ backups' = [i \in 1..m |-> backups[left[i]]] \o pruned(versions[p])
    <3>1. PICK n \in Nat : n = versions[p]
      BY <1>2
    <3>2. PICK m \in Nat : \E left \in [1..m -> 1..(Len(backups) - n)] :
                   /\ \A i, j \in 1..m : i < j => left[i] < left[j]
                   /\ backups' = [i \in 1..m |-> backups[left[i]]] \o pruned(n)
      BY <2>3, <3>1
    <3>2a. PICK left : Stay(n, m, left)
      BY <2>3, <3>1, <3>2 DEF Stay
    <3>3. PICK h : Selects(h, m + n) /\ (n > 0 => h[m + n] = Len(backups))
      BY <3>2a, PruneSelects
    <3>4. m + n \in Nat /\ (n > 0 => m + n > 0)
      OBVIOUS
    <3>5. QED BY <1>1, <3>1, <3>3, <3>4, PruneFacts DEF Selects
  <2>4. QED BY <1>3, <2>1, <2>2, <2>3
<1>7. TypeOK'
  BY <1>1, <1>2, <1>6 DEF TypeOK, Steps
<1>8. \A q \in Procs : q # p => pc[q] \in {"idle", "end", "failed"}
  BY <1>1, OthersRest
<1>9. Alone'
  BY <1>4, <1>8 DEF Alone, Saving
<1>10. Inodes'
  BY <1>1, <1>4 DEF Inodes, Created
<1>11. Past'
  BY <1>1, <1>4, <1>5 DEF Past
<1>12. Memory'
  BY <1>1, <1>4, <1>5 DEF Memory
<1>13. Temporary'
  BY <1>1, <1>4 DEF Temporary
<1>14. Copied'
  BY <1>1, <1>4, <1>6, <1>8 DEF Copied
<1>15. QED BY <1>6, <1>7, <1>9, <1>10, <1>11, <1>12, <1>13, <1>14

\* The inode that is truncated is not the file's.
LEMMA CreateTempKeeps ==
    ASSUME Inv, NEW p \in Procs, CreateTemp(p)
    PROVE  Inv'
<1> USE DEF Inv
<1>1. PICK inode : /\ inode = (IF temp = None THEN p ELSE temp)
                   /\ pc[p] = "create" /\ pc' = [pc EXCEPT ![p] = "write"]
                   /\ temp' = inode /\ data' = [data EXCEPT ![inode] = Empty]
                   /\ handle' = [handle EXCEPT ![p] = inode]
                   /\ UNCHANGED <<file, backups, mem, versions, aborts, now>>
  BY DEF CreateTemp, Goto
<1>2. inode \in Procs /\ inode # None
  BY <1>1, SavedFileAssumption DEF TypeOK
<1>3. inode # file
  BY <1>1, <1>2 DEF Inodes, Created, TypeOK
<1>4. pc'[p] = "write" /\ \A q \in Procs : q # p => pc'[q] = pc[q]
  BY <1>1 DEF TypeOK
<1>5. data'[inode] = Empty /\ (file # None => data'[file] = data[file]) /\ handle'[p] = inode
  BY <1>1, <1>2, <1>3 DEF TypeOK
<1>6. Content' = Content /\ now \in Nat
  BY <1>1, <1>5, SameContent DEF TypeOK
<1>7. TypeOK'
  BY <1>1, <1>2 DEF TypeOK, Steps
<1>8. Saving(p)
  BY <1>1 DEF Saving
<1>9. \A q \in Procs : q # p => pc[q] \in {"idle", "end", "failed"}
  BY <1>8, OthersRest
<1>10. Alone'
  BY <1>4, <1>9 DEF Alone, Saving
<1>11. Inodes'
  BY <1>1, <1>3, <1>4, <1>5 DEF Inodes, Created
<1>12. Past'
  BY <1>1, <1>4, <1>6 DEF Past
<1>13. Memory'
  BY <1>1, <1>4, <1>6 DEF Memory
<1>14. Temporary'
  BY <1>1, <1>2, <1>4, <1>5, <1>9 DEF Temporary
<1>15. Dated' /\ BackupsAreHistory' /\ (Newest => Newest')
  BY <1>1, <1>6, SameBackups
<1>16. Copied'
  BY <1>1, <1>4, <1>9, <1>15 DEF Copied
<1>17. QED BY <1>7, <1>10, <1>11, <1>12, <1>13, <1>14, <1>15, <1>16

\* Into an inode that is empty, and with room on the disk, the whole store is written.
LEMMA WriteTempKeeps ==
    ASSUME Inv, ~FlushFails, NEW p \in Procs, WriteTemp(p)
    PROVE  Inv'
<1> USE DEF Inv
<1>1. /\ pc[p] = "write" /\ pc' = [pc EXCEPT ![p] = "rename"]
      /\ UNCHANGED <<file, temp, backups, mem, versions, handle, aborts, now>>
      /\ \E content \in Written(p) : data' = [data EXCEPT ![handle[p]] = content]
  BY DEF WriteTemp, Goto
<1>2. temp \in Procs /\ handle[p] = temp /\ data[temp] = Empty /\ temp # None
  BY <1>1 DEF Temporary, TypeOK
<1>3. Written(p) = {mem[p]}
  BY <1>2 DEF Written
<1>4. data' = [data EXCEPT ![temp] = mem[p]] /\ mem[p] \in Stores
  BY <1>1, <1>2, <1>3 DEF TypeOK
<1>5. temp # file
  BY <1>2 DEF Inodes
<1>6. pc'[p] = "rename" /\ \A q \in Procs : q # p => pc'[q] = pc[q]
  BY <1>1 DEF TypeOK
<1>7. data'[temp] = mem[p] /\ (file # None => data'[file] = data[file])
  BY <1>2, <1>4, <1>5 DEF TypeOK
<1>8. Content' = Content /\ now \in Nat
  BY <1>1, <1>7, SameContent DEF TypeOK
<1>9. TypeOK'
  BY <1>1, <1>2, <1>4 DEF TypeOK, Steps
<1>10. Saving(p)
  BY <1>1 DEF Saving
<1>11. \A q \in Procs : q # p => pc[q] \in {"idle", "end", "failed"}
  BY <1>10, OthersRest
<1>12. Alone'
  BY <1>6, <1>11 DEF Alone, Saving
<1>13. Inodes'
  BY <1>1, <1>6, <1>7 DEF Inodes, Created
<1>14. Past'
  BY <1>1, <1>6, <1>8 DEF Past
<1>15. Memory'
  BY <1>1, <1>6, <1>8 DEF Memory
<1>16. Temporary'
  BY <1>1, <1>2, <1>6, <1>7, <1>11 DEF Temporary
<1>17. Dated' /\ BackupsAreHistory' /\ (Newest => Newest')
  BY <1>1, <1>8, SameBackups
<1>18. Copied'
  BY <1>1, <1>6, <1>11, <1>17 DEF Copied
<1>19. QED BY <1>9, <1>12, <1>13, <1>14, <1>15, <1>16, <1>17, <1>18

\* The rename puts the store in memory in the place of the file.
LEMMA RenameFacts ==
    ASSUME Inv, NEW p \in Procs, Rename(p)
    PROVE  /\ pc[p] = "rename" /\ pc' = [pc EXCEPT ![p] = "saved"]
           /\ temp \in Procs /\ file' = temp /\ temp' = None /\ file' # None
           /\ UNCHANGED <<data, backups, mem, versions, handle, aborts, now>>
           /\ Content' = mem[p] /\ (mem[p] = Content \/ mem[p] = Content \cup {p})
<1> USE DEF Inv
<1>1. pc[p] = "rename" /\ temp # None /\ temp \in Procs
  BY DEF Rename, Temporary, TypeOK
<1>2. /\ pc' = [pc EXCEPT ![p] = "saved"] /\ file' = temp /\ temp' = None
      /\ UNCHANGED <<data, backups, mem, versions, handle, aborts, now>>
  BY <1>1 DEF Rename, Goto
<1>3. Content' = data[temp] /\ data[temp] = mem[p]
  BY <1>1, <1>2 DEF Content, Temporary
<1>4. mem[p] = Content \/ mem[p] = Content \cup {p}
  BY <1>1 DEF Memory
<1>5. QED BY <1>1, <1>2, <1>3, <1>4

LEMMA RenameKeeps ==
    ASSUME Inv, NEW p \in Procs, Rename(p)
    PROVE  Inv'
<1> USE DEF Inv
<1>1. /\ pc[p] = "rename" /\ pc' = [pc EXCEPT ![p] = "saved"]
      /\ temp \in Procs /\ file' = temp /\ temp' = None /\ file' # None
      /\ UNCHANGED <<data, backups, mem, versions, handle, aborts, now>>
      /\ Content' = mem[p] /\ (mem[p] = Content \/ mem[p] = Content \cup {p})
  BY RenameFacts
<1>2. pc'[p] = "saved" /\ \A q \in Procs : q # p => pc'[q] = pc[q]
  BY <1>1 DEF TypeOK
<1>3. TypeOK'
  BY <1>1 DEF TypeOK, Steps
<1>4. Saving(p)
  BY <1>1 DEF Saving
<1>5. \A q \in Procs : q # p => pc[q] \in {"idle", "end", "failed"}
  BY <1>4, OthersRest
<1>6. Alone'
  BY <1>2, <1>5 DEF Alone, Saving
<1>7. Inodes'
  <2>1. data'[file'] \in Stores
    BY <1>1 DEF TypeOK, Temporary
  <2>2. QED BY <2>1, <1>1, <1>2, SavedFileAssumption DEF Inodes, Created
<1>8. Past'
  BY <1>1, <1>2 DEF Past
<1>9. Memory'
  BY <1>1, <1>2, <1>5 DEF Memory
<1>10. Temporary'
  BY <1>2, <1>5 DEF Temporary
<1>11. Dated'
  BY <1>1 DEF Dated
<1>12. BackupsAreHistory'
  <2>1. Content \subseteq Content'
    BY <1>1
  <2>2. QED BY <1>1, <2>1 DEF BackupsAreHistory
<1>13. Copied'
  BY <1>2, <1>5 DEF Copied
<1>14. QED BY <1>3, <1>6, <1>7, <1>8, <1>9, <1>10, <1>11, <1>12, <1>13

LEMMA ReturnKeeps ==
    ASSUME Inv, NEW p \in Procs, Return(p)
    PROVE  Inv'
<1> USE DEF Inv
<1>1. /\ pc[p] = "saved" /\ pc' = [pc EXCEPT ![p] = "end"]
      /\ UNCHANGED <<file, temp, data, backups, mem, versions, handle, aborts, now>>
  BY DEF Return, Goto, disk
<1>2. pc'[p] = "end" /\ \A q \in Procs : q # p => pc'[q] = pc[q]
  BY <1>1 DEF TypeOK
<1>3. Content' = Content /\ now \in Nat
  BY <1>1, SameContent DEF TypeOK
<1>4. TypeOK'
  BY <1>1 DEF TypeOK, Steps
<1>5. Alone'
  BY <1>2 DEF Alone, Saving
<1>6. Inodes'
  BY <1>1, <1>2 DEF Inodes, Created
<1>7. Past'
  BY <1>2, <1>3 DEF Past
<1>8. Memory'
  BY <1>1, <1>2, <1>3 DEF Memory
<1>9. Temporary'
  BY <1>1, <1>2 DEF Temporary
<1>10. Dated' /\ BackupsAreHistory' /\ (Newest => Newest')
  BY <1>1, <1>3, SameBackups
<1>11. Copied'
  BY <1>1, <1>2, <1>10 DEF Copied
<1>12. QED BY <1>4, <1>5, <1>6, <1>7, <1>8, <1>9, <1>10, <1>11

\* An invocation that fails leaves a torn backup or a torn temporary file at
\* the worst, never a torn file.
LEMMA AbortKeeps ==
    ASSUME Inv, NEW p \in Procs, Abort(p)
    PROVE  Inv'
<1> USE DEF Inv
<1>1. /\ Saving(p) /\ pc' = [pc EXCEPT ![p] = "failed"] /\ aborts' = aborts + 1
      /\ UNCHANGED <<file, temp, mem, versions, handle, now>>
      /\ backups' = backups \/ (file # None /\ backups' = copy_to_backup(Torn))
      /\ data' = data \/ (pc[p] = "write" /\ data' = [data EXCEPT ![handle[p]] = Torn])
      /\ backups' = backups \/ data' = data
  BY DEF Abort, Goto
<1>2. pc'[p] = "failed" /\ \A q \in Procs : q # p => pc'[q] = pc[q]
  BY <1>1 DEF TypeOK
<1>3. \A q \in Procs : q # p => pc[q] \in {"idle", "end", "failed"}
  BY <1>1, OthersRest
<1>4. data' \in [Procs -> Stores \cup {Empty, Torn}] /\ (file # None => data'[file] = data[file])
  <2>1. CASE data' = data
    BY <2>1 DEF TypeOK
  <2>2. CASE pc[p] = "write" /\ data' = [data EXCEPT ![handle[p]] = Torn]
    <3>1. handle[p] = temp /\ temp \in Procs /\ (file # None => temp # file)
      BY <2>2 DEF Temporary, Inodes, TypeOK
    <3>2. QED BY <2>2, <3>1 DEF TypeOK
  <2>3. QED BY <1>1, <2>1, <2>2
<1>5. Content' = Content /\ now \in Nat /\ now' = now
  BY <1>1, <1>4, SameContent DEF TypeOK
<1>6. backups' \in Seq(Backups) /\ Dated' /\ BackupsAreHistory'
  <2>1. CASE backups' = backups
    BY <2>1, <1>5, SameBackups DEF TypeOK
  <2>2. CASE backups' # backups
    <3>1. file # None /\ backups' = copy_to_backup(Torn) /\ data' = data
      BY <2>2, <1>1
    <3>2. QED BY <3>1, <1>1, CopyFacts, CopyKeeps
  <2>3. QED BY <2>1, <2>2
<1>7. TypeOK'
  <2>1. pc' \in [Procs -> Steps] /\ aborts' \in Nat
    BY <1>1 DEF TypeOK, Steps
  <2>2. UNCHANGED <<file, temp, mem, versions, handle, now>>
    BY <1>1
  <2>3. QED BY <2>1, <2>2, <1>4, <1>6 DEF TypeOK
<1>8. Alone'
  BY <1>2, <1>3 DEF Alone, Saving
<1>9. Inodes'
  BY <1>1, <1>2, <1>4 DEF Inodes, Created
<1>10. Past'
  BY <1>2, <1>5 DEF Past
<1>11. Memory'
  BY <1>1, <1>2, <1>3, <1>5 DEF Memory
<1>12. Temporary'
  BY <1>2, <1>3 DEF Temporary
<1>13. Copied'
  BY <1>2, <1>3 DEF Copied
<1>14. QED BY <1>6, <1>7, <1>8, <1>9, <1>10, <1>11, <1>12, <1>13

LEMMA TickKeeps ==
    ASSUME Inv, Tick
    PROVE  Inv'
<1> USE DEF Inv
<1>1. /\ UNCHANGED <<file, temp, data, backups, pc, mem, versions, handle, aborts>>
      /\ now \in Nat /\ now' = now + 1
  BY DEF Tick, disk, TypeOK
<1>2. Content' = Content
  BY <1>1, SameContent
<1>3. Dated' /\ BackupsAreHistory' /\ (Newest => Newest')
  BY <1>1, <1>2, SameBackups
<1>4. TypeOK' /\ Alone' /\ Inodes' /\ Past' /\ Temporary'
  BY <1>1, <1>2 DEF TypeOK, Alone, Saving, Inodes, Created, Past, Temporary
<1>5. Memory'
  BY <1>1, <1>2 DEF Memory
<1>6. Copied'
  BY <1>1, <1>3 DEF Copied
<1>7. QED BY <1>3, <1>4, <1>5, <1>6

LEMMA StutterKeeps ==
    ASSUME Inv, UNCHANGED vars
    PROVE  Inv'
BY DEF Inv, vars, disk, TypeOK, Alone, Saving, Inodes, Created, Past, Memory, Temporary, Dated,
       BackupsAreHistory, Copied, Newest, Content

LEMMA Step ==
    ASSUME Inv, ~Overlap, ~FlushFails, [Next]_vars
    PROVE  Inv'
<1>1. CASE Tick
  BY <1>1, TickKeeps
<1>2. ASSUME NEW p \in Procs, Command(p) PROVE Inv'
  BY <1>2, CommandKeeps
<1>3. ASSUME NEW p \in Procs, Save(p) PROVE Inv'
  BY <1>3, BackUpKeeps, PruneKeeps, CreateTempKeeps, WriteTempKeeps, RenameKeeps, ReturnKeeps
     DEF Save
<1>4. ASSUME NEW p \in Procs, Abort(p) PROVE Inv'
  BY <1>4, AbortKeeps
<1>5. CASE UNCHANGED vars
  BY <1>5, StutterKeeps
<1>6. QED BY <1>1, <1>2, <1>3, <1>4, <1>5 DEF Next

-----------------------------------------------------------------------------
(* The theorems *)

LEMMA Invariance ==
    ASSUME ~Overlap, ~FlushFails
    PROVE  Spec => []Inv
<1>1. Init => Inv
  BY Start
<1>2. Inv /\ [Next]_vars => Inv'
  BY Step
<1>3. QED BY <1>1, <1>2, PTL DEF Spec

\* While saves do not overlap and the disk has room, the backups that
\* save_with_version keeps are states of the file in the order of their names,
\* each of which holds what the older ones hold, whatever fails on the way.
THEOREM HistorySound ==
    ASSUME ~Overlap, ~FlushFails
    PROVE  Spec => []BackupsAreHistory
<1>1. Inv => BackupsAreHistory
  BY DEF Inv
<1>2. QED BY <1>1, Invariance, PTL

\* While saves do not overlap and the disk has room, a rename of
\* save_with_version with at least one version to keep replaces a file whose copy
\* is the newest backup.
THEOREM PreviousSound ==
    ASSUME ~Overlap, ~FlushFails
    PROVE  Spec => PreviousVersionKept
<1>1. ASSUME Inv, [Next]_vars, NEW p \in Procs,
             pc[p] = "rename", pc'[p] = "saved", file # None, versions[p] > 0
      PROVE  backups # <<>> /\ Last(backups).data = Content
  BY <1>1 DEF Inv, Copied, Newest, Last
<1>2. Inv /\ [Next]_vars =>
        [\A p \in Procs :
            pc[p] = "rename" /\ pc'[p] = "saved" /\ file # None /\ versions[p] > 0 =>
                backups # <<>> /\ Last(backups).data = Content]_vars
  BY <1>1
<1>3. QED BY <1>2, Invariance, PTL DEF Spec, PreviousVersionKept

\* A step that neither touches the file nor ends an invocation is none of AtomicFile.
LEMMA Unseen ==
    ASSUME NEW p \in Procs, TypeOK, NEW to, to # "end", pc[p] # "end",
           pc' = [pc EXCEPT ![p] = to]
    PROVE  \A q \in Procs : pc'[q] = "end" <=> pc[q] = "end"
BY DEF TypeOK

\* While saves do not overlap and the disk has room, the file that
\* save_with_version writes implements AtomicFile: it goes in one step from one
\* complete store to the next, and a command that was reported stays in it.
THEOREM AtomicSound ==
    ASSUME ~Overlap, ~FlushFails
    PROVE  Spec => FileIsAtomic
<1>1. Init => AF!Init
  BY DEF Init, AF!Init, Content, Reported
<1>2. ASSUME Inv, [Next]_vars
      PROVE  [AF!Next]_<<Content, Reported>>
  <2>0. TypeOK /\ Inodes /\ Past /\ Memory /\ Temporary /\ Inv
    BY <1>2 DEF Inv
  <2> USE <2>0
  <2>1. ASSUME Tick \/ UNCHANGED vars
        PROVE  UNCHANGED <<Content, Reported>>
    BY <2>1 DEF Tick, vars, disk, Content, Reported
  <2>2. ASSUME NEW p \in Procs, NEW todo \in {"backup", "end"}, NEW store, NEW keep,
               Invoke(p, todo, store, keep), todo = "end" => store = Content
        PROVE  UNCHANGED <<Content, Reported>>
    <3>1. /\ UNCHANGED <<file, data>> /\ pc[p] = "idle" /\ pc' = [pc EXCEPT ![p] = todo]
          /\ mem' = [mem EXCEPT ![p] = store]
      BY <2>2 DEF Invoke, disk
    <3>2. p \notin Content
      BY <3>1 DEF Past
    <3>3. \A q \in Procs : (pc'[q] = "end" /\ q \in mem'[q]) <=> (pc[q] = "end" /\ q \in mem[q])
      BY <2>2, <3>1, <3>2 DEF TypeOK
    <3>4. QED BY <3>1, <3>3 DEF Content, Reported
  <2>3. ASSUME NEW p \in Procs, Command(p)
        PROVE  UNCHANGED <<Content, Reported>>
    <3>1. load_from_file = Content
      BY Loaded
    <3>2. QED BY <2>2, <2>3, <3>1
              DEF Command, write_command, refused_command, save_command, read_command
  <2>4. ASSUME NEW p \in Procs, NEW to, to # "end", pc[p] # "end", pc' = [pc EXCEPT ![p] = to],
               UNCHANGED mem
        PROVE  UNCHANGED Reported
    BY <2>4, Unseen DEF Reported
  <2>5. ASSUME NEW p \in Procs, Rename(p)
        PROVE  AF!Commit(p) \/ UNCHANGED <<Content, Reported>>
    <3>1. /\ pc[p] = "rename" /\ pc' = [pc EXCEPT ![p] = "saved"] /\ UNCHANGED mem
          /\ Content' = mem[p] /\ (mem[p] = Content \/ mem[p] = Content \cup {p})
      BY <2>5, RenameFacts
    <3>2. UNCHANGED Reported
      BY <2>4, <3>1
    <3>3. QED BY <3>1, <3>2 DEF AF!Commit
  <2>6. ASSUME NEW p \in Procs, Return(p)
        PROVE  AF!Report(p) \/ UNCHANGED <<Content, Reported>>
    <3>1. /\ pc[p] = "saved" /\ pc' = [pc EXCEPT ![p] = "end"] /\ UNCHANGED <<file, data, mem>>
      BY <2>6 DEF Return, Goto, disk
    <3>2. Content' = Content
      BY <3>1, SameContent
    <3>3. pc'[p] = "end" /\ \A q \in Procs : q # p => pc'[q] = pc[q]
      BY <3>1 DEF TypeOK
    <3>4. CASE p \in mem[p]
      <4>1. p \in Content
        BY <3>1, <3>4 DEF Memory
      <4>2. Reported' = Reported \cup {p}
        BY <3>1, <3>3, <3>4 DEF Reported
      <4>3. QED BY <3>2, <4>1, <4>2 DEF AF!Report
    <3>5. CASE p \notin mem[p]
      BY <3>1, <3>2, <3>3, <3>5 DEF Reported
    <3>6. QED BY <3>4, <3>5
  <2>7. ASSUME NEW p \in Procs, BackUp(p) \/ Prune(p) \/ CreateTemp(p) \/ WriteTemp(p) \/ Abort(p)
        PROVE  UNCHANGED <<Content, Reported>>
    <3>1. PICK to : to # "end" /\ pc' = [pc EXCEPT ![p] = to] /\ pc[p] # "end"
      BY <2>7 DEF BackUp, Prune, CreateTemp, WriteTemp, Abort, Goto, Saving
    <3>2. UNCHANGED <<file, mem>>
      BY <2>7 DEF BackUp, Prune, CreateTemp, WriteTemp, Abort
    <3>3. file # None => data'[file] = data[file]
      <4>1. SUFFICES ASSUME file # None PROVE data'[file] = data[file]
        OBVIOUS
      <4>2. file \in Procs /\ file # temp /\ data \in [Procs -> Stores \cup {Empty, Torn}]
        BY <4>1 DEF Inodes, TypeOK
      <4>3. CASE BackUp(p) \/ Prune(p)
        BY <4>3 DEF BackUp, Prune
      <4>4. CASE CreateTemp(p)
        <5>1. file # p
          BY <4>4, <4>2 DEF Inodes, Created, CreateTemp
        <5>2. QED BY <4>4, <5>1, <4>2 DEF CreateTemp
      <4>5. CASE WriteTemp(p) \/ (Abort(p) /\ pc[p] = "write")
        <5>1. handle[p] = temp
          BY <4>5 DEF WriteTemp, Temporary
        <5>2. QED BY <4>5, <5>1, <4>2 DEF WriteTemp, Abort
      <4>6. CASE Abort(p) /\ pc[p] # "write"
        BY <4>6 DEF Abort
      <4>7. QED BY <2>7, <4>3, <4>4, <4>5, <4>6
    <3>4. QED BY <2>4, <3>1, <3>2, <3>3, SameContent
  <2>8. QED BY <1>2, <2>1, <2>3, <2>5, <2>6, <2>7 DEF Next, Save, AF!Next
<1>3. QED BY <1>1, <1>2, Invariance, PTL DEF Spec, FileIsAtomic, AF!Spec
=============================================================================
