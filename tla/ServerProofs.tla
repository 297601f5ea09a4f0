---------------------------- MODULE ServerProofs ----------------------------
(***************************************************************************)
(* Proofs about the server, for any number of clients, any handlers and    *)
(* inputs, crashes, failing writes and overlapping appends: the log never  *)
(* changes what it has said, every part of the state keeps its type, and   *)
(* the write lock has an owner that will give it back.                     *)
(***************************************************************************)
EXTENDS Server, StoreProofs

\* Every handler starts a job and leaves the rest alone.
LEMMA HandleBegins ==
    ASSUME NEW c, Handle(c)
    PROVE  \E j, lost : Begin(c, j, lost)
<1>1. CASE set_value(c)
  BY <1>1 DEF set_value, Serve
<1>2. CASE delete_value(c)
  BY <1>2 DEF delete_value, Serve
<1>3. CASE incrby_value(c)
  BY <1>3 DEF incrby_value, Serve
<1>4. CASE append_value(c)
  BY <1>4 DEF append_value, Serve
<1>5. CASE set_expire(c)
  BY <1>5 DEF set_expire, Serve
<1>6. CASE persist_key(c)
  BY <1>6 DEF persist_key, Serve
<1>7. CASE list_push(c)
  BY <1>7 DEF list_push, Serve
<1>8. CASE list_pop(c)
  BY <1>8 DEF list_pop, Serve
<1>9. CASE hash_hset(c)
  BY <1>9 DEF hash_hset, Serve
<1>10. CASE hash_hdel(c)
  BY <1>10 DEF hash_hdel, Serve
<1>11. CASE hash_hincrby(c)
  BY <1>11 DEF hash_hincrby, Serve
<1>12. CASE getset_value(c)
  BY <1>12 DEF getset_value
<1>13. CASE mset_values(c)
  BY <1>13 DEF mset_values
<1>14. CASE hash_hincrbyfloat(c)
  BY <1>14 DEF hash_hincrbyfloat
<1>15. CASE hll_update(c)
  BY <1>15 DEF hll_update
<1>16. CASE transaction(c)
  BY <1>16 DEF transaction
<1>17. CASE pipeline_exec(c)
  BY <1>17 DEF pipeline_exec
<1>18. CASE lua_exec(c)
  BY <1>18 DEF lua_exec
<1> QED BY <1>1, <1>2, <1>3, <1>4, <1>5, <1>6, <1>7, <1>8, <1>9, <1>10, <1>11, <1>12,
           <1>13, <1>14, <1>15, <1>16, <1>17, <1>18 DEF Handle

\* What a step may do to the log file: nothing, a text, or a newline.
LogStep ==
    \/ wal' = wal
    \/ wal' = write_newline(wal)
    \/ \E entry : wal' = write_text(wal, entry)

LEMMA StepShape ==
    ASSUME Next
    PROVE  LogStep
<1>1. ASSUME NEW c \in Clients, Handle(c)
      PROVE  LogStep
  BY <1>1, HandleBegins DEF Begin, disk, LogStep
<1>2. ASSUME NEW c \in Clients, Acquire(c)
      PROVE  LogStep
  BY <1>2 DEF Acquire, disk, LogStep
<1>3. ASSUME NEW c \in Clients, WriteText(c)
      PROVE  LogStep
  BY <1>3 DEF WriteText, LogStep
<1>4. ASSUME NEW c \in Clients, WriteNewline(c)
      PROVE  LogStep
  BY <1>4 DEF WriteNewline, LogStep
<1>5. ASSUME NEW c \in Clients, Run(c)
      PROVE  LogStep
  BY <1>5, Zenon DEF Run, disk, LogStep
<1>6. ASSUME NEW c \in Clients, AppendFails(c)
      PROVE  LogStep
  BY <1>6 DEF AppendFails, LogStep
<1>7. CASE Shutdown \/ Exit
  BY <1>7 DEF Shutdown, Exit, disk, LogStep
<1>8. CASE Crash
  BY <1>8 DEF Crash, LogStep
<1>9. CASE Start \/ Sweep \/ Tick
  BY <1>9 DEF Start, Sweep, Tick, disk, LogStep
<1> QED BY <1>1, <1>2, <1>3, <1>4, <1>5, <1>6, <1>7, <1>8, <1>9 DEF Next, Session, Step

-----------------------------------------------------------------------------
(* Reading the log.  The lemmas are about the lines that parse; an error *)
(* anywhere hides them all.                                              *)

\* What the lines at the positions S hold, in order.
Entries(file, S) == [i \in 1..Cardinality(S) |-> file[Nth(S, i)][1]]

\* The positions read before the last line.
Earlier(file) == Parsed(file) \ {Len(file)}

\* The entry of the last line, if it has one, follows those of the lines before it.
LastRead(file, T) ==
    LET c == Cardinality(Earlier(file))
    IN  /\ Earlier(file) \in SUBSET (1..(Len(file) - 1)) /\ c \in Nat
        /\ \A p \in Parsed(file) : file[p][1] \in T
        /\ Len(file) \notin Parsed(file) => ParsedEntries(file) = Entries(file, Earlier(file))
        /\ Len(file) \in Parsed(file) =>
             ParsedEntries(file) = [i \in 1..(c + 1) |-> IF i <= c THEN Entries(file, Earlier(file))[i]
                                                    ELSE file[Len(file)][1]]

LEMMA LastLine ==
    ASSUME NEW T, NEW file \in Seq(Seq(T)), Len(file) > 0
    PROVE  LastRead(file, T)
<1> DEFINE n == Len(file)
           m == Len(file) - 1
           S == Earlier(file)
           c == Cardinality(S)
<1>1. n \in Nat /\ m \in Nat /\ n > m
  OBVIOUS
<1>2. S \in SUBSET (1..m)
  BY DEF Earlier, Parsed
<1>3. c \in Nat
  BY <1>1, <1>2, PositionsFinite
<1>4. \A p \in Parsed(file) : file[p][1] \in T
  <2> TAKE p \in Parsed(file)
  <2>1. file[p] \in Seq(T) /\ file[p] # <<>>
    BY DEF Parsed
  <2> QED BY <2>1
<1>5. ASSUME n \notin Parsed(file)
      PROVE  ParsedEntries(file) = Entries(file, S)
  <2>1. Parsed(file) = S
    BY <1>5 DEF Earlier
  <2> QED BY <2>1 DEF ParsedEntries, Entries
<1>6. ASSUME n \in Parsed(file)
      PROVE  ParsedEntries(file) = [i \in 1..(c + 1) |->
                                IF i <= c THEN Entries(file, S)[i] ELSE file[n][1]]
  <2> DEFINE all == S \cup {n}
  <2>1. Parsed(file) = all
    BY <1>6 DEF Earlier
  <2> HIDE DEF n, m, S
  <2>2. TopLast(S, n)
    BY <1>1, <1>2, NthGrows
  <2>3. /\ Cardinality(all) = c + 1 /\ Nth(all, c + 1) = n
        /\ \A i \in 1..c : Nth(all, i) = Nth(S, i)
    BY <2>2 DEF TopLast
  <2>4. ParsedEntries(file) = [i \in 1..(c + 1) |-> file[Nth(all, i)][1]]
    BY <2>1, <2>3 DEF ParsedEntries
  <2> HIDE DEF all, c
  <2>5. \A i \in 1..(c + 1) : IF i <= c THEN i \in 1..c ELSE i = c + 1
    BY <1>3
  <2>6. \A i \in 1..(c + 1) :
          file[Nth(all, i)][1] = IF i <= c THEN Entries(file, S)[i] ELSE file[n][1]
    BY <2>3, <2>5 DEF Entries, c
  <2> QED BY <2>4, <2>6
<1> HIDE DEF n, m, S, c
<1> QED BY <1>2, <1>3, <1>4, <1>5, <1>6 DEF LastRead, n, m, S, c

\* What is read is a sequence of texts.
LEMMA ReadAllOK ==
    ASSUME NEW T, NEW file \in Seq(Seq(T))
    PROVE  /\ Cardinality(Parsed(file)) \in Nat
           /\ ParsedEntries(file) \in [1..Cardinality(Parsed(file)) -> T]
<1> DEFINE n == Len(file)
           S == Parsed(file)
<1>1. n \in Nat /\ S \in SUBSET (1..n)
  BY DEF Parsed
<1>2. \A p \in S : file[p][1] \in T
  <2> TAKE p \in S
  <2>1. file[p] \in Seq(T) /\ file[p] # <<>>
    BY DEF Parsed
  <2> QED BY <2>1
<1> HIDE DEF n, S
<1>3. Cardinality(S) \in Nat /\ \A i \in 1..Cardinality(S) : Nth(S, i) \in S
  BY <1>1, NthOK, PositionsFinite
<1>4. [i \in 1..Cardinality(S) |-> file[Nth(S, i)][1]] \in [1..Cardinality(S) -> T]
  BY <1>2, <1>3
<1> QED BY <1>3, <1>4 DEF ParsedEntries, S

\* A sequence stays one when its alphabet grows.
LEMMA SeqGrows ==
    ASSUME NEW T, NEW x, NEW s \in Seq(T)
    PROVE  s \in Seq(T \cup {x})
<1>1. Len(s) \in Nat /\ s \in [1..Len(s) -> T]
  OBVIOUS
<1>2. s \in [1..Len(s) -> T \cup {x}]
  BY <1>1
<1> QED BY <1>1, <1>2, FunctionIsSeq

LEMMA LogGrows ==
    ASSUME NEW T, NEW x, NEW file \in Seq(Seq(T))
    PROVE  file \in Seq(Seq(T \cup {x}))
<1>1. Len(file) \in Nat /\ file \in [1..Len(file) -> Seq(T)]
  OBVIOUS
<1>2. \A i \in 1..Len(file) : file[i] \in Seq(T \cup {x})
  BY <1>1, SeqGrows
<1>3. file \in [1..Len(file) -> Seq(T \cup {x})]
  BY <1>1, <1>2
<1> QED BY <1>1, <1>3, FunctionIsSeq

\* f, of length c, and x at its end.
Longer(f, c, x) == [i \in 1..(c + 1) |-> IF i <= c THEN f[i] ELSE x]

LEMMA OneMore ==
    ASSUME NEW T, NEW c \in Nat, NEW f \in [1..c -> T], NEW x \in T
    PROVE  /\ IsPrefix(f, Longer(f, c, x))
           /\ Longer(f, c, x) # <<>> /\ f = Front(Longer(f, c, x))
<1> DEFINE g == Longer(f, c, x)
<1>1. f \in Seq(T) /\ Len(f) = c
  BY FunctionIsSeq
<1>2. g \in [1..(c + 1) -> T] /\ \A i \in 1..c : g[i] = f[i]
  BY DEF Longer
<1> HIDE DEF g
<1>3. g \in Seq(T) /\ Len(g) = c + 1
  BY <1>2, FunctionIsSeq
<1>4. SubSeq(f, 1, c) = f
  BY <1>1
<1>5. SubSeq(g, 1, c) = f
  <2>1. SubSeq(g, 1, c) = [i \in 1..c |-> g[i]]
    BY <1>3
  <2> QED BY <1>2, <2>1
<1>6. Len(f) <= Len(g) /\ Len(g) - 1 = c /\ g # <<>>
  BY <1>1, <1>3
<1> QED BY <1>1, <1>4, <1>5, <1>6 DEF IsPrefix, Front, g

LEMMA OneMoreIsAppend ==
    ASSUME NEW T, NEW c \in Nat, NEW f \in [1..c -> T], NEW x \in T
    PROVE  Longer(f, c, x) = Append(f, x)
<1>1. f \in Seq(T) /\ Len(f) = c
  BY FunctionIsSeq
<1>2. Append(f, x) \in Seq(T) /\ Len(Append(f, x)) = c + 1
  BY <1>1
<1>3. Append(f, x) \in [1..(c + 1) -> T]
  <2>1. PICK s \in Seq(T) : s = Append(f, x) /\ Len(s) = c + 1
    BY <1>2
  <2>2. s \in [1..Len(s) -> T]
    OBVIOUS
  <2> QED BY <2>1, <2>2
<1>4. \A i \in 1..(c + 1) : Append(f, x)[i] = IF i <= c THEN f[i] ELSE x
  BY <1>1
<1> QED BY <1>3, <1>4 DEF Longer

LEMMA PrefixOfItself ==
    ASSUME NEW T, NEW c \in Nat, NEW f \in [1..c -> T]
    PROVE  IsPrefix(f, f)
  BY FunctionIsSeq DEF IsPrefix

\* What LogIsAppendOnly says of a step.
Grown(old, new) == IsPrefix(old, new) \/ (old # <<>> /\ new = Front(old))

\* No line is malformed.
Clean(file) == \A i \in 1..Len(file) : ~Malformed(file[i])

\* A text in the last line: it adds its entry to a blank line, and spoils a line
\* that has one already.
LEMMA TextGrows ==
    ASSUME NEW T, NEW file \in Seq(Seq(T)), Len(file) > 0, NEW entry \in T
    PROVE  /\ write_text(file, entry) \in Seq(Seq(T))
           /\ Len(write_text(file, entry)) = Len(file)
           /\ Grown(ParsedEntries(file), ParsedEntries(write_text(file, entry)))
           /\ Clean(write_text(file, entry)) =>
                /\ Clean(file) /\ entry \notin Cuts
                /\ ParsedEntries(write_text(file, entry)) = Append(ParsedEntries(file), entry)
<1> DEFINE n == Len(file)
           new == write_text(file, entry)
           S == Earlier(file)
           c == Cardinality(S)
<1>1. n \in Nat /\ n \in 1..n /\ file[n] \in Seq(T)
  OBVIOUS
<1>2. Append(file[n], entry) \in Seq(T) /\ Len(Append(file[n], entry)) = Len(file[n]) + 1
  BY <1>1
<1>3. new \in Seq(Seq(T)) /\ Len(new) = n
  BY <1>1, <1>2 DEF write_text
<1>4. new[n] = Append(file[n], entry) /\ \A p \in 1..n : p # n => new[p] = file[p]
  BY <1>1 DEF write_text
<1> HIDE DEF new
<1>5. Earlier(new) = S
  BY <1>3, <1>4 DEF Parsed, Earlier
<1>6. /\ S \in SUBSET (1..(n - 1)) /\ c \in Nat
      /\ \A p \in Parsed(file) : file[p][1] \in T
      /\ n \notin Parsed(file) => ParsedEntries(file) = Entries(file, S)
      /\ n \in Parsed(file) =>
           ParsedEntries(file) = [i \in 1..(c + 1) |->
               IF i <= c THEN Entries(file, S)[i] ELSE file[n][1]]
  BY LastLine DEF LastRead
<1>7. /\ \A p \in Parsed(new) : new[p][1] \in T
      /\ n \notin Parsed(new) => ParsedEntries(new) = Entries(new, S)
      /\ n \in Parsed(new) =>
           ParsedEntries(new) = [i \in 1..(c + 1) |->
               IF i <= c THEN Entries(new, S)[i] ELSE new[n][1]]
  <2>1. LastRead(new, T)
    BY <1>1, <1>3, LastLine
  <2> QED BY <1>3, <1>5, <2>1 DEF LastRead
<1>8. \A i \in 1..c : Nth(S, i) \in S
  <2>1. PICK m \in Nat : m = n - 1
    BY <1>1
  <2>2. S \in SUBSET (1..m)
    BY <1>6, <2>1
  <2> QED BY <2>2, NthOK
<1>9. Entries(new, S) = Entries(file, S) /\ Entries(file, S) \in [1..c -> T]
  <2>1. \A i \in 1..c : new[Nth(S, i)] = file[Nth(S, i)] /\ file[Nth(S, i)][1] \in T
    <3>1. \A p \in S : p \in Parsed(file) /\ p \in 1..n /\ p # n
      BY DEF Earlier, Parsed
    <3> QED BY <1>4, <1>6, <1>8, <3>1
  <2> QED BY <2>1 DEF Entries
<1>10. n \in Parsed(new) => n \notin Parsed(file)
  <2>1. Len(file[n]) \in Nat /\ (file[n] # <<>> => Len(file[n]) > 0)
    BY <1>1
  <2>2. file[n] # <<>> => Len(new[n]) > 1
    BY <1>2, <1>4, <2>1
  <2> QED BY <2>2 DEF Parsed, Malformed
<1>10a. ASSUME Clean(new)
        PROVE  /\ Clean(file) /\ entry \notin Cuts
               /\ n \in Parsed(new) /\ n \notin Parsed(file) /\ new[n][1] = entry
  <2>1. Len(file[n]) \in Nat /\ ~(Len(file[n]) + 1 > 1)
    BY <1>1, <1>2, <1>3, <1>4, <1>10a DEF Clean, Malformed
  <2>2. file[n] = <<>>
    BY <1>1, <2>1
  <2>3. new[n] = <<entry>>
    BY <1>4, <2>2
  <2>4. Len(new[n]) = 1 /\ new[n][1] = entry /\ new[n] # <<>>
    BY <2>3
  <2>5. ~Malformed(new[n]) /\ entry \notin Cuts
    BY <1>1, <1>3, <1>10a, <2>4 DEF Clean, Malformed
  <2>6. n \in Parsed(new) /\ n \notin Parsed(file)
    BY <1>1, <1>3, <2>2, <2>4, <2>5 DEF Parsed
  <2>7. Clean(file)
    <3>1. ~Malformed(file[n])
      <4>1. Len(file[n]) = 0
        BY <2>2
      <4> QED BY <4>1 DEF Malformed
    <3> QED BY <1>3, <1>4, <1>10a, <3>1 DEF Clean
  <2> QED BY <2>4, <2>5, <2>6, <2>7
<1> HIDE DEF S, c, n
<1>11. Grown(ParsedEntries(file), ParsedEntries(new))
  <2>1. CASE n \in Parsed(new)
    <3>1. n \notin Parsed(file)
      BY <1>10, <2>1
    <3>2. PICK f \in [1..c -> T], x \in T : f = Entries(file, S) /\ x = new[n][1]
      BY <1>7, <1>9, <2>1
    <3>3. ParsedEntries(file) = f
      BY <1>6, <3>1, <3>2
    <3>4. ParsedEntries(new) = Longer(f, c, x)
      BY <1>7, <1>9, <2>1, <3>2 DEF Longer
    <3>5. IsPrefix(f, ParsedEntries(new)) /\ ParsedEntries(new) # <<>> /\ f = Front(ParsedEntries(new))
      BY <1>6, <3>4, OneMore
    <3> QED BY <3>3, <3>5 DEF Grown
  <2>2. CASE n \notin Parsed(new) /\ n \in Parsed(file)
    <3>1. PICK f \in [1..c -> T], x \in T : f = Entries(file, S) /\ x = file[n][1]
      BY <1>6, <1>9, <2>2
    <3>2. ParsedEntries(new) = f
      BY <1>7, <1>9, <2>2, <3>1
    <3>3. ParsedEntries(file) = Longer(f, c, x)
      BY <1>6, <2>2, <3>1 DEF Longer
    <3>4. IsPrefix(f, ParsedEntries(file)) /\ ParsedEntries(file) # <<>> /\ f = Front(ParsedEntries(file))
      BY <1>6, <3>3, OneMore
    <3> QED BY <3>2, <3>4 DEF Grown
  <2>3. CASE n \notin Parsed(new) /\ n \notin Parsed(file)
    BY <1>6, <1>7, <1>9, <2>3, PrefixOfItself DEF Grown
  <2> QED BY <2>1, <2>2, <2>3
<1>12. Clean(new) => Clean(file) /\ entry \notin Cuts /\ ParsedEntries(new) = Append(ParsedEntries(file), entry)
  <2>1. SUFFICES ASSUME Clean(new)
                 PROVE  Clean(file) /\ entry \notin Cuts /\ ParsedEntries(new) = Append(ParsedEntries(file), entry)
    OBVIOUS
  <2>2. PICK f \in [1..c -> T], x \in T : f = Entries(file, S) /\ x = new[n][1]
    BY <1>7, <1>9, <1>10a, <2>1
  <2>3. ParsedEntries(file) = f /\ x = entry
    BY <1>6, <1>10a, <2>1, <2>2
  <2>4. ParsedEntries(new) = Longer(f, c, x)
    BY <1>7, <1>9, <1>10a, <2>1, <2>2 DEF Longer
  <2>5. Longer(f, c, x) = Append(f, x)
    BY <1>6, OneMoreIsAppend
  <2> QED BY <1>10a, <2>1, <2>3, <2>4, <2>5
<1> QED BY <1>3, <1>11, <1>12 DEF new, n

\* A newline changes nothing that is read.
LEMMA NewlineGrows ==
    ASSUME NEW T, NEW file \in Seq(Seq(T)), Len(file) > 0
    PROVE  /\ write_newline(file) \in Seq(Seq(T))
           /\ Len(write_newline(file)) > 0
           /\ Grown(ParsedEntries(file), ParsedEntries(write_newline(file)))
           /\ ParsedEntries(write_newline(file)) = ParsedEntries(file)
           /\ Clean(write_newline(file)) <=> Clean(file)
<1> DEFINE n == Len(file)
           new == write_newline(file)
           c == Cardinality(Parsed(file))
<1>1. n \in Nat /\ <<>> \in Seq(T)
  OBVIOUS
<1>2. new \in Seq(Seq(T)) /\ Len(new) = n + 1
  BY <1>1 DEF write_newline
<1>3. new[n + 1] = <<>> /\ \A p \in 1..n : new[p] = file[p]
  BY <1>1 DEF write_newline
<1> HIDE DEF new
<1>4. Parsed(new) = Parsed(file)
  <2>1. \A p : p \in 1..(n + 1) <=> p \in 1..n \/ p = n + 1
    BY <1>1
  <2> QED BY <1>2, <1>3, <2>1 DEF Parsed
<1>5. c \in Nat /\ ParsedEntries(file) \in [1..c -> T]
  BY ReadAllOK
<1>6. \A i \in 1..c : Nth(Parsed(file), i) \in 1..n
  <2>1. Parsed(file) \in SUBSET (1..n)
    BY DEF Parsed
  <2>2. \A i \in 1..c : Nth(Parsed(file), i) \in Parsed(file)
    BY <1>1, <2>1, NthOK
  <2> QED BY <2>1, <2>2
<1>7. ParsedEntries(new) = ParsedEntries(file)
  BY <1>3, <1>4, <1>6 DEF ParsedEntries
<1> HIDE DEF c
<1>8. Grown(ParsedEntries(file), ParsedEntries(new))
  BY <1>5, <1>7, PrefixOfItself DEF Grown
<1>9. Clean(new) <=> Clean(file)
  <2>1. \A p : p \in 1..(n + 1) <=> p \in 1..n \/ p = n + 1
    BY <1>1
  <2>2. ~Malformed(new[n + 1])
    <3>1. Len(new[n + 1]) = 0
      BY <1>3
    <3> QED BY <3>1 DEF Malformed
  <2> QED BY <1>2, <1>3, <2>1, <2>2 DEF Clean
<1> QED BY <1>1, <1>2, <1>7, <1>8, <1>9 DEF new, n

\* A log without a malformed line can be read.
LEMMA CleanReads ==
    ASSUME NEW T, NEW file \in Seq(Seq(T)), Clean(file)
    PROVE  Readable(file) /\ read_all(file) = ParsedEntries(file)
<1>1. ASSUME NEW i \in 1..Len(file), ReadFails(file[i])
      PROVE  FALSE
  <2>1. ~Malformed(file[i])
    BY DEF Clean
  <2>2. ~Encrypted /\ \E p \in 1..Len(file[i]) : file[i][p] = CutInside
    BY <1>1, <2>1 DEF ReadFails
  <2>3. PICK p \in 1..Len(file[i]) : file[i][p] = CutInside
    BY <2>2
  <2>4. PICK m \in Nat : m = Len(file[i])
    OBVIOUS
  <2>5. ~(m > 1) /\ ~(m = 1 /\ file[i][1] = CutInside)
    BY <2>1, <2>4 DEF Malformed, Cuts
  <2>6. p \in 1..m
    BY <2>3, <2>4
  <2> QED BY <2>3, <2>5, <2>6
<1>2. Readable(file)
  BY <1>1 DEF Readable
<1> QED BY <1>2 DEF read_all

\* A line that makes the read fail does so with more text in it.
LEMMA FailureStays ==
    ASSUME NEW T, NEW line \in Seq(T), NEW x \in T, ReadFails(line)
    PROVE  ReadFails(Append(line, x))
<1>1. PICK n \in Nat : n = Len(line)
  OBVIOUS
<1>2. Len(Append(line, x)) = n + 1 /\ \A p \in 1..n : Append(line, x)[p] = line[p]
  BY <1>1
<1>3. PICK l : l = Append(line, x)
  OBVIOUS
<1>4. CASE Encrypted
  <2>1. Malformed(line) /\ line[1] # Cut
    BY <1>4 DEF ReadFails
  <2>2. n >= 1
    BY <1>1, <2>1 DEF Malformed
  <2>3. Len(l) > 1 /\ l[1] = line[1]
    BY <1>2, <1>3, <2>2
  <2> QED BY <1>3, <1>4, <2>1, <2>3 DEF ReadFails, Malformed
<1>5. CASE ~Encrypted
  <2>1. PICK p \in 1..n : line[p] = CutInside
    BY <1>1, <1>5 DEF ReadFails
  <2>2. p \in 1..Len(l) /\ l[p] = CutInside
    BY <1>2, <1>3, <2>1
  <2> QED BY <1>3, <1>5, <2>2 DEF ReadFails
<1> QED BY <1>4, <1>5

\* What the log has become unreadable by stays in it.
LEMMA UnreadableStays ==
    ASSUME NEW T, NEW file \in Seq(Seq(T)), Len(file) > 0
    PROVE  /\ Readable(write_newline(file)) => Readable(file)
           /\ \A x \in T : Readable(write_text(file, x)) => Readable(file)
<1> DEFINE n == Len(file)
<1>1. n \in Nat /\ n \in 1..n /\ file[n] \in Seq(T)
  OBVIOUS
<1>2. Readable(write_newline(file)) => Readable(file)
  <2>1. Len(write_newline(file)) = n + 1 /\ \A p \in 1..n : write_newline(file)[p] = file[p]
    BY <1>1 DEF write_newline
  <2>2. \A p \in 1..n : p \in 1..(n + 1)
    BY <1>1
  <2> QED BY <2>1, <2>2 DEF Readable
<1>3. ASSUME NEW x \in T, Readable(write_text(file, x))
      PROVE  Readable(file)
  <2>1. PICK new : new = write_text(file, x)
    OBVIOUS
  <2>2. Len(new) = n /\ new[n] = Append(file[n], x) /\ \A p \in 1..n : p # n => new[p] = file[p]
    BY <1>1, <2>1 DEF write_text
  <2>3. \A p \in 1..n : ~ReadFails(new[p])
    BY <1>3, <2>1, <2>2 DEF Readable
  <2>4. ~ReadFails(file[n])
    BY <1>1, <2>2, <2>3, FailureStays
  <2>5. \A p \in 1..n : ~ReadFails(file[p])
    BY <2>2, <2>3, <2>4
  <2> QED BY <2>5 DEF Readable
<1> QED BY <1>2, <1>3

-----------------------------------------------------------------------------
(* The theorem *)

\* The log is a sequence of lines, the last one open, of some kind of texts.
LogOK == \E T : wal \in Seq(Seq(T)) /\ Len(wal) > 0

\* What LogIsAppendOnly says of two states of the log.
Continues ==
    Readable(wal') => Readable(wal) /\ Grown(read_all(wal), read_all(wal'))

LEMMA LogStepOK ==
    ASSUME LogOK, LogStep
    PROVE  LogOK' /\ Continues
<1>1. PICK T : wal \in Seq(Seq(T)) /\ Len(wal) > 0
  BY DEF LogOK
<1>2. SUFFICES /\ LogOK'
               /\ Readable(wal') => Readable(wal)
               /\ Grown(ParsedEntries(wal), ParsedEntries(wal'))
  BY DEF Continues, read_all
<1>3. CASE wal' = wal
  <2>1. Grown(ParsedEntries(wal), ParsedEntries(wal))
    BY <1>1, ReadAllOK, PrefixOfItself DEF Grown
  <2> QED BY <1>1, <1>3, <2>1 DEF LogOK
<1>4. CASE wal' = write_newline(wal)
  BY <1>1, <1>4, NewlineGrows, UnreadableStays DEF LogOK
<1>5. ASSUME NEW entry, wal' = write_text(wal, entry)
      PROVE  /\ LogOK'
             /\ Readable(wal') => Readable(wal)
             /\ Grown(ParsedEntries(wal), ParsedEntries(wal'))
  <2>1. wal \in Seq(Seq(T \cup {entry})) /\ entry \in T \cup {entry}
    BY <1>1, LogGrows
  <2>2. LogOK' /\ Grown(ParsedEntries(wal), ParsedEntries(wal'))
    BY <1>1, <1>5, <2>1, TextGrows DEF LogOK
  <2>3. Readable(wal') => Readable(wal)
    BY <1>1, <1>5, <2>1, UnreadableStays
  <2> QED BY <2>2, <2>3
<1> QED BY <1>3, <1>4, <1>5 DEF LogStep

\* Whatever crashes, fails or overlaps: a log that wal.rs can read yields what it
\* did before, one entry more, or without its last one, which the text glued to
\* it has spoilt; no entry is made up and none changes its place.  A log that
\* wal.rs cannot read stays so.
THEOREM LogSound == Spec => LogIsAppendOnly
<1>1. Init => LogOK
  <2>1. <<<<>>>> \in Seq(Seq({})) /\ Len(<<<<>>>>) > 0
    OBVIOUS
  <2> QED BY <2>1 DEF Init, LogOK
<1>2. LogOK /\ [Next]_vars => LogOK'
  BY StepShape, LogStepOK DEF vars, LogOK
<1>3. LogOK /\ [Next]_vars =>
        [Readable(wal') =>
            LET old == read_all(wal)
                new == read_all(wal')
            IN  /\ Readable(wal)
                /\ \/ IsPrefix(old, new)
                   \/ old # <<>> /\ new = Front(old)]_wal
  BY StepShape, LogStepOK DEF vars, Continues, Grown
<1> QED BY <1>1, <1>2, <1>3, PTL DEF Spec, LogIsAppendOnly

-----------------------------------------------------------------------------
(* One command, one entry *)

\* Nothing is evicted.
NoLimit == max_memory_bytes = 0 \/ ~lru_eviction_enabled

\* What the map holds for a key.
Slot == Entry \cup {None}

SingleOps == {"set", "delete", "incrby", "append", "expire", "persist", "lpush", "rpush",
              "lpop", "rpop", "hset", "hdel", "hincrby"}

\* The commands replay carries out: each concerns one key.
Single(c) ==
    /\ c.op \in SingleOps
    /\ c.op = "set" => c.text \in Seq(Char) /\ c.ttl \in Ttls \cup {None}
    /\ c.op # "set" => c.key \in Keys
    /\ c.op \in {"append", "lpush", "rpush"} => c.text \in Seq(Char)
    /\ c.op = "expire" => c.ttl \in Ttls \ {None}
    /\ c.op \in {"incrby", "hincrby"} => c.amount \in Int
    /\ c.op \in {"hset", "hdel", "hincrby"} => c.field \in Fields
    /\ c.op = "hset" => c.value \in FieldText \cup {None}

Is(e, type) == e # None /\ e.value.type = type

HashIn(e) == IF Is(e, "Hash") THEN e.value.data ELSE NoFields

ListIn(e) == IF Is(e, "List") THEN e.value.data ELSE <<>>

Holding(type, data, exp) == [value |-> [type |-> type, data |-> data], expires_at |-> exp]

Upserted(e, type, changed, initial) ==
    IF e = None THEN Holding(type, initial, None)
    ELSE IF Is(e, type) THEN Holding(type, changed, e.expires_at)
    ELSE e

WithField(e, f, text) ==
    LET h == [HashIn(e) EXCEPT ![f] = text] IN Upserted(e, "Hash", h, h)

Count(e, f) == IF HashIn(e)[f] = None THEN 0 ELSE parse_i64(HashIn(e)[f])

\* What the command c, carried out at time t, makes of its key's entry e.
After(e, c, t) ==
    CASE c.op = "set" ->
           IF c.key \notin Keys \/ ~validate_value(Str(c.text)) THEN e
           ELSE Holding("Str", c.text, IF c.ttl = None THEN None ELSE checked_add(t, c.ttl))
      [] c.op = "delete" -> None
      [] c.op = "incrby" ->
           IF Is(e, "Int") THEN Holding("Int", wrap(e.value.data + c.amount), e.expires_at) ELSE e
      [] c.op = "append" ->
           IF e = None
           THEN IF validate_value(Str(c.text)) THEN Holding("Str", c.text, None) ELSE e
           ELSE IF Is(e, "Str") THEN Holding("Str", e.value.data \o c.text, e.expires_at) ELSE e
      [] c.op = "expire" ->
           IF e = None \/ IsExpired(e, t) THEN e
           ELSE [value |-> e.value, expires_at |-> checked_add(t, c.ttl)]
      [] c.op = "persist" ->
           IF e = None \/ e.expires_at = None THEN e
           ELSE [value |-> e.value, expires_at |-> None]
      [] c.op = "lpush" -> Upserted(e, "List", Reverse(c.text) \o ListIn(e), Reverse(c.text))
      [] c.op = "rpush" -> Upserted(e, "List", ListIn(e) \o c.text, c.text)
      [] c.op = "lpop" ->
           IF ListIn(e) = <<>> THEN e ELSE Holding("List", Tail(ListIn(e)), e.expires_at)
      [] c.op = "rpop" ->
           IF ListIn(e) = <<>> THEN e ELSE Holding("List", Front(ListIn(e)), e.expires_at)
      [] c.op = "hset" -> WithField(e, c.field, c.value)
      [] c.op = "hdel" ->
           IF Is(e, "Hash")
           THEN Holding("Hash", [HashIn(e) EXCEPT ![c.field] = None], e.expires_at) ELSE e
      [] c.op = "hincrby" -> WithField(e, c.field, 2 * wrap(Count(e, c.field) + c.amount))

\* t is s with the entry e under k, and perhaps other counters and order of use.
Sole(s, t, k, e) ==
    /\ StateOK(t)
    /\ t.transaction_queue = s.transaction_queue
    /\ \A j \in Keys : t.store[j] = IF j = k THEN e ELSE s.store[j]

LEMMA SkipSole ==
    ASSUME NEW s, StateOK(s), NEW k
    PROVE  Sole(s, s, k, s.store[k])
  BY DEF Sole

LEMMA WriteSole ==
    ASSUME NEW s, StateOK(s), NEW k \in Keys, NEW e \in Entry
    PROVE  Sole(s, Write(s, k, e), k, e)
<1> DEFINE t == Write(s, k, e)
<1>1. StateOK(t) /\ t.store[k] = e /\ \A j \in Keys : j # k => t.store[j] = s.store[j]
  BY WriteOK, WrittenStore
<1>2. t.transaction_queue = s.transaction_queue
  BY DEF Write, StateOK, IsKv
<1> HIDE DEF t
<1> QED BY <1>1, <1>2 DEF Sole, t

LEMMA CreateSole ==
    ASSUME NEW s, StateOK(s), NEW k \in Keys, NEW v \in Value
    PROVE  Sole(s, Create(s, k, v), k, [value |-> v, expires_at |-> None])
<1> DEFINE e == [value |-> v, expires_at |-> None]
           w == Write(s, k, e)
           t == Create(s, k, v)
<1>1. e \in Entry
  BY EntryType
<1> HIDE DEF e
<1>2. Sole(s, w, k, e)
  BY <1>1, WriteSole
<1>3. t = [w EXCEPT !.memory_bytes = @ + estimate_value_size(v)]
  BY DEF Create, w, e
<1> HIDE DEF w, t
<1>4. StateOK(t) /\ t.store = w.store
  BY <1>2, <1>3, SizeType, CountOK DEF Sole
<1>5. t.transaction_queue = w.transaction_queue
  BY <1>2, <1>3 DEF Sole, StateOK, IsKv
<1>6. Sole(s, t, k, e)
  BY <1>2, <1>4, <1>5 DEF Sole
<1> QED BY <1>6 DEF t, e

LEMMA UpdateSole ==
    ASSUME NEW s, StateOK(s), NEW k \in Keys, s.store[k] # None, NEW v \in Value
    PROVE  Sole(s, Update(s, k, v), k, [value |-> v, expires_at |-> s.store[k].expires_at])
<1>1. [value |-> v, expires_at |-> s.store[k].expires_at] \in Entry
  BY EntryType, StoredEntry
<1> QED BY <1>1, WriteSole DEF Update

LEMMA UpsertSole ==
    ASSUME NEW s, StateOK(s), NEW k \in Keys, NEW type, NEW changed, NEW initial,
           [type |-> type, data |-> changed] \in Value,
           [type |-> type, data |-> initial] \in Value
    PROVE  Sole(s, Upsert(s, k, type, changed, initial), k,
                Upserted(s.store[k], type, changed, initial))
<1>1. CASE s.store[k] = None
  <2>1. Sole(s, Create(s, k, [type |-> type, data |-> initial]), k, Holding(type, initial, None))
    BY CreateSole DEF Holding
  <2> QED BY <1>1, <2>1 DEF Upsert, Upserted
<1>2. CASE Has(s, k, type)
  <2>1. Sole(s, Update(s, k, [type |-> type, data |-> changed]), k,
             Holding(type, changed, s.store[k].expires_at))
    BY <1>2, UpdateSole DEF Holding, Has
  <2> QED BY <1>2, <2>1 DEF Upsert, Upserted, Has, Is
<1>3. CASE s.store[k] # None /\ ~Has(s, k, type)
  BY <1>3, SkipSole DEF Upsert, Upserted, Has, Is
<1> QED BY <1>1, <1>2, <1>3

LEMMA EmitSole ==
    ASSUME NEW s, NEW t, NEW k, NEW e, Sole(s, t, k, e),
           NEW kind \in {"set", "del", "expired", "evicted"}, NEW j \in Keys
    PROVE  Sole(s, emit_keyspace_event(t, kind, j), k, e)
<1> DEFINE u == emit_keyspace_event(t, kind, j)
<1>1. StateOK(u) /\ u.store = t.store
  BY EmitOK DEF Sole
<1>2. u.transaction_queue = t.transaction_queue
  BY DEF emit_keyspace_event, Sole, StateOK, IsKv
<1> HIDE DEF u
<1>3. Sole(s, u, k, e)
  BY <1>1, <1>2 DEF Sole
<1> QED BY <1>3 DEF u

LEMMA ReplaceSole ==
    ASSUME NEW s, StateOK(s), NEW k \in Keys, NEW e \in Slot, s.store[k] # None,
           NEW kind \in {"set", "del"}
    PROVE  Sole(s, emit_keyspace_event([s EXCEPT !.store = [@ EXCEPT ![k] = e]], kind, k), k, e)
<1> DEFINE t == [s EXCEPT !.store = [@ EXCEPT ![k] = e]]
<1>1. StateOK(t)
  BY ReplaceOneOK DEF Slot
<1>2. t.transaction_queue = s.transaction_queue /\ t.store = [s.store EXCEPT ![k] = e]
  BY DEF StateOK, IsKv
<1> HIDE DEF t
<1>3. Sole(s, t, k, e)
  BY <1>1, <1>2 DEF Sole, StateOK
<1>4. Sole(s, emit_keyspace_event(t, kind, k), k, e)
  BY <1>3, EmitSole
<1> QED BY <1>4 DEF t

\* An insertion evicts nothing while there is no limit.
LEMMA InsertSole ==
    ASSUME NEW s, StateOK(s), NEW k \in Keys, NEW v \in Value, NEW x \in Nat \cup {None}, NoLimit
    PROVE  Sole(s, Insert(s, k, v, x), k, [value |-> v, expires_at |-> x])
<1> DEFINE e == [value |-> v, expires_at |-> x]
           w == Write(s, k, e)
           grown == [w EXCEPT !.memory_bytes = @ + estimate_value_size(v)]
<1>1. e \in Entry
  BY EntryType
<1>2. Insert(s, k, v, x) = emit_keyspace_event(grown, "set", k)
  <2>1. ~(max_memory_bytes > 0 /\ lru_eviction_enabled)
    BY BoundsAssumption DEF NoLimit
  <2> QED BY <2>1 DEF Insert
<1> HIDE DEF e
<1>3. Sole(s, w, k, e)
  BY <1>1, WriteSole
<1> HIDE DEF w
<1>4. StateOK(grown) /\ grown.store = w.store
  BY <1>3, SizeType, CountOK DEF Sole
<1>5. grown.transaction_queue = w.transaction_queue
  BY <1>3 DEF Sole, StateOK, IsKv
<1> HIDE DEF grown
<1>6. Sole(s, grown, k, e)
  BY <1>3, <1>4, <1>5 DEF Sole
<1>7. Sole(s, emit_keyspace_event(grown, "set", k), k, e)
  BY <1>6, EmitSole
<1> QED BY <1>2, <1>7 DEF e
LEMMA SetSole ==
    ASSUME NEW s, StateOK(s), ~in_transaction(s), NoLimit, NEW k, NEW text \in Seq(Char),
           NEW x \in Nat \cup {None}
    PROVE  Sole(s, set(s, k, Str(text), x), k,
                IF k \notin Keys \/ ~validate_value(Str(text)) THEN s.store[k]
                ELSE Holding("Str", text, x))
<1>1. CASE k \notin Keys \/ ~validate_value(Str(text))
  BY <1>1, SkipSole DEF set
<1>2. CASE ~(k \notin Keys \/ ~validate_value(Str(text)))
  <2>1. Str(text) \in Value
    BY ValueType DEF Str
  <2>2. Sole(s, Insert(s, k, Str(text), x), k, [value |-> Str(text), expires_at |-> x])
    BY <1>2, <2>1, InsertSole
  <2>3. [value |-> Str(text), expires_at |-> x] = Holding("Str", text, x)
    BY DEF Holding, Str
  <2>4. set(s, k, Str(text), x) = Insert(s, k, Str(text), x)
    BY <1>2 DEF set
  <2> QED BY <1>2, <2>2, <2>3, <2>4
<1> QED BY <1>1, <1>2

LEMMA HashSole ==
    ASSUME NEW s, StateOK(s), NEW k \in Keys, NEW f \in Fields, NEW text \in FieldText \cup {None}
    PROVE  Sole(s, hset(s, k, f, text), k, WithField(s.store[k], f, text))
<1> DEFINE h == [HashOf(s, k) EXCEPT ![f] = text]
<1>1. h \in [Fields -> FieldText \cup {None}]
  BY ContentsType
<1>2. HashOf(s, k) = HashIn(s.store[k])
  BY DEF HashOf, HashIn, Has, Is
<1>3. hset(s, k, f, text) = Upsert(s, k, "Hash", h, h)
  BY DEF hset
<1>4. WithField(s.store[k], f, text) = Upserted(s.store[k], "Hash", h, h)
  BY <1>2 DEF WithField
<1> HIDE DEF h
<1>5. [type |-> "Hash", data |-> h] \in Value
  BY <1>1, ValueType
<1> QED BY <1>3, <1>4, <1>5, UpsertSole

\* What hincrby writes is the text of an integer.
LEMMA CountType ==
    ASSUME NEW s, StateOK(s), NEW k \in Keys, NEW f \in Fields, NEW amount \in Int
    PROVE  /\ 2 * wrap(Current(s, k, f, parse_i64) + amount) \in FieldText
           /\ Current(s, k, f, parse_f64) + amount \in FieldText
           /\ Current(s, k, f, parse_i64) = Count(s.store[k], f)
<1> DEFINE text == HashOf(s, k)[f]
           i == Current(s, k, f, parse_i64)
           h == Current(s, k, f, parse_f64)
<1>1. text \in FieldText \cup {None}
  BY ContentsType
<1>2. \A t \in FieldText : parse_i64(t) \in Int /\ parse_f64(t) \in Int
  BY BoundsAssumption DEF FieldText, parse_i64, parse_f64, I64
<1>3. i \in Int /\ h \in Int
  BY <1>1, <1>2 DEF Current
<1>4. i = Count(s.store[k], f)
  BY DEF Current, Count, HashOf, HashIn, Has, Is
<1> HIDE DEF i, h
<1>5. wrap(i + amount) \in I64
  BY <1>3, WrapType
<1>6. 2 * wrap(i + amount) \in Int
  BY <1>5, BoundsAssumption DEF I64
<1>7. 2 * wrap(i + amount) \in FieldText /\ h + amount \in FieldText
  BY <1>3, <1>6 DEF FieldText
<1> QED BY <1>4, <1>7 DEF i, h

LEMMA HdelSole ==
    ASSUME NEW s, StateOK(s), NEW k \in Keys, NEW f \in Fields
    PROVE  Sole(s, hdel(s, k, f), k,
                IF Is(s.store[k], "Hash")
                THEN Holding("Hash", [HashIn(s.store[k]) EXCEPT ![f] = None], s.store[k].expires_at)
                ELSE s.store[k])
<1>1. CASE ~Has(s, k, "Hash")
  BY <1>1, SkipSole DEF hdel, Has, Is
<1>2. CASE Has(s, k, "Hash")
  <2> DEFINE e == Holding("Hash", [HashIn(s.store[k]) EXCEPT ![f] = None], s.store[k].expires_at)
             t == hdel(s, k, f)
  <2>1. /\ t.store = [s.store EXCEPT ![k] = e]
        /\ t.transaction_queue = s.transaction_queue
    BY <1>2 DEF hdel, StateOK, IsKv, Holding, HashOf, HashIn, Has, Is
  <2>2. StateOK(t)
    BY HdelOK
  <2> HIDE DEF e, t
  <2>3. Sole(s, t, k, e)
    BY <2>1, <2>2 DEF Sole, StateOK
  <2> QED BY <1>2, <2>3 DEF e, t, Has, Is
<1> QED BY <1>1, <1>2

LEMMA PushSole ==
    ASSUME NEW s, StateOK(s), NEW k \in Keys, NEW items \in Seq(Char)
    PROVE  /\ Sole(s, lpush(s, k, items), k,
                   Upserted(s.store[k], "List", Reverse(items) \o ListIn(s.store[k]), Reverse(items)))
           /\ Sole(s, rpush(s, k, items), k,
                   Upserted(s.store[k], "List", ListIn(s.store[k]) \o items, items))
<1> DEFINE list == ListOf(s, k)
           first == Reverse(items)
<1>1. list \in Seq(Char)
  BY ContentsType
<1>2. list = ListIn(s.store[k])
  BY DEF ListOf, ListIn, Has, Is
<1>3. first \in Seq(Char)
  BY DEF Reverse
<1> HIDE DEF first, list
<1>4. first \o list \in Seq(Char) /\ list \o items \in Seq(Char)
  BY <1>1, <1>3
<1>5. /\ [type |-> "List", data |-> first \o list] \in Value
      /\ [type |-> "List", data |-> list \o items] \in Value
      /\ [type |-> "List", data |-> first] \in Value
      /\ [type |-> "List", data |-> items] \in Value
  BY <1>3, <1>4, ValueType
<1>6. /\ Sole(s, Upsert(s, k, "List", first \o list, first), k,
              Upserted(s.store[k], "List", first \o list, first))
      /\ Sole(s, Upsert(s, k, "List", list \o items, items), k,
              Upserted(s.store[k], "List", list \o items, items))
  BY <1>5, UpsertSole
<1> QED BY <1>2, <1>6 DEF lpush, rpush, first, list

LEMMA PopSole ==
    ASSUME NEW s, StateOK(s), NEW k \in Keys
    PROVE  /\ Sole(s, lpop(s, k), k,
                   IF ListIn(s.store[k]) = <<>> THEN s.store[k]
                   ELSE Holding("List", Tail(ListIn(s.store[k])), s.store[k].expires_at))
           /\ Sole(s, rpop(s, k), k,
                   IF ListIn(s.store[k]) = <<>> THEN s.store[k]
                   ELSE Holding("List", Front(ListIn(s.store[k])), s.store[k].expires_at))
<1> DEFINE list == ListOf(s, k)
<1>1. list \in Seq(Char)
  BY ContentsType
<1>2. list = ListIn(s.store[k])
  BY DEF ListOf, ListIn, Has, Is
<1>3. CASE list = <<>>
  BY <1>2, <1>3, SkipSole DEF lpop, rpop
<1>4. CASE list # <<>>
  <2>1. s.store[k] # None
    BY <1>4 DEF ListOf, Has
  <2> HIDE DEF list
  <2>2. Tail(list) \in Seq(Char) /\ Front(list) \in Seq(Char)
    BY <1>1, <1>4 DEF Front
  <2>3. [type |-> "List", data |-> Tail(list)] \in Value /\ [type |-> "List", data |-> Front(list)] \in Value
    BY <2>2, ValueType
  <2>4. /\ Sole(s, Update(s, k, [type |-> "List", data |-> Tail(list)]), k,
                Holding("List", Tail(list), s.store[k].expires_at))
        /\ Sole(s, Update(s, k, [type |-> "List", data |-> Front(list)]), k,
                Holding("List", Front(list), s.store[k].expires_at))
    BY <2>1, <2>3, UpdateSole DEF Holding
  <2> QED BY <1>2, <1>4, <2>4 DEF lpop, rpop, list
<1> QED BY <1>3, <1>4
LEMMA DeleteSole ==
    ASSUME NEW s, StateOK(s), ~in_transaction(s), NEW k \in Keys
    PROVE  Sole(s, delete(s, k), k, None)
<1>1. CASE s.store[k] = None
  BY <1>1, SkipSole DEF delete
<1>2. CASE s.store[k] # None
  BY <1>2, ReplaceSole DEF delete, Slot
<1> QED BY <1>1, <1>2

LEMMA IncrSole ==
    ASSUME NEW s, StateOK(s), NEW k \in Keys, NEW amount \in Int
    PROVE  Sole(s, incrby(s, k, amount), k,
                IF Is(s.store[k], "Int")
                THEN Holding("Int", wrap(s.store[k].value.data + amount), s.store[k].expires_at)
                ELSE s.store[k])
<1>1. CASE ~Has(s, k, "Int")
  BY <1>1, SkipSole DEF incrby, Has, Is
<1>2. CASE Has(s, k, "Int")
  <2> DEFINE n == wrap(s.store[k].value.data + amount)
  <2>1. s.store[k].value.data \in I64
    BY <1>2, StoredEntry, DataType DEF Has
  <2>2. n \in I64
    BY <2>1, WrapType, BoundsAssumption DEF I64
  <2> HIDE DEF n
  <2>3. [type |-> "Int", data |-> n] \in Value
    BY <2>2, ValueType
  <2>4. Sole(s, Update(s, k, [type |-> "Int", data |-> n]), k, Holding("Int", n, s.store[k].expires_at))
    BY <1>2, <2>3, UpdateSole DEF Holding, Has
  <2> QED BY <1>2, <2>4 DEF incrby, Has, Is, n
<1> QED BY <1>1, <1>2

LEMMA AppendSole ==
    ASSUME NEW s, StateOK(s), ~in_transaction(s), NoLimit, NEW k \in Keys, NEW text \in Seq(Char)
    PROVE  Sole(s, append(s, k, text), k,
                IF s.store[k] = None
                THEN IF validate_value(Str(text)) THEN Holding("Str", text, None) ELSE s.store[k]
                ELSE IF Is(s.store[k], "Str")
                THEN Holding("Str", s.store[k].value.data \o text, s.store[k].expires_at)
                ELSE s.store[k])
<1>1. CASE s.store[k] = None
  <2>1. append(s, k, text) = set(s, k, Str(text), None)
    BY <1>1 DEF append, Str
  <2> QED BY <1>1, <2>1, SetSole
<1>2. CASE Has(s, k, "Str")
  <2> DEFINE d == s.store[k].value.data \o text
  <2>1. s.store[k].value.data \in Seq(Char)
    BY <1>2, StoredEntry, DataType DEF Has
  <2>2. d \in Seq(Char)
    BY <2>1
  <2> HIDE DEF d
  <2>3. [type |-> "Str", data |-> d] \in Value
    BY <2>2, ValueType
  <2>4. Sole(s, Update(s, k, [type |-> "Str", data |-> d]), k, Holding("Str", d, s.store[k].expires_at))
    BY <1>2, <2>3, UpdateSole DEF Holding, Has
  <2> QED BY <1>2, <2>4 DEF append, Has, Is, d
<1>3. CASE s.store[k] # None /\ ~Has(s, k, "Str")
  BY <1>3, SkipSole DEF append, Has, Is
<1> QED BY <1>1, <1>2, <1>3

LEMMA RetimeSole ==
    ASSUME NEW s, StateOK(s), NEW k \in Keys, NEW ttl \in Nat, NEW t \in Nat
    PROVE  /\ Sole(s, expire(s, k, ttl, t), k,
                   IF s.store[k] = None \/ IsExpired(s.store[k], t) THEN s.store[k]
                   ELSE [value |-> s.store[k].value, expires_at |-> checked_add(t, ttl)])
           /\ Sole(s, persist(s, k), k,
                   IF s.store[k] = None \/ s.store[k].expires_at = None THEN s.store[k]
                   ELSE [value |-> s.store[k].value, expires_at |-> None])
<1>1. CASE s.store[k] = None
  BY <1>1, SkipSole DEF expire, persist
<1>2. CASE s.store[k] # None
  <2> DEFINE timed == [value |-> s.store[k].value, expires_at |-> checked_add(t, ttl)]
             kept == [value |-> s.store[k].value, expires_at |-> None]
  <2>1. timed \in Slot /\ kept \in Slot
    BY <1>2, StoredEntry, EntryType, CheckedAddType DEF Slot
  <2> HIDE DEF timed, kept
  <2>2. /\ Sole(s, emit_keyspace_event([s EXCEPT !.store = [@ EXCEPT ![k] = timed]], "set", k), k, timed)
        /\ Sole(s, emit_keyspace_event([s EXCEPT !.store = [@ EXCEPT ![k] = kept]], "set", k), k, kept)
    BY <1>2, <2>1, ReplaceSole
  <2> QED BY <1>2, <2>2, SkipSole DEF expire, persist, timed, kept
<1> QED BY <1>1, <1>2

\* A command on one key does to its entry what After says and nothing else.
LEMMA ApplyIs ==
    ASSUME NEW s, StateOK(s), ~in_transaction(s), NoLimit, NEW c, Single(c), NEW t \in Nat
    PROVE  Sole(s, Apply(s, c, t), c.key, After(s.store[c.key], c, t))
<1> USE DEF Single
<1>1. Ttls \ {None} \subseteq Nat
  BY ServerAssumption
<1>2. CASE c.op = "set"
  <2> DEFINE x == IF c.ttl = None THEN None ELSE checked_add(t, c.ttl)
  <2>1. x \in Nat \cup {None}
    BY <1>1, <1>2, CheckedAddType
  <2>2. Apply(s, c, t) = set(s, c.key, Str(c.text), x)
    BY <1>2 DEF Apply, set_with_ttl
  <2> HIDE DEF x
  <2>3. Sole(s, set(s, c.key, Str(c.text), x), c.key,
             IF c.key \notin Keys \/ ~validate_value(Str(c.text)) THEN s.store[c.key]
             ELSE Holding("Str", c.text, x))
    BY <1>2, <2>1, SetSole
  <2> QED BY <1>2, <2>2, <2>3 DEF After, x
<1>3. CASE c.op = "delete"
  BY <1>3, DeleteSole DEF Apply, After
<1>4. CASE c.op = "incrby"
  <2>1. Apply(s, c, t) = incrby(s, c.key, c.amount)
    BY <1>4 DEF Apply
  <2> QED BY <1>4, <2>1, IncrSole DEF After
<1>5. CASE c.op = "append"
  <2>1. Apply(s, c, t) = append(s, c.key, c.text)
    BY <1>5 DEF Apply
  <2> QED BY <1>5, <2>1, AppendSole DEF After
<1>6. CASE c.op = "expire"
  <2>1. Apply(s, c, t) = expire(s, c.key, c.ttl, t)
    BY <1>6 DEF Apply
  <2> QED BY <1>1, <1>6, <2>1, RetimeSole DEF After
<1>7. CASE c.op = "persist"
  <2>1. Apply(s, c, t) = persist(s, c.key)
    BY <1>7 DEF Apply
  <2>2. 0 \in Nat
    OBVIOUS
  <2> QED BY <1>7, <2>1, <2>2, RetimeSole DEF After
<1>8. CASE c.op \in {"lpush", "rpush"}
  <2>1. Apply(s, c, t) = IF c.op = "lpush" THEN lpush(s, c.key, c.text) ELSE rpush(s, c.key, c.text)
    BY <1>8 DEF Apply
  <2> QED BY <1>8, <2>1, PushSole DEF After
<1>9. CASE c.op \in {"lpop", "rpop"}
  <2>1. Apply(s, c, t) = IF c.op = "lpop" THEN lpop(s, c.key) ELSE rpop(s, c.key)
    BY <1>9 DEF Apply
  <2> QED BY <1>9, <2>1, PopSole DEF After
<1>10. CASE c.op = "hset"
  <2>1. Apply(s, c, t) = hset(s, c.key, c.field, c.value)
    BY <1>10 DEF Apply
  <2> QED BY <1>10, <2>1, HashSole DEF After
<1>11. CASE c.op = "hdel"
  <2>1. Apply(s, c, t) = hdel(s, c.key, c.field)
    BY <1>11 DEF Apply
  <2> QED BY <1>11, <2>1, HdelSole DEF After
<1>12. CASE c.op = "hincrby"
  <2> DEFINE text == 2 * wrap(Count(s.store[c.key], c.field) + c.amount)
  <2>1. text \in FieldText \cup {None} /\ Apply(s, c, t) = hset(s, c.key, c.field, text)
    BY <1>12, CountType DEF Apply, hincrby
  <2>2. After(s.store[c.key], c, t) = WithField(s.store[c.key], c.field, text)
    BY <1>12 DEF After
  <2> HIDE DEF text
  <2> QED BY <1>12, <2>1, <2>2, HashSole
<1> QED BY <1>2, <1>3, <1>4, <1>5, <1>6, <1>7, <1>8, <1>9, <1>10, <1>11, <1>12 DEF SingleOps

-----------------------------------------------------------------------------
(* Every command, in a transaction or not *)

\* The queue of s is about keys of X.
QueueIn(s, X) ==
    in_transaction(s) =>
        \A i \in 1..Len(s.transaction_queue) : s.transaction_queue[i].key \in X

\* t comes from s by work on keys of X.
Within(s, t, X) ==
    /\ StateOK(t)
    /\ NoLimit => \A k \in Keys \ X : t.store[k] = s.store[k]
    /\ QueueIn(s, X) => QueueIn(t, X)

\* The command c is about keys of X.
KeysIn(c, X) ==
    c.op \notin {"multi", "exec", "discard"} =>
        c.key \in X /\ (c.op \in {"mset", "pfmerge"} => c.other \in X)

LEMMA WithinSelf ==
    ASSUME NEW s, StateOK(s), NEW X
    PROVE  Within(s, s, X)
  BY DEF Within

LEMMA WithinThen ==
    ASSUME NEW s, NEW t, NEW u, NEW X, Within(s, t, X), Within(t, u, X)
    PROVE  Within(s, u, X)
  BY DEF Within

LEMMA SoleWithin ==
    ASSUME NEW s, NEW t, NEW k, NEW e, NEW X, Sole(s, t, k, e), k \in X
    PROVE  Within(s, t, X)
  BY DEF Within, Sole, QueueIn, in_transaction

\* Nothing but a Set or a Delete is ever queued, and each has its key.
LEMMA QueueAddsKey ==
    ASSUME NEW s, StateOK(s), in_transaction(s), NEW op \in TransactionOp, NEW X, op.key \in X
    PROVE  Within(s, queue_operation(s, op), X)
<1> DEFINE t == queue_operation(s, op)
<1>1. StateOK(t)
  BY QueueOK
<1>2. t.store = s.store /\ t.transaction_queue = Append(s.transaction_queue, op)
  BY DEF queue_operation, StateOK, IsKv
<1>3. s.transaction_queue \in Seq(TransactionOp)
  BY DEF StateOK, in_transaction
<1>4. \A i \in 1..Len(t.transaction_queue) :
        t.transaction_queue[i] = op \/ (i \in 1..Len(s.transaction_queue)
                                        /\ t.transaction_queue[i] = s.transaction_queue[i])
  BY <1>2, <1>3
<1> HIDE DEF t
<1>5. QueueIn(s, X) => QueueIn(t, X)
  BY <1>4 DEF QueueIn
<1> QED BY <1>1, <1>2, <1>5 DEF Within, t

LEMMA SetWithin ==
    ASSUME NEW s, StateOK(s), NEW k, NEW v \in Value, NEW x \in Nat \cup {None}, NEW X,
           k \in Keys => k \in X
    PROVE  Within(s, set(s, k, v, x), X)
<1>1. CASE k \notin Keys \/ ~validate_value(v)
  BY <1>1, WithinSelf DEF set
<1>2. CASE k \in Keys /\ validate_value(v) /\ in_transaction(s)
  <2> DEFINE op == [op |-> "Set", key |-> k, entry |-> [value |-> v, expires_at |-> x]]
  <2>1. op \in TransactionOp /\ op.key \in X
    BY <1>2, EntryType DEF TransactionOp
  <2>2. set(s, k, v, x) = queue_operation(s, op)
    BY <1>2 DEF set
  <2> QED BY <1>2, <2>1, <2>2, QueueAddsKey
<1>3. CASE k \in Keys /\ validate_value(v) /\ ~in_transaction(s)
  <2> DEFINE t == Insert(s, k, v, x)
  <2>1. set(s, k, v, x) = t
    BY <1>3 DEF set
  <2>2. CASE NoLimit
    <3>1. Sole(s, t, k, [value |-> v, expires_at |-> x])
      BY <1>3, <2>2, InsertSole
    <3> QED BY <1>3, <2>1, <3>1, SoleWithin
  <2>3. CASE ~NoLimit
    <3>1. StateOK(t)
      BY <1>3, InsertOK
    <3>2. t.transaction_queue = s.transaction_queue
      BY DEF Insert, Write, enforce_memory_limit, emit_keyspace_event, StateOK, IsKv
    <3> HIDE DEF t
    <3> QED BY <1>3, <2>1, <2>3, <3>1, <3>2 DEF Within, QueueIn, in_transaction
  <2> QED BY <2>2, <2>3
<1> QED BY <1>1, <1>2, <1>3

LEMMA DeleteWithin ==
    ASSUME NEW s, StateOK(s), NEW k \in Keys, NEW X, k \in X
    PROVE  Within(s, delete(s, k), X)
<1>1. CASE in_transaction(s)
  <2> DEFINE op == [op |-> "Delete", key |-> k]
  <2>1. op \in TransactionOp /\ op.key \in X
    BY DEF TransactionOp
  <2>2. delete(s, k) = queue_operation(s, op)
    BY <1>1 DEF delete
  <2> QED BY <1>1, <2>1, <2>2, QueueAddsKey
<1>2. CASE ~in_transaction(s)
  BY <1>2, DeleteSole, SoleWithin
<1> QED BY <1>1, <1>2

LEMMA AppendWithin ==
    ASSUME NEW s, StateOK(s), NEW k \in Keys, NEW text \in Seq(Char), NEW X, k \in X
    PROVE  Within(s, append(s, k, text), X)
<1>1. CASE s.store[k] = None
  <2>1. [type |-> "Str", data |-> text] \in Value
    BY ValueType
  <2> QED BY <1>1, <2>1, SetWithin DEF append
<1>2. CASE s.store[k] # None /\ Has(s, k, "Str")
  <2>1. s.store[k].value.data \in Seq(Char)
    BY <1>2, StoredEntry, DataType DEF Has
  <2>2. s.store[k].value.data \o text \in Seq(Char)
    BY <2>1
  <2>3. [type |-> "Str", data |-> s.store[k].value.data \o text] \in Value
    BY <2>2, ValueType
  <2> QED BY <1>2, <2>3, UpdateSole, SoleWithin DEF append
<1>3. CASE s.store[k] # None /\ ~Has(s, k, "Str")
  BY <1>3, WithinSelf DEF append
<1> QED BY <1>1, <1>2, <1>3

LEMMA SketchWithin ==
    ASSUME NEW s, StateOK(s), NEW k \in Keys, NEW items \in SUBSET Char, NEW precision \in Nat,
           NEW X, k \in X
    PROVE  Within(s, pfreserve(s, k, precision), X) /\ Within(s, pfadd(s, k, items), X)
<1>1. Within(s, pfreserve(s, k, precision), X)
  <2>1. NewSketch(precision) \in Sketch
    BY DEF NewSketch, Sketch
  <2>2. [type |-> "HyperLogLog", data |-> NewSketch(precision)] \in Value
    BY <2>1, ValueType
  <2>3. Within(s, Create(s, k, [type |-> "HyperLogLog", data |-> NewSketch(precision)]), X)
    BY <2>2, CreateSole, SoleWithin
  <2> QED BY <2>3, WithinSelf DEF pfreserve
<1>2. Within(s, pfadd(s, k, items), X)
  <2> DEFINE h == [SketchOf(s, k) EXCEPT !.seen = @ \cup items]
  <2>1. h \in Sketch
    BY ContentsType DEF Sketch
  <2> HIDE DEF h
  <2>2. [type |-> "HyperLogLog", data |-> h] \in Value
    BY <2>1, ValueType
  <2>3. Within(s, Upsert(s, k, "HyperLogLog", h, h), X)
    BY <2>2, UpsertSole, SoleWithin
  <2>4. pfadd(s, k, items) \in {s, Upsert(s, k, "HyperLogLog", h, h)}
    BY DEF pfadd, h
  <2> QED BY <2>3, <2>4, WithinSelf
<1> QED BY <1>1, <1>2

LEMMA PfMergeWithin ==
    ASSUME NEW s, StateOK(s), NEW k \in Keys, NEW src \in Keys, NEW X, k \in X
    PROVE  Within(s, pfmerge(s, k, src), X)
<1> DEFINE t == pfmerge(s, k, src)
<1>1. StateOK(t) /\ \A j \in Keys : j # k => t.store[j] = s.store[j]
  BY PfMergeOK
<1>2. t.transaction_queue = s.transaction_queue
  BY DEF pfmerge, Create, Write, StateOK, IsKv
<1> HIDE DEF t
<1> QED BY <1>1, <1>2 DEF Within, QueueIn, in_transaction, t

LEMMA HashWithin ==
    ASSUME NEW s, StateOK(s), NEW k \in Keys, NEW f \in Fields, NEW amount \in Int, NEW X, k \in X
    PROVE  Within(s, hincrby(s, k, f, amount), X) /\ Within(s, hincrbyfloat(s, k, f, amount), X)
<1> DEFINE whole == 2 * wrap(Current(s, k, f, parse_i64) + amount)
           half == Current(s, k, f, parse_f64) + amount
<1>1. whole \in FieldText \cup {None} /\ half \in FieldText \cup {None}
  BY CountType
<1>2. hincrby(s, k, f, amount) = hset(s, k, f, whole) /\ hincrbyfloat(s, k, f, amount) = hset(s, k, f, half)
  BY DEF hincrby, hincrbyfloat
<1> HIDE DEF whole, half
<1>3. Within(s, hset(s, k, f, whole), X) /\ Within(s, hset(s, k, f, half), X)
  BY <1>1, HashSole, SoleWithin
<1> QED BY <1>2, <1>3

\* A queue has a last operation on every key, or none.
LEMMA LastOpThere ==
    ASSUME NEW queue, Len(queue) \in Nat, NEW k
    PROVE  \E j \in 0..Len(queue) : IsLastOp(queue, k, j)
<1> DEFINE n == Len(queue)
           good == {m \in 0..n : \E j \in 0..m : LastAmong(queue, m, k, j)}
<1>1. 0 \in good
  <2>1. LastAmong(queue, 0, k, 0) /\ 0 \in 0..0 /\ 0 \in 0..n
    BY DEF LastAmong
  <2> QED BY <2>1
<1>2. ASSUME NEW m \in 0..n, m \in good, m < n
      PROVE  m + 1 \in good
  <2>1. PICK j \in 0..m : LastAmong(queue, m, k, j)
    BY <1>2
  <2> DEFINE i == IF queue[m + 1].key = k THEN m + 1 ELSE j
  <2>2. i \in 0..(m + 1) /\ m + 1 \in 0..n
    BY <1>2
  <2>3. \A p \in 1..(m + 1) : p \in 1..m \/ p = m + 1
    OBVIOUS
  <2>4. LastAmong(queue, m + 1, k, i)
    BY <2>1, <2>2, <2>3 DEF LastAmong
  <2> HIDE DEF i
  <2> QED BY <2>2, <2>4
<1>3. n \in good
  <2> HIDE DEF good
  <2>1. \A m \in 0..n : m \in good /\ m < n => m + 1 \in good
    BY <1>2
  <2>2. \A m \in 0..n : m \in good
    BY <1>1, <2>1, PositionInduction
  <2>3. n \in 0..n
    OBVIOUS
  <2> QED BY <2>2, <2>3
<1>4. PICK j \in 0..n : LastAmong(queue, n, k, j)
  BY <1>3
<1> QED BY <1>4, LastOpOK

\* exec has a result.
LEMMA ExecThere ==
    ASSUME NEW s, StateOK(s), in_transaction(s)
    PROVE  ExecResults(s) # {}
<1> DEFINE queue == s.transaction_queue
           n == Len(queue)
           last == [k \in Keys |-> CHOOSE j \in 0..n : IsLastOp(queue, k, j)]
<1>1. n \in Nat /\ Len(s.lru_order) \in Nat
  BY DEF StateOK, in_transaction, LruOK
<1>2. last \in {f \in [Keys -> 0..n] : \A k \in Keys : IsLastOp(queue, k, f[k])}
  BY <1>1, LastOpThere
<1>3. PICK kept : kept \in Ascending(Unmoved(s))
  <2>1. Unmoved(s) \in SUBSET (1..Len(s.lru_order))
    BY DEF Unmoved
  <2> QED BY <1>1, <2>1, OneAscending
<1>4. PICK moved : moved \in Ascending(LastSets(queue))
  <2>1. LastSets(queue) \in SUBSET (1..n)
    BY DEF LastSets
  <2> QED BY <1>1, <2>1, OneAscending
<1> HIDE DEF last
<1>5. exec(s, last, kept, moved) \in ExecResults(s)
  BY <1>2, <1>3, <1>4 DEF ExecResults
<1> QED BY <1>5

\* It touches the keys of the queue.
LEMMA ExecWithin ==
    ASSUME NEW s, StateOK(s), NEW t, t \in ExecResults(s), in_transaction(s), NEW X, QueueIn(s, X)
    PROVE  Within(s, t, X)
<1>1. PICK last \in [Keys -> 0..Len(s.transaction_queue)],
           kept \in Ascending(Unmoved(s)), moved \in Ascending(LastSets(s.transaction_queue)) :
             /\ \A k \in Keys : IsLastOp(s.transaction_queue, k, last[k])
             /\ t = exec(s, last, kept, moved)
  BY DEF ExecResults
<1>2. StateOK(t)
  BY ExecOK
<1>3. t.transaction_queue = None
  BY <1>1 DEF exec, StateOK, IsKv
<1>4. ASSUME NEW k \in Keys, k \notin X
      PROVE  t.store[k] = s.store[k]
  <2>1. last[k] = 0
    <3>1. SUFFICES ASSUME last[k] # 0 PROVE FALSE
      OBVIOUS
    <3>2. last[k] \in 1..Len(s.transaction_queue)
      BY <3>1
    <3>3. s.transaction_queue[last[k]].key = k
      BY <1>1, <3>1 DEF IsLastOp
    <3> QED BY <1>4, <3>2, <3>3 DEF QueueIn
  <2> QED BY <1>1, <2>1 DEF exec, StateOK, IsKv
<1> QED BY <1>2, <1>3, <1>4 DEF Within, QueueIn, in_transaction

LEMMA TransactionWithin ==
    ASSUME NEW s, StateOK(s), NEW X
    PROVE  Within(s, multi(s), X) /\ Within(s, discard(s), X)
<1>1. ASSUME NEW queue \in {<<>>, None}
      PROVE  Within(s, [s EXCEPT !.transaction_queue = queue], X)
  <2> DEFINE t == [s EXCEPT !.transaction_queue = queue]
  <2>1. /\ IsKv(t) /\ t.store = s.store /\ t.memory_bytes = s.memory_bytes
        /\ t.total_writes = s.total_writes /\ t.lru_order = s.lru_order
        /\ t.transaction_queue = queue /\ t.events = s.events /\ t.notify = s.notify
    BY DEF StateOK, IsKv
  <2>2. queue \in Seq(TransactionOp) \cup {None}
    <3>1. <<>> \in Seq(TransactionOp)
      OBVIOUS
    <3> QED BY <1>1, <3>1
  <2> HIDE DEF t
  <2>3. StateOK(t)
    BY <2>1, <2>2 DEF StateOK
  <2> QED BY <2>1, <2>3 DEF Within, QueueIn, in_transaction, t
<1> QED BY <1>1, WithinSelf DEF multi, discard

\* What the fields of a command are.
CommandFields(c) ==
    /\ c.op \in SingleOps \/ c.op \in {"getset", "mset", "hincrbyfloat", "pfadd", "pfreserve",
                                       "pfmerge", "multi", "exec", "discard"}
    /\ c.op \in SingleOps => Single(c)
    /\ c.op \in {"getset", "mset", "pfadd"} => c.key \in Keys /\ c.text \in Seq(Char)
    /\ c.op \in {"mset", "pfmerge"} => c.key \in Keys /\ c.other \in Keys
    /\ c.op = "hincrbyfloat" => c.key \in Keys /\ c.field \in Fields /\ c.amount \in Int
    /\ c.op = "pfreserve" => c.key \in Keys /\ c.amount \in Nat

LEMMA KeyCommandSingle == ASSUME NEW c \in KeyCommand PROVE Single(c)
  BY ServerAssumption DEF KeyCommand, Single, SingleOps

LEMMA CommandParts == ASSUME NEW c \in Command PROVE CommandFields(c)
<1>1. CASE c \in KeyCommand
  <2>1. Single(c)
    BY <1>1, KeyCommandSingle
  <2> QED BY <2>1 DEF Single, SingleOps, CommandFields
<1>2. CASE c \in BareCommand
  BY <1>2, ServerAssumption DEF BareCommand, CommandFields, SingleOps
<1>3. CASE c \notin KeyCommand /\ c \notin BareCommand
  BY <1>3, ServerAssumption DEF Command, CommandFields, SingleOps
<1> QED BY <1>1, <1>2, <1>3

LEMMA TextSet == ASSUME NEW text \in Seq(Char) PROVE ToSet(text) \in SUBSET Char
<1>1. \A i \in DOMAIN text : text[i] \in Char
  OBVIOUS
<1> QED BY <1>1 DEF ToSet

\* A command touches its keys and those of the queue.
LEMMA ApplyWithin ==
    ASSUME NEW s, StateOK(s), NEW c \in Command, NEW t \in Nat, NEW X, QueueIn(s, X), KeysIn(c, X)
    PROVE  Within(s, Apply(s, c, t), X)
<1> USE DEF KeysIn
<1>0. CommandFields(c)
  BY CommandParts
<1>1. \A text \in Seq(Char) : Str(text) \in Value
  BY ValueType DEF Str
<1>2. None \in Nat \cup {None} /\ c.op \in SingleOps => Single(c)
  BY <1>0 DEF CommandFields
<1>3. CASE c.op = "set"
  <2> DEFINE x == IF c.ttl = None THEN None ELSE checked_add(t, c.ttl)
  <2>1. Single(c)
    BY <1>0, <1>3 DEF CommandFields, SingleOps
  <2>2. c.text \in Seq(Char) /\ (c.ttl = None \/ c.ttl \in Nat)
    BY <1>3, <2>1, ServerAssumption DEF Single
  <2>3. x \in Nat \cup {None}
    BY <2>2, CheckedAddType
  <2>4. Apply(s, c, t) = set(s, c.key, Str(c.text), x)
    BY <1>3 DEF Apply, set_with_ttl
  <2> HIDE DEF x
  <2> QED BY <1>1, <1>3, <2>2, <2>3, <2>4, SetWithin
<1>4. CASE c.op \in SingleOps /\ c.op # "set"
  <2>1. Single(c) /\ c.key \in Keys /\ c.key \in X
    BY <1>0, <1>4 DEF CommandFields, Single, SingleOps
  <2>2. CASE c.op = "delete"
    BY <2>1, <2>2, DeleteWithin DEF Apply
  <2>3. CASE c.op = "append"
    <3>1. c.text \in Seq(Char)
      BY <2>1, <2>3 DEF Single
    <3> QED BY <2>1, <2>3, <3>1, AppendWithin DEF Apply
  <2>4. CASE c.op = "incrby"
    <3>1. Apply(s, c, t) = incrby(s, c.key, c.amount) /\ c.amount \in Int
      BY <2>1, <2>4 DEF Apply, Single
    <3> QED BY <2>1, <3>1, IncrSole, SoleWithin
  <2>5. CASE c.op = "expire"
    <3>1. Apply(s, c, t) = expire(s, c.key, c.ttl, t) /\ c.ttl \in Nat
      BY <2>1, <2>5, ServerAssumption DEF Apply, Single
    <3> QED BY <2>1, <3>1, RetimeSole, SoleWithin
  <2>6. CASE c.op = "persist"
    <3>1. Apply(s, c, t) = persist(s, c.key) /\ 0 \in Nat
      BY <2>6 DEF Apply
    <3> QED BY <2>1, <3>1, RetimeSole, SoleWithin
  <2>7. CASE c.op \in {"lpush", "rpush"}
    <3>1. /\ Apply(s, c, t) = IF c.op = "lpush" THEN lpush(s, c.key, c.text) ELSE rpush(s, c.key, c.text)
          /\ c.text \in Seq(Char)
      BY <2>1, <2>7 DEF Apply, Single
    <3> QED BY <2>1, <3>1, PushSole, SoleWithin
  <2>8. CASE c.op \in {"lpop", "rpop"}
    <3>1. Apply(s, c, t) = IF c.op = "lpop" THEN lpop(s, c.key) ELSE rpop(s, c.key)
      BY <2>8 DEF Apply
    <3> QED BY <2>1, <3>1, PopSole, SoleWithin
  <2>9. CASE c.op = "hset"
    <3>1. Apply(s, c, t) = hset(s, c.key, c.field, c.value) /\ c.field \in Fields
            /\ c.value \in FieldText \cup {None}
      BY <2>1, <2>9 DEF Apply, Single
    <3> QED BY <2>1, <3>1, HashSole, SoleWithin
  <2>10. CASE c.op = "hdel"
    <3>1. Apply(s, c, t) = hdel(s, c.key, c.field) /\ c.field \in Fields
      BY <2>1, <2>10 DEF Apply, Single
    <3> QED BY <2>1, <3>1, HdelSole, SoleWithin
  <2>11. CASE c.op = "hincrby"
    <3>1. Apply(s, c, t) = hincrby(s, c.key, c.field, c.amount) /\ c.field \in Fields /\ c.amount \in Int
      BY <2>1, <2>11 DEF Apply, Single
    <3> QED BY <2>1, <3>1, HashWithin
  <2> QED BY <1>4, <2>2, <2>3, <2>4, <2>5, <2>6, <2>7, <2>8, <2>9, <2>10, <2>11 DEF SingleOps
<1>5. CASE c.op = "getset"
  <2>1. Apply(s, c, t) = set(s, c.key, Str(c.text), None) /\ c.text \in Seq(Char)
    BY <1>0, <1>5 DEF Apply, getset, CommandFields
  <2> QED BY <1>1, <1>2, <1>5, <2>1, SetWithin
<1>6. CASE c.op = "mset"
  <2> DEFINE v == Str(c.text)
             mid == set(s, c.key, v, None)
  <2>1. c.text \in Seq(Char) /\ c.key \in X /\ c.other \in X
    BY <1>0, <1>6 DEF CommandFields
  <2>2. Within(s, mid, X) /\ v \in Value
    BY <1>1, <2>1, SetWithin
  <2>3. Apply(s, c, t) = IF c.key \notin Keys \/ ~validate_value(v) THEN s ELSE set(mid, c.other, v, None)
    BY <1>6 DEF Apply, mset
  <2> HIDE DEF mid, v
  <2>4. Within(mid, set(mid, c.other, v, None), X)
    BY <2>1, <2>2, SetWithin DEF Within
  <2> QED BY <2>2, <2>3, <2>4, WithinSelf, WithinThen
<1>7. CASE c.op \in {"hincrbyfloat", "pfadd", "pfreserve", "pfmerge"}
  <2>1. c.key \in Keys /\ c.key \in X
    BY <1>0, <1>7 DEF CommandFields
  <2>2. CASE c.op = "hincrbyfloat"
    <3>1. /\ Apply(s, c, t) = hincrbyfloat(s, c.key, c.field, c.amount)
          /\ c.field \in Fields /\ c.amount \in Int
      BY <1>0, <2>2 DEF Apply, CommandFields
    <3> QED BY <2>1, <3>1, HashWithin
  <2>3. CASE c.op = "pfadd"
    <3>1. Apply(s, c, t) = pfadd(s, c.key, ToSet(c.text)) /\ c.text \in Seq(Char) /\ 0 \in Nat
      BY <1>0, <2>3 DEF Apply, CommandFields
    <3> QED BY <2>1, <3>1, SketchWithin, TextSet
  <2>4. CASE c.op = "pfreserve"
    <3>1. Apply(s, c, t) = pfreserve(s, c.key, c.amount) /\ c.amount \in Nat /\ {} \in SUBSET Char
      BY <1>0, <2>4 DEF Apply, CommandFields
    <3> QED BY <2>1, <3>1, SketchWithin
  <2>5. CASE c.op = "pfmerge"
    <3>1. Apply(s, c, t) = pfmerge(s, c.key, c.other) /\ c.other \in Keys
      BY <1>0, <2>5 DEF Apply, CommandFields
    <3> QED BY <2>1, <3>1, PfMergeWithin
  <2> QED BY <1>7, <2>2, <2>3, <2>4, <2>5
<1>8. CASE c.op = "multi" \/ c.op = "discard"
  BY <1>8, TransactionWithin DEF Apply
<1>9. CASE c.op = "exec"
  <2>1. CASE in_transaction(s)
    <3>1. Apply(s, c, t) \in ExecResults(s)
      BY <1>9, <2>1, ExecThere DEF Apply
    <3> QED BY <2>1, <3>1, ExecWithin
  <2>2. CASE ~in_transaction(s)
    BY <1>9, <2>2, WithinSelf DEF Apply
  <2> QED BY <2>1, <2>2
<1> QED BY <1>0, <1>3, <1>4, <1>5, <1>6, <1>7, <1>8, <1>9 DEF CommandFields

\* The commands one after the other: the recursion has a solution.
AppliedBody(s, cmds, t, r) ==
    r = [n \in 0..Len(cmds) |-> IF n = 0 THEN s ELSE Apply(r[n - 1], cmds[n], t)]

LEMMA AppliedIs ==
    ASSUME NEW s, NEW cmds, Len(cmds) \in Nat, NEW t
    PROVE  /\ AppliedBody(s, cmds, t, Applied(s, cmds, t))
           /\ Applied(s, cmds, t)[0] = s
           /\ \A n \in 1..Len(cmds) : Applied(s, cmds, t)[n] = Apply(Applied(s, cmds, t)[n - 1], cmds[n], t)
<1> DEFINE len == Len(cmds)
           Body(r, m) == [i \in 0..m |-> IF i = 0 THEN s ELSE Apply(r[i - 1], cmds[i], t)]
           good == {m \in 0..len : \E r : r = Body(r, m)}
<1>1. 0 \in good
  <2> DEFINE r == [i \in 0..0 |-> s]
  <2>1. r = Body(r, 0)
    OBVIOUS
  <2>2. \E x : x = Body(x, 0)
    <3> HIDE DEF r
    <3> QED BY <2>1
  <2>3. 0 \in 0..len
    OBVIOUS
  <2> QED BY <2>2, <2>3
<1>2. ASSUME NEW m \in 0..len, m \in good, m < len
      PROVE  m + 1 \in good
  <2>1. PICK r : r = Body(r, m)
    BY <1>2
  <2> DEFINE f == [i \in 0..(m + 1) |-> IF i = m + 1 THEN Apply(r[m], cmds[m + 1], t) ELSE r[i]]
  <2>2. \A i \in 0..m : r[i] = IF i = 0 THEN s ELSE Apply(r[i - 1], cmds[i], t)
    BY <2>1
  <2>3. /\ \A i \in 0..m : i \in 0..(m + 1) /\ i # m + 1 /\ f[i] = r[i]
        /\ m + 1 \in 0..(m + 1) /\ m + 1 # 0 /\ (m + 1) - 1 = m /\ m \in 0..m
        /\ f[m + 1] = Apply(r[m], cmds[m + 1], t)
        /\ \A i \in 0..(m + 1) : i = m + 1 \/ i \in 0..m
        /\ \A i \in 0..m : i # 0 => i - 1 \in 0..m
    OBVIOUS
  <2>4. f = [i \in 0..(m + 1) |-> f[i]]
    OBVIOUS
  <2> HIDE DEF f
  <2>5. \A i \in 0..(m + 1) : f[i] = IF i = 0 THEN s ELSE Apply(f[i - 1], cmds[i], t)
    <3>1. f[m + 1] = Apply(f[(m + 1) - 1], cmds[m + 1], t)
      BY <2>3
    <3>2. \A i \in 0..m : f[i] = IF i = 0 THEN s ELSE Apply(f[i - 1], cmds[i], t)
      BY <2>2, <2>3
    <3> QED BY <2>3, <3>1, <3>2
  <2>6. f = Body(f, m + 1)
    BY <2>4, <2>5
  <2>7. m + 1 \in 0..len
    BY <1>2
  <2> QED BY <2>6, <2>7
<1>3. len \in good
  <2> HIDE DEF good
  <2>1. \A m \in 0..len : m \in good /\ m < len => m + 1 \in good
    BY <1>2
  <2>2. \A m \in 0..len : m \in good
    BY <1>1, <2>1, PositionInduction
  <2>3. len \in 0..len
    OBVIOUS
  <2> QED BY <2>2, <2>3
<1>4. \E r : r = Body(r, len)
  BY <1>3
<1>5. Applied(s, cmds, t) = CHOOSE r : r = Body(r, len)
  BY DEF Applied
<1>6. Applied(s, cmds, t) = Body(Applied(s, cmds, t), len)
  BY <1>4, <1>5
<1>7. AppliedBody(s, cmds, t, Applied(s, cmds, t))
  BY <1>6 DEF AppliedBody
<1> HIDE DEF Body
<1>8. /\ Applied(s, cmds, t)[0] = s
      /\ \A n \in 1..Len(cmds) : Applied(s, cmds, t)[n] = Apply(Applied(s, cmds, t)[n - 1], cmds[n], t)
  <2>1. PICK r : r = Applied(s, cmds, t)
    OBVIOUS
  <2>2. r = [n \in 0..Len(cmds) |-> IF n = 0 THEN s ELSE Apply(r[n - 1], cmds[n], t)]
    BY <1>7, <2>1 DEF AppliedBody
  <2> QED BY <2>1, <2>2
<1> QED BY <1>7, <1>8

\* So do several, one after the other.
LEMMA AppliedWithin ==
    ASSUME NEW s, StateOK(s), NEW cmds \in Seq(Command), NEW t \in Nat, NEW X, QueueIn(s, X),
           \A i \in 1..Len(cmds) : KeysIn(cmds[i], X)
    PROVE  Within(s, Applied(s, cmds, t)[Len(cmds)], X)
<1> DEFINE len == Len(cmds)
           a(n) == Applied(s, cmds, t)[n]
           good == {m \in 0..len : Within(s, a(m), X)}
<1>0. len \in Nat
  OBVIOUS
<1>1. a(0) = s /\ \A n \in 1..len : a(n) = Apply(a(n - 1), cmds[n], t)
  BY AppliedIs
<1>2. 0 \in good
  <2>1. 0 \in 0..len
    OBVIOUS
  <2> QED BY <1>1, <2>1, WithinSelf
<1>3. ASSUME NEW m \in 0..len, m \in good, m < len
      PROVE  m + 1 \in good
  <2>1. m + 1 \in 0..len /\ m + 1 \in 1..len /\ (m + 1) - 1 = m
    BY <1>3
  <2>2. Within(s, a(m), X) /\ a(m + 1) = Apply(a(m), cmds[m + 1], t)
    BY <1>1, <1>3, <2>1
  <2>3. cmds[m + 1] \in Command /\ KeysIn(cmds[m + 1], X)
    BY <2>1
  <2>4. PICK x : x = a(m)
    OBVIOUS
  <2>5. StateOK(x) /\ QueueIn(x, X)
    BY <2>2, <2>4 DEF Within
  <2>6. Within(x, Apply(x, cmds[m + 1], t), X)
    BY <2>3, <2>5, ApplyWithin
  <2>7. Within(s, a(m + 1), X)
    BY <2>2, <2>4, <2>6, WithinThen
  <2> QED BY <2>1, <2>7
<1> HIDE DEF good
<1>4. \A m \in 0..len : m \in good /\ m < len => m + 1 \in good
  BY <1>3
<1>5. \A m \in 0..len : m \in good
  BY <1>0, <1>2, <1>4, PositionInduction
<1>6. len \in good
  BY <1>0, <1>5
<1> QED BY <1>6 DEF good

-----------------------------------------------------------------------------
(* The programs of the handlers *)

\* Each command is logged as JSON, and carried out next.
Plain(j) ==
    /\ j.kind # "pipeline"
    /\ \A i \in 1..Len(j.todo) :
         \/ /\ j.todo[i].do = "log" /\ j.todo[i].entry.json
            /\ j.todo[i].entry.cmd \in KeyCommand /\ j.todo[i].entry.cmd.key \in j.keys
            /\ i < Len(j.todo) /\ j.todo[i + 1] = Do(<<j.todo[i].entry.cmd>>)
         \/ /\ \E a \in KeyCommand : j.todo[i] = Do(<<a>>) /\ a.key \in j.keys
            /\ i = 1 => j.logged
            /\ i < Len(j.todo) => j.todo[i + 1].do = "log"
    /\ j.half => j.logged /\ j.todo[1].do = "log"

FloatCommand(k, f, n) == [op |-> "hincrbyfloat", key |-> k, field |-> f, amount |-> n]

LogField(k, f) == [do |-> "logfield", key |-> k, field |-> f]

\* An hincrbyfloat: carried out first, then its result logged.
Float(j) ==
    /\ j.kind = "api" /\ j.hold
    /\ \E k \in Keys, f \in Fields, n \in Int :
         /\ k \in j.keys
         /\ \/ /\ j.todo = <<Do(<<FloatCommand(k, f, n)>>), LogField(k, f)>>
               /\ ~j.half /\ ~j.logged
            \/ j.todo = <<LogField(k, f)>>

\* Entries first, then commands, all about excused keys.
Free(j, X) ==
    /\ ~j.hold /\ j.kind # "script" /\ j.keys \subseteq X
    /\ j.todo[Len(j.todo)].do = "apply"
    /\ \A i \in 1..Len(j.todo[Len(j.todo)].cmds) : KeysIn(j.todo[Len(j.todo)].cmds[i], j.keys)
    /\ \A i \in 1..(Len(j.todo) - 1) :
         /\ j.todo[i].do = "log"
         /\ j.todo[i].entry.cmd \in KeyCommand => j.todo[i].entry.cmd.key \in j.keys
    /\ j.half => j.todo[1].do = "log"

\* A script whose first command, about an excused key, is not logged.
Open(j, X) ==
    /\ j.kind = "script" /\ j.hold /\ ~j.half /\ ~j.logged
    /\ \E h, a \in KeyCommand :
         /\ j.todo = <<Do(<<h>>), Log(a, TRUE), Do(<<a>>)>>
         /\ h.key \in j.keys /\ h.key \in X /\ a.key \in j.keys

Shape(j, X) == Plain(j) \/ Float(j) \/ Free(j, X) \/ Open(j, X)

\* A first step, before or after which the log is written.
First(j) == j.todo[1].do

LEMMA TodoParts ==
    ASSUME NEW j \in Program
    PROVE  /\ Len(j.todo) \in Nat /\ Len(j.todo) >= 1 /\ 1 \in 1..Len(j.todo)
           /\ \A i \in 1..Len(j.todo) : j.todo[i] \in Instruction
           /\ \A i \in 1..Len(j.todo) :
                /\ j.todo[i].do \in {"log", "logfield", "apply"}
                /\ j.todo[i].do = "apply" => j.todo[i].cmds \in Seq(Command)
                /\ j.todo[i].do = "log" =>
                     /\ j.todo[i].entry.cmd \in KeyCommand \/ (j.todo[i].entry.cmd \in BareCommand /\ ~j.todo[i].entry.json)
                     /\ j.todo[i].entry.json \in BOOLEAN
                /\ j.todo[i].do = "logfield" => j.todo[i].key \in Keys /\ j.todo[i].field \in Fields
<1>1. j.todo \in Seq(Instruction) /\ j.todo # <<>>
  BY DEF Program
<1>2. Len(j.todo) \in Nat /\ Len(j.todo) >= 1 /\ 1 \in 1..Len(j.todo)
  BY <1>1
<1>3. \A i \in 1..Len(j.todo) : j.todo[i] \in Instruction
  BY <1>1
<1>4. \A x \in Instruction :
        /\ x.do \in {"log", "logfield", "apply"}
        /\ x.do = "apply" => x.cmds \in Seq(Command)
        /\ x.do = "log" => /\ x.entry.cmd \in KeyCommand \/ (x.entry.cmd \in BareCommand /\ ~x.entry.json)
                           /\ x.entry.json \in BOOLEAN
        /\ x.do = "logfield" => x.key \in Keys /\ x.field \in Fields
  BY DEF Instruction
<1> QED BY <1>2, <1>3, <1>4

LEMMA OpenFirst ==
    ASSUME NEW j, NEW X, Open(j, X)
    PROVE  First(j) = "apply" /\ j.todo[1].do = "apply"
<1>1. PICK h, a : j.todo = <<Do(<<h>>), Log(a, TRUE), Do(<<a>>)>>
  BY DEF Open
<1>2. j.todo[1] = Do(<<h>>)
  BY <1>1
<1> QED BY <1>2 DEF Do, First

\* What a program is about stays when it goes on.
LEMMA ShapeGrows ==
    ASSUME NEW j, NEW X, NEW Y, X \subseteq Y, Shape(j, X)
    PROVE  Shape(j, Y)
  BY DEF Shape, Free, Open

LEMMA TailShape ==
    ASSUME NEW j \in Program, NEW X, Shape(j, X), NEW i \in Program,
           i.kind = j.kind, i.hold = j.hold, i.keys = j.keys, i.logged = j.logged, ~i.half,
           i.todo = Tail(j.todo), First(j) # "apply" => j.half
    PROVE  Shape(i, X)
<1> USE DEF First
<1> DEFINE n == Len(j.todo)
<1>1. n \in Nat /\ n >= 1 /\ j.todo \in Seq(Instruction)
  BY TodoParts DEF Program
<1>2. Len(i.todo) = n - 1 /\ Len(i.todo) >= 1 /\ \A p \in 1..(n - 1) : i.todo[p] = j.todo[p + 1]
  <2>1. Len(i.todo) >= 1
    BY TodoParts
  <2> QED BY <1>1, <2>1
<1>3. n >= 2
  BY <1>1, <1>2
<1>4. CASE Plain(j)
  <2>1. j.logged
    <3>1. 1 \in 1..n
      BY <1>1
    <3>2. First(j) = "apply" => j.logged
      BY <1>4, <3>1 DEF Plain
    <3> QED BY <1>4, <3>2 DEF Plain
  <2>2. ASSUME NEW p \in 1..Len(i.todo)
        PROVE  \/ /\ i.todo[p].do = "log" /\ i.todo[p].entry.json
                  /\ i.todo[p].entry.cmd \in KeyCommand /\ i.todo[p].entry.cmd.key \in i.keys
                  /\ p < Len(i.todo) /\ i.todo[p + 1] = Do(<<i.todo[p].entry.cmd>>)
               \/ /\ \E a \in KeyCommand : i.todo[p] = Do(<<a>>) /\ a.key \in i.keys
                  /\ p = 1 => i.logged
                  /\ p < Len(i.todo) => i.todo[p + 1].do = "log"
    <3>1. p \in 1..(n - 1) /\ p + 1 \in 1..n /\ i.todo[p] = j.todo[p + 1]
      BY <1>1, <1>2
    <3>2. p + 1 < n => p < Len(i.todo) /\ i.todo[p + 1] = j.todo[(p + 1) + 1]
      BY <1>1, <1>2, <3>1
    <3>3. \/ /\ j.todo[p + 1].do = "log" /\ j.todo[p + 1].entry.json
             /\ j.todo[p + 1].entry.cmd \in KeyCommand /\ j.todo[p + 1].entry.cmd.key \in j.keys
             /\ p + 1 < n /\ j.todo[(p + 1) + 1] = Do(<<j.todo[p + 1].entry.cmd>>)
          \/ /\ \E a \in KeyCommand : j.todo[p + 1] = Do(<<a>>) /\ a.key \in j.keys
             /\ p + 1 < n => j.todo[(p + 1) + 1].do = "log"
      BY <1>4, <3>1 DEF Plain
    <3>4. p < Len(i.todo) => p + 1 < n /\ i.todo[p + 1] = j.todo[(p + 1) + 1]
      BY <1>1, <1>2
    <3> QED BY <2>1, <3>1, <3>2, <3>3, <3>4
  <2>3. Plain(i)
    BY <1>4, <2>2 DEF Plain
  <2> QED BY <2>3 DEF Shape
<1>5. CASE Float(j)
  <2>1. PICK k \in Keys, f \in Fields, m \in Int :
          k \in j.keys /\ j.todo = <<Do(<<FloatCommand(k, f, m)>>), LogField(k, f)>>
    <3>1. PICK k \in Keys, f \in Fields, m \in Int :
            k \in j.keys /\ (\/ j.todo = <<Do(<<FloatCommand(k, f, m)>>), LogField(k, f)>>
                             \/ j.todo = <<LogField(k, f)>>)
      BY <1>5 DEF Float
    <3>2. j.todo # <<LogField(k, f)>>
      <4> DEFINE x == LogField(k, f)
      <4> HIDE DEF x
      <4>1. Len(<<x>>) = 1
        OBVIOUS
      <4>2. j.todo # <<x>>
        BY <1>3, <4>1
      <4> QED BY <4>2 DEF x
    <3> QED BY <3>1, <3>2
  <2>2. i.todo = <<LogField(k, f)>>
    BY <2>1
  <2> QED BY <1>5, <2>1, <2>2 DEF Float, Shape
<1>6. CASE Free(j, X)
  <2>1. i.todo[Len(i.todo)] = j.todo[n]
    BY <1>1, <1>2
  <2>2. \A p \in 1..(Len(i.todo) - 1) : p + 1 \in 1..(n - 1) /\ i.todo[p] = j.todo[p + 1]
    BY <1>1, <1>2
  <2> HIDE DEF n
  <2>3. Free(i, X)
    BY <1>6, <2>1, <2>2 DEF Free, n
  <2> QED BY <2>3 DEF Shape
<1>7. CASE Open(j, X)
  <2>1. PICK h \in KeyCommand, a \in KeyCommand :
          j.todo = <<Do(<<h>>), Log(a, TRUE), Do(<<a>>)>> /\ a.key \in j.keys
    BY <1>7 DEF Open
  <2>2. Log(a, TRUE).do = "log" /\ Log(a, TRUE).entry.json = TRUE /\ Log(a, TRUE).entry.cmd = a
    BY DEF Log
  <2>3. PICK p, q : p = Log(a, TRUE) /\ q = Do(<<a>>)
    OBVIOUS
  <2>4. j.todo = <<Do(<<h>>), p, q>>
    BY <2>1, <2>3
  <2>5. Len(i.todo) = 2 /\ i.todo[1] = p /\ i.todo[2] = q
    BY <2>4
  <2>5a. (\A m \in 1..2 : m = 1 \/ m = 2) /\ 1 < 2 /\ ~(2 < 2) /\ 1 + 1 = 2
    OBVIOUS
  <2>6. \A m \in 1..Len(i.todo) : m = 1 \/ m = 2
    BY <2>5, <2>5a, Zenon
  <2>7. /\ i.todo[1].do = "log" /\ i.todo[1].entry.json
        /\ i.todo[1].entry.cmd \in KeyCommand /\ i.todo[1].entry.cmd.key \in i.keys
        /\ 1 < Len(i.todo) /\ i.todo[1 + 1] = Do(<<i.todo[1].entry.cmd>>)
    <3>1. i.todo[1].entry.cmd = a
      BY <2>2, <2>3, <2>5
    <3>2. i.todo[2] = Do(<<a>>) /\ i.todo[1].do = "log" /\ i.todo[1].entry.json
      BY <2>2, <2>3, <2>5, Zenon
    <3>3. 1 < Len(i.todo) /\ i.todo[1 + 1] = i.todo[2]
      BY <2>5, <2>5a, Zenon
    <3> QED BY <2>1, <3>1, <3>2, <3>3, Zenon
  <2>8. \E b \in KeyCommand : i.todo[2] = Do(<<b>>) /\ b.key \in i.keys
    BY <2>1, <2>3, <2>5
  <2>9. ~(2 < Len(i.todo))
    BY <2>5, <2>5a, Zenon
  <2>10. i.kind # "pipeline" /\ ~i.half
    BY <1>7 DEF Open
  <2>11. Plain(i)
    BY <2>6, <2>7, <2>8, <2>9, <2>10 DEF Plain
  <2> QED BY <2>11 DEF Shape
<1> QED BY <1>4, <1>5, <1>6, <1>7 DEF Shape

LEMMA WriteShape ==
    ASSUME NEW j \in Program, NEW X, Shape(j, X), NEW i \in Program, First(j) # "apply",
           i.kind = j.kind, i.hold = j.hold, i.keys = j.keys, i.logged, i.half, i.todo = j.todo
    PROVE  Shape(i, X)
<1> USE DEF First
<1>1. 1 \in 1..Len(j.todo)
  BY TodoParts
<1>2. CASE Plain(j)
  <2>1. j.todo[1].do = "log"
    <3>1. \A a : Do(<<a>>).do = "apply"
      BY DEF Do
    <3>2. \/ j.todo[1].do = "log"
          \/ \E a \in KeyCommand : j.todo[1] = Do(<<a>>)
      BY <1>1, <1>2 DEF Plain
    <3> QED BY <3>1, <3>2
  <2>2. Plain(i)
    BY <1>2, <2>1 DEF Plain
  <2> QED BY <2>2 DEF Shape
<1>3. CASE Float(j)
  <2>1. PICK k \in Keys, f \in Fields, m \in Int :
          k \in j.keys /\ (\/ j.todo = <<Do(<<FloatCommand(k, f, m)>>), LogField(k, f)>>
                           \/ j.todo = <<LogField(k, f)>>)
    BY <1>3 DEF Float
  <2>2. j.todo # <<Do(<<FloatCommand(k, f, m)>>), LogField(k, f)>>
    BY DEF Do
  <2> QED BY <1>3, <2>1, <2>2 DEF Float, Shape
<1>4. CASE Free(j, X)
  <2>1. j.todo[1].do = "log"
    <3>1. Len(j.todo) \in Nat /\ Len(j.todo) >= 1
      BY TodoParts
    <3>2. Len(j.todo) # 1
      BY <1>4 DEF Free
    <3> QED BY <1>4, <3>1, <3>2 DEF Free
  <2> QED BY <1>4, <2>1 DEF Free, Shape
<1>5. ~Open(j, X)
  BY OpenFirst
<1> QED BY <1>2, <1>3, <1>4, <1>5 DEF Shape

\* Requests that overlap on a key are excused on it.
Apart ==
    \A c, d \in Clients :
        c # d /\ job[c] # None /\ job[d] # None => (job[c].keys \cap job[d].keys) \subseteq excused

\* Whoever has reached the log under the lock has the lock.
LockOK ==
    \A c \in Clients :
        job[c] # None /\ job[c].hold /\ (job[c].logged \/ First(job[c]) = "logfield") => lock = c

\* The requests under way and the lock.
JobInv ==
    /\ job \in [Clients -> Program \cup {None}]
    /\ lock \in Clients \cup {None}
    /\ \A c \in Clients : job[c] # None => Shape(job[c], excused)
    /\ Apart /\ LockOK /\ LockHasOwner

\* A request that goes on, or ends.
LEMMA JobMoves ==
    ASSUME JobInv, excused \subseteq excused', NEW c \in Clients, NEW j,
           job[c] # None, job' = [job EXCEPT ![c] = j],
           \/ j = None
           \/ j \in Program /\ Shape(j, excused') /\ j.keys = job[c].keys /\ j.hold = job[c].hold,
           \/ lock' = lock
           \/ lock' = None /\ lock = c
           \/ lock' = c /\ lock = None,
           j # None /\ j.hold /\ (j.logged \/ First(j) = "logfield") => lock' = c,
           lock' = c => j # None /\ j.hold
    PROVE  JobInv'
<1>1. job' \in [Clients -> Program \cup {None}] /\ lock' \in Clients \cup {None}
  BY DEF JobInv
<1>2. job'[c] = j /\ \A d \in Clients \ {c} : job'[d] = job[d]
  BY DEF JobInv
<1>3. \A d \in Clients : job'[d] # None => Shape(job'[d], excused')
  BY <1>2, ShapeGrows DEF JobInv
<1>4. Apart'
  <2>1. \A d \in Clients : job'[d] # None => job[d] # None /\ job'[d].keys = job[d].keys
    BY <1>2
  <2> QED BY <2>1 DEF JobInv, Apart
<1>5. LockOK'
  <2>1. ASSUME NEW d \in Clients, job'[d] # None, job'[d].hold,
               job'[d].logged \/ First(job'[d]) = "logfield"
        PROVE  lock' = d
    <3>1. CASE d = c
      BY <1>2, <2>1, <3>1
    <3>2. CASE d # c
      <4>1. lock = d
        BY <1>2, <2>1, <3>2 DEF JobInv, LockOK
      <4>2. d # None
        BY NobodyAssumption
      <4> QED BY <3>2, <4>1, <4>2
    <3> QED BY <3>1, <3>2
  <2> QED BY <2>1 DEF LockOK
<1>6. LockHasOwner'
  <2>1. SUFFICES ASSUME lock' # None
                 PROVE  /\ lock' \in Clients
                        /\ job'[lock'] # None /\ job'[lock'].hold /\ job'[lock'].todo # <<>>
    BY DEF LockHasOwner
  <2>2. CASE lock' = c
    BY <1>2, <2>2 DEF Program
  <2>3. CASE lock' # c
    <3>1. lock' = lock
      BY <2>1, <2>3
    <3> QED BY <1>2, <2>1, <2>3, <3>1 DEF JobInv, LockHasOwner
  <2> QED BY <2>2, <2>3
<1> QED BY <1>1, <1>3, <1>4, <1>5, <1>6 DEF JobInv

\* What Advance makes of it.
LEMMA AdvanceOK ==
    ASSUME JobInv, excused \subseteq excused', now \in 0..MaxNow, NEW c \in Clients, job[c] # None,
           NEW i, DOMAIN i = DOMAIN job[c], Advance(c, i),
           i.keys = job[c].keys, i.hold = job[c].hold,
           i.todo # <<>> => /\ [i EXCEPT !.since = now] \in Program
                            /\ Shape([i EXCEPT !.since = now], excused')
                            /\ i.hold /\ (i.logged \/ First(i) = "logfield") => lock = c
    PROVE  JobInv'
<1> DEFINE j == IF i.todo = <<>> THEN None ELSE [i EXCEPT !.since = now]
<1>1. job' = [job EXCEPT ![c] = j] /\ lock' = IF i.todo = <<>> /\ lock = c THEN None ELSE lock
  BY DEF Advance
<1>2. job[c] \in Program
  BY DEF JobInv
<1>3. ASSUME i.todo # <<>>
      PROVE  /\ j \in Program /\ j # None /\ Shape(j, excused') /\ j.keys = job[c].keys
             /\ j.hold = job[c].hold /\ j.logged = i.logged /\ First(j) = First(i)
  BY <1>2, <1>3, NobodyAssumption DEF First, Program
<1>4. i.todo = <<>> => j = None
  OBVIOUS
<1> HIDE DEF j
<1>5. c # None
  BY NobodyAssumption
<1>6. lock = c => job[c].hold
  BY <1>5 DEF JobInv, LockHasOwner
<1>7. \/ j = None
      \/ j \in Program /\ Shape(j, excused') /\ j.keys = job[c].keys /\ j.hold = job[c].hold
  BY <1>3, <1>4
<1>8. \/ lock' = lock
      \/ lock' = None /\ lock = c
  BY <1>1
<1>9. j # None /\ j.hold /\ (j.logged \/ First(j) = "logfield") => lock' = c
  BY <1>1, <1>3, <1>4
<1>10. lock' = c => j # None /\ j.hold
  BY <1>1, <1>3, <1>5, <1>6
<1>11. job' = [job EXCEPT ![c] = j]
  BY <1>1
<1> QED BY <1>7, <1>8, <1>9, <1>10, <1>11, JobMoves

\* A new request.
Fresh(j, X) ==
    /\ j \in Program /\ Shape(j, X)
    /\ ~j.half /\ ~j.logged /\ First(j) # "logfield"

LEMMA BeginOK ==
    ASSUME JobInv, NEW c \in Clients, NEW j, NEW lost, Begin(c, j, lost), Fresh(j, lost)
    PROVE  JobInv'
<1>1. job[c] = None /\ job' = [job EXCEPT ![c] = j] /\ lock' = lock
  BY DEF Begin
<1>2. /\ excused \subseteq excused' /\ lost \subseteq excused'
      /\ \A d \in Clients \ {c} : job[d] # None => (j.keys \cap job[d].keys) \subseteq excused'
  BY DEF Begin, Excuse
<1>3. j \in Program /\ j # None /\ Shape(j, excused')
  BY <1>2, ShapeGrows, NobodyAssumption DEF Fresh
<1>4. job'[c] = j /\ \A d \in Clients \ {c} : job'[d] = job[d]
  BY <1>1 DEF JobInv
<1>5. job' \in [Clients -> Program \cup {None}] /\ lock' \in Clients \cup {None}
  BY <1>1, <1>3 DEF JobInv
<1>6. \A d \in Clients : job'[d] # None => Shape(job'[d], excused')
  BY <1>2, <1>3, <1>4, ShapeGrows DEF JobInv
<1>7. Apart'
  <2>1. ASSUME NEW d \in Clients, NEW e \in Clients, d # e, job'[d] # None, job'[e] # None
        PROVE  (job'[d].keys \cap job'[e].keys) \subseteq excused'
    <3>1. CASE d = c
      BY <1>2, <1>4, <2>1, <3>1
    <3>2. CASE e = c
      BY <1>2, <1>4, <2>1, <3>2
    <3>3. CASE d # c /\ e # c
      BY <1>2, <1>4, <2>1, <3>3 DEF JobInv, Apart
    <3> QED BY <3>1, <3>2, <3>3
  <2> QED BY <2>1 DEF Apart
<1>8. LockOK'
  BY <1>1, <1>4 DEF JobInv, LockOK, Fresh
<1>9. LockHasOwner'
  <2>1. lock # None => lock # c
    BY <1>1 DEF JobInv, LockHasOwner
  <2> QED BY <1>1, <1>4, <2>1 DEF JobInv, LockHasOwner
<1> QED BY <1>5, <1>6, <1>7, <1>8, <1>9 DEF JobInv

LEMMA Tuples ==
    ASSUME NEW S, NEW a \in S, NEW b \in S, NEW c \in S, NEW d \in S
    PROVE  /\ <<a>> \in Seq(S) /\ <<a, b>> \in Seq(S) /\ <<a, b, c>> \in Seq(S) /\ <<a, b, c, d>> \in Seq(S)
           /\ Len(<<a>>) = 1 /\ Len(<<a, b>>) = 2 /\ Len(<<a, b, c>>) = 3 /\ Len(<<a, b, c, d>>) = 4
           /\ <<a>> # <<>> /\ <<a, b>> # <<>> /\ <<a, b, c>> # <<>> /\ <<a, b, c, d>> # <<>>
  OBVIOUS

\* The keys of one command, of two.
OwnKeys(c) ==
    IF c.op \in {"multi", "exec", "discard"} THEN {}
    ELSE IF c.op \in {"mset", "pfmerge"} THEN {c.key, c.other}
    ELSE {c.key}

LEMMA KeysOne ==
    ASSUME NEW c, NEW d
    PROVE  KeysOf(<<c>>) = OwnKeys(c) /\ KeysOf(<<c, d>>) = OwnKeys(c) \cup OwnKeys(d)
<1>1. /\ Len(<<c>>) = 1 /\ <<c>>[1] = c
      /\ Len(<<c, d>>) = 2 /\ <<c, d>>[1] = c /\ <<c, d>>[2] = d
  OBVIOUS
<1>2. KeysOf(<<c>>) = UNION {OwnKeys(<<c>>[i]) : i \in 1..1}
  BY <1>1 DEF KeysOf, OwnKeys
<1>3. KeysOf(<<c, d>>) = UNION {OwnKeys(<<c, d>>[i]) : i \in 1..2}
  BY <1>1 DEF KeysOf, OwnKeys
<1>4. \A i : (i \in 1..1 <=> i = 1) /\ (i \in 1..2 <=> i = 1 \/ i = 2)
  OBVIOUS
<1>5. KeysOf(<<c>>) = OwnKeys(c)
  <2> DEFINE K == OwnKeys(c)
  <2>1. KeysOf(<<c>>) = UNION {OwnKeys(<<c>>[i]) : i \in {1}}
    BY <1>2, <1>4
  <2>2. OwnKeys(<<c>>[1]) = K
    BY <1>1
  <2> HIDE DEF K
  <2> QED BY <2>1, <2>2 DEF K
<1>6. KeysOf(<<c, d>>) = OwnKeys(c) \cup OwnKeys(d)
  <2> DEFINE K == OwnKeys(c)
             L == OwnKeys(d)
             F(i) == OwnKeys(<<c, d>>[i])
  <2>1. KeysOf(<<c, d>>) = UNION {F(i) : i \in 1..2}
    BY <1>3
  <2>2. F(1) = K /\ F(2) = L
    BY <1>1
  <2> HIDE DEF K, L, F
  <2>3. \A x : x \in UNION {F(i) : i \in 1..2} <=> x \in K \/ x \in L
    BY <1>4, <2>2
  <2> QED BY <2>1, <2>3 DEF K, L
<1> QED BY <1>5, <1>6

\* The keys of a command are of the right kind, and so is the command about them.
LEMMA OwnKeysOK ==
    ASSUME NEW c \in Command
    PROVE  OwnKeys(c) \in SUBSET (Keys \cup {InvalidKey}) /\ KeysIn(c, OwnKeys(c))
<1>1. OwnKeys(c) \in SUBSET (Keys \cup {InvalidKey})
  <2>1. CASE c \in KeyCommand
    BY <2>1 DEF KeyCommand, OwnKeys
  <2>2. CASE c \notin KeyCommand
    <3>1. c \in Command \ KeyCommand
      BY <2>2
    <3> QED BY <3>1 DEF Command, BareCommand, OwnKeys
  <2> QED BY <2>1, <2>2
<1> QED BY <1>1 DEF OwnKeys, KeysIn

LEMMA JobProgram ==
    ASSUME now \in 0..MaxNow, NEW kind \in {"api", "pipeline", "script"}, NEW hold \in BOOLEAN,
           NEW todo \in Seq(Instruction), todo # <<>>, NEW cmds,
           KeysOf(cmds) \in SUBSET (Keys \cup {InvalidKey})
    PROVE  /\ Job(kind, hold, todo, cmds) \in Program
           /\ Job(kind, hold, todo, cmds).kind = kind /\ Job(kind, hold, todo, cmds).hold = hold
           /\ Job(kind, hold, todo, cmds).todo = todo
           /\ ~Job(kind, hold, todo, cmds).half /\ ~Job(kind, hold, todo, cmds).logged
           /\ Job(kind, hold, todo, cmds).keys = KeysOf(cmds)
  BY DEF Job, Program

LEMMA LogInstruction ==
    ASSUME NEW c, NEW json \in BOOLEAN, c \in KeyCommand \/ (c \in BareCommand /\ json = FALSE)
    PROVE  /\ Log(c, json) \in Instruction
           /\ Log(c, json).do = "log" /\ Log(c, json).entry.cmd = c /\ Log(c, json).entry.json = json
  BY DEF Log, Instruction

LEMMA DoInstruction ==
    ASSUME NEW cmds \in Seq(Command)
    PROVE  Do(cmds) \in Instruction /\ Do(cmds).do = "apply" /\ Do(cmds).cmds = cmds
  BY DEF Do, Instruction

LEMMA FieldInstruction ==
    ASSUME NEW k \in Keys, NEW f \in Fields
    PROVE  LogField(k, f) \in Instruction /\ LogField(k, f).do = "logfield"
  BY DEF LogField, Instruction

\* The shapes of the handlers.
LEMMA PlainFresh ==
    ASSUME now \in 0..MaxNow, NEW c \in KeyCommand
    PROVE  Fresh(LogFirst(c, TRUE), {})
<1> DEFINE p == Log(c, TRUE)
           q == Do(<<c>>)
           j == LogFirst(c, TRUE)
<1>1. c \in Command /\ c.op \notin {"multi", "exec", "discard", "mset", "pfmerge"}
  <2>1. Single(c)
    BY KeyCommandSingle
  <2> QED BY <2>1 DEF Command, Single, SingleOps
<1>2. /\ p \in Instruction /\ p.do = "log" /\ p.entry.cmd = c /\ p.entry.json
      /\ q \in Instruction /\ q.do = "apply"
  BY <1>1, Tuples, LogInstruction, DoInstruction
<1>3. KeysOf(<<c>>) = {c.key} /\ {c.key} \in SUBSET (Keys \cup {InvalidKey})
  BY <1>1, KeysOne, OwnKeysOK DEF OwnKeys
<1>3a. j = Job("api", FALSE, <<p, q>>, <<c>>)
  BY DEF LogFirst
<1>3b. q = Do(<<c>>)
  OBVIOUS
<1> HIDE DEF p, q, j
<1>4. <<p, q>> \in Seq(Instruction) /\ <<p, q>> # <<>> /\ Len(<<p, q>>) = 2 /\ <<p, q>>[1] = p /\ <<p, q>>[2] = q
  BY <1>2, Tuples
<1>5. /\ j \in Program /\ j.kind = "api" /\ j.hold = FALSE /\ j.todo = <<p, q>>
      /\ ~j.half /\ ~j.logged /\ j.keys = {c.key}
  <2>1. KeysOf(<<c>>) \in SUBSET (Keys \cup {InvalidKey})
    BY <1>3
  <2>2. PICK hold \in BOOLEAN, kind \in {"api", "pipeline", "script"} : hold = FALSE /\ kind = "api"
    OBVIOUS
  <2>3. PICK todo \in Seq(Instruction) : todo = <<p, q>> /\ todo # <<>>
    BY <1>4
  <2>4. PICK i : i = Job(kind, hold, todo, <<c>>)
    OBVIOUS
  <2>5. /\ i \in Program /\ i.kind = kind /\ i.hold = hold /\ i.todo = todo
        /\ ~i.half /\ ~i.logged /\ i.keys = KeysOf(<<c>>)
    <3>1. todo \in Seq(Instruction) /\ todo # <<>>
      BY <2>3
    <3>2. kind \in {"api", "pipeline", "script"} /\ hold \in BOOLEAN
      OBVIOUS
    <3>3. KeysOf(<<c>>) \in SUBSET (Keys \cup {InvalidKey})
      BY <2>1
    <3>4. i = Job(kind, hold, todo, <<c>>)
      BY <2>4
    <3> QED BY <3>1, <3>2, <3>3, <3>4, JobProgram
  <2>6. i = j
    BY <1>3a, <2>2, <2>3, <2>4
  <2> QED BY <1>3, <2>2, <2>3, <2>5, <2>6
<1>6. Plain(j)
  <2>1. \A i \in 1..Len(j.todo) : i = 1 \/ i = 2
    BY <1>4, <1>5
  <2>2. j.todo[1] = p /\ j.todo[2] = q /\ Len(j.todo) = 2
    BY <1>4, <1>5
  <2>3. /\ j.todo[1].do = "log" /\ j.todo[1].entry.json
        /\ j.todo[1].entry.cmd \in KeyCommand /\ j.todo[1].entry.cmd.key \in j.keys
        /\ 1 < Len(j.todo) /\ j.todo[1 + 1] = Do(<<j.todo[1].entry.cmd>>)
    BY <1>2, <1>3b, <1>5, <2>2
  <2>4. \E a \in KeyCommand : j.todo[2] = Do(<<a>>) /\ a.key \in j.keys
    BY <1>3b, <1>5, <2>2
  <2>5. ~(2 < Len(j.todo))
    BY <2>2
  <2> QED BY <1>5, <2>1, <2>3, <2>4, <2>5 DEF Plain
<1>7. First(j) = "log"
  BY <1>2, <1>4, <1>5 DEF First
<1> QED BY <1>5, <1>6, <1>7 DEF Fresh, Shape, j

LEMMA FreeFresh ==
    ASSUME now \in 0..MaxNow, NEW c \in Command, NEW X, OwnKeys(c) \subseteq X
    PROVE  /\ Fresh(Unlogged(c), X)
           /\ c \in BareCommand => Fresh(LogFirst(c, FALSE), X)
<1> DEFINE q == Do(<<c>>)
<1>1. q \in Instruction /\ q.do = "apply" /\ q.cmds = <<c>> /\ Len(<<c>>) = 1 /\ <<c>>[1] = c
  BY Tuples, DoInstruction
<1>2. KeysOf(<<c>>) = OwnKeys(c) /\ KeysOf(<<c>>) \in SUBSET (Keys \cup {InvalidKey}) /\ KeysIn(c, OwnKeys(c))
  BY KeysOne, OwnKeysOK
<1>3. \A i \in 1..Len(q.cmds) : KeysIn(q.cmds[i], OwnKeys(c))
  <2>0. Len(q.cmds) = 1
    BY <1>1
  <2> HIDE DEF q
  <2>1. \A i \in 1..Len(q.cmds) : i = 1
    BY <2>0
  <2> QED BY <1>1, <1>2, <2>1
<1>4. Fresh(Unlogged(c), X)
  <2> DEFINE j == Unlogged(c)
  <2>1. j = Job("api", FALSE, <<q>>, <<c>>)
    BY DEF Unlogged
  <2> HIDE DEF j, q
  <2>2. <<q>> \in Seq(Instruction) /\ <<q>> # <<>> /\ Len(<<q>>) = 1 /\ <<q>>[1] = q
    BY <1>1, Tuples
  <2>3. /\ j \in Program /\ j.kind = "api" /\ j.hold = FALSE /\ j.todo = <<q>>
        /\ ~j.half /\ ~j.logged /\ j.keys = OwnKeys(c)
    <3>2. PICK hold \in BOOLEAN, kind \in {"api", "pipeline", "script"} : hold = FALSE /\ kind = "api"
      OBVIOUS
    <3>3. PICK todo \in Seq(Instruction) : todo = <<q>> /\ todo # <<>>
      BY <2>2
    <3>4. PICK i : i = Job(kind, hold, todo, <<c>>)
      OBVIOUS
    <3>5. /\ i \in Program /\ i.kind = kind /\ i.hold = hold /\ i.todo = todo
          /\ ~i.half /\ ~i.logged /\ i.keys = KeysOf(<<c>>)
      <4>1. todo \in Seq(Instruction) /\ todo # <<>>
        BY <3>3
      <4>2. kind \in {"api", "pipeline", "script"} /\ hold \in BOOLEAN
        OBVIOUS
      <4>3. KeysOf(<<c>>) \in SUBSET (Keys \cup {InvalidKey})
        BY <1>2
      <4>4. i = Job(kind, hold, todo, <<c>>)
        BY <3>4
      <4> QED BY <4>1, <4>2, <4>3, <4>4, JobProgram
    <3>6. i = j
      BY <2>1, <3>2, <3>3, <3>4
    <3> QED BY <1>2, <3>2, <3>3, <3>5, <3>6
  <2>4. j.todo[Len(j.todo)] = q /\ Len(j.todo) = 1 /\ First(j) = "apply"
    BY <1>1, <2>2, <2>3 DEF First
  <2>5. \A i \in 1..(Len(j.todo) - 1) : FALSE
    BY <2>4
  <2>6. Free(j, X)
    BY <1>1, <1>3, <2>3, <2>4, <2>5 DEF Free
  <2> QED BY <2>3, <2>4, <2>6 DEF Fresh, Shape, j
<1>5. ASSUME c \in BareCommand
      PROVE  Fresh(LogFirst(c, FALSE), X)
  <2> DEFINE p == Log(c, FALSE)
             j == LogFirst(c, FALSE)
  <2>1. j = Job("api", FALSE, <<p, q>>, <<c>>)
    BY DEF LogFirst
  <2>2. p \in Instruction /\ p.do = "log" /\ p.entry.cmd = c
    BY <1>5, LogInstruction
  <2>3. c \notin KeyCommand
    <3>1. c.op \in {"getset", "mset"}
      BY <1>5 DEF BareCommand
    <3> QED BY <3>1, KeyCommandSingle DEF Single, SingleOps
  <2> HIDE DEF j, q, p
  <2>4. <<p, q>> \in Seq(Instruction) /\ <<p, q>> # <<>> /\ Len(<<p, q>>) = 2 /\ <<p, q>>[1] = p /\ <<p, q>>[2] = q
    BY <1>1, <2>2, Tuples
  <2>5. /\ j \in Program /\ j.kind = "api" /\ j.hold = FALSE /\ j.todo = <<p, q>>
        /\ ~j.half /\ ~j.logged /\ j.keys = OwnKeys(c)
    <3>2. PICK hold \in BOOLEAN, kind \in {"api", "pipeline", "script"} : hold = FALSE /\ kind = "api"
      OBVIOUS
    <3>3. PICK todo \in Seq(Instruction) : todo = <<p, q>> /\ todo # <<>>
      BY <2>4
    <3>4. PICK i : i = Job(kind, hold, todo, <<c>>)
      OBVIOUS
    <3>5. /\ i \in Program /\ i.kind = kind /\ i.hold = hold /\ i.todo = todo
          /\ ~i.half /\ ~i.logged /\ i.keys = KeysOf(<<c>>)
      <4>1. todo \in Seq(Instruction) /\ todo # <<>>
        BY <3>3
      <4>2. kind \in {"api", "pipeline", "script"} /\ hold \in BOOLEAN
        OBVIOUS
      <4>3. KeysOf(<<c>>) \in SUBSET (Keys \cup {InvalidKey})
        BY <1>2
      <4>4. i = Job(kind, hold, todo, <<c>>)
        BY <3>4
      <4> QED BY <4>1, <4>2, <4>3, <4>4, JobProgram
    <3>6. i = j
      BY <2>1, <3>2, <3>3, <3>4
    <3> QED BY <1>2, <3>2, <3>3, <3>5, <3>6
  <2>6. j.todo[Len(j.todo)] = q /\ Len(j.todo) = 2 /\ First(j) = "log" /\ j.todo[1] = p
    BY <2>2, <2>4, <2>5 DEF First
  <2>7. \A i \in 1..(Len(j.todo) - 1) : i = 1
    BY <2>6
  <2>8. Free(j, X)
    BY <1>1, <1>3, <2>2, <2>3, <2>5, <2>6, <2>7 DEF Free
  <2> QED BY <2>5, <2>6, <2>8 DEF Fresh, Shape, j
<1> QED BY <1>4, <1>5

LEMMA KeyCommandPlain ==
    ASSUME NEW c \in KeyCommand
    PROVE  /\ c \in Command /\ OwnKeys(c) = {c.key} /\ {c.key} \in SUBSET (Keys \cup {InvalidKey})
<1>1. Single(c)
  BY KeyCommandSingle
<1>2. c \in Command /\ OwnKeys(c) = {c.key}
  BY <1>1 DEF Command, Single, SingleOps, OwnKeys
<1> QED BY <1>2, OwnKeysOK

LEMMA FloatFresh ==
    ASSUME now \in 0..MaxNow, NEW k \in Keys, NEW f \in Fields, NEW n \in Int
    PROVE  Fresh(Job("api", TRUE, <<Do(<<FloatCommand(k, f, n)>>), LogField(k, f)>>,
                     <<FloatCommand(k, f, n)>>), {})
<1> DEFINE c == FloatCommand(k, f, n)
           C == <<c>>
           p == Do(C)
           q == LogField(k, f)
           T == <<p, q>>
           j == Job("api", TRUE, T, C)
<1>1. c \in Command /\ OwnKeys(c) = {k}
  BY DEF Command, OwnKeys, FloatCommand
<1> HIDE DEF c
<1>2. C \in Seq(Command) /\ KeysOf(C) = {k}
  BY <1>1, Tuples, KeysOne
<1> HIDE DEF C
<1>3. p \in Instruction /\ p.do = "apply"
  BY <1>2, DoInstruction
<1>4. q \in Instruction
  BY FieldInstruction
<1> HIDE DEF p, q
<1>5. T \in Seq(Instruction) /\ T # <<>> /\ T[1] = p
  BY <1>3, <1>4
<1> HIDE DEF T
<1>6. /\ j \in Program /\ j.kind = "api" /\ j.hold = TRUE /\ j.todo = T
      /\ j.keys = {k} /\ ~j.half /\ ~j.logged
  BY <1>2, <1>5 DEF Job, Program
<1> HIDE DEF j
<1>7. j.todo = <<Do(<<FloatCommand(k, f, n)>>), LogField(k, f)>>
  BY <1>6 DEF T, p, q, C, c
<1>8. Float(j)
  BY <1>6, <1>7 DEF Float
<1>9. First(j) # "logfield"
  BY <1>3, <1>5, <1>6 DEF First
<1>10. Fresh(j, {})
  BY <1>6, <1>8, <1>9 DEF Fresh, Shape
<1> QED BY <1>10 DEF j, T, p, q, C, c

LEMMA ScriptFresh ==
    ASSUME now \in 0..MaxNow, NEW a \in KeyCommand, NEW b \in KeyCommand
    PROVE  Fresh(Job("script", TRUE, <<Log(a, TRUE), Do(<<a>>), Log(b, TRUE), Do(<<b>>)>>, <<a, b>>), {})
<1> DEFINE C == <<a, b>>
           A == <<a>>
           B == <<b>>
           p == Log(a, TRUE)
           q == Do(A)
           r == Log(b, TRUE)
           s == Do(B)
           T == <<p, q, r, s>>
           j == Job("script", TRUE, T, C)
<1>1. /\ a \in Command /\ OwnKeys(a) = {a.key} /\ {a.key} \in SUBSET (Keys \cup {InvalidKey})
      /\ b \in Command /\ OwnKeys(b) = {b.key} /\ {b.key} \in SUBSET (Keys \cup {InvalidKey})
  BY KeyCommandPlain
<1>2. KeysOf(C) = {a.key, b.key} /\ KeysOf(C) \in SUBSET (Keys \cup {InvalidKey})
  <2>1. KeysOf(C) = OwnKeys(a) \cup OwnKeys(b)
    BY KeysOne
  <2> HIDE DEF C
  <2> QED BY <1>1, <2>1
<1>3. A \in Seq(Command) /\ B \in Seq(Command)
  BY <1>1
<1> HIDE DEF A, B, C
<1>4. p \in Instruction /\ p.do = "log" /\ p.entry.cmd = a /\ p.entry.json = TRUE
  BY LogInstruction
<1>5. r \in Instruction /\ r.do = "log" /\ r.entry.cmd = b /\ r.entry.json = TRUE
  BY LogInstruction
<1>6. q \in Instruction /\ s \in Instruction
  BY <1>3, DoInstruction
<1>7. q = Do(<<a>>) /\ s = Do(<<b>>)
  BY DEF A, B
<1> HIDE DEF p, q, r, s
<1>8. T \in Seq(Instruction) /\ T # <<>> /\ Len(T) = 4 /\ T[1] = p /\ T[2] = q /\ T[3] = r /\ T[4] = s
  BY <1>4, <1>5, <1>6
<1> HIDE DEF T
<1>9. /\ j \in Program /\ j.kind = "script" /\ j.hold = TRUE /\ j.todo = T
      /\ j.keys = {a.key, b.key} /\ ~j.half /\ ~j.logged
  BY <1>2, <1>8 DEF Job, Program
<1> HIDE DEF j
<1>10. /\ Len(j.todo) = 4
       /\ j.todo[1] = p /\ j.todo[2] = q /\ j.todo[3] = r /\ j.todo[4] = s
  BY <1>8, <1>9
<1>11. a.key \in j.keys /\ b.key \in j.keys
  BY <1>9
<1>12. Plain(j)
  <2>1. \A i \in 1..Len(j.todo) : i = 1 \/ i = 2 \/ i = 3 \/ i = 4
    BY <1>10
  <2>2. /\ j.todo[1].do = "log" /\ j.todo[1].entry.json
        /\ j.todo[1].entry.cmd \in KeyCommand /\ j.todo[1].entry.cmd.key \in j.keys
    BY <1>4, <1>10, <1>11
  <2>3. 1 < Len(j.todo) /\ j.todo[1 + 1] = Do(<<j.todo[1].entry.cmd>>)
    <3>1. j.todo[1].entry.cmd = a
      BY <1>4, <1>10
    <3>2. j.todo[2] = Do(<<a>>)
      BY <1>7, <1>10
    <3> QED BY <1>10, <3>1, <3>2
  <2>4. \E c \in KeyCommand : j.todo[2] = Do(<<c>>) /\ c.key \in j.keys
    <3>1. j.todo[2] = Do(<<a>>)
      BY <1>7, <1>10
    <3> QED BY <1>11, <3>1
  <2>5. /\ j.todo[3].do = "log" /\ j.todo[3].entry.json
        /\ j.todo[3].entry.cmd \in KeyCommand /\ j.todo[3].entry.cmd.key \in j.keys
    BY <1>5, <1>10, <1>11
  <2>6. 3 < Len(j.todo) /\ j.todo[3 + 1] = Do(<<j.todo[3].entry.cmd>>)
    <3>1. j.todo[3].entry.cmd = b
      BY <1>5, <1>10
    <3>2. j.todo[4] = Do(<<b>>)
      BY <1>7, <1>10
    <3> QED BY <1>10, <3>1, <3>2
  <2>7. \E c \in KeyCommand : j.todo[4] = Do(<<c>>) /\ c.key \in j.keys
    <3>1. j.todo[4] = Do(<<b>>)
      BY <1>7, <1>10
    <3> QED BY <1>11, <3>1
  <2>8. ASSUME NEW i \in 1..Len(j.todo)
        PROVE  \/ /\ j.todo[i].do = "log" /\ j.todo[i].entry.json
                  /\ j.todo[i].entry.cmd \in KeyCommand /\ j.todo[i].entry.cmd.key \in j.keys
                  /\ i < Len(j.todo) /\ j.todo[i + 1] = Do(<<j.todo[i].entry.cmd>>)
               \/ /\ \E c \in KeyCommand : j.todo[i] = Do(<<c>>) /\ c.key \in j.keys
                  /\ i = 1 => j.logged
                  /\ i < Len(j.todo) => j.todo[i + 1].do = "log"
    <3>1. CASE i = 1
      BY <2>2, <2>3, <3>1
    <3>2. CASE i = 2
      <4>1. i # 1 /\ i + 1 = 3
        BY <3>2
      <4> QED BY <2>4, <2>5, <3>2, <4>1
    <3>3. CASE i = 3
      BY <2>5, <2>6, <3>3
    <3>4. CASE i = 4
      <4>1. i # 1 /\ ~(i < Len(j.todo))
        BY <1>10, <3>4
      <4> QED BY <2>7, <3>4, <4>1
    <3> QED BY <2>1, <3>1, <3>2, <3>3, <3>4
  <2>9. j.kind # "pipeline" /\ ~j.half
    BY <1>9
  <2> QED BY <2>8, <2>9 DEF Plain
<1>13. First(j) = "log"
  BY <1>4, <1>10 DEF First
<1>14. Fresh(j, {})
  BY <1>9, <1>12, <1>13 DEF Fresh, Shape
<1> QED BY <1>14 DEF j, T, p, q, r, s, A, B, C

LEMMA OpenFresh ==
    ASSUME now \in 0..MaxNow, NEW h \in KeyCommand, NEW a \in KeyCommand, NEW X, h.key \in X
    PROVE  Fresh(Job("script", TRUE, <<Do(<<h>>), Log(a, TRUE), Do(<<a>>)>>, <<h, a>>), X)
<1> DEFINE C == <<h, a>>
           H == <<h>>
           A == <<a>>
           p == Do(H)
           q == Log(a, TRUE)
           r == Do(A)
           T == <<p, q, r>>
           j == Job("script", TRUE, T, C)
<1>1. /\ h \in Command /\ OwnKeys(h) = {h.key} /\ {h.key} \in SUBSET (Keys \cup {InvalidKey})
      /\ a \in Command /\ OwnKeys(a) = {a.key} /\ {a.key} \in SUBSET (Keys \cup {InvalidKey})
  BY KeyCommandPlain
<1>2. KeysOf(C) = {h.key, a.key} /\ KeysOf(C) \in SUBSET (Keys \cup {InvalidKey})
  <2>1. KeysOf(C) = OwnKeys(h) \cup OwnKeys(a)
    BY KeysOne
  <2> HIDE DEF C
  <2> QED BY <1>1, <2>1
<1>3. H \in Seq(Command) /\ A \in Seq(Command)
  BY <1>1
<1> HIDE DEF H, A, C
<1>4. q \in Instruction
  BY LogInstruction
<1>5. p \in Instruction /\ r \in Instruction
  BY <1>3, DoInstruction
<1>6. p = Do(<<h>>) /\ q = Log(a, TRUE) /\ r = Do(<<a>>) /\ p.do = "apply"
  BY DEF H, A, Do
<1> HIDE DEF p, q, r
<1>7. T \in Seq(Instruction) /\ T # <<>> /\ T[1] = p
  BY <1>4, <1>5
<1>8. T = <<Do(<<h>>), Log(a, TRUE), Do(<<a>>)>>
  BY <1>6
<1> HIDE DEF T
<1>9. /\ j \in Program /\ j.kind = "script" /\ j.hold = TRUE /\ j.todo = T
      /\ j.keys = {h.key, a.key} /\ ~j.half /\ ~j.logged
  BY <1>2, <1>7 DEF Job, Program
<1> HIDE DEF j
<1>10. Open(j, X)
  BY <1>8, <1>9 DEF Open
<1>11. First(j) = "apply"
  BY <1>6, <1>7, <1>9 DEF First
<1>12. Fresh(j, X)
  BY <1>9, <1>10, <1>11 DEF Fresh, Shape
<1> QED BY <1>12 DEF j, T, p, q, r, H, A, C

LEMMA PipelineFresh ==
    ASSUME now \in 0..MaxNow, NEW a \in KeyCommand, NEW b \in KeyCommand, NEW X,
           a.key \in X, b.key \in X
    PROVE  Fresh(Job("pipeline", FALSE, <<Log(a, FALSE), Log(b, FALSE), Do(<<a, b>>)>>, <<a, b>>), X)
<1> DEFINE C == <<a, b>>
           p == Log(a, FALSE)
           q == Log(b, FALSE)
           r == Do(C)
           T == <<p, q, r>>
           j == Job("pipeline", FALSE, T, C)
<1>1. /\ a \in Command /\ OwnKeys(a) = {a.key} /\ {a.key} \in SUBSET (Keys \cup {InvalidKey})
      /\ b \in Command /\ OwnKeys(b) = {b.key} /\ {b.key} \in SUBSET (Keys \cup {InvalidKey})
  BY KeyCommandPlain
<1>2. KeysOf(C) = {a.key, b.key} /\ KeysOf(C) \in SUBSET (Keys \cup {InvalidKey})
  <2>1. KeysOf(C) = OwnKeys(a) \cup OwnKeys(b)
    BY KeysOne
  <2> HIDE DEF C
  <2> QED BY <1>1, <2>1
<1>3. C \in Seq(Command) /\ Len(C) = 2 /\ C[1] = a /\ C[2] = b
  BY <1>1
<1> HIDE DEF C
<1>4. p \in Instruction /\ p.do = "log" /\ p.entry.cmd = a
  BY LogInstruction
<1>5. q \in Instruction /\ q.do = "log" /\ q.entry.cmd = b
  BY LogInstruction
<1>6. r \in Instruction /\ r.do = "apply" /\ r.cmds = C
  BY <1>3, DoInstruction
<1> HIDE DEF p, q, r
<1>7. T \in Seq(Instruction) /\ T # <<>> /\ Len(T) = 3 /\ T[1] = p /\ T[2] = q /\ T[3] = r
  BY <1>4, <1>5, <1>6
<1> HIDE DEF T
<1>8. /\ j \in Program /\ j.kind = "pipeline" /\ j.hold = FALSE /\ j.todo = T
      /\ j.keys = {a.key, b.key} /\ ~j.half /\ ~j.logged
  BY <1>2, <1>7 DEF Job, Program
<1> HIDE DEF j
<1>9. /\ Len(j.todo) = 3
      /\ j.todo[1] = p /\ j.todo[2] = q /\ j.todo[3] = r
  BY <1>7, <1>8
<1>10. Free(j, X)
  <2>1. j.todo[Len(j.todo)] = r
    BY <1>9
  <2>2. \A i \in 1..Len(r.cmds) : KeysIn(r.cmds[i], j.keys)
    <3>1. KeysIn(a, j.keys) /\ KeysIn(b, j.keys)
      <4>1. Single(a) /\ Single(b)
        BY KeyCommandSingle
      <4> QED BY <1>8, <4>1 DEF KeysIn, Single, SingleOps
    <3>2. Len(r.cmds) = 2 /\ r.cmds[1] = a /\ r.cmds[2] = b
      BY <1>3, <1>6
    <3>3. \A i \in 1..Len(r.cmds) : i = 1 \/ i = 2
      BY <3>2
    <3> QED BY <3>1, <3>2, <3>3
  <2>3. \A i \in 1..(Len(j.todo) - 1) : i = 1 \/ i = 2
    BY <1>9
  <2>4. \A i \in 1..(Len(j.todo) - 1) :
           /\ j.todo[i].do = "log"
           /\ j.todo[i].entry.cmd \in KeyCommand => j.todo[i].entry.cmd.key \in j.keys
    BY <1>4, <1>5, <1>8, <1>9, <2>3
  <2> QED BY <1>6, <1>8, <2>1, <2>2, <2>4 DEF Free
<1>11. First(j) = "log"
  BY <1>4, <1>9 DEF First
<1>12. Fresh(j, X)
  BY <1>8, <1>10, <1>11 DEF Fresh, Shape
<1> QED BY <1>12 DEF j, T, p, q, r, C

\* A new handler, of any kind.
Started(c) ==
    \E j, lost : Begin(c, j, lost) /\ Fresh(j, lost) /\ lost \in SUBSET (Keys \cup {InvalidKey})

LEMMA EmptyStarted ==
    ASSUME NEW c, NEW j, Begin(c, j, {}), Fresh(j, {})
    PROVE  Started(c)
<1>1. PICK X : X = {} /\ X \in SUBSET (Keys \cup {InvalidKey})
  OBVIOUS
<1>2. Begin(c, j, X) /\ Fresh(j, X)
  BY <1>1
<1> QED BY <1>1, <1>2 DEF Started

LEMMA PlainStarted ==
    ASSUME now \in 0..MaxNow, NEW c, NEW cmd \in KeyCommand, NEW handler, Serve(c, handler, cmd)
    PROVE  Started(c)
<1>1. Begin(c, LogFirst(cmd, TRUE), {})
  BY DEF Serve
<1>2. Fresh(LogFirst(cmd, TRUE), {})
  BY PlainFresh
<1> QED BY <1>1, <1>2, EmptyStarted

LEMMA FreeStarted ==
    ASSUME now \in 0..MaxNow, NEW c, NEW cmd \in Command
    PROVE  /\ Begin(c, Unlogged(cmd), KeysOf(<<cmd>>)) => Started(c)
           /\ OwnKeys(cmd) = {} /\ Begin(c, Unlogged(cmd), {}) => Started(c)
           /\ \A X : cmd \in BareCommand /\ X = OwnKeys(cmd) /\ Begin(c, LogFirst(cmd, FALSE), X) => Started(c)
<1>1. KeysOf(<<cmd>>) = OwnKeys(cmd)
  BY KeysOne
<1>2. /\ Fresh(Unlogged(cmd), OwnKeys(cmd))
      /\ cmd \in BareCommand => Fresh(LogFirst(cmd, FALSE), OwnKeys(cmd))
  BY FreeFresh
<1>3. OwnKeys(cmd) \in SUBSET (Keys \cup {InvalidKey})
  BY OwnKeysOK
<1> QED BY <1>1, <1>2, <1>3 DEF Started

LEMMA HandleStarted ==
    ASSUME now \in 0..MaxNow, NEW c, Handle(c)
    PROVE  Started(c)
<1>1. CASE set_value(c)
  <2>1. PICK k \in Keys \cup {InvalidKey}, text \in Texts, ttl \in Ttls :
          Serve(c, "set", [op |-> "set", key |-> k, text |-> text, ttl |-> ttl])
    BY <1>1 DEF set_value
  <2>2. [op |-> "set", key |-> k, text |-> text, ttl |-> ttl] \in KeyCommand
    BY ServerAssumption DEF KeyCommand
  <2> QED BY <2>1, <2>2, PlainStarted
<1>2. CASE delete_value(c)
  <2>1. PICK k \in Keys :
          Serve(c, "delete", [op |-> "delete", key |-> k])
    BY <1>2 DEF delete_value
  <2>2. [op |-> "delete", key |-> k] \in KeyCommand
    BY ServerAssumption DEF KeyCommand
  <2> QED BY <2>1, <2>2, PlainStarted
<1>3. CASE incrby_value(c)
  <2>1. PICK k \in Keys, n \in {1, -1} \cup Amounts :
          Serve(c, "incrby", [op |-> "incrby", key |-> k, amount |-> n])
    BY <1>3 DEF incrby_value
  <2>1a. n \in Int
    BY ServerAssumption
  <2>2. [op |-> "incrby", key |-> k, amount |-> n] \in KeyCommand
    BY <2>1a DEF KeyCommand
  <2> QED BY <2>1, <2>2, PlainStarted
<1>4. CASE append_value(c)
  <2>1. PICK k \in Keys, text \in Texts :
          Serve(c, "append", [op |-> "append", key |-> k, text |-> text])
    BY <1>4 DEF append_value
  <2>2. [op |-> "append", key |-> k, text |-> text] \in KeyCommand
    BY ServerAssumption DEF KeyCommand
  <2> QED BY <2>1, <2>2, PlainStarted
<1>5. CASE set_expire(c)
  <2>1. PICK k \in Keys, ttl \in Ttls \ {None, 0} :
          Serve(c, "expire", [op |-> "expire", key |-> k, ttl |-> ttl])
    BY <1>5 DEF set_expire
  <2>2. [op |-> "expire", key |-> k, ttl |-> ttl] \in KeyCommand
    BY ServerAssumption DEF KeyCommand
  <2> QED BY <2>1, <2>2, PlainStarted
<1>6. CASE persist_key(c)
  <2>1. PICK k \in Keys :
          Serve(c, "persist", [op |-> "persist", key |-> k])
    BY <1>6 DEF persist_key
  <2>2. [op |-> "persist", key |-> k] \in KeyCommand
    BY ServerAssumption DEF KeyCommand
  <2> QED BY <2>1, <2>2, PlainStarted
<1>7. CASE list_push(c)
  <2>1. PICK k \in Keys, text \in Texts, op \in {"lpush", "rpush"} :
          Serve(c, "push", [op |-> op, key |-> k, text |-> text])
    BY <1>7 DEF list_push
  <2>2. [op |-> op, key |-> k, text |-> text] \in KeyCommand
    BY ServerAssumption DEF KeyCommand
  <2> QED BY <2>1, <2>2, PlainStarted
<1>8. CASE list_pop(c)
  <2>1. PICK k \in Keys, op \in {"lpop", "rpop"} :
          Serve(c, "pop", [op |-> op, key |-> k])
    BY <1>8 DEF list_pop
  <2>2. [op |-> op, key |-> k] \in KeyCommand
    BY ServerAssumption DEF KeyCommand
  <2> QED BY <2>1, <2>2, PlainStarted
<1>9. CASE hash_hset(c)
  <2>1. PICK k \in Keys, f \in Fields, n \in Amounts :
          Serve(c, "hset", [op |-> "hset", key |-> k, field |-> f, value |-> n])
    BY <1>9 DEF hash_hset
  <2>2. [op |-> "hset", key |-> k, field |-> f, value |-> n] \in KeyCommand
    BY ServerAssumption DEF KeyCommand, FieldText
  <2> QED BY <2>1, <2>2, PlainStarted
<1>10. CASE hash_hdel(c)
  <2>1. PICK k \in Keys, f \in Fields :
          Serve(c, "hdel", [op |-> "hdel", key |-> k, field |-> f])
    BY <1>10 DEF hash_hdel
  <2>2. [op |-> "hdel", key |-> k, field |-> f] \in KeyCommand
    BY ServerAssumption DEF KeyCommand
  <2> QED BY <2>1, <2>2, PlainStarted
<1>11. CASE hash_hincrby(c)
  <2>1. PICK k \in Keys, f \in Fields, n \in Amounts :
          Serve(c, "hincrby", [op |-> "hincrby", key |-> k, field |-> f, amount |-> n])
    BY <1>11 DEF hash_hincrby
  <2>2. [op |-> "hincrby", key |-> k, field |-> f, amount |-> n] \in KeyCommand
    BY ServerAssumption DEF KeyCommand
  <2> QED BY <2>1, <2>2, PlainStarted
<1>12. CASE getset_value(c)
  <2>1. PICK k \in Keys, text \in Texts :
          Begin(c, LogFirst([op |-> "getset", key |-> k, text |-> text], FALSE), {k})
    BY <1>12 DEF getset_value
  <2>2. PICK cmd : cmd = [op |-> "getset", key |-> k, text |-> text]
    OBVIOUS
  <2>2a. cmd \in BareCommand /\ cmd \in Command
    BY <2>2 DEF BareCommand, Command
  <2>3. Begin(c, LogFirst(cmd, FALSE), {k}) /\ {k} = OwnKeys(cmd)
    BY <2>1, <2>2 DEF OwnKeys
  <2> QED BY <2>2a, <2>3, FreeStarted
<1>13. CASE mset_values(c)
  <2>1. PICK k \in Keys, other \in Keys, text \in Texts :
          Begin(c, LogFirst([op |-> "mset", key |-> k, other |-> other, text |-> text], FALSE), {k, other})
    BY <1>13 DEF mset_values
  <2>2. PICK cmd : cmd = [op |-> "mset", key |-> k, other |-> other, text |-> text]
    OBVIOUS
  <2>2a. cmd \in BareCommand /\ cmd \in Command
    BY <2>2 DEF BareCommand, Command
  <2>3. Begin(c, LogFirst(cmd, FALSE), {k, other}) /\ {k, other} = OwnKeys(cmd)
    BY <2>1, <2>2 DEF OwnKeys
  <2> QED BY <2>2a, <2>3, FreeStarted
<1>14. CASE hash_hincrbyfloat(c)
  <2>1. PICK k \in Keys, f \in Fields, n \in Amounts :
          Begin(c, Job("api", TRUE, <<Do(<<FloatCommand(k, f, n)>>), LogField(k, f)>>,
                       <<FloatCommand(k, f, n)>>), {})
    BY <1>14 DEF hash_hincrbyfloat, FloatCommand, LogField
  <2>2. n \in Int
    BY ServerAssumption
  <2>3. Fresh(Job("api", TRUE, <<Do(<<FloatCommand(k, f, n)>>), LogField(k, f)>>,
                  <<FloatCommand(k, f, n)>>), {})
    BY <2>2, FloatFresh
  <2> QED BY <2>1, <2>3, EmptyStarted
<1>15. CASE hll_update(c)
  <2>1. PICK k \in Keys, other \in Keys, text \in Texts :
          \E cmd \in {[op |-> "pfadd", key |-> k, text |-> text],
                      [op |-> "pfreserve", key |-> k, amount |-> 4],
                      [op |-> "pfmerge", key |-> k, other |-> other]} :
            Begin(c, Unlogged(cmd), KeysOf(<<cmd>>))
    BY <1>15 DEF hll_update
  <2>2. PICK cmd \in {[op |-> "pfadd", key |-> k, text |-> text],
                      [op |-> "pfreserve", key |-> k, amount |-> 4],
                      [op |-> "pfmerge", key |-> k, other |-> other]} :
            Begin(c, Unlogged(cmd), KeysOf(<<cmd>>))
    BY <2>1
  <2>3. cmd \in Command
    BY DEF Command
  <2> QED BY <2>2, <2>3, FreeStarted
<1>16. CASE transaction(c)
  <2>1. PICK op \in {"multi", "exec", "discard"} : Begin(c, Unlogged([op |-> op]), {})
    BY <1>16 DEF transaction
  <2>2. PICK cmd : cmd = [op |-> op]
    OBVIOUS
  <2>3. cmd \in Command /\ OwnKeys(cmd) = {}
    BY <2>2 DEF Command, OwnKeys
  <2>4. Begin(c, Unlogged(cmd), {})
    BY <2>1, <2>2
  <2> QED BY <2>3, <2>4, FreeStarted
<1>17. CASE pipeline_exec(c)
  <2>1. PICK k \in Keys, other \in Keys, text \in Texts :
          LET cmds == <<[op |-> "append", key |-> k, text |-> text],
                        [op |-> "set", key |-> other, text |-> text, ttl |-> None]>>
          IN  Begin(c, Job("pipeline", FALSE,
                           <<Log(cmds[1], FALSE), Log(cmds[2], FALSE), Do(cmds)>>, cmds), {k, other})
    BY <1>17 DEF pipeline_exec
  <2> DEFINE a == [op |-> "append", key |-> k, text |-> text]
             b == [op |-> "set", key |-> other, text |-> text, ttl |-> None]
             j == Job("pipeline", FALSE, <<Log(a, FALSE), Log(b, FALSE), Do(<<a, b>>)>>, <<a, b>>)
  <2>2. Begin(c, j, {k, other})
    BY <2>1
  <2>3. a \in KeyCommand /\ b \in KeyCommand
    BY DEF KeyCommand
  <2>4. a.key = k /\ b.key = other
    OBVIOUS
  <2> HIDE DEF a, b
  <2>5. PICK X : X = {k, other}
    OBVIOUS
  <2>5a. X \in SUBSET (Keys \cup {InvalidKey})
    BY <2>5
  <2>6. a.key \in X /\ b.key \in X
    BY <2>4, <2>5
  <2>7. Fresh(j, X)
    BY <2>3, <2>6, PipelineFresh DEF j
  <2> HIDE DEF j
  <2> QED BY <2>2, <2>5, <2>5a, <2>7 DEF Started
<1>18. CASE lua_exec(c)
  <2>1. PICK k \in Keys, other \in Keys, text \in Texts :
          LET first == [op |-> "set", key |-> k, text |-> text, ttl |-> None]
              incr == [op |-> "incrby", key |-> other, amount |-> 1]
          IN  \/ Begin(c, Job("script", TRUE, <<Log(first, TRUE), Do(<<first>>),
                                                Log(incr, TRUE), Do(<<incr>>)>>,
                              <<first, incr>>), {})
              \/ \E f \in Fields, n \in Amounts :
                  \E hash \in {[op |-> "hset", key |-> other, field |-> f, value |-> n],
                              [op |-> "hdel", key |-> other, field |-> f]} :
                      Begin(c, Job("script", TRUE, <<Do(<<hash>>), Log(first, TRUE), Do(<<first>>)>>,
                                   <<hash, first>>), {other})
    BY <1>18 DEF lua_exec
  <2> DEFINE a == [op |-> "set", key |-> k, text |-> text, ttl |-> None]
             b == [op |-> "incrby", key |-> other, amount |-> 1]
             j == Job("script", TRUE, <<Log(a, TRUE), Do(<<a>>), Log(b, TRUE), Do(<<b>>)>>, <<a, b>>)
             o(h) == Job("script", TRUE, <<Do(<<h>>), Log(a, TRUE), Do(<<a>>)>>, <<h, a>>)
  <2>2. \/ Begin(c, j, {})
        \/ \E f \in Fields, n \in Amounts :
             \E h \in {[op |-> "hset", key |-> other, field |-> f, value |-> n],
                      [op |-> "hdel", key |-> other, field |-> f]} : Begin(c, o(h), {other})
    BY <2>1
  <2>3. a \in KeyCommand /\ b \in KeyCommand
    BY DEF KeyCommand
  <2> HIDE DEF a, b
  <2>4. CASE Begin(c, j, {})
    <3>1. Fresh(j, {})
      BY <2>3, ScriptFresh
    <3> HIDE DEF j
    <3> QED BY <2>4, <3>1, EmptyStarted
  <2>5. ASSUME NEW f \in Fields, NEW n \in Amounts,
               NEW h \in {[op |-> "hset", key |-> other, field |-> f, value |-> n],
                         [op |-> "hdel", key |-> other, field |-> f]},
               Begin(c, o(h), {other})
        PROVE  Started(c)
    <3>1. n \in FieldText
      BY ServerAssumption DEF FieldText
    <3>2. h \in KeyCommand /\ h.key = other
      BY <3>1 DEF KeyCommand
    <3>3. PICK X : X = {other}
      OBVIOUS
    <3>4. h.key \in X /\ X \in SUBSET (Keys \cup {InvalidKey})
      BY <3>2, <3>3
    <3>5. Fresh(o(h), X)
      BY <2>3, <3>2, <3>4, OpenFresh
    <3> HIDE DEF o
    <3> QED BY <2>5, <3>3, <3>4, <3>5 DEF Started
  <2> HIDE DEF j, o
  <2> QED BY <2>2, <2>4, <2>5
<1> QED BY <1>1, <1>2, <1>3, <1>4, <1>5, <1>6, <1>7, <1>8, <1>9,
           <1>10, <1>11, <1>12, <1>13, <1>14, <1>15, <1>16, <1>17, <1>18 DEF Handle

-----------------------------------------------------------------------------
(* What the log holds, and what a start loads *)

LogLine == Seq(LogEntry \cup Cuts)

\* Whatever is not dropped can be replayed: getset and mset are never logged as JSON.
LEMMA ReplayedOK ==
    ASSUME NEW entries, Len(entries) \in Nat, \A i \in 1..Len(entries) : entries[i] \in LogEntry
    PROVE  Replayed(entries) \in Seq(KeyCommand)
<1> DEFINE n == Len(entries)
           kept == {i \in 1..n : ~Dropped(entries[i])}
           m == Cardinality(kept)
<1>1. kept \in SUBSET (1..n) /\ m \in Nat
  <2>1. kept \in SUBSET (1..n)
    OBVIOUS
  <2> HIDE DEF kept
  <2> QED BY <2>1, PositionsFinite
<1>2. \A i \in kept : entries[i].cmd \in KeyCommand
  <2> TAKE i \in kept
  <2>1. entries[i] \in LogEntry /\ ~Dropped(entries[i])
    OBVIOUS
  <2> QED BY <2>1 DEF LogEntry, BareCommand, Dropped
<1>3. Replayed(entries) = [i \in 1..m |-> entries[Nth(kept, i)].cmd]
  BY DEF Replayed
<1> HIDE DEF n, kept, m
<1>4. \A i \in 1..m : Nth(kept, i) \in kept
  <2>1. n \in Nat
    BY DEF n
  <2> QED BY <1>1, <2>1, NthOK DEF m
<1>5. [i \in 1..m |-> entries[Nth(kept, i)].cmd] \in [1..m -> KeyCommand]
  BY <1>2, <1>4
<1> QED BY <1>1, <1>3, <1>5, FunctionIsSeq

\* What is read of the log is entries.
LEMMA ReadTyped ==
    ASSUME NEW file \in Seq(LogLine)
    PROVE  read_all(file) \in Seq(LogEntry)
<1> DEFINE n == Len(file)
           S == Parsed(file)
           c == Cardinality(S)
<1>1. n \in Nat /\ S \in SUBSET (1..n)
  BY DEF Parsed
<1>2. \A p \in S : file[p][1] \in LogEntry
  <2> TAKE p \in S
  <2>1. file[p] \in Seq(LogEntry \cup Cuts) /\ file[p] # <<>> /\ ~Malformed(file[p])
    BY DEF Parsed, LogLine
  <2>2. PICK line \in Seq(LogEntry \cup Cuts) : line = file[p] /\ line # <<>>
    BY <2>1
  <2>3. Len(line) \in Nat /\ Len(line) # 0 /\ line[1] \in LogEntry \cup Cuts
    BY <2>2
  <2>4. ~(Len(line) > 1) /\ ~(Len(line) = 1 /\ line[1] \in Cuts)
    BY <2>1, <2>2 DEF Malformed
  <2>5. Len(line) = 1
    <3>1. PICK m \in Nat : m = Len(line)
      BY <2>3
    <3>2. ~(m > 1) /\ m # 0
      BY <2>3, <2>4, <3>1, Zenon
    <3> QED BY <3>1, <3>2
  <2> QED BY <2>2, <2>3, <2>4, <2>5
<1>3. ParsedEntries(file) = [i \in 1..c |-> file[Nth(S, i)][1]]
  BY DEF ParsedEntries
<1> HIDE DEF n, S, c
<1>4. c \in Nat /\ \A i \in 1..c : Nth(S, i) \in S
  BY <1>1, NthOK, PositionsFinite DEF c
<1>5. ParsedEntries(file) \in [1..c -> LogEntry]
  BY <1>2, <1>3, <1>4
<1>6. ParsedEntries(file) \in Seq(LogEntry)
  BY <1>4, <1>5, FunctionIsSeq
<1> QED BY <1>6 DEF read_all

LEMMA LoggedOK ==
    ASSUME NEW file \in Seq(LogLine)
    PROVE  Replayed(read_all(file)) \in Seq(KeyCommand)
<1>1. PICK entries \in Seq(LogEntry) : entries = read_all(file)
  BY ReadTyped
<1>2. Len(entries) \in Nat /\ \A i \in 1..Len(entries) : entries[i] \in LogEntry
  OBVIOUS
<1> QED BY <1>1, <1>2, ReplayedOK

\* What a write leaves in the log.
LEMMA LogTyped ==
    ASSUME NEW file \in Seq(LogLine) \ {<<>>}
    PROVE  /\ write_newline(file) \in Seq(LogLine) \ {<<>>}
           /\ \A x \in LogEntry \cup Cuts : write_text(file, x) \in Seq(LogLine) \ {<<>>}
<1>1. Len(file) > 0 /\ file \in Seq(Seq(LogEntry \cup Cuts))
  BY DEF LogLine
<1>2. write_newline(file) \in Seq(LogLine) /\ Len(write_newline(file)) > 0
  BY <1>1, NewlineGrows DEF LogLine
<1>3. ASSUME NEW x \in LogEntry \cup Cuts
      PROVE  write_text(file, x) \in Seq(LogLine) /\ Len(write_text(file, x)) > 0
  <2>1. /\ write_text(file, x) \in Seq(Seq(LogEntry \cup Cuts))
        /\ Len(write_text(file, x)) = Len(file)
    BY <1>1, TextGrows
  <2> QED BY <1>1, <2>1 DEF LogLine
<1>4. Len(<<>>) = 0
  OBVIOUS
<1> QED BY <1>2, <1>3, <1>4

\* A store that knows of finitely many keys.
Finite(f) == f # None => IsFiniteSet(Stored(f.store))

LEMMA StateTyped ==
    ASSUME NEW s, StateOK(s)
    PROVE  IsStore(s) /\ IsFiniteSet(Stored(s.store))
<1>1. s.lru_order \in Seq(Keys) /\ Covers(s.lru_order, s.store)
  BY DEF StateOK, LruOK
<1>2. IsFiniteSet(Stored(s.store))
  <2> DEFINE n == Len(s.lru_order)
             R == {s.lru_order[i] : i \in 1..n}
             f == [i \in 1..n |-> s.lru_order[i]]
  <2>1. n \in Nat /\ IsFiniteSet(1..n)
    BY <1>1, FS_Interval
  <2>2. f \in [1..n -> R] /\ \A k \in R : \E i \in 1..n : f[i] = k
    OBVIOUS
  <2>3. Stored(s.store) \in SUBSET R
    BY <1>1 DEF Stored, Covers
  <2> HIDE DEF f, R, n
  <2>4. f \in Surjection(1..n, R)
    BY <2>2 DEF Surjection
  <2>5. IsFiniteSet(R)
    BY <2>1, <2>4, FS_Surjection
  <2> QED BY <2>3, <2>5, FS_Subset
<1> QED BY <1>1, <1>2 DEF IsStore, StateOK

LEMMA NewStoreOK ==
    StateOK(NewStore) /\ ~in_transaction(NewStore)
<1>1. <<>> \in Seq(Keys) /\ <<>> \in Seq(KeyspaceEvent) /\ Len(<<>>) = 0
  OBVIOUS
<1>2. LruOK(<<>>, [k \in Keys |-> None])
  BY <1>1 DEF LruOK, NoRepeat, Covers
<1> QED BY <1>1, <1>2 DEF NewStore, StateOK, IsKv, in_transaction

LEMMA LoadedOK ==
    ASSUME saved \in SavedStore \cup {None}, Finite(saved), NEW s \in Loaded
    PROVE  /\ StateOK(s) /\ ~in_transaction(s)
           /\ s.store = IF saved = None THEN [k \in Keys |-> None] ELSE saved.store
<1>1. CASE saved = None
  <2>1. s = NewStore
    BY <1>1 DEF Loaded
  <2>2. NewStore.store = [k \in Keys |-> None]
    BY DEF NewStore
  <2> QED BY <1>1, <2>1, <2>2, NewStoreOK
<1>2. CASE saved # None
  <2> DEFINE D == Stored(saved.store)
             c == Cardinality(D)
  <2>1. PICK order \in SetToSeqs(D) : s = load_from_file(saved, order)
    BY <1>2 DEF Loaded
  <2>2. saved \in SavedStore /\ IsFiniteSet(D) /\ c \in Nat /\ D \in SUBSET Keys
    BY <1>2, FS_CardinalityType DEF Finite, Stored
  <2>3. order \in [1..c -> D] /\ \A i, j \in 1..c : i # j => order[i] # order[j]
    BY <2>1 DEF SetToSeqs
  <2>4. order \in Seq(Keys) /\ Len(order) = c
    <3>1. order \in [1..c -> Keys]
      BY <2>2, <2>3
    <3> QED BY <2>2, <3>1, FunctionIsSeq
  <2> HIDE DEF c
  <2>5. \A k \in D : \E i \in 1..c : order[i] = k
    <3>1. order \in Injection(1..c, D)
      BY <2>3 DEF Injection, IsInjective
    <3>2. Cardinality(1..c) = c
      BY <2>2, FS_Interval
    <3>3. order \in Surjection(1..c, D)
      BY <2>2, <3>1, <3>2, FS_Injection DEF c
    <3> QED BY <3>3 DEF Surjection
  <2> HIDE DEF D
  <2>6. LruOK(order, saved.store)
    BY <2>3, <2>4, <2>5 DEF LruOK, NoRepeat, Covers, D, Stored
  <2>7. /\ IsKv(s) /\ s.store = saved.store /\ s.memory_bytes = saved.memory_bytes
        /\ s.total_writes = saved.total_writes /\ s.lru_order = order
        /\ s.transaction_queue = None /\ s.events = <<>> /\ s.notify = FALSE
    BY <2>1 DEF load_from_file, NewStore, IsKv
  <2>8. <<>> \in Seq(KeyspaceEvent)
    OBVIOUS
  <2> QED BY <1>2, <2>2, <2>6, <2>7, <2>8 DEF StateOK, SavedStore, in_transaction
<1> QED BY <1>1, <1>2

-----------------------------------------------------------------------------
(* The inductive invariant *)

ServerInv ==
    /\ mode \in {"up", "stopping", "down"}
    /\ StateOK(mem)
    /\ wal \in Seq(LogLine) \ {<<>>}
    /\ saved \in SavedStore \cup {None} /\ Finite(saved)
    /\ JobInv
    /\ now \in 0..MaxNow
    /\ requests \in 0..MaxRequests /\ starts \in Nat /\ errors \in 0..MaxErrors
    /\ excused \in SUBSET (Keys \cup {InvalidKey})
    /\ mode = "down" => job = Idle /\ lock = None

LEMMA InvTyped ==
    ASSUME ServerInv
    PROVE  TypeOK /\ LockHasOwner
  BY StateTyped DEF ServerInv, TypeOK, JobInv, LogLine

LEMMA InitInv ==
    ASSUME Init
    PROVE  ServerInv
<1>1. StateOK(mem)
  BY NewStoreOK DEF Init
<1>2. wal \in Seq(LogLine) \ {<<>>}
  <2>1. <<>> \in LogLine
    BY DEF LogLine
  <2>2. PICK x : x = <<>> /\ x \in LogLine
    BY <2>1
  <2>3. wal = <<x>>
    BY <2>2 DEF Init
  <2> HIDE <2>2
  <2>4. <<x>> \in Seq(LogLine) /\ <<x>> # <<>>
    BY <2>2
  <2> QED BY <2>3, <2>4
<1>3. job \in [Clients -> Program \cup {None}] /\ \A c \in Clients : job[c] = None
  BY DEF Init, Idle
<1>4. JobInv
  BY <1>3 DEF Init, JobInv, Apart, LockOK, LockHasOwner
<1>5. /\ now \in 0..MaxNow /\ requests \in 0..MaxRequests /\ starts \in Nat /\ errors \in 0..MaxErrors
      /\ saved = None /\ excused = {} /\ mode = "up"
  BY ServerAssumption DEF Init
<1> QED BY <1>1, <1>2, <1>4, <1>5 DEF ServerInv, Finite

\* Nothing happens to the requests under way.
LEMMA JobsStay ==
    ASSUME JobInv, UNCHANGED <<job, lock>>, excused \subseteq excused'
    PROVE  JobInv'
<1>1. \A c \in Clients : job'[c] # None => Shape(job'[c], excused')
  BY ShapeGrows DEF JobInv
<1>2. Apart' /\ LockOK' /\ LockHasOwner'
  BY DEF JobInv, Apart, LockOK, LockHasOwner
<1> QED BY <1>1, <1>2 DEF JobInv

\* A process with a request under way is not down.
LEMMA Busy ==
    ASSUME ServerInv, NEW c \in Clients, job[c] # None
    PROVE  mode # "down"
<1>1. mode = "down" => job = Idle
  BY DEF ServerInv
<1>2. Idle[c] = None
  BY DEF Idle
<1> QED BY <1>1, <1>2

LEMMA BeginInv ==
    ASSUME ServerInv, NEW c \in Clients, NEW j, NEW lost, Begin(c, j, lost), Fresh(j, lost),
           lost \in SUBSET (Keys \cup {InvalidKey})
    PROVE  ServerInv'
<1>1. JobInv'
  BY BeginOK DEF ServerInv
<1>2. excused' \in SUBSET (Keys \cup {InvalidKey})
  <2>1. j.keys \in SUBSET (Keys \cup {InvalidKey})
    BY DEF Fresh, Program
  <2>2. excused' = excused \cup (lost \cup UNION {j.keys \cap job[d].keys :
                                               d \in {d \in Clients \ {c} : job[d] # None}})
    BY DEF Begin, Excuse
  <2>3. excused \in SUBSET (Keys \cup {InvalidKey})
    BY DEF ServerInv
  <2> QED BY <2>1, <2>2, <2>3
<1>3. requests' \in 0..MaxRequests
  BY ServerAssumption DEF ServerInv, Begin
<1> QED BY <1>1, <1>2, <1>3 DEF ServerInv, Begin, disk

LEMMA AcquireInv ==
    ASSUME ServerInv, NEW c \in Clients, Acquire(c)
    PROVE  ServerInv'
<1>1. JobInv /\ job[c] # None /\ job[c].hold /\ lock = None /\ excused' = excused
  BY DEF ServerInv, Acquire
<1>2. job[c] \in Program /\ Shape(job[c], excused) /\ c # None
  BY <1>1, NobodyAssumption DEF JobInv
<1>3. ASSUME job' = [job EXCEPT ![c] = None] /\ lock' = lock
      PROVE  JobInv'
  <2>1. PICK j : j = None
    OBVIOUS
  <2>2. job' = [job EXCEPT ![c] = j] /\ lock' # c
    BY <1>1, <1>2, <1>3, <2>1
  <2>3. \/ j = None
        \/ j \in Program /\ Shape(j, excused') /\ j.keys = job[c].keys /\ j.hold = job[c].hold
    BY <2>1
  <2>4. \/ lock' = lock
        \/ lock' = None /\ lock = c
        \/ lock' = c /\ lock = None
    BY <1>3
  <2>5. j # None /\ j.hold /\ (j.logged \/ First(j) = "logfield") => lock' = c
    BY <2>1
  <2>6. lock' = c => j # None /\ j.hold
    BY <2>2
  <2>7. excused \subseteq excused' /\ JobInv /\ job[c] # None
    BY <1>1
  <2>8. job' = [job EXCEPT ![c] = j]
    BY <2>2
  <2> QED BY <2>3, <2>4, <2>5, <2>6, <2>7, <2>8, JobMoves
<1>4. ASSUME lock' = c /\ job' = job
      PROVE  JobInv'
  <2>1. PICK j : j = job[c]
    OBVIOUS
  <2>2. job' = [job EXCEPT ![c] = j]
    BY <1>4, <2>1 DEF JobInv, ServerInv
  <2>3. \/ j = None
        \/ j \in Program /\ Shape(j, excused') /\ j.keys = job[c].keys /\ j.hold = job[c].hold
    BY <1>1, <1>2, <2>1
  <2>4. \/ lock' = lock
        \/ lock' = None /\ lock = c
        \/ lock' = c /\ lock = None
    BY <1>1, <1>4
  <2>5. j # None /\ j.hold /\ (j.logged \/ First(j) = "logfield") => lock' = c
    BY <1>4
  <2>6. lock' = c => j # None /\ j.hold
    BY <1>1, <2>1
  <2>7. excused \subseteq excused' /\ JobInv /\ job[c] # None
    BY <1>1
  <2> QED BY <2>2, <2>3, <2>4, <2>5, <2>6, <2>7, JobMoves
<1>5. (job' = [job EXCEPT ![c] = None] /\ lock' = lock) \/ (lock' = c /\ job' = job)
  BY Zenon DEF Acquire
<1>6. JobInv'
  BY <1>3, <1>4, <1>5
<1>7. mode # "down"
  BY <1>1, Busy
<1> QED BY <1>6, <1>7 DEF ServerInv, Acquire, disk

\* The entries a handler makes.
LEMMA EntryTyped ==
    ASSUME StateOK(mem), NEW x \in Instruction, x.do # "apply", NEW t \in 0..MaxNow
    PROVE  EntryOf(x, t) \in LogEntry
<1>1. CASE x.do = "log"
  <2>1. /\ x.entry.cmd \in KeyCommand \/ (x.entry.cmd \in BareCommand /\ x.entry.json = FALSE)
        /\ x.entry.json \in BOOLEAN
    BY <1>1 DEF Instruction
  <2> QED BY <1>1, <2>1 DEF EntryOf, LogEntry
<1>2. CASE x.do = "logfield"
  <2>1. x.key \in Keys /\ x.field \in Fields
    BY <1>2 DEF Instruction
  <2>2. HashOf(mem, x.key)[x.field] \in FieldText \cup {None}
    BY <2>1, ContentsType
  <2>3. PICK cmd : cmd = [op |-> "hset", key |-> x.key, field |-> x.field, value |-> HashOf(mem, x.key)[x.field]]
    OBVIOUS
  <2>4. cmd \in KeyCommand
    BY <2>1, <2>2, <2>3 DEF KeyCommand
  <2>5. EntryOf(x, t) = [cmd |-> cmd, json |-> TRUE, time |-> t]
    BY <1>2, <2>3 DEF EntryOf
  <2> QED BY <2>4, <2>5 DEF LogEntry
<1> QED BY <1>1, <1>2 DEF Instruction

LEMMA WriteTextInv ==
    ASSUME ServerInv, NEW c \in Clients, WriteText(c)
    PROVE  ServerInv'
<1> DEFINE j == [job[c] EXCEPT !.half = TRUE, !.logged = TRUE]
<1>1. /\ JobInv /\ job[c] # None /\ First(job[c]) # "apply" /\ excused' = excused
      /\ lock' = lock /\ (job[c].hold => lock = c)
  BY DEF ServerInv, WriteText, Logging, Ready, First
<1>2. job[c] \in Program /\ Shape(job[c], excused) /\ c # None
  BY <1>1, NobodyAssumption DEF JobInv
<1>3. job' = [job EXCEPT ![c] = j]
  BY <1>2 DEF WriteText, ServerInv, JobInv, Program
<1>4. /\ j \in Program /\ j.keys = job[c].keys /\ j.hold = job[c].hold /\ j.kind = job[c].kind
      /\ j.todo = job[c].todo /\ j.half /\ j.logged
  BY <1>2 DEF Program
<1> HIDE DEF j
<1>5. Shape(j, excused')
  <2>1. Shape(j, excused)
    BY <1>1, <1>2, <1>4, WriteShape
  <2> QED BY <1>1, <2>1
<1>6. JobInv'
  <2>1. j # None
    BY <1>4, NobodyAssumption
  <2>2. j.hold => lock' = c
    BY <1>1, <1>4
  <2>3. lock' = c => j.hold
    BY <1>1, <1>2, <1>4 DEF JobInv, LockHasOwner
  <2>4. excused \subseteq excused' /\ JobInv /\ job[c] # None /\ lock' = lock
    BY <1>1
  <2>5. j \in Program /\ Shape(j, excused') /\ j.keys = job[c].keys /\ j.hold = job[c].hold
    BY <1>4, <1>5
  <2> QED BY <1>3, <2>1, <2>2, <2>3, <2>4, <2>5, JobMoves
<1>7. wal' \in Seq(LogLine) \ {<<>>}
  <2>1. PICK t \in job[c].since..now : wal' = write_text(wal, EntryOf(job[c].todo[1], t))
    BY DEF WriteText
  <2>2. t \in 0..MaxNow
    <3>1. job[c].since \in 0..MaxNow
      BY <1>2 DEF Program
    <3>2. now \in 0..MaxNow
      BY DEF ServerInv
    <3> QED BY <3>1, <3>2, ServerAssumption
  <2>3. job[c].todo[1] \in Instruction
    BY <1>2, TodoParts
  <2>4. EntryOf(job[c].todo[1], t) \in LogEntry \cup Cuts
    BY <1>1, <2>2, <2>3, EntryTyped DEF ServerInv, First
  <2> QED BY <2>1, <2>4, LogTyped DEF ServerInv
<1>8. mode # "down"
  BY <1>1, Busy
<1> QED BY <1>6, <1>7, <1>8 DEF ServerInv, WriteText

LEMMA WriteNewlineInv ==
    ASSUME ServerInv, NEW c \in Clients, WriteNewline(c)
    PROVE  ServerInv'
<1> DEFINE i == [job[c] EXCEPT !.todo = Tail(@), !.half = FALSE]
<1>1. /\ JobInv /\ job[c] # None /\ job[c].half /\ excused' = excused
      /\ (job[c].hold => lock = c) /\ Advance(c, i) /\ now \in 0..MaxNow
  BY DEF ServerInv, WriteNewline, Logging, Ready
<1>2. job[c] \in Program /\ Shape(job[c], excused)
  BY <1>1 DEF JobInv
<1>3. /\ DOMAIN i = DOMAIN job[c] /\ i.keys = job[c].keys /\ i.hold = job[c].hold
      /\ i.kind = job[c].kind /\ i.logged = job[c].logged /\ ~i.half /\ i.todo = Tail(job[c].todo)
  BY <1>2 DEF Program
<1>4. i.todo \in Seq(Instruction)
  BY <1>2, <1>3 DEF Program
<1>5. ASSUME i.todo # <<>>
      PROVE  [i EXCEPT !.since = now] \in Program /\ Shape([i EXCEPT !.since = now], excused')
  <2> DEFINE m == [i EXCEPT !.since = now]
  <2>1. /\ m \in Program /\ m.keys = i.keys /\ m.hold = i.hold /\ m.kind = i.kind
        /\ m.logged = i.logged /\ m.half = i.half /\ m.todo = i.todo
    BY <1>1, <1>2, <1>4, <1>5 DEF Program
  <2> HIDE DEF m, i
  <2>2. Shape(m, excused)
    BY <1>1, <1>2, <1>3, <2>1, TailShape
  <2> QED BY <1>1, <2>1, <2>2 DEF m
<1> HIDE DEF i
<1>6. JobInv'
  <2>1. excused \subseteq excused'
    BY <1>1
  <2> QED BY <1>1, <1>3, <1>5, <2>1, AdvanceOK
<1>7. wal' \in Seq(LogLine) \ {<<>>}
  BY LogTyped DEF ServerInv, WriteNewline
<1>8. mode # "down"
  BY <1>1, Busy
<1> QED BY <1>6, <1>7, <1>8 DEF ServerInv, WriteNewline

\* What is left of the commands are some of the commands.
LEMMA WithoutOK ==
    ASSUME NEW S, NEW cmds \in Seq(S), NEW x
    PROVE  /\ Without(cmds, x) \in Seq(S)
           /\ \A i \in 1..Len(Without(cmds, x)) : \E p \in 1..Len(cmds) : Without(cmds, x)[i] = cmds[p]
<1> DEFINE n == Len(cmds)
           rest == {i \in 1..n : cmds[i] # x}
           m == Cardinality(rest)
           w == Without(cmds, x)
<1>1. n \in Nat /\ rest \in SUBSET (1..n) /\ \A i \in 1..n : cmds[i] \in S
  OBVIOUS
<1>2. w = [i \in 1..m |-> cmds[Nth(rest, i)]]
  BY DEF Without
<1> HIDE DEF n, rest, w
<1>3. m \in Nat /\ \A i \in 1..m : Nth(rest, i) \in rest
  BY <1>1, NthOK, PositionsFinite
<1> HIDE DEF m
<1>4. \A i \in 1..m : Nth(rest, i) \in 1..n
  BY <1>1, <1>3
<1>5. w \in [1..m -> S]
  BY <1>1, <1>2, <1>4
<1>6. w \in Seq(S) /\ Len(w) = m
  BY <1>3, <1>5, FunctionIsSeq
<1>7. \A i \in 1..m : \E p \in 1..n : w[i] = cmds[p]
  BY <1>2, <1>4
<1> QED BY <1>6, <1>7 DEF w, n

\* The program of a pipeline that skips its first command.
Skipped(j) ==
    LET rest == Tail(j.todo)
    IN  Append(Front(rest), Do(Without(Last(rest).cmds, j.todo[1].entry.cmd)))

LEMMA SkipShape ==
    ASSUME NEW j \in Program, NEW X, Shape(j, X), j.kind = "pipeline", First(j) # "apply"
    PROVE  /\ Skipped(j) \in Seq(Instruction) /\ Skipped(j) # <<>>
           /\ \A m : m.kind = j.kind /\ m.hold = j.hold /\ m.keys = j.keys /\ m.todo = Skipped(j)
                  /\ ~m.half => Shape(m, X)
           /\ ~j.hold
<1> DEFINE n == Len(j.todo)
           rest == Tail(j.todo)
           last == j.todo[n]
           others == Without(last.cmds, j.todo[1].entry.cmd)
           T == Skipped(j)
<1>1. Free(j, X)
  BY DEF Shape, Plain, Float, Open
<1>2. n \in Nat /\ n >= 1 /\ j.todo \in Seq(Instruction) /\ last \in Instruction
  BY TodoParts DEF Program
<1>3. n >= 2
  BY <1>1, <1>2 DEF Free, First
<1>4. rest \in Seq(Instruction) /\ Len(rest) = n - 1 /\ \A p \in 1..(n - 1) : rest[p] = j.todo[p + 1]
  BY <1>2, <1>3
<1>5. Last(rest) = last
  <2>1. Last(rest) = rest[n - 1]
    BY <1>4 DEF Last
  <2>2. n - 1 \in 1..(n - 1) /\ (n - 1) + 1 = n
    BY <1>2, <1>3
  <2> QED BY <1>4, <2>1, <2>2
<1>6. /\ Front(rest) \in Seq(Instruction) /\ Len(Front(rest)) = n - 2
      /\ \A p \in 1..(n - 2) : Front(rest)[p] = j.todo[p + 1]
  <2>1. Front(rest) = SubSeq(rest, 1, n - 2)
    BY <1>2, <1>3, <1>4 DEF Front
  <2> HIDE DEF rest
  <2>2. /\ SubSeq(rest, 1, n - 2) \in Seq(Instruction) /\ Len(SubSeq(rest, 1, n - 2)) = n - 2
        /\ \A p \in 1..(n - 2) : SubSeq(rest, 1, n - 2)[p] = rest[p]
    BY <1>2, <1>3, <1>4
  <2> QED BY <1>2, <1>3, <1>4, <2>1, <2>2
<1>7. /\ others \in Seq(Command)
      /\ \A i \in 1..Len(others) : KeysIn(others[i], j.keys)
  <2>1. last.cmds \in Seq(Command) /\ \A i \in 1..Len(last.cmds) : KeysIn(last.cmds[i], j.keys)
    <3>1. n \in 1..n
      BY <1>2
    <3>2. last.do = "apply"
      BY <1>1 DEF Free
    <3> QED BY <1>1, <3>1, <3>2, TodoParts DEF Free
  <2>2. PICK cmds, x : cmds \in Seq(Command) /\ cmds = last.cmds /\ x = j.todo[1].entry.cmd
    BY <2>1
  <2>3. \A i \in 1..Len(cmds) : KeysIn(cmds[i], j.keys)
    BY <2>1, <2>2
  <2>4. PICK w : w = Without(cmds, x)
    OBVIOUS
  <2>5. w \in Seq(Command) /\ \A i \in 1..Len(w) : \E p \in 1..Len(cmds) : w[i] = cmds[p]
    BY <2>2, <2>4, WithoutOK
  <2>6. w = others
    BY <2>2, <2>4
  <2> QED BY <2>3, <2>5, <2>6
<1>8. T = Append(Front(rest), Do(others))
  BY <1>5 DEF Skipped
<1> HIDE DEF rest, others, T, last
<1>9. Do(others) \in Instruction /\ Do(others).do = "apply" /\ Do(others).cmds = others
  BY <1>7, DoInstruction
<1>10. /\ T \in Seq(Instruction) /\ Len(T) = n - 1
       /\ T[n - 1] = Do(others) /\ \A p \in 1..(n - 2) : T[p] = j.todo[p + 1]
  <2>1. PICK f \in Seq(Instruction), d \in Instruction : f = Front(rest) /\ d = Do(others)
    BY <1>6, <1>9
  <2>2. T = Append(f, d) /\ Len(f) = n - 2 /\ \A p \in 1..(n - 2) : f[p] = j.todo[p + 1]
    BY <1>6, <1>8, <2>1
  <2> HIDE DEF n
  <2>3. n - 2 \in Nat /\ (n - 2) + 1 = n - 1
    BY <1>2, <1>3
  <2>4. /\ T \in Seq(Instruction) /\ Len(T) = n - 1 /\ T[n - 1] = d
        /\ \A p \in 1..(n - 2) : T[p] = f[p]
    BY <2>2, <2>3
  <2> QED BY <2>1, <2>2, <2>4
<1>11. T # <<>>
  BY <1>3, <1>10
<1>12. ASSUME NEW m, m.kind = j.kind, m.hold = j.hold, m.keys = j.keys, m.todo = T, ~m.half
       PROVE  Shape(m, X)
  <2>1. m.todo[Len(m.todo)] = Do(others) /\ Len(m.todo) = n - 1
    BY <1>10, <1>12
  <2>2. \A i \in 1..(Len(m.todo) - 1) :
          /\ m.todo[i].do = "log"
          /\ m.todo[i].entry.cmd \in KeyCommand => m.todo[i].entry.cmd.key \in m.keys
    <3>1. \A i \in 1..(Len(m.todo) - 1) : i \in 1..(n - 2) /\ i + 1 \in 1..(n - 1)
      BY <1>2, <2>1
    <3>2. \A i \in 1..(Len(m.todo) - 1) : m.todo[i] = j.todo[i + 1]
      BY <1>10, <1>12, <3>1
    <3>3. \A i \in 1..(n - 1) :
            /\ j.todo[i].do = "log"
            /\ j.todo[i].entry.cmd \in KeyCommand => j.todo[i].entry.cmd.key \in j.keys
      BY <1>1 DEF Free
    <3> QED BY <1>12, <3>1, <3>2, <3>3
  <2>3. Free(m, X)
    BY <1>1, <1>7, <1>9, <1>12, <2>1, <2>2 DEF Free
  <2> QED BY <2>3 DEF Shape
<1> QED BY <1>1, <1>10, <1>11, <1>12 DEF T, Free

LEMMA AppendFailsInv ==
    ASSUME ServerInv, NEW c \in Clients, AppendFails(c)
    PROVE  ServerInv'
<1> DEFINE skip == [job[c] EXCEPT !.todo = Skipped(job[c]), !.half = FALSE]
           i == IF job[c].kind = "pipeline" THEN skip ELSE Stop(job[c])
<1>1. /\ JobInv /\ job[c] # None /\ First(job[c]) # "apply" /\ excused \subseteq excused'
      /\ (job[c].hold => lock = c) /\ now \in 0..MaxNow
  BY DEF ServerInv, AppendFails, Logging, Ready, First
<1>2. job[c] \in Program /\ Shape(job[c], excused)
  BY <1>1 DEF JobInv
<1>3. Advance(c, i)
  BY DEF AppendFails, Skipped
<1>4. DOMAIN i = DOMAIN job[c] /\ i.keys = job[c].keys /\ i.hold = job[c].hold
  BY <1>2 DEF Program, Stop
<1>5. ASSUME i.todo # <<>>
      PROVE  /\ [i EXCEPT !.since = now] \in Program /\ Shape([i EXCEPT !.since = now], excused')
             /\ ~i.hold
  <2>1. job[c].kind = "pipeline"
    BY <1>2, <1>5 DEF Stop, Program
  <2>2. i = skip
    BY <2>1
  <2>3. /\ Skipped(job[c]) \in Seq(Instruction) /\ Skipped(job[c]) # <<>> /\ ~job[c].hold
        /\ \A m : m.kind = job[c].kind /\ m.hold = job[c].hold /\ m.keys = job[c].keys
                  /\ m.todo = Skipped(job[c]) /\ ~m.half => Shape(m, excused)
    BY <1>1, <1>2, <2>1, SkipShape
  <2> DEFINE m == [i EXCEPT !.since = now]
  <2>4. /\ m \in Program /\ m.keys = job[c].keys /\ m.hold = job[c].hold /\ m.kind = job[c].kind
        /\ m.todo = Skipped(job[c]) /\ ~i.hold /\ ~m.half
    BY <1>1, <1>2, <2>2, <2>3 DEF Program
  <2> HIDE DEF m
  <2>5. Shape(m, excused)
    BY <2>3, <2>4
  <2> QED BY <1>1, <2>4, <2>5, ShapeGrows DEF m
<1> HIDE DEF i
<1>6. JobInv'
  <2>1. i.todo # <<>> => /\ [i EXCEPT !.since = now] \in Program
                         /\ Shape([i EXCEPT !.since = now], excused')
                         /\ i.hold /\ (i.logged \/ First(i) = "logfield") => lock = c
    BY <1>5
  <2> QED BY <1>1, <1>3, <1>4, <2>1, AdvanceOK
<1>7. wal' \in Seq(LogLine) \ {<<>>}
  <2>1. wal' = wal \/ \E cut \in Cuts : wal' = write_text(wal, cut)
    BY DEF AppendFails
  <2> QED BY <2>1, LogTyped DEF ServerInv
<1>8. excused' \in SUBSET (Keys \cup {InvalidKey})
  BY <1>2 DEF ServerInv, AppendFails, Program
<1>9. errors' \in 0..MaxErrors
  BY ServerAssumption DEF ServerInv, AppendFails
<1>10. mode # "down"
  BY <1>1, Busy
<1> QED BY <1>6, <1>7, <1>8, <1>9, <1>10 DEF ServerInv, AppendFails

LEMMA RunInv ==
    ASSUME ServerInv, NEW c \in Clients, Run(c)
    PROVE  ServerInv'
<1> DEFINE cmds == job[c].todo[1].cmds
           go == [job[c] EXCEPT !.todo = Tail(@)]
           i == IF job[c].hold /\ Refused(mem, cmds[1]) THEN Stop(job[c]) ELSE go
<1>1. /\ JobInv /\ job[c] # None /\ First(job[c]) = "apply" /\ excused \subseteq excused'
      /\ (job[c].hold => lock = c) /\ now \in 0..MaxNow
  BY DEF ServerInv, Run, HasLock, Ready, First
<1>2. job[c] \in Program /\ Shape(job[c], excused)
  BY <1>1 DEF JobInv
<1>3. Advance(c, i)
  BY DEF Run
<1>4. DOMAIN i = DOMAIN job[c] /\ i.keys = job[c].keys /\ i.hold = job[c].hold
  BY <1>2 DEF Program, Stop
<1>5. ASSUME i.todo # <<>>
      PROVE  [i EXCEPT !.since = now] \in Program /\ Shape([i EXCEPT !.since = now], excused')
  <2>1. i = go
    BY <1>2, <1>5 DEF Stop, Program
  <2>2. ~job[c].half
    <3>1. Float(job[c]) /\ First(job[c]) = "apply" => ~job[c].half
      BY DEF Float, First, LogField
    <3> QED BY <1>1, <1>2, <3>1 DEF Shape, Plain, Free, Open, First
  <2> DEFINE m == [i EXCEPT !.since = now]
  <2>2a. Tail(job[c].todo) \in Seq(Instruction) /\ i.todo = Tail(job[c].todo)
    <3>1. job[c].todo \in Seq(Instruction) /\ job[c].todo # <<>>
      BY <1>2 DEF Program
    <3>2. i.todo = Tail(job[c].todo)
      BY <1>2, <2>1 DEF Program
    <3> QED BY <3>1, <3>2
  <2>3. /\ m \in Program /\ m.keys = job[c].keys /\ m.hold = job[c].hold /\ m.kind = job[c].kind
        /\ m.logged = job[c].logged /\ ~m.half /\ m.todo = Tail(job[c].todo)
    BY <1>1, <1>2, <1>5, <2>1, <2>2, <2>2a DEF Program
  <2> HIDE DEF m, i
  <2>4. Shape(m, excused)
    BY <1>1, <1>2, <2>3, TailShape
  <2> QED BY <1>1, <2>3, <2>4, ShapeGrows DEF m
<1> HIDE DEF i
<1>6. JobInv'
  <2>1. i.todo # <<>> => /\ [i EXCEPT !.since = now] \in Program
                         /\ Shape([i EXCEPT !.since = now], excused')
                         /\ i.hold /\ (i.logged \/ First(i) = "logfield") => lock = c
    BY <1>1, <1>4, <1>5
  <2> QED BY <1>1, <1>3, <1>4, <2>1, AdvanceOK
<1>7. StateOK(mem')
  <2> DEFINE X == Keys \cup {InvalidKey}
  <2>1. cmds \in Seq(Command) /\ now \in Nat /\ StateOK(mem)
    BY <1>1, <1>2, TodoParts, ServerAssumption DEF First, ServerInv
  <2> HIDE DEF cmds
  <2>2. PICK s, a, t : s = mem /\ a = cmds /\ t = now
    OBVIOUS
  <2>2a. StateOK(s) /\ a \in Seq(Command) /\ t \in Nat
    BY <2>1, <2>2
  <2>3. QueueIn(s, X)
    <3>1. ASSUME in_transaction(s)
          PROVE  \A p \in 1..Len(s.transaction_queue) : s.transaction_queue[p].key \in X
      <4>1. s.transaction_queue \in Seq(TransactionOp)
        BY <2>2a, <3>1 DEF StateOK, in_transaction
      <4>2. \A x \in TransactionOp : x.key \in Keys
        BY DEF TransactionOp
      <4>3. PICK q : q = s.transaction_queue
        OBVIOUS
      <4>4. \A p \in 1..Len(q) : q[p] \in TransactionOp
        BY <4>1, <4>3
      <4> QED BY <4>2, <4>3, <4>4
    <3> QED BY <3>1 DEF QueueIn
  <2>4. \A p \in 1..Len(a) : KeysIn(a[p], X)
    <3> TAKE p \in 1..Len(a)
    <3>1. a[p] \in Command
      BY <2>2a
    <3>2. OwnKeys(a[p]) \in SUBSET X /\ KeysIn(a[p], OwnKeys(a[p]))
      BY <3>1, OwnKeysOK
    <3> QED BY <3>2 DEF KeysIn
  <2>5. Within(s, Applied(s, a, t)[Len(a)], X)
    BY <2>2a, <2>3, <2>4, AppliedWithin
  <2>6. mem' = Applied(s, a, t)[Len(a)]
    BY <2>2 DEF Run, cmds
  <2> QED BY <2>5, <2>6 DEF Within
<1>8. excused' \in SUBSET (Keys \cup {InvalidKey})
  BY <1>2 DEF ServerInv, Run, Program
<1>9. mode # "down"
  BY <1>1, Busy
<1>10. UNCHANGED <<mode, disk, now, requests, starts, errors>>
  BY DEF Run
<1> QED BY <1>6, <1>7, <1>8, <1>9, <1>10 DEF ServerInv, disk

LEMMA ShutdownInv ==
    ASSUME ServerInv, Shutdown
    PROVE  ServerInv'
<1>1. JobInv'
  BY JobsStay DEF ServerInv, Shutdown
<1>2. saved' \in SavedStore \cup {None} /\ Finite(saved')
  <2>1. Serialized \in SavedStore
    BY DEF ServerInv, Serialized, SavedStore, StateOK
  <2>2. Finite(Serialized)
    BY StateTyped DEF ServerInv, Finite, Serialized
  <2> QED BY <2>1, <2>2 DEF Shutdown, ServerInv
<1> QED BY <1>1, <1>2 DEF ServerInv, Shutdown

LEMMA ExitInv ==
    ASSUME ServerInv, Exit
    PROVE  ServerInv'
<1>1. JobInv'
  BY JobsStay DEF ServerInv, Exit
<1>2. StateOK(mem')
  BY NewStoreOK DEF Exit
<1>3. lock = None
  <2>1. \A c \in Clients : job[c] = None
    BY DEF Exit, Idle
  <2> QED BY <2>1 DEF ServerInv, JobInv, LockHasOwner
<1> QED BY <1>1, <1>2, <1>3 DEF ServerInv, Exit, disk

LEMMA CrashInv ==
    ASSUME ServerInv, Crash
    PROVE  ServerInv'
<1>1. JobInv'
  <2>1. job' = Idle /\ lock' = None
    BY DEF Crash
  <2>2. job' \in [Clients -> Program \cup {None}] /\ \A c \in Clients : job'[c] = None
    BY <2>1 DEF Idle
  <2> QED BY <2>1, <2>2 DEF JobInv, Apart, LockOK, LockHasOwner
<1>2. StateOK(mem')
  BY NewStoreOK DEF Crash
<1>3. wal' \in Seq(LogLine) \ {<<>>}
  <2>1. wal' = wal \/ \E cut \in Cuts : wal' = write_text(wal, cut)
    BY DEF Crash
  <2> QED BY <2>1, LogTyped DEF ServerInv
<1> QED BY <1>1, <1>2, <1>3 DEF ServerInv, Crash

\* Replay keeps a store in order.
LEMMA ReplayOK ==
    ASSUME NEW s, StateOK(s), ~in_transaction(s), NEW cmds \in Seq(KeyCommand), NEW t \in Nat
    PROVE  StateOK(Applied(s, cmds, t)[Len(cmds)])
<1> DEFINE X == Keys \cup {InvalidKey}
<1>1. cmds \in Seq(Command)
  <2>1. KeyCommand \subseteq Command
    BY DEF Command
  <2>2. Len(cmds) \in Nat /\ cmds \in [1..Len(cmds) -> Command]
    BY <2>1
  <2> QED BY <2>2, FunctionIsSeq
<1>2. \A p \in 1..Len(cmds) : KeysIn(cmds[p], X)
  <2> TAKE p \in 1..Len(cmds)
  <2>1. cmds[p] \in Command
    BY <1>1
  <2>2. OwnKeys(cmds[p]) \in SUBSET X /\ KeysIn(cmds[p], OwnKeys(cmds[p]))
    BY <2>1, OwnKeysOK
  <2> QED BY <2>2 DEF KeysIn
<1>3. QueueIn(s, X)
  BY DEF QueueIn
<1>4. Within(s, Applied(s, cmds, t)[Len(cmds)], X)
  BY <1>1, <1>2, <1>3, AppliedWithin
<1> QED BY <1>4 DEF Within

LEMMA StartInv ==
    ASSUME ServerInv, Start
    PROVE  ServerInv'
<1>1. JobInv'
  <2>1. job' = Idle /\ lock' = None
    BY DEF ServerInv, Start
  <2>2. job' \in [Clients -> Program \cup {None}] /\ \A c \in Clients : job'[c] = None
    BY <2>1 DEF Idle
  <2> QED BY <2>1, <2>2 DEF JobInv, Apart, LockOK, LockHasOwner
<1>2. StateOK(mem')
  <2>1. PICK s \in Loaded : mem' = replay_wal(s, read_all(wal))
    BY DEF Start
  <2>2. StateOK(s) /\ ~in_transaction(s)
    BY LoadedOK DEF ServerInv
  <2>3. PICK cmds, t : cmds = Replayed(read_all(wal)) /\ t = now
    OBVIOUS
  <2>4. cmds \in Seq(KeyCommand) /\ t \in Nat
    BY <2>3, LoggedOK, ServerAssumption DEF ServerInv
  <2>5. mem' = Applied(s, cmds, t)[Len(cmds)]
    BY <2>1, <2>3 DEF replay_wal
  <2> QED BY <2>2, <2>4, <2>5, ReplayOK
<1>3. excused' \in SUBSET (Keys \cup {InvalidKey})
  BY DEF Start, FileOnly
<1> QED BY <1>1, <1>2, <1>3 DEF ServerInv, Start, disk

LEMMA SweepInv ==
    ASSUME ServerInv, Sweep
    PROVE  ServerInv'
<1>1. JobInv'
  BY JobsStay DEF ServerInv, Sweep
<1>2. StateOK(mem')
  <2>1. PICK order \in SetToSeqs(Due(mem, now)) : mem' = cleanup_expired(mem, now, order)
    BY DEF Sweep
  <2>2. now \in Nat /\ StateOK(mem)
    BY ServerAssumption DEF ServerInv
  <2>3. order \in DueOrders(mem, now)
    BY <2>1 DEF SetToSeqs, DueOrders
  <2>4. order \in Seq(Keys)
    BY <2>2, <2>3, DueListed
  <2> QED BY <2>1, <2>2, <2>4, CleanupOK
<1>3. excused' \in SUBSET (Keys \cup {InvalidKey})
  BY DEF ServerInv, Sweep, Due
<1> QED BY <1>1, <1>2, <1>3 DEF ServerInv, Sweep, disk

LEMMA ServerNext ==
    ASSUME ServerInv, Next
    PROVE  ServerInv'
<1>1. ASSUME NEW c \in Clients, Handle(c)
      PROVE  ServerInv'
  <2>1. now \in 0..MaxNow
    BY DEF ServerInv
  <2>2. Started(c)
    BY <1>1, <2>1, HandleStarted
  <2> QED BY <2>2, BeginInv DEF Started
<1>2. ASSUME NEW c \in Clients, Step(c)
      PROVE  ServerInv'
  BY <1>2, AcquireInv, WriteTextInv, WriteNewlineInv, RunInv DEF Step
<1>3. ASSUME NEW c \in Clients, AppendFails(c)
      PROVE  ServerInv'
  BY <1>3, AppendFailsInv
<1>4. CASE Shutdown \/ Exit \/ Crash
  BY <1>4, ShutdownInv, ExitInv, CrashInv
<1>5. CASE Start
  BY <1>5, StartInv
<1>6. CASE Sweep
  BY <1>6, SweepInv
<1>7. CASE Tick
  <2>1. JobInv'
    BY <1>7, JobsStay DEF ServerInv, Tick
  <2>2. now' \in 0..MaxNow
    BY <1>7, ServerAssumption DEF ServerInv, Tick
  <2> QED BY <1>7, <2>1, <2>2 DEF ServerInv, Tick, disk
<1> QED BY <1>1, <1>2, <1>3, <1>4, <1>5, <1>6, <1>7 DEF Next, Session

LEMMA ServerStutter ==
    ASSUME ServerInv, UNCHANGED vars
    PROVE  ServerInv'
<1>1. JobInv'
  BY JobsStay DEF ServerInv, vars
<1> QED BY <1>1 DEF ServerInv, vars, disk

LEMMA InvHolds == Spec => []ServerInv
<1>1. Init => ServerInv
  BY InitInv
<1>2. ServerInv /\ [Next]_vars => ServerInv'
  BY ServerNext, ServerStutter
<1> QED BY <1>1, <1>2, PTL DEF Spec

\* Whatever clients send and whatever fails, the server works on a store, a log file,
\* a saved file and programs it can handle: api.rs never logs as JSON what replay_wal
\* could not carry out, and no handler outlives its last step.
THEOREM ServerTyped == Spec => []TypeOK
<1>1. ServerInv => TypeOK
  BY InvTyped
<1> QED BY <1>1, InvHolds, PTL

\* The write lock that lua.rs and hash_hincrbyfloat keep from step to step is always
\* kept by a request that is under way and has steps left, whatever fails or crashes.
THEOREM LockSound == Spec => []LockHasOwner
<1>1. ServerInv => LockHasOwner
  BY InvTyped
<1> QED BY <1>1, InvHolds, PTL
=============================================================================
