----------------------------- MODULE PitrProofs -----------------------------
(***************************************************************************)
(* No snapshot overwrites one of an earlier store: for any readings of the *)
(* clock, however many fall together, any number of calls at one time and  *)
(* any mix of snapshots, clean-ups, recoveries, writes, crashes and        *)
(* restarts.                                                               *)
(***************************************************************************)
EXTENDS Pitr, ServerProofs

\* The directory is finite, nothing is under way when the process is down, and
\* a name that has been chosen is free, or its file holds what the call, which
\* has the store locked, is about to write, or a part of it.
SnapInv ==
    /\ IsFiniteSet(DOMAIN snapshots)
    /\ taking = [taker \in Takers |-> taking[taker]]
    /\ mode = "down" => taking = Resting
    /\ \A taker \in Takers :
         taking[taker] # None /\ taking[taker] \in DOMAIN snapshots => snapshots[taking[taker]] \in {Torn, Serialized}

\* What one step may do to the files.
Kept ==
    \A name \in DOMAIN snapshots \cap DOMAIN snapshots' :
        snapshots'[name] = snapshots[name]
            \/ /\ name \in Chosen
               /\ {snapshots[name], snapshots'[name]} \subseteq {Torn, Serialized}
               /\ Serialized' = Serialized

\* The loop over suffixes finds a name that is not taken: there are more
\* suffixes than files.
LEMMA FreeNameOK ==
    ASSUME IsFiniteSet(DOMAIN snapshots), NEW ts
    PROVE  free_name(ts) \notin DOMAIN snapshots
<1> DEFINE D == DOMAIN snapshots
           size == Cardinality(D)
           taken(n) == <<ts, n>> \in D
           free == {n \in 0..size : ~taken(n)}
<1>1. size \in Nat /\ IsFiniteSet(D)
  BY FS_CardinalityType
<1>2. free # {}
  <2>1. SUFFICES ASSUME free = {} PROVE FALSE
    OBVIOUS
  <2> DEFINE f == [n \in 0..size |-> <<ts, n>>]
  <2>2. f \in [0..size -> D] /\ \A x, y \in 0..size : f[x] = f[y] => x = y
    <3> HIDE DEF size
    <3> QED BY <2>1
  <2>3. PICK m \in Nat : m = size
    BY <1>1
  <2>4. IsFiniteSet(0..m) /\ Cardinality(0..m) = m + 1
    <3>1. 0 \in Int /\ m \in Int
      OBVIOUS
    <3>2. IsFiniteSet(0..m) /\ Cardinality(0..m) = IF 0 > m THEN 0 ELSE m - 0 + 1
      BY <3>1, FS_Interval
    <3> QED BY <3>2
  <2>5. f \in [0..m -> D] /\ \A x, y \in 0..m : f[x] = f[y] => x = y
    BY <2>2, <2>3
  <2>6. Cardinality(D) < Cardinality(0..m)
    BY <2>3, <2>4
  <2> HIDE DEF f, D, size
  <2> QED BY <1>1, <2>4, <2>5, <2>6, FS_PigeonHole
<1>3. PICK n \in free : \A m \in free : n <= m
  <2>1. free \in SUBSET Nat
    BY <1>1
  <2> HIDE DEF free
  <2> QED BY <1>2, <2>1, LeastNatural
<1>4. n \in 0..size /\ ~taken(n) /\ \A m \in 0..(n - 1) : taken(m)
  <2> HIDE DEF size, D
  <2> QED BY <1>1, <1>3
<1>5. PICK k \in 0..size :
        /\ ~taken(k)
        /\ free_name(ts) = <<ts, k>>
  BY <1>4 DEF free_name
<1> QED BY <1>5

\* A call that gets a name gets one without a file.
LEMMA ChooseOK ==
    ASSUME SnapInv, NEW taker \in Takers, ChooseName(taker)
    PROVE  SnapInv' /\ Kept
<1>1. PICK ts : taking' = [taking EXCEPT ![taker] = free_name(ts)]
  BY DEF ChooseName
<1>2. free_name(ts) \notin DOMAIN snapshots
  BY FreeNameOK DEF SnapInv
<1>3. PICK name : name = free_name(ts)
  OBVIOUS
<1>4. \A t \in Takers : taking'[t] = IF t = taker THEN name ELSE taking[t]
  BY <1>1, <1>3 DEF SnapInv
<1>5. taking' = [t \in Takers |-> taking'[t]]
  BY <1>1 DEF SnapInv
<1>6. snapshots' = snapshots /\ mode' = mode /\ mem' = mem /\ mode # "down"
  BY DEF ChooseName, Request, live
<1>7. Serialized' = Serialized
  BY <1>6 DEF Serialized
<1>8. \A t \in Takers :
         taking'[t] # None /\ taking'[t] \in DOMAIN snapshots' => snapshots'[taking'[t]] \in {Torn, Serialized}
  BY <1>2, <1>3, <1>4, <1>6, <1>7 DEF SnapInv, Torn
<1>9. Kept
  BY <1>6 DEF Kept
<1> QED BY <1>5, <1>6, <1>7, <1>8, <1>9 DEF SnapInv, Torn

\* A call that writes what it has locked, whole or in part.
LEMMA WriteSnapshotOK ==
    ASSUME SnapInv, NEW taker \in Takers, WriteSnapshot(taker)
    PROVE  SnapInv' /\ Kept
<1> DEFINE name == taking[taker]
<1>1. /\ name # None
      /\ taking' = [taking EXCEPT ![taker] = None]
      /\ mode' = mode /\ mem' = mem
  BY DEF WriteSnapshot, vars
<1>2. Serialized' = Serialized
  BY <1>1 DEF Serialized
<1>3. \A t \in Takers : taking'[t] = IF t = taker THEN None ELSE taking[t]
  BY <1>1 DEF SnapInv
<1>4. taking' = [t \in Takers |-> taking'[t]] /\ (mode' = "down" => taking' = Resting')
  <2>1. taking' = [t \in Takers |-> taking'[t]]
    BY <1>1 DEF SnapInv
  <2>2. mode # "down"
    <3>1. Resting[taker] = None
      BY DEF Resting
    <3> QED BY <1>1, <3>1 DEF SnapInv
  <2> QED BY <1>1, <2>1, <2>2
<1>5. CASE snapshots' = snapshots
  <2>1. Kept
    BY <1>5 DEF Kept
  <2>2. \A t \in Takers :
          taking'[t] # None /\ taking'[t] \in DOMAIN snapshots' => snapshots'[taking'[t]] \in {Torn, Serialized}
    BY <1>2, <1>3, <1>5 DEF SnapInv, Torn
  <2> QED BY <1>2, <1>4, <1>5, <2>1, <2>2 DEF SnapInv, Torn
<1>6. ASSUME NEW content \in {Serialized, Torn}, snapshots' = [other \in DOMAIN snapshots \cup {name} |->
                            IF other = name THEN content ELSE snapshots[other]]
      PROVE  SnapInv' /\ Kept
  <2>1. /\ DOMAIN snapshots' = DOMAIN snapshots \cup {name}
        /\ snapshots'[name] = content
        /\ \A other \in DOMAIN snapshots : other # name => snapshots'[other] = snapshots[other]
    BY <1>6
  <2>2. IsFiniteSet(DOMAIN snapshots')
    BY <2>1, FS_AddElement DEF SnapInv
  <2>3. name \in Chosen
    BY <1>1 DEF Chosen
  <2>4. name \in DOMAIN snapshots => snapshots[name] \in {Torn, Serialized}
    BY <1>1 DEF SnapInv, Torn
  <2>5. content \in {Torn, Serialized}
    BY <1>6
  <2>6. Kept
    BY <1>2, <2>1, <2>3, <2>4, <2>5 DEF Kept
  <2>7. Torn' = Torn
    BY DEF Torn
  <2>8. \A t \in Takers :
          taking'[t] # None /\ taking'[t] \in DOMAIN snapshots' =>
            snapshots'[taking'[t]] \in {Torn, Serialized}
    <3> TAKE t \in Takers
    <3> HAVE taking'[t] # None /\ taking'[t] \in DOMAIN snapshots'
    <3>1. taking'[t] = taking[t]
      BY <1>3
    <3>2. CASE taking[t] = name
      BY <2>1, <2>5, <3>1, <3>2
    <3>3. CASE taking[t] # name
      <4>1. taking[t] \in DOMAIN snapshots /\ taking[t] # None
        BY <2>1, <3>1, <3>3
      <4>2. snapshots[taking[t]] \in {Torn, Serialized}
        BY <4>1 DEF SnapInv, Torn
      <4> QED BY <2>1, <3>1, <3>3, <4>1, <4>2
    <3> QED BY <3>2, <3>3
  <2> QED BY <1>2, <1>4, <2>2, <2>6, <2>7, <2>8 DEF SnapInv, Torn
<1> QED BY <1>5, <1>6 DEF WriteSnapshot

LEMMA RemovalOK ==
    ASSUME SnapInv, cleanup_old_snapshots
    PROVE  SnapInv' /\ Kept
<1>1. PICK kept : kept \in SUBSET DOMAIN snapshots /\ snapshots' = Restrict(snapshots, kept)
  BY DEF cleanup_old_snapshots
<1>2. DOMAIN snapshots' = kept /\ \A name \in kept : snapshots'[name] = snapshots[name]
  BY <1>1 DEF Restrict
<1>3. IsFiniteSet(kept)
  BY <1>1, FS_Subset DEF SnapInv
<1>4. taking' = taking /\ mode' = mode /\ mem' = mem
  BY DEF cleanup_old_snapshots, vars
<1>5. Serialized' = Serialized
  BY <1>4 DEF Serialized
<1>6. Kept
  BY <1>2 DEF Kept
<1>7. \A t \in Takers :
        taking'[t] # None /\ taking'[t] \in DOMAIN snapshots' => snapshots'[taking'[t]] \in {Torn, Serialized}
  BY <1>1, <1>2, <1>4, <1>5 DEF SnapInv, Torn
<1> QED BY <1>2, <1>3, <1>4, <1>5, <1>6, <1>7 DEF SnapInv, Torn, Resting

\* Steps that leave the directory and the calls alone, or end all calls.
LEMMA OthersOK ==
    ASSUME SnapInv, snapshots' = snapshots,
           \/ taking' = Resting
           \/ taking' = taking /\ mem' = mem /\ mode' # "down"
    PROVE  SnapInv' /\ Kept
<1>1. Kept
  BY DEF Kept
<1>2. CASE taking' = Resting
  <2>1. \A t \in Takers : taking'[t] = None
    BY <1>2 DEF Resting
  <2>2. taking' = [t \in Takers |-> taking'[t]]
    BY <1>2 DEF Resting
  <2>3. Resting' = Resting
    BY DEF Resting
  <2> QED BY <1>1, <1>2, <2>1, <2>2, <2>3 DEF SnapInv
<1>3. CASE taking' = taking /\ mem' = mem /\ mode' # "down"
  <2>1. Serialized' = Serialized
    BY <1>3 DEF Serialized
  <2> QED BY <1>1, <1>3, <2>1 DEF SnapInv, Torn
<1> QED BY <1>2, <1>3

\* While a snapshot is under way the server changes the store only by ending.
LEMMA LockedOK ==
    ASSUME Next, ~Writes, mode # "down"
    PROVE  mem' = mem \/ mode' = "down"
<1>1. ASSUME NEW c \in Clients, Handle(c)
      PROVE  mem' = mem
  BY <1>1, HandleBegins DEF Begin
<1>2. ASSUME NEW c \in Clients, WriteText(c) \/ WriteNewline(c) \/ AppendFails(c)
      PROVE  mem' = mem
  BY <1>2 DEF WriteText, WriteNewline, AppendFails
<1>3. CASE Shutdown \/ Exit \/ Crash
  BY <1>3 DEF Shutdown, Exit, Crash
<1>4. CASE Tick
  BY <1>4 DEF Tick
<1>5. ~Start
  BY DEF Start
<1> QED BY <1>1, <1>2, <1>3, <1>4, <1>5 DEF Next, Session, Step, Writes

LEMMA ServerStepOK ==
    ASSUME SnapInv, ServerStep
    PROVE  SnapInv' /\ Kept
<1>1. /\ Next /\ snapshots' = snapshots /\ (taking = Resting \/ ~Writes)
      /\ taking' = IF mode' = "down" THEN Resting ELSE taking
  BY DEF ServerStep
<1>2. CASE mode' = "down" \/ taking = Resting
  <2>1. taking' = Resting
    BY <1>1, <1>2
  <2> QED BY <1>1, <2>1, OthersOK
<1>3. CASE mode' # "down" /\ taking # Resting
  <2>1. mode # "down" /\ ~Writes
    BY <1>1, <1>3 DEF SnapInv
  <2>2. mem' = mem
    BY <1>1, <1>3, <2>1, LockedOK
  <2> QED BY <1>1, <1>3, <2>2, OthersOK
<1> QED BY <1>2, <1>3

LEMMA PitrStepOK ==
    ASSUME SnapInv, PitrNext
    PROVE  SnapInv' /\ Kept
<1>1. CASE ServerStep
  BY <1>1, ServerStepOK
<1>2. ASSUME NEW taker \in Takers, ChooseName(taker) \/ WriteSnapshot(taker)
      PROVE  SnapInv' /\ Kept
  <2>1. CASE ChooseName(taker)
    BY <2>1, ChooseOK
  <2>2. CASE WriteSnapshot(taker)
    BY <2>2, WriteSnapshotOK
  <2> QED BY <1>2, <2>1, <2>2
<1>3. CASE cleanup_old_snapshots
  BY <1>3, RemovalOK
<1>4. ASSUME NEW target, RecoverTo(target)
      PROVE  SnapInv' /\ Kept
  <2>1. snapshots' = snapshots /\ taking' = taking /\ mem' = mem /\ mode' # "down"
    BY <1>4, Zenon DEF RecoverTo, Request, live
  <2> QED BY <2>1, OthersOK
<1>5. CASE recover_to_timestamp \/ recover_to_latest_snapshot
  BY <1>4, <1>5 DEF recover_to_timestamp, recover_to_latest_snapshot
<1>6. CASE pitr_recover
  <2>1. snapshots' = snapshots /\ taking' = Resting
    BY <1>6 DEF pitr_recover
  <2> QED BY <2>1, OthersOK
<1> QED BY <1>1, <1>2, <1>3, <1>5, <1>6 DEF PitrNext

\* The suffix loop of create_snapshot in pitr.rs never picks the name of a file
\* that exists, and the read lock its callers hold keeps the store as it is until
\* the file is written: a snapshot on disk keeps its content until it is removed,
\* or is written over by a call that chose the same name under the same lock, with
\* the same store.
THEOREM SnapshotsSound == PitrSpec => SnapshotsKept
<1>1. PitrInit => SnapInv
  <2> HAVE PitrInit
  <2>1. DOMAIN snapshots = {} /\ IsFiniteSet({})
    BY FS_EmptySet DEF PitrInit
  <2>2. taking = Resting /\ \A taker \in Takers : taking[taker] = None
    BY DEF PitrInit, Resting
  <2> QED BY <2>1, <2>2 DEF SnapInv, Resting
<1>2. SnapInv /\ [PitrNext]_allVars => SnapInv'
  <2>1. ASSUME SnapInv, UNCHANGED allVars PROVE SnapInv'
    BY <2>1 DEF allVars, vars, SnapInv, Serialized, Resting
  <2> QED BY <2>1, PitrStepOK
<1>3. SnapInv /\ [PitrNext]_allVars => [Kept]_snapshots
  BY PitrStepOK DEF allVars
<1> QED BY <1>1, <1>2, <1>3, PTL DEF PitrSpec, SnapshotsKept, Kept
=============================================================================
