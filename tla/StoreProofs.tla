---------------------------- MODULE StoreProofs -----------------------------
(***************************************************************************)
(* Lemmas about the operators of StoreOps, for the proofs about every      *)
(* module that keeps a store.                                              *)
(*                                                                         *)
(* Nth lists a finite set of positions in ascending order: every position  *)
(* once, the greatest last, and dropping the greatest leaves the rest of   *)
(* the listing as it is.  The loops over lru_order and over the lines of   *)
(* the log are written with it.                                            *)
(*                                                                         *)
(* Each method of the store leads from an OK value of the struct to an OK  *)
(* one: well typed, and lru_order covers the map and lists no key twice.   *)
(***************************************************************************)
EXTENDS StoreOps, FiniteSetTheorems, WellFoundedInduction, TLAPS

Upto(S, p) == {q \in S : q <= p}

\* A function on 1..n is a sequence.
LEMMA FunctionIsSeq ==
    ASSUME NEW T, NEW n \in Nat, NEW f \in [1..n -> T]
    PROVE  f \in Seq(T) /\ Len(f) = n
  OBVIOUS

\* A set of positions is finite.
LEMMA PositionsFinite ==
    ASSUME NEW n \in Nat, NEW S \in SUBSET (1..n)
    PROVE  IsFiniteSet(S) /\ Cardinality(S) \in Nat
<1>1. 1 \in Int /\ n \in Int
  OBVIOUS
<1>2. IsFiniteSet(1..n)
  BY <1>1, FS_Interval
<1>3. IsFiniteSet(S)
  BY <1>2, FS_Subset
<1> QED BY <1>3, FS_CardinalityType

\* The ranks of the positions of S are 1..Cardinality(S), each taken once.
LEMMA RankOK ==
    ASSUME NEW n \in Nat, NEW S \in SUBSET (1..n)
    PROVE  /\ IsFiniteSet(S) /\ Cardinality(S) \in Nat
           /\ \A p \in S : Cardinality(Upto(S, p)) \in 1..Cardinality(S)
           /\ \A p, q \in S : Cardinality(Upto(S, p)) = Cardinality(Upto(S, q)) => p = q
<1>1. IsFiniteSet(S) /\ Cardinality(S) \in Nat
  BY PositionsFinite
<1>2. ASSUME NEW p \in S
      PROVE  Cardinality(Upto(S, p)) \in 1..Cardinality(S)
  <2>1. p \in Upto(S, p) /\ Upto(S, p) \in SUBSET S
    BY DEF Upto
  <2>2. IsFiniteSet(Upto(S, p)) /\ Cardinality(Upto(S, p)) <= Cardinality(S)
    BY <1>1, <2>1, FS_Subset
  <2>3. Cardinality(Upto(S, p)) \in Nat /\ Cardinality(Upto(S, p)) # 0
    BY <2>1, <2>2, FS_CardinalityType, FS_EmptySet
  <2> QED BY <1>1, <2>2, <2>3
<1>3. ASSUME NEW a \in S, NEW b \in S, a < b, Cardinality(Upto(S, a)) = Cardinality(Upto(S, b))
      PROVE  FALSE
  <2>1. a \in Nat /\ b \in Nat /\ \A q \in S : q \in Nat
    OBVIOUS
  <2>2. Upto(S, a) \in SUBSET Upto(S, b) /\ b \notin Upto(S, a) /\ b \in Upto(S, b)
    <3>1. a < b
      BY <1>3
    <3>2. \A q \in S : q <= a => q <= b
      BY <2>1, <3>1
    <3>3. ~(b <= a) /\ b <= b
      BY <2>1, <3>1
    <3> QED BY <3>2, <3>3 DEF Upto
  <2>3. IsFiniteSet(Upto(S, b))
    BY <1>1, FS_Subset DEF Upto
  <2>4. Upto(S, a) = Upto(S, b)
    BY <1>3, <2>2, <2>3, FS_Subset
  <2> QED BY <2>2, <2>4
<1>4. \A p, q \in S : Cardinality(Upto(S, p)) = Cardinality(Upto(S, q)) => p = q
  <2>1. \A p \in S : p \in Nat
    OBVIOUS
  <2> QED BY <1>3, <2>1
<1> QED BY <1>1, <1>2, <1>4

\* Every i up to the size of S has its Nth, every position is the Nth of one i,
\* and the Nth of i is the only position of rank i.
LEMMA NthOK ==
    ASSUME NEW n \in Nat, NEW S \in SUBSET (1..n)
    PROVE  /\ \A i \in 1..Cardinality(S) : Nth(S, i) \in S /\ Cardinality(Upto(S, Nth(S, i))) = i
           /\ \A p \in S : \E i \in 1..Cardinality(S) : Nth(S, i) = p
           /\ \A p \in S, i \in 1..Cardinality(S) : Cardinality(Upto(S, p)) = i => Nth(S, i) = p
<1> DEFINE c == Cardinality(S)
           rank == [p \in S |-> Cardinality(Upto(S, p))]
<1>1. IsFiniteSet(S) /\ c \in Nat
  BY RankOK
<1>2. \A p \in S : Cardinality(Upto(S, p)) \in 1..c
  BY RankOK
<1>3. \A p, q \in S : Cardinality(Upto(S, p)) = Cardinality(Upto(S, q)) => p = q
  BY RankOK
<1> HIDE DEF c
<1>4. rank \in [S -> 1..c] /\ \A p, q \in S : rank[p] = rank[q] => p = q
  BY <1>2, <1>3
<1>5. \A i \in 1..c : \E p \in S : Cardinality(Upto(S, p)) = i
  <2> HIDE DEF rank
  <2>1. rank \in Injection(S, 1..c)
    BY <1>4 DEF Injection, IsInjective
  <2>2. IsFiniteSet(1..c) /\ Cardinality(1..c) = c
    BY <1>1, FS_Interval
  <2>3. rank \in Surjection(S, 1..c)
    BY <2>1, <2>2, FS_Injection DEF c
  <2>4. \A i \in 1..c : \E p \in S : rank[p] = i
    BY <2>3 DEF Surjection
  <2> QED BY <2>4 DEF rank
<1>6. \A i \in 1..c : Nth(S, i) \in S /\ Cardinality(Upto(S, Nth(S, i))) = i
  BY <1>5 DEF Nth, Upto
<1>7. \A p \in S, i \in 1..c : Cardinality(Upto(S, p)) = i => Nth(S, i) = p
  BY <1>3, <1>6
<1> QED BY <1>2, <1>6, <1>7 DEF c

\* A position above all of S comes last in the listing, and the others keep
\* their places.
TopLast(S, top) ==
    /\ Cardinality(S) \in Nat /\ Cardinality(S \cup {top}) = Cardinality(S) + 1
    /\ Nth(S \cup {top}, Cardinality(S) + 1) = top
    /\ \A i \in 1..Cardinality(S) : Nth(S \cup {top}, i) = Nth(S, i)

LEMMA NthGrows ==
    ASSUME NEW n \in Nat, NEW S \in SUBSET (1..n), NEW top \in Nat, top > n
    PROVE  TopLast(S, top)
<1> DEFINE T == S \cup {top}
           c == Cardinality(S)
<1>1. T \in SUBSET (1..top) /\ top \notin S
  OBVIOUS
<1>2. IsFiniteSet(S) /\ c \in Nat
  BY RankOK
<1>3. Cardinality(T) = c + 1
  BY <1>1, <1>2, FS_AddElement
<1>4. Upto(T, top) = T /\ top \in T
  <2>1. top <= top /\ \A q \in S : q <= top
    OBVIOUS
  <2> QED BY <2>1 DEF Upto
<1>5. \A p \in S : Upto(T, p) = Upto(S, p) /\ p \in T
  BY DEF Upto
<1>6. \A p \in T, i \in 1..Cardinality(T) : Cardinality(Upto(T, p)) = i => Nth(T, i) = p
  BY <1>1, NthOK
<1>7. \A i \in 1..c : Nth(S, i) \in S /\ Cardinality(Upto(S, Nth(S, i))) = i
  BY NthOK
<1> HIDE DEF T, c
<1>8. Nth(T, c + 1) = top
  BY <1>2, <1>3, <1>4, <1>6
<1>9. \A i \in 1..c : Nth(T, i) = Nth(S, i)
  <2> TAKE i \in 1..c
  <2>1. i \in 1..Cardinality(T) /\ Nth(S, i) \in T
    <3>1. i \in Nat /\ 1 <= i /\ i <= c
      BY <1>2
    <3>2. i \in 1..(c + 1)
      BY <1>2, <3>1
    <3>3. Nth(S, i) \in S
      BY <1>7
    <3> QED BY <1>3, <1>5, <3>2, <3>3
  <2>2. Cardinality(Upto(T, Nth(S, i))) = i
    BY <1>5, <1>7
  <2> QED BY <1>6, <2>1, <2>2
<1> QED BY <1>2, <1>3, <1>8, <1>9 DEF TopLast, T, c
-----------------------------------------------------------------------------
(* Induction over positions, with sets for predicates *)

\* A non-empty set of naturals has a least element.
LEMMA LeastNatural ==
    ASSUME NEW S \in SUBSET Nat, S # {}
    PROVE  \E n \in S : \A m \in S : n <= m
<1>1. PICK n \in S : \A m \in S : ~(<<m, n>> \in OpToRel(<, Nat))
  BY WFMin, NatLessThanWellFounded
<1>2. \A m \in S : ~(m < n)
  BY <1>1 DEF OpToRel
<1> QED BY <1>2

\* A set of positions that has 0, and with each position but the last the next
\* one, has all of them.
LEMMA PositionInduction ==
    ASSUME NEW n \in Nat, NEW S, 0 \in S,
           \A m \in 0..n : m \in S /\ m < n => m + 1 \in S
    PROVE  \A m \in 0..n : m \in S
<1> DEFINE bad == {m \in 0..n : m \notin S}
<1>1. SUFFICES ASSUME bad # {} PROVE FALSE
  OBVIOUS
<1>2. bad \in SUBSET Nat
  OBVIOUS
<1>3. PICK m \in bad : \A i \in bad : m <= i
  <2> HIDE DEF bad
  <2> QED BY <1>1, <1>2, LeastNatural
<1>4. m \in 0..n /\ m \notin S /\ m # 0
  BY <1>3
<1>5. m - 1 \in 0..n /\ m - 1 < n /\ ~(m <= m - 1) /\ (m - 1) + 1 = m
  BY <1>4
<1>6. m - 1 \in S
  BY <1>3, <1>5
<1> QED BY <1>4, <1>5, <1>6

-----------------------------------------------------------------------------
(* A set of positions is listed in ascending order in one way *)

\* g lists S in ascending order.
IsListing(g, c, S) ==
    /\ c \in Nat /\ g \in [1..c -> S]
    /\ \A i, j \in 1..c : i < j => g[i] < g[j]
    /\ \A x \in S : \E i \in 1..c : g[i] = x

\* Whatever lists S in ascending order lists it as Nth does.
LEMMA ListingIsNth ==
    ASSUME NEW n \in Nat, NEW S \in SUBSET (1..n), NEW c, NEW g, IsListing(g, c, S)
    PROVE  c = Cardinality(S) /\ \A i \in 1..c : g[i] = Nth(S, i)
<1>1. /\ c \in Nat /\ g \in [1..c -> S]
      /\ \A i, j \in 1..c : i < j => g[i] < g[j]
      /\ \A x \in S : \E i \in 1..c : g[i] = x
  BY DEF IsListing
<1>2. \A x \in S : x \in Int
  OBVIOUS
<1>3. \A i \in 1..c : g[i] \in S /\ g[i] \in Int
  BY <1>1, <1>2
<1>4. \A i, j \in 1..c : g[i] <= g[j] => i <= j
  BY <1>1, <1>3
<1>5. \A i, j \in 1..c : i <= j => g[i] <= g[j]
  <2> TAKE i, j \in 1..c
  <2>1. i \in Int /\ j \in Int /\ g[i] \in Int /\ g[j] \in Int
    BY <1>1, <1>3
  <2> QED BY <1>1, <2>1
<1>6. \A i, j \in 1..c : g[i] = g[j] => i = j
  <2> TAKE i, j \in 1..c
  <2>1. i \in Int /\ j \in Int /\ g[i] \in Int /\ g[j] \in Int
    BY <1>1, <1>3
  <2> QED BY <1>1, <2>1
<1>7. ASSUME NEW i \in 0..c,
             NEW T, T = {x \in S : \E j \in 1..i : g[j] = x}
      PROVE  Cardinality(T) = i
  <2> DEFINE h == [j \in 1..i |-> g[j]]
  <2>1. i \in Int /\ i \in Nat /\ \A j \in 1..i : j \in 1..c
    BY <1>1
  <2>2. h \in [1..i -> T] /\ \A j \in 1..i : h[j] = g[j]
    BY <1>3, <1>7, <2>1
  <2> HIDE DEF h
  <2>3. h \in Bijection(1..i, T)
    <3>1. \A a, b \in 1..i : h[a] = h[b] => a = b
      BY <1>6, <2>1, <2>2
    <3>2. \A t \in T : \E a \in 1..i : h[a] = t
      BY <1>7, <2>2
    <3> QED BY <2>2, <3>1, <3>2 DEF Bijection, Injection, Surjection, IsInjective
  <2>4. IsFiniteSet(1..i) /\ Cardinality(1..i) = i
    <3>1. 1 \in Int /\ (1 > i => i = 0) /\ i - 1 + 1 = i
      BY <2>1
    <3> QED BY <2>1, <3>1, FS_Interval
  <2> QED BY <2>3, <2>4, FS_Bijection DEF ExistsBijection
<1>8. Cardinality(S) = c
  <2>1. c \in 0..c
    BY <1>1
  <2>2. S = {x \in S : \E j \in 1..c : g[j] = x}
    BY <1>1
  <2> QED BY <1>7, <2>1, <2>2
<1>9. ASSUME NEW i \in 1..c
      PROVE  g[i] = Nth(S, i)
  <2>1. Upto(S, g[i]) = {x \in S : \E j \in 1..i : g[j] = x}
    <3>1. \A j \in 1..i : j \in 1..c /\ j <= i
      BY <1>1
    <3>2. ASSUME NEW x \in S
          PROVE  x <= g[i] <=> \E j \in 1..i : g[j] = x
      <4>1. PICK a \in 1..c : g[a] = x
        BY <1>1
      <4>2. x <= g[i] => a \in 1..i
        BY <1>4, <4>1
      <4> QED BY <1>5, <3>1, <4>1, <4>2
    <3> QED BY <3>2 DEF Upto
  <2>2. i \in 0..c /\ i \in 1..Cardinality(S)
    BY <1>8
  <2>3. Cardinality(Upto(S, g[i])) = i
    BY <1>7, <2>1, <2>2
  <2> QED BY <1>3, <2>2, <2>3, NthOK
<1> QED BY <1>8, <1>9

\* Nth lists S in ascending order.
LEMMA NthIsListing ==
    ASSUME NEW n \in Nat, NEW S \in SUBSET (1..n), NEW c, c = Cardinality(S)
    PROVE  IsListing([i \in 1..c |-> Nth(S, i)], c, S)
<1>1. IsFiniteSet(S) /\ c \in Nat /\ \A p \in S : p \in Int
  BY RankOK
<1>2. /\ \A i \in 1..c : Nth(S, i) \in S /\ Cardinality(Upto(S, Nth(S, i))) = i
      /\ \A p \in S : \E i \in 1..c : Nth(S, i) = p
  <2>1. /\ \A i \in 1..Cardinality(S) : Nth(S, i) \in S /\ Cardinality(Upto(S, Nth(S, i))) = i
        /\ \A p \in S : \E i \in 1..Cardinality(S) : Nth(S, i) = p
    BY NthOK
  <2> QED BY <2>1
<1>3. ASSUME NEW i \in 1..c, NEW j \in 1..c, i < j
      PROVE  Nth(S, i) < Nth(S, j)
  <2>1. PICK p \in S : p = Nth(S, i)
    BY <1>2
  <2>2. PICK q \in S : q = Nth(S, j)
    BY <1>2
  <2>3. SUFFICES ASSUME q <= p PROVE FALSE
    BY <1>1, <2>1, <2>2
  <2>4. Upto(S, q) \in SUBSET Upto(S, p)
    <3>1. \A x \in S : x <= q => x <= p
      BY <1>1, <2>3
    <3> QED BY <3>1 DEF Upto
  <2>5. IsFiniteSet(Upto(S, p))
    BY <1>1, FS_Subset DEF Upto
  <2>6. Cardinality(Upto(S, q)) <= Cardinality(Upto(S, p))
    BY <2>4, <2>5, FS_Subset
  <2>7. Cardinality(Upto(S, p)) = i /\ Cardinality(Upto(S, q)) = j
    BY <1>2, <2>1, <2>2
  <2> QED BY <1>3, <2>6, <2>7
<1> QED BY <1>1, <1>2, <1>3 DEF IsListing

\* Ascending has one element.
LEMMA OneAscending ==
    ASSUME NEW n \in Nat, NEW S \in SUBSET (1..n)
    PROVE  Ascending(S) = {[i \in 1..Cardinality(S) |-> Nth(S, i)]}
<1> DEFINE c == Cardinality(S)
           f == [i \in 1..c |-> Nth(S, i)]
<1>1. c \in Nat
  BY RankOK
<1>2. IsListing(f, c, S)
  BY NthIsListing
<1> HIDE DEF c
<1>3. f \in Ascending(S)
  <2> HIDE DEF f
  <2> QED BY <1>2 DEF IsListing, Ascending, c
<1>4. ASSUME NEW g \in Ascending(S)
      PROVE  g = f
  <2>1. IsListing(g, c, S)
    BY <1>1 DEF Ascending, IsListing, c
  <2>2. \A i \in 1..c : g[i] = Nth(S, i)
    BY <2>1, ListingIsNth
  <2>3. g \in [1..c -> S]
    BY <2>1 DEF IsListing
  <2> QED BY <2>2, <2>3
<1> QED BY <1>3, <1>4 DEF c

-----------------------------------------------------------------------------
(* Values of the struct *)

\* The parts of a value of the struct the invariants speak of.
NoRepeat(lru) == \A i, j \in 1..Len(lru) : lru[i] = lru[j] => i = j

Covers(lru, st) == \A k \in Keys : st[k] # None => \E i \in 1..Len(lru) : lru[i] = k

LruOK(lru, st) == lru \in Seq(Keys) /\ NoRepeat(lru) /\ Covers(lru, st)

IsKv(s) == DOMAIN s = {"store", "memory_bytes", "total_writes", "lru_order",
                       "transaction_queue", "events", "notify"}

StateOK(s) ==
    /\ IsKv(s)
    /\ s.store \in [Keys -> Entry \cup {None}]
    /\ s.memory_bytes \in Nat
    /\ s.total_writes \in Nat
    /\ s.transaction_queue \in Seq(TransactionOp) \cup {None}
    /\ s.events \in Seq(KeyspaceEvent)
    /\ s.notify \in BOOLEAN
    /\ LruOK(s.lru_order, s.store)

\* From s to t no stored key is lost, and none changes its expiry time.
InPlace(s, t) ==
    \A k \in Keys : s.store[k] # None =>
        t.store[k] # None /\ t.store[k].expires_at = s.store[k].expires_at

\* update_lru takes k out of its place p, or finds it nowhere, and puts it last.
LEMMA UpdateLruShape ==
    ASSUME NEW lru \in Seq(Keys), NoRepeat(lru), NEW k \in Keys
    PROVE  LET new == update_lru(lru, k)
               n == Len(lru)
           IN  \E p \in 1..(n + 1) :
                 /\ \A i \in 1..n : lru[i] = k <=> i = p
                 /\ new \in Seq(Keys)
                 /\ Len(new) = IF p <= n THEN n ELSE n + 1
                 /\ \A i \in 1..(Len(new) - 1) : new[i] = IF i < p THEN lru[i] ELSE lru[i + 1]
                 /\ new[Len(new)] = k
<1> DEFINE n == Len(lru)
<1>1. CASE \E i \in 1..Len(lru) : lru[i] = k
  <2>1. PICK p \in 1..n : p = CHOOSE i \in 1..Len(lru) : lru[i] = k
    BY <1>1
  <2>2. lru[p] = k
    BY <1>1, <2>1
  <2> DEFINE rest == RemoveAt(lru, p)
  <2>3. update_lru(lru, k) = Append(rest, k)
    BY <1>1, <2>1 DEF update_lru
  <2>4. /\ rest \in Seq(Keys) /\ Len(rest) = n - 1
        /\ \A i \in 1..(n - 1) : rest[i] = IF i < p THEN lru[i] ELSE lru[i + 1]
    <3> DEFINE l == SubSeq(lru, 1, p - 1)
               r == SubSeq(lru, p + 1, n)
    <3>1. l \in Seq(Keys) /\ Len(l) = p - 1 /\ \A i \in 1..(p - 1) : l[i] = lru[i]
      OBVIOUS
    <3>2. r \in Seq(Keys) /\ Len(r) = n - p /\ \A i \in 1..(n - p) : r[i] = lru[p + i]
      OBVIOUS
    <3>3. rest = l \o r
      BY DEF RemoveAt
    <3> HIDE DEF l, r, rest
    <3>4. rest \in Seq(Keys) /\ Len(rest) = n - 1
      BY <3>1, <3>2, <3>3
    <3>5. ASSUME NEW i \in 1..(n - 1)
          PROVE  rest[i] = IF i < p THEN lru[i] ELSE lru[i + 1]
      <4>1. CASE i < p
        BY <4>1, <3>1, <3>2, <3>3
      <4>2. CASE ~(i < p)
        <5>1. i - (p - 1) \in 1..(n - p) /\ rest[i] = r[i - (p - 1)]
          BY <4>2, <3>1, <3>2, <3>3
        <5>2. p + (i - (p - 1)) = i + 1
          OBVIOUS
        <5> QED BY <4>2, <5>1, <5>2, <3>2
      <4> QED BY <4>1, <4>2
    <3> QED BY <3>4, <3>5
  <2> HIDE DEF rest
  <2>5. /\ Append(rest, k) \in Seq(Keys) /\ Len(Append(rest, k)) = n
        /\ \A i \in 1..(n - 1) : Append(rest, k)[i] = rest[i]
        /\ Append(rest, k)[n] = k
    BY <2>4
  <2>6. \A i \in 1..n : lru[i] = k <=> i = p
    BY <2>2 DEF NoRepeat
  <2>7. p \in 1..(n + 1) /\ p <= n
    OBVIOUS
  <2> QED BY <2>3, <2>4, <2>5, <2>6, <2>7
<1>2. CASE ~ \E i \in 1..Len(lru) : lru[i] = k
  <2>1. update_lru(lru, k) = Append(lru, k)
    BY <1>2 DEF update_lru
  <2>2. /\ Append(lru, k) \in Seq(Keys) /\ Len(Append(lru, k)) = n + 1
        /\ \A i \in 1..n : Append(lru, k)[i] = lru[i]
        /\ Append(lru, k)[n + 1] = k
    OBVIOUS
  <2>3. PICK p \in 1..(n + 1) : p = n + 1
    OBVIOUS
  <2>4. \A i \in 1..n : i < p /\ i # p
    BY <2>3
  <2>5. ~(p <= n) /\ (n + 1) - 1 = n
    BY <2>3
  <2> QED BY <1>2, <2>1, <2>2, <2>4, <2>5
<1> QED BY <1>1, <1>2

\* update_lru leaves no repetition, keeps every other key, and adds k.
LEMMA UpdateLru ==
    ASSUME NEW lru \in Seq(Keys), NoRepeat(lru), NEW k \in Keys
    PROVE  /\ update_lru(lru, k) \in Seq(Keys)
           /\ NoRepeat(update_lru(lru, k))
           /\ \E i \in 1..Len(update_lru(lru, k)) : update_lru(lru, k)[i] = k
           /\ \A i \in 1..Len(lru) :
                \E j \in 1..Len(update_lru(lru, k)) : update_lru(lru, k)[j] = lru[i]
<1> DEFINE new == update_lru(lru, k)
           n == Len(lru)
<1>1. PICK p \in 1..(n + 1) :
        /\ \A i \in 1..n : lru[i] = k <=> i = p
        /\ new \in Seq(Keys)
        /\ Len(new) = IF p <= n THEN n ELSE n + 1
        /\ \A i \in 1..(Len(new) - 1) : new[i] = IF i < p THEN lru[i] ELSE lru[i + 1]
        /\ new[Len(new)] = k
  BY UpdateLruShape
<1> HIDE DEF new
<1>2. Len(new) \in 1..Len(new)
  BY <1>1
<1>3. \A i \in 1..(Len(new) - 1) : (i < p => i \in 1..n) /\ (i >= p => i + 1 \in 1..n)
  BY <1>1
<1>4. \A i \in 1..(Len(new) - 1) : new[i] # k
  BY <1>1, <1>3
<1>5. \A i, j \in 1..(Len(new) - 1) : new[i] = new[j] => i = j
  <2> SUFFICES ASSUME NEW i \in 1..(Len(new) - 1), NEW j \in 1..(Len(new) - 1), new[i] = new[j]
               PROVE  i = j
    OBVIOUS
  <2>1. PICK a \in 1..n : new[i] = lru[a] /\ a = IF i < p THEN i ELSE i + 1
    BY <1>1, <1>3
  <2>2. PICK b \in 1..n : new[j] = lru[b] /\ b = IF j < p THEN j ELSE j + 1
    BY <1>1, <1>3
  <2>3. a = b
    BY <2>1, <2>2 DEF NoRepeat
  <2>4. i \in Nat /\ j \in Nat /\ p \in Nat
    BY <1>1
  <2> QED BY <2>1, <2>2, <2>3, <2>4
<1>6. NoRepeat(new)
  BY <1>1, <1>4, <1>5 DEF NoRepeat
<1>7. ASSUME NEW i \in 1..n
      PROVE  \E j \in 1..Len(new) : new[j] = lru[i]
  <2>1. CASE i < p
    BY <1>1, <2>1
  <2>2. CASE i = p
    BY <1>1, <1>2, <2>2
  <2>3. CASE i > p
    <3>1. PICK m \in 1..(Len(new) - 1) : m = i - 1
      BY <1>1, <2>3
    <3>2. ~(m < p) /\ m + 1 = i /\ m \in 1..Len(new)
      BY <1>1, <2>3, <3>1
    <3>3. new[m] = lru[m + 1]
      BY <1>1, <3>2
    <3> QED BY <3>2, <3>3
  <2> QED BY <2>1, <2>2, <2>3
<1> QED BY <1>1, <1>2, <1>6, <1>7 DEF new

\* Writing any entry keeps a value of the struct well formed.
LEMMA WriteOK ==
    ASSUME NEW s, StateOK(s), NEW k \in Keys, NEW e \in Entry
    PROVE  StateOK(Write(s, k, e))
<1> DEFINE t == Write(s, k, e)
<1>1. /\ IsKv(t)
      /\ t.store = [s.store EXCEPT ![k] = e]
      /\ t.memory_bytes = s.memory_bytes
      /\ t.total_writes = s.total_writes + 1
      /\ t.lru_order = update_lru(s.lru_order, k)
      /\ t.transaction_queue = s.transaction_queue
      /\ t.events = s.events /\ t.notify = s.notify
  BY DEF Write, StateOK, IsKv
<1> HIDE DEF t
<1>2. LruOK(t.lru_order, t.store)
  <2>1. s.lru_order \in Seq(Keys) /\ NoRepeat(s.lru_order) /\ Covers(s.lru_order, s.store)
    BY DEF StateOK, LruOK
  <2> DEFINE new == update_lru(s.lru_order, k)
  <2>2. /\ new \in Seq(Keys) /\ NoRepeat(new)
        /\ \E i \in 1..Len(new) : new[i] = k
        /\ \A i \in 1..Len(s.lru_order) :
             \E j \in 1..Len(new) : new[j] = s.lru_order[i]
    BY <2>1, UpdateLru
  <2> HIDE DEF new
  <2>3. ASSUME NEW j \in Keys, t.store[j] # None
        PROVE  \E i \in 1..Len(new) : new[i] = j
    <3>1. CASE j = k
      BY <3>1, <2>2
    <3>2. CASE j # k
      <4>1. s.store[j] # None
        BY <3>2, <2>3, <1>1 DEF StateOK
      <4>2. PICK i \in 1..Len(s.lru_order) : s.lru_order[i] = j
        BY <4>1, <2>1 DEF Covers
      <4> QED BY <4>2, <2>2
    <3> QED BY <3>1, <3>2
  <2> QED BY <1>1, <2>2, <2>3 DEF LruOK, Covers, new
<1>3. t.store \in [Keys -> Entry \cup {None}]
  BY <1>1 DEF StateOK
<1>4. t.total_writes \in Nat
  BY <1>1 DEF StateOK
<1> QED BY <1>1, <1>2, <1>3, <1>4 DEF StateOK, t

\* The size of a value is a natural number.
LEMMA SizeType == ASSUME NEW v \in Value PROVE estimate_value_size(v) \in Nat
<1>1. CASE v \in [type : {"Str"}, data : Seq(Char)]
  BY <1>1 DEF estimate_value_size
<1>2. CASE v \in [type : {"Int"}, data : I64]
  BY <1>2 DEF estimate_value_size
<1>3. CASE v \in [type : {"Bool"}, data : BOOLEAN]
  BY <1>3 DEF estimate_value_size
<1>4. CASE v \in [type : {"List"}, data : Seq(Char)]
  BY <1>4 DEF estimate_value_size
<1>5. CASE v \in [type : {"Hash"}, data : [Fields -> FieldText \cup {None}]]
  <2>1. HashFields(v) \in SUBSET Fields
    BY DEF HashFields
  <2>2. Cardinality(HashFields(v)) \in Nat
    BY <2>1, BoundsAssumption, FS_Subset, FS_CardinalityType
  <2>3. v.type = "Hash"
    BY <1>5
  <2> HIDE DEF HashFields
  <2> QED BY <2>2, <2>3 DEF estimate_value_size
<1>6. CASE v \in [type : {"HyperLogLog"}, data : Sketch]
  <2>1. v.type = "HyperLogLog" /\ v.data.precision \in 4..16
    BY <1>6 DEF Sketch
  <2>2. register_count(v.data.precision) \in Nat
    BY <2>1 DEF register_count
  <2> QED BY <2>1, <2>2 DEF estimate_value_size
<1> QED BY <1>1, <1>2, <1>3, <1>4, <1>5, <1>6 DEF Value

\* Announcing an event touches nothing the invariants speak of.
LEMMA EmitOK ==
    ASSUME NEW s, StateOK(s), NEW kind \in {"set", "del", "expired", "evicted"},
           NEW k \in Keys
    PROVE  LET t == emit_keyspace_event(s, kind, k)
           IN  /\ StateOK(t) /\ t.store = s.store /\ t.lru_order = s.lru_order
               /\ t.memory_bytes = s.memory_bytes
<1> DEFINE t == emit_keyspace_event(s, kind, k)
<1>1. /\ IsKv(t)
      /\ t.store = s.store
      /\ t.memory_bytes = s.memory_bytes
      /\ t.total_writes = s.total_writes
      /\ t.lru_order = s.lru_order
      /\ t.transaction_queue = s.transaction_queue
      /\ t.events = IF s.notify THEN Append(s.events, [kind |-> kind, key |-> k]) ELSE s.events
      /\ t.notify = s.notify
  BY DEF emit_keyspace_event, StateOK, IsKv
<1>2. t.events \in Seq(KeyspaceEvent)
  <2>1. s.events \in Seq(KeyspaceEvent)
    BY DEF StateOK
  <2>2. PICK e \in KeyspaceEvent : e = [kind |-> kind, key |-> k]
    BY DEF KeyspaceEvent
  <2>3. Append(s.events, e) \in Seq(KeyspaceEvent)
    BY <2>1
  <2> QED BY <1>1, <2>1, <2>2, <2>3
<1> HIDE DEF t
<1>3. StateOK(t)
  BY <1>1, <1>2 DEF StateOK
<1> QED BY <1>1, <1>3 DEF t

\* Counting bytes touches nothing else.
LEMMA CountOK ==
    ASSUME NEW s, StateOK(s), NEW n \in Nat
    PROVE  LET t == [s EXCEPT !.memory_bytes = @ + n]
           IN  /\ StateOK(t) /\ t.store = s.store /\ t.lru_order = s.lru_order
               /\ t.memory_bytes = s.memory_bytes + n
<1> DEFINE t == [s EXCEPT !.memory_bytes = @ + n]
<1>1. /\ IsKv(t)
      /\ t.store = s.store
      /\ t.memory_bytes = s.memory_bytes + n
      /\ t.total_writes = s.total_writes
      /\ t.lru_order = s.lru_order
      /\ t.transaction_queue = s.transaction_queue
      /\ t.events = s.events /\ t.notify = s.notify
  BY DEF StateOK, IsKv
<1> HIDE DEF t
<1>2. t.memory_bytes \in Nat
  BY <1>1 DEF StateOK
<1>3. StateOK(t)
  BY <1>1, <1>2 DEF StateOK
<1> QED BY <1>1, <1>3 DEF t

-----------------------------------------------------------------------------
(* The eviction loop *)

\* The bytes of one key of the LRU vector.
LEMMA ColumnFinite ==
    ASSUME NEW s, StateOK(s), NEW p \in 1..Len(s.lru_order)
    PROVE  /\ SizeAt(s, p) \in Nat
           /\ IsFiniteSet({p} \X (1..SizeAt(s, p)))
           /\ Cardinality({p} \X (1..SizeAt(s, p))) = SizeAt(s, p)
<1> DEFINE e == s.store[s.lru_order[p]]
<1>1. e \in Entry \cup {None}
  BY DEF StateOK, LruOK
<1>2. SizeAt(s, p) \in Nat
  <2>1. CASE e = None
    BY <2>1 DEF SizeAt
  <2>2. CASE e # None
    <3>1. e.value \in Value
      BY <1>1, <2>2 DEF Entry
    <3>2. estimate_value_size(e.value) \in Nat
      BY <3>1, SizeType
    <3> QED BY <2>2, <3>2 DEF SizeAt
  <2> QED BY <2>1, <2>2
<1>3. PICK n \in Nat : n = SizeAt(s, p)
  BY <1>2
<1>4. IsFiniteSet({p}) /\ Cardinality({p}) = 1
  BY FS_Singleton
<1>5. n \in Int /\ 1 \in Int
  OBVIOUS
<1>6. IsFiniteSet(1..n) /\ Cardinality(1..n) = n
  BY <1>5, FS_Interval
<1>7. /\ IsFiniteSet({p} \X (1..n))
      /\ Cardinality({p} \X (1..n)) = Cardinality({p}) * Cardinality(1..n)
  <2> DEFINE one == {p}
             bytes == 1..n
  <2>1. IsFiniteSet(one) /\ IsFiniteSet(bytes)
    BY <1>4, <1>6
  <2> HIDE DEF one, bytes
  <2>2. IsFiniteSet(one \X bytes) /\ Cardinality(one \X bytes) = Cardinality(one) * Cardinality(bytes)
    BY <2>1, FS_Product
  <2> QED BY <2>2 DEF one, bytes
<1>8. Cardinality({p}) * Cardinality(1..n) = n
  BY <1>4, <1>6
<1> QED BY <1>2, <1>3, <1>7, <1>8

\* The bytes of a stretch of the LRU vector are finitely many.
LEMMA CellsFinite ==
    ASSUME NEW s, StateOK(s), NEW n \in 0..Len(s.lru_order)
    PROVE  IsFiniteSet(Cells(s, n))
<1> DEFINE Column(p) == {p} \X (1..SizeAt(s, p))
           Columns == {Column(p) : p \in 1..n}
<1>1. s.lru_order \in Seq(Keys) /\ s.store \in [Keys -> Entry \cup {None}]
  BY DEF StateOK, LruOK
<1>2. ASSUME NEW p \in 1..n
      PROVE  IsFiniteSet(Column(p))
  <2>1. p \in 1..Len(s.lru_order)
    BY <1>1
  <2> QED BY <2>1, ColumnFinite
<1>3. IsFiniteSet(Columns)
  <2> HIDE DEF Column
  <2> DEFINE f == [p \in 1..n |-> Column(p)]
  <2>1. IsFiniteSet(1..n)
    BY FS_Interval
  <2>2. f \in [1..n -> Columns]
    OBVIOUS
  <2>3. \A c \in Columns : \E p \in 1..n : f[p] = c
    OBVIOUS
  <2> HIDE DEF f, Columns
  <2>4. f \in Surjection(1..n, Columns)
    BY <2>2, <2>3 DEF Surjection
  <2> QED BY <2>1, <2>4, FS_Surjection
<1>4. \A c \in Columns : IsFiniteSet(c)
  BY <1>2
<1> QED BY <1>3, <1>4, FS_UNION DEF Cells

\* Each further round of the loop frees bytes or leaves the counter alone.
LEMMA MemoryAfterShrinks ==
    ASSUME NEW s, StateOK(s), NEW n \in 0..Len(s.lru_order), NEW m \in 0..n
    PROVE  /\ MemoryAfter(s, n) \in Nat /\ MemoryAfter(s, m) \in Nat
           /\ MemoryAfter(s, n) <= MemoryAfter(s, m)
<1>1. s.lru_order \in Seq(Keys) /\ s.memory_bytes \in Nat
  BY DEF StateOK, LruOK
<1>2. m \in 0..Len(s.lru_order)
  BY <1>1
<1>3. Cells(s, m) \subseteq Cells(s, n)
  BY <1>1 DEF Cells
<1>4. IsFiniteSet(Cells(s, n)) /\ IsFiniteSet(Cells(s, m))
  BY <1>2, CellsFinite
<1>5. /\ Cardinality(Cells(s, m)) \in Nat /\ Cardinality(Cells(s, n)) \in Nat
      /\ Cardinality(Cells(s, m)) <= Cardinality(Cells(s, n))
  BY <1>3, <1>4, FS_Subset, FS_CardinalityType
<1> QED BY <1>1, <1>5 DEF MemoryAfter

\* A round frees no more than the bytes of its key.
LEMMA RoundFrees ==
    ASSUME NEW s, StateOK(s), NEW n \in 1..Len(s.lru_order)
    PROVE  MemoryAfter(s, n) + SizeAt(s, n) >= MemoryAfter(s, n - 1)
<1> DEFINE C == {n} \X (1..SizeAt(s, n))
           D == Cells(s, n - 1)
<1>1. s.lru_order \in Seq(Keys) /\ s.memory_bytes \in Nat
  BY DEF StateOK, LruOK
<1>2. n \in 0..Len(s.lru_order) /\ n - 1 \in 0..Len(s.lru_order)
  BY <1>1
<1>3. SizeAt(s, n) \in Nat /\ IsFiniteSet(C) /\ Cardinality(C) = SizeAt(s, n)
  BY ColumnFinite
<1>4. Cells(s, n) \in SUBSET (D \cup C)
  <2>1. \A p \in 1..n : p \in 1..(n - 1) \/ p = n
    BY <1>1
  <2> QED BY <2>1 DEF Cells
<1>5. IsFiniteSet(D)
  BY <1>2, CellsFinite
<1> HIDE DEF C, D
<1>6. /\ IsFiniteSet(D \cup C)
      /\ Cardinality(D \cup C) = Cardinality(D) + Cardinality(C) - Cardinality(D \cap C)
  BY <1>3, <1>5, FS_Union
<1>7. IsFiniteSet(D \cap C)
  <2>1. D \cap C \in SUBSET D
    OBVIOUS
  <2> QED BY <1>5, <2>1, FS_Subset
<1>8. IsFiniteSet(Cells(s, n)) /\ Cardinality(Cells(s, n)) <= Cardinality(D \cup C)
  BY <1>4, <1>6, FS_Subset
<1>9. /\ Cardinality(Cells(s, n)) \in Nat /\ Cardinality(D) \in Nat
      /\ Cardinality(D \cap C) \in Nat /\ Cardinality(D \cup C) \in Nat
  BY <1>5, <1>6, <1>7, <1>8, FS_CardinalityType
<1>10. Cardinality(Cells(s, n)) <= Cardinality(D) + SizeAt(s, n)
  BY <1>3, <1>6, <1>8, <1>9
<1> QED BY <1>1, <1>3, <1>9, <1>10 DEF MemoryAfter, D

\* The rounds that run are the first ones, and the loop runs until the counter
\* is within the limit or the vector is empty.
LEMMA RoundsArePrefix ==
    ASSUME NEW s, StateOK(s)
    PROVE  LET n == Cardinality(Rounds(s))
           IN  /\ n \in 0..Len(s.lru_order)
               /\ MemoryAfter(s, n) <= max_memory_bytes \/ n = Len(s.lru_order)
               /\ Rounds(s) = 1..n
<1> DEFINE n == Cardinality(Rounds(s))
           len == Len(s.lru_order)
<1>1. len \in Nat /\ max_memory_bytes \in Nat
  BY BoundsAssumption DEF StateOK, LruOK
<1>2. IsFiniteSet(1..len) /\ Cardinality(1..len) = len
  <2> HIDE DEF len
  <2>1. 1 \in Int /\ len \in Int
    BY <1>1
  <2> QED BY <1>1, <2>1, FS_Interval
<1>3. Rounds(s) \in SUBSET (1..len)
  BY DEF Rounds
<1>4. IsFiniteSet(Rounds(s)) /\ n \in 0..len
  BY <1>1, <1>2, <1>3, FS_Subset, FS_CardinalityType
<1> HIDE DEF n, len
<1>5. ASSUME NEW p \in Rounds(s)
      PROVE  p <= n
  <2>1. ASSUME NEW q \in 1..p
        PROVE  q \in Rounds(s)
    <3>1. p \in 1..len /\ q \in 1..len /\ p - 1 \in 0..len /\ q - 1 \in 0..(p - 1)
      BY <1>1, <1>3
    <3>2. /\ MemoryAfter(s, p - 1) <= MemoryAfter(s, q - 1)
          /\ MemoryAfter(s, p - 1) \in Nat /\ MemoryAfter(s, q - 1) \in Nat
      BY <3>1, MemoryAfterShrinks DEF len
    <3>3. MemoryAfter(s, p - 1) > max_memory_bytes
      BY DEF Rounds
    <3> QED BY <1>1, <3>1, <3>2, <3>3 DEF Rounds, len
  <2>2. 1..p \in SUBSET Rounds(s)
    BY <2>1
  <2>3. p \in Nat /\ p >= 1
    BY <1>3, <1>1
  <2>4. Cardinality(1..p) = p
    BY <2>3, FS_Interval
  <2>5. Cardinality(1..p) <= Cardinality(Rounds(s))
    BY <2>2, <1>4, FS_Subset
  <2> QED BY <2>4, <2>5 DEF n
<1>6. ASSUME n # len
      PROVE  MemoryAfter(s, n) <= max_memory_bytes
  <2>1. n + 1 \in 1..len /\ n + 1 \notin Rounds(s)
    BY <1>1, <1>4, <1>5, <1>6
  <2>2. ~(MemoryAfter(s, (n + 1) - 1) > max_memory_bytes)
    BY <2>1 DEF Rounds, len
  <2>3. (n + 1) - 1 = n /\ n \in 0..n
    BY <1>1, <1>4
  <2>4. MemoryAfter(s, n) \in Nat
    BY <1>4, <2>3, MemoryAfterShrinks DEF len
  <2> QED BY <1>1, <2>2, <2>3, <2>4
<1>7. Rounds(s) = 1..n
  <2>1. Rounds(s) \in SUBSET (1..n)
    BY <1>1, <1>3, <1>4, <1>5
  <2>2. IsFiniteSet(1..n) /\ Cardinality(1..n) = n
    BY <1>4, FS_Interval
  <2> QED BY <2>1, <2>2, FS_Subset DEF n
<1> QED BY <1>4, <1>6, <1>7 DEF n, len

\* Joining two sequences.
LEMMA ConcatOK ==
    ASSUME NEW T, NEW f \in Seq(T), NEW g \in Seq(T)
    PROVE  /\ f \o g \in Seq(T)
           /\ Len(f \o g) = Len(f) + Len(g)
           /\ \A i \in 1..Len(f) : (f \o g)[i] = f[i]
           /\ \A i \in 1..Len(g) : (f \o g)[Len(f) + i] = g[i]
  OBVIOUS

\* Evicted lists each stored key of the first n positions.
LEMMA EvictedOK ==
    ASSUME NEW s, StateOK(s), NEW n \in 0..Len(s.lru_order)
    PROVE  /\ Evicted(s, n) \in Seq(Keys)
           /\ \A p \in StoredAt(s, n) : \E i \in 1..Len(Evicted(s, n)) : Evicted(s, n)[i] = s.lru_order[p]
<1> DEFINE lru == s.lru_order
           S == StoredAt(s, n)
           c == Cardinality(S)
           evicted == [i \in 1..c |-> lru[Nth(S, i)]]
<1>1. lru \in Seq(Keys) /\ n \in Nat
  BY DEF StateOK, LruOK
<1>2. S \in SUBSET (1..n)
  BY DEF StoredAt
<1>3. c \in Nat /\ \A i \in 1..c : Nth(S, i) \in S
  BY <1>1, <1>2, NthOK, PositionsFinite
<1>4. \A p \in S : \E i \in 1..c : Nth(S, i) = p
  BY <1>1, <1>2, NthOK
<1>5. Evicted(s, n) = evicted
  BY DEF Evicted
<1> HIDE DEF S, c
<1>6. \A i \in 1..c : lru[Nth(S, i)] \in Keys
  <2>1. \A p \in S : p \in 1..Len(lru)
    BY <1>1, <1>2
  <2> QED BY <1>1, <1>3, <2>1
<1>7. evicted \in [1..c -> Keys]
  BY <1>6
<1>8. evicted \in Seq(Keys) /\ Len(evicted) = c
  BY <1>3, <1>7, FunctionIsSeq
<1>9. \A p \in S : \E i \in 1..c : evicted[i] = lru[p]
  BY <1>4
<1> HIDE DEF evicted
<1> QED BY <1>5, <1>8, <1>9 DEF S

\* The events that announce a list of keys.
Announcing(kind, ks) == [i \in 1..Len(ks) |-> [kind |-> kind, key |-> ks[i]]]

LEMMA AnnouncingOK ==
    ASSUME NEW kind \in {"set", "del", "expired", "evicted"}, NEW ks \in Seq(Keys)
    PROVE  /\ Announcing(kind, ks) \in Seq(KeyspaceEvent)
           /\ Len(Announcing(kind, ks)) = Len(ks)
           /\ \A i \in 1..Len(ks) : /\ Announcing(kind, ks)[i].key = ks[i]
                                    /\ Announcing(kind, ks)[i].kind = kind
<1> DEFINE E == Announcing(kind, ks)
<1>1. \A i \in 1..Len(ks) : [kind |-> kind, key |-> ks[i]] \in KeyspaceEvent
  BY DEF KeyspaceEvent
<1>2. E \in [1..Len(ks) -> KeyspaceEvent]
  BY <1>1 DEF Announcing
<1>3. E \in Seq(KeyspaceEvent) /\ Len(E) = Len(ks)
  BY <1>2, FunctionIsSeq
<1> QED BY <1>3 DEF Announcing

\* The eviction loop keeps a value of the struct well formed, and ends within
\* the limit unless nothing is left to evict.
LEMMA EnforceOK ==
    ASSUME NEW s, StateOK(s)
    PROVE  LET t == enforce_memory_limit(s)
           IN  /\ StateOK(t)
               /\ \/ t.memory_bytes <= max_memory_bytes
                  \/ t.lru_order = <<>> /\ \A k \in Keys : t.store[k] = None
<1> DEFINE n == Cardinality(Rounds(s))
           lru == s.lru_order
           t == enforce_memory_limit(s)
<1>1. /\ lru \in Seq(Keys) /\ NoRepeat(lru) /\ Covers(lru, s.store)
      /\ s.store \in [Keys -> Entry \cup {None}]
  BY DEF StateOK, LruOK
<1>2. n \in 0..Len(lru) /\ (MemoryAfter(s, n) <= max_memory_bytes \/ n = Len(lru))
  BY RoundsArePrefix
<1>3. /\ IsKv(t)
      /\ t.store = [k \in Keys |-> IF k \in Victims(s, n) THEN None ELSE s.store[k]]
      /\ t.memory_bytes = MemoryAfter(s, n)
      /\ t.total_writes = s.total_writes
      /\ t.lru_order = SubSeq(lru, n + 1, Len(lru))
      /\ t.transaction_queue = s.transaction_queue
      /\ t.events = IF s.notify THEN s.events \o Announcing("evicted", Evicted(s, n)) ELSE s.events
      /\ t.notify = s.notify
  BY DEF enforce_memory_limit, StateOK, IsKv, Announcing
<1> HIDE DEF n, t
<1>4. t.memory_bytes \in Nat
  <2>1. n \in 0..n
    BY <1>1, <1>2
  <2> QED BY <1>2, <1>3, <2>1, MemoryAfterShrinks
<1>5. t.store \in [Keys -> Entry \cup {None}]
  BY <1>1, <1>3
<1> DEFINE rest == SubSeq(lru, n + 1, Len(lru))
<1>6. /\ rest \in Seq(Keys) /\ Len(rest) = Len(lru) - n
      /\ \A i \in 1..(Len(lru) - n) : rest[i] = lru[n + i]
  BY <1>1, <1>2
<1>7. ASSUME NEW k \in Keys, t.store[k] # None
      PROVE  \E i \in 1..Len(rest) : rest[i] = k
  <2>1. k \notin Victims(s, n) /\ s.store[k] # None
    BY <1>3, <1>7
  <2>2. PICK p \in 1..Len(lru) : lru[p] = k
    BY <1>1, <2>1 DEF Covers
  <2>3. p > n
    BY <1>1, <1>2, <2>1, <2>2 DEF Victims
  <2>4. p - n \in 1..Len(rest) /\ rest[p - n] = lru[n + (p - n)] /\ n + (p - n) = p
    BY <1>1, <1>2, <1>6, <2>3
  <2> QED BY <2>2, <2>4
<1>8. NoRepeat(rest)
  <2> SUFFICES ASSUME NEW i \in 1..Len(rest), NEW j \in 1..Len(rest), rest[i] = rest[j]
               PROVE  i = j
    BY DEF NoRepeat
  <2>1. n + i \in 1..Len(lru) /\ n + j \in 1..Len(lru) /\ lru[n + i] = lru[n + j]
    BY <1>1, <1>2, <1>6
  <2>2. n + i = n + j
    BY <1>1, <2>1 DEF NoRepeat
  <2> QED BY <1>1, <1>2, <1>6, <2>2
<1> HIDE DEF rest
<1>9. StateOK(t)
  <2>1. LruOK(t.lru_order, t.store)
    BY <1>3, <1>6, <1>7, <1>8 DEF LruOK, Covers, rest
  <2>2. s.events \in Seq(KeyspaceEvent)
    BY DEF StateOK
  <2>3. Announcing("evicted", Evicted(s, n)) \in Seq(KeyspaceEvent)
    BY <1>2, EvictedOK, AnnouncingOK
  <2>4. s.events \o Announcing("evicted", Evicted(s, n)) \in Seq(KeyspaceEvent)
    BY <2>2, <2>3, ConcatOK
  <2>5. t.events \in Seq(KeyspaceEvent)
    BY <1>3, <2>2, <2>4
  <2> QED BY <1>3, <1>4, <1>5, <2>1, <2>5 DEF StateOK
<1>10. CASE n = Len(lru)
  <2>1. Len(rest) = 0 /\ rest = <<>>
    BY <1>1, <1>6, <1>10
  <2>2. \A k \in Keys : t.store[k] = None
    BY <1>7, <2>1
  <2> QED BY <1>3, <1>9, <2>1, <2>2 DEF rest, t
<1>11. CASE MemoryAfter(s, n) <= max_memory_bytes
  BY <1>3, <1>9, <1>11 DEF t
<1> QED BY <1>2, <1>10, <1>11

-----------------------------------------------------------------------------
(* Values and entries *)

\* What the data of a value is, by its type.
LEMMA DataType ==
    ASSUME NEW v \in Value
    PROVE  /\ v.type = "Str" => v.data \in Seq(Char)
           /\ v.type = "Int" => v.data \in I64
           /\ v.type = "List" => v.data \in Seq(Char)
           /\ v.type = "Hash" => v.data \in [Fields -> FieldText \cup {None}]
           /\ v.type = "HyperLogLog" => v.data \in Sketch
<1> USE DEF Value
<1>1. CASE v \in [type : {"Str"}, data : Seq(Char)]
  BY <1>1
<1>2. CASE v \in [type : {"Int"}, data : I64]
  BY <1>2
<1>3. CASE v \in [type : {"Bool"}, data : BOOLEAN]
  BY <1>3
<1>4. CASE v \in [type : {"List"}, data : Seq(Char)]
  BY <1>4
<1>5. CASE v \in [type : {"Hash"}, data : [Fields -> FieldText \cup {None}]]
  BY <1>5
<1>6. CASE v \in [type : {"HyperLogLog"}, data : Sketch]
  BY <1>6
<1> QED BY <1>1, <1>2, <1>3, <1>4, <1>5, <1>6

\* The constructors of values.
LEMMA ValueType ==
    /\ \A d \in Seq(Char) : [type |-> "Str", data |-> d] \in Value
    /\ \A d \in I64 : [type |-> "Int", data |-> d] \in Value
    /\ \A d \in Seq(Char) : [type |-> "List", data |-> d] \in Value
    /\ \A d \in [Fields -> FieldText \cup {None}] : [type |-> "Hash", data |-> d] \in Value
    /\ \A d \in Sketch : [type |-> "HyperLogLog", data |-> d] \in Value
  BY DEF Value

\* A stored key has a value and an expiry time.
LEMMA StoredEntry ==
    ASSUME NEW s, StateOK(s), NEW k \in Keys, s.store[k] # None
    PROVE  /\ s.store[k] \in Entry
           /\ s.store[k].value \in Value
           /\ s.store[k].expires_at \in Nat \cup {None}
  BY DEF StateOK, Entry

\* An entry is a value and an expiry time.
LEMMA EntryType ==
    ASSUME NEW v \in Value, NEW x \in Nat \cup {None}
    PROVE  [value |-> v, expires_at |-> x] \in Entry
  BY DEF Entry

\* i64 arithmetic wraps around.
LEMMA WrapType == ASSUME NEW n \in Int PROVE wrap(n) \in I64
<1>1. HalfRange \in Nat \ {0}
  BY BoundsAssumption
<1>2. (n + HalfRange) % (2 * HalfRange) \in 0..(2 * HalfRange - 1)
  BY <1>1
<1> QED BY <1>1, <1>2 DEF wrap, I64

\* An expiry time fits the type, or is dropped.
LEMMA CheckedAddType ==
    ASSUME NEW t \in Nat, NEW ttl \in Nat
    PROVE  checked_add(t, ttl) \in Nat \cup {None}
  BY BoundsAssumption DEF checked_add

-----------------------------------------------------------------------------
(* Every operation keeps a value of the struct well formed *)

\* What a write leaves in the map.
LEMMA WrittenStore ==
    ASSUME NEW s, StateOK(s), NEW k \in Keys, NEW e \in Entry
    PROVE  LET t == Write(s, k, e)
           IN  t.store[k] = e /\ e # None /\ \A j \in Keys : j # k => t.store[j] = s.store[j]
<1> DEFINE t == Write(s, k, e)
<1>1. t.store = [s.store EXCEPT ![k] = e]
  BY DEF Write, StateOK, IsKv
<1> HIDE DEF t
<1>2. t.store[k] = e /\ \A j \in Keys : j # k => t.store[j] = s.store[j]
  BY <1>1 DEF StateOK
<1>3. e # None
  BY NoneAssumption
<1> QED BY <1>2, <1>3 DEF t

\* Creating a key.
LEMMA CreateOK ==
    ASSUME NEW s, StateOK(s), NEW k \in Keys, NEW v \in Value
    PROVE  /\ StateOK(Create(s, k, v))
           /\ s.store[k] = None => InPlace(s, Create(s, k, v))
<1>1. [value |-> v, expires_at |-> None] \in Entry
  BY EntryType
<1>2. StateOK(Write(s, k, [value |-> v, expires_at |-> None]))
  BY <1>1, WriteOK
<1>3. estimate_value_size(v) \in Nat
  BY SizeType
<1> DEFINE w == Write(s, k, [value |-> v, expires_at |-> None])
<1>4. \A j \in Keys : j # k => w.store[j] = s.store[j]
  BY <1>1, WrittenStore
<1> HIDE DEF w
<1>5. StateOK(Create(s, k, v)) /\ Create(s, k, v).store = w.store
  BY <1>2, <1>3, CountOK DEF Create, w
<1> QED BY <1>4, <1>5 DEF InPlace

\* Replacing the value of a stored key.
LEMMA UpdateOK ==
    ASSUME NEW s, StateOK(s), NEW k \in Keys, s.store[k] # None, NEW v \in Value
    PROVE  StateOK(Update(s, k, v)) /\ InPlace(s, Update(s, k, v))
<1> DEFINE e == [value |-> v, expires_at |-> s.store[k].expires_at]
           t == Write(s, k, e)
<1>1. e \in Entry
  BY EntryType, StoredEntry
<1>2. e.expires_at = s.store[k].expires_at
  OBVIOUS
<1>3. Update(s, k, v) = t
  BY DEF Update
<1> HIDE DEF e
<1>4. StateOK(t)
  BY <1>1, WriteOK
<1>5. t.store[k] = e /\ e # None /\ \A j \in Keys : j # k => t.store[j] = s.store[j]
  BY <1>1, WrittenStore
<1> HIDE DEF t
<1>6. InPlace(s, t)
  BY <1>2, <1>5 DEF InPlace
<1> QED BY <1>3, <1>4, <1>6

\* The body of set: well formed, and within the limit.
LEMMA InsertOK ==
    ASSUME NEW s, StateOK(s), NEW k \in Keys, NEW v \in Value, NEW x \in Nat \cup {None}
    PROVE  LET t == Insert(s, k, v, x)
           IN  /\ StateOK(t)
               /\ max_memory_bytes > 0 /\ lru_eviction_enabled =>
                    \/ t.memory_bytes <= max_memory_bytes
                    \/ t.lru_order = <<>> /\ \A j \in Keys : t.store[j] = None
<1> DEFINE w == Write(s, k, [value |-> v, expires_at |-> x])
           grown == [w EXCEPT !.memory_bytes = @ + estimate_value_size(v)]
           bounded == IF max_memory_bytes > 0 /\ lru_eviction_enabled
                      THEN enforce_memory_limit(grown) ELSE grown
           t == emit_keyspace_event(bounded, "set", k)
<1>1. StateOK(w)
  BY EntryType, WriteOK
<1> HIDE DEF w
<1>2. StateOK(grown)
  BY <1>1, SizeType, CountOK
<1> HIDE DEF grown
<1>3. /\ StateOK(bounded)
      /\ max_memory_bytes > 0 /\ lru_eviction_enabled =>
           \/ bounded.memory_bytes <= max_memory_bytes
           \/ bounded.lru_order = <<>> /\ \A j \in Keys : bounded.store[j] = None
  BY <1>2, EnforceOK
<1> HIDE DEF bounded
<1>4. /\ StateOK(t) /\ t.store = bounded.store /\ t.lru_order = bounded.lru_order
      /\ t.memory_bytes = bounded.memory_bytes
  BY <1>3, EmitOK
<1>5. Insert(s, k, v, x) = t
  BY DEF Insert, t, bounded, grown, w
<1> HIDE DEF t
<1> QED BY <1>3, <1>4, <1>5

\* Queueing an operation of an open transaction.
LEMMA QueueOK ==
    ASSUME NEW s, StateOK(s), in_transaction(s), NEW op \in TransactionOp
    PROVE  StateOK(queue_operation(s, op))
<1> DEFINE t == queue_operation(s, op)
<1>1. /\ IsKv(t)
      /\ t.store = s.store
      /\ t.memory_bytes = s.memory_bytes
      /\ t.total_writes = s.total_writes
      /\ t.lru_order = s.lru_order
      /\ t.transaction_queue = Append(s.transaction_queue, op)
      /\ t.events = s.events /\ t.notify = s.notify
  BY DEF queue_operation, StateOK, IsKv
<1> HIDE DEF t
<1>2. t.transaction_queue \in Seq(TransactionOp)
  BY <1>1 DEF StateOK, in_transaction
<1>3. StateOK(t)
  BY <1>1, <1>2 DEF StateOK
<1> QED BY <1>3 DEF t

\* set, whether it refuses, queues or inserts.
LEMMA SetOK ==
    ASSUME NEW s, StateOK(s), NEW k, NEW v \in Value, NEW x \in Nat \cup {None}
    PROVE  StateOK(set(s, k, v, x))
<1>1. CASE k \notin Keys \/ ~validate_value(v)
  BY <1>1 DEF set
<1>2. CASE k \in Keys /\ validate_value(v) /\ in_transaction(s)
  <2> DEFINE op == [op |-> "Set", key |-> k, entry |-> [value |-> v, expires_at |-> x]]
  <2>1. op \in TransactionOp
    BY <1>2, EntryType DEF TransactionOp
  <2>2. set(s, k, v, x) = queue_operation(s, op)
    BY <1>2 DEF set
  <2> QED BY <1>2, <2>1, <2>2, QueueOK
<1>3. CASE k \in Keys /\ validate_value(v) /\ ~in_transaction(s)
  <2>1. set(s, k, v, x) = Insert(s, k, v, x)
    BY <1>3 DEF set
  <2> QED BY <1>3, <2>1, InsertOK
<1> QED BY <1>1, <1>2, <1>3

\* Dropping entries, or replacing them in place, needs no change of the LRU
\* vector.
LEMMA ReplaceOK ==
    ASSUME NEW s, StateOK(s), NEW t, IsKv(t),
           t.store \in [Keys -> Entry \cup {None}],
           \A k \in Keys : t.store[k] # None => s.store[k] # None,
           t.memory_bytes = s.memory_bytes, t.total_writes = s.total_writes,
           t.lru_order = s.lru_order, t.transaction_queue = s.transaction_queue,
           t.events \in Seq(KeyspaceEvent), t.notify = s.notify
    PROVE  StateOK(t)
<1>1. LruOK(t.lru_order, t.store)
  BY DEF StateOK, LruOK, Covers
<1> QED BY <1>1 DEF StateOK

\* One entry of a stored key replaced or dropped.
LEMMA ReplaceOneOK ==
    ASSUME NEW s, StateOK(s), NEW k \in Keys, NEW e \in Entry \cup {None}, s.store[k] # None
    PROVE  StateOK([s EXCEPT !.store = [@ EXCEPT ![k] = e]])
<1> DEFINE t == [s EXCEPT !.store = [@ EXCEPT ![k] = e]]
<1>1. /\ IsKv(t)
      /\ t.store = [s.store EXCEPT ![k] = e]
      /\ t.memory_bytes = s.memory_bytes
      /\ t.total_writes = s.total_writes
      /\ t.lru_order = s.lru_order
      /\ t.transaction_queue = s.transaction_queue
      /\ t.events = s.events /\ t.notify = s.notify
  BY DEF StateOK, IsKv
<1> HIDE DEF t
<1>2. t.store \in [Keys -> Entry \cup {None}]
  BY <1>1 DEF StateOK
<1>3. \A j \in Keys : t.store[j] # None => s.store[j] # None
  BY <1>1 DEF StateOK
<1>4. t.events \in Seq(KeyspaceEvent)
  BY <1>1 DEF StateOK
<1>5. StateOK(t)
  BY <1>1, <1>2, <1>3, <1>4, ReplaceOK
<1> QED BY <1>5 DEF t

\* delete, whether it queues or removes.
LEMMA DeleteOK ==
    ASSUME NEW s, StateOK(s), NEW k \in Keys
    PROVE  StateOK(delete(s, k))
<1>1. CASE in_transaction(s)
  <2>1. [op |-> "Delete", key |-> k] \in TransactionOp
    BY DEF TransactionOp
  <2> QED BY <1>1, <2>1, QueueOK DEF delete
<1>2. CASE ~in_transaction(s) /\ s.store[k] = None
  BY <1>2 DEF delete
<1>3. CASE ~in_transaction(s) /\ s.store[k] # None
  <2>1. StateOK([s EXCEPT !.store = [@ EXCEPT ![k] = None]])
    BY <1>3, ReplaceOneOK
  <2> QED BY <1>3, <2>1, EmitOK DEF delete
<1> QED BY <1>1, <1>2, <1>3

\* incr, decr and incrby.
LEMMA IncrByOK ==
    ASSUME NEW s, StateOK(s), NEW k \in Keys, NEW amount \in Int
    PROVE  StateOK(incrby(s, k, amount)) /\ InPlace(s, incrby(s, k, amount))
<1>1. CASE Has(s, k, "Int")
  <2> DEFINE n == s.store[k].value.data + amount
  <2>1. s.store[k] # None /\ s.store[k].value.type = "Int"
    BY <1>1 DEF Has
  <2>2. s.store[k].value.data \in I64
    BY <2>1, StoredEntry, DataType
  <2>3. n \in Int
    BY <2>2, BoundsAssumption DEF I64
  <2> HIDE DEF n
  <2>4. [type |-> "Int", data |-> wrap(n)] \in Value
    BY <2>3, WrapType, ValueType
  <2> QED BY <1>1, <2>1, <2>4, UpdateOK DEF incrby, n
<1>2. CASE ~Has(s, k, "Int")
  BY <1>2 DEF incrby, InPlace
<1> QED BY <1>1, <1>2

\* append.
LEMMA AppendOK ==
    ASSUME NEW s, StateOK(s), NEW k \in Keys, NEW text \in Seq(Char)
    PROVE  StateOK(append(s, k, text))
<1>1. CASE s.store[k] = None
  <2>1. [type |-> "Str", data |-> text] \in Value
    BY ValueType
  <2> QED BY <1>1, <2>1, SetOK DEF append
<1>2. CASE s.store[k] # None /\ Has(s, k, "Str")
  <2>1. s.store[k].value.data \in Seq(Char)
    BY <1>2, StoredEntry, DataType DEF Has
  <2>2. s.store[k].value.data \o text \in Seq(Char)
    BY <2>1
  <2>3. [type |-> "Str", data |-> s.store[k].value.data \o text] \in Value
    BY <2>2, ValueType
  <2> QED BY <1>2, <2>3, UpdateOK DEF append
<1>3. CASE s.store[k] # None /\ ~Has(s, k, "Str")
  BY <1>3 DEF append
<1> QED BY <1>1, <1>2, <1>3

\* mset, with or without an error on the way.
LEMMA MsetOK ==
    ASSUME NEW s, StateOK(s), NEW p, NEW q, p[2] \in Value, q[2] \in Value
    PROVE  StateOK(mset(s, p, q))
<1>1. p[2] \in Value /\ q[2] \in Value
  OBVIOUS
<1>2. StateOK(set(s, p[1], p[2], None))
  BY <1>1, SetOK
<1>3. StateOK(set(set(s, p[1], p[2], None), q[1], q[2], None))
  BY <1>1, <1>2, SetOK
<1> QED BY <1>3 DEF mset

\* expire and persist.
LEMMA ExpireOK ==
    ASSUME NEW s, StateOK(s), NEW k \in Keys, NEW ttl \in Nat, NEW t \in Nat
    PROVE  StateOK(expire(s, k, ttl, t)) /\ StateOK(persist(s, k))
<1>1. CASE s.store[k] = None
  BY <1>1 DEF expire, persist
<1>2. CASE s.store[k] # None
  <2> DEFINE timed == [value |-> s.store[k].value, expires_at |-> checked_add(t, ttl)]
             kept == [value |-> s.store[k].value, expires_at |-> None]
  <2>1. timed \in Entry /\ kept \in Entry
    BY <1>2, StoredEntry, EntryType, CheckedAddType
  <2> HIDE DEF timed, kept
  <2>2. /\ StateOK([s EXCEPT !.store = [@ EXCEPT ![k] = timed]])
        /\ StateOK([s EXCEPT !.store = [@ EXCEPT ![k] = kept]])
    BY <1>2, <2>1, ReplaceOneOK
  <2>3. /\ StateOK(emit_keyspace_event([s EXCEPT !.store = [@ EXCEPT ![k] = timed]], "set", k))
        /\ StateOK(emit_keyspace_event([s EXCEPT !.store = [@ EXCEPT ![k] = kept]], "set", k))
    BY <2>2, EmitOK
  <2> QED BY <1>2, <2>3 DEF expire, persist, timed, kept
<1> QED BY <1>1, <1>2

\* The orders in which the sweep may find the keys that are due.
DueOrders(s, t) ==
    {f \in [1..Cardinality(Due(s, t)) -> Due(s, t)] :
        \A i, j \in 1..Cardinality(Due(s, t)) : f[i] = f[j] => i = j}

\* Each of them lists every key that is due: these are finitely many, for
\* lru_order lists them too.
LEMMA DueListed ==
    ASSUME NEW s, StateOK(s), NEW t \in Nat, NEW order \in DueOrders(s, t)
    PROVE  /\ order \in Seq(Keys)
           /\ \A k \in Due(s, t) : \E i \in 1..Len(order) : order[i] = k
<1> DEFINE lru == s.lru_order
           n == Len(lru)
           R == {lru[i] : i \in 1..n}
           D == Due(s, t)
           c == Cardinality(D)
<1>1. lru \in Seq(Keys) /\ n \in Nat /\ Covers(lru, s.store)
  BY DEF StateOK, LruOK
<1>2. D \in SUBSET R /\ D \in SUBSET Keys
  BY <1>1 DEF Due, Covers
<1>3. IsFiniteSet(R)
  <2> DEFINE f == [i \in 1..n |-> lru[i]]
  <2>1. IsFiniteSet(1..n)
    BY <1>1, FS_Interval
  <2>2. f \in [1..n -> R] /\ \A k \in R : \E i \in 1..n : f[i] = k
    OBVIOUS
  <2> HIDE DEF f, R
  <2>3. f \in Surjection(1..n, R)
    BY <2>2 DEF Surjection
  <2> QED BY <2>1, <2>3, FS_Surjection
<1>4. IsFiniteSet(D) /\ c \in Nat
  BY <1>2, <1>3, FS_Subset, FS_CardinalityType
<1> HIDE DEF D, R
<1>5. order \in [1..c -> D] /\ \A i, j \in 1..c : order[i] = order[j] => i = j
  BY DEF DueOrders, D
<1> HIDE DEF c
<1>6. order \in Seq(Keys) /\ Len(order) = c
  <2>1. order \in [1..c -> Keys]
    BY <1>2, <1>5
  <2> QED BY <1>4, <2>1, FunctionIsSeq
<1>7. order \in Surjection(1..c, D)
  <2>1. order \in Injection(1..c, D)
    BY <1>5 DEF Injection, IsInjective
  <2>2. Cardinality(1..c) = c
    BY <1>4, FS_Interval
  <2> QED BY <1>4, <2>1, <2>2, FS_Injection DEF c
<1> QED BY <1>6, <1>7 DEF Surjection, D

\* The sweep.
LEMMA CleanupOK ==
    ASSUME NEW s, StateOK(s), NEW t \in Nat, NEW order \in Seq(Keys)
    PROVE  StateOK(cleanup_expired(s, t, order))
<1> DEFINE u == cleanup_expired(s, t, order)
<1>1. /\ IsKv(u)
      /\ u.store = [k \in Keys |-> IF k \in Due(s, t) THEN None ELSE s.store[k]]
      /\ u.memory_bytes = s.memory_bytes
      /\ u.total_writes = s.total_writes
      /\ u.lru_order = s.lru_order
      /\ u.transaction_queue = s.transaction_queue
      /\ u.events = IF s.notify THEN s.events \o Announcing("expired", order) ELSE s.events
      /\ u.notify = s.notify
  BY DEF cleanup_expired, StateOK, IsKv, Announcing
<1> HIDE DEF u
<1>2. u.store \in [Keys -> Entry \cup {None}]
  BY <1>1 DEF StateOK
<1>3. \A k \in Keys : u.store[k] # None => s.store[k] # None
  BY <1>1
<1>4. u.events \in Seq(KeyspaceEvent)
  <2>1. s.events \in Seq(KeyspaceEvent)
    BY DEF StateOK
  <2>2. s.events \o Announcing("expired", order) \in Seq(KeyspaceEvent)
    BY <2>1, AnnouncingOK, ConcatOK
  <2> QED BY <1>1, <2>1, <2>2
<1>5. StateOK(u)
  BY <1>1, <1>2, <1>3, <1>4, ReplaceOK
<1> QED BY <1>5 DEF u

\* Steps that only open or close a transaction, or touch events or settings.
LEMMA FrameOK ==
    ASSUME NEW s, StateOK(s), NEW t, IsKv(t),
           t.store = s.store, t.memory_bytes = s.memory_bytes,
           t.total_writes = s.total_writes, t.lru_order = s.lru_order,
           t.transaction_queue \in Seq(TransactionOp) \cup {None},
           t.events \in Seq(KeyspaceEvent), t.notify \in BOOLEAN
    PROVE  StateOK(t)
  BY DEF StateOK

\* What stands on the queue.
LEMMA QueuedOp ==
    ASSUME NEW queue \in Seq(TransactionOp), NEW i \in 1..Len(queue)
    PROVE  queue[i].key \in Keys /\ (queue[i].op = "Set" => queue[i].entry \in Entry)
<1>1. queue[i] \in TransactionOp
  OBVIOUS
<1> QED BY <1>1 DEF TransactionOp

\* The sequence f meets every member of S.
Meets(f, S) == \A x \in S : \E i \in 1..Len(f) : f[i] = x

\* An ascending listing of a set of positions is a sequence that meets every
\* position once.
LEMMA AscendingIsListing ==
    ASSUME NEW len \in Nat, NEW S, S \subseteq 1..len, NEW f, f \in Ascending(S)
    PROVE  /\ f \in Seq(S)
           /\ \A i, j \in 1..Len(f) : f[i] = f[j] => i = j
           /\ Meets(f, S)
<1> DEFINE c == Cardinality(S)
<1>1. c \in Nat
  BY PositionsFinite
<1> HIDE DEF c
<1>2. /\ f \in [1..c -> S]
      /\ \A i, j \in 1..c : i < j => f[i] < f[j]
      /\ \A x \in S : \E i \in 1..c : f[i] = x
  BY DEF Ascending, c
<1>3. f \in Seq(S) /\ Len(f) = c
  BY <1>1, <1>2
<1>4. ASSUME NEW i \in 1..c, NEW j \in 1..c, f[i] = f[j]
      PROVE  i = j
  <2>1. f[i] \in S /\ f[j] \in S
    BY <1>2
  <2>0. \A x \in 1..len : x \in Int
    OBVIOUS
  <2>3. f[i] \in Int /\ f[j] \in Int
    BY <2>0, <2>1
  <2>2. ~(i < j) /\ ~(j < i)
    BY <1>2, <1>4, <2>3
  <2> QED BY <1>1, <2>2
<1> QED BY <1>2, <1>3, <1>4 DEF Meets

\* The keys of the queue's last Sets, listed in order.
LEMMA MovedKeys ==
    ASSUME NEW queue \in Seq(TransactionOp), NEW moved \in Ascending(LastSets(queue))
    PROVE  LET back == [i \in 1..Len(moved) |-> queue[moved[i]].key]
           IN  /\ \A i, j \in 1..Len(moved) : moved[i] = moved[j] => i = j
               /\ Meets(moved, LastSets(queue))
               /\ \A i \in 1..Len(moved) : moved[i] \in LastSets(queue)
               /\ back \in Seq(Keys) /\ Len(back) = Len(moved)
               /\ \A i \in 1..Len(moved) : back[i] = queue[moved[i]].key
<1> DEFINE S == LastSets(queue)
           back == [i \in 1..Len(moved) |-> queue[moved[i]].key]
<1>1. S \in SUBSET (1..Len(queue)) /\ Len(queue) \in Nat /\ moved \in Ascending(S)
  BY DEF LastSets
<1>2. \A i \in S : queue[i].key \in Keys
  BY <1>1 DEF TransactionOp
<1> DEFINE len == Len(queue)
<1>0. S \in SUBSET (1..len) /\ len \in Nat /\ moved \in Ascending(S)
  BY <1>1
<1> HIDE DEF S, len
<1>3. /\ moved \in Seq(S)
      /\ \A i, j \in 1..Len(moved) : moved[i] = moved[j] => i = j
      /\ Meets(moved, S)
  BY <1>0, AscendingIsListing
<1>4. Len(moved) \in Nat /\ \A i \in 1..Len(moved) : moved[i] \in S
  BY <1>3
<1>5. back \in [1..Len(moved) -> Keys]
  BY <1>2, <1>4
<1>6. back \in Seq(Keys) /\ Len(back) = Len(moved)
  BY <1>4, <1>5, FunctionIsSeq
<1> QED BY <1>3, <1>4, <1>6 DEF S

\* The LRU vector exec leaves behind: the keys no Set moved, then the set keys
\* in the order of their last Set.
LEMMA ExecLru ==
    ASSUME NEW s, StateOK(s), in_transaction(s),
           NEW last \in [Keys -> 0..Len(s.transaction_queue)],
           \A k \in Keys : IsLastOp(s.transaction_queue, k, last[k]),
           NEW kept \in Ascending(Unmoved(s)),
           NEW moved \in Ascending(LastSets(s.transaction_queue))
    PROVE  LET t == exec(s, last, kept, moved)
           IN  /\ IsKv(t)
               /\ t.store \in [Keys -> Entry \cup {None}]
               /\ LruOK(t.lru_order, t.store)
<1> DEFINE lru == s.lru_order
           queue == s.transaction_queue
           t == exec(s, last, kept, moved)
           after(k) == IF last[k] = 0 THEN s.store[k]
                       ELSE IF queue[last[k]].op = "Set" THEN queue[last[k]].entry
                       ELSE None
           front == [i \in 1..Len(kept) |-> lru[kept[i]]]
           back == [i \in 1..Len(moved) |-> queue[moved[i]].key]
<1>1. /\ lru \in Seq(Keys) /\ NoRepeat(lru) /\ Covers(lru, s.store)
      /\ queue \in Seq(TransactionOp)
      /\ s.store \in [Keys -> Entry \cup {None}]
  BY DEF StateOK, LruOK, in_transaction
<1>2. /\ IsKv(t)
      /\ t.store = [k \in Keys |-> after(k)]
      /\ t.lru_order = front \o back
  BY DEF exec, StateOK, IsKv
<1>3. \A i \in 1..Len(queue) : /\ queue[i].key \in Keys
                               /\ queue[i].op = "Set" => queue[i].entry \in Entry
  BY <1>1 DEF TransactionOp
<1>4. t.store \in [Keys -> Entry \cup {None}]
  <2>1. ASSUME NEW k \in Keys
        PROVE  after(k) \in Entry \cup {None}
    <3>1. CASE last[k] = 0
      BY <1>1, <3>1
    <3>2. CASE last[k] # 0
      <4>1. PICK i \in 1..Len(queue) : last[k] = i
        BY <1>1, <3>2
      <4>2. queue[i].op = "Set" => queue[i].entry \in Entry
        <5>1. queue \in Seq(TransactionOp)
          BY <1>1
        <5> HIDE DEF queue
        <5> QED BY <5>1, QueuedOp
      <4> QED BY <3>2, <4>1, <4>2
    <3> QED BY <3>1, <3>2
  <2> HIDE DEF after, t
  <2> QED BY <1>2, <2>1
<1> HIDE DEF t
<1>5. /\ kept \in Seq(Unmoved(s))
      /\ \A i, j \in 1..Len(kept) : kept[i] = kept[j] => i = j
      /\ Meets(kept, Unmoved(s))
      /\ Unmoved(s) \subseteq 1..Len(lru)
  <2>1. Unmoved(s) \in SUBSET (1..Len(lru)) /\ Len(lru) \in Nat
    BY <1>1 DEF Unmoved
  <2> QED BY <2>1, AscendingIsListing
<1>6. LastSets(queue) \subseteq 1..Len(queue)
  BY DEF LastSets
<1>7. /\ front \in Seq(Keys) /\ Len(front) = Len(kept)
      /\ \A i \in 1..Len(kept) : front[i] = lru[kept[i]] /\ kept[i] \in Unmoved(s)
  <2>1. Len(kept) \in Nat /\ \A i \in 1..Len(kept) : kept[i] \in Unmoved(s)
    BY <1>5
  <2>2. \A p \in 1..Len(lru) : lru[p] \in Keys
    BY <1>1
  <2>3. \A i \in 1..Len(kept) : lru[kept[i]] \in Keys
    BY <1>5, <2>1, <2>2
  <2>4. front \in [1..Len(kept) -> Keys]
    BY <2>3
  <2>5. front \in Seq(Keys) /\ Len(front) = Len(kept)
    BY <2>1, <2>4, FunctionIsSeq
  <2> QED BY <2>1, <2>5
<1>8. /\ \A i, j \in 1..Len(moved) : moved[i] = moved[j] => i = j
      /\ Meets(moved, LastSets(queue))
      /\ \A i \in 1..Len(moved) : moved[i] \in LastSets(queue)
      /\ back \in Seq(Keys) /\ Len(back) = Len(moved)
      /\ \A i \in 1..Len(moved) : back[i] = queue[moved[i]].key
  <2>1. queue \in Seq(TransactionOp) /\ moved \in Ascending(LastSets(queue))
    BY <1>1
  <2> HIDE DEF queue
  <2> QED BY <2>1, MovedKeys
<1> HIDE DEF front, back
<1>9. \A i, j \in 1..Len(front) : front[i] = front[j] => i = j
  <2> SUFFICES ASSUME NEW i \in 1..Len(front), NEW j \in 1..Len(front), front[i] = front[j]
               PROVE  i = j
    OBVIOUS
  <2>1. /\ i \in 1..Len(kept) /\ j \in 1..Len(kept)
        /\ lru[kept[i]] = lru[kept[j]]
        /\ kept[i] \in Unmoved(s) /\ kept[j] \in Unmoved(s)
    BY <1>7
  <2>2. kept[i] \in 1..Len(lru) /\ kept[j] \in 1..Len(lru)
    BY <1>5, <2>1
  <2>3. kept[i] = kept[j]
    BY <1>1, <2>1, <2>2 DEF NoRepeat
  <2> QED BY <1>5, <2>1, <2>3
<1>10. \A i, j \in 1..Len(back) : back[i] = back[j] => i = j
  <2> SUFFICES ASSUME NEW i \in 1..Len(back), NEW j \in 1..Len(back), back[i] = back[j]
               PROVE  i = j
    OBVIOUS
  <2>1. /\ moved[i] \in LastSets(queue) /\ moved[j] \in LastSets(queue)
        /\ queue[moved[i]].key = queue[moved[j]].key
    BY <1>8
  <2>0. \A x \in 1..Len(queue) : x \in Int
    OBVIOUS
  <2>2. moved[i] \in Int /\ moved[j] \in Int
    BY <1>6, <2>0, <2>1
  <2>3. moved[i] <= moved[j] /\ moved[j] <= moved[i]
    BY <2>1 DEF LastSets
  <2> QED BY <1>8, <2>2, <2>3
<1>11. \A i \in 1..Len(front), j \in 1..Len(back) : front[i] # back[j]
  <2> SUFFICES ASSUME NEW i \in 1..Len(front), NEW j \in 1..Len(back)
               PROVE  front[i] # back[j]
    OBVIOUS
  <2>1. moved[j] \in Sets(queue)
    BY <1>8 DEF LastSets, Sets
  <2>2. kept[i] \in Unmoved(s) /\ front[i] = lru[kept[i]] /\ back[j] = queue[moved[j]].key
    BY <1>7, <1>8
  <2> QED BY <2>1, <2>2 DEF Unmoved
<1>12. /\ front \o back \in Seq(Keys)
       /\ Len(front \o back) = Len(front) + Len(back)
       /\ \A i \in 1..Len(front) : (front \o back)[i] = front[i]
       /\ \A i \in 1..Len(back) : (front \o back)[Len(front) + i] = back[i]
  <2>1. front \in Seq(Keys) /\ back \in Seq(Keys)
    BY <1>7, <1>8
  <2> QED BY <2>1, ConcatOK
<1> DEFINE whole == front \o back
<1> HIDE DEF whole
<1>13. NoRepeat(whole)
  <2> SUFFICES ASSUME NEW i \in 1..Len(whole), NEW j \in 1..Len(whole), whole[i] = whole[j]
               PROVE  i = j
    BY DEF NoRepeat
  <2>1. Len(front) \in Nat /\ Len(back) \in Nat
    BY <1>7, <1>8
  <2>2. ASSUME NEW x \in 1..Len(whole)
        PROVE  \/ x \in 1..Len(front) /\ whole[x] = front[x]
               \/ \E y \in 1..Len(back) : x = Len(front) + y /\ whole[x] = back[y]
    <3>1. CASE x <= Len(front)
      BY <3>1, <2>1, <1>12 DEF whole
    <3>2. CASE x > Len(front)
      <4>0. Len(whole) = Len(front) + Len(back)
        BY <1>12 DEF whole
      <4>1. x - Len(front) \in 1..Len(back) /\ x = Len(front) + (x - Len(front))
        BY <3>2, <4>0, <2>1
      <4> QED BY <4>1, <1>12 DEF whole
    <3>3. x <= Len(front) \/ x > Len(front)
      <4>1. Len(whole) = Len(front) + Len(back)
        BY <1>12 DEF whole
      <4> QED BY <4>1, <2>1
    <3> QED BY <3>1, <3>2, <3>3
  <2>3. CASE i \in 1..Len(front) /\ whole[i] = front[i]
    BY <2>2, <2>3, <1>9, <1>11
  <2>4. CASE \E y \in 1..Len(back) : i = Len(front) + y /\ whole[i] = back[y]
    BY <2>2, <2>4, <1>10, <1>11
  <2> QED BY <2>2, <2>3, <2>4
<1>14. ASSUME NEW k \in Keys, t.store[k] # None
       PROVE  \E i \in 1..Len(whole) : whole[i] = k
  <2>1. IsLastOp(queue, k, last[k]) /\ last[k] \in 0..Len(queue)
    OBVIOUS
  <2>2. after(k) # None
    BY <1>2, <1>14
  <2>3. CASE last[k] = 0
    <3>1. PICK p \in 1..Len(lru) : lru[p] = k
      BY <1>1, <2>2, <2>3 DEF Covers
    <3>2. \A i \in 1..Len(queue) : queue[i].key # k
      BY <1>1, <2>1, <2>3 DEF IsLastOp
    <3>3. p \in Unmoved(s)
      BY <3>1, <3>2 DEF Unmoved, Sets
    <3>4. PICK i \in 1..Len(kept) : kept[i] = p
      BY <1>5, <3>3 DEF Meets
    <3>5. i \in 1..Len(front) /\ i \in 1..Len(whole) /\ whole[i] = k
      BY <1>7, <1>8, <1>12, <3>1, <3>4 DEF whole
    <3> QED BY <3>5
  <2>4. CASE last[k] # 0
    <3>1. queue[last[k]].op = "Set" /\ queue[last[k]].key = k /\ last[k] \in 1..Len(queue)
      BY <1>1, <2>1, <2>2, <2>4 DEF IsLastOp
    <3>2. last[k] \in LastSets(queue)
      BY <2>1, <3>1 DEF IsLastOp, LastSets
    <3>3. PICK i \in 1..Len(moved) : moved[i] = last[k]
      BY <1>8, <3>2 DEF Meets
    <3>4. i \in 1..Len(back) /\ back[i] = k
      BY <1>8, <3>1, <3>3
    <3>5. Len(front) + i \in 1..Len(whole) /\ whole[Len(front) + i] = k
      BY <1>7, <1>8, <1>12, <3>4 DEF whole
    <3> QED BY <3>5
  <2> QED BY <2>3, <2>4
<1>15. LruOK(t.lru_order, t.store)
  <2>1. whole \in Seq(Keys)
    BY <1>12 DEF whole
  <2>2. t.lru_order = whole
    BY <1>2 DEF whole
  <2> QED BY <1>13, <1>14, <2>1, <2>2 DEF LruOK, Covers
<1> QED BY <1>2, <1>4, <1>15 DEF t

\* exec keeps a value of the struct well formed.
LEMMA ExecOK ==
    ASSUME NEW s, StateOK(s), in_transaction(s), NEW t \in ExecResults(s)
    PROVE  StateOK(t)
<1>1. PICK last \in [Keys -> 0..Len(s.transaction_queue)],
           kept \in Ascending(Unmoved(s)), moved \in Ascending(LastSets(s.transaction_queue)) :
             /\ \A k \in Keys : IsLastOp(s.transaction_queue, k, last[k])
             /\ t = exec(s, last, kept, moved)
  BY DEF ExecResults
<1>2. IsKv(t) /\ t.store \in [Keys -> Entry \cup {None}] /\ LruOK(t.lru_order, t.store)
  BY <1>1, ExecLru
<1>3. /\ t.memory_bytes = s.memory_bytes
      /\ t.total_writes = s.total_writes + Cardinality(Sets(s.transaction_queue))
      /\ t.transaction_queue = None
      /\ t.events = s.events /\ t.notify = s.notify
  BY <1>1 DEF exec, StateOK, IsKv
<1>4. Cardinality(Sets(s.transaction_queue)) \in Nat
  <2>1. Len(s.transaction_queue) \in Nat
    BY DEF StateOK, in_transaction
  <2>2. Sets(s.transaction_queue) \in SUBSET (1..Len(s.transaction_queue))
    BY DEF Sets
  <2> QED BY <2>1, <2>2, PositionsFinite
<1>5. t.total_writes \in Nat /\ t.memory_bytes \in Nat /\ t.notify \in BOOLEAN
  BY <1>3, <1>4 DEF StateOK
<1> QED BY <1>2, <1>3, <1>5 DEF StateOK

\* Whether j is the last of the first n operations that is on k, 0 for none.
LastAmong(queue, n, k, j) ==
    /\ j \in 0..n
    /\ j # 0 => queue[j].key = k
    /\ \A i \in 1..n : queue[i].key = k => i <= j

\* The last operation on a key is there, and there is one.
LEMMA LastOpOK ==
    ASSUME NEW queue, NEW n \in Nat, n = Len(queue), NEW k, NEW j, LastAmong(queue, n, k, j)
    PROVE  /\ j \in 0..Len(queue) /\ IsLastOp(queue, k, j)
           /\ \A i \in 0..Len(queue) : IsLastOp(queue, k, i) => i = j
<1>1. j \in 0..Len(queue) /\ IsLastOp(queue, k, j)
  BY DEF LastAmong, IsLastOp
<1>2. ASSUME NEW i \in 0..Len(queue), IsLastOp(queue, k, i)
      PROVE  i = j
  <2>1. j # 0 => j \in 1..n /\ queue[j].key = k
    BY DEF LastAmong
  <2>2. i # 0 => i \in 1..n /\ queue[i].key = k
    BY <1>2 DEF IsLastOp
  <2>3. j # 0 => j <= i
    BY <1>2, <2>1 DEF IsLastOp
  <2>4. i # 0 => i <= j
    BY <2>2 DEF LastAmong
  <2> QED BY <1>1, <2>3, <2>4
<1> QED BY <1>1, <1>2

-----------------------------------------------------------------------------
(* Lists, hashes, sketches *)

\* Updating or creating a value of one type; any other type is refused.
LEMMA UpsertOK ==
    ASSUME NEW s, StateOK(s), NEW k \in Keys, NEW type, NEW changed, NEW initial,
           [type |-> type, data |-> changed] \in Value,
           [type |-> type, data |-> initial] \in Value
    PROVE  /\ StateOK(Upsert(s, k, type, changed, initial))
           /\ InPlace(s, Upsert(s, k, type, changed, initial))
<1>1. CASE s.store[k] = None
  BY <1>1, CreateOK DEF Upsert
<1>2. CASE s.store[k] # None /\ Has(s, k, type)
  BY <1>2, UpdateOK DEF Upsert
<1>3. CASE s.store[k] # None /\ ~Has(s, k, type)
  BY <1>3 DEF Upsert, InPlace
<1> QED BY <1>1, <1>2, <1>3

\* The contents of a key by type, with what stands for an absent one.
LEMMA ContentsType ==
    ASSUME NEW s, StateOK(s), NEW k \in Keys
    PROVE  /\ ListOf(s, k) \in Seq(Char)
           /\ HashOf(s, k) \in [Fields -> FieldText \cup {None}]
           /\ SketchOf(s, k) \in Sketch
<1>1. ListOf(s, k) \in Seq(Char)
  <2>1. CASE Has(s, k, "List")
    BY <2>1, StoredEntry, DataType DEF ListOf, Has
  <2>2. CASE ~Has(s, k, "List")
    BY <2>2 DEF ListOf
  <2> QED BY <2>1, <2>2
<1>2. HashOf(s, k) \in [Fields -> FieldText \cup {None}]
  <2>1. CASE Has(s, k, "Hash")
    <3>1. s.store[k].value.data \in [Fields -> FieldText \cup {None}]
      BY <2>1, StoredEntry, DataType DEF Has
    <3> QED BY <2>1, <3>1 DEF HashOf
  <2>2. CASE ~Has(s, k, "Hash")
    BY <2>2 DEF HashOf, NoFields
  <2> QED BY <2>1, <2>2
<1>3. SketchOf(s, k) \in Sketch
  <2>1. CASE Has(s, k, "HyperLogLog")
    BY <2>1, StoredEntry, DataType DEF SketchOf, Has
  <2>2. CASE ~Has(s, k, "HyperLogLog")
    BY <2>2 DEF SketchOf, NewSketch, Sketch, DEFAULT_PRECISION
  <2> QED BY <2>1, <2>2
<1> QED BY <1>1, <1>2, <1>3

\* The list operations.
LEMMA ListOK ==
    ASSUME NEW s, StateOK(s), NEW k \in Keys, NEW items \in Seq(Char)
    PROVE  /\ StateOK(lpush(s, k, items)) /\ StateOK(rpush(s, k, items))
           /\ StateOK(lpop(s, k)) /\ StateOK(rpop(s, k))
           /\ InPlace(s, lpush(s, k, items)) /\ InPlace(s, rpush(s, k, items))
           /\ InPlace(s, lpop(s, k)) /\ InPlace(s, rpop(s, k))
<1> DEFINE l == ListOf(s, k)
           r == Reverse(items)
<1>1. l \in Seq(Char)
  BY ContentsType
<1>2. r \in Seq(Char)
  BY DEF Reverse
<1>3. l # <<>> => s.store[k] # None
  BY DEF ListOf, Has
<1> HIDE DEF l, r
<1>4. r \o l \in Seq(Char) /\ l \o items \in Seq(Char)
  BY <1>1, <1>2
<1>5. StateOK(lpush(s, k, items)) /\ InPlace(s, lpush(s, k, items))
  <2>1. [type |-> "List", data |-> r \o l] \in Value /\ [type |-> "List", data |-> r] \in Value
    BY <1>2, <1>4, ValueType
  <2> QED BY <2>1, UpsertOK DEF lpush, l, r
<1>6. StateOK(rpush(s, k, items)) /\ InPlace(s, rpush(s, k, items))
  <2>1. /\ [type |-> "List", data |-> l \o items] \in Value
        /\ [type |-> "List", data |-> items] \in Value
    BY <1>4, ValueType
  <2> QED BY <2>1, UpsertOK DEF rpush, l
<1>7. CASE l = <<>>
  BY <1>5, <1>6, <1>7 DEF lpop, rpop, l, InPlace
<1>8. CASE l # <<>>
  <2>1. Tail(l) \in Seq(Char) /\ Front(l) \in Seq(Char)
    BY <1>1, <1>8 DEF Front
  <2>2. /\ [type |-> "List", data |-> Tail(l)] \in Value
        /\ [type |-> "List", data |-> Front(l)] \in Value
    BY <2>1, ValueType
  <2>3. StateOK(lpop(s, k)) /\ InPlace(s, lpop(s, k))
    BY <1>3, <1>8, <2>2, UpdateOK DEF lpop, l
  <2>4. StateOK(rpop(s, k)) /\ InPlace(s, rpop(s, k))
    BY <1>3, <1>8, <2>2, UpdateOK DEF rpop, l
  <2> QED BY <1>5, <1>6, <2>3, <2>4
<1> QED BY <1>7, <1>8

\* Setting a field of a hash.
LEMMA HsetOK ==
    ASSUME NEW s, StateOK(s), NEW k \in Keys, NEW f \in Fields,
           NEW text \in FieldText \cup {None}
    PROVE  StateOK(hset(s, k, f, text)) /\ InPlace(s, hset(s, k, f, text))
<1> DEFINE h == [HashOf(s, k) EXCEPT ![f] = text]
<1>1. h \in [Fields -> FieldText \cup {None}]
  BY ContentsType
<1> HIDE DEF h
<1>2. [type |-> "Hash", data |-> h] \in Value
  BY <1>1, ValueType
<1> QED BY <1>2, UpsertOK DEF hset, h

\* Removing a field of a hash.
LEMMA HdelOK ==
    ASSUME NEW s, StateOK(s), NEW k \in Keys, NEW f \in Fields
    PROVE  StateOK(hdel(s, k, f)) /\ InPlace(s, hdel(s, k, f))
<1>1. CASE ~Has(s, k, "Hash")
  BY <1>1 DEF hdel, InPlace
<1>2. CASE Has(s, k, "Hash")
  <2> DEFINE h == [HashOf(s, k) EXCEPT ![f] = None]
             e == [value |-> [type |-> "Hash", data |-> h], expires_at |-> s.store[k].expires_at]
             w == Write(s, k, e)
             t == hdel(s, k, f)
  <2>1. h \in [Fields -> FieldText \cup {None}]
    BY ContentsType
  <2> HIDE DEF h
  <2>2. e \in Entry
    BY <1>2, <2>1, ValueType, EntryType, StoredEntry DEF Has
  <2>2a. e.expires_at = s.store[k].expires_at
    OBVIOUS
  <2> HIDE DEF e
  <2>3. StateOK(w)
    BY <2>2, WriteOK
  <2>3a. w.store[k] = e /\ e # None /\ \A j \in Keys : j # k => w.store[j] = s.store[j]
    BY <2>2, WrittenStore
  <2>4. /\ IsKv(t)
        /\ t.store = w.store
        /\ t.memory_bytes = w.memory_bytes
        /\ t.total_writes \in {s.total_writes, s.total_writes + 1}
        /\ t.lru_order = w.lru_order
        /\ t.transaction_queue = w.transaction_queue
        /\ t.events = w.events /\ t.notify = w.notify
    BY <1>2 DEF hdel, Write, StateOK, IsKv, e, h
  <2> HIDE DEF t, w
  <2>5. t.total_writes \in Nat
    BY <2>4 DEF StateOK
  <2>6. StateOK(t)
    BY <2>3, <2>4, <2>5 DEF StateOK
  <2>7. InPlace(s, t)
    BY <2>2a, <2>3a, <2>4 DEF InPlace
  <2> QED BY <2>6, <2>7 DEF t
<1> QED BY <1>1, <1>2

\* Counting in a field of a hash, in whole numbers and in halves.
LEMMA HincrOK ==
    ASSUME NEW s, StateOK(s), NEW k \in Keys, NEW f \in Fields, NEW amount \in Int
    PROVE  /\ StateOK(hincrby(s, k, f, amount)) /\ InPlace(s, hincrby(s, k, f, amount))
           /\ StateOK(hincrbyfloat(s, k, f, amount)) /\ InPlace(s, hincrbyfloat(s, k, f, amount))
<1> DEFINE text == HashOf(s, k)[f]
           i == Current(s, k, f, parse_i64)
           h == Current(s, k, f, parse_f64)
<1>1. text \in FieldText \cup {None}
  BY ContentsType
<1>2. \A t \in FieldText : parse_i64(t) \in Int /\ parse_f64(t) \in Int
  BY BoundsAssumption DEF FieldText, parse_i64, parse_f64, I64
<1>3. i \in Int /\ h \in Int
  BY <1>1, <1>2 DEF Current
<1> HIDE DEF i, h
<1>4. wrap(i + amount) \in I64
  BY <1>3, WrapType
<1>5. 2 * wrap(i + amount) \in Int
  BY <1>4, BoundsAssumption DEF I64
<1>6. 2 * wrap(i + amount) \in FieldText /\ h + amount \in FieldText
  BY <1>3, <1>5 DEF FieldText
<1>7. /\ StateOK(hset(s, k, f, 2 * wrap(i + amount))) /\ StateOK(hset(s, k, f, h + amount))
      /\ InPlace(s, hset(s, k, f, 2 * wrap(i + amount))) /\ InPlace(s, hset(s, k, f, h + amount))
  BY <1>6, HsetOK
<1> QED BY <1>7 DEF hincrby, hincrbyfloat, i, h

\* The sketch operations.
LEMMA SketchOK ==
    ASSUME NEW s, StateOK(s), NEW k \in Keys, NEW items \in SUBSET Char, NEW precision \in Nat
    PROVE  /\ StateOK(pfreserve(s, k, precision)) /\ InPlace(s, pfreserve(s, k, precision))
           /\ StateOK(pfadd(s, k, items)) /\ InPlace(s, pfadd(s, k, items))
<1>1. StateOK(pfreserve(s, k, precision)) /\ InPlace(s, pfreserve(s, k, precision))
  <2>1. NewSketch(precision) \in Sketch
    BY DEF NewSketch, Sketch
  <2>2. [type |-> "HyperLogLog", data |-> NewSketch(precision)] \in Value
    BY <2>1, ValueType
  <2> QED BY <2>2, CreateOK DEF pfreserve, InPlace
<1>2. StateOK(pfadd(s, k, items)) /\ InPlace(s, pfadd(s, k, items))
  <2> DEFINE h == [SketchOf(s, k) EXCEPT !.seen = @ \cup items]
  <2>1. h \in Sketch
    BY ContentsType DEF Sketch
  <2> HIDE DEF h
  <2>2. [type |-> "HyperLogLog", data |-> h] \in Value
    BY <2>1, ValueType
  <2>3. /\ StateOK(Upsert(s, k, "HyperLogLog", h, h))
        /\ InPlace(s, Upsert(s, k, "HyperLogLog", h, h))
    BY <2>2, UpsertOK
  <2>4. pfadd(s, k, items) \in {s, Upsert(s, k, "HyperLogLog", h, h)}
    BY DEF pfadd, h
  <2>5. InPlace(s, s)
    BY DEF InPlace
  <2> QED BY <2>3, <2>4, <2>5
<1> QED BY <1>1, <1>2

\* pfmerge writes its destination only.
LEMMA PfMergeOK ==
    ASSUME NEW s, StateOK(s), NEW k \in Keys, NEW src \in Keys
    PROVE  /\ StateOK(pfmerge(s, k, src))
           /\ \A j \in Keys : /\ j # k => pfmerge(s, k, src).store[j] = s.store[j]
                              /\ s.store[j] # None => pfmerge(s, k, src).store[j] # None
<1> DEFINE merges == k # src /\ s.store[src] # None
           h == IF merges THEN [SketchOf(s, k) EXCEPT !.seen = @ \cup SketchOf(s, src).seen]
                ELSE SketchOf(s, k)
           v == [type |-> "HyperLogLog", data |-> h]
           e == [value |-> v, expires_at |-> None]
<1>1. SketchOf(s, k) \in Sketch /\ SketchOf(s, src) \in Sketch
  BY ContentsType
<1>2. h \in Sketch
  BY <1>1 DEF Sketch
<1> HIDE DEF h
<1>3. v \in Value
  BY <1>2, ValueType
<1> HIDE DEF v
<1>4. e \in Entry
  BY <1>3, EntryType
<1> HIDE DEF e
<1>5. StateOK(Create(s, k, v)) /\ StateOK(Write(s, k, e))
  BY <1>3, <1>4, CreateOK, WriteOK
<1>6. pfmerge(s, k, src) \in {s, Create(s, k, v), Write(s, k, e)}
  BY DEF pfmerge, e, v, h
<1>7. /\ Write(s, k, e).store[k] # None
      /\ \A j \in Keys : j # k => Write(s, k, e).store[j] = s.store[j]
  BY <1>4, WrittenStore
<1>8. Create(s, k, v).store = Write(s, k, e).store
  <2>1. Create(s, k, v) = [Write(s, k, e) EXCEPT !.memory_bytes = @ + estimate_value_size(v)]
    BY DEF Create, e
  <2>2. IsKv(Write(s, k, e))
    BY <1>5 DEF StateOK
  <2> QED BY <2>1, <2>2 DEF IsKv
<1> QED BY <1>5, <1>6, <1>7, <1>8
=============================================================================
