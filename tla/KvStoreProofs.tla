--------------------------- MODULE KvStoreProofs ----------------------------
(***************************************************************************)
(* Proofs about KvStore, for every set of keys, every input and every      *)
(* bound: type correctness, the link between the map and the LRU vector,   *)
(* the memory limit after a set, exec as the loop over its queue, and what *)
(* a step may do to an expiry time, which keys the eviction loop takes and *)
(* when it stops, what is announced, and what lrange answers.              *)
(***************************************************************************)
EXTENDS KvStore, StoreProofs

-----------------------------------------------------------------------------
(* The loop of exec and its net effect *)

\* The tape the LRU order comes from: the places of lru_order, then those of
\* the queue, with the key at each.
KeyAt(lru, queue, r) == IF r <= Len(lru) THEN lru[r] ELSE queue[r - Len(lru)].key

SetAt(lru, queue, r) == r > Len(lru) /\ queue[r - Len(lru)].op = "Set"

\* The places that decide about the order after n operations: a place of
\* lru_order or a Set, with no later Set of its key.
Slots(lru, queue, n) ==
    {r \in 1..(Len(lru) + n) :
        /\ r <= Len(lru) \/ SetAt(lru, queue, r)
        /\ \A q \in 1..(Len(lru) + n) :
              SetAt(lru, queue, q) /\ KeyAt(lru, queue, q) = KeyAt(lru, queue, r) => q <= r}

\* L is the order after n operations: the keys of these places, in their order.
InOrder(L, lru, queue, n) ==
    /\ L \in Seq(Keys)
    /\ \E g : /\ IsListing(g, Len(L), Slots(lru, queue, n))
              /\ \A i \in 1..Len(L) : L[i] = KeyAt(lru, queue, g[i])

\* Two such places have two keys.
LEMMA SlotsDistinct ==
    ASSUME NEW lru \in Seq(Keys), NoRepeat(lru), NEW queue, NEW n \in Nat,
           NEW r \in Slots(lru, queue, n), NEW q \in Slots(lru, queue, n),
           KeyAt(lru, queue, r) = KeyAt(lru, queue, q)
    PROVE  r = q
<1>1. PICK m \in Nat : m = Len(lru)
  OBVIOUS
<1>2. r \in 1..(m + n) /\ q \in 1..(m + n)
  BY <1>1 DEF Slots
<1>3. CASE r <= m /\ q <= m
  <2>1. lru[r] = lru[q] /\ r \in 1..Len(lru) /\ q \in 1..Len(lru)
    BY <1>1, <1>2, <1>3 DEF KeyAt
  <2> QED BY <2>1 DEF NoRepeat
<1>4. CASE r > m
  <2>1. SetAt(lru, queue, r)
    BY <1>1, <1>2, <1>4 DEF Slots
  <2>2. r <= q
    BY <1>1, <1>2, <2>1 DEF Slots
  <2>3. q > m
    BY <1>2, <1>4, <2>2
  <2>4. SetAt(lru, queue, q)
    BY <1>1, <1>2, <2>3 DEF Slots
  <2>5. q <= r
    BY <1>1, <1>2, <2>4 DEF Slots
  <2> QED BY <1>2, <2>2, <2>5
<1>5. CASE q > m
  <2>1. SetAt(lru, queue, q)
    BY <1>1, <1>2, <1>5 DEF Slots
  <2>2. q <= r
    BY <1>1, <1>2, <2>1 DEF Slots
  <2>3. r > m
    BY <1>2, <1>5, <2>2
  <2> QED BY <1>4, <2>3
<1> QED BY <1>2, <1>3, <1>4, <1>5

\* What the next operation does to these places: a Set takes the place of its
\* key and adds its own, a Delete does nothing.
LEMMA SlotsAfter ==
    ASSUME NEW lru \in Seq(Keys), NEW queue \in Seq(TransactionOp), NEW n \in Nat, n < Len(queue)
    PROVE  /\ queue[n + 1].op = "Set" =>
                Slots(lru, queue, n + 1) =
                    {r \in Slots(lru, queue, n) : KeyAt(lru, queue, r) # queue[n + 1].key}
                    \cup {Len(lru) + n + 1}
           /\ queue[n + 1].op # "Set" => Slots(lru, queue, n + 1) = Slots(lru, queue, n)
<1>1. PICK m \in Nat : m = Len(lru)
  OBVIOUS
<1> DEFINE top == m + n + 1
           old == 1..(m + n)
           new == 1..(m + (n + 1))
           key(r) == KeyAt(lru, queue, r)
           sets(r) == SetAt(lru, queue, r)
<1>2. /\ top \in new /\ top \notin old /\ new = old \cup {top}
      /\ \A r \in old : r <= top /\ ~(top <= r)
  OBVIOUS
<1>3. key(top) = queue[n + 1].key /\ (sets(top) <=> queue[n + 1].op = "Set")
  <2>1. ~(top <= m) /\ top > m /\ top - m = n + 1
    OBVIOUS
  <2> QED BY <1>1, <2>1 DEF KeyAt, SetAt
<1>4. /\ Slots(lru, queue, n) = {r \in old : (r <= m \/ sets(r)) /\ \A q \in old : sets(q) /\ key(q) = key(r) => q <= r}
      /\ Slots(lru, queue, n + 1) = {r \in new : (r <= m \/ sets(r)) /\ \A q \in new : sets(q) /\ key(q) = key(r) => q <= r}
  BY <1>1 DEF Slots
<1>5. top <= top /\ ~(top <= m)
  OBVIOUS
<1> HIDE DEF key, sets, top, old, new
<1>6. CASE queue[n + 1].op = "Set"
  <2>1. Slots(lru, queue, n + 1) = {r \in Slots(lru, queue, n) : key(r) # key(top)} \cup {top}
    BY <1>2, <1>3, <1>4, <1>5, <1>6
  <2> QED BY <1>1, <1>3, <1>6, <2>1 DEF key, top
<1>7. CASE queue[n + 1].op # "Set"
  <2>1. Slots(lru, queue, n + 1) = Slots(lru, queue, n)
    BY <1>2, <1>3, <1>4, <1>5, <1>7
  <2> QED BY <1>7, <2>1
<1> QED BY <1>6, <1>7

\* Before the first operation the order is lru_order.
LEMMA OrderBefore ==
    ASSUME NEW lru \in Seq(Keys), NEW queue
    PROVE  InOrder(lru, lru, queue, 0)
<1>1. PICK m \in Nat : m = Len(lru)
  OBVIOUS
<1> DEFINE g == [i \in 1..m |-> i]
<1>2. Slots(lru, queue, 0) = 1..m
  <2>1. m + 0 = m /\ \A r \in 1..m : r <= m /\ ~(r > m)
    OBVIOUS
  <2> QED BY <1>1, <2>1 DEF Slots, SetAt
<1>3. IsListing(g, m, 1..m)
  BY DEF IsListing
<1>4. \A i \in 1..m : lru[i] = KeyAt(lru, queue, g[i])
  BY <1>1 DEF KeyAt
<1> QED BY <1>1, <1>2, <1>3, <1>4 DEF InOrder

\* A Set moves its key to the end, as its place does.
LEMMA SetKeepsOrder ==
    ASSUME NEW lru \in Seq(Keys), NoRepeat(lru), NEW queue \in Seq(TransactionOp),
           NEW n \in Nat, n < Len(queue), queue[n + 1].op = "Set",
           NEW L, InOrder(L, lru, queue, n)
    PROVE  InOrder(update_lru(L, queue[n + 1].key), lru, queue, n + 1)
<1> DEFINE S == Slots(lru, queue, n)
           T == Slots(lru, queue, n + 1)
           k == queue[n + 1].key
           key(r) == KeyAt(lru, queue, r)
           top == Len(lru) + n + 1
           new == update_lru(L, k)
<1>1. PICK g : IsListing(g, Len(L), S) /\ \A i \in 1..Len(L) : L[i] = key(g[i])
  BY DEF InOrder
<1>2. PICK c \in Nat : c = Len(L)
  BY DEF InOrder
<1>3. /\ g \in [1..c -> S]
      /\ \A i, j \in 1..c : i < j => g[i] < g[j]
      /\ \A x \in S : \E i \in 1..c : g[i] = x
  BY <1>1, <1>2 DEF IsListing
<1>4. \A r, q \in S : key(r) = key(q) => r = q
  BY SlotsDistinct
<1>5. T = {r \in S : key(r) # k} \cup {top} /\ key(top) = k /\ top \in Nat
  <2>1. T = {r \in S : key(r) # k} \cup {top}
    BY SlotsAfter
  <2>2. PICK m \in Nat : m = Len(lru)
    OBVIOUS
  <2>3. ~(m + n + 1 <= m) /\ m + n + 1 - m = n + 1 /\ m + n + 1 \in Nat
    OBVIOUS
  <2> QED BY <2>1, <2>2, <2>3 DEF KeyAt
<1>6. \A r \in S : r \in Nat /\ r < top
  <2>1. PICK m \in Nat : m = Len(lru)
    OBVIOUS
  <2>2. \A r \in 1..(m + n) : r \in Nat /\ r < m + n + 1
    OBVIOUS
  <2> QED BY <2>1, <2>2 DEF Slots
<1>7. L \in Seq(Keys) /\ k \in Keys
  <2>1. n + 1 \in 1..Len(queue)
    OBVIOUS
  <2> QED BY <2>1, QueuedOp DEF InOrder
<1> HIDE DEF S, T, k, key, top
<1>8. NoRepeat(L)
  <2>1. ASSUME NEW i \in 1..c, NEW j \in 1..c, i # j, L[i] = L[j]
        PROVE  FALSE
    <3>1. g[i] \in S /\ g[j] \in S /\ g[i] = g[j]
      BY <1>1, <1>2, <1>3, <1>4, <2>1
    <3>2. g[i] \in Nat /\ g[j] \in Nat
      BY <1>6, <3>1
    <3>3. i < j \/ j < i
      BY <1>2, <2>1
    <3> QED BY <1>3, <3>1, <3>2, <3>3
  <2> QED BY <1>2, <2>1 DEF NoRepeat
<1>9. PICK p \in 1..(c + 1) :
        /\ \A i \in 1..c : L[i] = k <=> i = p
        /\ new \in Seq(Keys)
        /\ Len(new) = IF p <= c THEN c ELSE c + 1
        /\ \A i \in 1..(Len(new) - 1) : new[i] = IF i < p THEN L[i] ELSE L[i + 1]
        /\ new[Len(new)] = k
  <2>1. \E p \in 1..(Len(L) + 1) :
          /\ \A i \in 1..Len(L) : L[i] = k <=> i = p
          /\ new \in Seq(Keys)
          /\ Len(new) = IF p <= Len(L) THEN Len(L) ELSE Len(L) + 1
          /\ \A i \in 1..(Len(new) - 1) : new[i] = IF i < p THEN L[i] ELSE L[i + 1]
          /\ new[Len(new)] = k
    BY <1>7, <1>8, UpdateLruShape
  <2> HIDE DEF new
  <2> QED BY <1>2, <2>1
<1> HIDE DEF new
<1>10. PICK d \in Nat : d = Len(new) /\ d = IF p <= c THEN c ELSE c + 1
  BY <1>2, <1>9
<1> DEFINE at(i) == IF i < p THEN i ELSE i + 1
           h == [i \in 1..d |-> IF i = d THEN top ELSE g[at(i)]]
<1>11. d \in 1..d /\ \A i \in 1..d : i = d \/ i \in 1..(d - 1)
  BY <1>9, <1>10
<1>12. ASSUME NEW i \in 1..(d - 1)
       PROVE  /\ i \in 1..d /\ i # d /\ at(i) \in 1..c /\ at(i) # p
              /\ new[i] = L[at(i)] /\ g[at(i)] \in S /\ key(g[at(i)]) # k /\ L[at(i)] = key(g[at(i)])
  <2>1. i \in 1..d /\ i # d /\ at(i) \in 1..c /\ at(i) # p
    BY <1>10
  <2>2. new[i] = L[at(i)]
    BY <1>9, <1>10
  <2>3. L[at(i)] # k
    BY <1>9, <2>1
  <2> HIDE DEF at
  <2>4. L[at(i)] = key(g[at(i)]) /\ g[at(i)] \in S
    BY <1>1, <1>2, <1>3, <2>1
  <2> QED BY <2>1, <2>2, <2>3, <2>4
<1>13. \A i, j \in 1..(d - 1) : i < j => at(i) < at(j)
  BY <1>9, <1>10
<1>14. \A x \in 1..c : x # p => \E i \in 1..(d - 1) : at(i) = x
  <2> TAKE x \in 1..c
  <2>1. CASE x < p
    <3>1. x \in 1..(d - 1) /\ at(x) = x
      BY <1>9, <1>10, <2>1
    <3> QED BY <3>1
  <2>2. CASE x > p
    <3>1. x - 1 \in 1..(d - 1) /\ at(x - 1) = x
      BY <1>9, <1>10, <2>2
    <3> QED BY <3>1
  <2> QED BY <1>9, <2>1, <2>2
<1> HIDE DEF at
<1>15. h \in [1..d -> T]
  BY <1>5, <1>11, <1>12
<1>16. \A i \in 1..(d - 1) : h[i] = g[at(i)]
  BY <1>12
<1>17. h[d] = top
  BY <1>11
<1> HIDE DEF h
<1>18. \A i, j \in 1..d : i < j => h[i] < h[j]
  <2> SUFFICES ASSUME NEW i \in 1..d, NEW j \in 1..d, i < j
               PROVE  h[i] < h[j]
    OBVIOUS
  <2>1. i \in 1..(d - 1)
    BY <1>10
  <2>2. CASE j = d
    BY <1>6, <1>12, <1>16, <1>17, <2>1, <2>2
  <2>3. CASE j # d
    <3>1. j \in 1..(d - 1)
      BY <1>11, <2>3
    <3>2. at(i) < at(j) /\ at(i) \in 1..c /\ at(j) \in 1..c
      BY <1>12, <1>13, <2>1, <3>1
    <3>3. g[at(i)] < g[at(j)]
      BY <1>3, <3>2
    <3> QED BY <1>16, <2>1, <3>1, <3>3
  <2> QED BY <2>2, <2>3
<1>19. \A x \in T : \E i \in 1..d : h[i] = x
  <2> SUFFICES ASSUME NEW x \in T
               PROVE  \E i \in 1..d : h[i] = x
    OBVIOUS
  <2>1. CASE x = top
    BY <1>11, <1>17, <2>1
  <2>2. CASE x \in S /\ key(x) # k
    <3>1. PICK b \in 1..c : g[b] = x
      BY <1>3, <2>2
    <3>2. b # p
      BY <1>1, <1>2, <1>9, <2>2, <3>1
    <3>3. PICK i \in 1..(d - 1) : at(i) = b
      BY <1>14, <3>2
    <3> QED BY <1>12, <1>16, <3>1, <3>3
  <2> QED BY <1>5, <2>1, <2>2
<1>20. IsListing(h, Len(new), T)
  BY <1>10, <1>15, <1>18, <1>19 DEF IsListing
<1>21. \A i \in 1..Len(new) : new[i] = key(h[i])
  BY <1>5, <1>9, <1>10, <1>11, <1>12, <1>16, <1>17
<1> QED BY <1>9, <1>20, <1>21 DEF InOrder, new, T, key, k

\* A Delete leaves the order alone.
LEMMA DeleteKeepsOrder ==
    ASSUME NEW lru \in Seq(Keys), NEW queue \in Seq(TransactionOp),
           NEW n \in Nat, n < Len(queue), queue[n + 1].op # "Set",
           NEW L, InOrder(L, lru, queue, n)
    PROVE  InOrder(L, lru, queue, n + 1)
<1>1. Slots(lru, queue, n + 1) = Slots(lru, queue, n)
  BY SlotsAfter
<1> QED BY <1>1 DEF InOrder

\* There is one order.
LEMMA OneOrder ==
    ASSUME NEW lru \in Seq(Keys), NEW queue, NEW n \in Nat,
           NEW L, NEW M, InOrder(L, lru, queue, n), InOrder(M, lru, queue, n)
    PROVE  L = M
<1> DEFINE S == Slots(lru, queue, n)
           key(r) == KeyAt(lru, queue, r)
<1>1. PICK g : IsListing(g, Len(L), S) /\ \A i \in 1..Len(L) : L[i] = key(g[i])
  BY DEF InOrder
<1>2. PICK h : IsListing(h, Len(M), S) /\ \A i \in 1..Len(M) : M[i] = key(h[i])
  BY DEF InOrder
<1>3. PICK m \in Nat : m = Len(lru) + n
  OBVIOUS
<1>4. S \in SUBSET (1..m)
  BY <1>3 DEF Slots
<1>5. L \in Seq(Keys) /\ M \in Seq(Keys)
  BY DEF InOrder
<1> HIDE DEF S, key
<1>6. Len(L) = Cardinality(S) /\ \A i \in 1..Len(L) : g[i] = Nth(S, i)
  BY <1>1, <1>4, ListingIsNth
<1>7. Len(M) = Cardinality(S) /\ \A i \in 1..Len(M) : h[i] = Nth(S, i)
  BY <1>2, <1>4, ListingIsNth
<1>8. Len(L) = Len(M) /\ \A i \in 1..Len(L) : L[i] = M[i]
  BY <1>1, <1>2, <1>6, <1>7
<1> QED BY <1>5, <1>8

\* What exec puts together is in order: the keys no Set moved, then the set
\* keys by their last Sets.
LEMMA ExecInOrder ==
    ASSUME NEW lru \in Seq(Keys), NEW queue \in Seq(TransactionOp), NEW n, n = Len(queue),
           NEW U, U = {p \in 1..Len(lru) : \A i \in Sets(queue) : queue[i].key # lru[p]},
           NEW kept \in Ascending(U), NEW moved \in Ascending(LastSets(queue)),
           NEW front \in Seq(Keys), Len(front) = Len(kept),
           \A i \in 1..Len(kept) : front[i] = lru[kept[i]],
           NEW back \in Seq(Keys), Len(back) = Len(moved),
           \A i \in 1..Len(moved) : back[i] = queue[moved[i]].key
    PROVE  InOrder(front \o back, lru, queue, n)
<1> DEFINE V == LastSets(queue)
           S == Slots(lru, queue, n)
           key(r) == KeyAt(lru, queue, r)
<1>1. PICK m \in Nat : m = Len(lru)
  OBVIOUS
<1>2. n \in Nat /\ U \in SUBSET (1..m) /\ V \in SUBSET (1..n)
  BY <1>1 DEF LastSets
<1>3. /\ \A r \in 1..m : r \in S <=> r \in U
      /\ \A i \in 1..n : m + i \in S <=> i \in V
      /\ \A r \in S : r \in 1..m \/ \E i \in 1..n : r = m + i
  <2>1. \A r \in 1..m : r <= m /\ key(r) = lru[r] /\ ~SetAt(lru, queue, r)
    BY <1>1 DEF KeyAt, SetAt
  <2>2. \A i \in 1..n : /\ ~(m + i <= m) /\ key(m + i) = queue[i].key
                        /\ SetAt(lru, queue, m + i) <=> queue[i].op = "Set"
    <3> TAKE i \in 1..n
    <3>1. ~(m + i <= m) /\ m + i > m /\ m + i - m = i
      BY <1>2
    <3> QED BY <1>1, <3>1 DEF KeyAt, SetAt
  <2>3. \A r \in 1..(m + n) : r \in 1..m \/ \E i \in 1..n : r = m + i
    <3> TAKE r \in 1..(m + n)
    <3>1. r > m => r - m \in 1..n /\ r = m + (r - m)
      BY <1>2
    <3> QED BY <1>2, <3>1
  <2>4. /\ \A r \in 1..m : r \in 1..(m + n)
        /\ \A i \in 1..n : m + i \in 1..(m + n)
        /\ \A r \in 1..m, i \in 1..n : r <= m + i /\ ~(m + i <= r)
        /\ \A i, j \in 1..n : m + i <= m + j <=> i <= j
    BY <1>2
  <2>5. S = {r \in 1..(m + n) :
               /\ r <= m \/ SetAt(lru, queue, r)
               /\ \A q \in 1..(m + n) : SetAt(lru, queue, q) /\ key(q) = key(r) => q <= r}
    BY <1>1 DEF Slots
  <2>6. /\ U = {p \in 1..m : \A i \in 1..n : queue[i].op = "Set" => queue[i].key # lru[p]}
        /\ V = {i \in 1..n : /\ queue[i].op = "Set"
                             /\ \A j \in 1..n : queue[j].op = "Set" /\ queue[j].key = queue[i].key => j <= i}
    BY <1>1 DEF Sets, LastSets
  <2> HIDE DEF S, V, key
  <2>7. ASSUME NEW r \in 1..m
        PROVE  r \in S <=> r \in U
    <3>1. r \in S <=> \A i \in 1..n : SetAt(lru, queue, m + i) => key(m + i) # key(r)
      BY <2>1, <2>3, <2>4, <2>5
    <3>2. \A i \in 1..n : (SetAt(lru, queue, m + i) => key(m + i) # key(r))
                           <=> (queue[i].op = "Set" => queue[i].key # lru[r])
      BY <2>1, <2>2
    <3>3. r \in U <=> \A i \in 1..n : queue[i].op = "Set" => queue[i].key # lru[r]
      BY <2>6
    <3> QED BY <3>1, <3>2, <3>3
  <2>8. ASSUME NEW i \in 1..n
        PROVE  m + i \in S <=> i \in V
    <3>1. m + i \in S <=> /\ SetAt(lru, queue, m + i)
                          /\ \A j \in 1..n : SetAt(lru, queue, m + j) /\ key(m + j) = key(m + i) => j <= i
      BY <2>1, <2>2, <2>3, <2>4, <2>5
    <3>2. \A j \in 1..n : (SetAt(lru, queue, m + j) /\ key(m + j) = key(m + i) => j <= i)
                           <=> (queue[j].op = "Set" /\ queue[j].key = queue[i].key => j <= i)
      BY <2>2
    <3>3. SetAt(lru, queue, m + i) <=> queue[i].op = "Set"
      BY <2>2
    <3>4. i \in V <=> /\ queue[i].op = "Set"
                      /\ \A j \in 1..n : queue[j].op = "Set" /\ queue[j].key = queue[i].key => j <= i
      BY <2>6
    <3> QED BY <3>1, <3>2, <3>3, <3>4
  <2>9. \A r \in S : r \in 1..(m + n)
    BY <2>5
  <2> QED BY <2>3, <2>7, <2>8, <2>9
<1> HIDE DEF S, V, key
<1>4. IsListing(kept, Cardinality(U), U) /\ IsListing(moved, Cardinality(V), V)
  <2>1. Cardinality(U) \in Nat /\ Cardinality(V) \in Nat
    BY <1>2, PositionsFinite
  <2> QED BY <2>1 DEF Ascending, IsListing, V
<1>5. PICK a \in Nat : a = Cardinality(U)
  BY <1>4 DEF IsListing
<1>6. PICK b \in Nat : b = Cardinality(V)
  BY <1>4 DEF IsListing
<1>7. /\ kept \in [1..a -> U] /\ \A i, j \in 1..a : i < j => kept[i] < kept[j]
      /\ \A x \in U : \E i \in 1..a : kept[i] = x
  BY <1>4, <1>5 DEF IsListing
<1>8. /\ moved \in [1..b -> V] /\ \A i, j \in 1..b : i < j => moved[i] < moved[j]
      /\ \A x \in V : \E i \in 1..b : moved[i] = x
  BY <1>4, <1>6 DEF IsListing
<1>9. Len(kept) = a /\ Len(moved) = b
  BY <1>7, <1>8, FunctionIsSeq
<1> DEFINE d == a + b
           h == [i \in 1..d |-> IF i <= a THEN kept[i] ELSE m + moved[i - a]]
           whole == front \o back
<1>10. /\ whole \in Seq(Keys) /\ Len(whole) = d
       /\ \A i \in 1..a : whole[i] = front[i]
       /\ \A i \in 1..b : whole[a + i] = back[i]
  <2>1. Len(front) = a /\ Len(back) = b
    BY <1>9
  <2> HIDE DEF d
  <2>2. /\ front \o back \in Seq(Keys) /\ Len(front \o back) = Len(front) + Len(back)
        /\ \A i \in 1..Len(front) : (front \o back)[i] = front[i]
        /\ \A i \in 1..Len(back) : (front \o back)[Len(front) + i] = back[i]
    <3>1. \A f, g \in Seq(Keys) :
            /\ f \o g \in Seq(Keys) /\ Len(f \o g) = Len(f) + Len(g)
            /\ \A i \in 1..Len(f) : (f \o g)[i] = f[i]
            /\ \A i \in 1..Len(g) : (f \o g)[Len(f) + i] = g[i]
      BY ConcatOK
    <3> QED BY <3>1
  <2>3. /\ whole \in Seq(Keys) /\ Len(whole) = Len(front) + Len(back)
        /\ \A i \in 1..Len(front) : whole[i] = front[i]
        /\ \A i \in 1..Len(back) : whole[Len(front) + i] = back[i]
    BY <2>2, Zenon
  <2> HIDE DEF whole
  <2> QED BY <2>1, <2>3 DEF d
<1> HIDE DEF whole
<1>11. /\ \A i \in 1..a : i \in 1..d /\ h[i] = kept[i]
       /\ \A i \in 1..b : a + i \in 1..d /\ h[a + i] = m + moved[i]
  <2>1. ASSUME NEW i \in 1..b
        PROVE  a + i \in 1..d /\ h[a + i] = m + moved[i]
    <3>1. a + i \in 1..d /\ ~(a + i <= a) /\ (a + i) - a = i
      OBVIOUS
    <3> QED BY <3>1
  <2>2. ASSUME NEW i \in 1..a
        PROVE  i \in 1..d /\ h[i] = kept[i]
    OBVIOUS
  <2> HIDE DEF h, d
  <2> QED BY <2>1, <2>2
<1>12. \A i \in 1..d : i \in 1..a \/ \E j \in 1..b : i = a + j
  <2> TAKE i \in 1..d
  <2>1. CASE i <= a
    BY <2>1
  <2>2. CASE i > a
    <3>1. i - a \in 1..b /\ i = a + (i - a)
      BY <2>2
    <3> QED BY <3>1
  <2> QED BY <2>1, <2>2
<1>13. /\ \A i \in 1..a : kept[i] \in U /\ kept[i] \in 1..m
       /\ \A i \in 1..b : moved[i] \in V /\ moved[i] \in 1..n
  BY <1>2, <1>7, <1>8
<1>14. h \in [1..d -> S]
  <2>1. \A i \in 1..a : h[i] \in S
    BY <1>3, <1>11, <1>13
  <2>2. \A i \in 1..b : h[a + i] \in S
    BY <1>3, <1>11, <1>13
  <2>3. \A i \in 1..d : h[i] \in S
    <3> HIDE DEF h
    <3> QED BY <1>12, <2>1, <2>2
  <2> QED BY <2>3
<1> HIDE DEF h
<1>15. \A i, j \in 1..d : i < j => h[i] < h[j]
  <2> SUFFICES ASSUME NEW i \in 1..d, NEW j \in 1..d, i < j
               PROVE  h[i] < h[j]
    OBVIOUS
  <2>1. CASE i \in 1..a /\ j \in 1..a
    BY <1>7, <1>11, <2>1
  <2>2. ASSUME i \in 1..a, NEW y \in 1..b, j = a + y
        PROVE  h[i] < h[j]
    <3>1. h[i] = kept[i] /\ kept[i] \in 1..m
      BY <1>11, <1>13, <2>2
    <3>2. h[j] = m + moved[y] /\ moved[y] \in 1..n
      BY <1>11, <1>13, <2>2
    <3>3. PICK v \in 1..m, w \in 1..n : v = kept[i] /\ w = moved[y]
      BY <3>1, <3>2
    <3>4. m \in Nat /\ n \in Nat
      BY <1>1, <1>2
    <3>5. v < m + w
      BY <3>3, <3>4
    <3> QED BY <3>1, <3>2, <3>3, <3>5
  <2>3. ASSUME NEW x \in 1..b, i = a + x, NEW y \in 1..b, j = a + y
        PROVE  h[i] < h[j]
    <3>1. x < y
      BY <2>3
    <3>2. moved[x] < moved[y] /\ moved[x] \in 1..n /\ moved[y] \in 1..n
      BY <1>8, <1>13, <3>1
    <3>3. h[i] = m + moved[x] /\ h[j] = m + moved[y]
      BY <1>11, <2>3
    <3> QED BY <1>2, <3>2, <3>3
  <2>4. ASSUME NEW x \in 1..b, i = a + x, j \in 1..a
        PROVE  FALSE
    BY <2>4
  <2>5. CASE i \in 1..a
    <3>1. j \in 1..a \/ \E y \in 1..b : j = a + y
      BY <1>12
    <3> QED BY <2>1, <2>2, <2>5, <3>1
  <2>6. CASE \E x \in 1..b : i = a + x
    <3>1. j \in 1..a \/ \E y \in 1..b : j = a + y
      BY <1>12
    <3> QED BY <2>3, <2>4, <2>6, <3>1
  <2> QED BY <1>12, <2>5, <2>6
<1>16. \A x \in S : \E i \in 1..d : h[i] = x
  <2> SUFFICES ASSUME NEW x \in S
               PROVE  \E i \in 1..d : h[i] = x
    OBVIOUS
  <2>1. CASE x \in 1..m
    <3>1. PICK i \in 1..a : kept[i] = x
      BY <1>3, <1>7, <2>1
    <3> QED BY <1>11, <3>1
  <2>2. ASSUME NEW v \in 1..n, x = m + v
        PROVE  \E i \in 1..d : h[i] = x
    <3>1. PICK i \in 1..b : moved[i] = v
      BY <1>3, <1>8, <2>2
    <3> QED BY <1>11, <2>2, <3>1
  <2> QED BY <1>3, <2>1, <2>2
<1>17. IsListing(h, Len(whole), S)
  BY <1>10, <1>14, <1>15, <1>16 DEF IsListing
<1>18. ASSUME NEW i \in 1..d
       PROVE  whole[i] = key(h[i])
  <2>1. CASE i \in 1..a
    <3>1. whole[i] = lru[kept[i]] /\ h[i] = kept[i] /\ kept[i] \in 1..m
      BY <1>9, <1>10, <1>11, <1>13, <2>1
    <3> QED BY <1>1, <3>1 DEF key, KeyAt
  <2>2. ASSUME NEW y \in 1..b, i = a + y
        PROVE  whole[i] = key(h[i])
    <3>1. whole[i] = queue[moved[y]].key /\ h[i] = m + moved[y] /\ moved[y] \in 1..n
      BY <1>9, <1>10, <1>11, <1>13, <2>2
    <3>2. \A v \in 1..n : ~(m + v <= m) /\ (m + v) - m = v
      OBVIOUS
    <3> QED BY <1>1, <3>1, <3>2 DEF key, KeyAt
  <2> QED BY <1>12, <2>1, <2>2
<1>19. \A i \in 1..Len(whole) : whole[i] = key(h[i])
  BY <1>10, <1>18
<1> QED BY <1>10, <1>17, <1>19 DEF InOrder, S, key, whole

\* The loop is defined: each run is the one before it with one more operation.
LEMMA RunsOK ==
    ASSUME NEW s, NEW n \in Nat, n = Len(s.transaction_queue)
    PROVE  /\ Runs(s)[0] = s
           /\ \A i \in 1..n : Runs(s)[i] = ApplyOp(Runs(s)[i - 1], s.transaction_queue[i])
<1> DEFINE queue == s.transaction_queue
           Body(r, m) == [i \in 0..m |-> IF i = 0 THEN s ELSE ApplyOp(r[i - 1], queue[i])]
           good == {m \in 0..n : \E r : r = Body(r, m)}
<1>1. 0 \in good
  <2> DEFINE r == [i \in 0..0 |-> s]
  <2>1. r = Body(r, 0)
    OBVIOUS
  <2>2. \E x : x = Body(x, 0)
    <3> HIDE DEF r
    <3> QED BY <2>1
  <2>3. 0 \in 0..n
    OBVIOUS
  <2> QED BY <2>2, <2>3
<1>2. ASSUME NEW m \in 0..n, m \in good, m < n
      PROVE  m + 1 \in good
  <2>1. PICK r : r = Body(r, m)
    BY <1>2
  <2> DEFINE t == [i \in 0..(m + 1) |-> IF i = m + 1 THEN ApplyOp(r[m], queue[m + 1]) ELSE r[i]]
  <2>2. \A i \in 0..m : r[i] = IF i = 0 THEN s ELSE ApplyOp(r[i - 1], queue[i])
    BY <2>1
  <2>3. /\ \A i \in 0..m : i \in 0..(m + 1) /\ i # m + 1 /\ t[i] = r[i]
        /\ m + 1 \in 0..(m + 1) /\ m + 1 # 0 /\ (m + 1) - 1 = m /\ m \in 0..m
        /\ t[m + 1] = ApplyOp(r[m], queue[m + 1])
        /\ \A i \in 0..(m + 1) : i = m + 1 \/ i \in 0..m
        /\ \A i \in 0..m : i # 0 => i - 1 \in 0..m
    OBVIOUS
  <2>4. t = [i \in 0..(m + 1) |-> t[i]]
    OBVIOUS
  <2> HIDE DEF t
  <2>5. \A i \in 0..(m + 1) : t[i] = IF i = 0 THEN s ELSE ApplyOp(t[i - 1], queue[i])
    <3>1. t[m + 1] = ApplyOp(t[(m + 1) - 1], queue[m + 1])
      BY <2>3
    <3>2. \A i \in 0..m : t[i] = IF i = 0 THEN s ELSE ApplyOp(t[i - 1], queue[i])
      BY <2>2, <2>3
    <3> QED BY <2>3, <3>1, <3>2
  <2>6. t = Body(t, m + 1)
    BY <2>4, <2>5
  <2>7. m + 1 \in 0..n
    BY <1>2
  <2> QED BY <2>6, <2>7
<1>3. n \in good
  <2> HIDE DEF good
  <2>1. \A m \in 0..n : m \in good /\ m < n => m + 1 \in good
    BY <1>2
  <2>2. \A m \in 0..n : m \in good
    BY <1>1, <2>1, PositionInduction
  <2>3. n \in 0..n
    OBVIOUS
  <2> QED BY <2>2, <2>3
<1>4. \E r : r = Body(r, n)
  BY <1>3
<1>5. Runs(s) = CHOOSE r : r = Body(r, n)
  BY DEF Runs
<1>6. Runs(s) = Body(Runs(s), n)
  BY <1>4, <1>5
<1> QED BY <1>6

\* What that operation leaves of k.
Outcome(s, k, j) ==
    IF j = 0 THEN s.store[k]
    ELSE IF s.transaction_queue[j].op = "Set" THEN s.transaction_queue[j].entry
    ELSE None

SetsUpto(queue, n) == {i \in 1..n : queue[i].op = "Set"}

\* t is s after the first n operations of its queue, by their net effect.
NetEffect(s, n, t) ==
    /\ t = [store |-> t.store, memory_bytes |-> s.memory_bytes,
            total_writes |-> s.total_writes + Cardinality(SetsUpto(s.transaction_queue, n)),
            lru_order |-> t.lru_order, transaction_queue |-> s.transaction_queue,
            events |-> s.events, notify |-> s.notify]
    /\ t.store = [k \in Keys |-> t.store[k]]
    /\ InOrder(t.lru_order, s.lru_order, s.transaction_queue, n)
    /\ \A k \in Keys : \E j \in 0..n :
          LastAmong(s.transaction_queue, n, k, j) /\ t.store[k] = Outcome(s, k, j)

\* s is a value of the struct with an open transaction.
IsOpen(s) ==
    /\ StateOK(s) /\ in_transaction(s)
    /\ s = [store |-> s.store, memory_bytes |-> s.memory_bytes, total_writes |-> s.total_writes,
            lru_order |-> s.lru_order, transaction_queue |-> s.transaction_queue,
            events |-> s.events, notify |-> s.notify]

\* One more operation.
LEMMA NetStep ==
    ASSUME NEW s, IsOpen(s), NEW n \in Nat, n < Len(s.transaction_queue),
           NEW t, NetEffect(s, n, t)
    PROVE  NetEffect(s, n + 1, ApplyOp(t, s.transaction_queue[n + 1]))
<1> DEFINE queue == s.transaction_queue
           op == queue[n + 1]
           u == ApplyOp(t, op)
<1>1. /\ queue \in Seq(TransactionOp) /\ s.lru_order \in Seq(Keys) /\ NoRepeat(s.lru_order)
      /\ s.total_writes \in Nat
  BY DEF IsOpen, StateOK, LruOK, in_transaction
<1>2. n + 1 \in 1..Len(queue) /\ op.key \in Keys
  <2>1. n + 1 \in 1..Len(queue)
    BY <1>1
  <2> HIDE DEF queue
  <2> QED BY <1>1, <2>1, QueuedOp
<1>3. PICK st : st = t.store
  OBVIOUS
<1>4. PICK lru : lru = t.lru_order
  OBVIOUS
<1>5. PICK c \in Nat : c = Cardinality(SetsUpto(queue, n))
  <2>1. SetsUpto(queue, n) \in SUBSET (1..n)
    BY DEF SetsUpto
  <2> QED BY <2>1, PositionsFinite
<1>6. /\ t = [store |-> st, memory_bytes |-> s.memory_bytes, total_writes |-> s.total_writes + c,
              lru_order |-> lru, transaction_queue |-> queue, events |-> s.events, notify |-> s.notify]
      /\ st = [k \in Keys |-> st[k]]
      /\ InOrder(lru, s.lru_order, queue, n)
      /\ \A k \in Keys : \E j \in 0..n : LastAmong(queue, n, k, j) /\ st[k] = Outcome(s, k, j)
  BY <1>3, <1>4, <1>5 DEF NetEffect
<1>7. PICK d : d = Cardinality(SetsUpto(queue, n + 1))
  OBVIOUS
<1>8. d = IF op.op = "Set" THEN c + 1 ELSE c
  <2>1. IsFiniteSet(SetsUpto(queue, n))
    <3>1. SetsUpto(queue, n) \in SUBSET (1..n)
      BY DEF SetsUpto
    <3> QED BY <3>1, PositionsFinite
  <2>2. /\ \A i \in 1..n : i # n + 1 /\ i \in 1..(n + 1)
        /\ \A i \in 1..(n + 1) : i = n + 1 \/ i \in 1..n
        /\ n + 1 \in 1..(n + 1) /\ n + 1 \notin 1..n
    OBVIOUS
  <2>3. CASE op.op = "Set"
    <3>1. SetsUpto(queue, n + 1) = SetsUpto(queue, n) \cup {n + 1} /\ n + 1 \notin SetsUpto(queue, n)
      BY <2>2, <2>3 DEF SetsUpto
    <3> QED BY <1>5, <1>7, <2>1, <2>3, <3>1, FS_AddElement
  <2>4. CASE op.op # "Set"
    <3>1. SetsUpto(queue, n + 1) = SetsUpto(queue, n)
      BY <2>2, <2>4 DEF SetsUpto
    <3> QED BY <1>5, <1>7, <2>4, <3>1
  <2> QED BY <2>3, <2>4
<1>9. PICK w : w = IF op.op = "Set" THEN [st EXCEPT ![op.key] = op.entry]
                   ELSE [st EXCEPT ![op.key] = None]
  OBVIOUS
<1>10. PICK M : M = IF op.op = "Set" THEN update_lru(lru, op.key) ELSE lru
  OBVIOUS
<1>11. u = [store |-> w, memory_bytes |-> s.memory_bytes, total_writes |-> s.total_writes + d,
            lru_order |-> M, transaction_queue |-> queue, events |-> s.events, notify |-> s.notify]
  <2> HIDE DEF op, queue
  <2>1. CASE op.op = "Set"
    <3>1. u = [store |-> [st EXCEPT ![op.key] = op.entry], memory_bytes |-> s.memory_bytes,
               total_writes |-> s.total_writes + c + 1, lru_order |-> update_lru(lru, op.key),
               transaction_queue |-> queue, events |-> s.events, notify |-> s.notify]
      BY <1>6, <2>1 DEF ApplyOp, Write
    <3>2. s.total_writes + c + 1 = s.total_writes + d
      <4>1. \A x, y \in Nat : x + y + 1 = x + (y + 1)
        OBVIOUS
      <4> QED BY <1>1, <1>8, <2>1, <4>1
    <3> QED BY <1>9, <1>10, <2>1, <3>1, <3>2
  <2>2. CASE op.op # "Set"
    <3>1. u = [store |-> [st EXCEPT ![op.key] = None], memory_bytes |-> s.memory_bytes,
               total_writes |-> s.total_writes + c, lru_order |-> lru,
               transaction_queue |-> queue, events |-> s.events, notify |-> s.notify]
      BY <1>6, <2>2 DEF ApplyOp
    <3> QED BY <1>8, <1>9, <1>10, <2>2, <3>1
  <2> QED BY <2>1, <2>2
<1>12. InOrder(M, s.lru_order, queue, n + 1)
  <2> HIDE DEF queue
  <2>1. n < Len(queue)
    BY DEF queue
  <2>2. CASE op.op = "Set"
    BY <1>1, <1>6, <1>10, <2>1, <2>2, SetKeepsOrder
  <2>3. CASE op.op # "Set"
    BY <1>1, <1>6, <1>10, <2>1, <2>3, DeleteKeepsOrder
  <2> QED BY <2>2, <2>3
<1>13. w = [k \in Keys |-> w[k]] /\ (\A k \in Keys : k # op.key => w[k] = st[k])
       /\ w[op.key] = IF op.op = "Set" THEN op.entry ELSE None
  <2> HIDE DEF op
  <2>1. PICK x : x = IF op.op = "Set" THEN op.entry ELSE None
    OBVIOUS
  <2>2. w = [st EXCEPT ![op.key] = x]
    BY <1>9, <2>1
  <2> QED BY <1>2, <1>6, <2>1, <2>2
<1>14. ASSUME NEW k \in Keys
       PROVE  \E j \in 0..(n + 1) : LastAmong(queue, n + 1, k, j) /\ w[k] = Outcome(s, k, j)
  <2>1. /\ n + 1 \in 0..(n + 1) /\ n + 1 # 0
        /\ \A i \in 1..(n + 1) : i <= n + 1 /\ (i = n + 1 \/ i \in 1..n)
        /\ \A j \in 0..n : j \in 0..(n + 1)
    OBVIOUS
  <2>2. CASE k = op.key
    <3>1. LastAmong(queue, n + 1, k, n + 1)
      BY <2>1, <2>2 DEF LastAmong
    <3>2. w[k] = Outcome(s, k, n + 1)
      BY <1>13, <2>1, <2>2 DEF Outcome
    <3> QED BY <2>1, <3>1, <3>2
  <2>3. CASE k # op.key
    <3>1. PICK j \in 0..n : LastAmong(queue, n, k, j) /\ st[k] = Outcome(s, k, j)
      BY <1>6
    <3>2. LastAmong(queue, n + 1, k, j)
      BY <2>1, <2>3, <3>1 DEF LastAmong
    <3>3. w[k] = Outcome(s, k, j)
      BY <1>13, <2>3, <3>1
    <3> QED BY <2>1, <3>2, <3>3
  <2> QED BY <2>2, <2>3
<1> HIDE DEF u, op
<1>15. u.store = w /\ u.lru_order = M
  BY <1>11
<1>16. /\ u = [store |-> u.store, memory_bytes |-> s.memory_bytes,
               total_writes |-> s.total_writes + Cardinality(SetsUpto(queue, n + 1)),
               lru_order |-> u.lru_order, transaction_queue |-> queue,
               events |-> s.events, notify |-> s.notify]
  BY <1>7, <1>11, <1>15
<1>17. NetEffect(s, n + 1, u)
  BY <1>12, <1>13, <1>14, <1>15, <1>16 DEF NetEffect
<1> QED BY <1>17 DEF u, op

\* All operations.
LEMMA NetOfLoop ==
    ASSUME NEW s, IsOpen(s), NEW n, n = Len(s.transaction_queue)
    PROVE  n \in Nat /\ NetEffect(s, n, Runs(s)[n])
<1> DEFINE queue == s.transaction_queue
           good == {m \in 0..n : NetEffect(s, m, Runs(s)[m])}
<1>1. /\ queue \in Seq(TransactionOp) /\ n \in Nat /\ s.lru_order \in Seq(Keys)
      /\ s.total_writes \in Nat /\ s.store \in [Keys -> Entry \cup {None}]
  BY DEF IsOpen, StateOK, LruOK, in_transaction
<1>2. /\ Runs(s)[0] = s
      /\ \A i \in 1..n : Runs(s)[i] = ApplyOp(Runs(s)[i - 1], queue[i])
  BY <1>1, RunsOK
<1>3. 0 \in good
  <2>1. SetsUpto(queue, 0) = {} /\ Cardinality({}) = 0
    BY FS_EmptySet DEF SetsUpto
  <2>2. s.total_writes + Cardinality(SetsUpto(queue, 0)) = s.total_writes
    <3>1. \A x \in Nat : x + 0 = x
      OBVIOUS
    <3>2. Cardinality(SetsUpto(queue, 0)) = 0
      BY <2>1
    <3> HIDE DEF queue
    <3> QED BY <1>1, <3>1, <3>2
  <2>3. InOrder(s.lru_order, s.lru_order, queue, 0)
    BY <1>1, OrderBefore
  <2>4. \A k \in Keys : \E j \in 0..0 : LastAmong(queue, 0, k, j) /\ s.store[k] = Outcome(s, k, j)
    <3>1. 0 \in 0..0 /\ \A k \in Keys : LastAmong(queue, 0, k, 0) /\ s.store[k] = Outcome(s, k, 0)
      BY DEF LastAmong, Outcome
    <3> QED BY <3>1
  <2>5. s = [store |-> s.store, memory_bytes |-> s.memory_bytes, total_writes |-> s.total_writes,
             lru_order |-> s.lru_order, transaction_queue |-> queue,
             events |-> s.events, notify |-> s.notify]
    BY DEF IsOpen
  <2>6. s.store = [k \in Keys |-> s.store[k]]
    BY <1>1
  <2>7. NetEffect(s, 0, s)
    BY <2>2, <2>3, <2>4, <2>5, <2>6 DEF NetEffect
  <2>8. 0 \in 0..n
    BY <1>1
  <2> QED BY <1>2, <2>7, <2>8
<1>4. \A m \in 0..n : m \in good /\ m < n => m + 1 \in good
  <2> SUFFICES ASSUME NEW m \in 0..n, m \in good, m < n
               PROVE  m + 1 \in good
    OBVIOUS
  <2>1. NetEffect(s, m, Runs(s)[m])
    OBVIOUS
  <2>2. m \in Nat /\ m < Len(s.transaction_queue) /\ m + 1 \in 1..n /\ (m + 1) - 1 = m /\ m + 1 \in 0..n
    BY <1>1
  <2>3. NetEffect(s, m + 1, ApplyOp(Runs(s)[m], queue[m + 1]))
    BY <2>1, <2>2, NetStep
  <2>4. Runs(s)[m + 1] = ApplyOp(Runs(s)[m], queue[m + 1])
    BY <1>2, <2>2
  <2> QED BY <2>2, <2>3, <2>4
<1>5. n \in good
  <2> HIDE DEF good
  <2>1. \A m \in 0..n : m \in good
    BY <1>1, <1>3, <1>4, PositionInduction
  <2>2. n \in 0..n
    BY <1>1
  <2> QED BY <2>1, <2>2
<1> QED BY <1>1, <1>5

\* The result of exec is the result of the loop.
LEMMA ExecIsLoop ==
    ASSUME NEW s, IsOpen(s)
    PROVE  ExecResults(s) = {RunQueue(s)}
<1> DEFINE queue == s.transaction_queue
           lru == s.lru_order
           U == Unmoved(s)
           V == LastSets(queue)
<1>1. PICK n : n = Len(queue)
  OBVIOUS
<1>2. PICK t : t = Runs(s)[n]
  OBVIOUS
<1>3. n \in Nat /\ NetEffect(s, n, t)
  BY <1>1, <1>2, NetOfLoop
<1>4. /\ queue \in Seq(TransactionOp) /\ lru \in Seq(Keys)
      /\ s.total_writes \in Nat /\ s.store \in [Keys -> Entry \cup {None}]
  BY DEF IsOpen, StateOK, LruOK, in_transaction
<1>5. U = {p \in 1..Len(lru) : \A i \in Sets(queue) : queue[i].key # lru[p]}
  BY DEF Unmoved
<1>6. PICK kept : Ascending(U) = {kept}
  <2>1. Len(lru) \in Nat /\ U \in SUBSET (1..Len(lru))
    BY <1>4, <1>5
  <2> HIDE DEF U
  <2> QED BY <2>1, OneAscending
<1>7. PICK moved : Ascending(V) = {moved}
  <2>1. n \in Nat /\ V \in SUBSET (1..n)
    BY <1>1, <1>3 DEF LastSets
  <2> HIDE DEF V
  <2> QED BY <2>1, OneAscending
<1> DEFINE final == [k \in Keys |-> CHOOSE j \in 0..n : LastAmong(queue, n, k, j)]
<1>8. \A k \in Keys : /\ final[k] \in 0..n /\ LastAmong(queue, n, k, final[k])
                      /\ t.store[k] = Outcome(s, k, final[k])
  <2> TAKE k \in Keys
  <2>1. PICK j \in 0..n : LastAmong(queue, n, k, j) /\ t.store[k] = Outcome(s, k, j)
    BY <1>3 DEF NetEffect
  <2>2. PICK i : i = final[k]
    OBVIOUS
  <2>3. i \in 0..n /\ LastAmong(queue, n, k, i)
    BY <2>1, <2>2
  <2>4. i = j
    BY <1>1, <1>3, <2>1, <2>3, LastOpOK
  <2> QED BY <2>1, <2>2, <2>3, <2>4
<1>9. final \in [Keys -> 0..n]
  <2> HIDE DEF LastAmong
  <2>1. final = [k \in Keys |-> final[k]]
    OBVIOUS
  <2> HIDE DEF final
  <2> QED BY <1>8, <2>1
<1>10. {f \in [Keys -> 0..n] : \A k \in Keys : IsLastOp(queue, k, f[k])} = {final}
  <2> HIDE DEF final
  <2>1. \A k \in Keys : /\ IsLastOp(queue, k, final[k])
                        /\ \A i \in 0..n : IsLastOp(queue, k, i) => i = final[k]
    BY <1>1, <1>3, <1>8, LastOpOK
  <2>2. ASSUME NEW f \in [Keys -> 0..n], \A k \in Keys : IsLastOp(queue, k, f[k])
        PROVE  f = final
    <3>1. \A k \in Keys : f[k] = final[k]
      BY <2>1, <2>2
    <3> QED BY <1>9, <3>1
  <2> QED BY <1>9, <2>1, <2>2
<1> HIDE DEF final
<1>11. ExecResults(s) = {exec(s, final, kept, moved)}
  <2>1. ExecResults(s) = {exec(s, last, x, y) :
                            last \in {f \in [Keys -> 0..n] : \A k \in Keys : IsLastOp(queue, k, f[k])},
                            x \in Ascending(U), y \in Ascending(V)}
    BY <1>1 DEF ExecResults
  <2> HIDE DEF U, V, queue
  <2> QED BY <1>6, <1>7, <1>10, <2>1
<1> DEFINE after(k) == IF final[k] = 0 THEN s.store[k]
                       ELSE IF queue[final[k]].op = "Set" THEN queue[final[k]].entry
                       ELSE None
           front == [i \in 1..Len(kept) |-> lru[kept[i]]]
           back == [i \in 1..Len(moved) |-> queue[moved[i]].key]
           whole == front \o back
<1>12. InOrder(whole, lru, queue, n)
  <2>1. kept \in Ascending(U) /\ moved \in Ascending(V)
    BY <1>6, <1>7
  <2>2. front \in Seq(Keys) /\ Len(front) = Len(kept) /\ \A i \in 1..Len(kept) : front[i] = lru[kept[i]]
    <3>1. U \subseteq 1..Len(lru) /\ Len(lru) \in Nat
      BY <1>4, <1>5
    <3> HIDE DEF U
    <3>2. kept \in Seq(U)
      BY <2>1, <3>1, AscendingIsListing
    <3>3. Len(kept) \in Nat /\ \A i \in 1..Len(kept) : kept[i] \in 1..Len(lru)
      <4>1. Len(kept) \in Nat /\ \A i \in 1..Len(kept) : kept[i] \in U
        BY <3>2
      <4> QED BY <3>1, <4>1
    <3>4. \A p \in 1..Len(lru) : lru[p] \in Keys
      BY <1>4
    <3>5. front \in [1..Len(kept) -> Keys]
      BY <3>3, <3>4
    <3>6. front \in Seq(Keys) /\ Len(front) = Len(kept)
      BY <3>3, <3>5, FunctionIsSeq
    <3> QED BY <3>6
  <2>3. back \in Seq(Keys) /\ Len(back) = Len(moved) /\ \A i \in 1..Len(moved) : back[i] = queue[moved[i]].key
    <3> HIDE DEF queue
    <3> QED BY <1>4, <2>1, MovedKeys
  <2> HIDE DEF front, back, U, V, queue, lru
  <2>4. moved \in Ascending(LastSets(queue))
    BY <2>1 DEF V
  <2> QED BY <1>1, <1>4, <1>5, <2>1, <2>2, <2>3, <2>4, ExecInOrder
<1>13. whole = t.lru_order
  <2> HIDE DEF whole, queue, lru
  <2>1. InOrder(t.lru_order, lru, queue, n)
    BY <1>3 DEF NetEffect, lru, queue
  <2> QED BY <1>3, <1>4, <1>12, <2>1, OneOrder
<1>14. [k \in Keys |-> after(k)] = t.store
  <2>1. t.store = [k \in Keys |-> t.store[k]]
    BY <1>3 DEF NetEffect
  <2>2. \A k \in Keys : after(k) = t.store[k]
    BY <1>8 DEF Outcome
  <2> HIDE DEF after
  <2> QED BY <2>1, <2>2
<1>15. Sets(queue) = SetsUpto(queue, n)
  BY <1>1 DEF Sets, SetsUpto
<1>16. exec(s, final, kept, moved) =
         [s EXCEPT !.store = [k \in Keys |-> after(k)], !.lru_order = whole,
                   !.total_writes = @ + Cardinality(Sets(queue)), !.transaction_queue = None]
  BY DEF exec
<1> HIDE DEF after, whole, queue, lru
<1>17. PICK d : d = Cardinality(Sets(queue))
  OBVIOUS
<1>18. exec(s, final, kept, moved) =
         [store |-> t.store, memory_bytes |-> s.memory_bytes, total_writes |-> s.total_writes + d,
          lru_order |-> t.lru_order, transaction_queue |-> None,
          events |-> s.events, notify |-> s.notify]
  <2>1. s = [store |-> s.store, memory_bytes |-> s.memory_bytes, total_writes |-> s.total_writes,
             lru_order |-> s.lru_order, transaction_queue |-> s.transaction_queue,
             events |-> s.events, notify |-> s.notify]
    BY DEF IsOpen
  <2> QED BY <1>13, <1>14, <1>16, <1>17, <2>1
<1>19. [t EXCEPT !.transaction_queue = None] =
         [store |-> t.store, memory_bytes |-> s.memory_bytes, total_writes |-> s.total_writes + d,
          lru_order |-> t.lru_order, transaction_queue |-> None,
          events |-> s.events, notify |-> s.notify]
  <2>1. t = [store |-> t.store, memory_bytes |-> s.memory_bytes, total_writes |-> s.total_writes + d,
             lru_order |-> t.lru_order, transaction_queue |-> s.transaction_queue,
             events |-> s.events, notify |-> s.notify]
    BY <1>3, <1>15, <1>17 DEF NetEffect, queue
  <2> QED BY <2>1
<1>20. RunQueue(s) = [t EXCEPT !.transaction_queue = None]
  BY <1>1, <1>2 DEF RunQueue, queue
<1> QED BY <1>11, <1>18, <1>19, <1>20

-----------------------------------------------------------------------------
(* The theorems *)

\* The invariant is inductive as it stands: the types and the link between the
\* map and the LRU vector carry each other.
Inv == TypeOK /\ LruTracksStore

\* The invariant of the variables is the well-formedness of the struct.
LEMMA InvIsStateOK == Inv <=> StateOK(Kv) /\ now \in Nat
<1>1. /\ IsKv(Kv)
      /\ Kv.store = store /\ Kv.memory_bytes = memory_bytes /\ Kv.total_writes = total_writes
      /\ Kv.lru_order = lru_order /\ Kv.transaction_queue = transaction_queue
      /\ Kv.events = events /\ Kv.notify = notify
  BY DEF Kv, IsKv
<1> HIDE DEF Kv
<1> QED BY <1>1 DEF Inv, TypeOK, LruTracksStore, StateOK, LruOK, NoRepeat, Covers

\* Taking over a well formed value keeps the invariant.
LEMMA BecomeOK ==
    ASSUME NEW s, StateOK(s), now \in Nat, Become(s)
    PROVE  Inv'
<1>1. /\ store' = s.store /\ memory_bytes' = s.memory_bytes
      /\ total_writes' = s.total_writes /\ lru_order' = s.lru_order
      /\ transaction_queue' = s.transaction_queue /\ events' = s.events
      /\ notify' = s.notify /\ now' = now
  BY DEF Become
<1>2. TypeOK'
  BY <1>1 DEF TypeOK, StateOK, LruOK
<1>3. LruTracksStore'
  BY <1>1 DEF LruTracksStore, StateOK, LruOK, NoRepeat, Covers
<1> QED BY <1>2, <1>3 DEF Inv

\* Every step keeps the invariant: one case per operation.
LEMMA StepOK == ASSUME Inv, Next PROVE Inv'
<1>0. StateOK(Kv) /\ now \in Nat
  BY InvIsStateOK
<1> USE BecomeOK
<1>1. ASSUME NEW k \in Keys, NEW v \in Values, Set(k, v) \/ GetSet(k, v)
      PROVE  Inv'
  <2>1. v \in Value
    BY InputsAssumption
  <2>2. StateOK(set(Kv, k, v, None))
    BY <1>0, <2>1, SetOK
  <2> QED BY <1>0, <1>1, <2>2 DEF Set, GetSet, getset
<1>2. ASSUME NEW k \in Keys, NEW text \in Texts, AppendText(k, text)
      PROVE  Inv'
  <2>1. StateOK(append(Kv, k, text))
    BY <1>0, InputsAssumption, AppendOK
  <2> QED BY <1>0, <1>2, <2>1 DEF AppendText
<1>3. ASSUME NEW k \in Keys, Delete(k)
      PROVE  Inv'
  BY <1>0, <1>3, DeleteOK DEF Delete
<1>4. ASSUME NEW k \in Keys, NEW amount \in Int, Become(incrby(Kv, k, amount))
      PROVE  Inv'
  BY <1>0, <1>4, IncrByOK
<1>5. ASSUME NEW p \in Pairs, NEW q \in Pairs, Mset(p, q)
      PROVE  Inv'
  <2>1. p[2] \in Value /\ q[2] \in Value
    BY InputsAssumption DEF Value
  <2> QED BY <1>0, <1>5, <2>1, MsetOK DEF Mset
<1>6. ASSUME NEW k \in Keys, NEW ttl \in Ttls, NEW v \in Values, SetWithTtl(k, v, ttl)
      PROVE  Inv'
  <2>1. v \in Value /\ checked_add(now, ttl) \in Nat \cup {None}
    BY <1>0, InputsAssumption, CheckedAddType
  <2>2. StateOK(set(Kv, k, v, checked_add(now, ttl)))
    BY <1>0, <2>1, SetOK
  <2> QED BY <1>0, <1>6, <2>2 DEF SetWithTtl, set_with_ttl
<1>7. ASSUME NEW k \in Keys, NEW ttl \in Nat, Expire(k, ttl) \/ Persist(k)
      PROVE  Inv'
  BY <1>0, <1>7, ExpireOK DEF Expire, Persist
<1>8. ASSUME CleanupExpired
      PROVE  Inv'
  <2>1. PICK order \in DueOrders(Kv, now) : Become(cleanup_expired(Kv, now, order))
    BY <1>8 DEF CleanupExpired, DueOrders
  <2> QED BY <1>0, <2>1, DueListed, CleanupOK
<1>9. ASSUME Tick
      PROVE  Inv'
  BY <1>9 DEF Tick, kv, Inv, TypeOK, LruTracksStore
<1>10. ASSUME Multi
       PROVE  Inv'
  <2>1. StateOK(multi(Kv))
    <3>1. CASE in_transaction(Kv)
      BY <1>0, <3>1 DEF multi
    <3>2. CASE ~in_transaction(Kv)
      <4> DEFINE t == [Kv EXCEPT !.transaction_queue = <<>>]
      <4>1. /\ IsKv(t) /\ t.store = Kv.store /\ t.memory_bytes = Kv.memory_bytes
            /\ t.total_writes = Kv.total_writes /\ t.lru_order = Kv.lru_order
            /\ t.transaction_queue = <<>> /\ t.events = Kv.events /\ t.notify = Kv.notify
        BY DEF Kv, IsKv
      <4>2. t.transaction_queue \in Seq(TransactionOp) \cup {None} /\ t.notify \in BOOLEAN /\ t.events \in Seq(KeyspaceEvent)
        BY <1>0, <4>1 DEF StateOK
      <4> HIDE DEF t, Kv
      <4>3. StateOK(t)
        BY <1>0, <4>1, <4>2, FrameOK
      <4> QED BY <3>2, <4>3 DEF multi, t
    <3> QED BY <3>1, <3>2
  <2> QED BY <1>0, <1>10, <2>1 DEF Multi
<1>11. ASSUME Discard
       PROVE  Inv'
  <2> DEFINE t == discard(Kv)
  <2>1. /\ IsKv(t) /\ t.store = Kv.store /\ t.memory_bytes = Kv.memory_bytes
        /\ t.total_writes = Kv.total_writes /\ t.lru_order = Kv.lru_order
        /\ t.transaction_queue = None /\ t.events = Kv.events /\ t.notify = Kv.notify
    BY DEF discard, Kv, IsKv
  <2>2. t.transaction_queue \in Seq(TransactionOp) \cup {None} /\ t.notify \in BOOLEAN /\ t.events \in Seq(KeyspaceEvent)
    BY <1>0, <2>1 DEF StateOK
  <2> HIDE DEF t, Kv
  <2>3. StateOK(t)
    BY <1>0, <2>1, <2>2, FrameOK
  <2> QED BY <1>0, <1>11, <2>3 DEF Discard, t
<1>12. ASSUME Exec
       PROVE  Inv'
  <2>1. in_transaction(Kv) /\ \E s \in ExecResults(Kv) : Become(s)
    BY <1>12 DEF Exec
  <2>2. PICK s \in ExecResults(Kv) : Become(s)
    BY <2>1
  <2>3. StateOK(s)
    BY <1>0, <2>1, ExecOK
  <2> QED BY <1>0, <2>2, <2>3
<1>13. ASSUME NEW k \in Keys, NEW items \in Seq(Char),
              LPush(k, items) \/ RPush(k, items) \/ LPop(k) \/ RPop(k)
       PROVE  Inv'
  BY <1>0, <1>13, ListOK DEF LPush, RPush, LPop, RPop
<1>14. ASSUME NEW k \in Keys, NEW f \in Fields, NEW text \in FieldTexts, HSet(k, f, text)
       PROVE  Inv'
  <2>1. StateOK(hset(Kv, k, f, text))
    BY <1>0, InputsAssumption, HsetOK
  <2> QED BY <1>0, <1>14, <2>1 DEF HSet
<1>15. ASSUME NEW k \in Keys, NEW f \in Fields, HDel(k, f)
       PROVE  Inv'
  BY <1>0, <1>15, HdelOK DEF HDel
<1>16. ASSUME NEW k \in Keys, NEW f \in Fields, NEW amount \in Int,
              HIncrBy(k, f, amount) \/ HIncrByFloat(k, f, amount)
       PROVE  Inv'
  BY <1>0, <1>16, HincrOK DEF HIncrBy, HIncrByFloat
<1>17. ASSUME NEW k \in Keys, NEW src \in Keys, NEW items \in SUBSET Char, NEW precision \in Nat,
              PfReserve(k, precision) \/ PfAdd(k, items) \/ PfMerge(k, src)
       PROVE  Inv'
  BY <1>0, <1>17, SketchOK, PfMergeOK DEF PfReserve, PfAdd, PfMerge
<1>18. ASSUME NEW enabled \in BOOLEAN,
              DrainKeyspaceEvents \/ SetKeyspaceNotificationsEnabled(enabled)
       PROVE  Inv'
  <2> DEFINE t == [Kv EXCEPT !.events = <<>>]
             u == [Kv EXCEPT !.notify = enabled]
  <2>1. /\ IsKv(t) /\ t.store = Kv.store /\ t.memory_bytes = Kv.memory_bytes
        /\ t.total_writes = Kv.total_writes /\ t.lru_order = Kv.lru_order
        /\ t.transaction_queue = Kv.transaction_queue /\ t.events = <<>> /\ t.notify = Kv.notify
    BY DEF Kv, IsKv
  <2>2. /\ IsKv(u) /\ u.store = Kv.store /\ u.memory_bytes = Kv.memory_bytes
        /\ u.total_writes = Kv.total_writes /\ u.lru_order = Kv.lru_order
        /\ u.transaction_queue = Kv.transaction_queue /\ u.events = Kv.events /\ u.notify = enabled
    BY DEF Kv, IsKv
  <2>3. /\ t.transaction_queue \in Seq(TransactionOp) \cup {None} /\ t.notify \in BOOLEAN
        /\ u.transaction_queue \in Seq(TransactionOp) \cup {None} /\ u.notify \in BOOLEAN
        /\ t.events \in Seq(KeyspaceEvent) /\ u.events \in Seq(KeyspaceEvent)
    BY <1>0, <2>1, <2>2, InputsAssumption DEF StateOK
  <2> HIDE DEF t, u, Kv
  <2>4. StateOK(t)
    BY <1>0, <2>1, <2>3, FrameOK
  <2>5. StateOK(u)
    BY <1>0, <2>2, <2>3, FrameOK
  <2>6. CASE DrainKeyspaceEvents
    BY <1>0, <2>4, <2>6 DEF DrainKeyspaceEvents, t
  <2>7. CASE SetKeyspaceNotificationsEnabled(enabled)
    BY <1>0, <2>5, <2>7 DEF SetKeyspaceNotificationsEnabled, u
  <2> QED BY <1>18, <2>6, <2>7
<1>19. CASE StringNext
  BY <1>1, <1>2, <1>3, <1>19 DEF StringNext
<1>20. CASE CounterNext
  <2>1. 1 \in Int /\ -1 \in Int /\ Amounts \subseteq Int
    BY InputsAssumption
  <2> QED BY <1>4, <1>20, <2>1 DEF CounterNext, Incr, Decr, IncrBy
<1>21. CASE BatchNext
  BY <1>5, <1>21 DEF BatchNext
<1>22. CASE TtlNext
  <2>1. 0 \in Nat /\ Ttls \subseteq Nat
    BY InputsAssumption
  <2> QED BY <1>6, <1>7, <1>8, <1>9, <1>22, <2>1 DEF TtlNext
<1>23. CASE TransactionNext
  BY <1>10, <1>11, <1>12, <1>23 DEF TransactionNext
<1>24. CASE CollectionNext
  <2>1. <<>> \in Seq(Char) /\ Items \subseteq Seq(Char) /\ Amounts \subseteq Int
    BY InputsAssumption
  <2> QED BY <1>13, <1>14, <1>15, <1>16, <1>24, <2>1 DEF CollectionNext
<1>25. CASE SketchNext
  <2>1. 0 \in Nat /\ Precisions \subseteq Nat /\ {} \in SUBSET Char
    BY InputsAssumption
  <2> QED BY <1>17, <1>25, <2>1 DEF SketchNext
<1>26. CASE EventNext
  <2>1. TRUE \in BOOLEAN /\ NotifyModes \subseteq BOOLEAN
    BY InputsAssumption
  <2> QED BY <1>18, <1>26, <2>1 DEF EventNext
<1> QED
  BY <1>19, <1>20, <1>21, <1>22, <1>23, <1>24, <1>25, <1>26 DEF Next

\* The invariant holds initially.
LEMMA InitOK == Init => Inv
  BY InputsAssumption DEF Init, Inv, TypeOK, LruTracksStore

\* Steps that change nothing.
LEMMA StutterOK == Inv /\ UNCHANGED vars => Inv'
  BY DEF Inv, TypeOK, LruTracksStore, vars, kv

\* The inductive invariant holds throughout.
LEMMA InvHolds == Spec => []Inv
<1>1. Init => Inv
  BY InitOK
<1>2. Inv /\ [Next]_vars => Inv'
  BY StepOK, StutterOK
<1> QED BY <1>1, <1>2, PTL DEF Spec

\* Every operation of the store, in any order, keeps every field of the struct
\* in its type: counters stay within i64, expiry times within u64.
THEOREM TypeCorrect == Spec => []TypeOK
<1>1. Inv => TypeOK
  BY DEF Inv
<1> QED BY <1>1, InvHolds, PTL

\* The LRU vector lists every stored key, once.
THEOREM LruSound == Spec => []LruTracksStore
<1>1. Inv => LruTracksStore
  BY DEF Inv
<1> QED BY <1>1, InvHolds, PTL

\* For every queue of sets and deletes on every store, the one result of exec is
\* that of the loop over the queue.
THEOREM ExecSound == Spec => []ExecMatchesLoop
<1>1. Inv => ExecMatchesLoop
  <2> SUFFICES ASSUME Inv, in_transaction(Kv)
               PROVE  ExecResults(Kv) = {RunQueue(Kv)}
    BY DEF ExecMatchesLoop
  <2>1. StateOK(Kv)
    BY InvIsStateOK
  <2>2. Kv = [store |-> Kv.store, memory_bytes |-> Kv.memory_bytes,
              total_writes |-> Kv.total_writes, lru_order |-> Kv.lru_order,
              transaction_queue |-> Kv.transaction_queue, events |-> Kv.events,
              notify |-> Kv.notify]
    BY DEF Kv
  <2>3. IsOpen(Kv)
    BY <2>1, <2>2 DEF IsOpen
  <2> QED BY <2>3, ExecIsLoop
<1> QED BY <1>1, InvHolds, PTL

\* A set that is carried out leaves the counter within the limit or the map
\* empty.
THEOREM LimitHolds == Spec => LimitEnforced
<1> DEFINE A == max_memory_bytes > 0 /\ lru_eviction_enabled /\ memory_bytes' > max_memory_bytes
                /\ total_writes' = total_writes + 1 /\ (\E k \in Keys, v \in Values : SetNow(k, v))
                 => lru_order' = <<>> /\ \A k \in Keys : store'[k] = None
<1>1. Inv => A
  <2> SUFFICES ASSUME Inv, max_memory_bytes > 0, lru_eviction_enabled,
                      memory_bytes' > max_memory_bytes,
                      NEW k \in Keys, NEW v \in Values, SetNow(k, v)
               PROVE  lru_order' = <<>> /\ \A j \in Keys : store'[j] = None
    OBVIOUS
  <2> DEFINE t == Insert(Kv, k, v, None)
  <2>1. StateOK(Kv) /\ v \in Value /\ None \in Nat \cup {None}
    BY InvIsStateOK, InputsAssumption
  <2>2. /\ StateOK(t)
        /\ \/ t.memory_bytes <= max_memory_bytes
           \/ t.lru_order = <<>> /\ \A j \in Keys : t.store[j] = None
    BY <2>1, InsertOK
  <2>3. ~in_transaction(Kv)
    BY DEF SetNow, in_transaction, Kv
  <2>4. set(Kv, k, v, None) = t
    BY <2>3 DEF SetNow, set
  <2> HIDE DEF t
  <2>5. Become(t)
    BY <2>4 DEF SetNow, Set
  <2>6. /\ memory_bytes' = t.memory_bytes /\ lru_order' = t.lru_order /\ store' = t.store
        /\ t.memory_bytes \in Nat
    BY <2>2, <2>5 DEF Become, StateOK
  <2>7. ~(t.memory_bytes <= max_memory_bytes)
    BY <2>6, BoundsAssumption
  <2> QED BY <2>2, <2>6, <2>7
<1>2. Inv => [A]_vars
  BY <1>1
<1>3. []Inv => [][A]_vars
  BY <1>2, PTL
<1> QED BY <1>3, InvHolds DEF LimitEnforced


-----------------------------------------------------------------------------
(* What set does *)

\* The store after the write of set, before the limit is enforced.
Grown(s, k, v, x) ==
    [Write(s, k, [value |-> v, expires_at |-> x])
        EXCEPT !.memory_bytes = @ + estimate_value_size(v)]

LEMMA GrownFacts ==
    ASSUME NEW s, StateOK(s), NEW k \in Keys, NEW v \in Value, NEW x \in Nat \cup {None}
    PROVE  LET g == Grown(s, k, v, x)
           IN  /\ StateOK(g) /\ g.lru_order = update_lru(s.lru_order, k)
               /\ g.store[k] # None /\ \A j \in Keys : j # k => g.store[j] = s.store[j]
               /\ g.total_writes = s.total_writes + 1
               /\ g.transaction_queue = s.transaction_queue
               /\ g.events = s.events /\ g.notify = s.notify
<1> DEFINE e == [value |-> v, expires_at |-> x]
           w == Write(s, k, e)
           g == [w EXCEPT !.memory_bytes = @ + estimate_value_size(v)]
<1>1. e \in Entry /\ estimate_value_size(v) \in Nat
  BY EntryType, SizeType
<1> HIDE DEF e
<1>2. StateOK(w) /\ w.store[k] # None /\ \A j \in Keys : j # k => w.store[j] = s.store[j]
  BY <1>1, WriteOK, WrittenStore
<1>3. /\ w.lru_order = update_lru(s.lru_order, k) /\ w.total_writes = s.total_writes + 1
      /\ w.transaction_queue = s.transaction_queue /\ w.events = s.events /\ w.notify = s.notify
  BY DEF Write, StateOK, IsKv
<1> HIDE DEF w
<1>4. StateOK(g)
  BY <1>1, <1>2, CountOK
<1>5. /\ g.store = w.store /\ g.lru_order = w.lru_order /\ g.total_writes = w.total_writes
      /\ g.transaction_queue = w.transaction_queue /\ g.events = w.events /\ g.notify = w.notify
  BY <1>2 DEF StateOK, IsKv
<1> HIDE DEF g
<1>6. Grown(s, k, v, x) = g
  BY DEF Grown, g, w, e
<1> QED BY <1>2, <1>3, <1>4, <1>5, <1>6

\* The loop drops the first n keys of the vector; n is 0 or the number of its
\* rounds.
Inserted(s, k, v, x, n) ==
    LET g == Grown(s, k, v, x)
        t == Insert(s, k, v, x)
    IN  /\ t.lru_order = SubSeq(g.lru_order, n + 1, Len(g.lru_order))
        /\ \A j \in Keys : t.store[j] = IF j \in Victims(g, n) THEN None ELSE g.store[j]
        /\ t.total_writes = s.total_writes + 1
        /\ t.transaction_queue = s.transaction_queue
        /\ n # 0 => n = Cardinality(Rounds(g)) /\ t.memory_bytes = MemoryAfter(g, n)

LEMMA InsertFacts ==
    ASSUME NEW s, StateOK(s), NEW k \in Keys, NEW v \in Value, NEW x \in Nat \cup {None}
    PROVE  \E n \in 0..Len(Grown(s, k, v, x).lru_order) : Inserted(s, k, v, x, n)
<1> DEFINE g == Grown(s, k, v, x)
           b == enforce_memory_limit(g)
           bounded == IF max_memory_bytes > 0 /\ lru_eviction_enabled THEN b ELSE g
           t == emit_keyspace_event(bounded, "set", k)
           m == Cardinality(Rounds(g))
<1>1. /\ StateOK(g) /\ g.total_writes = s.total_writes + 1
      /\ g.transaction_queue = s.transaction_queue
  BY GrownFacts
<1>2. Insert(s, k, v, x) = t
  BY DEF Insert, Grown
<1> HIDE DEF g
<1>3. g.lru_order \in Seq(Keys) /\ Len(g.lru_order) \in Nat
  BY <1>1 DEF StateOK, LruOK
<1>4. m \in 0..Len(g.lru_order)
  BY <1>1, RoundsArePrefix
<1>5. StateOK(b)
  BY <1>1, EnforceOK
<1>6. /\ b.store = [j \in Keys |-> IF j \in Victims(g, m) THEN None ELSE g.store[j]]
      /\ b.memory_bytes = MemoryAfter(g, m) /\ b.total_writes = g.total_writes
      /\ b.lru_order = SubSeq(g.lru_order, m + 1, Len(g.lru_order))
      /\ b.transaction_queue = g.transaction_queue
  BY <1>1 DEF enforce_memory_limit, StateOK, IsKv
<1> HIDE DEF b, m
<1>7. StateOK(bounded)
  BY <1>1, <1>5
<1> HIDE DEF bounded
<1>8. /\ t.store = bounded.store /\ t.lru_order = bounded.lru_order
      /\ t.memory_bytes = bounded.memory_bytes /\ t.total_writes = bounded.total_writes
      /\ t.transaction_queue = bounded.transaction_queue
  BY <1>7 DEF emit_keyspace_event, StateOK, IsKv
<1> HIDE DEF t
<1>9. CASE max_memory_bytes > 0 /\ lru_eviction_enabled
  <2>1. bounded = b
    BY <1>9 DEF bounded
  <2>2. \A j \in Keys : t.store[j] = IF j \in Victims(g, m) THEN None ELSE g.store[j]
    BY <1>6, <1>8, <2>1
  <2>3. /\ t.lru_order = SubSeq(g.lru_order, m + 1, Len(g.lru_order))
        /\ t.total_writes = s.total_writes + 1 /\ t.transaction_queue = s.transaction_queue
        /\ t.memory_bytes = MemoryAfter(g, m)
    BY <1>1, <1>6, <1>8, <2>1
  <2> QED BY <1>2, <1>4, <2>2, <2>3 DEF Inserted, g, m
<1>10. CASE ~(max_memory_bytes > 0 /\ lru_eviction_enabled)
  <2>1. bounded = g
    BY <1>10 DEF bounded
  <2>2. Victims(g, 0) = {}
    BY DEF Victims
  <2>3. SubSeq(g.lru_order, 1, Len(g.lru_order)) = g.lru_order
    BY <1>3
  <2>4. 0 \in 0..Len(g.lru_order) /\ 0 + 1 = 1
    BY <1>3
  <2> QED BY <1>1, <1>2, <1>8, <2>1, <2>2, <2>3, <2>4 DEF Inserted, g
<1> QED BY <1>9, <1>10

\* What set does to the other keys.
LEMMA SetElsewhere ==
    ASSUME NEW s, StateOK(s), NEW k, NEW v \in Value, NEW x \in Nat \cup {None},
           NEW j \in Keys, j # k
    PROVE  set(s, k, v, x).store[j] \in {None, s.store[j]}
<1>1. CASE k \notin Keys \/ ~validate_value(v)
  BY <1>1 DEF set
<1>2. CASE k \in Keys /\ validate_value(v) /\ in_transaction(s)
  <2> DEFINE op == [op |-> "Set", key |-> k, entry |-> [value |-> v, expires_at |-> x]]
  <2>1. set(s, k, v, x) = queue_operation(s, op)
    BY <1>2 DEF set
  <2> HIDE DEF op
  <2>2. queue_operation(s, op).store = s.store
    BY DEF queue_operation, StateOK, IsKv
  <2> QED BY <2>1, <2>2
<1>3. CASE k \in Keys /\ validate_value(v) /\ ~in_transaction(s)
  <2> DEFINE g == Grown(s, k, v, x)
             t == Insert(s, k, v, x)
  <2>1. set(s, k, v, x) = t
    BY <1>3 DEF set
  <2>2. \A i \in Keys : i # k => g.store[i] = s.store[i]
    BY <1>3, GrownFacts
  <2>3. \E n \in 0..Len(g.lru_order) :
           \A i \in Keys : t.store[i] = IF i \in Victims(g, n) THEN None ELSE g.store[i]
    <3>1. \E n \in 0..Len(g.lru_order) : Inserted(s, k, v, x, n)
      BY <1>3, InsertFacts
    <3> QED BY <3>1 DEF Inserted
  <2> HIDE DEF g, t
  <2> QED BY <2>1, <2>2, <2>3
<1> QED BY <1>1, <1>2, <1>3

-----------------------------------------------------------------------------
(* Expiry times *)

\* The variables after a step to t.
LEMMA BecomeFacts ==
    ASSUME NEW t, Become(t)
    PROVE  /\ store' = t.store /\ lru_order' = t.lru_order /\ memory_bytes' = t.memory_bytes
           /\ total_writes' = t.total_writes /\ events' = t.events /\ now' = now
BY DEF Become

LEMMA KvFields ==
    /\ IsKv(Kv) /\ Kv.store = store /\ Kv.lru_order = lru_order /\ Kv.memory_bytes = memory_bytes
    /\ Kv.total_writes = total_writes /\ Kv.transaction_queue = transaction_queue
    /\ Kv.events = events /\ Kv.notify = notify
BY DEF Kv, IsKv

\* From s to t no event is queued.
Silent(s, t) == t.events = s.events /\ t.notify = s.notify

\* The building blocks of the operations in place.
LEMMA WritesSilent ==
    ASSUME NEW s, StateOK(s), NEW k, NEW e, NEW v, NEW type, NEW changed, NEW initial
    PROVE  /\ Silent(s, s) /\ Silent(s, Write(s, k, e)) /\ Silent(s, Create(s, k, v))
           /\ Silent(s, Update(s, k, v)) /\ Silent(s, Upsert(s, k, type, changed, initial))
<1>1. ASSUME NEW f
      PROVE  Silent(s, Write(s, k, f)) /\ IsKv(Write(s, k, f))
  BY DEF Write, StateOK, IsKv, Silent
<1>2. ASSUME NEW w
      PROVE  Silent(s, Create(s, k, w)) /\ Silent(s, Update(s, k, w))
  <2> DEFINE t == Write(s, k, [value |-> w, expires_at |-> None])
  <2>1. Silent(s, t) /\ IsKv(t)
    BY <1>1
  <2>2. Create(s, k, w) = [t EXCEPT !.memory_bytes = @ + estimate_value_size(w)]
    BY DEF Create
  <2> HIDE DEF t
  <2>3. Silent(s, Create(s, k, w))
    BY <2>1, <2>2 DEF Silent, IsKv
  <2> QED BY <1>1, <2>3 DEF Update
<1>3. Silent(s, s)
  BY DEF Silent
<1> QED BY <1>1, <1>2, <1>3 DEF Upsert

\* The operations in place queue no event.
LEMMA InPlaceSilent ==
    ASSUME NEW s, StateOK(s), NEW k, NEW amount, NEW items, NEW f, NEW text, NEW precision, NEW src
    PROVE  /\ Silent(s, incrby(s, k, amount))
           /\ Silent(s, lpush(s, k, items)) /\ Silent(s, rpush(s, k, items))
           /\ Silent(s, lpop(s, k)) /\ Silent(s, rpop(s, k))
           /\ Silent(s, hset(s, k, f, text)) /\ Silent(s, hdel(s, k, f))
           /\ Silent(s, hincrby(s, k, f, amount)) /\ Silent(s, hincrbyfloat(s, k, f, amount))
           /\ Silent(s, pfreserve(s, k, precision)) /\ Silent(s, pfadd(s, k, items))
           /\ Silent(s, pfmerge(s, k, src))
<1>1. Silent(s, incrby(s, k, amount))
  BY WritesSilent DEF incrby
<1>2. Silent(s, lpush(s, k, items)) /\ Silent(s, rpush(s, k, items))
  BY WritesSilent DEF lpush, rpush
<1>3. Silent(s, lpop(s, k)) /\ Silent(s, rpop(s, k))
  BY WritesSilent DEF lpop, rpop
<1>4. ASSUME NEW txt
      PROVE  Silent(s, hset(s, k, f, txt))
  BY WritesSilent DEF hset
<1>5. Silent(s, hdel(s, k, f))
  BY DEF hdel, Silent, StateOK, IsKv
<1>6. Silent(s, hincrby(s, k, f, amount)) /\ Silent(s, hincrbyfloat(s, k, f, amount))
  BY <1>4 DEF hincrby, hincrbyfloat
<1>7. Silent(s, pfreserve(s, k, precision))
  BY WritesSilent DEF pfreserve
<1>8. Silent(s, pfadd(s, k, items))
  BY WritesSilent DEF pfadd
<1>9. Silent(s, pfmerge(s, k, src))
  BY WritesSilent DEF pfmerge
<1> QED BY <1>1, <1>2, <1>3, <1>4, <1>5, <1>6, <1>7, <1>8, <1>9

\* The operations on a list, a hash or a counter.
LEMMA InPlaceSteps ==
    ASSUME Inv, CounterNext \/ CollectionNext
    PROVE  \E t : Become(t) /\ InPlace(Kv, t) /\ Silent(Kv, t)
<1>0. StateOK(Kv)
  BY InvIsStateOK
<1>1. ASSUME NEW k \in Keys, NEW amount \in Int, Become(incrby(Kv, k, amount))
      PROVE  \E t : Become(t) /\ InPlace(Kv, t) /\ Silent(Kv, t)
  BY <1>0, <1>1, IncrByOK, InPlaceSilent
<1>2. CASE CounterNext
  <2>1. 1 \in Int /\ -1 \in Int /\ Amounts \subseteq Int
    BY InputsAssumption
  <2> QED BY <1>1, <1>2, <2>1 DEF CounterNext, Incr, Decr, IncrBy
<1>3. CASE CollectionNext
  <2>0. <<>> \in Seq(Char) /\ Items \subseteq Seq(Char) /\ Amounts \subseteq Int
        /\ FieldTexts \subseteq FieldText
    BY InputsAssumption
  <2>1. PICK k \in Keys :
          \/ \E items \in Items : LPush(k, items) \/ RPush(k, items)
          \/ LPop(k) \/ RPop(k)
          \/ \E f \in Fields : \/ \E text \in FieldTexts : HSet(k, f, text)
                               \/ HDel(k, f)
                               \/ \E amount \in Amounts : HIncrBy(k, f, amount) \/ HIncrByFloat(k, f, amount)
    BY <1>3 DEF CollectionNext
  <2>2. ASSUME NEW items \in Seq(Char), LPush(k, items) \/ RPush(k, items) \/ LPop(k) \/ RPop(k)
        PROVE  \E t : Become(t) /\ InPlace(Kv, t) /\ Silent(Kv, t)
    BY <1>0, <2>2, ListOK, InPlaceSilent DEF LPush, RPush, LPop, RPop
  <2>3. ASSUME NEW f \in Fields, NEW text \in FieldText, HSet(k, f, text)
        PROVE  \E t : Become(t) /\ InPlace(Kv, t) /\ Silent(Kv, t)
    BY <1>0, <2>3, HsetOK, InPlaceSilent DEF HSet
  <2>4. ASSUME NEW f \in Fields, HDel(k, f)
        PROVE  \E t : Become(t) /\ InPlace(Kv, t) /\ Silent(Kv, t)
    BY <1>0, <2>4, HdelOK, InPlaceSilent DEF HDel
  <2>5. ASSUME NEW f \in Fields, NEW amount \in Int, HIncrBy(k, f, amount) \/ HIncrByFloat(k, f, amount)
        PROVE  \E t : Become(t) /\ InPlace(Kv, t) /\ Silent(Kv, t)
    BY <1>0, <2>5, HincrOK, InPlaceSilent DEF HIncrBy, HIncrByFloat
  <2> QED BY <2>0, <2>1, <2>2, <2>3, <2>4, <2>5
<1> QED BY <1>2, <1>3

\* append to a stored key changes nothing but the value, if anything.
LEMMA AppendInPlace ==
    ASSUME NEW s, StateOK(s), NEW k \in Keys, NEW text \in Seq(Char), s.store[k] # None
    PROVE  InPlace(s, append(s, k, text))
<1>1. CASE Has(s, k, "Str")
  <2> DEFINE v == [type |-> "Str", data |-> s.store[k].value.data \o text]
  <2>1. s.store[k].value.data \in Seq(Char)
    BY <1>1, StoredEntry, DataType DEF Has
  <2>2. s.store[k].value.data \o text \in Seq(Char)
    BY <2>1
  <2>3. v \in Value
    BY <2>2, ValueType
  <2>4. append(s, k, text) = Update(s, k, v)
    BY <1>1 DEF append
  <2> HIDE DEF v
  <2> QED BY <2>3, <2>4, UpdateOK
<1>2. CASE ~Has(s, k, "Str")
  BY <1>2 DEF append, InPlace
<1> QED BY <1>1, <1>2

\* The counters, append to a stored string, every operation on a list, a hash
\* or a sketch but pfmerge keep the expiry time of the stored key, and lose
\* none.
THEOREM ExpirySound == Spec => ExpiryKept
<1> DEFINE A == \A k \in Keys :
                    store[k] # None /\ (store'[k] = None \/ store'[k].expires_at # store[k].expires_at)
                        => ~ChangesInPlace(k)
<1>1. Inv => A
  <2> SUFFICES ASSUME Inv, NEW k \in Keys, store[k] # None, ChangesInPlace(k)
               PROVE  store'[k] # None /\ store'[k].expires_at = store[k].expires_at
    OBVIOUS
  <2>0. StateOK(Kv) /\ Kv.store[k] # None
    BY InvIsStateOK, KvFields
  <2>1. ASSUME NEW t, Become(t), InPlace(Kv, t)
        PROVE  store'[k] # None /\ store'[k].expires_at = store[k].expires_at
    BY <2>1, BecomeFacts, KvFields DEF InPlace
  <2>2. CASE CounterNext \/ CollectionNext
    <3>1. PICK t : Become(t) /\ InPlace(Kv, t)
      BY <2>2, InPlaceSteps
    <3> QED BY <2>1, <3>1
  <2>3. ASSUME NEW text \in Texts, AppendText(k, text)
        PROVE  store'[k] # None /\ store'[k].expires_at = store[k].expires_at
    <3>1. text \in Seq(Char)
      BY InputsAssumption
    <3>2. InPlace(Kv, append(Kv, k, text))
      BY <2>0, <3>1, AppendInPlace
    <3> QED BY <2>1, <2>3, <3>2 DEF AppendText
  <2>4. ASSUME NEW precision \in Precisions, PfReserve(k, precision)
        PROVE  store'[k] # None /\ store'[k].expires_at = store[k].expires_at
    <3>1. precision \in Nat
      BY InputsAssumption
    <3>2. InPlace(Kv, pfreserve(Kv, k, precision))
      BY <2>0, <3>1, SketchOK
    <3> QED BY <2>1, <2>4, <3>2 DEF PfReserve
  <2>5. ASSUME NEW items \in SUBSET Char, PfAdd(k, items)
        PROVE  store'[k] # None /\ store'[k].expires_at = store[k].expires_at
    <3>1. InPlace(Kv, pfadd(Kv, k, items))
      BY <2>0, SketchOK
    <3> QED BY <2>1, <2>5, <3>1 DEF PfAdd
  <2> QED BY <2>2, <2>3, <2>4, <2>5 DEF ChangesInPlace
<1> HIDE DEF A
<1>2. Inv => [A]_vars
  BY <1>1
<1>3. []Inv => [][A]_vars
  BY <1>2, PTL
<1> QED BY <1>3, InvHolds DEF ExpiryKept, A

\* From s to t the key j is lost, or keeps its expiry time.
Fades(s, t, j) == t.store[j] = None \/ t.store[j].expires_at = s.store[j].expires_at

\* What fades while it is expired is still out of sight.
LEMMA FadesUnread ==
    ASSUME NEW t, Become(t), NEW j \in Keys, Expired(j), Fades(Kv, t, j)
    PROVE  get(Kv, j, now)' = None
<1>1. store' = t.store /\ now' = now /\ Kv.store = store /\ Kv'.store = store'
  BY BecomeFacts, KvFields DEF Kv
<1> HIDE DEF Kv
<1>2. store'[j] = None \/ store'[j].expires_at = store[j].expires_at
  BY <1>1 DEF Fades
<1>3. store[j].expires_at # None /\ now > store[j].expires_at
  BY DEF Expired, IsExpired
<1> QED BY <1>1, <1>2, <1>3 DEF get, IsExpired

\* append to an absent key sets it; to another it changes the value in place.
LEMMA AppendFades ==
    ASSUME NEW s, StateOK(s), NEW k \in Keys, NEW text \in Seq(Char), NEW j \in Keys, s.store[j] # None
    PROVE  Fades(s, append(s, k, text), j)
<1>1. CASE s.store[k] = None
  <2> DEFINE v == [type |-> "Str", data |-> text]
  <2>1. v \in Value /\ j # k
    BY <1>1, ValueType
  <2> HIDE DEF v
  <2>2. set(s, k, v, None).store[j] \in {None, s.store[j]}
    BY <2>1, SetElsewhere
  <2>3. append(s, k, text) = set(s, k, v, None)
    BY <1>1 DEF append, v
  <2> QED BY <2>2, <2>3 DEF Fades
<1>2. CASE s.store[k] # None /\ Has(s, k, "Str")
  <2> DEFINE v == [type |-> "Str", data |-> s.store[k].value.data \o text]
  <2>1. s.store[k].value.data \in Seq(Char)
    BY <1>2, StoredEntry, DataType DEF Has
  <2>2. s.store[k].value.data \o text \in Seq(Char)
    BY <2>1
  <2>3. v \in Value
    BY <2>2, ValueType
  <2>4. append(s, k, text) = Update(s, k, v)
    BY <1>2 DEF append
  <2> HIDE DEF v
  <2>5. InPlace(s, Update(s, k, v))
    BY <1>2, <2>3, UpdateOK
  <2> QED BY <2>4, <2>5 DEF InPlace, Fades
<1>3. CASE s.store[k] # None /\ ~Has(s, k, "Str")
  BY <1>3 DEF append, Fades
<1> QED BY <1>1, <1>2, <1>3

\* delete removes its key or nothing; expire leaves an expired key alone, and
\* neither expire nor persist touches another key.
LEMMA OneKeyFades ==
    ASSUME NEW s, StateOK(s), NEW k \in Keys, NEW ttl, NEW t, NEW j \in Keys
    PROVE  /\ Fades(s, delete(s, k), j)
           /\ (j = k => s.store[j] # None /\ IsExpired(s.store[j], t)) => Fades(s, expire(s, k, ttl, t), j)
           /\ j # k => Fades(s, persist(s, k), j)
<1>1. ASSUME NEW e
      PROVE  LET u == [s EXCEPT !.store = [@ EXCEPT ![k] = e]]
             IN  /\ u.store[k] = e /\ \A i \in Keys : i # k => u.store[i] = s.store[i]
                 /\ \A kind : emit_keyspace_event(u, kind, k).store = u.store
  BY DEF emit_keyspace_event, StateOK, IsKv
<1>2. ASSUME NEW op PROVE queue_operation(s, op).store = s.store
  BY DEF queue_operation, StateOK, IsKv
<1>3. Fades(s, delete(s, k), j)
  <2>1. CASE in_transaction(s)
    <3>1. delete(s, k) = queue_operation(s, [op |-> "Delete", key |-> k])
      BY <2>1 DEF delete
    <3> QED BY <3>1, <1>2 DEF Fades
  <2>2. CASE ~in_transaction(s) /\ s.store[k] = None
    BY <2>2 DEF delete, Fades
  <2>3. CASE ~in_transaction(s) /\ s.store[k] # None
    <3> DEFINE u == [s EXCEPT !.store = [@ EXCEPT ![k] = None]]
    <3>1. delete(s, k) = emit_keyspace_event(u, "del", k)
      BY <2>3 DEF delete
    <3>2. /\ u.store[k] = None /\ \A i \in Keys : i # k => u.store[i] = s.store[i]
          /\ emit_keyspace_event(u, "del", k).store = u.store
      BY <1>1
    <3> HIDE DEF u
    <3> QED BY <3>1, <3>2 DEF Fades
  <2> QED BY <2>1, <2>2, <2>3
<1>4. ASSUME j = k => s.store[j] # None /\ IsExpired(s.store[j], t)
      PROVE  Fades(s, expire(s, k, ttl, t), j)
  <2>1. CASE s.store[k] = None \/ IsExpired(s.store[k], t)
    BY <2>1 DEF expire, Fades
  <2>2. CASE ~(s.store[k] = None \/ IsExpired(s.store[k], t))
    <3> DEFINE e == [value |-> s.store[k].value, expires_at |-> checked_add(t, ttl)]
               u == [s EXCEPT !.store = [@ EXCEPT ![k] = e]]
    <3>1. expire(s, k, ttl, t) = emit_keyspace_event(u, "set", k)
      BY <2>2 DEF expire
    <3> HIDE DEF e
    <3>2. /\ \A i \in Keys : i # k => u.store[i] = s.store[i]
          /\ emit_keyspace_event(u, "set", k).store = u.store
      BY <1>1
    <3> HIDE DEF u
    <3> QED BY <1>4, <2>2, <3>1, <3>2 DEF Fades
  <2> QED BY <2>1, <2>2
<1>5. ASSUME j # k
      PROVE  Fades(s, persist(s, k), j)
  <2>1. CASE s.store[k] = None \/ s.store[k].expires_at = None
    BY <2>1 DEF persist, Fades
  <2>2. CASE ~(s.store[k] = None \/ s.store[k].expires_at = None)
    <3> DEFINE e == [value |-> s.store[k].value, expires_at |-> None]
               u == [s EXCEPT !.store = [@ EXCEPT ![k] = e]]
    <3>1. persist(s, k) = emit_keyspace_event(u, "set", k)
      BY <2>2 DEF persist
    <3> HIDE DEF e
    <3>2. /\ \A i \in Keys : i # k => u.store[i] = s.store[i]
          /\ emit_keyspace_event(u, "set", k).store = u.store
      BY <1>1
    <3> HIDE DEF u
    <3> QED BY <1>5, <3>1, <3>2 DEF Fades
  <2> QED BY <2>1, <2>2
<1> QED BY <1>3, <1>4, <1>5

\* Steps that leave the map alone, and the sweep.
LEMMA QuietFades ==
    ASSUME NEW s, StateOK(s), NEW j \in Keys, NEW t, NEW order, NEW enabled
    PROVE  /\ Fades(s, multi(s), j) /\ Fades(s, discard(s), j)
           /\ Fades(s, [s EXCEPT !.events = <<>>], j) /\ Fades(s, [s EXCEPT !.notify = enabled], j)
           /\ Fades(s, cleanup_expired(s, t, order), j)
<1>1. /\ [s EXCEPT !.transaction_queue = <<>>].store = s.store
      /\ [s EXCEPT !.transaction_queue = None].store = s.store
      /\ [s EXCEPT !.events = <<>>].store = s.store
      /\ [s EXCEPT !.notify = enabled].store = s.store
  BY DEF StateOK, IsKv
<1>2. cleanup_expired(s, t, order).store = [k \in Keys |-> IF k \in Due(s, t) THEN None ELSE s.store[k]]
  BY DEF cleanup_expired, StateOK, IsKv
<1>3. cleanup_expired(s, t, order).store[j] \in {None, s.store[j]}
  BY <1>2
<1> QED BY <1>1, <1>3 DEF multi, discard, Fades

\* No step brings back a key that has expired, except those that store a new
\* entry under it and persist: not the operations in place, not the clock.
THEOREM ResurrectionSound == Spec => NoResurrection
<1> DEFINE A == \A k \in Keys : Expired(k) /\ get(Kv, k, now)' # None => Replaces(k) \/ Persist(k)
<1>1. Inv /\ [Next]_vars => [A]_vars
  <2> SUFFICES ASSUME Inv, Next, NEW j \in Keys, Expired(j)
               PROVE  get(Kv, j, now)' = None \/ Replaces(j) \/ Persist(j)
    OBVIOUS
  <2>0. StateOK(Kv) /\ now \in Nat /\ Kv.store[j] # None /\ IsExpired(Kv.store[j], now)
    BY InvIsStateOK, KvFields DEF Expired
  <2>1. ASSUME NEW t, Become(t), InPlace(Kv, t)
        PROVE  get(Kv, j, now)' = None
    BY <2>0, <2>1, FadesUnread DEF InPlace, Fades
  <2>2. ASSUME NEW k \in Keys, NEW v \in Value, NEW x \in Nat \cup {None}, k # j,
               Become(set(Kv, k, v, x))
        PROVE  get(Kv, j, now)' = None
    <3>1. Fades(Kv, set(Kv, k, v, x), j)
      BY <2>0, <2>2, SetElsewhere DEF Fades
    <3> QED BY <2>2, <3>1, FadesUnread
  <2>3. CASE StringNext
    <3>1. ASSUME NEW k \in Keys, NEW v \in Values, Set(k, v) \/ GetSet(k, v)
          PROVE  get(Kv, j, now)' = None \/ Replaces(j)
      <4>1. CASE k = j
        BY <3>1, <4>1 DEF Replaces
      <4>2. CASE k # j
        BY <2>2, <3>1, <4>2, InputsAssumption DEF Set, GetSet, getset
      <4> QED BY <4>1, <4>2
    <3>2. ASSUME NEW k \in Keys, NEW text \in Texts, AppendText(k, text)
          PROVE  get(Kv, j, now)' = None
      BY <2>0, <3>2, AppendFades, FadesUnread, InputsAssumption DEF AppendText
    <3>3. ASSUME NEW k \in Keys, Delete(k)
          PROVE  get(Kv, j, now)' = None
      BY <2>0, <3>3, OneKeyFades, FadesUnread DEF Delete
    <3> QED BY <2>3, <3>1, <3>2, <3>3 DEF StringNext
  <2>4. CASE CounterNext \/ CollectionNext
    BY <2>1, <2>4, InPlaceSteps
  <2>5. CASE BatchNext
    BY <2>5 DEF Replaces
  <2>6. CASE TtlNext
    <3>1. ASSUME NEW k \in Keys, NEW ttl \in Ttls, Expire(k, ttl)
          PROVE  get(Kv, j, now)' = None
      BY <2>0, <3>1, OneKeyFades, FadesUnread DEF Expire
    <3>2. ASSUME NEW k \in Keys, NEW ttl \in Ttls, NEW v \in Values, SetWithTtl(k, v, ttl)
          PROVE  get(Kv, j, now)' = None \/ Replaces(j)
      <4>1. CASE k = j
        BY <3>2, <4>1 DEF Replaces
      <4>2. CASE k # j
        <5>1. v \in Value /\ checked_add(now, ttl) \in Nat \cup {None}
          BY <2>0, InputsAssumption, CheckedAddType
        <5> QED BY <2>2, <3>2, <4>2, <5>1 DEF SetWithTtl, set_with_ttl
      <4> QED BY <4>1, <4>2
    <3>3. ASSUME NEW k \in Keys, Persist(k)
          PROVE  get(Kv, j, now)' = None \/ Persist(j)
      BY <2>0, <3>3, OneKeyFades, FadesUnread DEF Persist
    <3>4. CASE CleanupExpired
      BY <2>0, <3>4, QuietFades, FadesUnread DEF CleanupExpired
    <3>5. CASE Tick
      <4>1. store' = store /\ now' = now + 1 /\ Kv'.store = store' /\ Kv.store = store
        BY <3>5, KvFields DEF Tick, kv, Kv
      <4>2. store[j].expires_at \in Nat /\ now > store[j].expires_at
        BY <2>0, <4>1, StoredEntry DEF IsExpired
      <4>3. now' > store'[j].expires_at /\ store'[j].expires_at # None
        BY <2>0, <4>1, <4>2, NoneAssumption
      <4> QED BY <4>1, <4>3 DEF get, IsExpired
    <3> QED BY <2>6, <3>1, <3>2, <3>3, <3>4, <3>5 DEF TtlNext
  <2>7. CASE TransactionNext
    <3>1. CASE Exec
      BY <3>1 DEF Replaces
    <3>2. CASE Multi \/ Discard
      BY <2>0, <3>2, QuietFades, FadesUnread DEF Multi, Discard
    <3> QED BY <2>7, <3>1, <3>2 DEF TransactionNext
  <2>8. CASE SketchNext
    <3>1. ASSUME NEW k \in Keys, NEW precision \in Precisions, PfReserve(k, precision)
          PROVE  get(Kv, j, now)' = None
      BY <2>0, <2>1, <3>1, SketchOK, InputsAssumption DEF PfReserve
    <3>2. ASSUME NEW k \in Keys, NEW items \in SUBSET Char, PfAdd(k, items)
          PROVE  get(Kv, j, now)' = None
      BY <2>0, <2>1, <3>2, SketchOK DEF PfAdd
    <3>3. ASSUME NEW k \in Keys, NEW src \in Keys, PfMerge(k, src)
          PROVE  get(Kv, j, now)' = None \/ Replaces(j)
      <4>1. CASE k = j
        BY <3>3, <4>1 DEF Replaces
      <4>2. CASE k # j
        <5>1. pfmerge(Kv, k, src).store[j] = Kv.store[j]
          BY <2>0, <4>2, PfMergeOK
        <5> QED BY <3>3, <4>2, <5>1, FadesUnread DEF PfMerge, Fades
      <4> QED BY <4>1, <4>2
    <3> QED BY <2>8, <3>1, <3>2, <3>3 DEF SketchNext
  <2>9. CASE EventNext
    BY <2>0, <2>9, QuietFades, FadesUnread
       DEF EventNext, DrainKeyspaceEvents, SetKeyspaceNotificationsEnabled
  <2> QED BY <2>3, <2>4, <2>5, <2>6, <2>7, <2>8, <2>9 DEF Next
<1> HIDE DEF A
<1>2. []Inv /\ [][Next]_vars => [][A]_vars
  BY <1>1, PTL
<1> QED BY <1>2, InvHolds DEF NoResurrection, A, Spec

\* The smaller and the larger of two numbers.
LEMMA MinMaxOfTwo ==
    ASSUME NEW a \in Int, NEW b \in Int
    PROVE  /\ Min({a, b}) = IF a <= b THEN a ELSE b
           /\ Max({a, b}) = IF a >= b THEN a ELSE b
<1>1. \E m \in {a, b} : \A y \in {a, b} : m <= y
  <2>1. CASE a <= b BY <2>1
  <2>2. CASE b <= a BY <2>2
  <2> QED BY <2>1, <2>2
<1>2. \E m \in {a, b} : \A y \in {a, b} : m >= y
  <2>1. CASE a <= b BY <2>1
  <2>2. CASE b <= a BY <2>2
  <2> QED BY <2>1, <2>2
<1>3. Min({a, b}) \in {a, b} /\ \A y \in {a, b} : Min({a, b}) <= y
  BY <1>1 DEF Min
<1>4. Max({a, b}) \in {a, b} /\ \A y \in {a, b} : Max({a, b}) >= y
  BY <1>2 DEF Max
<1> QED BY <1>3, <1>4

\* The answer of ttl_seconds for a key that has not expired.
LEMMA TtlAnswer ==
    ASSUME NEW s, NEW k \in Keys, NEW t \in Nat, NEW x \in Nat,
           s.store[k] # None, s.store[k].expires_at = x, t <= x
    PROVE  ttl_seconds(s, k, t) = IF x - t <= HalfRange - 1 THEN x - t ELSE HalfRange - 1
<1>1. x # None /\ ~(t > x) /\ x - t \in Int /\ HalfRange - 1 \in Int
  BY NoneAssumption, BoundsAssumption
<1>2. ttl_seconds(s, k, t) = Min({x - t, HalfRange - 1})
  BY <1>1 DEF ttl_seconds
<1> QED BY <1>1, <1>2, MinMaxOfTwo

\* While ttl_seconds answers more than 0, neither the sweep nor a second of the
\* clock hides the key, and the answer falls by no more than the time passed.
THEOREM TtlSound == Spec => TtlHonoured
<1> DEFINE A == \A k \in Keys : ttl_seconds(Kv, k, now) > 0 /\ (CleanupExpired \/ Tick) =>
                    /\ get(Kv, k, now)' # None
                    /\ ttl_seconds(Kv, k, now)' >= ttl_seconds(Kv, k, now) - (now' - now)
<1>1. Inv => A
  <2> SUFFICES ASSUME Inv, NEW k \in Keys, ttl_seconds(Kv, k, now) > 0, CleanupExpired \/ Tick
               PROVE  /\ get(Kv, k, now)' # None
                      /\ ttl_seconds(Kv, k, now)' >= ttl_seconds(Kv, k, now) - (now' - now)
    OBVIOUS
  <2>1. StateOK(Kv) /\ now \in Nat /\ Kv.store = store /\ Kv'.store = store'
    BY InvIsStateOK, KvFields DEF Kv
  <2>2. store[k] # None /\ store[k].expires_at # None /\ ~(now > store[k].expires_at)
    BY <2>1 DEF ttl_seconds
  <2>3. store[k].value \in Value /\ store[k].expires_at \in Nat
    BY <2>1, <2>2, StoredEntry
  <2>4. PICK x \in Nat : x = store[k].expires_at
    BY <2>3
  <2>5. now <= x
    BY <2>1, <2>2, <2>4
  <2>6. ttl_seconds(Kv, k, now) = IF x - now <= HalfRange - 1 THEN x - now ELSE HalfRange - 1
    BY <2>1, <2>2, <2>4, <2>5, TtlAnswer
  <2>7. now < x
    BY <2>1, <2>6, BoundsAssumption
  <2>8. store'[k] = store[k] /\ now' \in {now, now + 1}
    <3>1. CASE CleanupExpired
      <4>1. PICK order : Become(cleanup_expired(Kv, now, order))
        BY <3>1 DEF CleanupExpired
      <4>2. cleanup_expired(Kv, now, order).store
              = [j \in Keys |-> IF j \in Due(Kv, now) THEN None ELSE Kv.store[j]]
        BY <2>1 DEF cleanup_expired, StateOK, IsKv
      <4>3. k \notin Due(Kv, now)
        BY <2>1, <2>4, <2>7 DEF Due
      <4> QED BY <2>1, <4>1, <4>2, <4>3, BecomeFacts
    <3>2. CASE Tick
      BY <3>2 DEF Tick, kv
    <3> QED BY <3>1, <3>2
  <2>9. now' \in Nat /\ now' <= x
    BY <2>1, <2>7, <2>8
  <2>10. get(Kv, k, now)' # None
    BY <2>1, <2>2, <2>3, <2>4, <2>8, <2>9, NoneAssumption DEF get, IsExpired
  <2>11. PICK s, t : s = Kv' /\ t = now'
    OBVIOUS
  <2>12. ttl_seconds(s, k, t) = IF x - t <= HalfRange - 1 THEN x - t ELSE HalfRange - 1
    BY <2>1, <2>2, <2>4, <2>8, <2>9, <2>11, TtlAnswer
  <2>13. ttl_seconds(s, k, t) = ttl_seconds(Kv, k, now)'
    BY <2>11 DEF ttl_seconds
  <2>14. ttl_seconds(Kv, k, now)' >= ttl_seconds(Kv, k, now) - (now' - now)
    <3>1. t \in Nat /\ t \in {now, now + 1} /\ HalfRange \in Nat \ {0}
      BY <2>8, <2>9, <2>11, BoundsAssumption
    <3>2. ttl_seconds(s, k, t) >= ttl_seconds(Kv, k, now) - (t - now)
      BY <2>1, <2>6, <2>12, <3>1
    <3> QED BY <2>11, <2>13, <3>2
  <2> QED BY <2>10, <2>14
<1> HIDE DEF A
<1>2. []Inv => [][A]_vars
  BY <1>1, PTL
<1> QED BY <1>2, InvHolds DEF TtlHonoured, A

-----------------------------------------------------------------------------
(* lrange *)

\* The smallest element of an interval.
LEMMA MinOfInterval ==
    ASSUME NEW a \in Int, NEW b \in Int, a <= b
    PROVE  Min(a..b) = a
<1>1. a \in a..b /\ \A y \in a..b : a <= y
  OBVIOUS
<1>2. Min(a..b) \in a..b /\ \A y \in a..b : Min(a..b) <= y
  BY <1>1 DEF Min
<1> QED BY <1>1, <1>2

\* The clamped indices of lrange cut out exactly the positions between the
\* two indices asked for.
LEMMA ClampIsRange ==
    ASSUME NEW len \in Nat, NEW start \in Int, NEW stop \in Int, stop >= -len
    PROVE  LET from == IF start < 0 THEN Max({len + start, 0}) ELSE Min({start, len})
               to == IF stop < 0 THEN Max({len + stop, 0}) ELSE Min({stop, len - 1})
               range == {i \in 0..(len - 1) : Index(start, len) <= i /\ i <= Index(stop, len)}
           IN  /\ from \in Nat /\ to \in Int
               /\ from > to \/ from >= len => range = {}
               /\ ~(from > to \/ from >= len) => to < len /\ range = from..to
<1> DEFINE from == IF start < 0 THEN Max({len + start, 0}) ELSE Min({start, len})
           to == IF stop < 0 THEN Max({len + stop, 0}) ELSE Min({stop, len - 1})
           range == {i \in 0..(len - 1) : Index(start, len) <= i /\ i <= Index(stop, len)}
<1>1. from = IF start < 0 THEN IF len + start >= 0 THEN len + start ELSE 0
             ELSE IF start <= len THEN start ELSE len
  BY MinMaxOfTwo
<1>2. to = IF stop < 0 THEN len + stop ELSE IF stop <= len - 1 THEN stop ELSE len - 1
  <2>1. CASE stop < 0
    <3>1. len + stop \in Int /\ 0 \in Int /\ len + stop >= 0
      OBVIOUS
    <3> QED BY <2>1, <3>1, MinMaxOfTwo
  <2>2. CASE ~(stop < 0)
    <3>1. len - 1 \in Int
      OBVIOUS
    <3> QED BY <2>2, <3>1, MinMaxOfTwo
  <2> QED BY <2>1, <2>2
<1>3. \A i : i \in range <=>
               /\ i \in Int /\ 0 <= i /\ i < len
               /\ (IF start < 0 THEN len + start ELSE start) <= i
               /\ i <= (IF stop < 0 THEN len + stop ELSE stop)
  BY DEF Index
<1> HIDE DEF from, to, range
<1>4. from \in Nat /\ to \in Int /\ to < len
  BY <1>1, <1>2
<1>5. \A i : i \in range <=> i \in Int /\ from <= i /\ i <= to /\ from < len
  BY <1>1, <1>2, <1>3, <1>4
<1>6. from > to \/ from >= len => range = {}
  BY <1>4, <1>5
<1>7. ~(from > to \/ from >= len) => range = from..to
  <2> SUFFICES ASSUME from <= to, from < len PROVE range = from..to
    BY <1>4
  <2>1. \A i : i \in from..to <=> i \in Int /\ from <= i /\ i <= to
    BY <1>4
  <2> QED BY <1>5, <2>1
<1> QED BY <1>4, <1>6, <1>7 DEF from, to, range

\* lrange answers with the elements between the two indices, for every list
\* the operations leave behind and every pair of indices.
THEOREM RangeSound == Spec => []RangeIsSlice
<1>1. Inv => RangeIsSlice
  <2> SUFFICES ASSUME Inv, NEW k \in Keys,
                      NEW start \in -(MaxLen + 1)..(MaxLen + 1), NEW stop \in -(MaxLen + 1)..(MaxLen + 1)
               PROVE  LET list == IF get(Kv, k, now) = None THEN <<>> ELSE ListOf(Kv, k)
                          len == Len(list)
                          range == {i \in 0..(len - 1) : Index(start, len) <= i /\ i <= Index(stop, len)}
                          answer == lrange(Kv, k, start, stop, now)
                      IN  stop >= -len =>
                              /\ Len(answer) = Cardinality(range)
                              /\ \A i \in 1..Len(answer) : answer[i] = list[Min(range) + i]
    BY DEF RangeIsSlice
  <2> DEFINE list == IF get(Kv, k, now) = None THEN <<>> ELSE ListOf(Kv, k)
             len == Len(list)
             from == IF start < 0 THEN Max({len + start, 0}) ELSE Min({start, len})
             to == IF stop < 0 THEN Max({len + stop, 0}) ELSE Min({stop, len - 1})
             range == {i \in 0..(len - 1) : Index(start, len) <= i /\ i <= Index(stop, len)}
             answer == lrange(Kv, k, start, stop, now)
  <2> SUFFICES ASSUME stop >= -len
               PROVE  /\ Len(answer) = Cardinality(range)
                      /\ \A i \in 1..Len(answer) : answer[i] = list[Min(range) + i]
    OBVIOUS
  <2>0. start \in Int /\ stop \in Int
    BY InputsAssumption
  <2>1. list \in Seq(Char) /\ len \in Nat
    <3>1. ListOf(Kv, k) \in Seq(Char)
      BY InvIsStateOK, ContentsType
    <3> QED BY <3>1
  <2>2. answer = IF from > to \/ from >= len THEN <<>> ELSE SubSeq(list, from + 1, to + 1)
    BY DEF lrange, list_slice
  <2>3. /\ from \in Nat /\ to \in Int
        /\ from > to \/ from >= len => range = {}
        /\ ~(from > to \/ from >= len) => to < len /\ range = from..to
    <3> HIDE DEF list
    <3> QED BY <2>0, <2>1, ClampIsRange
  <2> HIDE DEF list, from, to, range, answer
  <2>4. CASE from > to \/ from >= len
    BY <2>2, <2>3, <2>4, FS_EmptySet
  <2>5. CASE ~(from > to \/ from >= len)
    <3>1. from <= to /\ to < len /\ range = from..to
      BY <2>1, <2>3, <2>5
    <3>2. Cardinality(range) = to - from + 1
      BY <2>3, <3>1, FS_Interval
    <3>3. Min(range) = from
      BY <2>3, <3>1, MinOfInterval
    <3>4. PICK m \in 1..len, n \in 1..len : m = from + 1 /\ n = to + 1
      BY <2>1, <2>3, <3>1
    <3>5. answer = SubSeq(list, m, n)
      BY <2>2, <2>5, <3>4
    <3>6. Len(SubSeq(list, m, n)) = n - m + 1
      BY <2>1, <2>3, <3>1, <3>4
    <3>7. \A i \in 1..(n - m + 1) : SubSeq(list, m, n)[i] = list[m + i - 1]
      BY <2>1, <2>3, <3>1, <3>4
    <3>8. Len(answer) = Cardinality(range)
      BY <2>3, <3>2, <3>4, <3>5, <3>6
    <3>9. ASSUME NEW i \in 1..Len(answer)
          PROVE  answer[i] = list[Min(range) + i]
      <4>1. i \in 1..(n - m + 1) /\ m + i - 1 = from + i
        BY <2>3, <3>4, <3>5, <3>6
      <4> QED BY <3>3, <3>5, <3>7, <4>1
    <3> QED BY <3>8, <3>9
  <2> QED BY <2>4, <2>5
<1> QED BY <1>1, InvHolds, PTL

-----------------------------------------------------------------------------
(* Which keys the eviction loop takes *)

\* update_lru keeps the order of the other keys, and puts k behind them all.
LEMMA UpdateLruOrder ==
    ASSUME NEW lru \in Seq(Keys), NoRepeat(lru), NEW k \in Keys,
           NEW i \in 1..Len(lru), NEW j \in 1..Len(lru), i < j, lru[i] # k
    PROVE  LET new == update_lru(lru, k)
           IN  \E a, b \in 1..Len(new) : a < b /\ new[a] = lru[i] /\ new[b] = lru[j]
<1> DEFINE new == update_lru(lru, k)
           n == Len(lru)
<1>1. PICK p \in 1..(n + 1) :
        /\ \A q \in 1..n : lru[q] = k <=> q = p
        /\ new \in Seq(Keys)
        /\ Len(new) = IF p <= n THEN n ELSE n + 1
        /\ \A q \in 1..(Len(new) - 1) : new[q] = IF q < p THEN lru[q] ELSE lru[q + 1]
        /\ new[Len(new)] = k
  BY UpdateLruShape
<1> HIDE DEF new
<1>2. ASSUME NEW m \in 1..n, m # p
      PROVE  \E a \in 1..(Len(new) - 1) : new[a] = lru[m] /\ a = IF m < p THEN m ELSE m - 1
  <2>1. PICK a \in 1..(Len(new) - 1) : a = IF m < p THEN m ELSE m - 1
    BY <1>1, <1>2
  <2>2. new[a] = IF a < p THEN lru[a] ELSE lru[a + 1]
    BY <1>1
  <2>3. IF m < p THEN a < p /\ a = m ELSE ~(a < p) /\ a + 1 = m
    BY <1>2, <2>1
  <2> QED BY <2>1, <2>2, <2>3
<1>3. i # p
  BY <1>1
<1>4. PICK a \in 1..(Len(new) - 1) : new[a] = lru[i] /\ a = IF i < p THEN i ELSE i - 1
  BY <1>2, <1>3
<1>5. CASE j = p
  <2>1. Len(new) \in 1..Len(new) /\ a < Len(new) /\ a \in 1..Len(new) /\ new[Len(new)] = lru[j]
    BY <1>1, <1>5
  <2> QED BY <1>4, <2>1 DEF new
<1>6. CASE j # p
  <2>1. PICK b \in 1..(Len(new) - 1) : new[b] = lru[j] /\ b = IF j < p THEN j ELSE j - 1
    BY <1>2, <1>6
  <2>2. a < b /\ a \in 1..Len(new) /\ b \in 1..Len(new)
    BY <1>1, <1>3, <1>4, <1>6, <2>1
  <2> QED BY <1>4, <2>1, <2>2 DEF new
<1> QED BY <1>5, <1>6

\* The last key of the vector after a write.
LEMMA UpdateLruLast ==
    ASSUME NEW lru \in Seq(Keys), NoRepeat(lru), NEW k \in Keys
    PROVE  LET new == update_lru(lru, k) IN Len(new) \in Nat \ {0} /\ new[Len(new)] = k
<1> DEFINE new == update_lru(lru, k)
           n == Len(lru)
<1>1. PICK p \in 1..(n + 1) :
        /\ \A q \in 1..n : lru[q] = k <=> q = p
        /\ new \in Seq(Keys)
        /\ Len(new) = IF p <= n THEN n ELSE n + 1
        /\ \A q \in 1..(Len(new) - 1) : new[q] = IF q < p THEN lru[q] ELSE lru[q + 1]
        /\ new[Len(new)] = k
  BY UpdateLruShape
<1> HIDE DEF new
<1> QED BY <1>1 DEF new

LEMMA LastOfTail ==
    ASSUME NEW T, NEW seq \in Seq(T), NEW m \in 1..Len(seq)
    PROVE  Last(SubSeq(seq, m, Len(seq))) = seq[Len(seq)]
<1>1. Len(SubSeq(seq, m, Len(seq))) = Len(seq) - m + 1
  OBVIOUS
<1>2. PICK d \in 1..(Len(seq) - m + 1) : d = Len(seq) - m + 1
  OBVIOUS
<1>3. SubSeq(seq, m, Len(seq))[d] = seq[m + d - 1]
  OBVIOUS
<1>4. m + d - 1 = Len(seq)
  BY <1>2
<1> QED BY <1>1, <1>2, <1>3, <1>4 DEF Last

\* A set takes its victims from the old end: what is older than a victim is a
\* victim, or the key that is written and has become the newest.
LEMMA InsertTakesOldest ==
    ASSUME NEW s, StateOK(s), NEW k \in Keys, NEW v \in Value, NEW x \in Nat \cup {None},
           NEW i \in 1..Len(s.lru_order), NEW j \in 1..Len(s.lru_order), i < j,
           s.store[s.lru_order[j]] # None,
           Insert(s, k, v, x).store[s.lru_order[j]] = None,
           Insert(s, k, v, x).store[s.lru_order[i]] # None
    PROVE  s.lru_order[i] = Last(Insert(s, k, v, x).lru_order)
<1> DEFINE lru == s.lru_order
           g == Grown(s, k, v, x)
           t == Insert(s, k, v, x)
           len == Len(g.lru_order)
<1>1. lru \in Seq(Keys) /\ NoRepeat(lru) /\ lru[i] \in Keys /\ lru[j] \in Keys
  BY DEF StateOK, LruOK
<1>2. /\ StateOK(g) /\ g.lru_order = update_lru(lru, k)
      /\ g.store[k] # None /\ \A q \in Keys : q # k => g.store[q] = s.store[q]
  BY GrownFacts
<1>3. PICK n \in 0..len :
        /\ t.lru_order = SubSeq(g.lru_order, n + 1, len)
        /\ \A q \in Keys : t.store[q] = IF q \in Victims(g, n) THEN None ELSE g.store[q]
  <2>1. \E n \in 0..len : Inserted(s, k, v, x, n)
    BY InsertFacts
  <2> QED BY <2>1 DEF Inserted
<1>4. s.store[lru[j]] # None /\ t.store[lru[j]] = None /\ t.store[lru[i]] # None
  OBVIOUS
<1> HIDE DEF g, t
<1>5. g.lru_order \in Seq(Keys) /\ NoRepeat(g.lru_order) /\ len \in Nat \ {0} /\ g.lru_order[len] = k
  <2>1. g.lru_order \in Seq(Keys) /\ NoRepeat(g.lru_order)
    BY <1>2 DEF StateOK, LruOK
  <2>2. Len(update_lru(lru, k)) \in Nat \ {0} /\ update_lru(lru, k)[Len(update_lru(lru, k))] = k
    BY <1>1, UpdateLruLast
  <2> QED BY <1>2, <2>1, <2>2
<1>6. lru[j] \in Victims(g, n) /\ lru[i] \notin Victims(g, n)
  BY <1>1, <1>2, <1>3, <1>4
<1>7. PICK c \in 1..n : g.lru_order[c] = lru[j]
  BY <1>6 DEF Victims
<1>8. lru[i] = k
  <2> SUFFICES ASSUME lru[i] # k PROVE FALSE
    OBVIOUS
  <2>1. PICK a \in 1..len, b \in 1..len :
          a < b /\ g.lru_order[a] = lru[i] /\ g.lru_order[b] = lru[j]
    <3> DEFINE new == update_lru(lru, k)
    <3>1. \E a, b \in 1..Len(new) : a < b /\ new[a] = lru[i] /\ new[b] = lru[j]
      BY <1>1, UpdateLruOrder
    <3> HIDE DEF new
    <3>2. g.lru_order = new
      BY <1>2 DEF new
    <3> QED BY <3>1, <3>2
  <2>2. b = c
    BY <1>3, <1>5, <1>7, <2>1 DEF NoRepeat
  <2>3. a \in 1..n
    BY <1>3, <1>5, <2>1, <2>2
  <2> QED BY <1>6, <2>1, <2>3 DEF Victims
<1>9. n < len
  <2> SUFFICES ASSUME n = len PROVE FALSE
    BY <1>3, <1>5
  <2>1. len \in 1..n
    BY <1>5
  <2> QED BY <1>5, <1>6, <1>8, <2>1 DEF Victims
<1>10. PICK m \in 1..len : m = n + 1
  BY <1>3, <1>5, <1>9
<1>11. PICK seq \in Seq(Keys) : seq = g.lru_order
  BY <1>5
<1>12. Last(SubSeq(seq, m, Len(seq))) = seq[Len(seq)]
  BY <1>10, <1>11, LastOfTail
<1> QED BY <1>3, <1>5, <1>8, <1>10, <1>11, <1>12 DEF t

\* Outside a transaction a set is refused or carried out.
LEMMA SetOutside ==
    ASSUME NEW s, s.transaction_queue = None, NEW k, NEW v, NEW x
    PROVE  \/ set(s, k, v, x) = s
           \/ k \in Keys /\ set(s, k, v, x) = Insert(s, k, v, x)
BY DEF set, in_transaction

\* The operations that count no write.
LEMMA CountsNoWrite ==
    ASSUME NEW s, StateOK(s), s.transaction_queue = None, NEW k \in Keys, NEW ttl, NEW now0,
           NEW enabled
    PROVE  /\ delete(s, k).total_writes = s.total_writes
           /\ expire(s, k, ttl, now0).total_writes = s.total_writes
           /\ persist(s, k).total_writes = s.total_writes
           /\ multi(s).total_writes = s.total_writes
           /\ [s EXCEPT !.events = <<>>].total_writes = s.total_writes
           /\ [s EXCEPT !.notify = enabled].total_writes = s.total_writes
<1>0. IsKv(s)
  BY DEF StateOK
<1>1. ASSUME NEW f, NEW kind
      PROVE  emit_keyspace_event([s EXCEPT !.store = f], kind, k).total_writes = s.total_writes
  BY <1>0 DEF emit_keyspace_event, IsKv
<1>2. delete(s, k).total_writes = s.total_writes
  BY <1>1 DEF delete, in_transaction
<1>3. expire(s, k, ttl, now0).total_writes = s.total_writes
  BY <1>1 DEF expire
<1>4. persist(s, k).total_writes = s.total_writes
  BY <1>1 DEF persist
<1>5. /\ multi(s).total_writes = s.total_writes
      /\ [s EXCEPT !.events = <<>>].total_writes = s.total_writes
      /\ [s EXCEPT !.notify = enabled].total_writes = s.total_writes
  BY <1>0 DEF multi, IsKv
<1> QED BY <1>2, <1>3, <1>4, <1>5

\* append sets a new key, or changes nothing but the value of a stored one.
LEMMA AppendOutside ==
    ASSUME NEW s, StateOK(s), s.transaction_queue = None, NEW k \in Keys, NEW text \in Seq(Char)
    PROVE  \/ InPlace(s, append(s, k, text))
           \/ \E v \in Value : append(s, k, text) = Insert(s, k, v, None)
<1>1. CASE s.store[k] = None
  <2> DEFINE v == [type |-> "Str", data |-> text]
  <2>1. v \in Value
    BY ValueType
  <2>2. append(s, k, text) = set(s, k, v, None)
    BY <1>1 DEF append
  <2> HIDE DEF v
  <2> QED BY <2>1, <2>2, SetOutside DEF InPlace
<1>2. CASE s.store[k] # None /\ Has(s, k, "Str")
  <2> DEFINE v == [type |-> "Str", data |-> s.store[k].value.data \o text]
  <2>1. s.store[k].value.data \in Seq(Char)
    BY <1>2, StoredEntry, DataType DEF Has
  <2>2. s.store[k].value.data \o text \in Seq(Char)
    BY <2>1
  <2>3. v \in Value
    BY <2>2, ValueType
  <2>4. append(s, k, text) = Update(s, k, v)
    BY <1>2 DEF append
  <2> HIDE DEF v
  <2> QED BY <1>2, <2>3, <2>4, UpdateOK
<1>3. CASE s.store[k] # None /\ ~Has(s, k, "Str")
  BY <1>3 DEF append, InPlace
<1> QED BY <1>1, <1>2, <1>3

LEMMA InsertCounts ==
    ASSUME NEW s, StateOK(s), NEW k \in Keys, NEW v \in Value, NEW x \in Nat \cup {None}
    PROVE  /\ Insert(s, k, v, x).total_writes = s.total_writes + 1
           /\ Insert(s, k, v, x).transaction_queue = s.transaction_queue
<1>1. PICK n \in 0..Len(Grown(s, k, v, x).lru_order) : Inserted(s, k, v, x, n)
  BY InsertFacts
<1> QED BY <1>1 DEF Inserted

\* mset counts no write, one, or two.
LEMMA MsetOutside ==
    ASSUME NEW s, StateOK(s), s.transaction_queue = None, NEW p \in Pairs, NEW q \in Pairs
    PROVE  \/ mset(s, p, q) = s
           \/ \E k \in Keys, v \in Value : mset(s, p, q) = Insert(s, k, v, None)
           \/ mset(s, p, q).total_writes = s.total_writes + 2
<1>1. p[2] \in Value /\ q[2] \in Value
  BY InputsAssumption DEF Value
<1>2. CASE p[1] \notin Keys \/ ~validate_value(p[2])
  BY <1>2 DEF mset
<1>3. CASE ~(p[1] \notin Keys \/ ~validate_value(p[2]))
  <2>1. PICK t : t = Insert(s, p[1], p[2], None)
    OBVIOUS
  <2>2. p[1] \in Keys /\ mset(s, p, q) = set(t, q[1], q[2], None)
    BY <1>3, <2>1 DEF mset, set, in_transaction
  <2>3. StateOK(t)
    BY <1>1, <2>1, <2>2, InsertOK
  <2>4. t.total_writes = s.total_writes + 1 /\ t.transaction_queue = None
    <3>1. PICK a \in Keys, b \in Value : a = p[1] /\ b = p[2]
      BY <1>1, <2>2
    <3>2. /\ Insert(s, a, b, None).total_writes = s.total_writes + 1
          /\ Insert(s, a, b, None).transaction_queue = s.transaction_queue
      <4>1. None \in Nat \cup {None}
        OBVIOUS
      <4> QED BY <4>1, InsertCounts
    <3> QED BY <2>1, <3>1, <3>2
  <2>5. CASE set(t, q[1], q[2], None) = t
    BY <1>1, <2>1, <2>2, <2>5
  <2>6. CASE q[1] \in Keys /\ set(t, q[1], q[2], None) = Insert(t, q[1], q[2], None)
    <3>1. Insert(t, q[1], q[2], None).total_writes = t.total_writes + 1
      <4>1. None \in Nat \cup {None} /\ q[1] \in Keys /\ q[2] \in Value
        BY <1>1, <2>6
      <4> QED BY <2>3, <4>1, InsertCounts
    <3>2. s.total_writes \in Nat
      BY DEF StateOK
    <3> QED BY <2>2, <2>4, <2>6, <3>1, <3>2
  <2> QED BY <2>4, <2>5, <2>6, SetOutside
<1> QED BY <1>2, <1>3

\* Only a set that is carried out evicts: every other operation loses no key,
\* or counts no write, or counts more than one.
LEMMA EvictingStep ==
    ASSUME Inv, Next, NEW j \in Keys, Evicts(j)
    PROVE  \E k \in Keys, v \in Value, x \in Nat \cup {None} : Become(Insert(Kv, k, v, x))
<1> DEFINE Goal == \E k \in Keys, v \in Value, x \in Nat \cup {None} : Become(Insert(Kv, k, v, x))
<1>0. /\ StateOK(Kv) /\ now \in Nat /\ Kv.transaction_queue = None /\ Kv.store = store
      /\ Kv.total_writes = total_writes /\ total_writes \in Nat
      /\ store[j] # None /\ store'[j] = None /\ total_writes' = total_writes + 1
  BY InvIsStateOK, KvFields DEF Evicts, Lost, StateOK
<1> SUFFICES Goal
  OBVIOUS
<1> HIDE DEF Goal
<1>1. ASSUME NEW t, Become(t), InPlace(Kv, t) \/ (Kv.store[j] # None => t.store[j] # None)
      PROVE  FALSE
  BY <1>0, <1>1, BecomeFacts DEF InPlace
<1>2. ASSUME NEW t, Become(t), t.total_writes = Kv.total_writes
      PROVE  FALSE
  BY <1>0, <1>2, BecomeFacts
<1>3. InPlace(Kv, Kv)
  BY DEF InPlace
<1>4. ASSUME NEW k \in Keys, NEW v \in Value, NEW x \in Nat \cup {None}, Become(set(Kv, k, v, x))
      PROVE  Goal
  <2>1. CASE set(Kv, k, v, x) = Kv
    BY <1>1, <1>3, <1>4, <2>1
  <2>2. CASE set(Kv, k, v, x) = Insert(Kv, k, v, x)
    BY <1>4, <2>2 DEF Goal
  <2> QED BY <1>0, <2>1, <2>2, SetOutside
<1>5. CASE StringNext
  <2>1. ASSUME NEW k \in Keys, NEW v \in Values, Set(k, v) \/ GetSet(k, v)
        PROVE  Goal
    BY <1>4, <2>1, InputsAssumption DEF Set, GetSet, getset
  <2>2. ASSUME NEW k \in Keys, NEW text \in Texts, AppendText(k, text)
        PROVE  Goal
    <3>1. text \in Seq(Char)
      BY InputsAssumption
    <3>2. CASE InPlace(Kv, append(Kv, k, text))
      BY <1>1, <2>2, <3>2 DEF AppendText
    <3>3. CASE \E v \in Value : append(Kv, k, text) = Insert(Kv, k, v, None)
      BY <2>2, <3>3 DEF AppendText, Goal
    <3> QED BY <1>0, <3>1, <3>2, <3>3, AppendOutside
  <2>3. ASSUME NEW k \in Keys, Delete(k)
        PROVE  FALSE
    BY <1>0, <1>2, <2>3, CountsNoWrite DEF Delete
  <2> QED BY <1>5, <2>1, <2>2, <2>3 DEF StringNext
<1>6. CASE CounterNext \/ CollectionNext
  <2>1. PICK t : Become(t) /\ InPlace(Kv, t)
    BY <1>6, InPlaceSteps
  <2> QED BY <1>1, <2>1
<1>7. CASE BatchNext
  <2>1. PICK p \in Pairs, q \in Pairs : Become(mset(Kv, p, q))
    BY <1>7 DEF BatchNext, Mset
  <2>2. CASE mset(Kv, p, q) = Kv
    BY <1>1, <1>3, <2>1, <2>2
  <2>3. CASE \E k \in Keys, v \in Value : mset(Kv, p, q) = Insert(Kv, k, v, None)
    BY <2>1, <2>3 DEF Goal
  <2>4. CASE mset(Kv, p, q).total_writes = Kv.total_writes + 2
    BY <1>0, <2>1, <2>4, BecomeFacts
  <2> QED BY <1>0, <2>2, <2>3, <2>4, MsetOutside
<1>8. CASE TtlNext
  <2>1. ASSUME NEW k \in Keys, NEW ttl \in Ttls, Expire(k, ttl)
        PROVE  FALSE
    BY <1>0, <1>2, <2>1, CountsNoWrite DEF Expire
  <2>2. ASSUME NEW k \in Keys, NEW ttl \in Ttls, NEW v \in Values, SetWithTtl(k, v, ttl)
        PROVE  Goal
    <3>1. checked_add(now, ttl) \in Nat \cup {None} /\ v \in Value
      BY <1>0, InputsAssumption, CheckedAddType
    <3> QED BY <1>4, <2>2, <3>1 DEF SetWithTtl, set_with_ttl
  <2>3. ASSUME NEW k \in Keys, Persist(k)
        PROVE  FALSE
    BY <1>0, <1>2, <2>3, CountsNoWrite DEF Persist
  <2>4. CASE CleanupExpired
    <3>1. PICK order : Become(cleanup_expired(Kv, now, order))
      BY <2>4 DEF CleanupExpired
    <3>2. cleanup_expired(Kv, now, order).total_writes = Kv.total_writes
      BY <1>0 DEF cleanup_expired, StateOK, IsKv
    <3> QED BY <1>2, <3>1, <3>2
  <2>5. CASE Tick
    BY <1>0, <2>5 DEF Tick, kv
  <2> QED BY <1>8, <2>1, <2>2, <2>3, <2>4, <2>5 DEF TtlNext
<1>9. CASE TransactionNext
  <2>1. CASE Multi
    BY <1>0, <1>2, <2>1, CountsNoWrite DEF Multi
  <2>2. CASE Discard \/ Exec
    BY <1>0, <2>2 DEF Discard, Exec, in_transaction
  <2> QED BY <1>9, <2>1, <2>2 DEF TransactionNext
<1>10. CASE SketchNext
  <2>1. ASSUME NEW k \in Keys, NEW precision \in Precisions, PfReserve(k, precision)
        PROVE  FALSE
    BY <1>0, <1>1, <2>1, SketchOK, InputsAssumption DEF PfReserve
  <2>2. ASSUME NEW k \in Keys, NEW items \in SUBSET Char, PfAdd(k, items)
        PROVE  FALSE
    BY <1>0, <1>1, <2>2, SketchOK DEF PfAdd
  <2>3. ASSUME NEW k \in Keys, NEW src \in Keys, PfMerge(k, src)
        PROVE  FALSE
    BY <1>0, <1>1, <2>3, PfMergeOK DEF PfMerge
  <2> QED BY <1>10, <2>1, <2>2, <2>3 DEF SketchNext
<1>11. CASE EventNext
  BY <1>0, <1>2, <1>11, CountsNoWrite
     DEF EventNext, DrainKeyspaceEvents, SetKeyspaceNotificationsEnabled
<1> QED BY <1>5, <1>6, <1>7, <1>8, <1>9, <1>10, <1>11 DEF Next

\* A set never evicts a key while a key used less recently stays, the key it
\* writes aside.
THEOREM OldestFirstSound == Spec => EvictsOldestFirst
<1> DEFINE A == \A i, j \in 1..Len(lru_order) :
                    i < j /\ Evicts(lru_order[j]) /\ store'[lru_order[i]] # None
                        => lru_order[i] = Last(lru_order')
<1>1. Inv /\ Next => A
  <2> SUFFICES ASSUME Inv, Next, NEW i \in 1..Len(lru_order), NEW j \in 1..Len(lru_order), i < j,
                      Evicts(lru_order[j]), store'[lru_order[i]] # None
               PROVE  lru_order[i] = Last(lru_order')
    OBVIOUS
  <2>1. StateOK(Kv) /\ Kv.lru_order = lru_order /\ Kv.store = store
    BY InvIsStateOK, KvFields
  <2>2. lru_order[j] \in Keys
    BY <2>1 DEF StateOK, LruOK
  <2>3. PICK k \in Keys, v \in Value, x \in Nat \cup {None} : Become(Insert(Kv, k, v, x))
    BY <2>2, EvictingStep
  <2>4. store' = Insert(Kv, k, v, x).store /\ lru_order' = Insert(Kv, k, v, x).lru_order
    BY <2>3, BecomeFacts
  <2>5. store[lru_order[j]] # None /\ store'[lru_order[j]] = None
    BY DEF Evicts, Lost
  <2> QED BY <2>1, <2>4, <2>5, InsertTakesOldest
<1> HIDE DEF A
<1>2. []Inv /\ [][Next]_vars => [][A]_vars
  BY <1>1, PTL
<1> QED BY <1>2, InvHolds DEF EvictsOldestFirst, A, Spec

\* When a set that evicts leaves a key behind, the counter would still be over
\* the limit without the victim it took last.
LEMMA InsertStopsInTime ==
    ASSUME NEW s, StateOK(s), NEW k \in Keys, NEW v \in Value, NEW x \in Nat \cup {None},
           NEW i \in 1..Len(s.lru_order), s.store[s.lru_order[i]] # None,
           Insert(s, k, v, x).store[s.lru_order[i]] = None,
           \A j \in (i + 1)..Len(s.lru_order) :
              ~(s.store[s.lru_order[j]] # None /\ Insert(s, k, v, x).store[s.lru_order[j]] = None),
           Insert(s, k, v, x).lru_order # <<>>
    PROVE  Insert(s, k, v, x).memory_bytes + estimate_value_size(s.store[s.lru_order[i]].value)
             > max_memory_bytes
<1> DEFINE lru == s.lru_order
           g == Grown(s, k, v, x)
           t == Insert(s, k, v, x)
           len == Len(g.lru_order)
<1>1. lru \in Seq(Keys) /\ NoRepeat(lru)
  BY DEF StateOK, LruOK
<1>2. /\ StateOK(g) /\ g.lru_order = update_lru(lru, k)
      /\ g.store[k] # None /\ \A q \in Keys : q # k => g.store[q] = s.store[q]
  BY GrownFacts
<1>3. PICK n \in 0..len :
        /\ t.lru_order = SubSeq(g.lru_order, n + 1, len)
        /\ \A q \in Keys : t.store[q] = IF q \in Victims(g, n) THEN None ELSE g.store[q]
        /\ n # 0 => n = Cardinality(Rounds(g)) /\ t.memory_bytes = MemoryAfter(g, n)
  <2>1. \E n \in 0..len : Inserted(s, k, v, x, n)
    BY InsertFacts
  <2> QED BY <2>1 DEF Inserted
<1>4. /\ s.store[lru[i]] # None /\ t.store[lru[i]] = None /\ t.lru_order # <<>>
      /\ i \in 1..Len(lru) /\ lru[i] \in Keys
      /\ \A j \in (i + 1)..Len(lru) : ~(s.store[lru[j]] # None /\ t.store[lru[j]] = None)
  BY <1>1
<1> HIDE DEF g, t
<1>5. g.lru_order \in Seq(Keys) /\ NoRepeat(g.lru_order) /\ len \in Nat \ {0} /\ g.lru_order[len] = k
  <2>1. g.lru_order \in Seq(Keys) /\ NoRepeat(g.lru_order)
    BY <1>2 DEF StateOK, LruOK
  <2>2. Len(update_lru(lru, k)) \in Nat \ {0} /\ update_lru(lru, k)[Len(update_lru(lru, k))] = k
    BY <1>1, UpdateLruLast
  <2> QED BY <1>2, <2>1, <2>2
<1>6. n # 0
  <2>1. Victims(g, 0) = {}
    BY DEF Victims
  <2>2. CASE lru[i] = k
    BY <1>2, <1>3, <1>4, <2>1, <2>2
  <2> QED BY <1>2, <1>3, <1>4, <2>1, <2>2
<1>7. n < len
  <2> SUFFICES ASSUME n = len PROVE FALSE
    BY <1>3, <1>5
  <2>1. SubSeq(g.lru_order, len + 1, len) = <<>>
    BY <1>5
  <2> QED BY <1>3, <1>4, <2>1
<1>8. /\ n \in 1..len /\ n - 1 \in 0..len /\ n \in 0..n /\ n - 1 \in 0..(n - 1)
      /\ n = Cardinality(Rounds(g)) /\ t.memory_bytes = MemoryAfter(g, n)
  BY <1>3, <1>5, <1>6
<1>9. MemoryAfter(g, n) <= max_memory_bytes /\ n \in Rounds(g)
  BY <1>2, <1>5, <1>7, <1>8, RoundsArePrefix
<1>10. MemoryAfter(g, n - 1) > max_memory_bytes
  BY <1>9 DEF Rounds
<1>11. /\ MemoryAfter(g, n) \in Nat /\ MemoryAfter(g, n - 1) \in Nat /\ SizeAt(g, n) \in Nat
       /\ MemoryAfter(g, n) + SizeAt(g, n) >= MemoryAfter(g, n - 1)
  BY <1>2, <1>8, MemoryAfterShrinks, ColumnFinite, RoundFrees
<1>12. SizeAt(g, n) # 0 /\ t.memory_bytes + SizeAt(g, n) > max_memory_bytes
  BY <1>8, <1>9, <1>10, <1>11, BoundsAssumption
<1>13. PICK q \in Keys : q = g.lru_order[n]
  BY <1>5, <1>8
<1>14. q # k
  BY <1>5, <1>7, <1>8, <1>13 DEF NoRepeat
<1>15. g.store[q] # None /\ SizeAt(g, n) = estimate_value_size(g.store[q].value)
  BY <1>12, <1>13 DEF SizeAt
<1>16. q \in Victims(g, n) /\ s.store[q] # None /\ t.store[q] = None
  <2>1. q \in Victims(g, n)
    BY <1>8, <1>13 DEF Victims
  <2> QED BY <1>2, <1>3, <1>14, <1>15, <2>1
<1>17. PICK j \in 1..Len(lru) : lru[j] = q
  BY <1>16 DEF StateOK, LruOK, Covers
<1>18. lru[i] \in Victims(g, n)
  BY <1>2, <1>3, <1>4
<1>19. PICK c \in 1..n : g.lru_order[c] = lru[i]
  BY <1>18 DEF Victims
<1>20. lru[i] # k
  <2>1. c \in 1..len /\ len \in 1..len /\ c # len
    BY <1>3, <1>5, <1>7
  <2> QED BY <1>5, <1>19, <2>1 DEF NoRepeat
<1>21. ~(i < j)
  <2> SUFFICES ASSUME i < j PROVE FALSE
    OBVIOUS
  <2>1. j \in (i + 1)..Len(lru)
    BY <1>1, <1>4, <1>17
  <2> QED BY <1>4, <1>16, <1>17, <2>1
<1>22. ~(j < i)
  <2> SUFFICES ASSUME j < i PROVE FALSE
    OBVIOUS
  <2>1. PICK a \in 1..len, b \in 1..len :
          a < b /\ g.lru_order[a] = lru[j] /\ g.lru_order[b] = lru[i]
    <3> DEFINE new == update_lru(lru, k)
    <3>0. lru[j] # k
      BY <1>14, <1>17
    <3>1. \E a, b \in 1..Len(new) : a < b /\ new[a] = lru[j] /\ new[b] = lru[i]
      BY <1>1, <1>4, <3>0, UpdateLruOrder
    <3> HIDE DEF new
    <3>2. g.lru_order = new
      BY <1>2 DEF new
    <3> QED BY <3>1, <3>2
  <2>2. c \in 1..len /\ n \in 1..len
    BY <1>3, <1>5, <1>8
  <2>3. b = c
    BY <1>5, <1>19, <2>1, <2>2 DEF NoRepeat
  <2>4. a = n
    BY <1>5, <1>13, <1>17, <2>1, <2>2 DEF NoRepeat
  <2> QED BY <1>8, <2>1, <2>3, <2>4
<1>23. lru[i] = q
  BY <1>1, <1>4, <1>17, <1>21, <1>22
<1>24. g.store[q] = s.store[q]
  BY <1>2, <1>14
<1>25. t.memory_bytes + estimate_value_size(s.store[q].value) > max_memory_bytes
  BY <1>12, <1>15, <1>24
<1> QED BY <1>23, <1>25 DEF t

\* The loop stops as soon as the counter is within the limit: a set that leaves
\* a key behind evicts none after the one that made room enough.
THEOREM StopsInTimeSound == Spec => EvictionStopsInTime
<1> DEFINE A == \A i \in 1..Len(lru_order) :
                    LastEvicted(i) /\ lru_order' # <<>> =>
                        memory_bytes' + estimate_value_size(store[lru_order[i]].value)
                            > max_memory_bytes
<1>1. Inv /\ Next => A
  <2> SUFFICES ASSUME Inv, Next, NEW i \in 1..Len(lru_order), LastEvicted(i), lru_order' # <<>>
               PROVE  memory_bytes' + estimate_value_size(store[lru_order[i]].value)
                        > max_memory_bytes
    OBVIOUS
  <2>1. StateOK(Kv) /\ Kv.store = store /\ Kv.lru_order = lru_order
    BY InvIsStateOK, KvFields
  <2>2. lru_order[i] \in Keys /\ Evicts(lru_order[i])
    BY <2>1 DEF StateOK, LruOK, LastEvicted
  <2>3. PICK k \in Keys, v \in Value, x \in Nat \cup {None} : Become(Insert(Kv, k, v, x))
    BY <2>2, EvictingStep
  <2>4. /\ store' = Insert(Kv, k, v, x).store /\ lru_order' = Insert(Kv, k, v, x).lru_order
        /\ memory_bytes' = Insert(Kv, k, v, x).memory_bytes
    BY <2>3, BecomeFacts
  <2>5. store[lru_order[i]] # None /\ store'[lru_order[i]] = None
    BY <2>2 DEF Evicts, Lost
  <2>6. \A j \in (i + 1)..Len(lru_order) : ~(store[lru_order[j]] # None /\ store'[lru_order[j]] = None)
    BY <2>2 DEF LastEvicted, Evicts, Lost
  <2> QED BY <2>1, <2>4, <2>5, <2>6, InsertStopsInTime
<1> HIDE DEF A
<1>2. []Inv /\ [][Next]_vars => [][A]_vars
  BY <1>1, PTL
<1> QED BY <1>2, InvHolds DEF EvictionStopsInTime, A, Spec

-----------------------------------------------------------------------------
(* Keyspace events *)

\* The event at i tells that k has left the map.
TellsOf(list, i, k) == list[i].key = k /\ list[i].kind \in {"del", "expired", "evicted"}

\* From s to t events are only added, and with notifications on one of the new
\* ones is about each key that is lost.
Announces(s, t) ==
    /\ t.events \in Seq(KeyspaceEvent) /\ Len(s.events) <= Len(t.events)
    /\ \A i \in 1..Len(s.events) : t.events[i] = s.events[i]
    /\ t.notify = s.notify
    /\ s.notify => \A k \in Keys : s.store[k] # None /\ t.store[k] = None =>
                     \E i \in (Len(s.events) + 1)..Len(t.events) : TellsOf(t.events, i, k)

LEMMA SilentAnnounces ==
    ASSUME NEW s, StateOK(s), NEW t, Silent(s, t),
           \A k \in Keys : s.store[k] # None => t.store[k] # None
    PROVE  Announces(s, t)
<1>1. s.events \in Seq(KeyspaceEvent)
  BY DEF StateOK
<1> QED BY <1>1 DEF Announces, Silent

LEMMA AnnouncesTwice ==
    ASSUME NEW s, StateOK(s), NEW t, NEW u, Announces(s, t), Announces(t, u)
    PROVE  Announces(s, u)
<1>1. /\ s.events \in Seq(KeyspaceEvent) /\ t.events \in Seq(KeyspaceEvent)
      /\ u.events \in Seq(KeyspaceEvent)
      /\ Len(s.events) <= Len(t.events) /\ Len(t.events) <= Len(u.events)
      /\ \A i \in 1..Len(s.events) : t.events[i] = s.events[i]
      /\ \A i \in 1..Len(t.events) : u.events[i] = t.events[i]
      /\ t.notify = s.notify /\ u.notify = s.notify
  BY DEF StateOK, Announces
<1>2. \A i \in 1..Len(s.events) : u.events[i] = s.events[i]
  BY <1>1
<1>3. ASSUME s.notify, NEW k \in Keys, s.store[k] # None, u.store[k] = None
      PROVE  \E i \in (Len(s.events) + 1)..Len(u.events) : TellsOf(u.events, i, k)
  <2>1. CASE t.store[k] = None
    <3>1. PICK i \in (Len(s.events) + 1)..Len(t.events) : TellsOf(t.events, i, k)
      BY <1>3, <2>1 DEF Announces
    <3>2. i \in (Len(s.events) + 1)..Len(u.events) /\ u.events[i] = t.events[i]
      BY <1>1
    <3> QED BY <3>1, <3>2 DEF TellsOf
  <2>2. CASE t.store[k] # None
    <3>1. PICK i \in (Len(t.events) + 1)..Len(u.events) : TellsOf(u.events, i, k)
      BY <1>1, <1>3, <2>2 DEF Announces
    <3>2. i \in (Len(s.events) + 1)..Len(u.events)
      BY <1>1
    <3> QED BY <3>1, <3>2
  <2> QED BY <2>1, <2>2
<1>4. Len(s.events) <= Len(u.events)
  BY <1>1
<1> QED BY <1>1, <1>2, <1>3, <1>4 DEF Announces

\* An event of one key, from a value u that differs from s in its map only.
LEMMA EmitAnnounces ==
    ASSUME NEW s, StateOK(s), NEW u, IsKv(u), Silent(s, u), NEW k \in Keys,
           NEW kind \in {"set", "del", "expired", "evicted"},
           \A j \in Keys : s.store[j] # None /\ u.store[j] = None => j = k /\ kind # "set"
    PROVE  Announces(s, emit_keyspace_event(u, kind, k))
<1> DEFINE t == emit_keyspace_event(u, kind, k)
           e == [kind |-> kind, key |-> k]
<1>1. s.events \in Seq(KeyspaceEvent) /\ u.events = s.events /\ u.notify = s.notify
  BY DEF StateOK, Silent
<1>2. e \in KeyspaceEvent /\ e.key = k /\ e.kind = kind
  BY DEF KeyspaceEvent
<1> HIDE DEF e
<1>3. /\ t.store = u.store /\ t.notify = s.notify
      /\ t.events = IF s.notify THEN Append(s.events, e) ELSE s.events
  BY <1>1 DEF emit_keyspace_event, IsKv, e
<1> HIDE DEF t
<1>4. CASE s.notify
  <2>1. /\ t.events \in Seq(KeyspaceEvent) /\ Len(t.events) = Len(s.events) + 1
        /\ \A i \in 1..Len(s.events) : t.events[i] = s.events[i]
        /\ t.events[Len(s.events) + 1] = e
    BY <1>1, <1>2, <1>3, <1>4
  <2>2. ASSUME NEW j \in Keys, s.store[j] # None, t.store[j] = None
        PROVE  TellsOf(t.events, Len(s.events) + 1, j)
    BY <1>2, <1>3, <2>1, <2>2 DEF TellsOf
  <2>3. Len(s.events) + 1 \in (Len(s.events) + 1)..Len(t.events) /\ Len(s.events) <= Len(t.events)
    BY <1>1, <2>1
  <2> QED BY <1>3, <2>1, <2>2, <2>3 DEF Announces, t
<1>5. CASE ~s.notify
  BY <1>1, <1>3, <1>5 DEF Announces, t
<1> QED BY <1>4, <1>5

\* A list of keys that is announced, and covers the keys lost.
LEMMA ListAnnounces ==
    ASSUME NEW s, StateOK(s), NEW t, NEW ks \in Seq(Keys), NEW kind \in {"expired", "evicted"},
           t.events = IF s.notify THEN s.events \o Announcing(kind, ks) ELSE s.events,
           t.notify = s.notify,
           \A k \in Keys : s.store[k] # None /\ t.store[k] = None => \E i \in 1..Len(ks) : ks[i] = k
    PROVE  Announces(s, t)
<1>1. s.events \in Seq(KeyspaceEvent)
  BY DEF StateOK
<1>2. CASE s.notify
  <2> DEFINE E == Announcing(kind, ks)
  <2>1. /\ E \in Seq(KeyspaceEvent) /\ Len(E) = Len(ks)
        /\ \A i \in 1..Len(ks) : E[i].key = ks[i] /\ E[i].kind = kind
    BY AnnouncingOK
  <2>2. t.events = s.events \o E
    BY <1>2
  <2> HIDE DEF E
  <2>3. /\ t.events \in Seq(KeyspaceEvent) /\ Len(t.events) = Len(s.events) + Len(ks)
        /\ \A i \in 1..Len(s.events) : t.events[i] = s.events[i]
        /\ \A i \in 1..Len(E) : t.events[Len(s.events) + i] = E[i]
    <3>1. PICK a \in Seq(KeyspaceEvent), b \in Seq(KeyspaceEvent) : a = s.events /\ b = E
      BY <1>1, <2>1
    <3>2. /\ a \o b \in Seq(KeyspaceEvent) /\ Len(a \o b) = Len(a) + Len(b)
          /\ \A i \in 1..Len(a) : (a \o b)[i] = a[i]
          /\ \A i \in 1..Len(b) : (a \o b)[Len(a) + i] = b[i]
      BY ConcatOK
    <3> QED BY <2>1, <2>2, <3>1, <3>2
  <2>4. ASSUME NEW k \in Keys, s.store[k] # None, t.store[k] = None
        PROVE  \E i \in (Len(s.events) + 1)..Len(t.events) : TellsOf(t.events, i, k)
    <3>1. PICK i \in 1..Len(ks) : ks[i] = k
      BY <2>4
    <3>2. TellsOf(t.events, Len(s.events) + i, k)
      BY <2>1, <2>3, <3>1 DEF TellsOf
    <3>3. Len(s.events) + i \in (Len(s.events) + 1)..Len(t.events)
      BY <1>1, <2>3
    <3> QED BY <3>2, <3>3
  <2>5. Len(s.events) <= Len(t.events)
    BY <1>1, <2>3
  <2> QED BY <2>3, <2>4, <2>5 DEF Announces
<1>3. CASE ~s.notify
  BY <1>1, <1>3 DEF Announces
<1> QED BY <1>2, <1>3

\* The eviction loop announces each stored key it removes.
LEMMA EnforceAnnounces ==
    ASSUME NEW s, StateOK(s)
    PROVE  Announces(s, enforce_memory_limit(s))
<1> DEFINE n == Cardinality(Rounds(s))
           t == enforce_memory_limit(s)
<1>1. n \in 0..Len(s.lru_order)
  BY RoundsArePrefix
<1>2. /\ t.store = [k \in Keys |-> IF k \in Victims(s, n) THEN None ELSE s.store[k]]
      /\ t.events = IF s.notify THEN s.events \o Announcing("evicted", Evicted(s, n)) ELSE s.events
      /\ t.notify = s.notify
  BY DEF enforce_memory_limit, StateOK, IsKv, Announcing
<1> HIDE DEF n, t
<1>3. PICK ks \in Seq(Keys) :
        /\ ks = Evicted(s, n)
        /\ \A p \in StoredAt(s, n) : \E i \in 1..Len(ks) : ks[i] = s.lru_order[p]
  BY <1>1, EvictedOK
<1>4. ASSUME NEW k \in Keys, s.store[k] # None, t.store[k] = None
      PROVE  \E i \in 1..Len(ks) : ks[i] = k
  <2>1. PICK p \in 1..n : s.lru_order[p] = k
    BY <1>2, <1>4 DEF Victims
  <2>2. p \in StoredAt(s, n)
    BY <1>4, <2>1 DEF StoredAt
  <2> QED BY <1>3, <2>1, <2>2
<1>5. Announces(s, t)
  BY <1>2, <1>3, <1>4, ListAnnounces
<1> QED BY <1>5 DEF t

\* set, whether it refuses, queues or inserts.
LEMMA SetAnnounces ==
    ASSUME NEW s, StateOK(s), NEW k, NEW v \in Value, NEW x \in Nat \cup {None}
    PROVE  Announces(s, set(s, k, v, x))
<1>1. CASE k \notin Keys \/ ~validate_value(v)
  BY <1>1, SilentAnnounces DEF set, Silent
<1>2. CASE k \in Keys /\ validate_value(v) /\ in_transaction(s)
  <2>1. PICK op : set(s, k, v, x) = queue_operation(s, op)
    BY <1>2 DEF set
  <2>2. queue_operation(s, op).store = s.store /\ Silent(s, queue_operation(s, op))
    BY DEF queue_operation, StateOK, IsKv, Silent
  <2> QED BY <2>1, <2>2, SilentAnnounces
<1>3. CASE k \in Keys /\ validate_value(v) /\ ~in_transaction(s)
  <2> DEFINE g == Grown(s, k, v, x)
             b == enforce_memory_limit(g)
             bounded == IF max_memory_bytes > 0 /\ lru_eviction_enabled THEN b ELSE g
  <2>1. set(s, k, v, x) = emit_keyspace_event(bounded, "set", k)
    BY <1>3 DEF set, Insert, Grown
  <2>2. /\ StateOK(g) /\ g.events = s.events /\ g.notify = s.notify
        /\ g.store[k] # None /\ \A j \in Keys : j # k => g.store[j] = s.store[j]
    BY <1>3, GrownFacts
  <2> HIDE DEF g
  <2>3. Announces(s, g)
    BY <2>2, SilentAnnounces DEF Silent
  <2>4. Announces(g, b) /\ StateOK(b)
    BY <2>2, EnforceAnnounces, EnforceOK
  <2> HIDE DEF b
  <2>5. Announces(s, bounded) /\ StateOK(bounded)
    BY <2>2, <2>3, <2>4, AnnouncesTwice
  <2> HIDE DEF bounded
  <2>6. IsKv(bounded) /\ Silent(bounded, bounded)
    BY <2>5 DEF StateOK, Silent
  <2>7. Announces(bounded, emit_keyspace_event(bounded, "set", k))
    BY <1>3, <2>5, <2>6, EmitAnnounces
  <2> QED BY <2>1, <2>5, <2>7, AnnouncesTwice
<1> QED BY <1>1, <1>2, <1>3

\* delete announces its key; expire and persist lose none.
LEMMA OneKeyAnnounces ==
    ASSUME NEW s, StateOK(s), NEW k \in Keys, NEW ttl \in Nat, NEW t \in Nat
    PROVE  /\ Announces(s, delete(s, k))
           /\ Announces(s, expire(s, k, ttl, t))
           /\ Announces(s, persist(s, k))
<1>0. Announces(s, s)
  BY SilentAnnounces DEF Silent
<1>1. ASSUME NEW e, NEW kind \in {"set", "del"}, e = None => kind = "del"
      PROVE  Announces(s, emit_keyspace_event([s EXCEPT !.store = [@ EXCEPT ![k] = e]], kind, k))
  <2> DEFINE u == [s EXCEPT !.store = [@ EXCEPT ![k] = e]]
  <2>1. /\ IsKv(u) /\ Silent(s, u) /\ u.store[k] = e
        /\ \A i \in Keys : i # k => u.store[i] = s.store[i]
    BY DEF StateOK, IsKv, Silent
  <2> HIDE DEF u
  <2>2. Announces(s, emit_keyspace_event(u, kind, k))
    BY <1>1, <2>1, EmitAnnounces
  <2> QED BY <2>2 DEF u
<1>2. Announces(s, delete(s, k))
  <2>1. CASE in_transaction(s)
    <3>1. PICK op : delete(s, k) = queue_operation(s, op)
      BY <2>1 DEF delete
    <3>2. queue_operation(s, op).store = s.store /\ Silent(s, queue_operation(s, op))
      BY DEF queue_operation, StateOK, IsKv, Silent
    <3> QED BY <3>1, <3>2, SilentAnnounces
  <2>2. CASE ~in_transaction(s)
    BY <1>0, <1>1, <2>2 DEF delete
  <2> QED BY <2>1, <2>2
<1>3. ASSUME NEW x \in Nat \cup {None}, s.store[k] # None
      PROVE  Announces(s, emit_keyspace_event([s EXCEPT !.store = [@ EXCEPT ![k] =
                [value |-> s.store[k].value, expires_at |-> x]]], "set", k))
  <2> DEFINE e == [value |-> s.store[k].value, expires_at |-> x]
  <2>1. e # None
    BY <1>3, StoredEntry, EntryType, NoneAssumption
  <2> QED BY <1>1, <2>1
<1>4. Announces(s, expire(s, k, ttl, t))
  BY <1>0, <1>3, CheckedAddType DEF expire
<1>5. Announces(s, persist(s, k))
  BY <1>0, <1>3 DEF persist
<1> QED BY <1>2, <1>4, <1>5

LEMMA AppendAnnounces ==
    ASSUME NEW s, StateOK(s), NEW k \in Keys, NEW text \in Seq(Char)
    PROVE  Announces(s, append(s, k, text))
<1>1. CASE s.store[k] = None
  <2>1. [type |-> "Str", data |-> text] \in Value
    BY ValueType
  <2> QED BY <1>1, <2>1, SetAnnounces DEF append
<1>2. CASE s.store[k] # None /\ Has(s, k, "Str")
  <2> DEFINE v == [type |-> "Str", data |-> s.store[k].value.data \o text]
  <2>1. s.store[k].value.data \in Seq(Char)
    BY <1>2, StoredEntry, DataType DEF Has
  <2>2. s.store[k].value.data \o text \in Seq(Char)
    BY <2>1
  <2>3. v \in Value
    BY <2>2, ValueType
  <2>4. append(s, k, text) = Update(s, k, v)
    BY <1>2 DEF append
  <2> HIDE DEF v
  <2>5. InPlace(s, Update(s, k, v)) /\ Silent(s, Update(s, k, v))
    BY <1>2, <2>3, UpdateOK, WritesSilent
  <2> QED BY <2>4, <2>5, SilentAnnounces DEF InPlace
<1>3. CASE s.store[k] # None /\ ~Has(s, k, "Str")
  BY <1>3, SilentAnnounces DEF append, Silent
<1> QED BY <1>1, <1>2, <1>3

LEMMA MsetAnnounces ==
    ASSUME NEW s, StateOK(s), NEW p \in Pairs, NEW q \in Pairs
    PROVE  Announces(s, mset(s, p, q))
<1>1. PICK v \in Value, w \in Value : v = p[2] /\ w = q[2]
  BY InputsAssumption DEF Value
<1>2. PICK x \in Nat \cup {None} : x = None
  OBVIOUS
<1>3. PICK t : t = set(s, p[1], v, x)
  OBVIOUS
<1>4. StateOK(t) /\ Announces(s, t)
  BY <1>3, SetOK, SetAnnounces
<1>5. Announces(t, set(t, q[1], w, x))
  BY <1>4, SetAnnounces
<1>6. Announces(s, set(t, q[1], w, x))
  BY <1>4, <1>5, AnnouncesTwice
<1>7. Announces(s, s)
  BY SilentAnnounces DEF Silent
<1> QED BY <1>1, <1>2, <1>3, <1>6, <1>7 DEF mset

\* The sweep announces each key it removes.
LEMMA CleanupAnnounces ==
    ASSUME NEW s, StateOK(s), NEW t \in Nat, NEW order \in DueOrders(s, t)
    PROVE  Announces(s, cleanup_expired(s, t, order))
<1> DEFINE u == cleanup_expired(s, t, order)
<1>1. /\ u.store = [k \in Keys |-> IF k \in Due(s, t) THEN None ELSE s.store[k]]
      /\ u.events = IF s.notify THEN s.events \o Announcing("expired", order) ELSE s.events
      /\ u.notify = s.notify
  BY DEF cleanup_expired, StateOK, IsKv, Announcing
<1> HIDE DEF u
<1>2. order \in Seq(Keys) /\ \A k \in Due(s, t) : \E i \in 1..Len(order) : order[i] = k
  BY DueListed
<1>3. \A k \in Keys : s.store[k] # None /\ u.store[k] = None => k \in Due(s, t)
  BY <1>1
<1>4. Announces(s, u)
  BY <1>1, <1>2, <1>3, ListAnnounces
<1> QED BY <1>4 DEF u

\* A step that loses a key announces what it loses, but for exec.
LEMMA LosingStep ==
    ASSUME Inv, Next, ~Exec, NEW j \in Keys, Lost(j)
    PROVE  \E t : Become(t) /\ Announces(Kv, t)
<1> DEFINE Goal == \E t : Become(t) /\ Announces(Kv, t)
<1> SUFFICES Goal
  OBVIOUS
<1>0. /\ StateOK(Kv) /\ now \in Nat /\ Kv.store = store
      /\ store[j] # None /\ store'[j] = None
  BY InvIsStateOK, KvFields DEF Lost
<1>1. ASSUME NEW t, Become(t), Announces(Kv, t)
      PROVE  Goal
  BY <1>1
<1> HIDE DEF Goal
<1>2. ASSUME NEW t, Become(t), InPlace(Kv, t) \/ t.store = Kv.store
      PROVE  FALSE
  BY <1>0, <1>2, BecomeFacts DEF InPlace
<1>3. CASE StringNext
  <2>1. ASSUME NEW k \in Keys, NEW v \in Values, Set(k, v) \/ GetSet(k, v)
        PROVE  Goal
    <3>1. v \in Value /\ None \in Nat \cup {None}
      BY InputsAssumption
    <3>2. Announces(Kv, set(Kv, k, v, None))
      BY <1>0, <3>1, SetAnnounces
    <3> QED BY <1>1, <2>1, <3>2 DEF Set, GetSet, getset
  <2>2. ASSUME NEW k \in Keys, NEW text \in Texts, AppendText(k, text)
        PROVE  Goal
    BY <1>0, <1>1, <2>2, InputsAssumption, AppendAnnounces DEF AppendText
  <2>3. ASSUME NEW k \in Keys, Delete(k)
        PROVE  Goal
    <3>1. 0 \in Nat
      OBVIOUS
    <3>2. Announces(Kv, delete(Kv, k))
      BY <1>0, <3>1, OneKeyAnnounces
    <3> QED BY <1>1, <2>3, <3>2 DEF Delete
  <2> QED BY <1>3, <2>1, <2>2, <2>3 DEF StringNext
<1>4. CASE CounterNext \/ CollectionNext
  <2>1. PICK t : Become(t) /\ InPlace(Kv, t)
    BY <1>4, InPlaceSteps
  <2> QED BY <1>2, <2>1
<1>5. CASE BatchNext
  <2>1. PICK p \in Pairs, q \in Pairs : Become(mset(Kv, p, q))
    BY <1>5 DEF BatchNext, Mset
  <2> QED BY <1>0, <1>1, <2>1, MsetAnnounces
<1>6. CASE TtlNext
  <2>1. ASSUME NEW k \in Keys, NEW ttl \in Ttls, Expire(k, ttl)
        PROVE  Goal
    <3>1. Announces(Kv, expire(Kv, k, ttl, now))
      BY <1>0, InputsAssumption, OneKeyAnnounces
    <3> QED BY <1>1, <2>1, <3>1 DEF Expire
  <2>2. ASSUME NEW k \in Keys, NEW ttl \in Ttls, NEW v \in Values, SetWithTtl(k, v, ttl)
        PROVE  Goal
    <3>1. v \in Value /\ checked_add(now, ttl) \in Nat \cup {None}
      BY <1>0, InputsAssumption, CheckedAddType
    <3> QED BY <1>0, <1>1, <2>2, <3>1, SetAnnounces DEF SetWithTtl, set_with_ttl
  <2>3. ASSUME NEW k \in Keys, Persist(k)
        PROVE  Goal
    <3>1. 0 \in Nat
      OBVIOUS
    <3>2. Announces(Kv, persist(Kv, k))
      BY <1>0, <3>1, OneKeyAnnounces
    <3> QED BY <1>1, <2>3, <3>2 DEF Persist
  <2>4. CASE CleanupExpired
    <3>1. PICK order \in DueOrders(Kv, now) : Become(cleanup_expired(Kv, now, order))
      BY <2>4 DEF CleanupExpired, DueOrders
    <3> QED BY <1>0, <1>1, <3>1, CleanupAnnounces
  <2>5. CASE Tick
    BY <1>0, <2>5 DEF Tick, kv
  <2> QED BY <1>6, <2>1, <2>2, <2>3, <2>4, <2>5 DEF TtlNext
<1>7. CASE TransactionNext
  <2>1. multi(Kv).store = Kv.store /\ discard(Kv).store = Kv.store
    BY <1>0 DEF multi, discard, StateOK, IsKv
  <2>2. ~(Multi \/ Discard)
    BY <1>2, <2>1 DEF Multi, Discard
  <2> QED BY <1>7, <2>2 DEF TransactionNext
<1>8. CASE SketchNext
  <2>1. ASSUME NEW k \in Keys, NEW precision \in Precisions, PfReserve(k, precision)
        PROVE  FALSE
    BY <1>0, <1>2, <2>1, SketchOK, InputsAssumption DEF PfReserve
  <2>2. ASSUME NEW k \in Keys, NEW items \in SUBSET Char, PfAdd(k, items)
        PROVE  FALSE
    BY <1>0, <1>2, <2>2, SketchOK DEF PfAdd
  <2>3. ASSUME NEW k \in Keys, NEW src \in Keys, PfMerge(k, src)
        PROVE  FALSE
    <3>1. pfmerge(Kv, k, src).store[j] # None
      BY <1>0, PfMergeOK
    <3> QED BY <1>0, <2>3, <3>1, BecomeFacts DEF PfMerge
  <2> QED BY <1>8, <2>1, <2>2, <2>3 DEF SketchNext
<1>9. CASE EventNext
  <2>1. /\ [Kv EXCEPT !.events = <<>>].store = Kv.store
        /\ \A enabled : [Kv EXCEPT !.notify = enabled].store = Kv.store
    BY <1>0 DEF StateOK, IsKv
  <2> HIDE DEF Kv
  <2> QED BY <1>2, <1>9, <2>1 DEF EventNext, DrainKeyspaceEvents, SetKeyspaceNotificationsEnabled
<1> QED BY <1>3, <1>4, <1>5, <1>6, <1>7, <1>8, <1>9 DEF Next

\* With notifications on no key leaves the map unannounced, whoever removes it:
\* delete, the sweep, or the eviction loop on a write of another key.
THEOREM AnnouncedSound == Spec => RemovalsAnnounced
<1> DEFINE A == notify /\ ~Exec =>
                    \A k \in Keys : Lost(k) =>
                        \E i \in (Len(events) + 1)..Len(events') :
                            /\ events'[i].key = k
                            /\ events'[i].kind \in {"del", "expired", "evicted"}
<1>1. Inv /\ Next => A
  <2> SUFFICES ASSUME Inv, Next, ~Exec, notify, NEW k \in Keys, Lost(k)
               PROVE  \E i \in (Len(events) + 1)..Len(events') :
                          /\ events'[i].key = k
                          /\ events'[i].kind \in {"del", "expired", "evicted"}
    OBVIOUS
  <2>1. PICK t : Become(t) /\ Announces(Kv, t)
    BY LosingStep
  <2>2. store' = t.store /\ events' = t.events
    BY <2>1, BecomeFacts
  <2>3. Kv.store = store /\ Kv.events = events /\ Kv.notify = notify
    BY KvFields
  <2>4. store[k] # None /\ store'[k] = None
    BY DEF Lost
  <2>5. \E i \in (Len(events) + 1)..Len(t.events) : TellsOf(t.events, i, k)
    BY <2>1, <2>2, <2>3, <2>4 DEF Announces
  <2> QED BY <2>2, <2>5 DEF TellsOf
<1> HIDE DEF A
<1>2. []Inv /\ [][Next]_vars => [][A]_vars
  BY <1>1, PTL
<1> QED BY <1>2, InvHolds DEF RemovalsAnnounced, A, Spec
=============================================================================
