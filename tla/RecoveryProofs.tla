--------------------------- MODULE RecoveryProofs ---------------------------
(***************************************************************************)
(* Recovery is faithful, for any number of clients, any handlers and       *)
(* inputs, crashes, failing writes, sweeps, shutdowns and restarts: what   *)
(* the saved file and the log would bring back is what clients see.        *)
(***************************************************************************)
EXTENDS ServerProofs

\* Nothing is evicted, and no time to live reaches beyond the 64 bits.
Roomy == NoLimit /\ \A ttl \in Ttls \ {None} : MaxNow + ttl <= MaxU64

-----------------------------------------------------------------------------
(* Commands and what a restart brings back *)

\* A life that ends at x ends no earlier than one that ends at y.
NoEarlier(x, y) == x = y \/ (x # None /\ y # None /\ x >= y)

\* The entry x has not expired at time t.
Alive(x, t) == x = None \/ x.expires_at = None \/ x.expires_at >= t

LEMMA SlotParts ==
    ASSUME NEW e \in Slot
    PROVE  /\ e # None => e \in Entry /\ e.value \in Value /\ e.expires_at \in Nat \cup {None}
           /\ Is(e, "Str") => e.value.data \in Seq(Char)
           /\ Is(e, "Int") => e.value.data \in I64
           /\ ListIn(e) \in Seq(Char)
           /\ HashIn(e) \in [Fields -> FieldText \cup {None}]
<1>1. e # None => e \in Entry /\ e.value \in Value /\ e.expires_at \in Nat \cup {None}
  BY DEF Slot, Entry
<1>2. Is(e, "List") => e.value.data \in Seq(Char)
  BY <1>1, DataType DEF Is
<1>3. Is(e, "Hash") => e.value.data \in [Fields -> FieldText \cup {None}]
  BY <1>1, DataType DEF Is
<1>4. (Is(e, "Str") => e.value.data \in Seq(Char)) /\ (Is(e, "Int") => e.value.data \in I64)
  BY <1>1, DataType DEF Is
<1>5. <<>> \in Seq(Char) /\ NoFields \in [Fields -> FieldText \cup {None}]
  BY DEF NoFields
<1> QED BY <1>1, <1>2, <1>3, <1>4, <1>5 DEF ListIn, HashIn

LEMMA HoldingType ==
    ASSUME NEW type, NEW data, [type |-> type, data |-> data] \in Value, NEW x \in Nat \cup {None}
    PROVE  Holding(type, data, x) \in Entry /\ Holding(type, data, x) # None
<1>1. Holding(type, data, x) \in Entry
  BY EntryType DEF Holding
<1> QED BY <1>1, NoneAssumption

\* What SameEntry says of two entries.
Alike(x, y) ==
    /\ x = None <=> y = None
    /\ x # None => /\ x.value.type = y.value.type /\ x.value.data = y.value.data
                   /\ NoEarlier(x.expires_at, y.expires_at)
    /\ \A type : Is(x, type) <=> Is(y, type)
    /\ HashIn(x) = HashIn(y) /\ ListIn(x) = ListIn(y)

LEMMA SameIsAlike ==
    ASSUME NEW x, NEW y, SameEntry(x, y)
    PROVE  Alike(x, y)
<1>1. x = None <=> y = None
  BY DEF SameEntry
<1>2. x # None => /\ x.value.type = y.value.type /\ x.value.data = y.value.data
                  /\ NoEarlier(x.expires_at, y.expires_at)
  BY <1>1 DEF SameEntry, NoEarlier
<1>3. \A type : Is(x, type) <=> Is(y, type)
  BY <1>1, <1>2 DEF Is
<1>4. HashIn(x) = HashIn(y) /\ ListIn(x) = ListIn(y)
  BY <1>1, <1>2, <1>3 DEF HashIn, ListIn, Is
<1> QED BY <1>1, <1>2, <1>3, <1>4 DEF Alike

LEMMA HoldingSame ==
    ASSUME NEW type, NEW data, [type |-> type, data |-> data] \in Value,
           NEW x \in Nat \cup {None}, NEW y \in Nat \cup {None}, NoEarlier(x, y)
    PROVE  SameEntry(Holding(type, data, x), Holding(type, data, y))
<1>1. Holding(type, data, x) # None /\ Holding(type, data, y) # None
  BY HoldingType
<1> QED BY <1>1 DEF SameEntry, Holding, NoEarlier

LEMMA UpsertSame ==
    ASSUME NEW x \in Slot, NEW y \in Slot, SameEntry(x, y), NEW type, NEW changed, NEW initial,
           [type |-> type, data |-> changed] \in Value,
           [type |-> type, data |-> initial] \in Value
    PROVE  SameEntry(Upserted(x, type, changed, initial), Upserted(y, type, changed, initial))
<1>1. Alike(x, y)
  BY SameIsAlike
<1>2. CASE x = None
  <2>1. y = None /\ NoEarlier(None, None)
    BY <1>1, <1>2 DEF Alike, NoEarlier
  <2>2. SameEntry(Holding(type, initial, None), Holding(type, initial, None))
    BY <2>1, HoldingSame
  <2> QED BY <1>2, <2>1, <2>2 DEF Upserted
<1>3. CASE x # None /\ Is(x, type)
  <2>1. y # None /\ Is(y, type) /\ NoEarlier(x.expires_at, y.expires_at)
    BY <1>1, <1>3 DEF Alike
  <2>2. x.expires_at \in Nat \cup {None} /\ y.expires_at \in Nat \cup {None}
    BY <1>3, <2>1, SlotParts
  <2>3. SameEntry(Holding(type, changed, x.expires_at), Holding(type, changed, y.expires_at))
    BY <2>1, <2>2, HoldingSame
  <2> QED BY <1>3, <2>1, <2>3 DEF Upserted
<1>4. CASE x # None /\ ~Is(x, type)
  <2>1. y # None /\ ~Is(y, type)
    BY <1>1, <1>4 DEF Alike
  <2> QED BY <1>4, <2>1 DEF Upserted
<1> QED BY <1>2, <1>3, <1>4

LEMMA FieldSame ==
    ASSUME NEW x \in Slot, NEW y \in Slot, SameEntry(x, y), NEW f \in Fields,
           NEW text \in FieldText \cup {None}
    PROVE  SameEntry(WithField(x, f, text), WithField(y, f, text))
<1> DEFINE h == [HashIn(x) EXCEPT ![f] = text]
<1>1. h = [HashIn(y) EXCEPT ![f] = text]
  BY SameIsAlike DEF Alike
<1>2. h \in [Fields -> FieldText \cup {None}]
  BY SlotParts
<1>3. /\ WithField(x, f, text) = Upserted(x, "Hash", h, h)
      /\ WithField(y, f, text) = Upserted(y, "Hash", h, h)
  BY <1>1 DEF WithField
<1> HIDE DEF h
<1>4. [type |-> "Hash", data |-> h] \in Value
  BY <1>2, ValueType
<1> QED BY <1>3, <1>4, UpsertSame

\* Carried out later, a command treats what comes back as it treated what clients saw,
\* except that an expire needs an entry that is still alive.
LEMMA SameAfter ==
    ASSUME NEW x \in Slot, NEW y \in Slot, SameEntry(x, y), NEW c, Single(c), c.key \in Keys, Roomy,
           NEW u \in Nat, NEW t \in Nat, u <= t, t <= MaxNow, c.op = "expire" => Alive(x, t)
    PROVE  SameEntry(After(x, c, t), After(y, c, u))
<1> USE DEF Single
<1>1. Alike(x, y)
  BY SameIsAlike
<1>2. Ttls \ {None} \subseteq Nat /\ MaxNow \in Nat /\ MaxU64 \in Nat /\ None \notin Nat
  BY ServerAssumption, BoundsAssumption, NoneAssumption
<1>2a. \A ttl \in Ttls \ {None} : checked_add(t, ttl) = t + ttl /\ checked_add(u, ttl) = u + ttl
  BY <1>2 DEF Roomy, checked_add
<1>3. CASE c.op = "set"
  <2>1. CASE c.key \notin Keys \/ ~validate_value(Str(c.text))
    BY <1>3, <2>1 DEF After
  <2>2. CASE ~(c.key \notin Keys \/ ~validate_value(Str(c.text)))
    <3> DEFINE end(r) == IF c.ttl = None THEN None ELSE checked_add(r, c.ttl)
    <3>1. end(t) \in Nat \cup {None} /\ end(u) \in Nat \cup {None} /\ NoEarlier(end(t), end(u))
      BY <1>2, <1>2a, <1>3 DEF NoEarlier
    <3>2. After(x, c, t) = Holding("Str", c.text, end(t)) /\ After(y, c, u) = Holding("Str", c.text, end(u))
      BY <1>3, <2>2 DEF After
    <3> HIDE DEF end
    <3>3. [type |-> "Str", data |-> c.text] \in Value
      BY <1>3, ValueType
    <3> QED BY <3>1, <3>2, <3>3, HoldingSame
  <2> QED BY <2>1, <2>2
<1>4. CASE c.op = "delete"
  BY <1>4 DEF After, SameEntry
<1>5. CASE c.op = "incrby"
  <2>1. CASE Is(x, "Int")
    <3> DEFINE n == wrap(x.value.data + c.amount)
    <3>1. Is(y, "Int") /\ y.value.data = x.value.data /\ NoEarlier(x.expires_at, y.expires_at)
      BY <1>1, <2>1 DEF Alike, Is
    <3>2. n \in I64
      <4>1. x.value.data \in Int /\ c.amount \in Int
        BY <1>5, <2>1, SlotParts, BoundsAssumption DEF I64
      <4> QED BY <4>1, WrapType
    <3>3. After(x, c, t) = Holding("Int", n, x.expires_at) /\ After(y, c, u) = Holding("Int", n, y.expires_at)
      BY <1>5, <2>1, <3>1 DEF After
    <3> HIDE DEF n
    <3>4. [type |-> "Int", data |-> n] \in Value
      BY <3>2, ValueType
    <3>5. x.expires_at \in Nat \cup {None} /\ y.expires_at \in Nat \cup {None}
      BY <2>1, <3>1, SlotParts DEF Is
    <3> QED BY <3>1, <3>3, <3>4, <3>5, HoldingSame
  <2>2. CASE ~Is(x, "Int")
    BY <1>1, <1>5, <2>2 DEF After, Alike
  <2> QED BY <2>1, <2>2
<1>6. CASE c.op = "append"
  <2>1. CASE x = None
    <3>1. y = None
      BY <1>1, <2>1 DEF Alike
    <3>2. After(x, c, t) = After(y, c, u)
      BY <1>6, <2>1, <3>1 DEF After
    <3>3. After(x, c, t) = None \/ After(x, c, t) = Holding("Str", c.text, None)
      BY <1>6, <2>1 DEF After
    <3>4. [type |-> "Str", data |-> c.text] \in Value
      BY <1>6, ValueType
    <3>5. SameEntry(Holding("Str", c.text, None), Holding("Str", c.text, None))
      BY <3>4, HoldingSame DEF NoEarlier
    <3> QED BY <3>2, <3>3, <3>5 DEF SameEntry
  <2>2. CASE Is(x, "Str")
    <3> DEFINE d == x.value.data \o c.text
    <3>1. Is(y, "Str") /\ y.value.data = x.value.data /\ NoEarlier(x.expires_at, y.expires_at)
      BY <1>1, <2>2 DEF Alike, Is
    <3>2. x.value.data \in Seq(Char)
      BY <2>2, SlotParts
    <3>2a. d \in Seq(Char)
      BY <1>6, <3>2
    <3>3. After(x, c, t) = Holding("Str", d, x.expires_at) /\ After(y, c, u) = Holding("Str", d, y.expires_at)
      BY <1>6, <2>2, <3>1 DEF After, Is
    <3> HIDE DEF d
    <3>4. [type |-> "Str", data |-> d] \in Value
      BY <3>2a, ValueType
    <3>5. x.expires_at \in Nat \cup {None} /\ y.expires_at \in Nat \cup {None}
      BY <2>2, <3>1, SlotParts DEF Is
    <3> QED BY <3>1, <3>3, <3>4, <3>5, HoldingSame
  <2>3. CASE x # None /\ ~Is(x, "Str")
    BY <1>1, <1>6, <2>3 DEF After, Alike
  <2> QED BY <2>1, <2>2, <2>3
<1>7. CASE c.op = "expire"
  <2>1. CASE x = None
    BY <1>1, <1>7, <2>1 DEF After, Alike
  <2>2. CASE x # None
    <3>1. y # None /\ NoEarlier(x.expires_at, y.expires_at)
      BY <1>1, <2>2 DEF Alike
    <3>2. /\ x \in Entry /\ x.value \in Value /\ x.expires_at \in Nat \cup {None}
          /\ y \in Entry /\ y.value \in Value /\ y.expires_at \in Nat \cup {None}
      BY <2>2, <3>1, SlotParts
    <3>3. ~IsExpired(x, t)
      BY <1>2, <1>7, <2>2, <3>2 DEF Alive, IsExpired
    <3> DEFINE later == [value |-> x.value, expires_at |-> t + c.ttl]
               sooner == [value |-> y.value, expires_at |-> u + c.ttl]
    <3>4. After(x, c, t) = later
      BY <1>2a, <1>7, <2>2, <3>3 DEF After
    <3>5. later \in Entry /\ sooner \in Entry
      BY <1>2, <1>7, <3>2 DEF Entry
    <3>6. later # None /\ sooner # None
      BY <3>5, NoneAssumption
    <3>7. CASE IsExpired(y, u)
      <4>1. After(y, c, u) = y
        BY <1>7, <3>7 DEF After
      <4>2. y.expires_at # None /\ y.expires_at \in Nat /\ u > y.expires_at
        BY <3>2, <3>7 DEF IsExpired
      <4>3. t + c.ttl >= y.expires_at /\ t + c.ttl # None
        BY <1>2, <1>7, <4>2
      <4> QED BY <1>1, <2>2, <3>1, <3>4, <3>6, <4>1, <4>2, <4>3 DEF SameEntry, Alike
    <3>8. CASE ~IsExpired(y, u)
      <4>1. After(y, c, u) = sooner
        BY <1>2a, <1>7, <3>1, <3>8 DEF After
      <4>2. t + c.ttl >= u + c.ttl /\ t + c.ttl # None /\ u + c.ttl # None
        BY <1>2, <1>7
      <4> QED BY <1>1, <2>2, <3>1, <3>4, <3>6, <4>1, <4>2 DEF SameEntry, Alike
    <3> QED BY <3>7, <3>8
  <2> QED BY <2>1, <2>2
<1>8. CASE c.op = "persist"
  <2>1. CASE x = None
    BY <1>1, <1>8, <2>1 DEF After, Alike
  <2>2. CASE x # None
    <3>1. y # None /\ NoEarlier(x.expires_at, y.expires_at)
      BY <1>1, <2>2 DEF Alike
    <3> DEFINE ex == [value |-> x.value, expires_at |-> None]
               ey == [value |-> y.value, expires_at |-> None]
    <3>2. ex # None /\ ey # None
      <4>1. ex \in Entry /\ ey \in Entry
        BY <2>2, <3>1, SlotParts, EntryType
      <4> QED BY <4>1, NoneAssumption
    <3>3. CASE x.expires_at = None
      <4>1. y.expires_at = None
        BY <3>1, <3>3 DEF NoEarlier
      <4> QED BY <1>8, <3>3, <4>1 DEF After
    <3>4. CASE x.expires_at # None
      <4>1. y.expires_at # None
        BY <3>1, <3>4 DEF NoEarlier
      <4>2. After(x, c, t) = ex /\ After(y, c, u) = ey
        BY <1>8, <2>2, <3>1, <3>4, <4>1 DEF After
      <4> QED BY <1>1, <2>2, <3>2, <4>2 DEF SameEntry, Alike
    <3> QED BY <3>3, <3>4
  <2> QED BY <2>1, <2>2
<1>9. CASE c.op \in {"lpush", "rpush"}
  <2> DEFINE list == ListIn(x)
             first == Reverse(c.text)
  <2>1. list \in Seq(Char) /\ c.text \in Seq(Char) /\ list = ListIn(y)
    BY <1>1, <1>9, SlotParts DEF Alike
  <2>2. first \in Seq(Char)
    BY <2>1 DEF Reverse
  <2> HIDE DEF list, first
  <2>3. first \o list \in Seq(Char) /\ list \o c.text \in Seq(Char)
    BY <2>1, <2>2
  <2>4. /\ [type |-> "List", data |-> first \o list] \in Value
        /\ [type |-> "List", data |-> list \o c.text] \in Value
        /\ [type |-> "List", data |-> first] \in Value
        /\ [type |-> "List", data |-> c.text] \in Value
    BY <2>1, <2>2, <2>3, ValueType
  <2>5. /\ SameEntry(Upserted(x, "List", first \o list, first), Upserted(y, "List", first \o list, first))
        /\ SameEntry(Upserted(x, "List", list \o c.text, c.text), Upserted(y, "List", list \o c.text, c.text))
    BY <2>4, UpsertSame
  <2> QED BY <1>9, <2>1, <2>5 DEF After, list, first
<1>10. CASE c.op \in {"lpop", "rpop"}
  <2> DEFINE list == ListIn(x)
  <2>1. list \in Seq(Char) /\ list = ListIn(y)
    BY <1>1, SlotParts DEF Alike
  <2>2. CASE list = <<>>
    BY <1>10, <2>1, <2>2 DEF After
  <2>3. CASE list # <<>>
    <3>1. Is(x, "List") /\ Is(y, "List")
      BY <1>1, <2>3 DEF ListIn, Alike
    <3>2. /\ x.expires_at \in Nat \cup {None} /\ y.expires_at \in Nat \cup {None}
          /\ NoEarlier(x.expires_at, y.expires_at)
      BY <1>1, <3>1, SlotParts DEF Is, Alike
    <3> HIDE DEF list
    <3>3. Tail(list) \in Seq(Char) /\ Front(list) \in Seq(Char)
      BY <2>1, <2>3 DEF Front
    <3>4. /\ [type |-> "List", data |-> Tail(list)] \in Value
          /\ [type |-> "List", data |-> Front(list)] \in Value
      BY <3>3, ValueType
    <3>5. /\ SameEntry(Holding("List", Tail(list), x.expires_at), Holding("List", Tail(list), y.expires_at))
          /\ SameEntry(Holding("List", Front(list), x.expires_at), Holding("List", Front(list), y.expires_at))
      BY <3>2, <3>4, HoldingSame
    <3> QED BY <1>10, <2>1, <2>3, <3>5 DEF After, list
  <2> QED BY <2>2, <2>3
<1>11. CASE c.op = "hset"
  <2>1. After(x, c, t) = WithField(x, c.field, c.value) /\ After(y, c, u) = WithField(y, c.field, c.value)
    BY <1>11 DEF After
  <2> QED BY <1>11, <2>1, FieldSame
<1>12. CASE c.op = "hdel"
  <2>1. CASE Is(x, "Hash")
    <3> DEFINE h == [HashIn(x) EXCEPT ![c.field] = None]
    <3>1. /\ Is(y, "Hash") /\ HashIn(y) = HashIn(x) /\ NoEarlier(x.expires_at, y.expires_at)
          /\ x.expires_at \in Nat \cup {None} /\ y.expires_at \in Nat \cup {None}
      BY <1>1, <2>1, SlotParts DEF Alike, Is
    <3>2. h \in [Fields -> FieldText \cup {None}]
      BY SlotParts
    <3>3. After(x, c, t) = Holding("Hash", h, x.expires_at) /\ After(y, c, u) = Holding("Hash", h, y.expires_at)
      BY <1>12, <2>1, <3>1 DEF After
    <3> HIDE DEF h
    <3>4. [type |-> "Hash", data |-> h] \in Value
      BY <3>2, ValueType
    <3> QED BY <3>1, <3>3, <3>4, HoldingSame
  <2>2. CASE ~Is(x, "Hash")
    BY <1>1, <1>12, <2>2 DEF After, Alike
  <2> QED BY <2>1, <2>2
<1>13. CASE c.op = "hincrby"
  <2> DEFINE text == 2 * wrap(Count(x, c.field) + c.amount)
  <2>1. HashIn(x)[c.field] \in FieldText \cup {None} /\ c.amount \in Int
    BY <1>13, SlotParts
  <2>2. \A r \in FieldText : parse_i64(r) \in Int
    BY BoundsAssumption DEF FieldText, parse_i64, I64
  <2>3. Count(x, c.field) \in Int /\ Count(y, c.field) = Count(x, c.field)
    BY <1>1, <2>1, <2>2 DEF Count, Alike
  <2>4. wrap(Count(x, c.field) + c.amount) \in I64
    BY <2>1, <2>3, WrapType
  <2>5. text \in FieldText \cup {None}
    BY <2>4, BoundsAssumption DEF I64, FieldText
  <2>6. After(x, c, t) = WithField(x, c.field, text) /\ After(y, c, u) = WithField(y, c.field, text)
    BY <1>13, <2>3 DEF After
  <2> HIDE DEF text
  <2> QED BY <1>13, <2>5, <2>6, FieldSame
<1> QED BY <1>3, <1>4, <1>5, <1>6, <1>7, <1>8, <1>9, <1>10, <1>11, <1>12, <1>13 DEF SingleOps

\* No command shortens a life to less than the present second.
LEMMA AliveAfter ==
    ASSUME NEW x \in Slot, NEW c, Single(c), NEW t \in Nat, Alive(x, t)
    PROVE  Alive(After(x, c, t), t)
<1> USE DEF Single
<1>1. Ttls \ {None} \subseteq Nat /\ None \notin Nat
  BY ServerAssumption, NoneAssumption
<1>2. \A ttl \in Ttls \ {None} : checked_add(t, ttl) = None \/ checked_add(t, ttl) >= t
  BY <1>1 DEF checked_add
<1>3. \A type, data, end : (end = None \/ end >= t) => Alive(Holding(type, data, end), t)
  BY DEF Alive, Holding
<1>4. x # None => (x.expires_at = None \/ x.expires_at >= t)
  BY DEF Alive
<1>5. \A type, changed, initial : Alive(Upserted(x, type, changed, initial), t)
  BY <1>3, <1>4 DEF Upserted, Alive
<1>6. \A f, text : Alive(WithField(x, f, text), t)
  BY <1>5 DEF WithField
<1>7. CASE c.op = "set"
  <2>1. After(x, c, t) = x \/ After(x, c, t) = Holding("Str", c.text, None)
        \/ (c.ttl # None /\ After(x, c, t) = Holding("Str", c.text, checked_add(t, c.ttl)))
    BY <1>7 DEF After
  <2> QED BY <1>2, <1>3, <1>7, <2>1
<1>8. CASE c.op \in {"delete", "incrby", "append"}
  <2>1. After(x, c, t) = x \/ After(x, c, t) = None \/ (\E type, data : After(x, c, t) = Holding(type, data, None))
        \/ (x # None /\ \E type, data : After(x, c, t) = Holding(type, data, x.expires_at))
    BY <1>8 DEF After, Is
  <2> QED BY <1>3, <1>4, <2>1 DEF Alive
<1>9. CASE c.op \in {"expire", "persist"}
  <2>1. After(x, c, t) = x \/ After(x, c, t) = [value |-> x.value, expires_at |-> None]
        \/ (c.ttl \in Ttls \ {None} /\ After(x, c, t) = [value |-> x.value, expires_at |-> checked_add(t, c.ttl)])
    BY <1>9 DEF After
  <2> QED BY <1>2, <2>1 DEF Alive
<1>10. CASE c.op \in {"lpush", "rpush", "hset", "hincrby"}
  BY <1>5, <1>6, <1>10 DEF After
<1>11. CASE c.op \in {"lpop", "rpop", "hdel"}
  <2>1. ListIn(x) # <<>> => Is(x, "List")
    BY DEF ListIn
  <2>2. After(x, c, t) = x \/ (x # None /\ \E type, data : After(x, c, t) = Holding(type, data, x.expires_at))
    BY <1>11, <2>1 DEF After, Is
  <2> QED BY <1>3, <1>4, <2>2
<1> QED BY <1>7, <1>8, <1>9, <1>10, <1>11 DEF SingleOps

\* A set that is accepted, and a delete, leave nothing of what was there.
LEMMA ResetsAfter ==
    ASSUME NEW x, NEW y, NEW c, Single(c), NEW k \in Keys, Resets(c, k), Roomy,
           NEW u \in Nat, NEW t \in Nat, u <= t, t <= MaxNow
    PROVE  SameEntry(After(x, c, t), After(y, c, u)) /\ Alive(After(x, c, t), t)
<1> USE DEF Single
<1>1. CASE c.op = "delete"
  BY <1>1 DEF After, SameEntry, Alive
<1>2. CASE c.op = "set"
  <2> DEFINE end(r) == IF c.ttl = None THEN None ELSE checked_add(r, c.ttl)
  <2>1. Ttls \ {None} \subseteq Nat /\ MaxNow \in Nat /\ MaxU64 \in Nat /\ None \notin Nat
    BY ServerAssumption, BoundsAssumption, NoneAssumption
  <2>2. \A ttl \in Ttls \ {None} : checked_add(t, ttl) = t + ttl /\ checked_add(u, ttl) = u + ttl
    BY <2>1 DEF Roomy, checked_add
  <2>3. /\ end(t) \in Nat \cup {None} /\ end(u) \in Nat \cup {None} /\ NoEarlier(end(t), end(u))
        /\ end(t) = None \/ end(t) >= t
    BY <1>2, <2>1, <2>2 DEF NoEarlier
  <2>4. c.key \in Keys /\ validate_value(Str(c.text))
    BY <1>2 DEF Resets, Refused
  <2>5. After(x, c, t) = Holding("Str", c.text, end(t)) /\ After(y, c, u) = Holding("Str", c.text, end(u))
    BY <1>2, <2>4 DEF After
  <2> HIDE DEF end
  <2>6. [type |-> "Str", data |-> c.text] \in Value
    BY <1>2, ValueType
  <2>7. SameEntry(Holding("Str", c.text, end(t)), Holding("Str", c.text, end(u)))
    BY <2>3, <2>6, HoldingSame
  <2>8. Alive(Holding("Str", c.text, end(t)), t)
    BY <2>3 DEF Alive, Holding
  <2> QED BY <2>5, <2>7, <2>8
<1> QED BY <1>1, <1>2 DEF Resets

\* Replaying on top of their own effect commands that may be repeated: v starts
\* from what the log was written on, w from y, the outcome.
Repeats(y, v, w) ==
    \/ w = v
    \/ y = None /\ (w = None \/ v # None)
    \/ /\ y # None /\ ~Is(y, "Hash")
       /\ \/ v = None \/ Is(v, "Hash")
          \/ /\ w # None /\ w.value.type = y.value.type /\ w.value.data = y.value.data
             /\ w.expires_at = y.expires_at \/ w.expires_at = v.expires_at
    \/ /\ Is(y, "Hash")
       /\ \/ v # None /\ ~Is(v, "Hash")
          \/ /\ Is(w, "Hash")
             /\ \A f \in Fields : HashIn(w)[f] = HashIn(y)[f] \/ HashIn(w)[f] = HashIn(v)[f]
             /\ w.expires_at = y.expires_at \/ w.expires_at = (IF v = None THEN None ELSE v.expires_at)

LEMMA RepeatsStart == ASSUME NEW y \in Slot, NEW v PROVE Repeats(y, v, y)
  BY DEF Repeats, Is

LEMMA RepeatsEnd ==
    ASSUME NEW y \in Slot, NEW v \in Slot, NEW w \in Slot, Repeats(y, v, w), SameEntry(v, y)
    PROVE  SameEntry(w, y)
<1>1. Alike(v, y)
  BY SameIsAlike
<1>2. CASE w = v
  BY <1>2
<1>3. CASE y = None /\ (w = None \/ v # None)
  BY <1>1, <1>3 DEF Alike, SameEntry
<1>4. CASE y # None /\ ~Is(y, "Hash") /\ w # v /\ Repeats(y, v, w)
  <2>1. v # None /\ ~Is(v, "Hash")
    BY <1>1, <1>4 DEF Alike
  <2>2. /\ w # None /\ w.value.type = y.value.type /\ w.value.data = y.value.data
        /\ w.expires_at = y.expires_at \/ w.expires_at = v.expires_at
    BY <1>4, <2>1 DEF Repeats
  <2> QED BY <1>1, <1>4, <2>1, <2>2 DEF SameEntry, Alike, NoEarlier
<1>5. CASE Is(y, "Hash") /\ w # v /\ Repeats(y, v, w)
  <2>1. v # None /\ Is(v, "Hash") /\ HashIn(v) = HashIn(y) /\ y # None
    BY <1>1, <1>5 DEF Alike, Is
  <2>2. /\ Is(w, "Hash")
        /\ \A f \in Fields : HashIn(w)[f] = HashIn(y)[f]
        /\ w.expires_at = y.expires_at \/ w.expires_at = v.expires_at
    BY <1>5, <2>1 DEF Repeats
  <2>3. HashIn(w) = HashIn(y)
    <3>1. HashIn(w) \in [Fields -> FieldText \cup {None}] /\ HashIn(y) \in [Fields -> FieldText \cup {None}]
      BY SlotParts
    <3> QED BY <2>2, <3>1
  <2>4. w # None /\ w.value.type = y.value.type /\ w.value.data = y.value.data
    BY <1>5, <2>2, <2>3 DEF HashIn, Is
  <2> QED BY <1>1, <2>1, <2>2, <2>4 DEF SameEntry, Alike, NoEarlier
<1> QED BY <1>2, <1>3, <1>4, <1>5 DEF Repeats
LEMMA RepeatsStep ==
    ASSUME NEW y \in Slot, NEW v \in Slot, NEW w \in Slot, Repeats(y, v, w),
           NEW c, Single(c), c.op \notin NotIdempotent, NEW t \in Nat
    PROVE  Repeats(y, After(v, c, t), After(w, c, t))
<1> USE DEF Single
<1> DEFINE vv == After(v, c, t)
           ww == After(w, c, t)
           Exp(e) == IF e = None THEN None ELSE e.expires_at
<1>1. CASE w = v
  BY <1>1 DEF Repeats
<1>2. CASE c.op = "delete"
  BY <1>2 DEF After, Repeats
<1>3. CASE c.op = "set"
  BY <1>3 DEF After, Repeats
<1>4. \A d \in [Fields -> FieldText \cup {None}], end \in Nat \cup {None} :
        /\ Is(Holding("Hash", d, end), "Hash") /\ Holding("Hash", d, end) # None
        /\ HashIn(Holding("Hash", d, end)) = d /\ Holding("Hash", d, end).expires_at = end
  <2> TAKE d \in [Fields -> FieldText \cup {None}], end \in Nat \cup {None}
  <2>1. [type |-> "Hash", data |-> d] \in Value
    BY ValueType
  <2>2. Holding("Hash", d, end) # None
    BY <2>1, HoldingType
  <2> QED BY <2>2 DEF Is, Holding, HashIn
<1>5. CASE c.op = "persist"
  <2>1. \A e \in Slot : After(e, c, t) = IF e = None \/ e.expires_at = None THEN e
                                          ELSE [value |-> e.value, expires_at |-> None]
    BY <1>5 DEF After
  <2>2. \A e \in Slot : e # None => [value |-> e.value, expires_at |-> None] # None
    BY SlotParts, EntryType, NoneAssumption
  <2>3. \A e \in Slot : /\ After(e, c, t) = None <=> e = None
                        /\ e # None => /\ After(e, c, t).value = e.value
                                       /\ After(e, c, t).expires_at = None
    BY <2>1, <2>2
  <2>4. \A e \in Slot : /\ Is(After(e, c, t), "Hash") <=> Is(e, "Hash")
                        /\ HashIn(After(e, c, t)) = HashIn(e)
    BY <2>3 DEF Is, HashIn
  <2> HIDE DEF vv, ww
  <2>5. /\ vv = None <=> v = None
        /\ ww = None <=> w = None
        /\ v # None => vv.expires_at = None /\ vv.value = v.value
        /\ w # None => ww.expires_at = None /\ ww.value = w.value
        /\ Is(vv, "Hash") <=> Is(v, "Hash")
        /\ Is(ww, "Hash") <=> Is(w, "Hash")
        /\ HashIn(vv) = HashIn(v) /\ HashIn(ww) = HashIn(w)
    BY <2>3, <2>4 DEF vv, ww
  <2>5a. w = v => ww = vv
    BY DEF vv, ww
  <2> SUFFICES Repeats(y, vv, ww)
    BY DEF vv, ww
  <2>6. CASE y = None /\ (w = None \/ v # None)
    BY <2>5, <2>6 DEF Repeats
  <2>7. CASE y # None /\ ~Is(y, "Hash") /\ w # v
    <3>1. CASE v = None \/ Is(v, "Hash")
      BY <2>5, <2>7, <3>1 DEF Repeats
    <3>2. CASE v # None /\ ~Is(v, "Hash")
      <4>1. w # None /\ w.value.type = y.value.type /\ w.value.data = y.value.data
        BY <2>7, <3>2 DEF Repeats
      <4> QED BY <2>5, <2>7, <3>2, <4>1 DEF Repeats
    <3> QED BY <3>1, <3>2
  <2>8. CASE Is(y, "Hash") /\ w # v
    <3>1. CASE v # None /\ ~Is(v, "Hash")
      BY <2>5, <2>8, <3>1 DEF Repeats
    <3>2. CASE v = None \/ Is(v, "Hash")
      <4>1. /\ Is(w, "Hash")
            /\ \A f \in Fields : HashIn(w)[f] = HashIn(y)[f] \/ HashIn(w)[f] = HashIn(v)[f]
        BY <2>8, <3>2 DEF Repeats, Is
      <4>2. ww.expires_at = (IF vv = None THEN None ELSE vv.expires_at)
        BY <2>5, <4>1 DEF Is
      <4> QED BY <2>5, <2>8, <4>1, <4>2 DEF Repeats
    <3> QED BY <3>1, <3>2
  <2>9. CASE w = v
    BY <2>9, <2>5a DEF Repeats
  <2> QED BY <2>6, <2>7, <2>8, <2>9 DEF Repeats
<1>6. CASE c.op \in {"hset", "hdel"}
  <2> DEFINE put == IF c.op = "hset" THEN c.value ELSE None
             with(e) == [HashIn(e) EXCEPT ![c.field] = put]
  <2>1. \A e \in Slot : /\ with(e) \in [Fields -> FieldText \cup {None}]
                        /\ \A f \in Fields : with(e)[f] = IF f = c.field THEN put ELSE HashIn(e)[f]
    BY <1>6, SlotParts
  <2>2. \A e \in Slot : /\ Is(e, "Hash") => After(e, c, t) = Holding("Hash", with(e), e.expires_at)
                        /\ e # None /\ ~Is(e, "Hash") => After(e, c, t) = e
                        /\ e = None => After(e, c, t) = IF c.op = "hset" THEN Holding("Hash", with(e), None)
                                                        ELSE None
    <3>1. CASE c.op = "hset"
      <4>1. \A e \in Slot : After(e, c, t) = WithField(e, c.field, c.value)
        BY <3>1 DEF After
      <4>2. \A e \in Slot : WithField(e, c.field, c.value) = Upserted(e, "Hash", with(e), with(e))
        BY <3>1 DEF WithField
      <4> HIDE DEF with
      <4> QED BY <3>1, <4>1, <4>2 DEF Upserted, Is
    <3>2. CASE c.op = "hdel"
      <4>1. \A e \in Slot : After(e, c, t) =
              IF Is(e, "Hash") THEN Holding("Hash", [HashIn(e) EXCEPT ![c.field] = None], e.expires_at) ELSE e
        BY <3>2 DEF After
      <4>2. \A e \in Slot : [HashIn(e) EXCEPT ![c.field] = None] = with(e)
        BY <3>2
      <4> HIDE DEF with
      <4> QED BY <3>2, <4>1, <4>2 DEF Is
    <3> QED BY <1>6, <3>1, <3>2
  <2> HIDE DEF with, put
  <2>3. \A e \in Slot : /\ [type |-> "Hash", data |-> with(e)] \in Value
                        /\ e # None => e.expires_at \in Nat \cup {None}
    BY <2>1, ValueType, SlotParts
  <2>4. \A e \in Slot : Is(e, "Hash") =>
          /\ Is(After(e, c, t), "Hash") /\ After(e, c, t) # None
          /\ HashIn(After(e, c, t)) = with(e) /\ After(e, c, t).expires_at = e.expires_at
    <3> TAKE e \in Slot
    <3> HAVE Is(e, "Hash")
    <3>1. e # None /\ e.expires_at \in Nat \cup {None}
      BY <2>3 DEF Is
    <3>2. with(e) \in [Fields -> FieldText \cup {None}]
      BY <2>1
    <3>3. After(e, c, t) = Holding("Hash", with(e), e.expires_at)
      BY <2>2
    <3> QED BY <1>4, <3>1, <3>2, <3>3
  <2>5. /\ After(None, c, t) # None => /\ Is(After(None, c, t), "Hash")
                                       /\ HashIn(After(None, c, t)) = with(None)
                                       /\ After(None, c, t).expires_at = None
        /\ After(None, c, t) = None => put = None
    <3>1. None \in Slot
      BY DEF Slot
    <3>2. CASE c.op = "hset"
      <4>1. with(None) \in [Fields -> FieldText \cup {None}] /\ None \in Nat \cup {None}
        BY <2>1, <3>1
      <4>2. After(None, c, t) = Holding("Hash", with(None), None)
        BY <2>2, <3>1, <3>2
      <4> QED BY <1>4, <4>1, <4>2
    <3>3. CASE c.op = "hdel"
      BY <1>6, <2>2, <3>1, <3>3 DEF put
    <3> QED BY <1>6, <3>2, <3>3
  <2>6. \A f \in Fields : HashIn(None)[f] = None
    BY DEF HashIn, Is, NoFields
  <2>7. CASE y = None /\ (w = None \/ v # None)
    <3>1. CASE v # None
      BY <2>2, <2>4, <2>7, <3>1 DEF Repeats
    <3>2. CASE v = None
      BY <1>1, <2>7, <3>2
    <3> QED BY <3>1, <3>2
  <2>8. CASE y # None /\ ~Is(y, "Hash") /\ w # v
    <3>1. CASE v = None \/ Is(v, "Hash")
      BY <2>4, <2>5, <2>8, <3>1 DEF Repeats
    <3>2. CASE v # None /\ ~Is(v, "Hash")
      <4>1. w # None /\ w.value.type = y.value.type /\ w.value.data = y.value.data
        BY <2>8, <3>2 DEF Repeats
      <4>2. ~Is(w, "Hash")
        BY <2>8, <4>1 DEF Is
      <4>3. vv = v /\ ww = w
        BY <2>2, <3>2, <4>1, <4>2
      <4> QED BY <4>3
    <3> QED BY <3>1, <3>2
  <2>9. CASE Is(y, "Hash") /\ w # v
    <3>1. CASE v # None /\ ~Is(v, "Hash")
      BY <2>2, <2>9, <3>1 DEF Repeats
    <3>2. CASE v = None \/ Is(v, "Hash")
      <4>1. /\ Is(w, "Hash")
            /\ \A f \in Fields : HashIn(w)[f] = HashIn(y)[f] \/ HashIn(w)[f] = HashIn(v)[f]
            /\ w.expires_at = y.expires_at \/ w.expires_at = Exp(v)
        BY <2>9, <3>2 DEF Repeats, Is
      <4>2. Is(ww, "Hash") /\ HashIn(ww) = with(w) /\ ww.expires_at = w.expires_at
        BY <2>4, <4>1
      <4>3. \A f \in Fields : HashIn(vv)[f] = with(v)[f]
        BY <2>1, <2>4, <2>5, <2>6, <3>2
      <4>4. Exp(vv) = Exp(v)
        BY <2>4, <2>5, <3>2 DEF Is
      <4> HIDE DEF vv, ww, Exp
      <4>5. \A f \in Fields : HashIn(ww)[f] = HashIn(y)[f] \/ HashIn(ww)[f] = HashIn(vv)[f]
        BY <2>1, <4>1, <4>2, <4>3
      <4>6. ww.expires_at = y.expires_at \/ ww.expires_at = Exp(vv)
        BY <4>1, <4>2, <4>4
      <4> QED BY <2>9, <4>2, <4>5, <4>6 DEF Repeats, vv, ww, Exp
    <3> QED BY <3>1, <3>2
  <2> QED BY <1>1, <2>7, <2>8, <2>9 DEF Repeats
<1>7. c.op \in {"set", "delete", "persist", "hset", "hdel"}
  BY DEF NotIdempotent, SingleOps
<1> QED BY <1>2, <1>3, <1>5, <1>6, <1>7

-----------------------------------------------------------------------------
(* What a list of commands makes of one key *)

\* A store that holds the entry e for k and nothing else.
Only(k, e) ==
    [NewStore EXCEPT !.store = [j \in Keys |-> IF j = k THEN e ELSE None], !.lru_order = <<k>>]

\* The entry for k after the first n commands, begun on the entry b, at time t.
Course(b, cmds, t, k, n) == Applied(Only(k, b), cmds, t)[n].store[k]

LEMMA OnlyOK ==
    ASSUME NEW k \in Keys, NEW e \in Slot
    PROVE  StateOK(Only(k, e)) /\ ~in_transaction(Only(k, e)) /\ Only(k, e).store[k] = e
<1> DEFINE st == [j \in Keys |-> IF j = k THEN e ELSE None]
           s == Only(k, e)
<1>1. st \in [Keys -> Slot] /\ st[k] = e /\ \A j \in Keys : st[j] # None => j = k
  BY DEF Slot
<1>2. IsKv(s) /\ s.store = st /\ s.lru_order = <<k>> /\ s.transaction_queue = None /\ s.events = <<>>
  BY DEF Only, NewStore, IsKv
<1>2a. s.memory_bytes \in Nat /\ s.total_writes \in Nat /\ s.notify \in BOOLEAN
  BY DEF Only, NewStore
<1> HIDE DEF st, s
<1>3. LruOK(<<k>>, st)
  BY <1>1 DEF LruOK, NoRepeat, Covers
<1>4. <<>> \in Seq(KeyspaceEvent)
  OBVIOUS
<1>5. LruOK(s.lru_order, s.store) /\ s.store \in [Keys -> Entry \cup {None}]
  BY <1>1, <1>2, <1>3 DEF Slot
<1>6. /\ s.memory_bytes \in Nat /\ s.total_writes \in Nat /\ s.notify \in BOOLEAN
      /\ s.events \in Seq(KeyspaceEvent) /\ s.transaction_queue = None /\ IsKv(s) /\ s.store[k] = e
  <2>2. s.events \in Seq(KeyspaceEvent)
    BY <1>2, <1>4
  <2>3. s.transaction_queue = None /\ IsKv(s) /\ s.store[k] = e
    BY <1>1, <1>2
  <2> QED BY <1>2a, <2>2, <2>3
<1>7. StateOK(s) /\ ~in_transaction(s) /\ s.store[k] = e
  BY <1>5, <1>6 DEF StateOK, in_transaction
<1> QED BY <1>7 DEF s

\* What one more command does.
OneStep(s, cmds, t, n) ==
    /\ StateOK(Applied(s, cmds, t)[n]) /\ ~in_transaction(Applied(s, cmds, t)[n])
    /\ n # 0 => \A k \in Keys :
         Applied(s, cmds, t)[n].store[k] =
           IF cmds[n].key = k THEN After(Applied(s, cmds, t)[n - 1].store[k], cmds[n], t)
           ELSE Applied(s, cmds, t)[n - 1].store[k]

LEMMA AppliedSteps ==
    ASSUME NoLimit, NEW s, StateOK(s), ~in_transaction(s), NEW cmds \in Seq(KeyCommand), NEW t \in Nat
    PROVE  \A n \in 0..Len(cmds) : OneStep(s, cmds, t, n)
<1> DEFINE len == Len(cmds)
           a(n) == Applied(s, cmds, t)[n]
           good == {m \in 0..len : OneStep(s, cmds, t, m)}
<1>0. len \in Nat
  OBVIOUS
<1>1. a(0) = s /\ \A n \in 1..len : a(n) = Apply(a(n - 1), cmds[n], t)
  BY AppliedIs
<1>2. 0 \in good
  <2>1. 0 \in 0..len
    OBVIOUS
  <2>2. OneStep(s, cmds, t, 0)
    BY <1>1 DEF OneStep
  <2> QED BY <2>1, <2>2
<1>3. ASSUME NEW m \in 0..len, m \in good, m < len
      PROVE  m + 1 \in good
  <2>1. m + 1 \in 0..len /\ m + 1 \in 1..len /\ (m + 1) - 1 = m /\ m + 1 # 0
    BY <1>3
  <2>2. a(m + 1) = Apply(a(m), cmds[m + 1], t) /\ StateOK(a(m)) /\ ~in_transaction(a(m))
    BY <1>1, <1>3, <2>1 DEF OneStep
  <2>3. PICK x, c : x = a(m) /\ c = cmds[m + 1]
    OBVIOUS
  <2>4. Single(c) /\ StateOK(x) /\ ~in_transaction(x)
    <3>1. c \in KeyCommand
      BY <2>1, <2>3
    <3> QED BY <2>2, <2>3, <3>1, KeyCommandSingle
  <2>5. Sole(x, Apply(x, c, t), c.key, After(x.store[c.key], c, t))
    BY <2>4, ApplyIs
  <2>6. PICK y : y = a(m + 1) /\ y = Apply(x, c, t)
    BY <2>2, <2>3
  <2>7. StateOK(y) /\ ~in_transaction(y)
        /\ \A k \in Keys : y.store[k] = IF c.key = k THEN After(x.store[k], c, t) ELSE x.store[k]
    BY <2>4, <2>5, <2>6 DEF Sole, in_transaction
  <2> HIDE DEF a
  <2>8. StateOK(a(m + 1)) /\ ~in_transaction(a(m + 1))
        /\ \A k \in Keys : a(m + 1).store[k] = IF cmds[m + 1].key = k THEN After(a(m).store[k], cmds[m + 1], t)
                                                ELSE a(m).store[k]
    BY <2>3, <2>6, <2>7
  <2>9. OneStep(s, cmds, t, m + 1)
    BY <2>1, <2>8 DEF OneStep, a
  <2> QED BY <2>1, <2>9
<1> HIDE DEF good
<1>4. \A m \in 0..len : m \in good /\ m < len => m + 1 \in good
  BY <1>3
<1>5. \A m \in 0..len : m \in good
  BY <1>0, <1>2, <1>4, PositionInduction
<1> QED BY <1>5 DEF good

LEMMA CourseSteps ==
    ASSUME NoLimit, NEW k \in Keys, NEW b \in Slot, NEW cmds \in Seq(KeyCommand), NEW t \in Nat
    PROVE  /\ Course(b, cmds, t, k, 0) = b
           /\ \A n \in 0..Len(cmds) : Course(b, cmds, t, k, n) \in Slot
           /\ \A n \in 0..Len(cmds) : n # 0 =>
                Course(b, cmds, t, k, n) =
                  IF cmds[n].key = k THEN After(Course(b, cmds, t, k, n - 1), cmds[n], t)
                  ELSE Course(b, cmds, t, k, n - 1)
<1>1. PICK s : s = Only(k, b)
  OBVIOUS
<1>2. StateOK(s) /\ ~in_transaction(s) /\ s.store[k] = b
  BY <1>1, OnlyOK
<1>3. \A n \in 0..Len(cmds) : OneStep(s, cmds, t, n)
  BY <1>2, AppliedSteps
<1>4. \A n : Course(b, cmds, t, k, n) = Applied(s, cmds, t)[n].store[k]
  BY <1>1 DEF Course
<1>5. Len(cmds) \in Nat /\ 0 \in 0..Len(cmds)
  OBVIOUS
<1>6. Applied(s, cmds, t)[0] = s
  BY <1>5, AppliedIs
<1>7. Course(b, cmds, t, k, 0) = b
  BY <1>2, <1>4, <1>6
<1>8. \A n \in 0..Len(cmds) : Course(b, cmds, t, k, n) \in Slot
  BY <1>3, <1>4 DEF OneStep, StateOK, Slot
<1>9. \A n \in 0..Len(cmds) : n # 0 =>
        Course(b, cmds, t, k, n) =
          IF cmds[n].key = k THEN After(Course(b, cmds, t, k, n - 1), cmds[n], t)
          ELSE Course(b, cmds, t, k, n - 1)
  BY <1>3, <1>4 DEF OneStep
<1> QED BY <1>7, <1>8, <1>9

\* The course of a key depends on its own entry and commands only.
LEMMA CourseIs ==
    ASSUME NoLimit, NEW s, StateOK(s), ~in_transaction(s), NEW cmds \in Seq(KeyCommand), NEW t \in Nat,
           NEW k \in Keys
    PROVE  /\ Applied(s, cmds, t)[Len(cmds)].store[k] = Course(s.store[k], cmds, t, k, Len(cmds))
           /\ ~in_transaction(Applied(s, cmds, t)[Len(cmds)])
<1> DEFINE len == Len(cmds)
           b == s.store[k]
           a(n) == Applied(s, cmds, t)[n].store[k]
           good == {m \in 0..len : a(m) = Course(b, cmds, t, k, m)}
<1>0. len \in Nat /\ b \in Slot /\ len \in 0..len /\ 0 \in 0..len
  BY DEF StateOK, Slot
<1>1. \A n \in 0..len : OneStep(s, cmds, t, n)
  BY AppliedSteps
<1>2. /\ Course(b, cmds, t, k, 0) = b
      /\ \A n \in 0..len : n # 0 =>
           Course(b, cmds, t, k, n) = IF cmds[n].key = k THEN After(Course(b, cmds, t, k, n - 1), cmds[n], t)
                                      ELSE Course(b, cmds, t, k, n - 1)
  BY <1>0, CourseSteps
<1>3. a(0) = b
  BY <1>0, AppliedIs
<1>4. \A n \in 0..len : n # 0 =>
        a(n) = IF cmds[n].key = k THEN After(a(n - 1), cmds[n], t) ELSE a(n - 1)
  BY <1>1 DEF OneStep
<1> HIDE DEF a, b
<1>5. 0 \in good
  BY <1>0, <1>2, <1>3
<1>6. ASSUME NEW m \in 0..len, m \in good, m < len
      PROVE  m + 1 \in good
  <2>1. m + 1 \in 0..len /\ m + 1 # 0 /\ (m + 1) - 1 = m
    BY <1>0, <1>6
  <2>2. a(m + 1) = IF cmds[m + 1].key = k THEN After(a(m), cmds[m + 1], t) ELSE a(m)
    BY <1>4, <2>1
  <2>3. Course(b, cmds, t, k, m + 1) =
          IF cmds[m + 1].key = k THEN After(Course(b, cmds, t, k, m), cmds[m + 1], t)
          ELSE Course(b, cmds, t, k, m)
    BY <1>2, <2>1
  <2> QED BY <1>6, <2>1, <2>2, <2>3
<1> HIDE DEF good, len
<1>7. \A m \in 0..len : m \in good /\ m < len => m + 1 \in good
  BY <1>6
<1>8. \A m \in 0..len : m \in good
  BY <1>0, <1>5, <1>7, PositionInduction
<1>9. len \in good
  BY <1>0, <1>8
<1>10. a(len) = Course(b, cmds, t, k, len)
  BY <1>9 DEF good
<1>11. ~in_transaction(Applied(s, cmds, t)[len])
  BY <1>0, <1>1 DEF OneStep
<1> QED BY <1>10, <1>11 DEF a, b, len

\* It depends on no command that comes later.
LEMMA SameCourse ==
    ASSUME NoLimit, NEW k \in Keys, NEW b \in Slot, NEW t \in Nat,
           NEW cmds \in Seq(KeyCommand), NEW more \in Seq(KeyCommand),
           NEW m \in Nat, m <= Len(cmds), m <= Len(more), \A i \in 1..m : more[i] = cmds[i]
    PROVE  \A n \in 0..m : Course(b, more, t, k, n) = Course(b, cmds, t, k, n)
<1> DEFINE f(n) == Course(b, cmds, t, k, n)
           g(n) == Course(b, more, t, k, n)
           good == {i \in 0..m : g(i) = f(i)}
<1>1. /\ f(0) = b
      /\ \A n \in 0..Len(cmds) : n # 0 => f(n) = IF cmds[n].key = k THEN After(f(n - 1), cmds[n], t) ELSE f(n - 1)
  BY CourseSteps
<1>2. /\ g(0) = b
      /\ \A n \in 0..Len(more) : n # 0 => g(n) = IF more[n].key = k THEN After(g(n - 1), more[n], t) ELSE g(n - 1)
  BY CourseSteps
<1> HIDE DEF f, g
<1>3. 0 \in good
  BY <1>1, <1>2
<1>4. ASSUME NEW i \in 0..m, i \in good, i < m
      PROVE  i + 1 \in good
  <2>1. i + 1 \in 0..m /\ i + 1 \in 1..m /\ i + 1 # 0 /\ (i + 1) - 1 = i
        /\ i + 1 \in 0..Len(cmds) /\ i + 1 \in 0..Len(more)
    BY <1>4
  <2>2. f(i + 1) = IF cmds[i + 1].key = k THEN After(f(i), cmds[i + 1], t) ELSE f(i)
    BY <1>1, <2>1
  <2>3. g(i + 1) = IF more[i + 1].key = k THEN After(g(i), more[i + 1], t) ELSE g(i)
    BY <1>2, <2>1
  <2>4. more[i + 1] = cmds[i + 1]
    BY <2>1
  <2> QED BY <1>4, <2>1, <2>2, <2>3, <2>4
<1> HIDE DEF good
<1>5. \A i \in 0..m : i \in good /\ i < m => i + 1 \in good
  BY <1>4
<1>6. \A i \in 0..m : i \in good
  BY <1>3, <1>5, PositionInduction
<1> QED BY <1>6 DEF good, f, g

\* It does not move while others are served.
LEMMA QuietCourse ==
    ASSUME NoLimit, NEW k \in Keys, NEW b \in Slot, NEW t \in Nat, NEW cmds \in Seq(KeyCommand),
           NEW m \in 0..Len(cmds), \A i \in (m + 1)..Len(cmds) : cmds[i].key # k
    PROVE  Course(b, cmds, t, k, Len(cmds)) = Course(b, cmds, t, k, m)
<1> DEFINE f(n) == Course(b, cmds, t, k, n)
           d == Len(cmds) - m
           good == {i \in 0..d : f(m + i) = f(m)}
<1>0. d \in Nat /\ m \in Nat /\ m + d = Len(cmds) /\ m + 0 = m
  OBVIOUS
<1>1. \A n \in 0..Len(cmds) : n # 0 => f(n) = IF cmds[n].key = k THEN After(f(n - 1), cmds[n], t) ELSE f(n - 1)
  BY CourseSteps
<1> HIDE DEF f, d
<1>2. 0 \in good
  BY <1>0
<1>3. ASSUME NEW i \in 0..d, i \in good, i < d
      PROVE  i + 1 \in good
  <2>1. /\ i + 1 \in 0..d /\ m + (i + 1) \in 0..Len(cmds) /\ m + (i + 1) # 0
        /\ (m + (i + 1)) - 1 = m + i /\ m + (i + 1) \in (m + 1)..Len(cmds)
    BY <1>0, <1>3
  <2>2. f(m + (i + 1)) = f(m + i)
    BY <1>1, <2>1
  <2> QED BY <1>3, <2>1, <2>2
<1> HIDE DEF good
<1>4. \A i \in 0..d : i \in good /\ i < d => i + 1 \in good
  BY <1>3
<1>5. \A i \in 0..d : i \in good
  BY <1>0, <1>2, <1>4, PositionInduction
<1>6. d \in 0..d
  BY <1>0
<1>7. f(m + d) = f(m)
  BY <1>5, <1>6 DEF good
<1> QED BY <1>0, <1>7 DEF f

-----------------------------------------------------------------------------
(* One key: what replay makes of it, and what clients see *)

\* x, brought back at time t, is e; a server that is up has not let it expire.
Near(x, e, t, up) == SameEntry(x, e) /\ (up => Alive(x, t))

SettledAt(b, L, k, n, T, e, up) == \A t \in T..MaxNow : Near(Course(b, L, t, k, n), e, t, up)

\* a is in the log, and its effect is all that e lacks.
Waiting(b, L, k, T, e, up, a) ==
    \E n \in 0..Len(L) :
        /\ n < Len(L) /\ L[n + 1] = a
        /\ \A i \in (n + 2)..Len(L) : L[i].key # k
        /\ SettledAt(b, L, k, n, T, e, up)

\* The field f of e is all that the log lacks.
FieldDue(b, L, k, T, e, up, f) ==
    \A t \in T..MaxNow :
        Near(WithField(Course(b, L, t, k, Len(L)), f, HashIn(e)[f]), e, t, up)

\* How the entry e of clients stands to the log L, replayed on the entry b at T or
\* later, when the commands W and the fields F of requests are under way.
Stands(b, L, k, T, e, up, W, F) ==
    /\ \A a \in W : Waiting(b, L, k, T, e, up, a)
    /\ \A f \in F : FieldDue(b, L, k, T, e, up, f)
    /\ W = {} /\ F = {} => SettledAt(b, L, k, Len(L), T, e, up)

\* A later replay.
LEMMA StandsLater ==
    ASSUME NEW b, NEW L, NEW k, NEW T \in Nat, NEW U \in Nat, T <= U, NEW e, NEW up, NEW on, on => up,
           NEW W, NEW F, Stands(b, L, k, T, e, up, W, F)
    PROVE  Stands(b, L, k, U, e, on, W, F)
<1>1. \A t \in U..MaxNow : t \in T..MaxNow
  BY ServerAssumption
<1>2. \A x, t : Near(x, e, t, up) => Near(x, e, t, on)
  BY DEF Near
<1>3. \A n : SettledAt(b, L, k, n, T, e, up) => SettledAt(b, L, k, n, U, e, on)
  BY <1>1, <1>2 DEF SettledAt
<1>4. \A a : Waiting(b, L, k, T, e, up, a) => Waiting(b, L, k, U, e, on, a)
  BY <1>3 DEF Waiting
<1>5. \A f : FieldDue(b, L, k, T, e, up, f) => FieldDue(b, L, k, U, e, on, f)
  BY <1>1, <1>2 DEF FieldDue
<1> QED BY <1>3, <1>4, <1>5 DEF Stands

\* The courses along a log that grows.
GrownCourse(b, L, a, t, k) ==
    LET M == Append(L, a)
    IN  /\ M \in Seq(KeyCommand) /\ Len(M) = Len(L) + 1 /\ M[Len(L) + 1] = a
        /\ \A i \in 1..Len(L) : M[i] = L[i]
        /\ \A n \in 0..Len(L) : Course(b, M, t, k, n) = Course(b, L, t, k, n)
        /\ Course(b, M, t, k, Len(L) + 1) =
             IF a.key = k THEN After(Course(b, L, t, k, Len(L)), a, t) ELSE Course(b, L, t, k, Len(L))

LEMMA CourseGrows ==
    ASSUME NoLimit, NEW k \in Keys, NEW b \in Slot, NEW t \in Nat, NEW L \in Seq(KeyCommand),
           NEW a \in KeyCommand
    PROVE  GrownCourse(b, L, a, t, k)
<1> DEFINE M == Append(L, a)
           n == Len(L)
<1>1. n \in Nat /\ M \in Seq(KeyCommand) /\ Len(M) = n + 1 /\ M[n + 1] = a /\ \A i \in 1..n : M[i] = L[i]
  OBVIOUS
<1> HIDE DEF M
<1>2. n <= Len(L) /\ n <= Len(M)
  BY <1>1
<1>3. \A m \in 0..n : Course(b, M, t, k, m) = Course(b, L, t, k, m)
  BY <1>1, <1>2, SameCourse
<1>4. n + 1 \in 0..Len(M) /\ n + 1 # 0 /\ (n + 1) - 1 = n /\ n \in 0..n
  BY <1>1
<1>5. \A m \in 0..Len(M) : m # 0 =>
        Course(b, M, t, k, m) = IF M[m].key = k THEN After(Course(b, M, t, k, m - 1), M[m], t)
                                ELSE Course(b, M, t, k, m - 1)
  BY <1>1, CourseSteps
<1>6. Course(b, M, t, k, n + 1) =
        IF a.key = k THEN After(Course(b, L, t, k, n), a, t) ELSE Course(b, L, t, k, n)
  BY <1>1, <1>3, <1>4, <1>5
<1> QED BY <1>1, <1>3, <1>6 DEF GrownCourse, M

\* A command about another key is logged.
LEMMA StandsOther ==
    ASSUME NoLimit, NEW k \in Keys, NEW b \in Slot, NEW T \in Nat, NEW L \in Seq(KeyCommand),
           NEW a \in KeyCommand, a.key # k, NEW e, NEW up, NEW W, NEW F,
           Stands(b, L, k, T, e, up, W, F)
    PROVE  Stands(b, Append(L, a), k, T, e, up, W, F)
<1> DEFINE M == Append(L, a)
<1>1. \A t \in T..MaxNow : t \in Nat /\ GrownCourse(b, L, a, t, k)
  BY CourseGrows, ServerAssumption
<1>2. Len(L) \in Nat /\ Len(M) = Len(L) + 1 /\ M[Len(L) + 1] = a /\ \A i \in 1..Len(L) : M[i] = L[i]
  OBVIOUS
<1>3. \A t \in T..MaxNow :
        /\ \A n \in 0..Len(L) : Course(b, M, t, k, n) = Course(b, L, t, k, n)
        /\ Course(b, M, t, k, Len(M)) = Course(b, L, t, k, Len(L))
  BY <1>1, <1>2 DEF GrownCourse
<1> HIDE DEF M
<1>4. \A n \in 0..Len(L) : SettledAt(b, L, k, n, T, e, up) => SettledAt(b, M, k, n, T, e, up)
  BY <1>3 DEF SettledAt
<1>5. SettledAt(b, L, k, Len(L), T, e, up) => SettledAt(b, M, k, Len(M), T, e, up)
  BY <1>3 DEF SettledAt
<1>6. \A f : FieldDue(b, L, k, T, e, up, f) => FieldDue(b, M, k, T, e, up, f)
  BY <1>3 DEF FieldDue
<1>7. ASSUME NEW x, Waiting(b, L, k, T, e, up, x)
      PROVE  Waiting(b, M, k, T, e, up, x)
  <2>1. PICK n \in 0..Len(L) :
          /\ n < Len(L) /\ L[n + 1] = x
          /\ \A i \in (n + 2)..Len(L) : L[i].key # k
          /\ SettledAt(b, L, k, n, T, e, up)
    BY <1>7 DEF Waiting
  <2>2. n \in 0..Len(M) /\ n < Len(M) /\ M[n + 1] = x
    BY <1>2, <2>1
  <2>3. \A i \in (n + 2)..Len(M) : M[i].key # k
    <3>1. \A i \in (n + 2)..Len(M) : i = Len(L) + 1 \/ (i \in (n + 2)..Len(L) /\ i \in 1..Len(L))
      BY <1>2, <2>1
    <3> QED BY <1>2, <2>1, <3>1
  <2> QED BY <1>4, <2>1, <2>2, <2>3 DEF Waiting
<1> QED BY <1>5, <1>6, <1>7 DEF Stands, M

\* A command about k is logged.
LEMMA StandsLogged ==
    ASSUME NoLimit, NEW k \in Keys, NEW b \in Slot, NEW T \in Nat, NEW L \in Seq(KeyCommand),
           NEW a \in KeyCommand, NEW e, NEW up, Stands(b, L, k, T, e, up, {}, {})
    PROVE  Stands(b, Append(L, a), k, T, e, up, {a}, {})
<1> DEFINE M == Append(L, a)
           n == Len(L)
<1>1. \A t \in T..MaxNow : t \in Nat /\ GrownCourse(b, L, a, t, k)
  BY CourseGrows, ServerAssumption
<1>2. n \in Nat /\ Len(M) = n + 1 /\ M[n + 1] = a /\ n \in 0..n
  OBVIOUS
<1>3. \A t \in T..MaxNow : Course(b, M, t, k, n) = Course(b, L, t, k, n)
  BY <1>1, <1>2 DEF GrownCourse
<1> HIDE DEF M
<1>4. SettledAt(b, M, k, n, T, e, up)
  BY <1>3 DEF Stands, SettledAt
<1> HIDE DEF n
<1>5. n \in 0..Len(M) /\ n < Len(M) /\ \A i \in (n + 2)..Len(M) : FALSE
  BY <1>2
<1>6. Waiting(b, M, k, T, e, up, a)
  BY <1>2, <1>4, <1>5 DEF Waiting
<1> QED BY <1>6 DEF Stands, M

\* It is carried out.
LEMMA StandsDone ==
    ASSUME Roomy, NEW k \in Keys, NEW b \in Slot, NEW T \in 0..MaxNow, NEW L \in Seq(KeyCommand),
           NEW a \in KeyCommand, a.key = k, NEW e \in Slot, NEW up, a.op = "expire" => up,
           Stands(b, L, k, T, e, up, {a}, {})
    PROVE  Stands(b, L, k, T, After(e, a, T), up, {}, {})
<1>1. NoLimit /\ T \in Nat /\ Single(a)
  BY KeyCommandSingle, ServerAssumption DEF Roomy
<1>2. PICK n \in 0..Len(L) :
        /\ n < Len(L) /\ L[n + 1] = a
        /\ \A i \in (n + 2)..Len(L) : L[i].key # k
        /\ SettledAt(b, L, k, n, T, e, up)
  BY DEF Stands, Waiting
<1>3. n + 1 \in 0..Len(L) /\ n + 1 # 0 /\ (n + 1) - 1 = n /\ (n + 1) + 1 = n + 2
  BY <1>2
<1>4. ASSUME NEW t \in T..MaxNow
      PROVE  Near(Course(b, L, t, k, Len(L)), After(e, a, T), t, up)
  <2>1. t \in Nat /\ T <= t /\ t <= MaxNow
    BY <1>1, ServerAssumption
  <2>2. PICK x : x = Course(b, L, t, k, n)
    OBVIOUS
  <2>3. x \in Slot /\ Course(b, L, t, k, n + 1) = After(x, a, t)
    BY <1>1, <1>2, <1>3, <2>1, <2>2, CourseSteps
  <2>4. Course(b, L, t, k, Len(L)) = Course(b, L, t, k, n + 1)
    <3>1. PICK m \in 0..Len(L) : m = n + 1
      BY <1>3
    <3>2. \A i \in (m + 1)..Len(L) : L[i].key # k
      BY <1>2, <1>3, <3>1
    <3>3. Course(b, L, t, k, Len(L)) = Course(b, L, t, k, m)
      BY <1>1, <2>1, <3>2, QuietCourse
    <3> QED BY <3>1, <3>3
  <2>5. SameEntry(x, e) /\ (up => Alive(x, t))
    BY <1>2, <2>2 DEF SettledAt, Near
  <2>6. SameEntry(After(x, a, t), After(e, a, T))
    <3>1. a.op = "expire" => Alive(x, t)
      BY <2>5
    <3>2. a.key \in Keys /\ SameEntry(x, e)
      BY <2>5
    <3> QED BY <1>1, <2>1, <2>3, <3>1, <3>2, SameAfter
  <2>7. up => Alive(After(x, a, t), t)
    BY <1>1, <2>1, <2>3, <2>5, AliveAfter
  <2> QED BY <2>3, <2>4, <2>6, <2>7 DEF Near
<1> QED BY <1>4 DEF Stands, SettledAt

HsetCommand(k, f, text) == [op |-> "hset", key |-> k, field |-> f, value |-> text]

LEMMA HsetIs ==
    ASSUME NEW k \in Keys, NEW f \in Fields, NEW text \in FieldText \cup {None}
    PROVE  /\ HsetCommand(k, f, text) \in KeyCommand /\ HsetCommand(k, f, text).key = k
           /\ \A x, t : After(x, HsetCommand(k, f, text), t) = WithField(x, f, text)
           /\ \A x \in Slot, t \in Nat : Alive(x, t) => Alive(WithField(x, f, text), t)
<1>1. PICK c : c = HsetCommand(k, f, text)
  OBVIOUS
<1>2. c \in KeyCommand /\ c.key = k
  BY <1>1 DEF KeyCommand, HsetCommand
<1>3. c.op = "hset" /\ c.field = f /\ c.value = text
  BY <1>1 DEF HsetCommand
<1>4. \A x, t : After(x, c, t) = WithField(x, f, text)
  BY <1>3 DEF After
<1>5. \A x \in Slot, t \in Nat : Alive(x, t) => Alive(After(x, c, t), t)
  BY <1>2, KeyCommandSingle, AliveAfter
<1> QED BY <1>1, <1>2, <1>4, <1>5

\* An hincrbyfloat is carried out.
LEMMA StandsField ==
    ASSUME NoLimit, NEW k \in Keys, NEW b \in Slot, NEW T \in Nat, NEW L \in Seq(KeyCommand),
           NEW e \in Slot, NEW up, NEW f \in Fields, NEW text \in FieldText \cup {None},
           e = None \/ Is(e, "Hash"), Stands(b, L, k, T, e, up, {}, {})
    PROVE  Stands(b, L, k, T, WithField(e, f, text), up, {}, {f})
<1> DEFINE y == WithField(e, f, text)
<1>1. HashIn(y)[f] = text
  <2> DEFINE h == [HashIn(e) EXCEPT ![f] = text]
             end == IF e = None THEN None ELSE e.expires_at
             held == Holding("Hash", h, end)
  <2>1. HashIn(e) \in [Fields -> FieldText \cup {None}]
    BY SlotParts
  <2>2. h[f] = text
    BY <2>1
  <2>3. y = held
    BY DEF WithField, Upserted, Is
  <2> HIDE DEF h, y
  <2>4. [type |-> "Hash", data |-> h].type = "Hash" /\ [type |-> "Hash", data |-> h].data = h
    OBVIOUS
  <2>5. held # None
    <3>1. h \in [Fields -> FieldText \cup {None}]
      BY <2>1 DEF h
    <3>2. [type |-> "Hash", data |-> h] \in Value
      BY <3>1, ValueType
    <3>3. end \in Nat \cup {None}
      BY SlotParts
    <3> QED BY <3>2, <3>3, HoldingType
  <2>6. held.value.type = "Hash" /\ held.value.data = h
    BY DEF Holding
  <2>7. HashIn(held) = h
    BY <2>5, <2>6 DEF HashIn, Is
  <2> QED BY <2>2, <2>3, <2>7
<1> HIDE DEF y
<1>2. ASSUME NEW t \in T..MaxNow
      PROVE  Near(WithField(Course(b, L, t, k, Len(L)), f, HashIn(y)[f]), y, t, up)
  <2>1. t \in Nat /\ Len(L) \in 0..Len(L)
    BY ServerAssumption
  <2>2. PICK x : x = Course(b, L, t, k, Len(L))
    OBVIOUS
  <2>3. x \in Slot
    BY <2>1, <2>2, CourseSteps
  <2>4. SameEntry(x, e) /\ (up => Alive(x, t))
    BY <2>2 DEF Stands, SettledAt, Near
  <2>5. SameEntry(WithField(x, f, text), y)
    BY <2>3, <2>4, FieldSame DEF y
  <2>6. up => Alive(WithField(x, f, text), t)
    BY <2>1, <2>3, <2>4, HsetIs
  <2> QED BY <1>1, <2>2, <2>5, <2>6 DEF Near
<1> QED BY <1>2 DEF Stands, FieldDue, y

\* Its result is logged.
LEMMA StandsFieldLogged ==
    ASSUME NoLimit, NEW k \in Keys, NEW b \in Slot, NEW T \in Nat, NEW L \in Seq(KeyCommand),
           NEW e \in Slot, NEW up, NEW f \in Fields, NEW W, NEW F, f \in F, Stands(b, L, k, T, e, up, W, F)
    PROVE  Stands(b, Append(L, HsetCommand(k, f, HashIn(e)[f])), k, T, e, up, {}, {})
<1>1. HashIn(e)[f] \in FieldText \cup {None}
  BY SlotParts
<1>2. PICK a, text : a = HsetCommand(k, f, text) /\ text = HashIn(e)[f]
  OBVIOUS
<1>3. a \in KeyCommand /\ a.key = k /\ \A x, t : After(x, a, t) = WithField(x, f, text)
  BY <1>1, <1>2, HsetIs
<1> DEFINE M == Append(L, a)
<1>4. \A t \in T..MaxNow : t \in Nat /\ GrownCourse(b, L, a, t, k)
  BY <1>3, CourseGrows, ServerAssumption
<1>5. \A t \in T..MaxNow : Course(b, M, t, k, Len(M)) = WithField(Course(b, L, t, k, Len(L)), f, text)
  BY <1>3, <1>4 DEF GrownCourse
<1> HIDE DEF M
<1>6. \A t \in T..MaxNow : Near(WithField(Course(b, L, t, k, Len(L)), f, text), e, t, up)
  BY <1>2 DEF Stands, FieldDue
<1>7. SettledAt(b, M, k, Len(M), T, e, up)
  BY <1>5, <1>6 DEF SettledAt
<1>8. Stands(b, M, k, T, e, up, {}, {})
  BY <1>7 DEF Stands
<1> QED BY <1>2, <1>8 DEF M

\* What clients see is saved: the log is replayed on top of it from now on.
LEMMA StandsSaved ==
    ASSUME NoLimit, NEW k \in Keys, NEW b \in Slot, NEW T \in Nat, NEW L \in Seq(KeyCommand),
           NEW e \in Slot, NEW up, NEW W, Stands(b, L, k, T, e, up, W, {}),
           \A i \in 1..Len(L) : L[i].key = k => L[i].op \notin NotIdempotent
    PROVE  Stands(e, L, k, T, e, FALSE, W, {})
<1>1. ASSUME NEW t \in T..MaxNow, NEW n \in 0..Len(L)
      PROVE  Repeats(e, Course(b, L, t, k, n), Course(e, L, t, k, n))
  <2> DEFINE v(m) == Course(b, L, t, k, m)
             w(m) == Course(e, L, t, k, m)
             good == {m \in 0..Len(L) : Repeats(e, v(m), w(m))}
  <2>0. t \in Nat /\ Len(L) \in Nat /\ 0 \in 0..Len(L)
    BY ServerAssumption
  <2>1. /\ v(0) = b /\ \A m \in 0..Len(L) : v(m) \in Slot
        /\ \A m \in 0..Len(L) : m # 0 => v(m) = IF L[m].key = k THEN After(v(m - 1), L[m], t) ELSE v(m - 1)
    BY <2>0, CourseSteps
  <2>2. /\ w(0) = e /\ \A m \in 0..Len(L) : w(m) \in Slot
        /\ \A m \in 0..Len(L) : m # 0 => w(m) = IF L[m].key = k THEN After(w(m - 1), L[m], t) ELSE w(m - 1)
    BY <2>0, CourseSteps
  <2> HIDE DEF v, w
  <2>3. 0 \in good
    BY <2>0, <2>1, <2>2, RepeatsStart
  <2>4. ASSUME NEW m \in 0..Len(L), m \in good, m < Len(L)
        PROVE  m + 1 \in good
    <3>1. m + 1 \in 0..Len(L) /\ m + 1 \in 1..Len(L) /\ m + 1 # 0 /\ (m + 1) - 1 = m
      BY <2>4
    <3>2. v(m + 1) = (IF L[m + 1].key = k THEN After(v(m), L[m + 1], t) ELSE v(m))
          /\ w(m + 1) = (IF L[m + 1].key = k THEN After(w(m), L[m + 1], t) ELSE w(m))
      BY <2>1, <2>2, <3>1
    <3>3. PICK x, y, c : x = v(m) /\ y = w(m) /\ c = L[m + 1]
      OBVIOUS
    <3>4. x \in Slot /\ y \in Slot /\ Repeats(e, x, y)
      BY <2>1, <2>2, <2>4, <3>3
    <3>5. Single(c)
      <4>1. c \in KeyCommand
        BY <3>1, <3>3
      <4> QED BY <4>1, KeyCommandSingle
    <3>6. c.key = k => Repeats(e, After(x, c, t), After(y, c, t))
      <4>1. c.key = k => c.op \notin NotIdempotent
        BY <3>1, <3>3
      <4> QED BY <2>0, <3>4, <3>5, <4>1, RepeatsStep
    <3> QED BY <3>1, <3>2, <3>3, <3>4, <3>6
  <2> HIDE DEF good
  <2>5. \A m \in 0..Len(L) : m \in good /\ m < Len(L) => m + 1 \in good
    BY <2>4
  <2>6. \A m \in 0..Len(L) : m \in good
    BY <2>0, <2>3, <2>5, PositionInduction
  <2>7. n \in good
    BY <2>6
  <2> QED BY <2>7 DEF good, v, w
<1>2. ASSUME NEW n \in 0..Len(L), SettledAt(b, L, k, n, T, e, up)
      PROVE  SettledAt(e, L, k, n, T, e, FALSE)
  <2>1. ASSUME NEW t \in T..MaxNow
        PROVE  SameEntry(Course(e, L, t, k, n), e)
    <3>1. t \in Nat
      BY ServerAssumption
    <3>2. PICK x, y : x = Course(b, L, t, k, n) /\ y = Course(e, L, t, k, n)
      OBVIOUS
    <3>3. x \in Slot /\ y \in Slot
      BY <3>1, <3>2, CourseSteps
    <3>4. SameEntry(x, e) /\ Repeats(e, x, y)
      BY <1>1, <1>2, <3>2 DEF SettledAt, Near
    <3> QED BY <3>2, <3>3, <3>4, RepeatsEnd
  <2> QED BY <2>1 DEF SettledAt, Near
<1>3. \A a : Waiting(b, L, k, T, e, up, a) => Waiting(e, L, k, T, e, FALSE, a)
  BY <1>2 DEF Waiting
<1>4. Len(L) \in 0..Len(L)
  OBVIOUS
<1> QED BY <1>2, <1>3, <1>4 DEF Stands

\* A restart: what replay made of the log is what clients see.
LEMMA StandsStarted ==
    ASSUME Roomy, NEW k \in Keys, NEW b \in Slot, NEW T \in 0..MaxNow, NEW L \in Seq(KeyCommand),
           \/ b = None \/ b.expires_at = None
           \/ \E i \in 1..Len(L) : Resets(L[i], k)
    PROVE  Stands(b, L, k, T, Course(b, L, T, k, Len(L)), TRUE, {}, {})
<1>0. NoLimit /\ T \in Nat /\ Len(L) \in Nat
  BY ServerAssumption DEF Roomy
<1>1. ASSUME NEW t \in T..MaxNow
      PROVE  Near(Course(b, L, t, k, Len(L)), Course(b, L, T, k, Len(L)), t, TRUE)
  <2> DEFINE v(m) == Course(b, L, t, k, m)
             w(m) == Course(b, L, T, k, m)
             same(m) == SameEntry(v(m), w(m)) /\ Alive(v(m), t)
  <2>0. t \in Nat /\ T <= t /\ t <= MaxNow
    BY <1>0, ServerAssumption
  <2>1. /\ v(0) = b /\ \A m \in 0..Len(L) : v(m) \in Slot
        /\ \A m \in 0..Len(L) : m # 0 => v(m) = IF L[m].key = k THEN After(v(m - 1), L[m], t) ELSE v(m - 1)
    BY <1>0, <2>0, CourseSteps
  <2>2. /\ w(0) = b /\ \A m \in 0..Len(L) : w(m) \in Slot
        /\ \A m \in 0..Len(L) : m # 0 => w(m) = IF L[m].key = k THEN After(w(m - 1), L[m], T) ELSE w(m - 1)
    BY <1>0, CourseSteps
  <2> HIDE DEF v, w
  <2>3. ASSUME NEW m \in 0..Len(L), m < Len(L), same(m) \/ Resets(L[m + 1], k)
        PROVE  same(m + 1)
    <3>1. m + 1 \in 0..Len(L) /\ m + 1 \in 1..Len(L) /\ m + 1 # 0 /\ (m + 1) - 1 = m
      BY <2>3
    <3>2. v(m + 1) = (IF L[m + 1].key = k THEN After(v(m), L[m + 1], t) ELSE v(m))
          /\ w(m + 1) = (IF L[m + 1].key = k THEN After(w(m), L[m + 1], T) ELSE w(m))
      BY <2>1, <2>2, <3>1
    <3>3. PICK x, y, c : x = v(m) /\ y = w(m) /\ c = L[m + 1]
      OBVIOUS
    <3>4. x \in Slot /\ y \in Slot
      BY <2>1, <2>2, <3>3
    <3>5. Single(c)
      <4>1. c \in KeyCommand
        BY <3>1, <3>3
      <4> QED BY <4>1, KeyCommandSingle
    <3>6. CASE Resets(c, k)
      <4>1. c.key = k
        BY <3>6 DEF Resets
      <4>2. SameEntry(After(x, c, t), After(y, c, T)) /\ Alive(After(x, c, t), t)
        BY <1>0, <2>0, <3>5, <3>6, ResetsAfter
      <4> QED BY <3>2, <3>3, <4>1, <4>2
    <3>7. CASE ~Resets(c, k)
      <4>1. SameEntry(x, y) /\ Alive(x, t)
        BY <2>3, <3>3, <3>7
      <4>2. ASSUME c.key = k
            PROVE  SameEntry(After(x, c, t), After(y, c, T)) /\ Alive(After(x, c, t), t)
        <5>1. c.key \in Keys /\ (c.op = "expire" => Alive(x, t))
          BY <4>1, <4>2
        <5>2. SameEntry(After(x, c, t), After(y, c, T))
          BY <1>0, <2>0, <3>4, <3>5, <4>1, <5>1, SameAfter
        <5>3. Alive(After(x, c, t), t)
          BY <2>0, <3>4, <3>5, <4>1, AliveAfter
        <5> QED BY <5>2, <5>3
      <4> QED BY <3>2, <3>3, <4>1, <4>2
    <3> QED BY <3>6, <3>7
  <2>4. ASSUME NEW o \in 0..Len(L), same(o)
        PROVE  same(Len(L))
    <3> DEFINE d == Len(L) - o
               good == {i \in 0..d : same(o + i)}
    <3>1. d \in Nat /\ o \in Nat /\ o + d = Len(L) /\ o + 0 = o /\ 0 \in 0..d /\ d \in 0..d
      BY <1>0
    <3>2. 0 \in good
      BY <2>4, <3>1
    <3>3. ASSUME NEW i \in 0..d, i \in good, i < d
          PROVE  i + 1 \in good
      <4>1. o + i \in 0..Len(L) /\ o + i < Len(L) /\ o + (i + 1) = (o + i) + 1 /\ i + 1 \in 0..d
        BY <3>1, <3>3
      <4>2. same((o + i) + 1)
        BY <2>3, <3>3, <4>1
      <4> QED BY <4>1, <4>2
    <3> HIDE DEF good, d, same
    <3>4. \A i \in 0..d : i \in good /\ i < d => i + 1 \in good
      BY <3>3
    <3>5. \A i \in 0..d : i \in good
      BY <3>1, <3>2, <3>4, PositionInduction
    <3> QED BY <3>1, <3>5 DEF good
  <2>5. \E o \in 0..Len(L) : same(o)
    <3>1. CASE b = None \/ b.expires_at = None
      <4>1. 0 \in 0..Len(L) /\ SameEntry(b, b) /\ Alive(b, t)
        BY <1>0, <3>1 DEF SameEntry, Alive
      <4> QED BY <2>1, <2>2, <4>1
    <3>2. CASE \E i \in 1..Len(L) : Resets(L[i], k)
      <4>1. PICK i \in 1..Len(L) : Resets(L[i], k)
        BY <3>2
      <4>2. i - 1 \in 0..Len(L) /\ i - 1 < Len(L) /\ (i - 1) + 1 = i /\ i \in 0..Len(L)
        BY <1>0
      <4>3. same((i - 1) + 1)
        <5>1. Resets(L[(i - 1) + 1], k)
          BY <4>1, <4>2
        <5> QED BY <2>3, <4>2, <5>1
      <4> QED BY <4>2, <4>3
    <3> QED BY <3>1, <3>2
  <2>6. same(Len(L))
    BY <2>4, <2>5
  <2> QED BY <2>6 DEF Near, v, w
<1> QED BY <1>1 DEF Stands, SettledAt

-----------------------------------------------------------------------------
(* What replay carries out when the log grows *)

LEMMA ReplayedGrows ==
    ASSUME NEW L \in Seq(LogEntry), NEW x \in LogEntry
    PROVE  Replayed(Append(L, x)) =
             IF Dropped(x) THEN Replayed(L) ELSE Append(Replayed(L), x.cmd)
<1> DEFINE n == Len(L)
           M == Append(L, x)
           S == {i \in 1..n : ~Dropped(L[i])}
           R == {i \in 1..Len(M) : ~Dropped(M[i])}
           c == Cardinality(S)
<1>1. /\ n \in Nat /\ Len(M) = n + 1 /\ M[n + 1] = x /\ \A i \in 1..n : M[i] = L[i]
      /\ \A i : i \in 1..(n + 1) <=> i \in 1..n \/ i = n + 1
  OBVIOUS
<1>2. R = IF Dropped(x) THEN S ELSE S \cup {n + 1}
  BY <1>1
<1>3. S \in SUBSET (1..n)
  OBVIOUS
<1>4. Replayed(L) = [i \in 1..c |-> L[Nth(S, i)].cmd]
      /\ Replayed(M) = [i \in 1..Cardinality(R) |-> M[Nth(R, i)].cmd]
  BY DEF Replayed
<1>4a. Replayed(L) \in Seq(KeyCommand)
  <2>1. Len(L) \in Nat /\ \A i \in 1..Len(L) : L[i] \in LogEntry
    OBVIOUS
  <2> QED BY <2>1, ReplayedOK
<1> HIDE DEF M, S, R
<1>5. c \in Nat /\ \A i \in 1..c : Nth(S, i) \in 1..n
  BY <1>1, <1>3, NthOK, PositionsFinite
<1>6. CASE Dropped(x)
  <2>1. R = S
    BY <1>2, <1>6
  <2>2. [i \in 1..c |-> M[Nth(S, i)].cmd] = [i \in 1..c |-> L[Nth(S, i)].cmd]
    BY <1>1, <1>5
  <2>3. Replayed(M) = Replayed(L)
    BY <1>4, <2>1, <2>2
  <2> QED BY <1>6, <2>3 DEF M
<1>7. CASE ~Dropped(x)
  <2>1. R = S \cup {n + 1} /\ n + 1 \in Nat /\ n + 1 > n
    BY <1>1, <1>2, <1>7
  <2>2. TopLast(S, n + 1)
    BY <1>1, <1>3, <2>1, NthGrows
  <2>3. Cardinality(R) = c + 1 /\ Nth(R, c + 1) = n + 1 /\ \A i \in 1..c : Nth(R, i) = Nth(S, i)
    BY <2>1, <2>2 DEF TopLast
  <2>4. Replayed(M) = [i \in 1..(c + 1) |-> M[Nth(R, i)].cmd]
    BY <1>4, <2>3
  <2>5. PICK old \in Seq(KeyCommand) : old = Replayed(L)
    BY <1>4a
  <2>6. Len(old) = c /\ \A i \in 1..c : old[i] = L[Nth(S, i)].cmd
    <3>1. DOMAIN old = 1..c
      BY <1>4, <2>5
    <3>2. Len(old) \in Nat /\ DOMAIN old = 1..Len(old)
      OBVIOUS
    <3>3. Len(old) = c
      BY <1>5, <3>1, <3>2
    <3> QED BY <1>4, <2>5, <3>3
  <2>7. x.cmd \in KeyCommand
    BY <1>7 DEF LogEntry, BareCommand, Dropped
  <2>8. old \in [1..c -> KeyCommand]
    <3>1. old \in [1..Len(old) -> KeyCommand]
      OBVIOUS
    <3> QED BY <2>6, <3>1
  <2>9. \A i \in 1..(c + 1) : M[Nth(R, i)].cmd = IF i <= c THEN old[i] ELSE x.cmd
    <3> TAKE i \in 1..(c + 1)
    <3>1. CASE i \in 1..c
      <4>1. Nth(S, i) \in 1..n /\ Nth(R, i) = Nth(S, i) /\ i <= c
        BY <1>5, <2>3, <3>1
      <4>2. M[Nth(S, i)] = L[Nth(S, i)]
        BY <1>1, <4>1
      <4> QED BY <2>6, <3>1, <4>1, <4>2
    <3>2. CASE i = c + 1
      <4>1. ~(i <= c)
        BY <1>5, <3>2
      <4> QED BY <1>1, <2>3, <3>2, <4>1
    <3>3. i \in 1..c \/ i = c + 1
      BY <1>5
    <3> QED BY <3>1, <3>2, <3>3
  <2>10. Replayed(M) = Longer(old, c, x.cmd)
    BY <2>4, <2>9 DEF Longer
  <2>11. Longer(old, c, x.cmd) = Append(old, x.cmd)
    BY <1>5, <2>7, <2>8, OneMoreIsAppend
  <2> QED BY <1>7, <2>5, <2>10, <2>11 DEF M
<1> QED BY <1>6, <1>7

\* What replay would carry out now.
Kept == Replayed(read_all(wal))

\* The text x was written, and no line is malformed.
TextKept(x) ==
    /\ ~Glued /\ x \notin Cuts
    /\ Kept' = IF Dropped(x) THEN Kept ELSE Append(Kept, x.cmd)

LEMMA KeptText ==
    ASSUME wal \in Seq(LogLine) \ {<<>>}, NEW x \in LogEntry \cup Cuts, wal' = write_text(wal, x), ~Glued'
    PROVE  TextKept(x)
<1>1. Len(wal) > 0 /\ wal \in Seq(Seq(LogEntry \cup Cuts))
  BY DEF LogLine
<1>2. Clean(write_text(wal, x))
  BY DEF Glued, Clean
<1>3. Clean(wal) /\ x \notin Cuts /\ read_all(write_text(wal, x)) = Append(read_all(wal), x)
  <2>1. PICK T : T = LogEntry \cup Cuts
    OBVIOUS
  <2>2. wal \in Seq(Seq(T)) /\ x \in T
    BY <1>1, <2>1
  <2>3. /\ write_text(wal, x) \in Seq(Seq(T)) /\ Clean(wal) /\ x \notin Cuts
        /\ ParsedEntries(write_text(wal, x)) = Append(ParsedEntries(wal), x)
    BY <1>1, <1>2, <2>2, TextGrows
  <2>4. read_all(wal) = ParsedEntries(wal)
    BY <2>2, <2>3, CleanReads
  <2>5. read_all(write_text(wal, x)) = ParsedEntries(write_text(wal, x))
    BY <1>2, <2>3, CleanReads
  <2> QED BY <2>3, <2>4, <2>5
<1>4. read_all(wal) \in Seq(LogEntry) /\ x \in LogEntry
  BY <1>3, ReadTyped
<1>5. Replayed(Append(read_all(wal), x)) =
        IF Dropped(x) THEN Replayed(read_all(wal)) ELSE Append(Replayed(read_all(wal)), x.cmd)
  BY <1>4, ReplayedGrows
<1>6. Kept' = Replayed(Append(read_all(wal), x))
  BY <1>3 DEF Kept
<1>7. ~Glued
  BY <1>3 DEF Clean, Glued
<1> QED BY <1>3, <1>5, <1>6, <1>7 DEF TextKept, Kept

LEMMA KeptNewline ==
    ASSUME wal \in Seq(LogLine) \ {<<>>}, wal' = write_newline(wal)
    PROVE  (~Glued => Kept' = Kept) /\ (Glued' <=> Glued)
<1>1. PICK T : T = LogEntry \cup Cuts
  OBVIOUS
<1>2. Len(wal) > 0 /\ wal \in Seq(Seq(T))
  BY <1>1 DEF LogLine
<1>3. /\ write_newline(wal) \in Seq(Seq(T))
      /\ ParsedEntries(write_newline(wal)) = ParsedEntries(wal)
      /\ Clean(write_newline(wal)) <=> Clean(wal)
  BY <1>2, NewlineGrows
<1>4. Glued' <=> Glued
  BY <1>3 DEF Glued, Clean
<1>5. ASSUME ~Glued
      PROVE  Kept' = Kept
  <2>1. Clean(wal)
    BY <1>5 DEF Glued, Clean
  <2>2. read_all(wal) = ParsedEntries(wal)
    BY <1>2, <2>1, CleanReads
  <2>3. read_all(write_newline(wal)) = ParsedEntries(write_newline(wal))
    BY <1>3, <2>1, CleanReads
  <2>4. read_all(wal') = read_all(wal)
    BY <1>3, <2>2, <2>3
  <2> QED BY <2>4 DEF Kept
<1> QED BY <1>4, <1>5

LEMMA KeptStays ==
    ASSUME wal' = wal
    PROVE  Kept' = Kept /\ (Glued' <=> Glued)
  BY DEF Kept, Glued

LEMMA KeptTyped ==
    ASSUME wal \in Seq(LogLine)
    PROVE  Kept \in Seq(KeyCommand)
  BY LoggedOK DEF Kept

-----------------------------------------------------------------------------
(* What a restart would bring back *)

\* The request j has a command in the log that the store lacks: it has written the
\* text of the one, or is about to carry it out.
InFlight(j) == j.logged /\ IF First(j) = "log" THEN j.half ELSE First(j) = "apply"

Aim(j) == IF First(j) = "log" THEN j.todo[1].entry.cmd ELSE j.todo[1].cmds[1]

Mine(j, k) == j # None /\ k \in j.keys /\ InFlight(j) /\ Aim(j).key = k

\* It has changed a field that the log does not know of.
Owes(j, k) == j # None /\ k \in j.keys /\ First(j) = "logfield" /\ ~j.half /\ j.todo[1].key = k

\* The commands on k in the log that are yet to be carried out; the fields of k
\* yet to be logged.
Aims(k) == {Aim(job[c]) : c \in {d \in Clients : Mine(job[d], k)}}

Dues(k) == {job[c].todo[1].field : c \in {d \in Clients : Owes(job[d], k)}}

\* What the saved file holds for k.
Base(k) == IF saved = None THEN None ELSE saved.store[k]

Sound(k) ==
    Doubled(k) \/ Stands(Base(k), Kept, k, now, mem.store[k], mode = "up", Aims(k), Dues(k))

\* The keys of which recovery promises something stand to the log as they should.
Faithful == mode # "down" /\ ~Glued => \A k \in Keys \ excused : Sound(k)

FaithInv == ServerInv /\ QueueIn(mem, excused) /\ Faithful

\* One request moves, and what it owes and means to do stays.
LEMMA Outside ==
    ASSUME JobInv, NEW c \in Clients, NEW j, job' = [job EXCEPT ![c] = j], NEW k,
           Mine(j, k) <=> Mine(job[c], k), Mine(j, k) => Aim(j) = Aim(job[c]),
           ~Owes(j, k), ~Owes(job[c], k)
    PROVE  Aims(k)' = Aims(k) /\ Dues(k)' = Dues(k)
<1>1. job'[c] = j /\ \A d \in Clients : d # c => job'[d] = job[d]
  BY DEF JobInv
<1>2. \A d \in Clients : /\ Mine(job'[d], k) <=> Mine(job[d], k)
                         /\ Mine(job'[d], k) => Aim(job'[d]) = Aim(job[d])
                         /\ Owes(job'[d], k) <=> Owes(job[d], k)
                         /\ Owes(job'[d], k) => job'[d] = job[d]
  BY <1>1
<1>3. {d \in Clients : Mine(job'[d], k)} = {d \in Clients : Mine(job[d], k)}
      /\ {d \in Clients : Owes(job'[d], k)} = {d \in Clients : Owes(job[d], k)}
  BY <1>2
<1>4. {Aim(job'[d]) : d \in {e \in Clients : Mine(job'[e], k)}} = {Aim(job[d]) : d \in {e \in Clients : Mine(job[e], k)}}
  <2> DEFINE D == {e \in Clients : Mine(job[e], k)}
  <2>1. \A d \in D : Aim(job'[d]) = Aim(job[d])
    BY <1>2
  <2>2. {e \in Clients : Mine(job'[e], k)} = D
    BY <1>3
  <2> HIDE DEF D
  <2>3. {Aim(job'[d]) : d \in D} = {Aim(job[d]) : d \in D}
    BY <2>1
  <2> QED BY <2>2, <2>3 DEF D
<1>5. {job'[d].todo[1].field : d \in {e \in Clients : Owes(job'[e], k)}}
        = {job[d].todo[1].field : d \in {e \in Clients : Owes(job[e], k)}}
  <2> DEFINE D == {e \in Clients : Owes(job[e], k)}
  <2>1. \A d \in D : job'[d] = job[d]
    BY <1>2
  <2>2. {e \in Clients : Owes(job'[e], k)} = D
    BY <1>3
  <2> HIDE DEF D
  <2>3. {job'[d].todo[1].field : d \in D} = {job[d].todo[1].field : d \in D}
    BY <2>1
  <2> QED BY <2>2, <2>3 DEF D
<1> QED BY <1>4, <1>5 DEF Aims, Dues

LEMMA AimsStay ==
    ASSUME UNCHANGED job, NEW k
    PROVE  Aims(k)' = Aims(k) /\ Dues(k)' = Dues(k)
  BY DEF Aims, Dues

\* What the request j means to do and owes, when k is its key alone.
AimsOf(j, k) == IF Mine(j, k) THEN {Aim(j)} ELSE {}

DuesOf(j, k) == IF Owes(j, k) THEN {j.todo[1].field} ELSE {}

LEMMA Alone ==
    ASSUME JobInv, NEW c \in Clients, job[c] # None, NEW k, k \in job[c].keys, k \notin excused,
           NEW j, job' = [job EXCEPT ![c] = j]
    PROVE  /\ Aims(k) = AimsOf(job[c], k) /\ Dues(k) = DuesOf(job[c], k)
           /\ Aims(k)' = AimsOf(j, k) /\ Dues(k)' = DuesOf(j, k)
<1>1. job'[c] = j /\ \A d \in Clients : d # c => job'[d] = job[d]
  BY DEF JobInv
<1>2. \A d \in Clients : d # c => ~Mine(job[d], k) /\ ~Owes(job[d], k)
  <2>1. \A d \in Clients : d # c /\ job[d] # None => k \notin job[d].keys
    BY DEF JobInv, Apart
  <2> QED BY <2>1 DEF Mine, Owes
<1>3. {d \in Clients : Mine(job[d], k)} = (IF Mine(job[c], k) THEN {c} ELSE {})
      /\ {d \in Clients : Owes(job[d], k)} = (IF Owes(job[c], k) THEN {c} ELSE {})
  BY <1>2
<1>4. {d \in Clients : Mine(job'[d], k)} = (IF Mine(j, k) THEN {c} ELSE {})
      /\ {d \in Clients : Owes(job'[d], k)} = (IF Owes(j, k) THEN {c} ELSE {})
  BY <1>1, <1>2
<1>5. Aims(k) = AimsOf(job[c], k) /\ Dues(k) = DuesOf(job[c], k)
  BY <1>3 DEF Aims, Dues, AimsOf, DuesOf
<1>6. Aims(k)' = AimsOf(j, k) /\ Dues(k)' = DuesOf(j, k)
  <2>1. Aims(k)' = {Aim(job'[d]) : d \in IF Mine(j, k) THEN {c} ELSE {}}
    BY <1>4 DEF Aims
  <2>2. Dues(k)' = {job'[d].todo[1].field : d \in IF Owes(j, k) THEN {c} ELSE {}}
    BY <1>4 DEF Dues
  <2> QED BY <1>1, <2>1, <2>2 DEF AimsOf, DuesOf
<1> QED BY <1>5, <1>6

\* What was logged twice stays so.
LEMMA Doubling ==
    ASSUME wal \in Seq(LogLine), NEW k, ~Doubled(k)', mode' = mode,
           Kept' = Kept \/ \E a \in KeyCommand : Kept' = Append(Kept, a)
    PROVE  ~Doubled(k)
<1>1. SUFFICES ASSUME Doubled(k) PROVE FALSE
  OBVIOUS
<1>2. PICK i \in 1..Len(Kept) : Kept[i].key = k /\ Kept[i].op \in NotIdempotent
  BY <1>1 DEF Doubled, Kept
<1>3. mode' = "stopping"
  BY <1>1 DEF Doubled
<1>4. i \in 1..Len(Kept') /\ Kept'[i] = Kept[i]
  <2>1. PICK L \in Seq(KeyCommand) : L = Kept
    BY KeptTyped
  <2>2. \A a \in KeyCommand : i \in 1..Len(Append(L, a)) /\ Append(L, a)[i] = L[i]
    BY <1>2, <2>1
  <2> QED BY <1>2, <2>1, <2>2
<1>5. Doubled(k)'
  BY <1>2, <1>3, <1>4 DEF Doubled, Kept
<1> QED BY <1>5

\* The entry, the file and the clock that Sound speaks of.
LEMMA SoundParts ==
    ASSUME ServerInv, NEW k \in Keys
    PROVE  /\ Base(k) \in Slot /\ mem.store[k] \in Slot /\ Kept \in Seq(KeyCommand)
           /\ now \in 0..MaxNow /\ now \in Nat /\ wal \in Seq(LogLine) \ {<<>>} /\ JobInv
<1>1. Base(k) \in Slot
  <2>1. CASE saved = None
    BY <2>1 DEF Base, Slot
  <2>2. CASE saved # None
    BY <2>2 DEF ServerInv, Base, SavedStore, Slot
  <2> QED BY <2>1, <2>2
<1>2. mem.store[k] \in Slot
  BY DEF ServerInv, StateOK, Slot
<1>3. Kept \in Seq(KeyCommand) /\ now \in 0..MaxNow /\ wal \in Seq(LogLine) \ {<<>>} /\ JobInv
  BY KeptTyped DEF ServerInv
<1> QED BY <1>1, <1>2, <1>3, ServerAssumption

\* The first step of a program, and the one after it.
PlainFirst(j) ==
    /\ First(j) \in {"log", "apply"}
    /\ First(j) = "log" =>
         /\ j.todo[1].entry.json
         /\ j.todo[1].entry.cmd \in KeyCommand /\ j.todo[1].entry.cmd.key \in j.keys
         /\ Tail(j.todo) # <<>> /\ Tail(j.todo)[1] = Do(<<j.todo[1].entry.cmd>>)
    /\ First(j) = "apply" =>
         /\ j.logged /\ ~j.half
         /\ \E a \in KeyCommand : j.todo[1].cmds = <<a>> /\ a.key \in j.keys
         /\ Tail(j.todo) # <<>> => Tail(j.todo)[1].do = "log"
    /\ j.half => j.logged

LEMMA PlainParts ==
    ASSUME NEW j \in Program, Plain(j)
    PROVE  PlainFirst(j)
<1> DEFINE n == Len(j.todo)
<1>1. n \in Nat /\ n >= 1 /\ 1 \in 1..n /\ j.todo \in Seq(Instruction)
  BY TodoParts DEF Program
<1>2. /\ Tail(j.todo) # <<>> => n > 1
      /\ n > 1 => Tail(j.todo) # <<>> /\ Tail(j.todo)[1] = j.todo[1 + 1]
  <2>1. PICK todo \in Seq(Instruction) : todo = j.todo
    BY <1>1
  <2>2. Len(todo) >= 1 /\ Len(Tail(todo)) = Len(todo) - 1 /\ (Len(todo) > 1 => Tail(todo)[1] = todo[2])
    BY <1>1, <2>1
  <2>3. Tail(todo) # <<>> <=> Len(Tail(todo)) # 0
    <3>1. PICK rest \in Seq(Instruction) : rest = Tail(todo)
      <4>1. \A s \in Seq(Instruction) : s # <<>> => Tail(s) \in Seq(Instruction)
        OBVIOUS
      <4>2. todo # <<>>
        BY <2>1 DEF Program
      <4> QED BY <4>1, <4>2
    <3>2. rest # <<>> <=> Len(rest) # 0
      OBVIOUS
    <3> QED BY <3>1, <3>2
  <2> QED BY <2>1, <2>2, <2>3
<1>3. \/ /\ j.todo[1].do = "log" /\ j.todo[1].entry.json
         /\ j.todo[1].entry.cmd \in KeyCommand /\ j.todo[1].entry.cmd.key \in j.keys
         /\ 1 < n /\ j.todo[1 + 1] = Do(<<j.todo[1].entry.cmd>>)
      \/ /\ \E a \in KeyCommand : j.todo[1] = Do(<<a>>) /\ a.key \in j.keys
         /\ j.logged
         /\ 1 < n => j.todo[1 + 1].do = "log"
  BY <1>1 DEF Plain
<1>4. \A a : Do(<<a>>).do = "apply" /\ Do(<<a>>).cmds = <<a>>
  BY DEF Do
<1>5. j.half => j.logged /\ j.todo[1].do = "log"
  BY DEF Plain
<1> HIDE DEF n
<1>6. CASE j.todo[1].do = "log"
  <2>1. \A a : j.todo[1] # Do(<<a>>)
    BY <1>4, <1>6
  <2> QED BY <1>2, <1>3, <1>5, <1>6, <2>1 DEF PlainFirst, First
<1>7. CASE j.todo[1].do # "log"
  <2>1. PICK a \in KeyCommand : j.todo[1] = Do(<<a>>) /\ a.key \in j.keys
    BY <1>3, <1>7
  <2>2. j.todo[1].do = "apply" /\ j.todo[1].cmds = <<a>>
    BY <1>4, <2>1
  <2> QED BY <1>2, <1>3, <1>5, <1>7, <2>1, <2>2 DEF PlainFirst, First
<1> QED BY <1>6, <1>7

FloatFirst(j, k, f, n) ==
    /\ k \in j.keys
    /\ \/ /\ First(j) = "apply" /\ j.todo[1].cmds = <<FloatCommand(k, f, n)>>
          /\ Tail(j.todo) = <<LogField(k, f)>> /\ ~j.half /\ ~j.logged
       \/ /\ First(j) = "logfield" /\ j.todo[1].key = k /\ j.todo[1].field = f
          /\ Tail(j.todo) = <<>>

LEMMA FloatParts ==
    ASSUME NEW j \in Program, Float(j)
    PROVE  \E k \in Keys, f \in Fields, n \in Int : FloatFirst(j, k, f, n)
<1>1. PICK k \in Keys, f \in Fields, n \in Int :
        /\ k \in j.keys
        /\ \/ /\ j.todo = <<Do(<<FloatCommand(k, f, n)>>), LogField(k, f)>>
              /\ ~j.half /\ ~j.logged
           \/ j.todo = <<LogField(k, f)>>
  BY DEF Float
<1> DEFINE a == Do(<<FloatCommand(k, f, n)>>)
           b == LogField(k, f)
<1>2. a.do = "apply" /\ a.cmds = <<FloatCommand(k, f, n)>>
      /\ b.do = "logfield" /\ b.key = k /\ b.field = f
  BY DEF Do, LogField
<1> HIDE DEF a, b
<1>3. <<a, b>>[1] = a /\ Tail(<<a, b>>) = <<b>> /\ <<b>>[1] = b /\ Tail(<<b>>) = <<>>
  OBVIOUS
<1>4. \/ j.todo = <<a, b>> /\ ~j.half /\ ~j.logged
      \/ j.todo = <<b>>
  BY <1>1 DEF a, b
<1>5. FloatFirst(j, k, f, n)
  <2>1. CASE j.todo = <<a, b>> /\ ~j.half /\ ~j.logged
    <3>1. j.todo[1] = a /\ Tail(j.todo) = <<b>>
      BY <1>3, <2>1
    <3> QED BY <1>1, <1>2, <2>1, <3>1 DEF FloatFirst, First, b
  <2>2. CASE j.todo = <<b>>
    <3>1. j.todo[1] = b /\ Tail(j.todo) = <<>>
      BY <1>3, <2>2
    <3> QED BY <1>1, <1>2, <3>1 DEF FloatFirst, First
  <2> QED BY <1>4, <2>1, <2>2
<1> QED BY <1>5

FreeFirst(j) ==
    /\ First(j) \in {"log", "apply"}
    /\ First(j) = "log" => \/ j.todo[1].entry.cmd \in KeyCommand /\ j.todo[1].entry.cmd.key \in j.keys
                           \/ j.todo[1].entry.cmd \in BareCommand /\ ~j.todo[1].entry.json

LEMMA FreeParts ==
    ASSUME NEW j \in Program, NEW X, Free(j, X)
    PROVE  FreeFirst(j) /\ j.keys \subseteq X
<1>1. Len(j.todo) \in Nat /\ Len(j.todo) >= 1 /\ 1 \in 1..Len(j.todo)
  BY TodoParts
<1>2. CASE Len(j.todo) = 1
  BY <1>2 DEF Free, FreeFirst, First
<1>3. CASE Len(j.todo) # 1
  <2>1. 1 \in 1..(Len(j.todo) - 1)
    <3>1. PICK m \in Nat : m = Len(j.todo) /\ m >= 1 /\ m # 1
      BY <1>1, <1>3
    <3>2. m >= 1 /\ m # 1
      BY <3>1, Zenon
    <3>3. 1 \in 1..(m - 1)
      BY <3>2
    <3> QED BY <3>1, <3>3, Zenon
  <2>2. j.todo[1].do = "log" /\ (j.todo[1].entry.cmd \in KeyCommand => j.todo[1].entry.cmd.key \in j.keys)
    BY <2>1 DEF Free
  <2>3. \/ j.todo[1].entry.cmd \in KeyCommand
        \/ j.todo[1].entry.cmd \in BareCommand /\ ~j.todo[1].entry.json
    BY <1>1, <2>2, TodoParts
  <2> QED BY <2>2, <2>3 DEF Free, FreeFirst, First
<1> QED BY <1>2, <1>3

-----------------------------------------------------------------------------
(* Steps of a request *)

\* What Faithful says of one key.
LEMMA Standing ==
    ASSUME Faithful, mode # "down", ~Glued, NEW k \in Keys, k \notin excused, ~Doubled(k)
    PROVE  Stands(Base(k), Kept, k, now, mem.store[k], mode = "up", Aims(k), Dues(k))
  BY DEF Faithful, Sound

\* One that does not concern the key k.
LEMMA Untouched ==
    ASSUME ServerInv, Faithful, NoLimit, mode # "down", ~Glued, NEW k \in Keys, k \notin excused,
           ~Doubled(k)', mode' = mode, saved' = saved, now' = now, mem'.store[k] = mem.store[k],
           Aims(k)' = Aims(k) /\ Dues(k)' = Dues(k),
           Kept' = Kept \/ \E a \in KeyCommand : a.key # k /\ Kept' = Append(Kept, a)
    PROVE  Sound(k)'
<1>1. /\ Base(k) \in Slot /\ mem.store[k] \in Slot /\ Kept \in Seq(KeyCommand)
      /\ now \in Nat /\ wal \in Seq(LogLine)
  BY SoundParts
<1>2. ~Doubled(k)
  BY <1>1, Doubling
<1>3. Stands(Base(k), Kept, k, now, mem.store[k], mode = "up", Aims(k), Dues(k))
  BY <1>2, Standing
<1>4. Stands(Base(k), Kept', k, now, mem.store[k], mode = "up", Aims(k), Dues(k))
  <2>1. ASSUME NEW a \in KeyCommand, a.key # k, Kept' = Append(Kept, a)
        PROVE  Stands(Base(k), Kept', k, now, mem.store[k], mode = "up", Aims(k), Dues(k))
    <3>1. PICK b, L, T, e, up, W, F : /\ b = Base(k) /\ L = Kept /\ T = now /\ e = mem.store[k]
                                      /\ up = (mode = "up") /\ W = Aims(k) /\ F = Dues(k)
      OBVIOUS
    <3>2. b \in Slot /\ L \in Seq(KeyCommand) /\ T \in Nat /\ Stands(b, L, k, T, e, up, W, F)
      BY <1>1, <1>3, <3>1
    <3>3. Stands(b, Append(L, a), k, T, e, up, W, F)
      BY <2>1, <3>2, StandsOther
    <3> QED BY <2>1, <3>1, <3>3
  <2> QED BY <1>3, <2>1
<1>5. Base(k)' = Base(k)
  BY DEF Base
<1> QED BY <1>4, <1>5 DEF Sound

LEMMA BeginFaith ==
    ASSUME FaithInv, NoLimit, NEW c \in Clients, NEW j, NEW lost, Begin(c, j, lost),
           Fresh(j, lost)
    PROVE  QueueIn(mem, excused)' /\ Faithful'
<1>1. /\ ServerInv /\ JobInv /\ job[c] = None /\ mode # "down" /\ excused \subseteq excused'
      /\ UNCHANGED <<mode, mem, wal, saved, now>> /\ job' = [job EXCEPT ![c] = j]
  BY DEF FaithInv, ServerInv, Begin, disk
<1>2. QueueIn(mem, excused)'
  BY <1>1 DEF FaithInv, QueueIn
<1>3. ASSUME ~Glued', NEW k \in Keys, k \notin excused', ~Doubled(k)'
      PROVE  Sound(k)'
  <2>1. ~Mine(j, k) /\ ~Owes(j, k)
    BY DEF Fresh, Mine, InFlight, Owes
  <2>2. ~Mine(job[c], k) /\ ~Owes(job[c], k)
    BY <1>1 DEF Mine, Owes
  <2>3. Aims(k)' = Aims(k) /\ Dues(k)' = Dues(k)
    BY <1>1, <2>1, <2>2, Outside
  <2>4. Kept' = Kept /\ ~Glued
    BY <1>1, <1>3, KeptStays
  <2> QED BY <1>1, <1>3, <2>3, <2>4, Untouched DEF FaithInv
<1> QED BY <1>2, <1>3 DEF Faithful, Sound

LEMMA AcquireFaith ==
    ASSUME FaithInv, NoLimit, NEW c \in Clients, Acquire(c)
    PROVE  QueueIn(mem, excused)' /\ Faithful'
<1>1. /\ ServerInv /\ JobInv /\ job[c] # None /\ job[c].hold /\ lock = None /\ excused' = excused
      /\ UNCHANGED <<mode, mem, wal, saved, now>>
  BY DEF FaithInv, ServerInv, Acquire, disk
<1>2. job' = [job EXCEPT ![c] = None] \/ job' = job
  BY Zenon DEF Acquire
<1>3. QueueIn(mem, excused)'
  BY <1>1 DEF FaithInv, QueueIn
<1>4. mode # "down"
  BY <1>1, Busy
<1>5. ASSUME ~Glued', NEW k \in Keys, k \notin excused', ~Doubled(k)'
      PROVE  Sound(k)'
  <2>1. ~Mine(job[c], k) /\ ~Owes(job[c], k)
    <3>1. c # None
      BY NobodyAssumption
    <3>2. ~job[c].logged /\ First(job[c]) # "logfield"
      BY <1>1, <3>1 DEF JobInv, LockOK
    <3> QED BY <3>2 DEF Mine, InFlight, Owes
  <2>2. Aims(k)' = Aims(k) /\ Dues(k)' = Dues(k)
    <3>1. CASE job' = [job EXCEPT ![c] = None]
      <4>1. PICK j : j = None
        OBVIOUS
      <4>2. ~Mine(j, k) /\ ~Owes(j, k) /\ job' = [job EXCEPT ![c] = j]
        BY <3>1, <4>1 DEF Mine, Owes
      <4> QED BY <1>1, <2>1, <4>2, Outside
    <3>2. CASE job' = job
      BY <3>2, AimsStay
    <3> QED BY <1>2, <3>1, <3>2
  <2>3. Kept' = Kept /\ ~Glued
    BY <1>1, <1>5, KeptStays
  <2> QED BY <1>1, <1>4, <1>5, <2>2, <2>3, Untouched DEF FaithInv
<1> QED BY <1>3, <1>5 DEF Faithful, Sound

\* What Advance makes of the job.
LEMMA AdvanceJob ==
    ASSUME NEW c, NEW i, Advance(c, i)
    PROVE  \E j : /\ job' = [job EXCEPT ![c] = j]
                  /\ i.todo = <<>> => j = None
                  /\ i.todo # <<>> => j = [i EXCEPT !.since = now]
<1>1. job' = [job EXCEPT ![c] = IF i.todo = <<>> THEN None ELSE [i EXCEPT !.since = now]]
  BY DEF Advance
<1> QED BY <1>1

LEMMA NewlineFaith ==
    ASSUME FaithInv, NoLimit, NEW c \in Clients, WriteNewline(c)
    PROVE  QueueIn(mem, excused)' /\ Faithful'
<1> DEFINE i == [job[c] EXCEPT !.todo = Tail(@), !.half = FALSE]
<1>1. /\ ServerInv /\ JobInv /\ job[c] # None /\ job[c].half /\ First(job[c]) # "apply"
      /\ excused' = excused /\ UNCHANGED <<mode, mem, saved, now>> /\ wal' = write_newline(wal)
      /\ Advance(c, i)
  BY DEF FaithInv, ServerInv, WriteNewline, Logging, Ready, First
<1>2. job[c] \in Program /\ Shape(job[c], excused)
  BY <1>1 DEF JobInv
<1>3. /\ i.keys = job[c].keys /\ i.logged = job[c].logged /\ ~i.half /\ i.todo = Tail(job[c].todo)
      /\ DOMAIN i = DOMAIN job[c]
  BY <1>2 DEF Program
<1>3a. LET m == [i EXCEPT !.since = now]
       IN  m.keys = i.keys /\ m.logged = i.logged /\ m.half = i.half /\ m.todo = i.todo
  BY <1>2 DEF Program
<1> HIDE DEF i
<1>4. PICK j : /\ job' = [job EXCEPT ![c] = j]
               /\ i.todo = <<>> => j = None
               /\ i.todo # <<>> => j = [i EXCEPT !.since = now]
  BY <1>1, AdvanceJob
<1>5. j # None => /\ j.keys = job[c].keys /\ j.logged = job[c].logged /\ ~j.half
                  /\ j.todo = Tail(job[c].todo) /\ j.todo # <<>>
  BY <1>3, <1>3a, <1>4
<1>6. mode # "down"
  BY <1>1, Busy
<1>7. QueueIn(mem, excused)'
  BY <1>1 DEF FaithInv, QueueIn
<1>8. ASSUME ~Glued', NEW k \in Keys, k \notin excused', ~Doubled(k)'
      PROVE  Sound(k)'
  <2>1. /\ Mine(j, k) <=> Mine(job[c], k)
        /\ Mine(j, k) => Aim(j) = Aim(job[c])
        /\ ~Owes(j, k) /\ ~Owes(job[c], k)
    <3>0. ~Owes(job[c], k)
      BY <1>1 DEF Owes
    <3>1. CASE k \notin job[c].keys
      BY <1>5, <3>0, <3>1 DEF Mine, Owes
    <3>2. CASE k \in job[c].keys /\ Plain(job[c])
      <4>1. PICK cmd : cmd = job[c].todo[1].entry.cmd
        OBVIOUS
      <4>2. /\ First(job[c]) = "log" /\ job[c].logged /\ Tail(job[c].todo) # <<>>
            /\ Tail(job[c].todo)[1] = Do(<<cmd>>)
        BY <1>1, <1>2, <3>2, <4>1, PlainParts DEF PlainFirst
      <4>3. Mine(job[c], k) <=> cmd.key = k
        BY <1>1, <3>2, <4>1, <4>2 DEF Mine, InFlight, Aim
      <4>4. j # None
        <5>1. i.todo # <<>> /\ j = [i EXCEPT !.since = now]
          BY <1>3, <1>4, <4>2
        <5>2. [i EXCEPT !.since = now] \in Program
          <6>1. i.todo \in Seq(Instruction)
            BY <1>2, <1>3 DEF Program
          <6>2. now \in 0..MaxNow
            BY <1>1 DEF ServerInv
          <6> QED BY <1>2, <5>1, <6>1, <6>2 DEF i, Program
        <5> QED BY <5>1, <5>2, NobodyAssumption
      <4>5. /\ j.keys = job[c].keys /\ j.logged /\ j.todo[1] = Do(<<cmd>>)
        BY <1>5, <4>2, <4>4
      <4>6. First(j) = "apply" /\ Aim(j) = cmd
        <5>1. Do(<<cmd>>).do = "apply" /\ Do(<<cmd>>).cmds[1] = cmd
          BY DEF Do
        <5> QED BY <4>5, <5>1 DEF First, Aim
      <4>7. Aim(job[c]) = cmd
        BY <4>1, <4>2 DEF Aim
      <4>8. Mine(j, k) <=> cmd.key = k
        BY <3>2, <4>4, <4>5, <4>6 DEF Mine, InFlight
      <4>9. ~Owes(j, k)
        BY <4>6 DEF Owes
      <4> QED BY <3>0, <4>3, <4>6, <4>7, <4>8, <4>9
    <3>3. CASE Float(job[c])
      <4>1. PICK h \in Keys, f \in Fields, n \in Int : FloatFirst(job[c], h, f, n)
        BY <1>2, <3>3, FloatParts
      <4>2. First(job[c]) = "logfield" /\ Tail(job[c].todo) = <<>>
        BY <1>1, <4>1 DEF FloatFirst
      <4>3. j = None
        BY <1>3, <1>4, <4>2
      <4> QED BY <3>0, <4>2, <4>3 DEF Mine, InFlight, Owes
    <3>4. CASE Free(job[c], excused)
      <4>1. k \notin job[c].keys
        BY <1>1, <1>2, <1>8, <3>4, FreeParts
      <4> QED BY <3>1, <4>1
    <3>5. ~Open(job[c], excused)
      BY <1>1, OpenFirst
    <3> QED BY <1>2, <3>1, <3>2, <3>3, <3>4, <3>5 DEF Shape
  <2>2. Aims(k)' = Aims(k) /\ Dues(k)' = Dues(k)
    BY <1>1, <1>4, <2>1, Outside
  <2>3. Kept' = Kept /\ ~Glued
    BY <1>1, <1>8, KeptNewline DEF ServerInv
  <2> QED BY <1>1, <1>6, <1>8, <2>2, <2>3, Untouched DEF FaithInv
<1> QED BY <1>7, <1>8 DEF Faithful, Sound

\* The entry a request writes is about one of its keys, or replay drops it.
LEMMA EntryParts ==
    ASSUME JobInv, StateOK(mem), NEW c \in Clients, job[c] # None, First(job[c]) # "apply", NEW t \in 0..MaxNow,
           NEW x, x = EntryOf(job[c].todo[1], t)
    PROVE  /\ x \in LogEntry
           /\ Dropped(x) \/ (x.cmd \in KeyCommand /\ x.cmd.key \in job[c].keys)
           /\ Plain(job[c]) => First(job[c]) = "log" /\ x.cmd = job[c].todo[1].entry.cmd /\ ~Dropped(x)
           /\ Float(job[c]) => /\ First(job[c]) = "logfield"
                               /\ \E k \in Keys, f \in Fields :
                                    /\ k \in job[c].keys /\ job[c].todo[1].key = k /\ job[c].todo[1].field = f
                                    /\ x.cmd = HsetCommand(k, f, HashIn(mem.store[k])[f])
                                    /\ x.cmd \in KeyCommand /\ x.cmd.key = k /\ ~Dropped(x)
<1>1. job[c] \in Program /\ Shape(job[c], excused)
  BY DEF JobInv
<1>2. job[c].todo[1] \in Instruction
  BY <1>1, TodoParts
<1>3. x \in LogEntry
  BY <1>2, EntryTyped DEF First
<1>4. ASSUME First(job[c]) = "log"
      PROVE  x.cmd = job[c].todo[1].entry.cmd /\ x.json = job[c].todo[1].entry.json
  BY <1>4 DEF First, EntryOf
<1>5. ASSUME Plain(job[c])
      PROVE  /\ First(job[c]) = "log" /\ x.cmd = job[c].todo[1].entry.cmd /\ ~Dropped(x)
             /\ x.cmd \in KeyCommand /\ x.cmd.key \in job[c].keys
  <2>1. PlainFirst(job[c])
    BY <1>1, <1>5, PlainParts
  <2> QED BY <1>4, <2>1 DEF PlainFirst, Dropped
<1>6. ASSUME Float(job[c])
      PROVE  /\ First(job[c]) = "logfield"
             /\ \E k \in Keys, f \in Fields :
                  /\ k \in job[c].keys /\ job[c].todo[1].key = k /\ job[c].todo[1].field = f
                  /\ x.cmd = HsetCommand(k, f, HashIn(mem.store[k])[f])
                  /\ x.cmd \in KeyCommand /\ x.cmd.key = k /\ ~Dropped(x)
  <2>1. PICK k \in Keys, f \in Fields, n \in Int : FloatFirst(job[c], k, f, n)
    BY <1>1, <1>6, FloatParts
  <2>2. k \in job[c].keys /\ First(job[c]) = "logfield" /\ job[c].todo[1].key = k /\ job[c].todo[1].field = f
    BY <2>1 DEF FloatFirst
  <2>3. HashOf(mem, k) = HashIn(mem.store[k])
    BY DEF HashOf, HashIn, Has, Is
  <2>4. x.cmd = HsetCommand(k, f, HashIn(mem.store[k])[f]) /\ x.json
    BY <2>2, <2>3 DEF EntryOf, First, HsetCommand
  <2>5. HashIn(mem.store[k])[f] \in FieldText \cup {None}
    <3>1. mem.store[k] \in Slot
      BY DEF StateOK, Slot
    <3> QED BY <3>1, SlotParts
  <2>6. x.cmd \in KeyCommand /\ x.cmd.key = k
    BY <2>4, <2>5, HsetIs
  <2> QED BY <2>2, <2>4, <2>6 DEF Dropped
<1>7. ASSUME Free(job[c], excused)
      PROVE  Dropped(x) \/ (x.cmd \in KeyCommand /\ x.cmd.key \in job[c].keys)
  <2>1. FreeFirst(job[c])
    BY <1>1, <1>7, FreeParts
  <2>2. First(job[c]) = "log"
    BY <2>1 DEF FreeFirst
  <2>3. CASE job[c].todo[1].entry.cmd \in KeyCommand
    BY <1>4, <2>1, <2>2, <2>3 DEF FreeFirst, KeyCommand, BareCommand
  <2>4. CASE job[c].todo[1].entry.cmd \notin KeyCommand
    <3>1. x.cmd \in BareCommand /\ ~x.json
      BY <1>4, <2>1, <2>2, <2>4 DEF FreeFirst
    <3>2. x.cmd.op = "getset" \/ x.cmd.op = "mset"
      BY <3>1 DEF BareCommand
    <3> QED BY <3>1, <3>2 DEF Dropped
  <2> QED BY <2>3, <2>4
<1>8. ~Open(job[c], excused)
  BY OpenFirst
<1> QED BY <1>1, <1>3, <1>5, <1>6, <1>7, <1>8 DEF Shape

LEMMA TextFaith ==
    ASSUME FaithInv, NoLimit, NEW c \in Clients, WriteText(c)
    PROVE  QueueIn(mem, excused)' /\ Faithful'
<1> DEFINE i == [job[c] EXCEPT !.half = TRUE, !.logged = TRUE]
<1>1. /\ ServerInv /\ JobInv /\ job[c] # None /\ ~job[c].half /\ First(job[c]) # "apply"
      /\ excused' = excused /\ UNCHANGED <<mode, mem, saved, now>> /\ StateOK(mem)
  BY DEF FaithInv, ServerInv, WriteText, Logging, Ready, First
<1>2. job[c] \in Program /\ Shape(job[c], excused) /\ c # None
  BY <1>1, NobodyAssumption DEF JobInv
<1>3. PICK j : j = i
  OBVIOUS
<1>4. /\ job' = [job EXCEPT ![c] = j] /\ j \in Program /\ j # None
      /\ j.keys = job[c].keys /\ j.todo = job[c].todo /\ j.half /\ j.logged
  <2>1. job' = [job EXCEPT ![c] = j]
    BY <1>1, <1>2, <1>3 DEF WriteText, JobInv, Program
  <2>2. /\ j \in Program /\ j.keys = job[c].keys /\ j.todo = job[c].todo /\ j.half /\ j.logged
    BY <1>2, <1>3 DEF Program
  <2> QED BY <2>1, <2>2, NobodyAssumption
<1> HIDE DEF i
<1>5. PICK t, x : t \in job[c].since..now /\ x = EntryOf(job[c].todo[1], t) /\ wal' = write_text(wal, x)
  BY DEF WriteText
<1>6. t \in 0..MaxNow
  <2>1. job[c].since \in 0..MaxNow
    BY <1>2 DEF Program
  <2>2. now \in 0..MaxNow
    BY <1>1 DEF ServerInv
  <2> QED BY <1>5, <2>1, <2>2, ServerAssumption
<1>7. /\ x \in LogEntry
      /\ Dropped(x) \/ (x.cmd \in KeyCommand /\ x.cmd.key \in job[c].keys)
      /\ Plain(job[c]) => First(job[c]) = "log" /\ x.cmd = job[c].todo[1].entry.cmd /\ ~Dropped(x)
      /\ Float(job[c]) => /\ First(job[c]) = "logfield"
                          /\ \E k \in Keys, f \in Fields :
                               /\ k \in job[c].keys /\ job[c].todo[1].key = k /\ job[c].todo[1].field = f
                               /\ x.cmd = HsetCommand(k, f, HashIn(mem.store[k])[f])
                               /\ x.cmd \in KeyCommand /\ x.cmd.key = k /\ ~Dropped(x)
  BY <1>1, <1>5, <1>6, EntryParts
<1>8. mode # "down"
  BY <1>1, Busy
<1>9. QueueIn(mem, excused)'
  BY <1>1 DEF FaithInv, QueueIn
<1>10. ASSUME ~Glued', NEW k \in Keys, k \notin excused', ~Doubled(k)'
       PROVE  Sound(k)'
  <2>1. ~Glued /\ Kept' = IF Dropped(x) THEN Kept ELSE Append(Kept, x.cmd)
    <3>1. TextKept(x)
      BY <1>1, <1>5, <1>7, <1>10, KeptText DEF ServerInv
    <3> QED BY <3>1 DEF TextKept
  <2>2. First(j) = First(job[c])
    BY <1>4 DEF First
  <2>3. ~Mine(job[c], k)
    BY <1>1 DEF Mine, InFlight
  <2>4. ~Owes(j, k)
    BY <1>4 DEF Owes
  <2>5. ASSUME ~Mine(j, k), ~Owes(job[c], k), Dropped(x) \/ (x.cmd \in KeyCommand /\ x.cmd.key # k)
        PROVE  Sound(k)'
    <3>1. Aims(k)' = Aims(k) /\ Dues(k)' = Dues(k)
      BY <1>1, <1>4, <2>3, <2>4, <2>5, Outside
    <3>2. Kept' = Kept \/ \E a \in KeyCommand : a.key # k /\ Kept' = Append(Kept, a)
      BY <2>1, <2>5
    <3>3. mem'.store[k] = mem.store[k]
      BY <1>1
    <3> QED BY <1>1, <1>8, <1>10, <2>1, <3>1, <3>2, <3>3, Untouched DEF FaithInv
  <2>6. CASE k \notin job[c].keys
    <3>1. ~Mine(j, k) /\ ~Owes(job[c], k)
      BY <1>4, <2>6 DEF Mine, Owes
    <3> QED BY <1>7, <2>5, <2>6, <3>1
  <2>7. ASSUME k \in job[c].keys, x.cmd \in KeyCommand, x.cmd.key = k, ~Dropped(x)
        PROVE  /\ Aims(k) = {} /\ Dues(k) = DuesOf(job[c], k)
               /\ Aims(k)' = AimsOf(j, k) /\ Dues(k)' = {}
               /\ Stands(Base(k), Kept, k, now, mem.store[k], mode = "up", {}, Dues(k))
               /\ Kept' = Append(Kept, x.cmd)
    <3>1. /\ Aims(k) = AimsOf(job[c], k) /\ Dues(k) = DuesOf(job[c], k)
          /\ Aims(k)' = AimsOf(j, k) /\ Dues(k)' = DuesOf(j, k)
      BY <1>1, <1>4, <1>10, <2>7, Alone
    <3>2. Aims(k) = {} /\ Dues(k)' = {}
      BY <2>3, <2>4, <3>1 DEF AimsOf, DuesOf
    <3>3. Kept' = Append(Kept, x.cmd)
      BY <2>1, <2>7
    <3>4. ~Doubled(k)
      <4>1. wal \in Seq(LogLine)
        BY <1>1 DEF ServerInv
      <4>2. mode' = mode /\ \E a \in KeyCommand : Kept' = Append(Kept, a)
        BY <1>1, <2>7, <3>3
      <4> QED BY <1>10, <4>1, <4>2, Doubling
    <3>5. Stands(Base(k), Kept, k, now, mem.store[k], mode = "up", Aims(k), Dues(k))
      BY <1>1, <1>8, <1>10, <2>1, <3>4, Standing DEF FaithInv
    <3> QED BY <3>1, <3>2, <3>3, <3>5
  <2>8. ASSUME Stands(Base(k), Kept', k, now, mem.store[k], mode = "up", Aims(k)', Dues(k)')
        PROVE  Sound(k)'
    <3>1. Base(k)' = Base(k)
      BY <1>1 DEF Base
    <3> QED BY <1>1, <2>8, <3>1 DEF Sound
  <2>9. PICK b, L, T, e, up : b = Base(k) /\ L = Kept /\ T = now /\ e = mem.store[k] /\ up = (mode = "up")
    OBVIOUS
  <2>10. b \in Slot /\ e \in Slot /\ L \in Seq(KeyCommand) /\ T \in Nat
    BY <1>1, <2>9, SoundParts
  <2>11. CASE k \in job[c].keys /\ Plain(job[c])
    <3>1. /\ First(job[c]) = "log" /\ x.cmd = job[c].todo[1].entry.cmd /\ ~Dropped(x)
          /\ x.cmd \in KeyCommand
      BY <1>7, <2>11
    <3>2. Aim(j) = x.cmd /\ (Mine(j, k) <=> x.cmd.key = k)
      BY <1>4, <2>2, <2>11, <3>1 DEF Mine, InFlight, Aim
    <3>3. ~Owes(job[c], k)
      BY <3>1 DEF Owes
    <3>4. CASE x.cmd.key = k
      <4>1. Dues(k) = {} /\ Aims(k)' = {x.cmd} /\ Dues(k)' = {}
        BY <2>7, <2>11, <3>1, <3>2, <3>3, <3>4 DEF AimsOf, DuesOf
      <4>2. PICK a \in KeyCommand : a = x.cmd /\ a.key = k
        BY <3>1, <3>4
      <4>3. Stands(b, L, k, T, e, up, {}, {})
        BY <2>7, <2>9, <2>11, <3>1, <3>4, <4>1
      <4>4. Stands(b, Append(L, a), k, T, e, up, {a}, {})
        BY <2>10, <4>3, StandsLogged
      <4>5. Kept' = Append(L, a)
        BY <2>7, <2>9, <2>11, <3>1, <3>4, <4>2
      <4>6. Stands(Base(k), Kept', k, now, mem.store[k], mode = "up", Aims(k)', Dues(k)')
        BY <2>9, <4>1, <4>2, <4>4, <4>5
      <4> QED BY <2>8, <4>6
    <3>5. CASE x.cmd.key # k
      BY <2>5, <3>1, <3>2, <3>3, <3>5
    <3> QED BY <3>4, <3>5
  <2>12. CASE k \in job[c].keys /\ Float(job[c])
    <3>1. PICK h \in Keys, f \in Fields :
            /\ h \in job[c].keys /\ job[c].todo[1].key = h /\ job[c].todo[1].field = f
            /\ x.cmd = HsetCommand(h, f, HashIn(mem.store[h])[f])
            /\ x.cmd \in KeyCommand /\ x.cmd.key = h /\ ~Dropped(x)
      BY <1>7, <2>12
    <3>2. First(job[c]) = "logfield"
      BY <1>7, <2>12
    <3>3. ~Mine(j, k)
      BY <2>2, <3>2 DEF Mine, InFlight
    <3>4. CASE h = k
      <4>1. Owes(job[c], k) /\ DuesOf(job[c], k) = {f}
        BY <1>1, <2>12, <3>1, <3>2, <3>4 DEF Owes, DuesOf
      <4>2. Dues(k) = {f} /\ Aims(k)' = {} /\ Dues(k)' = {}
        BY <2>7, <2>12, <3>1, <3>3, <3>4, <4>1 DEF AimsOf
      <4>3. Stands(b, L, k, T, e, up, {}, {f})
        BY <2>7, <2>9, <2>12, <3>1, <3>4, <4>2
      <4>4. Stands(b, Append(L, HsetCommand(k, f, HashIn(e)[f])), k, T, e, up, {}, {})
        <5>1. PICK W, F : W = {} /\ F = {f}
          OBVIOUS
        <5>2. f \in F /\ Stands(b, L, k, T, e, up, W, F)
          BY <4>3, <5>1
        <5> QED BY <2>10, <5>2, StandsFieldLogged
      <4>5. Kept' = Append(L, HsetCommand(k, f, HashIn(e)[f]))
        BY <2>7, <2>9, <2>12, <3>1, <3>4
      <4>6. Stands(Base(k), Kept', k, now, mem.store[k], mode = "up", Aims(k)', Dues(k)')
        BY <2>9, <4>2, <4>4, <4>5
      <4> QED BY <2>8, <4>6
    <3>5. CASE h # k
      <4>1. ~Owes(job[c], k)
        BY <3>1, <3>5 DEF Owes
      <4> QED BY <2>5, <3>1, <3>3, <3>5, <4>1
    <3> QED BY <3>4, <3>5
  <2>13. CASE k \in job[c].keys /\ Free(job[c], excused)
    BY <1>1, <1>2, <1>10, <2>13, FreeParts
  <2>14. ~Open(job[c], excused)
    BY <1>1, OpenFirst
  <2> QED BY <1>2, <2>6, <2>11, <2>12, <2>13, <2>14 DEF Shape
<1> QED BY <1>9, <1>10 DEF Faithful, Sound

LEMMA AppendFailsFaith ==
    ASSUME FaithInv, NoLimit, NEW c \in Clients, AppendFails(c)
    PROVE  QueueIn(mem, excused)' /\ Faithful'
<1> DEFINE skip == [job[c] EXCEPT !.todo = Skipped(job[c]), !.half = FALSE]
           i == IF job[c].kind = "pipeline" THEN skip ELSE Stop(job[c])
<1>1. /\ ServerInv /\ JobInv /\ job[c] # None /\ First(job[c]) # "apply"
      /\ UNCHANGED <<mode, mem, saved, now>>
  BY DEF FaithInv, ServerInv, AppendFails, Logging, Ready, First
<1>1a. /\ excused \subseteq excused'
       /\ job[c].logged \/ job[c].hold => job[c].keys \subseteq excused'
       /\ wal' = wal \/ \E cut \in Cuts : wal' = write_text(wal, cut)
  BY DEF AppendFails
<1>2. job[c] \in Program /\ Shape(job[c], excused)
  BY <1>1 DEF JobInv
<1>3. Advance(c, i)
  BY DEF AppendFails, Skipped
<1>4. i.keys = job[c].keys /\ (job[c].kind # "pipeline" => i.todo = <<>>) /\ i.logged = job[c].logged
  BY <1>2 DEF Program, Stop
<1>4a. LET m == [i EXCEPT !.since = now] IN m.keys = i.keys
  BY <1>2 DEF Program, Stop
<1> HIDE DEF i
<1>5. PICK j : /\ job' = [job EXCEPT ![c] = j]
               /\ i.todo = <<>> => j = None
               /\ i.todo # <<>> => j = [i EXCEPT !.since = now]
  BY <1>3, AdvanceJob
<1>6. j # None => j.keys = job[c].keys
  BY <1>4, <1>4a, <1>5
<1>7. mode # "down"
  BY <1>1, Busy
<1>8. QueueIn(mem, excused)'
  BY <1>1, <1>1a DEF FaithInv, QueueIn
<1>9. ASSUME ~Glued', NEW k \in Keys, k \notin excused', ~Doubled(k)'
      PROVE  Sound(k)'
  <2>1. wal' = wal
    <3>1. ASSUME NEW cut \in Cuts, wal' = write_text(wal, cut)
          PROVE  FALSE
      <4>1. PICK x \in LogEntry \cup Cuts : x = cut
        OBVIOUS
      <4>2. TextKept(x)
        BY <1>1, <1>9, <3>1, <4>1, KeptText DEF ServerInv
      <4> QED BY <4>1, <4>2 DEF TextKept
    <3> QED BY <1>1a, <3>1
  <2>2. /\ ~Mine(job[c], k) /\ ~Mine(j, k)
        /\ ~Owes(job[c], k) /\ ~Owes(j, k)
    <3>1. CASE k \notin job[c].keys
      BY <1>6, <3>1 DEF Mine, Owes
    <3>2. CASE k \in job[c].keys
      <4>1. ~job[c].hold /\ ~job[c].logged /\ k \notin excused
        BY <1>1a, <1>9, <3>2
      <4>2. Plain(job[c])
        BY <1>2, <3>2, <4>1 DEF Shape, Float, Free, Open
      <4>3. j = None
        BY <1>4, <1>5, <4>2 DEF Plain
      <4>4. First(job[c]) # "logfield"
        BY <1>2, <4>2, PlainParts DEF PlainFirst
      <4> QED BY <4>1, <4>3, <4>4 DEF Mine, InFlight, Owes
    <3> QED BY <3>1, <3>2
  <2>3. Aims(k)' = Aims(k) /\ Dues(k)' = Dues(k)
    BY <1>1, <1>5, <2>2, Outside
  <2>4. Kept' = Kept /\ ~Glued
    BY <1>9, <2>1, KeptStays
  <2>5. k \notin excused /\ mode' = mode /\ saved' = saved /\ now' = now /\ mem'.store[k] = mem.store[k]
    BY <1>1, <1>1a, <1>9
  <2> QED BY <1>1, <1>7, <1>9, <2>3, <2>4, <2>5, Untouched DEF FaithInv
<1> QED BY <1>8, <1>9 DEF Faithful, Sound

\* What Run makes of the job.
RunJob(c, j) ==
    /\ job' = [job EXCEPT ![c] = j]
    /\ j # None => /\ j.keys = job[c].keys /\ j.logged = job[c].logged /\ j.half = job[c].half
                   /\ j.todo = Tail(job[c].todo) /\ j.todo # <<>>
                   /\ ~(job[c].hold /\ Refused(mem, job[c].todo[1].cmds[1]))
    /\ ~(job[c].hold /\ Refused(mem, job[c].todo[1].cmds[1])) /\ Tail(job[c].todo) # <<>> => j # None

LEMMA RunMoves ==
    ASSUME ServerInv, NEW c \in Clients, Run(c)
    PROVE  \E j : RunJob(c, j)
<1> DEFINE go == [job[c] EXCEPT !.todo = Tail(@)]
           stops == job[c].hold /\ Refused(mem, job[c].todo[1].cmds[1])
           i == IF stops THEN Stop(job[c]) ELSE go
<1>1. job[c] \in Program
  BY DEF ServerInv, JobInv, Run, Ready
<1>2. Advance(c, i)
  BY DEF Run
<1>3. stops => i.todo = <<>>
  BY <1>1 DEF Stop, Program
<1>4. ~stops => /\ i.keys = job[c].keys /\ i.logged = job[c].logged /\ i.half = job[c].half
                /\ i.todo = Tail(job[c].todo)
  BY <1>1 DEF Program
<1>5. LET m == [i EXCEPT !.since = now]
      IN  m.keys = i.keys /\ m.logged = i.logged /\ m.half = i.half /\ m.todo = i.todo
  BY <1>1 DEF Program, Stop
<1>6. ~stops /\ i.todo # <<>> => [i EXCEPT !.since = now] \in Program
  <2> SUFFICES ASSUME ~stops, i.todo # <<>> PROVE [i EXCEPT !.since = now] \in Program
    OBVIOUS
  <2>1. i = go
    OBVIOUS
  <2>2. i.todo \in Seq(Instruction)
    BY <1>1, <1>4 DEF Program
  <2>3. now \in 0..MaxNow
    BY DEF ServerInv
  <2> QED BY <1>1, <2>1, <2>2, <2>3 DEF Program
<1> HIDE DEF i, stops
<1>7. PICK j : /\ job' = [job EXCEPT ![c] = j]
               /\ i.todo = <<>> => j = None
               /\ i.todo # <<>> => j = [i EXCEPT !.since = now]
  BY <1>2, AdvanceJob
<1>8. j # None => /\ j.keys = job[c].keys /\ j.logged = job[c].logged /\ j.half = job[c].half
                  /\ j.todo = Tail(job[c].todo) /\ j.todo # <<>> /\ ~stops
  BY <1>3, <1>4, <1>5, <1>7
<1>9. ~stops /\ Tail(job[c].todo) # <<>> => j # None
  BY <1>4, <1>6, <1>7, NobodyAssumption
<1> QED BY <1>7, <1>8, <1>9 DEF RunJob, stops

\* In a transaction, in a request without promises, or without a log entry.
LEMMA RunExcused ==
    ASSUME FaithInv, NoLimit, NEW c \in Clients, Run(c),
           in_transaction(mem) \/ Free(job[c], excused) \/ Open(job[c], excused)
    PROVE  QueueIn(mem, excused)' /\ Faithful'
<1>1. /\ ServerInv /\ JobInv /\ job[c] # None /\ First(job[c]) = "apply" /\ excused \subseteq excused'
      /\ UNCHANGED <<mode, saved, now>> /\ wal' = wal /\ StateOK(mem)
      /\ in_transaction(mem) => job[c].keys \subseteq excused'
  BY DEF FaithInv, ServerInv, Run, Ready, First, disk
<1>2. job[c] \in Program /\ Shape(job[c], excused) /\ mode # "down"
  BY <1>1, Busy DEF JobInv
<1>3. job[c].keys \subseteq excused' \/ Open(job[c], excused)
  BY <1>1, <1>2, FreeParts
<1>4. PICK s, a, t, X : s = mem /\ a = job[c].todo[1].cmds /\ t = now /\ X = excused'
  OBVIOUS
<1>5. StateOK(s) /\ t \in Nat /\ a \in Seq(Command)
  BY <1>1, <1>2, <1>4, TodoParts, ServerAssumption DEF First, ServerInv
<1>6. QueueIn(s, X)
  BY <1>1, <1>4 DEF FaithInv, QueueIn
<1>7. \A i \in 1..Len(a) : KeysIn(a[i], X)
  <2>0. CASE Open(job[c], excused)
    <3>1. PICK h, b \in KeyCommand :
            /\ job[c].todo = <<Do(<<h>>), Log(b, TRUE), Do(<<b>>)>>
            /\ h.key \in excused
      BY <2>0 DEF Open
    <3>2. a = <<h>> /\ h.key \in X
      <4>1. job[c].todo[1] = Do(<<h>>)
        BY <3>1
      <4> QED BY <1>1, <1>4, <3>1, <4>1 DEF Do
    <3>3. Single(h)
      BY KeyCommandSingle
    <3>4. KeysIn(h, X)
      BY <3>2, <3>3 DEF KeysIn, Single, SingleOps
    <3>5. Len(<<h>>) = 1 /\ <<h>>[1] = h
      OBVIOUS
    <3> QED BY <3>2, <3>4, <3>5
  <2>1. CASE Plain(job[c]) /\ ~Open(job[c], excused)
    <3>1. PICK b \in KeyCommand : a = <<b>> /\ b.key \in job[c].keys
      BY <1>1, <1>2, <1>4, <2>1, PlainParts DEF PlainFirst
    <3>2. Single(b)
      BY KeyCommandSingle
    <3>3. KeysIn(b, X)
      BY <1>3, <1>4, <2>1, <3>1, <3>2 DEF KeysIn, Single, SingleOps
    <3>4. Len(<<b>>) = 1 /\ <<b>>[1] = b
      OBVIOUS
    <3> QED BY <3>1, <3>3, <3>4
  <2>2. CASE Float(job[c]) /\ ~Open(job[c], excused)
    <3>1. PICK k \in Keys, f \in Fields, n \in Int : FloatFirst(job[c], k, f, n)
      BY <1>2, <2>2, FloatParts
    <3>2. PICK b : b = FloatCommand(k, f, n)
      OBVIOUS
    <3>3. a = <<b>> /\ b.op = "hincrbyfloat" /\ b.key \in X
      BY <1>1, <1>3, <1>4, <2>2, <3>1, <3>2 DEF FloatFirst, FloatCommand
    <3>4. KeysIn(b, X)
      BY <3>3 DEF KeysIn
    <3>5. Len(<<b>>) = 1 /\ <<b>>[1] = b
      OBVIOUS
    <3> QED BY <3>3, <3>4, <3>5
  <2>3. CASE Free(job[c], excused) /\ ~Open(job[c], excused)
    <3>1. Len(job[c].todo) = 1
      <4>1. PICK m \in Nat : m = Len(job[c].todo) /\ m >= 1
        BY <1>2, TodoParts
      <4>2. ~(m > 1)
        <5>1. SUFFICES ASSUME m > 1 PROVE FALSE
          OBVIOUS
        <5>2. 1 \in 1..(m - 1)
          BY <5>1
        <5>3. job[c].todo[1].do = "log"
          BY <2>3, <4>1, <5>2 DEF Free
        <5> QED BY <1>1, <5>3 DEF First
      <4>3. m >= 1 /\ ~(m > 1)
        BY <4>1, <4>2, Zenon
      <4>4. m = 1
        BY <4>3
      <4> QED BY <4>1, <4>4, Zenon
    <3>2. \A i \in 1..Len(a) : KeysIn(a[i], job[c].keys)
      BY <1>4, <2>3, <3>1 DEF Free
    <3> QED BY <1>3, <1>4, <2>3, <3>2 DEF KeysIn
  <2> QED BY <1>2, <2>0, <2>1, <2>2, <2>3 DEF Shape
<1>8. Within(s, Applied(s, a, t)[Len(a)], X)
  BY <1>5, <1>6, <1>7, AppliedWithin
<1>9. mem' = Applied(s, a, t)[Len(a)]
  BY <1>4 DEF Run
<1>10. QueueIn(mem, excused)'
  <2>1. QueueIn(Applied(s, a, t)[Len(a)], X)
    BY <1>6, <1>8 DEF Within
  <2> QED BY <1>4, <1>9, <2>1
<1>11. \A k \in Keys : k \notin excused' => mem'.store[k] = mem.store[k]
  BY <1>4, <1>8, <1>9 DEF Within
<1>12. PICK j : RunJob(c, j)
  BY <1>1, RunMoves
<1>13. ASSUME ~Glued', NEW k \in Keys, k \notin excused', ~Doubled(k)'
       PROVE  Sound(k)'
  <2>1. k \notin excused
    BY <1>1, <1>13
  <2>2. ~Mine(j, k) /\ ~Mine(job[c], k) /\ ~Owes(j, k) /\ ~Owes(job[c], k)
    <3>1. CASE k \notin job[c].keys
      BY <1>12, <3>1 DEF RunJob, Mine, Owes
    <3>2. CASE Open(job[c], excused)
      <4>1. ~job[c].logged
        BY <3>2 DEF Open
      <4>2. ASSUME j # None
            PROVE  First(j) = "log"
        <5>1. PICK h, b : job[c].todo = <<Do(<<h>>), Log(b, TRUE), Do(<<b>>)>>
          BY <3>2 DEF Open
        <5>2. PICK x, y, z : x = Do(<<h>>) /\ y = Log(b, TRUE) /\ z = Do(<<b>>)
          OBVIOUS
        <5>3. Tail(<<x, y, z>>)[1] = y
          OBVIOUS
        <5>4. j.todo = Tail(<<x, y, z>>)
          BY <1>12, <4>2, <5>1, <5>2 DEF RunJob
        <5>5. j.todo[1] = Log(b, TRUE)
          BY <5>2, <5>3, <5>4
        <5> QED BY <5>5 DEF First, Log
      <4>3. j # None => j.logged = job[c].logged
        BY <1>12 DEF RunJob
      <4> QED BY <1>1, <4>1, <4>2, <4>3 DEF Mine, InFlight, Owes
    <3> QED BY <1>3, <1>13, <3>1, <3>2
  <2>3. job' = [job EXCEPT ![c] = j]
    BY <1>12 DEF RunJob
  <2>4. Aims(k)' = Aims(k) /\ Dues(k)' = Dues(k)
    BY <1>1, <2>2, <2>3, Outside
  <2>5. Kept' = Kept /\ ~Glued
    BY <1>1, <1>13, KeptStays
  <2>6. mem'.store[k] = mem.store[k]
    BY <1>11, <1>13
  <2> QED BY <1>1, <1>2, <1>13, <2>1, <2>4, <2>5, <2>6, Untouched DEF FaithInv
<1> QED BY <1>10, <1>13 DEF Faithful, Sound

LEMMA AppliedOne ==
    ASSUME NEW s, NEW a, NEW t
    PROVE  Applied(s, <<a>>, t)[1] = Apply(s, a, t)
<1>1. PICK l : l = <<a>>
  OBVIOUS
<1>2. Len(l) = 1 /\ l[1] = a /\ 1 \in 1..Len(l) /\ 1 - 1 = 0
  BY <1>1
<1>2a. Len(l) \in Nat
  BY <1>2
<1>3. /\ Applied(s, l, t)[0] = s
      /\ \A m \in 1..Len(l) : Applied(s, l, t)[m] = Apply(Applied(s, l, t)[m - 1], l[m], t)
  BY <1>2a, AppliedIs
<1> QED BY <1>1, <1>2, <1>3

\* The command of a plain request is carried out.
LEMMA RunPlain ==
    ASSUME FaithInv, Roomy, NEW c \in Clients, Run(c), ~in_transaction(mem), Plain(job[c])
    PROVE  QueueIn(mem, excused)' /\ Faithful'
<1>1. /\ ServerInv /\ JobInv /\ job[c] # None /\ First(job[c]) = "apply" /\ excused' = excused
      /\ UNCHANGED <<mode, saved, now>> /\ wal' = wal /\ StateOK(mem) /\ NoLimit
  BY DEF FaithInv, ServerInv, Run, Ready, First, disk, Roomy
<1>2. job[c] \in Program /\ mode # "down" /\ PlainFirst(job[c])
  BY <1>1, Busy, PlainParts DEF JobInv
<1>3. PICK a \in KeyCommand : job[c].todo[1].cmds = <<a>> /\ a.key \in job[c].keys
  BY <1>1, <1>2 DEF PlainFirst
<1>4. job[c].logged /\ ~job[c].half /\ (Tail(job[c].todo) # <<>> => Tail(job[c].todo)[1].do = "log")
  BY <1>1, <1>2 DEF PlainFirst
<1>5. Sole(mem, mem', a.key, After(mem.store[a.key], a, now))
  <2>1. PICK s, t : s = mem /\ t = now
    OBVIOUS
  <2>2. PICK l : l = <<a>>
    OBVIOUS
  <2>3. Len(l) = 1
    BY <2>2
  <2>4. mem' = Applied(s, l, t)[Len(l)]
    BY <1>3, <2>1, <2>2 DEF Run
  <2>5. mem' = Apply(s, a, t)
    BY <2>2, <2>3, <2>4, AppliedOne
  <2>6. Single(a) /\ t \in Nat /\ StateOK(s) /\ ~in_transaction(s)
    BY <1>1, <2>1, KeyCommandSingle, SoundParts, ServerAssumption DEF ServerInv
  <2>7. Sole(s, Apply(s, a, t), a.key, After(s.store[a.key], a, t))
    BY <1>1, <2>6, ApplyIs
  <2> QED BY <2>1, <2>5, <2>7
<1>6. \A k \in Keys : mem'.store[k] = IF k = a.key THEN After(mem.store[a.key], a, now) ELSE mem.store[k]
  BY <1>5 DEF Sole
<1>7. QueueIn(mem, excused)'
  BY <1>5 DEF Sole, QueueIn, in_transaction
<1>8. PICK j : RunJob(c, j)
  BY <1>1, RunMoves
<1>8a. job' = [job EXCEPT ![c] = j]
  BY <1>8 DEF RunJob
<1>9. j # None => j.keys = job[c].keys /\ ~j.half /\ First(j) = "log"
  BY <1>4, <1>8 DEF RunJob, First
<1>10. Aim(job[c]) = a
  BY <1>1, <1>3 DEF Aim
<1>11. ASSUME ~Glued', NEW k \in Keys, k \notin excused', ~Doubled(k)'
       PROVE  Sound(k)'
  <2>1. ~Mine(j, k) /\ ~Owes(j, k) /\ ~Owes(job[c], k)
    BY <1>1, <1>9 DEF Mine, InFlight, Owes
  <2>2. Kept' = Kept /\ ~Glued
    BY <1>1, <1>11, KeptStays
  <2>3. Mine(job[c], k) <=> k = a.key
    BY <1>1, <1>3, <1>4, <1>10 DEF Mine, InFlight
  <2>4. CASE k # a.key
    <3>1. Aims(k)' = Aims(k) /\ Dues(k)' = Dues(k)
      BY <1>1, <1>8a, <2>1, <2>3, <2>4, Outside
    <3>2. mem'.store[k] = mem.store[k]
      BY <1>6, <2>4
    <3> QED BY <1>1, <1>2, <1>11, <2>2, <3>1, <3>2, Untouched DEF FaithInv
  <2>5. CASE k = a.key
    <3>1. k \in job[c].keys /\ k \notin excused
      BY <1>1, <1>3, <1>11, <2>5
    <3>2. /\ Aims(k) = AimsOf(job[c], k) /\ Dues(k) = DuesOf(job[c], k)
          /\ Aims(k)' = AimsOf(j, k) /\ Dues(k)' = DuesOf(j, k)
      BY <1>1, <1>8a, <3>1, Alone
    <3>3. Aims(k) = {a} /\ Dues(k) = {} /\ Aims(k)' = {} /\ Dues(k)' = {}
      BY <1>10, <2>1, <2>3, <2>5, <3>2 DEF AimsOf, DuesOf
    <3>4. ~Doubled(k)
      BY <1>1, <1>11, <2>2, Doubling DEF ServerInv
    <3>5. Stands(Base(k), Kept, k, now, mem.store[k], mode = "up", Aims(k), Dues(k))
      BY <1>1, <1>2, <1>11, <2>2, <3>1, <3>4, Standing DEF FaithInv
    <3>6. PICK b, L, T, e, up : b = Base(k) /\ L = Kept /\ T = now /\ e = mem.store[k] /\ up = (mode = "up")
      OBVIOUS
    <3>7. b \in Slot /\ e \in Slot /\ L \in Seq(KeyCommand) /\ T \in 0..MaxNow
      BY <1>1, <3>6, SoundParts
    <3>8. Stands(b, L, k, T, e, up, {a}, {})
      BY <3>3, <3>5, <3>6
    <3>9. a.op = "expire" => up
      <4>1. SUFFICES ASSUME a.op = "expire", mode # "up" PROVE FALSE
        BY <3>6
      <4>2. mode = "stopping"
        BY <1>1, <1>2, <4>1 DEF ServerInv
      <4>3. PICK n \in 0..Len(L) : n < Len(L) /\ L[n + 1] = a
        BY <3>8 DEF Stands, Waiting
      <4>4. n + 1 \in 1..Len(L)
        BY <4>3
      <4>5. L[n + 1].key = k /\ L[n + 1].op \in NotIdempotent
        BY <2>5, <4>1, <4>3 DEF NotIdempotent
      <4> QED BY <3>4, <3>6, <4>2, <4>4, <4>5 DEF Doubled, Kept
    <3>10. Stands(b, L, k, T, After(e, a, T), up, {}, {})
      BY <2>5, <3>7, <3>8, <3>9, StandsDone
    <3>11. mem'.store[k] = After(e, a, T)
      BY <1>6, <2>5, <3>6
    <3>12. Base(k)' = Base(k)
      BY <1>1 DEF Base
    <3>13. Stands(Base(k)', Kept', k, now', mem'.store[k], mode' = "up", Aims(k)', Dues(k)')
      BY <1>1, <2>2, <3>3, <3>6, <3>10, <3>11, <3>12
    <3> QED BY <3>13 DEF Sound
  <2> QED BY <2>4, <2>5
<1> QED BY <1>7, <1>11 DEF Faithful, Sound

\* What an hincrbyfloat does to the store.
LEMMA RunFloatIs ==
    ASSUME NEW s, StateOK(s), NEW t, NEW k \in Keys, NEW f \in Fields, NEW n \in Int,
           NEW a, a = FloatCommand(k, f, n)
    PROVE  /\ \E text \in FieldText : Sole(s, Applied(s, <<a>>, t)[1], k, WithField(s.store[k], f, text))
           /\ Refused(s, a) <=> s.store[k] # None /\ ~Is(s.store[k], "Hash")
<1>4. Applied(s, <<a>>, t)[1] = Apply(s, a, t)
  BY AppliedOne
<1>5. a.op = "hincrbyfloat" /\ a.key = k /\ a.field = f /\ a.amount = n
  BY DEF FloatCommand
<1> DEFINE text == Current(s, k, f, parse_f64) + n
<1>6. Apply(s, a, t) = hset(s, k, f, text)
  BY <1>5 DEF Apply, hincrbyfloat
<1>7. text \in FieldText
  BY CountType
<1> HIDE DEF text
<1>8. Sole(s, hset(s, k, f, text), k, WithField(s.store[k], f, text))
  BY <1>7, HashSole
<1>9. Refused(s, a) <=> s.store[k] # None /\ ~Is(s.store[k], "Hash")
  BY <1>5 DEF Refused, Has, Is
<1> QED BY <1>4, <1>6, <1>7, <1>8, <1>9

\* An hincrbyfloat is carried out.
LEMMA RunFloat ==
    ASSUME FaithInv, NoLimit, NEW c \in Clients, Run(c), ~in_transaction(mem), Float(job[c])
    PROVE  QueueIn(mem, excused)' /\ Faithful'
<1>1. /\ ServerInv /\ JobInv /\ job[c] # None /\ First(job[c]) = "apply" /\ excused' = excused
      /\ UNCHANGED <<mode, saved, now>> /\ wal' = wal /\ StateOK(mem)
  BY DEF FaithInv, ServerInv, Run, Ready, First, disk
<1>2. job[c] \in Program /\ mode # "down" /\ job[c].hold
  BY <1>1, Busy DEF JobInv, Float
<1>3. PICK h \in Keys, f \in Fields, n \in Int : FloatFirst(job[c], h, f, n)
  BY <1>2, FloatParts
<1>4. PICK a : a = FloatCommand(h, f, n)
  OBVIOUS
<1>5. /\ h \in job[c].keys /\ job[c].todo[1].cmds = <<a>>
      /\ Tail(job[c].todo) = <<LogField(h, f)>> /\ ~job[c].half /\ ~job[c].logged
  BY <1>1, <1>3, <1>4 DEF FloatFirst
<1>6. mem' = Applied(mem, <<a>>, now)[1]
  <2>1. PICK l : l = <<a>>
    OBVIOUS
  <2>2. Len(l) = 1
    BY <2>1
  <2>3. mem' = Applied(mem, l, now)[Len(l)]
    BY <1>5, <2>1 DEF Run
  <2> QED BY <2>1, <2>2, <2>3
<1>7. PICK text \in FieldText : Sole(mem, mem', h, WithField(mem.store[h], f, text))
  BY <1>1, <1>4, <1>6, RunFloatIs
<1>8. Refused(mem, a) <=> mem.store[h] # None /\ ~Is(mem.store[h], "Hash")
  BY <1>1, <1>4, RunFloatIs
<1>9. \A k \in Keys : mem'.store[k] = IF k = h THEN WithField(mem.store[h], f, text) ELSE mem.store[k]
  BY <1>7 DEF Sole
<1>10. QueueIn(mem, excused)'
  BY <1>7 DEF Sole, QueueIn, in_transaction
<1>11. PICK j : RunJob(c, j)
  BY <1>1, RunMoves
<1>12. job' = [job EXCEPT ![c] = j] /\ (j = None <=> Refused(mem, a))
  <2>1. job[c].todo[1].cmds[1] = a
    <3>1. PICK l : l = <<a>>
      OBVIOUS
    <3>2. l[1] = a /\ job[c].todo[1].cmds = l
      BY <1>5, <3>1
    <3> QED BY <3>2
  <2>2. Tail(job[c].todo) # <<>>
    <3>1. PICK x : x = LogField(h, f)
      OBVIOUS
    <3>2. <<x>> # <<>>
      OBVIOUS
    <3> QED BY <1>5, <3>1, <3>2
  <2> QED BY <1>2, <1>11, <2>1, <2>2 DEF RunJob
<1>13. ASSUME j # None
       PROVE  /\ j.keys = job[c].keys /\ First(j) = "logfield" /\ j.todo[1].key = h /\ j.todo[1].field = f
              /\ ~j.half /\ ~j.logged
  <2>1. PICK x : x = LogField(h, f)
    OBVIOUS
  <2>2. x.do = "logfield" /\ x.key = h /\ x.field = f
    BY <2>1 DEF LogField
  <2>3. j.todo = <<x>> /\ j.keys = job[c].keys /\ ~j.half /\ ~j.logged
    BY <1>5, <1>11, <1>13, <2>1 DEF RunJob
  <2>4. j.todo[1] = x
    BY <2>3
  <2> QED BY <2>2, <2>3, <2>4 DEF First
<1>14. ASSUME ~Glued', NEW k \in Keys, k \notin excused', ~Doubled(k)'
       PROVE  Sound(k)'
  <2>1. ~Mine(j, k) /\ ~Mine(job[c], k) /\ ~Owes(job[c], k)
    BY <1>1, <1>5, <1>13 DEF Mine, InFlight, Owes
  <2>2. Kept' = Kept /\ ~Glued
    BY <1>1, <1>14, KeptStays
  <2>3. Owes(j, k) <=> j # None /\ h = k
    BY <1>5, <1>13 DEF Owes
  <2>4. CASE j = None \/ h # k
    <3>1. Aims(k)' = Aims(k) /\ Dues(k)' = Dues(k)
      BY <1>1, <1>12, <2>1, <2>3, <2>4, Outside
    <3>2. mem'.store[k] = mem.store[k]
      <4>1. CASE h # k
        BY <1>9, <4>1
      <4>2. CASE j = None /\ h = k
        <5>1. mem.store[k] # None /\ ~Is(mem.store[k], "Hash")
          BY <1>8, <1>12, <4>2
        <5>2. \A e, g : e # None /\ ~Is(e, "Hash") => WithField(e, g, text) = e
          BY DEF WithField, Upserted
        <5> QED BY <1>9, <4>2, <5>1, <5>2
      <4> QED BY <2>4, <4>1, <4>2
    <3> QED BY <1>1, <1>2, <1>14, <2>2, <3>1, <3>2, Untouched DEF FaithInv
  <2>5. CASE j # None /\ h = k
    <3>1. k \in job[c].keys /\ k \notin excused
      BY <1>1, <1>5, <1>14, <2>5
    <3>2. /\ Aims(k) = AimsOf(job[c], k) /\ Dues(k) = DuesOf(job[c], k)
          /\ Aims(k)' = AimsOf(j, k) /\ Dues(k)' = DuesOf(j, k)
      BY <1>1, <1>12, <3>1, Alone
    <3>3. Aims(k) = {} /\ Dues(k) = {} /\ Aims(k)' = {} /\ Dues(k)' = {f}
      BY <1>13, <2>1, <2>3, <2>5, <3>2 DEF AimsOf, DuesOf
    <3>4. ~Doubled(k)
      BY <1>1, <1>14, <2>2, Doubling DEF ServerInv
    <3>5. Stands(Base(k), Kept, k, now, mem.store[k], mode = "up", Aims(k), Dues(k))
      BY <1>1, <1>2, <1>14, <2>2, <3>1, <3>4, Standing DEF FaithInv
    <3>6. PICK b, L, T, e, up : b = Base(k) /\ L = Kept /\ T = now /\ e = mem.store[k] /\ up = (mode = "up")
      OBVIOUS
    <3>7. b \in Slot /\ e \in Slot /\ L \in Seq(KeyCommand) /\ T \in Nat
      BY <1>1, <3>6, SoundParts
    <3>8. Stands(b, L, k, T, e, up, {}, {})
      BY <3>3, <3>5, <3>6
    <3>9. e = None \/ Is(e, "Hash")
      BY <1>8, <1>12, <2>5, <3>6
    <3>10. Stands(b, L, k, T, WithField(e, f, text), up, {}, {f})
      BY <3>7, <3>8, <3>9, StandsField
    <3>11. mem'.store[k] = WithField(e, f, text)
      BY <1>9, <2>5, <3>6
    <3>12. Base(k)' = Base(k)
      BY <1>1 DEF Base
    <3>13. Stands(Base(k)', Kept', k, now', mem'.store[k], mode' = "up", Aims(k)', Dues(k)')
      BY <1>1, <2>2, <3>3, <3>6, <3>10, <3>11, <3>12
    <3> QED BY <3>13 DEF Sound
  <2> QED BY <2>4, <2>5
<1> QED BY <1>10, <1>14 DEF Faithful, Sound

LEMMA RunFaith ==
    ASSUME FaithInv, Roomy, NEW c \in Clients, Run(c)
    PROVE  QueueIn(mem, excused)' /\ Faithful'
<1>1. Shape(job[c], excused)
  BY DEF FaithInv, ServerInv, JobInv, Run, Ready
<1> QED BY <1>1, RunExcused, RunPlain, RunFloat DEF Shape, Roomy

-----------------------------------------------------------------------------
(* The life of the process *)

\* Nobody owes a field while the lock is free.
LEMMA NoDues ==
    ASSUME ServerInv, lock = None, NEW k
    PROVE  Dues(k) = {}
<1>1. SUFFICES ASSUME NEW c \in Clients, Owes(job[c], k)
               PROVE  FALSE
  BY DEF Dues
<1>2. job[c] # None /\ First(job[c]) = "logfield" /\ c # None
  BY <1>1, NobodyAssumption DEF Owes
<1>3. job[c] \in Program /\ Shape(job[c], excused) /\ LockOK
  BY <1>2 DEF ServerInv, JobInv
<1>4. ~Plain(job[c])
  BY <1>2, <1>3, PlainParts DEF PlainFirst
<1>5. ~Free(job[c], excused)
  BY <1>2, <1>3, FreeParts DEF FreeFirst
<1>6. job[c].hold
  BY <1>3, <1>4, <1>5 DEF Shape, Float, Open
<1> QED BY <1>2, <1>3, <1>6 DEF LockOK

LEMMA NothingUnderWay ==
    ASSUME job = Idle, NEW k
    PROVE  Aims(k) = {} /\ Dues(k) = {}
<1>1. \A c \in Clients : job[c] = None
  BY DEF Idle
<1> QED BY <1>1 DEF Aims, Dues, Mine, Owes

LEMMA ShutdownFaith ==
    ASSUME FaithInv, NoLimit, Shutdown
    PROVE  QueueIn(mem, excused)' /\ Faithful'
<1>1. /\ ServerInv /\ JobInv /\ lock = None /\ mode = "up" /\ mode' = "stopping" /\ excused' = excused
      /\ UNCHANGED <<mem, job, now>> /\ wal' = wal /\ (saved' = saved \/ saved' = Serialized)
  BY DEF FaithInv, ServerInv, Shutdown
<1>2. QueueIn(mem, excused)'
  BY <1>1 DEF FaithInv, QueueIn
<1>3. ASSUME ~Glued', NEW k \in Keys, k \notin excused', ~Doubled(k)'
      PROVE  Sound(k)'
  <2>1. Aims(k)' = Aims(k) /\ Dues(k)' = Dues(k) /\ Dues(k) = {}
    BY <1>1, AimsStay, NoDues
  <2>2. Kept' = Kept /\ ~Glued
    BY <1>1, <1>3, KeptStays
  <2>3. ~Doubled(k) /\ mode # "down" /\ k \notin excused
    BY <1>1, <1>3 DEF Doubled
  <2>4. PICK b, L, T, e, W, F, up : /\ b = Base(k) /\ L = Kept /\ T = now /\ e = mem.store[k]
                                    /\ W = Aims(k) /\ F = Dues(k) /\ up = (mode = "up")
    OBVIOUS
  <2>5. b \in Slot /\ e \in Slot /\ L \in Seq(KeyCommand) /\ T \in Nat
    BY <1>1, <2>4, SoundParts
  <2>6. Stands(b, L, k, T, e, up, W, F)
    BY <2>2, <2>3, <2>4, Standing DEF FaithInv
  <2>7. PICK on : on = (mode' = "up")
    OBVIOUS
  <2>8. on = FALSE
    BY <1>1, <2>7
  <2>9. Stands(Base(k)', L, k, T, e, on, W, F)
    <3>1. CASE saved' = saved
      <4>1. Base(k)' = b
        BY <2>4, <3>1 DEF Base
      <4>2. T <= T /\ (on => up)
        BY <2>5, <2>8
      <4>3. Stands(b, L, k, T, e, on, W, F)
        BY <2>5, <2>6, <4>2, StandsLater
      <4> QED BY <4>1, <4>3
    <3>2. CASE saved' = Serialized
      <4>1. Serialized \in SavedStore
        BY <1>1 DEF ServerInv, Serialized, SavedStore, StateOK
      <4>2. saved' # None
        BY <3>2, <4>1, NobodyAssumption
      <4>3. Base(k)' = e
        BY <2>4, <3>2, <4>2 DEF Base, Serialized
      <4>4. \A i \in 1..Len(L) : L[i].key = k => L[i].op \notin NotIdempotent
        BY <1>1, <1>3, <2>2, <2>4 DEF Doubled, Kept
      <4>5. F = {}
        BY <2>1, <2>4
      <4>6. Stands(b, L, k, T, e, up, W, {})
        BY <2>6, <4>5
      <4>7. Stands(e, L, k, T, e, FALSE, W, {})
        BY <2>5, <4>4, <4>6, StandsSaved
      <4> QED BY <2>8, <4>3, <4>5, <4>7
    <3> QED BY <1>1, <3>1, <3>2
  <2>10. Stands(Base(k)', Kept', k, now', mem'.store[k], mode' = "up", Aims(k)', Dues(k)')
    BY <1>1, <2>1, <2>2, <2>4, <2>7, <2>9
  <2> QED BY <2>10 DEF Sound
<1> QED BY <1>2, <1>3 DEF Faithful, Sound

LEMMA DownFaith ==
    ASSUME Exit \/ Crash
    PROVE  QueueIn(mem, excused)' /\ Faithful'
<1>1. mode' = "down" /\ mem' = NewStore
  BY DEF Exit, Crash
<1> QED BY <1>1, NewStoreOK DEF QueueIn, Faithful

LEMMA StartFaith ==
    ASSUME FaithInv, Roomy, Start
    PROVE  QueueIn(mem, excused)' /\ Faithful'
<1>1. /\ ServerInv /\ JobInv /\ job = Idle /\ mode' = "up" /\ excused' = FileOnly
      /\ saved' = saved /\ UNCHANGED <<job, now>> /\ wal' = wal /\ NoLimit
  BY DEF FaithInv, ServerInv, Start, disk, Roomy
<1>2. PICK s \in Loaded : mem' = replay_wal(s, read_all(wal))
  BY DEF Start
<1>3. /\ StateOK(s) /\ ~in_transaction(s)
      /\ s.store = IF saved = None THEN [k \in Keys |-> None] ELSE saved.store
  BY <1>1, LoadedOK DEF ServerInv
<1>4. PICK L, T : L = Kept /\ T = now
  OBVIOUS
<1>5. L \in Seq(KeyCommand) /\ T \in 0..MaxNow /\ T \in Nat
  BY <1>1, <1>4, KeptTyped, ServerAssumption DEF ServerInv
<1>6. mem' = Applied(s, L, T)[Len(L)]
  BY <1>2, <1>4 DEF replay_wal, Kept
<1>7. \A k \in Keys : mem'.store[k] = Course(s.store[k], L, T, k, Len(L))
  BY <1>1, <1>3, <1>5, <1>6, CourseIs
<1>8. QueueIn(mem, excused)'
  <2>1. \A n \in 0..Len(L) : OneStep(s, L, T, n)
    BY <1>1, <1>3, <1>5, AppliedSteps
  <2>2. Len(L) \in 0..Len(L)
    BY <1>5
  <2>3. ~in_transaction(mem')
    BY <1>6, <2>1, <2>2 DEF OneStep
  <2> QED BY <2>3 DEF QueueIn
<1>9. ASSUME NEW k \in Keys, k \notin excused'
      PROVE  Sound(k)'
  <2>1. PICK b : b = Base(k)
    OBVIOUS
  <2>2. b \in Slot
    BY <1>1, <2>1, <1>9, SoundParts
  <2>3. s.store[k] = b
    BY <1>3, <2>1 DEF Base
  <2>4. \/ b = None \/ b.expires_at = None
        \/ \E i \in 1..Len(L) : Resets(L[i], k)
    BY <1>1, <1>4, <1>9, <2>1 DEF FileOnly, Base, Kept
  <2>5. Stands(b, L, k, T, Course(b, L, T, k, Len(L)), TRUE, {}, {})
    BY <1>5, <2>2, <2>4, StandsStarted
  <2>6. mem'.store[k] = Course(b, L, T, k, Len(L))
    BY <1>7, <2>3
  <2>7. Aims(k)' = {} /\ Dues(k)' = {}
    BY <1>1, AimsStay, NothingUnderWay
  <2>8. Kept' = L /\ Base(k)' = b /\ now' = T /\ mode' = "up"
    BY <1>1, <1>4, <2>1, KeptStays DEF Base
  <2>9. Stands(Base(k)', Kept', k, now', mem'.store[k], mode' = "up", Aims(k)', Dues(k)')
    BY <2>5, <2>6, <2>7, <2>8
  <2> QED BY <2>9 DEF Sound
<1> QED BY <1>8, <1>9 DEF Faithful

LEMMA SweepFaith ==
    ASSUME FaithInv, NoLimit, Sweep
    PROVE  QueueIn(mem, excused)' /\ Faithful'
<1>1. /\ ServerInv /\ StateOK(mem) /\ mode # "down" /\ excused' = excused \cup Due(mem, now)
      /\ UNCHANGED <<mode, saved, job, now>> /\ wal' = wal
  BY DEF FaithInv, ServerInv, Sweep, disk
<1>2. PICK order : mem' = cleanup_expired(mem, now, order)
  BY DEF Sweep
<1>3. /\ mem'.store = [k \in Keys |-> IF k \in Due(mem, now) THEN None ELSE mem.store[k]]
      /\ mem'.transaction_queue = mem.transaction_queue
  BY <1>1, <1>2 DEF cleanup_expired, StateOK, IsKv
<1>4. QueueIn(mem, excused)'
  BY <1>1, <1>3 DEF FaithInv, QueueIn, in_transaction
<1>5. ASSUME ~Glued', NEW k \in Keys, k \notin excused', ~Doubled(k)'
      PROVE  Sound(k)'
  <2>1. k \notin excused /\ mem'.store[k] = mem.store[k]
    BY <1>1, <1>3, <1>5
  <2>2. Aims(k)' = Aims(k) /\ Dues(k)' = Dues(k)
    BY <1>1, AimsStay
  <2>3. Kept' = Kept /\ ~Glued
    BY <1>1, <1>5, KeptStays
  <2> QED BY <1>1, <1>5, <2>1, <2>2, <2>3, Untouched DEF FaithInv
<1> QED BY <1>4, <1>5 DEF Faithful, Sound

LEMMA TickFaith ==
    ASSUME FaithInv, NoLimit, Tick \/ UNCHANGED vars
    PROVE  QueueIn(mem, excused)' /\ Faithful'
<1>1. /\ ServerInv /\ excused' = excused /\ UNCHANGED <<mode, mem, saved, job>> /\ wal' = wal
      /\ now \in Nat /\ now' \in Nat /\ now <= now'
  <2>1. ServerInv /\ now \in Nat
    BY ServerAssumption DEF FaithInv, ServerInv
  <2>2. now' = now \/ now' = now + 1
    BY DEF Tick, vars
  <2>3. now' \in Nat /\ now <= now'
    BY <2>1, <2>2
  <2> QED BY <2>1, <2>3 DEF Tick, vars, disk
<1>2. QueueIn(mem, excused)'
  BY <1>1 DEF FaithInv, QueueIn
<1>3. ASSUME mode' # "down", ~Glued', NEW k \in Keys, k \notin excused', ~Doubled(k)'
      PROVE  Sound(k)'
  <2>1. Aims(k)' = Aims(k) /\ Dues(k)' = Dues(k)
    BY <1>1, AimsStay
  <2>2. Kept' = Kept /\ ~Glued
    BY <1>1, <1>3, KeptStays
  <2>3. ~Doubled(k) /\ mode # "down" /\ k \notin excused
    BY <1>1, <1>3 DEF Doubled
  <2>4. PICK b, L, T, U, e, W, F, up :
          /\ b = Base(k) /\ L = Kept /\ T = now /\ U = now' /\ e = mem.store[k]
          /\ W = Aims(k) /\ F = Dues(k) /\ up = (mode = "up")
    OBVIOUS
  <2>5. T \in Nat /\ U \in Nat /\ T <= U /\ (up => up)
    BY <1>1, <2>4
  <2>6. Stands(b, L, k, T, e, up, W, F)
    BY <2>2, <2>3, <2>4, Standing DEF FaithInv
  <2>7. Stands(b, L, k, U, e, up, W, F)
    BY <2>5, <2>6, StandsLater
  <2>8. Base(k)' = Base(k)
    BY <1>1 DEF Base
  <2>9. Stands(Base(k)', Kept', k, now', mem'.store[k], mode' = "up", Aims(k)', Dues(k)')
    BY <1>1, <2>1, <2>2, <2>4, <2>7, <2>8
  <2> QED BY <2>9 DEF Sound
<1> QED BY <1>2, <1>3 DEF Faithful, Sound

-----------------------------------------------------------------------------
(* Recovery *)

LEMMA InitFaith ==
    ASSUME Init, NoLimit
    PROVE  FaithInv
<1>1. ServerInv
  BY InitInv
<1>2. QueueIn(mem, excused)
  BY NewStoreOK DEF Init, QueueIn
<1>3. ASSUME NEW k \in Keys
      PROVE  Sound(k)
  <2>1. PICK L, T : L = Kept /\ T = now
    OBVIOUS
  <2>2. L \in Seq(KeyCommand) /\ T \in Nat /\ Len(L) \in Nat
    BY <1>1, <2>1, SoundParts, KeptTyped DEF ServerInv
  <2>3. Len(L) = 0
    <3>1. PICK x : x = <<>>
      OBVIOUS
    <3>2. wal = <<x>>
      BY <3>1 DEF Init
    <3>3. Len(<<x>>) = 1 /\ <<x>>[1] = x
      OBVIOUS
    <3>4. Parsed(wal) = {}
      BY <3>1, <3>2, <3>3 DEF Parsed
    <3>5. Cardinality(Parsed(wal)) = 0
      BY <3>4, FS_EmptySet
    <3>6. read_all(wal) = [i \in 1..0 |-> wal[Nth(Parsed(wal), i)][1]]
      <4>1. ParsedEntries(wal) = [i \in 1..0 |-> wal[Nth(Parsed(wal), i)][1]]
        BY <3>5 DEF ParsedEntries
      <4>2. \A i \in 1..Len(wal) : Len(wal[i]) = 0
        BY <3>1, <3>2, <3>3
      <4>3. Clean(wal)
        BY <4>2 DEF Clean, Malformed
      <4>4. wal \in Seq(Seq(LogEntry \cup Cuts))
        BY <1>1 DEF ServerInv, LogLine
      <4>5. read_all(wal) = ParsedEntries(wal)
        BY <4>3, <4>4, CleanReads
      <4> QED BY <4>1, <4>5
    <3>7. PICK r : r = read_all(wal)
      OBVIOUS
    <3>8. DOMAIN r = 1..0
      BY <3>6, <3>7
    <3>9. Len(r) = 0
      <4>1. wal \in Seq(LogLine)
        BY <1>1 DEF ServerInv
      <4>2. r \in Seq(LogEntry)
        BY <3>7, <4>1, ReadTyped
      <4>3. Len(r) \in Nat /\ DOMAIN r = 1..Len(r)
        BY <4>2
      <4> QED BY <3>8, <4>3
    <3>10. {i \in 1..Len(r) : ~Dropped(r[i])} = {}
      BY <3>9
    <3>11. DOMAIN L = 1..0
      BY <2>1, <3>7, <3>10, FS_EmptySet DEF Kept, Replayed
    <3>12. DOMAIN L = 1..Len(L)
      BY <2>2
    <3> QED BY <2>2, <3>11, <3>12
  <2>4. Base(k) = None /\ None \in Slot /\ mem.store[k] = None
    BY DEF Init, Base, Slot, NewStore
  <2>5. ASSUME NEW t \in T..MaxNow
        PROVE  Course(None, L, t, k, Len(L)) = None
    <3>1. t \in Nat
      BY <2>2, ServerAssumption
    <3>2. PICK b \in Slot : b = None
      BY <2>4
    <3>3. Course(b, L, t, k, 0) = b
      BY <2>2, <3>1, CourseSteps
    <3> QED BY <2>3, <3>2, <3>3
  <2>6. SettledAt(None, L, k, Len(L), T, None, mode = "up")
    BY <2>5 DEF SettledAt, Near, SameEntry, Alive
  <2>7. job = Idle
    BY DEF Init
  <2>8. Aims(k) = {} /\ Dues(k) = {}
    BY <2>7, NothingUnderWay
  <2>9. Stands(Base(k), Kept, k, now, mem.store[k], mode = "up", Aims(k), Dues(k))
    BY <2>1, <2>4, <2>6, <2>8 DEF Stands
  <2> QED BY <2>9 DEF Sound
<1> QED BY <1>1, <1>2, <1>3 DEF FaithInv, Faithful

LEMMA FaithStep ==
    ASSUME FaithInv, Roomy, [Next]_vars
    PROVE  FaithInv'
<1>0. NoLimit /\ ServerInv
  BY DEF Roomy, FaithInv
<1>1. ServerInv'
  BY <1>0, ServerNext, ServerStutter
<1>2. ASSUME NEW c \in Clients, Handle(c)
      PROVE  QueueIn(mem, excused)' /\ Faithful'
  <2>1. Started(c)
    <3>1. now \in 0..MaxNow
      BY <1>0 DEF ServerInv
    <3> QED BY <1>2, <3>1, HandleStarted
  <2>2. PICK j, lost : Begin(c, j, lost) /\ Fresh(j, lost)
    BY <2>1 DEF Started
  <2> QED BY <1>0, <2>2, BeginFaith
<1>3. ASSUME NEW c \in Clients, Step(c)
      PROVE  QueueIn(mem, excused)' /\ Faithful'
  BY <1>0, <1>3, AcquireFaith, TextFaith, NewlineFaith, RunFaith DEF Step
<1>4. ASSUME NEW c \in Clients, AppendFails(c)
      PROVE  QueueIn(mem, excused)' /\ Faithful'
  BY <1>0, <1>4, AppendFailsFaith
<1>5. ASSUME Shutdown \/ Exit \/ Crash
      PROVE  QueueIn(mem, excused)' /\ Faithful'
  BY <1>0, <1>5, ShutdownFaith, DownFaith
<1>6. ASSUME Start \/ Sweep \/ Tick \/ UNCHANGED vars
      PROVE  QueueIn(mem, excused)' /\ Faithful'
  BY <1>0, <1>6, StartFaith, SweepFaith, TickFaith
<1>7. QueueIn(mem, excused)' /\ Faithful'
  BY <1>2, <1>3, <1>4, <1>5, <1>6 DEF Next, Session
<1> QED BY <1>1, <1>7 DEF FaithInv

\* A start has a store to load.
LEMMA LoadedThere ==
    ASSUME ServerInv
    PROVE  Loaded # {}
<1>1. CASE saved = None
  BY <1>1 DEF Loaded
<1>2. CASE saved # None
  <2> DEFINE D == Stored(saved.store)
             c == Cardinality(D)
  <2>1. IsFiniteSet(D)
    BY <1>2 DEF ServerInv, Finite
  <2> HIDE DEF D
  <2>2. PICK f : f \in Bijection(1..c, D)
    BY <2>1, FS_CardinalityType DEF ExistsBijection
  <2>3. f \in [1..c -> D] /\ \A i, j \in 1..c : i # j => f[i] # f[j]
    BY <2>2 DEF Bijection, Injection, IsInjective
  <2>4. f \in SetToSeqs(D)
    BY <2>3 DEF SetToSeqs
  <2> QED BY <1>2, <2>4 DEF Loaded, D
<1> QED BY <1>1, <1>2

LEMMA FaithRecovers ==
    ASSUME FaithInv, NoLimit
    PROVE  RecoveryFaithful
<1>1. SUFFICES ASSUME mode # "down", lock = None, ~Glued, NEW k \in Keys, k \notin excused, ~Doubled(k)
               PROVE  \/ SameEntry(Recovered.store[k], mem.store[k])
                      \/ \E c \in Clients : job[c] # None /\ k \in job[c].keys /\ job[c].logged
  BY DEF RecoveryFaithful
<1>2. ServerInv
  BY DEF FaithInv
<1>3. CASE Aims(k) # {}
  <2>1. \E c \in Clients : Mine(job[c], k)
    BY <1>3 DEF Aims
  <2> QED BY <2>1 DEF Mine, InFlight
<1>4. CASE Aims(k) = {}
  <2>1. Dues(k) = {}
    BY <1>1, <1>2, NoDues
  <2>2. PICK b, L, T, e, up : b = Base(k) /\ L = Kept /\ T = now /\ e = mem.store[k] /\ up = (mode = "up")
    OBVIOUS
  <2>3. Stands(Base(k), Kept, k, now, mem.store[k], mode = "up", Aims(k), Dues(k))
    BY <1>1, Standing DEF FaithInv
  <2>4. SettledAt(b, L, k, Len(L), T, e, up)
    BY <1>4, <2>1, <2>2, <2>3 DEF Stands
  <2>5. L \in Seq(KeyCommand) /\ T \in Nat /\ T \in T..MaxNow
    BY <1>2, <2>2, SoundParts, ServerAssumption
  <2>6. SameEntry(Course(b, L, T, k, Len(L)), e)
    BY <2>4, <2>5 DEF SettledAt, Near
  <2>7. PICK s \in Loaded : s = CHOOSE x \in Loaded : TRUE
    BY <1>2, LoadedThere
  <2>8. /\ StateOK(s) /\ ~in_transaction(s)
        /\ s.store = IF saved = None THEN [h \in Keys |-> None] ELSE saved.store
    BY <1>2, LoadedOK DEF ServerInv
  <2>9. s.store[k] = b
    BY <2>2, <2>8 DEF Base
  <2>10. Recovered = Applied(s, L, T)[Len(L)]
    BY <2>2, <2>7 DEF Recovered, replay_wal, Kept
  <2>11. Applied(s, L, T)[Len(L)].store[k] = Course(s.store[k], L, T, k, Len(L))
    BY <2>5, <2>8, CourseIs
  <2> QED BY <2>2, <2>6, <2>9, <2>10, <2>11
<1> QED BY <1>3, <1>4

\* Without eviction, and with times to live that stay within 64 bits: at every
\* moment, a restart on the log and the saved file as they are would bring back
\* for every key what clients see, unless a logged command is still to be carried
\* out, recovery promises nothing for the key, or a shutdown has saved effects that
\* the log would repeat (src/api.rs handlers, src/wal.rs append, src/server.rs
\* replay_wal and the shutdown).
THEOREM RecoverySound ==
    ASSUME Roomy
    PROVE  Spec => []RecoveryFaithful
<1>1. Init => FaithInv
  BY InitFaith DEF Roomy
<1>2. FaithInv /\ [Next]_vars => FaithInv'
  BY FaithStep
<1>3. FaithInv => RecoveryFaithful
  BY FaithRecovers DEF Roomy
<1> QED BY <1>1, <1>2, <1>3, PTL DEF Spec
=============================================================================
