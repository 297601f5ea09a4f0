---------------------------- MODULE PubSubProofs ----------------------------
(***************************************************************************)
(* Proofs about PubSub for any number of channels, subscribers, publishers *)
(* and messages, and any size of the queues: queues hold the newest of     *)
(* what was delivered, the order of each publisher survives, and an id     *)
(* that has left a channel hears nothing more from it.                     *)
(***************************************************************************)
EXTENDS PubSub, TLAPS

Limit == max_messages_per_subscriber

TypeOK ==
    /\ channels \in [Channels -> Lists]
    /\ subscribers \in [Ids -> Seq(Messages) \cup {None}]
    /\ publishing \in [Publishers -> [msg : Messages, ids : Lists] \cup {None}]
    /\ published \in Nat
    /\ delivered \in [Ids -> Seq(Messages)]
    /\ polled \in [Ids -> Seq(Messages)]
    /\ off \in [Channels -> [Ids -> Nat \cup {None}]]

\* Whoever is on a list, or on one a publisher has read, has a queue; without
\* one nothing was delivered or polled.
Known ==
    \A s \in Ids : subscribers[s] = None =>
        /\ \A c \in Channels : channels[c][s] = 0
        /\ \A p \in Publishers : publishing[p] # None => publishing[p].ids[s] = 0
        /\ delivered[s] = << >> /\ polled[s] = << >>

\* A message on its way is its publisher's, and counted.
OnTheWay ==
    \A p \in Publishers : publishing[p] # None =>
        publishing[p].msg.by = p /\ publishing[p].msg.n <= published

\* No message is newer than the last one, nor than the one its publisher is
\* about to deliver.
NotNewer(m) ==
    /\ m.n <= published
    /\ \A p \in Publishers : publishing[p] # None /\ m.by = p => m.n <= publishing[p].msg.n

Ordered(queue) ==
    \A i, j \in 1..Len(queue) : i < j /\ queue[i].by = queue[j].by => queue[i].n <= queue[j].n

InOrder ==
    \A s \in Ids :
        /\ \A i \in 1..Len(Seen(s)) : NotNewer(Seen(s)[i])
        /\ Ordered(Seen(s))

Counted == \A s \in Ids : \A i \in 1..Len(delivered[s]) : delivered[s][i].n <= published

\* An id that has left is on no list, and on its way to it are only messages
\* that were published before.
Left ==
    \A c \in Channels, s \in Ids : off[c][s] # None =>
        /\ channels[c][s] = 0
        /\ \A p \in Publishers :
              publishing[p] # None /\ publishing[p].msg.channel = c /\ publishing[p].ids[s] > 0 =>
                  publishing[p].msg.n <= off[c][s]

Inv ==
    /\ TypeOK /\ Known /\ OnTheWay /\ InOrder /\ Counted /\ Left
    /\ NewestKept /\ SilentAfterLeaving

-----------------------------------------------------------------------------
(* Queues *)

\* IsSuffix element by element.
LEMMA SuffixFacts ==
    ASSUME NEW q \in Seq(Messages), NEW d \in Seq(Messages)
    PROVE  IsSuffix(q, d) <=>
             /\ Len(q) <= Len(d)
             /\ \A i \in 1..Len(q) : q[i] = d[Len(d) - Len(q) + i]
<1> DEFINE rq == Reverse(q)
           rd == Reverse(d)
<1>1. Len(q) \in Nat /\ Len(d) \in Nat
  OBVIOUS
<1>2. /\ rq \in Seq(Messages) /\ Len(rq) = Len(q)
      /\ \A i \in 1..Len(q) : rq[i] = q[(Len(q) - i) + 1]
  BY DEF Reverse
<1>3. /\ rd \in Seq(Messages) /\ Len(rd) = Len(d)
      /\ \A i \in 1..Len(d) : rd[i] = d[(Len(d) - i) + 1]
  BY DEF Reverse
<1>4. IsSuffix(q, d) <=> (Len(rq) <= Len(rd) /\ SubSeq(rq, 1, Len(rq)) = SubSeq(rd, 1, Len(rq)))
  BY DEF IsSuffix, IsPrefix
<1> HIDE DEF rq, rd
<1>5. CASE Len(q) > Len(d)
  BY <1>1, <1>2, <1>3, <1>4, <1>5
<1>6. CASE Len(q) <= Len(d)
  <2> DEFINE a == SubSeq(rq, 1, Len(rq))
             b == SubSeq(rd, 1, Len(rq))
  <2>1. a \in Seq(Messages) /\ Len(a) = Len(q) /\ \A i \in 1..Len(q) : a[i] = rq[i]
    BY <1>1, <1>2
  <2>2. b \in Seq(Messages) /\ Len(b) = Len(q) /\ \A i \in 1..Len(q) : b[i] = rd[i]
    BY <1>1, <1>2, <1>3, <1>6
  <2> HIDE DEF a, b
  <2>3. a = b <=> \A i \in 1..Len(q) : a[i] = b[i]
    BY <2>1, <2>2
  <2>4. a = b <=> \A i \in 1..Len(q) : q[(Len(q) - i) + 1] = d[(Len(d) - i) + 1]
    <3>1. \A i \in 1..Len(q) : i \in 1..Len(d)
      BY <1>1, <1>6
    <3>2. QED BY <1>2, <1>3, <2>1, <2>2, <2>3, <3>1
  <2>5. (\A i \in 1..Len(q) : q[(Len(q) - i) + 1] = d[(Len(d) - i) + 1])
          <=> (\A i \in 1..Len(q) : q[i] = d[Len(d) - Len(q) + i])
    <3>1. ASSUME \A i \in 1..Len(q) : q[(Len(q) - i) + 1] = d[(Len(d) - i) + 1], NEW k \in 1..Len(q)
          PROVE  q[k] = d[Len(d) - Len(q) + k]
      <4>1. (Len(q) - k) + 1 \in 1..Len(q)
        BY <1>1
      <4>2. q[(Len(q) - ((Len(q) - k) + 1)) + 1] = d[(Len(d) - ((Len(q) - k) + 1)) + 1]
        BY <3>1, <4>1
      <4>3. (Len(q) - ((Len(q) - k) + 1)) + 1 = k /\ (Len(d) - ((Len(q) - k) + 1)) + 1 = Len(d) - Len(q) + k
        BY <1>1
      <4>4. QED BY <4>2, <4>3
    <3>2. ASSUME \A i \in 1..Len(q) : q[i] = d[Len(d) - Len(q) + i], NEW k \in 1..Len(q)
          PROVE  q[(Len(q) - k) + 1] = d[(Len(d) - k) + 1]
      <4>1. (Len(q) - k) + 1 \in 1..Len(q) /\ Len(d) - Len(q) + ((Len(q) - k) + 1) = (Len(d) - k) + 1
        BY <1>1
      <4>2. QED BY <3>2, <4>1
    <3>3. QED BY <3>1, <3>2
  <2>6. QED BY <1>2, <1>3, <1>4, <1>6, <2>4, <2>5 DEF a, b
<1>7. QED BY <1>1, <1>5, <1>6

Copies(msg, times) == [i \in 1..times |-> msg]

LEMMA CopiesFacts ==
    ASSUME NEW msg \in Messages, NEW t \in Nat
    PROVE  /\ Copies(msg, t) \in Seq(Messages) /\ Len(Copies(msg, t)) = t
           /\ \A i \in 1..t : Copies(msg, t)[i] = msg
BY DEF Copies

\* A queue with copies of a message at its end.
LEMMA AddedFacts ==
    ASSUME NEW q \in Seq(Messages), NEW msg \in Messages, NEW t \in Nat
    PROVE  LET all == q \o Copies(msg, t)
           IN  /\ all \in Seq(Messages) /\ Len(all) = Len(q) + t /\ Len(q) \in Nat
               /\ \A i \in 1..Len(q) : all[i] = q[i]
               /\ \A i \in (Len(q) + 1)..(Len(q) + t) : all[i] = msg
<1> DEFINE new == Copies(msg, t)
<1>1. new \in Seq(Messages) /\ Len(new) = t /\ \A i \in 1..t : new[i] = msg
  BY CopiesFacts
<1> HIDE DEF new
<1>2. q \o new \in Seq(Messages) /\ Len(q \o new) = Len(q) + t /\ Len(q) \in Nat
  BY <1>1
<1>3. \A i \in 1..Len(q) : (q \o new)[i] = q[i]
  BY <1>1, <1>2
<1>4. \A i \in (Len(q) + 1)..(Len(q) + t) : (q \o new)[i] = new[i - Len(q)] /\ i - Len(q) \in 1..t
  BY <1>1, <1>2
<1>5. QED BY <1>1, <1>2, <1>3, <1>4 DEF new

\* What push_back leaves: the end of the queue with the copies.
LEMMA PushFacts ==
    ASSUME NEW q \in Seq(Messages), NEW msg \in Messages, NEW t \in Nat
    PROVE  LET all == q \o Copies(msg, t)
               r == push_back(q, msg, t)
           IN  /\ r \in Seq(Messages)
               /\ Len(r) = (IF Len(q) + t > Limit THEN Limit ELSE Len(q) + t)
               /\ \A i \in 1..Len(r) : r[i] = all[Len(q) + t - Len(r) + i]
<1> DEFINE all == q \o Copies(msg, t)
           kept == IF Len(q) + t > Limit THEN Limit ELSE Len(q) + t
           r == push_back(q, msg, t)
<1>1. Limit \in Nat
  BY PubSubAssumption DEF Limit
<1>2. all \in Seq(Messages) /\ Len(all) = Len(q) + t /\ Len(q) \in Nat
  BY AddedFacts
<1>3. r = SubSeq(all, Len(all) - kept + 1, Len(all))
  BY <1>2 DEF push_back, Copies, Limit
<1>4. kept \in Nat /\ kept <= Len(all) /\ Len(all) \in Nat
  BY <1>1, <1>2
<1> HIDE DEF all, kept, r
<1>5. Len(all) - kept + 1 \in 1..(Len(all) + 1) /\ Len(all) - (Len(all) - kept + 1) + 1 = kept
  BY <1>4
<1>6. r \in Seq(Messages) /\ Len(r) = kept
      /\ \A i \in 1..kept : r[i] = all[(Len(all) - kept + 1) + i - 1]
  BY <1>2, <1>3, <1>4, <1>5
<1>7. \A i \in 1..kept : (Len(all) - kept + 1) + i - 1 = Len(q) + t - kept + i
  BY <1>2, <1>4
<1>8. \A i \in 1..Len(r) : r[i] = all[Len(q) + t - Len(r) + i]
  BY <1>6, <1>7
<1>9. QED BY <1>6, <1>8 DEF all, kept, r

\* NewestKept of one subscriber: its queue, all it was delivered and all it polled.
Newest(q, d, p) ==
    LET lost == Len(d) - Len(p) - Len(q)
    IN  /\ Len(q) <= Limit
        /\ IsSuffix(q, d)
        /\ lost >= 0
        /\ lost > 0 => Len(d) > Limit

LEMMA NewestDef ==
    NewestKept <=> \A s \in Ids :
        /\ subscribers[s] = None => delivered[s] = << >>
        /\ subscribers[s] # None => Newest(subscribers[s], delivered[s], polled[s])
BY DEF NewestKept, Newest, Limit

LEMMA NewestDefNext ==
    NewestKept' <=> \A s \in Ids :
        /\ subscribers'[s] = None => delivered'[s] = << >>
        /\ subscribers'[s] # None => Newest(subscribers'[s], delivered'[s], polled'[s])
BY DEF NewestKept, Newest, Limit

\* A delivery drops the oldest messages of a full queue, and only those.
LEMMA NewestPushed ==
    ASSUME NEW q \in Seq(Messages), NEW d \in Seq(Messages), NEW p \in Seq(Messages),
           NEW msg \in Messages, NEW t \in Nat, Newest(q, d, p)
    PROVE  Newest(push_back(q, msg, t), d \o Copies(msg, t), p)
<1> DEFINE all == q \o Copies(msg, t)
           dd == d \o Copies(msg, t)
           r == push_back(q, msg, t)
<1>1. Limit \in Nat /\ Len(p) \in Nat
  BY PubSubAssumption DEF Limit
<1>2. /\ all \in Seq(Messages) /\ Len(all) = Len(q) + t /\ Len(q) \in Nat
      /\ \A i \in 1..Len(q) : all[i] = q[i]
      /\ \A i \in (Len(q) + 1)..(Len(q) + t) : all[i] = msg
  BY AddedFacts
<1>3. /\ dd \in Seq(Messages) /\ Len(dd) = Len(d) + t /\ Len(d) \in Nat
      /\ \A i \in 1..Len(d) : dd[i] = d[i]
      /\ \A i \in (Len(d) + 1)..(Len(d) + t) : dd[i] = msg
  BY AddedFacts
<1>4. /\ r \in Seq(Messages)
      /\ Len(r) = (IF Len(q) + t > Limit THEN Limit ELSE Len(q) + t)
      /\ \A i \in 1..Len(r) : r[i] = all[Len(q) + t - Len(r) + i]
  BY PushFacts
<1>5. /\ Len(q) <= Limit /\ Len(q) <= Len(d)
      /\ \A i \in 1..Len(q) : q[i] = d[Len(d) - Len(q) + i]
      /\ Len(d) - Len(p) - Len(q) >= 0
      /\ Len(d) - Len(p) - Len(q) > 0 => Len(d) > Limit
  BY SuffixFacts DEF Newest
<1> HIDE DEF all, dd, r
<1>6. Len(r) \in Nat /\ Len(r) <= Limit /\ Len(r) <= Len(q) + t /\ Len(r) <= Len(dd)
  BY <1>1, <1>2, <1>3, <1>4, <1>5
<1>7. \A k \in 1..(Len(q) + t) : all[k] = dd[Len(d) - Len(q) + k]
  <2>1. TAKE k \in 1..(Len(q) + t)
  <2>2. CASE k <= Len(q)
    <3>1. k \in 1..Len(q) /\ Len(d) - Len(q) + k \in 1..Len(d)
      BY <2>2, <1>2, <1>3, <1>5
    <3>2. QED BY <3>1, <1>2, <1>3, <1>5
  <2>3. CASE k > Len(q)
    <3>1. k \in (Len(q) + 1)..(Len(q) + t) /\ Len(d) - Len(q) + k \in (Len(d) + 1)..(Len(d) + t)
      BY <2>3, <1>2, <1>3, <1>5
    <3>2. QED BY <3>1, <1>2, <1>3
  <2>4. QED BY <2>2, <2>3, <1>2
<1>8. \A i \in 1..Len(r) : r[i] = dd[Len(dd) - Len(r) + i]
  <2>1. TAKE i \in 1..Len(r)
  <2>2. Len(q) + t - Len(r) + i \in 1..(Len(q) + t)
    BY <1>2, <1>6
  <2>3. Len(d) - Len(q) + (Len(q) + t - Len(r) + i) = Len(dd) - Len(r) + i
    BY <1>2, <1>3, <1>6
  <2>4. r[i] = all[Len(q) + t - Len(r) + i]
    BY <1>4
  <2>5. all[Len(q) + t - Len(r) + i] = dd[Len(d) - Len(q) + (Len(q) + t - Len(r) + i)]
    BY <1>7, <2>2
  <2>6. QED BY <2>3, <2>4, <2>5
<1>9. IsSuffix(r, dd)
  BY <1>3, <1>4, <1>6, <1>8, SuffixFacts
<1>10. Len(dd) - Len(p) - Len(r) >= 0 /\ (Len(dd) - Len(p) - Len(r) > 0 => Len(dd) > Limit)
  <2>1. Len(dd) = Len(d) + t /\ Len(d) \in Nat /\ Len(q) \in Nat
    BY <1>2, <1>3
  <2>2. CASE Len(q) + t > Limit
    <3>1. Len(r) = Limit
      BY <1>4, <2>2
    <3>2. QED BY <1>1, <1>5, <2>1, <2>2, <3>1
  <2>3. CASE ~(Len(q) + t > Limit)
    <3>1. Len(r) = Len(q) + t
      BY <1>4, <2>3
    <3>2. QED BY <1>1, <1>5, <2>1, <2>3, <3>1
  <2>4. QED BY <2>2, <2>3
<1>11. QED BY <1>6, <1>9, <1>10 DEF Newest, dd, r

\* The two parts into which a poll divides a queue.
LEMMA DividedFacts ==
    ASSUME NEW q \in Seq(Messages), NEW n \in Nat, n <= Len(q)
    PROVE  /\ SubSeq(q, 1, n) \in Seq(Messages) /\ Len(SubSeq(q, 1, n)) = n
           /\ \A i \in 1..n : SubSeq(q, 1, n)[i] = q[i]
           /\ SubSeq(q, n + 1, Len(q)) \in Seq(Messages) /\ Len(SubSeq(q, n + 1, Len(q))) = Len(q) - n
           /\ \A i \in 1..(Len(q) - n) : SubSeq(q, n + 1, Len(q))[i] = q[n + i]
           /\ Len(q) \in Nat
<1>1. Len(q) \in Nat /\ Len(q) - (n + 1) + 1 = Len(q) - n /\ Len(q) - n \in Nat
  OBVIOUS
<1>2. SubSeq(q, 1, n) \in Seq(Messages) /\ Len(SubSeq(q, 1, n)) = n
      /\ \A i \in 1..n : SubSeq(q, 1, n)[i] = q[i]
  <2>1. n - 1 + 1 = n /\ \A i \in 1..n : 1 + i - 1 = i
    OBVIOUS
  <2>2. QED BY <1>1, <2>1
<1>3. SubSeq(q, n + 1, Len(q)) \in Seq(Messages) /\ Len(SubSeq(q, n + 1, Len(q))) = Len(q) - n
  <2>1. PICK m \in 1..(Len(q) + 1) : m = n + 1 /\ Len(q) - m + 1 = Len(q) - n
    BY <1>1
  <2>2. SubSeq(q, m, Len(q)) \in Seq(Messages)
    BY <1>1
  <2>3. Len(SubSeq(q, m, Len(q))) = Len(q) - m + 1
    BY <1>1
  <2>4. QED BY <2>1, <2>2, <2>3
<1>4. \A i \in 1..(Len(q) - n) : SubSeq(q, n + 1, Len(q))[i] = q[n + i]
  <2>1. TAKE i \in 1..(Len(q) - n)
  <2>2. (n + 1) + i - 1 = n + i
    OBVIOUS
  <2>3. SubSeq(q, n + 1, Len(q))[i] = q[(n + 1) + i - 1]
    BY <1>1
  <2>4. QED BY <2>2, <2>3
<1>5. QED BY <1>1, <1>2, <1>3, <1>4

\* A poll moves the front of the queue, and loses nothing.
LEMMA NewestPolled ==
    ASSUME NEW q \in Seq(Messages), NEW d \in Seq(Messages), NEW p \in Seq(Messages),
           NEW n \in Nat, n <= Len(q), Newest(q, d, p)
    PROVE  Newest(SubSeq(q, n + 1, Len(q)), d, p \o SubSeq(q, 1, n))
<1> DEFINE r == SubSeq(q, n + 1, Len(q))
           f == SubSeq(q, 1, n)
<1>1. Limit \in Nat /\ Len(p) \in Nat /\ Len(d) \in Nat
  BY PubSubAssumption DEF Limit
<1>2. /\ f \in Seq(Messages) /\ Len(f) = n
      /\ r \in Seq(Messages) /\ Len(r) = Len(q) - n /\ Len(q) \in Nat
      /\ \A i \in 1..(Len(q) - n) : r[i] = q[n + i]
  BY DividedFacts
<1>3. /\ Len(q) <= Limit /\ Len(q) <= Len(d)
      /\ \A i \in 1..Len(q) : q[i] = d[Len(d) - Len(q) + i]
      /\ Len(d) - Len(p) - Len(q) >= 0
      /\ Len(d) - Len(p) - Len(q) > 0 => Len(d) > Limit
  BY SuffixFacts DEF Newest
<1> HIDE DEF r, f
<1>4. Len(p \o f) = Len(p) + Len(f)
  <2>1. f \in Seq(Messages)
    BY <1>2
  <2>2. QED BY <2>1
<1>5. \A i \in 1..Len(r) : r[i] = d[Len(d) - Len(r) + i]
  <2>1. TAKE i \in 1..Len(r)
  <2>2. i \in 1..(Len(q) - n) /\ n + i \in 1..Len(q) /\ Len(d) - Len(q) + (n + i) = Len(d) - Len(r) + i
    BY <1>1, <1>2
  <2>3. QED BY <1>2, <1>3, <2>2
<1>6. IsSuffix(r, d)
  <2>1. Len(r) <= Len(d)
    BY <1>1, <1>2, <1>3
  <2>2. QED BY <1>2, <1>5, <2>1, SuffixFacts
<1>7. Len(d) - Len(p \o f) - Len(r) = Len(d) - Len(p) - Len(q) /\ Len(r) <= Limit
  BY <1>1, <1>2, <1>3, <1>4
<1>8. QED BY <1>3, <1>6, <1>7 DEF Newest, r, f

\* Two sequences one after the other.
LEMMA JoinedFacts ==
    ASSUME NEW p \in Seq(Messages), NEW q \in Seq(Messages)
    PROVE  /\ p \o q \in Seq(Messages) /\ Len(p \o q) = Len(p) + Len(q)
           /\ Len(p) \in Nat /\ Len(q) \in Nat
           /\ \A i \in 1..Len(p) : (p \o q)[i] = p[i]
           /\ \A i \in 1..Len(q) : (p \o q)[Len(p) + i] = q[i]
<1>1. Len(p) \in Nat /\ Len(q) \in Nat
  OBVIOUS
<1>2. p \o q \in Seq(Messages)
  OBVIOUS
<1>3. Len(p \o q) = Len(p) + Len(q)
  OBVIOUS
<1>4. \A i \in 1..Len(p) : (p \o q)[i] = p[i]
  BY <1>1
<1>5. \A i \in 1..Len(q) : (p \o q)[Len(p) + i] = q[i]
  <2>1. TAKE i \in 1..Len(q)
  <2>2. Len(p) + i \in (Len(p) + 1)..(Len(p) + Len(q)) /\ (Len(p) + i) - Len(p) = i
    BY <1>1
  <2>3. QED BY <1>1, <2>2
<1>6. QED BY <1>1, <1>2, <1>3, <1>4, <1>5

\* What a subscriber has seen after a delivery comes, in the same order, from
\* what it had seen before and the message: some of the queue may be gone.
LEMMA SeenPushed ==
    ASSUME NEW p \in Seq(Messages), NEW q \in Seq(Messages), NEW msg \in Messages, NEW t \in Nat,
           Ordered(p \o q),
           \A i \in 1..Len(p \o q) : (p \o q)[i].by = msg.by => (p \o q)[i].n <= msg.n
    PROVE  LET new == p \o push_back(q, msg, t)
           IN  /\ Ordered(new)
               /\ \A i \in 1..Len(new) : new[i] = msg \/ \E k \in 1..Len(p \o q) : new[i] = (p \o q)[k]
<1> DEFINE r == push_back(q, msg, t)
           w == p \o q
           v == p \o r
           all == q \o Copies(msg, t)
           skip == Len(q) + t - Len(r)
           from(i) == IF i <= Len(p) THEN i ELSE skip + i
<1>1. Limit \in Nat /\ msg.n \in Nat
  BY PubSubAssumption DEF Limit, Messages
<1>2. /\ r \in Seq(Messages) /\ Len(r) = (IF Len(q) + t > Limit THEN Limit ELSE Len(q) + t)
      /\ \A i \in 1..Len(r) : r[i] = all[Len(q) + t - Len(r) + i]
  BY PushFacts
<1>3. /\ all \in Seq(Messages) /\ Len(all) = Len(q) + t /\ Len(q) \in Nat
      /\ \A i \in 1..Len(q) : all[i] = q[i]
      /\ \A i \in (Len(q) + 1)..(Len(q) + t) : all[i] = msg
  BY AddedFacts
<1> HIDE DEF r, all
<1>4. /\ w \in Seq(Messages) /\ Len(w) = Len(p) + Len(q) /\ Len(p) \in Nat /\ Len(q) \in Nat
      /\ \A i \in 1..Len(p) : w[i] = p[i]
      /\ \A i \in 1..Len(q) : w[Len(p) + i] = q[i]
  BY JoinedFacts
<1>5. /\ v \in Seq(Messages) /\ Len(v) = Len(p) + Len(r) /\ Len(r) \in Nat
      /\ \A i \in 1..Len(p) : v[i] = p[i]
      /\ \A i \in 1..Len(r) : v[Len(p) + i] = r[i]
  BY <1>2, JoinedFacts
<1>6. skip \in Nat /\ Len(r) + skip = Len(q) + t
  BY <1>1, <1>2, <1>4, <1>5
<1> HIDE DEF w, v, skip
<1>7. ASSUME NEW i \in 1..Len(v)
      PROVE  \/ from(i) \in 1..Len(w) /\ v[i] = w[from(i)]
             \/ from(i) > Len(w) /\ v[i] = msg
  <2>1. CASE i <= Len(p)
    <3>1. i \in 1..Len(p) /\ i \in 1..Len(w)
      BY <2>1, <1>4, <1>5
    <3>2. QED BY <2>1, <3>1, <1>4, <1>5
  <2>2. CASE i > Len(p)
    <3>1. PICK j \in 1..Len(r) : i = Len(p) + j
      <4>1. i - Len(p) \in 1..Len(r) /\ i = Len(p) + (i - Len(p))
        BY <2>2, <1>4, <1>5
      <4>2. QED BY <4>1
    <3>2. v[i] = all[skip + j] /\ from(i) = Len(p) + (skip + j) /\ skip + j \in 1..(Len(q) + t)
      <4>1. v[i] = all[skip + j]
        BY <3>1, <1>2, <1>5 DEF skip
      <4>2. from(i) = Len(p) + (skip + j) /\ skip + j \in 1..(Len(q) + t)
        BY <2>2, <3>1, <1>4, <1>5, <1>6
      <4>3. QED BY <4>1, <4>2
    <3>3. CASE skip + j <= Len(q)
      <4>1. skip + j \in 1..Len(q) /\ Len(p) + (skip + j) \in 1..Len(w)
        BY <3>2, <3>3, <1>4
      <4>2. QED BY <3>2, <4>1, <1>3, <1>4
    <3>4. CASE skip + j > Len(q)
      <4>1. skip + j \in (Len(q) + 1)..(Len(q) + t) /\ Len(p) + (skip + j) > Len(w)
        <5>1. Len(w) = Len(p) + Len(q) /\ Len(p) \in Nat /\ Len(q) \in Nat
          BY <1>4
        <5>2. skip + j \in 1..(Len(q) + t)
          BY <3>2
        <5>3. QED BY <3>4, <5>1, <5>2
      <4>2. QED BY <3>2, <4>1, <1>3
    <3>5. QED BY <3>3, <3>4, <1>4, <1>6
  <2>3. QED BY <2>1, <2>2, <1>4
<1>8. \A i, j \in 1..Len(v) : i < j => from(i) < from(j)
  BY <1>4, <1>5, <1>6
<1> HIDE DEF from
<1>9. ASSUME NEW i \in 1..Len(v), NEW j \in 1..Len(v), i < j, v[i].by = v[j].by
      PROVE  v[i].n <= v[j].n
  <2>1. from(i) < from(j)
    BY <1>8, <1>9
  <2>2. CASE from(j) \in 1..Len(w) /\ v[j] = w[from(j)]
    <3>1. from(i) \in 1..Len(w) /\ v[i] = w[from(i)]
      <4>1. ~(from(i) > Len(w))
        <5>1. from(i) \in Int /\ Len(w) \in Nat
          BY <1>4, <1>6 DEF from
        <5>2. QED BY <2>1, <2>2, <5>1
      <4>2. QED BY <1>7, <4>1
    <3>2. Ordered(w)
      BY DEF w
    <3>3. QED BY <1>9, <2>1, <2>2, <3>1, <3>2 DEF Ordered
  <2>3. CASE v[j] = msg
    <3>1. CASE from(i) \in 1..Len(w) /\ v[i] = w[from(i)]
      <4>1. \A k \in 1..Len(w) : w[k].by = msg.by => w[k].n <= msg.n
        BY DEF w
      <4>2. QED BY <1>9, <2>3, <3>1, <4>1
    <3>2. CASE v[i] = msg
      BY <1>1, <2>3, <3>2
    <3>3. QED BY <1>7, <3>1, <3>2
  <2>4. QED BY <1>7, <2>2, <2>3
<1>10. Ordered(v)
  BY <1>9 DEF Ordered
<1>11. \A i \in 1..Len(v) : v[i] = msg \/ \E k \in 1..Len(w) : v[i] = w[k]
  BY <1>7
<1>12. QED BY <1>10, <1>11 DEF v, w, r

\* A poll changes nothing about what is seen.
LEMMA SeenPolled ==
    ASSUME NEW p \in Seq(Messages), NEW q \in Seq(Messages), NEW n \in Nat, n <= Len(q)
    PROVE  (p \o SubSeq(q, 1, n)) \o SubSeq(q, n + 1, Len(q)) = p \o q
<1> DEFINE f == SubSeq(q, 1, n)
           r == SubSeq(q, n + 1, Len(q))
           u == (p \o f) \o r
           w == p \o q
<1>1. /\ f \in Seq(Messages) /\ Len(f) = n /\ \A i \in 1..n : f[i] = q[i]
      /\ r \in Seq(Messages) /\ Len(r) = Len(q) - n /\ Len(q) \in Nat
      /\ \A i \in 1..(Len(q) - n) : r[i] = q[n + i]
  BY DividedFacts
<1> HIDE DEF f, r
<1> DEFINE pf == p \o f
<1>2. /\ pf \in Seq(Messages) /\ Len(pf) = Len(p) + Len(f) /\ Len(p) \in Nat
      /\ \A i \in 1..Len(p) : pf[i] = p[i]
      /\ \A i \in 1..Len(f) : pf[Len(p) + i] = f[i]
  BY <1>1, JoinedFacts
<1>3. /\ w \in Seq(Messages) /\ Len(w) = Len(p) + Len(q)
      /\ \A i \in 1..Len(p) : w[i] = p[i]
      /\ \A i \in 1..Len(q) : w[Len(p) + i] = q[i]
  BY JoinedFacts
<1> HIDE DEF pf, w
<1>4. /\ pf \o r \in Seq(Messages) /\ Len(pf \o r) = Len(pf) + Len(r)
      /\ \A i \in 1..Len(pf) : (pf \o r)[i] = pf[i]
      /\ \A i \in 1..Len(r) : (pf \o r)[Len(pf) + i] = r[i]
  BY <1>1, <1>2, JoinedFacts
<1> DEFINE v == pf \o r
<1> HIDE DEF v
<1>5. v \in Seq(Messages) /\ Len(v) = Len(w) /\ Len(w) \in Nat
  BY <1>1, <1>2, <1>3, <1>4 DEF v
<1>6. ASSUME NEW i \in 1..Len(w) PROVE v[i] = w[i]
  <2>1. CASE i <= Len(p)
    <3>1. i \in 1..Len(p) /\ i \in 1..Len(pf)
      BY <2>1, <1>1, <1>2, <1>5
    <3>2. QED BY <3>1, <1>2, <1>3, <1>4 DEF v
  <2>2. CASE i > Len(p) /\ i <= Len(p) + n
    <3>1. PICK j \in 1..n : i = Len(p) + j /\ i \in 1..Len(pf) /\ j \in 1..Len(q)
      <4>1. i - Len(p) \in 1..n /\ i = Len(p) + (i - Len(p)) /\ i \in 1..Len(pf) /\ i - Len(p) \in 1..Len(q)
        BY <2>2, <1>1, <1>2, <1>3, <1>5
      <4>2. QED BY <4>1
    <3>2. QED BY <3>1, <1>1, <1>2, <1>3, <1>4 DEF v
  <2>3. CASE i > Len(p) + n
    <3>1. PICK j \in 1..(Len(q) - n) : i = Len(pf) + j /\ i = Len(p) + (n + j) /\ n + j \in 1..Len(q)
      <4>1. i - (Len(p) + n) \in 1..(Len(q) - n)
        BY <2>3, <1>1, <1>2, <1>3, <1>5
      <4>2. /\ i = Len(pf) + (i - (Len(p) + n)) /\ i = Len(p) + (n + (i - (Len(p) + n)))
            /\ n + (i - (Len(p) + n)) \in 1..Len(q)
        BY <2>3, <1>1, <1>2, <1>3, <1>5
      <4>3. QED BY <4>1, <4>2
    <3>2. v[i] = r[j]
      <4>1. j \in 1..Len(r)
        BY <1>1
      <4>2. QED BY <3>1, <4>1, <1>4 DEF v
    <3>3. r[j] = q[n + j] /\ w[i] = q[n + j]
      BY <3>1, <1>1, <1>3
    <3>4. QED BY <3>2, <3>3
  <2>4. QED BY <2>1, <2>2, <2>3, <1>1, <1>2, <1>5
<1>7. v = w
  BY <1>3, <1>5, <1>6
<1>8. QED BY <1>7 DEF v, w, pf, f, r

-----------------------------------------------------------------------------
(* The invariant *)

LEMMA Start == Init => Inv
<1> SUFFICES ASSUME Init PROVE Inv
  OBVIOUS
<1>1. TypeOK
  BY DEF Init, TypeOK, Lists
<1>2. Known /\ OnTheWay /\ Left
  BY DEF Init, Known, OnTheWay, Left
<1>3. InOrder
  BY DEF Init, InOrder, Seen, Ordered
<1>4. Counted /\ NewestKept /\ SilentAfterLeaving
  BY DEF Init, Counted, NewestKept, SilentAfterLeaving
<1>5. QED BY <1>1, <1>2, <1>3, <1>4 DEF Inv

\* The message and the list of a publisher between its two halves.
LEMMA PublishingType ==
    ASSUME TypeOK, NEW p \in Publishers, publishing[p] # None
    PROVE  /\ publishing[p].msg \in Messages /\ publishing[p].ids \in Lists
           /\ publishing[p].msg.n \in Nat
           /\ \A s \in Ids : publishing[p].ids[s] \in Nat
<1>1. publishing[p] \in [msg : Messages, ids : Lists]
  BY DEF TypeOK
<1>2. publishing[p].msg \in Messages /\ publishing[p].ids \in Lists
  BY <1>1
<1>3. QED BY <1>2 DEF Messages, Lists

\* What is in the queues has a number.
LEMMA MessageType ==
    ASSUME NEW q \in Seq(Messages), NEW i \in 1..Len(q)
    PROVE  q[i] \in Messages /\ q[i].n \in Nat /\ q[i].by \in Publishers
<1>1. q[i] \in Messages
  OBVIOUS
<1>2. QED BY <1>1 DEF Messages

LEMMA SeenType ==
    ASSUME TypeOK, NEW s \in Ids
    PROVE  Seen(s) \in Seq(Messages)
<1>1. polled[s] \in Seq(Messages) /\ subscribers[s] \in Seq(Messages) \cup {None}
  BY DEF TypeOK
<1>2. CASE subscribers[s] = None
  BY <1>2 DEF Seen
<1>3. CASE subscribers[s] # None
  BY <1>1, <1>3, JoinedFacts DEF Seen
<1>4. QED BY <1>2, <1>3

\* Steps that deliver and poll nothing.
LEMMA QueuesStay ==
    ASSUME Inv, UNCHANGED <<delivered, polled>>, published' \in Nat, published <= published',
           \A s \in Ids : \/ subscribers'[s] = subscribers[s]
                          \/ subscribers[s] = None /\ subscribers'[s] = << >>,
           \A p \in Publishers : publishing'[p] # None =>
               \/ publishing'[p] = publishing[p]
               \/ publishing'[p].msg.n \in Nat /\ publishing'[p].msg.n > published
    PROVE  NewestKept' /\ Counted' /\ InOrder'
<1> USE DEF Inv
<1>1. published \in Nat /\ delivered \in [Ids -> Seq(Messages)]
  BY DEF TypeOK
<1>2. Counted'
  <2>1. ASSUME NEW s \in Ids, NEW i \in 1..Len(delivered[s]) PROVE delivered[s][i].n <= published'
    <3>1. delivered[s][i].n \in Nat
      BY <1>1, MessageType
    <3>2. QED BY <3>1, <1>1 DEF Counted
  <2>2. QED BY <2>1 DEF Counted
<1>3. NewestKept'
  <2>1. ASSUME NEW s \in Ids, subscribers[s] = None, subscribers'[s] = << >>
        PROVE  Newest(subscribers'[s], delivered'[s], polled'[s])
    <3>1. delivered'[s] = << >> /\ polled'[s] = << >>
      BY <2>1 DEF Known
    <3>2. << >> \in Seq(Messages) /\ Len(<< >>) = 0 /\ Limit \in Nat
      BY PubSubAssumption DEF Limit
    <3>3. IsSuffix(<< >>, << >>)
      <4>1. PICK e \in Seq(Messages) : e = << >> /\ Len(e) = 0
        BY <3>2
      <4>2. IsSuffix(e, e)
        <5>1. Len(e) <= Len(e) /\ \A i \in 1..Len(e) : e[i] = e[Len(e) - Len(e) + i]
          BY <4>1
        <5>2. QED BY <5>1, SuffixFacts
      <4>3. QED BY <4>1, <4>2
    <3>4. QED BY <2>1, <3>1, <3>2, <3>3 DEF Newest
  <2>2. QED BY <2>1, NewestDef, NewestDefNext
<1>4. \A s \in Ids : Seen(s)' = Seen(s)
  <2>1. TAKE s \in Ids
  <2>2. CASE subscribers'[s] = subscribers[s]
    BY <2>2 DEF Seen
  <2>3. CASE subscribers[s] = None /\ subscribers'[s] = << >>
    <3>1. polled'[s] = << >> /\ << >> \o << >> = << >>
      BY <2>3 DEF Known
    <3>2. QED BY <2>3, <3>1 DEF Seen
  <2>4. QED BY <2>2, <2>3
<1>5. ASSUME NEW s \in Ids, NEW i \in 1..Len(Seen(s))
      PROVE  NotNewer(Seen(s)[i])'
  <2>1. PICK m : m = Seen(s)[i]
    OBVIOUS
  <2>2. m.n \in Nat /\ NotNewer(m)
    BY <2>1, SeenType, MessageType DEF InOrder
  <2>3. m.n <= published'
    BY <2>2, <1>1 DEF NotNewer
  <2>4. ASSUME NEW p \in Publishers, publishing'[p] # None, m.by = p
        PROVE  m.n <= publishing'[p].msg.n
    <3>1. CASE publishing'[p] = publishing[p]
      BY <2>2, <2>4, <3>1 DEF NotNewer
    <3>2. CASE publishing'[p].msg.n \in Nat /\ publishing'[p].msg.n > published
      BY <2>2, <3>2, <1>1 DEF NotNewer
    <3>3. QED BY <2>4, <3>1, <3>2
  <2>5. NotNewer(m)'
    BY <2>3, <2>4 DEF NotNewer
  <2>6. QED BY <1>4, <2>1, <2>5
<1>6. \A s \in Ids : Ordered(Seen(s))
  BY DEF InOrder
<1>7. InOrder'
  BY <1>4, <1>5, <1>6 DEF InOrder, Ordered
<1>8. QED BY <1>2, <1>3, <1>7

LEMMA SubscribeKeeps ==
    ASSUME Inv, NEW c \in Channels, NEW s \in Ids, subscribe(c, s)
    PROVE  Inv'
<1> USE DEF Inv
<1>1. /\ channels' = [channels EXCEPT ![c][s] = @ + 1]
      /\ subscribers' = [subscribers EXCEPT ![s] = IF @ = None THEN <<>> ELSE @]
      /\ off' = [off EXCEPT ![c][s] = None]
      /\ UNCHANGED <<publishing, published, delivered, polled>>
  BY DEF subscribe
<1>2. TypeOK'
  <2>1. channels' \in [Channels -> Lists]
    BY <1>1 DEF TypeOK, Lists
  <2>2. subscribers' \in [Ids -> Seq(Messages) \cup {None}]
    BY <1>1 DEF TypeOK
  <2>3. off' \in [Channels -> [Ids -> Nat \cup {None}]]
    BY <1>1 DEF TypeOK
  <2>4. QED BY <1>1, <2>1, <2>2, <2>3 DEF TypeOK
<1>3. /\ \A t \in Ids : t # s => subscribers'[t] = subscribers[t]
      /\ subscribers'[s] = (IF subscribers[s] = None THEN << >> ELSE subscribers[s])
  BY <1>1 DEF TypeOK
<1>4. subscribers'[s] # None
  <2>1. << >> \in Seq(Messages)
    OBVIOUS
  <2>2. QED BY <1>3, <2>1, PubSubAssumption
<1>5. \A d \in Channels, t \in Ids : d # c \/ t # s =>
          channels'[d][t] = channels[d][t] /\ off'[d][t] = off[d][t]
  BY <1>1 DEF TypeOK, Lists
<1>6. off'[c][s] = None
  BY <1>1 DEF TypeOK
<1>7. NewestKept' /\ Counted' /\ InOrder'
  BY <1>1, <1>3, QueuesStay DEF TypeOK
<1>8. Known'
  <2>1. ASSUME NEW t \in Ids, subscribers'[t] = None
        PROVE  t # s /\ subscribers[t] = None
    BY <2>1, <1>3, <1>4
  <2>2. QED BY <2>1, <1>1, <1>5 DEF Known
<1>9. OnTheWay'
  BY <1>1 DEF OnTheWay
<1>10. Left'
  <2>1. ASSUME NEW d \in Channels, NEW t \in Ids, off'[d][t] # None
        PROVE  off'[d][t] = off[d][t] /\ channels'[d][t] = channels[d][t]
    BY <2>1, <1>5, <1>6
  <2>2. QED BY <2>1, <1>1 DEF Left
<1>11. SilentAfterLeaving'
  <2>1. ASSUME NEW d \in Channels, NEW t \in Ids, off'[d][t] # None
        PROVE  off'[d][t] = off[d][t]
    BY <2>1, <1>5, <1>6
  <2>2. QED BY <2>1, <1>1 DEF SilentAfterLeaving
<1>12. QED BY <1>2, <1>7, <1>8, <1>9, <1>10, <1>11

\* Ids leave channels: the common part of unsubscribe and cleanup_stale_subscribers.
LEMMA LeavingKeeps ==
    ASSUME Inv, TypeOK', UNCHANGED <<subscribers, publishing, published, delivered, polled>>,
           \A c \in Channels, s \in Ids :
               \/ channels'[c][s] = channels[c][s] /\ off'[c][s] = off[c][s]
               \/ channels'[c][s] = 0 /\ off'[c][s] = published
               \/ channels'[c][s] = 0 /\ off'[c][s] = off[c][s]
    PROVE  Inv'
<1> USE DEF Inv
<1>1. published \in Nat
  BY DEF TypeOK
<1>2. NewestKept' /\ Counted' /\ InOrder'
  BY <1>1, QueuesStay
<1>3. Known'
  BY DEF Known
<1>4. OnTheWay'
  BY DEF OnTheWay
<1>5. Left'
  <2>1. ASSUME NEW c \in Channels, NEW s \in Ids, off'[c][s] # None
        PROVE  /\ channels'[c][s] = 0
               /\ \A p \in Publishers :
                    publishing[p] # None /\ publishing[p].msg.channel = c /\ publishing[p].ids[s] > 0 =>
                        publishing[p].msg.n <= off'[c][s]
    BY <2>1 DEF Left, OnTheWay
  <2>2. QED BY <2>1 DEF Left
<1>6. SilentAfterLeaving'
  <2>1. ASSUME NEW c \in Channels, NEW s \in Ids, off'[c][s] # None,
               NEW i \in 1..Len(delivered[s]), delivered[s][i].channel = c
        PROVE  delivered[s][i].n <= off'[c][s]
    BY <2>1 DEF SilentAfterLeaving, Counted
  <2>2. QED BY <2>1 DEF SilentAfterLeaving
<1>7. QED BY <1>2, <1>3, <1>4, <1>5, <1>6

LEMMA UnsubscribeKeeps ==
    ASSUME Inv, NEW c \in Channels, NEW s \in Ids, unsubscribe(c, s)
    PROVE  Inv'
<1> USE DEF Inv
<1>1. /\ channels' = [channels EXCEPT ![c] = [@ EXCEPT ![s] = 0]]
      /\ off' = [off EXCEPT ![c][s] = published]
      /\ UNCHANGED <<subscribers, publishing, published, delivered, polled>>
  BY DEF unsubscribe, without
<1>2. channels' \in [Channels -> Lists] /\ off' \in [Channels -> [Ids -> Nat \cup {None}]]
  BY <1>1 DEF TypeOK, Lists
<1>3. TypeOK'
  BY <1>1, <1>2 DEF TypeOK
<1>4. ASSUME NEW d \in Channels, NEW t \in Ids
      PROVE  \/ channels'[d][t] = channels[d][t] /\ off'[d][t] = off[d][t]
             \/ channels'[d][t] = 0 /\ off'[d][t] = published
  BY <1>1 DEF TypeOK, Lists
<1>5. QED BY <1>1, <1>3, <1>4, LeavingKeeps

LEMMA CleanupKeeps ==
    ASSUME Inv, cleanup_stale_subscribers
    PROVE  Inv'
<1> USE DEF Inv
<1> DEFINE pending(s) == subscribers[s] # None /\ subscribers[s] # <<>>
<1>1. /\ channels' = [c \in Channels |-> [s \in Ids |-> IF pending(s) THEN channels[c][s] ELSE 0]]
      /\ off' = [c \in Channels |-> [s \in Ids |->
                    IF channels[c][s] > 0 /\ ~pending(s) THEN published ELSE off[c][s]]]
      /\ UNCHANGED <<subscribers, publishing, published, delivered, polled>>
  BY DEF cleanup_stale_subscribers
<1> HIDE DEF pending
<1>2. channels' \in [Channels -> Lists] /\ off' \in [Channels -> [Ids -> Nat \cup {None}]]
  BY <1>1 DEF TypeOK, Lists
<1>3. TypeOK'
  BY <1>1, <1>2 DEF TypeOK
<1>4. ASSUME NEW d \in Channels, NEW t \in Ids
      PROVE  \/ channels'[d][t] = channels[d][t] /\ off'[d][t] = off[d][t]
             \/ channels'[d][t] = 0 /\ off'[d][t] = published
             \/ channels'[d][t] = 0 /\ off'[d][t] = off[d][t]
  BY <1>1
<1>5. QED BY <1>1, <1>3, <1>4, LeavingKeeps

LEMMA PublishReadKeeps ==
    ASSUME Inv, NEW p \in Publishers, NEW c \in Channels, PublishRead(p, c)
    PROVE  Inv'
<1> USE DEF Inv
<1>1. PICK new : /\ new = [msg |-> [n |-> published + 1, channel |-> c, by |-> p], ids |-> channels[c]]
                 /\ publishing' = [publishing EXCEPT ![p] = new]
                 /\ published' = published + 1
                 /\ UNCHANGED <<channels, subscribers, delivered, polled, off>>
  BY DEF PublishRead
<1>2. published \in Nat /\ channels[c] \in Lists
  BY DEF TypeOK
<1>3. /\ new \in [msg : Messages, ids : Lists] /\ new.msg.n = published + 1
      /\ new.msg.by = p /\ new.ids = channels[c] /\ new.msg.channel = c
  BY <1>1, <1>2 DEF Messages
<1>4. TypeOK'
  BY <1>1, <1>2, <1>3 DEF TypeOK
<1>5. publishing'[p] = new /\ \A q \in Publishers : q # p => publishing'[q] = publishing[q]
  BY <1>1 DEF TypeOK
<1>6. NewestKept' /\ Counted' /\ InOrder'
  BY <1>1, <1>2, <1>3, <1>5, QueuesStay
<1>7. Known'
  BY <1>1, <1>3, <1>5 DEF Known
<1>8. OnTheWay'
  <2>1. ASSUME NEW q \in Publishers, publishing'[q] # None
        PROVE  publishing'[q].msg.by = q /\ publishing'[q].msg.n <= published'
    <3>1. CASE q = p
      BY <3>1, <1>1, <1>2, <1>3, <1>5
    <3>2. CASE q # p
      <4>1. publishing[q].msg.n \in Nat /\ publishing'[q] = publishing[q]
        BY <2>1, <3>2, <1>5, PublishingType
      <4>2. QED BY <2>1, <4>1, <1>1, <1>2 DEF OnTheWay
    <3>3. QED BY <3>1, <3>2
  <2>2. QED BY <2>1 DEF OnTheWay
<1>9. Left'
  <2>1. ASSUME NEW d \in Channels, NEW s \in Ids, off[d][s] # None, NEW q \in Publishers,
               publishing'[q] # None, publishing'[q].msg.channel = d, publishing'[q].ids[s] > 0
        PROVE  publishing'[q].msg.n <= off[d][s]
    <3>1. CASE q = p
      <4>1. channels[c][s] > 0 /\ d = c
        BY <2>1, <3>1, <1>3, <1>5
      <4>2. channels[c][s] = 0
        BY <2>1, <4>1 DEF Left
      <4>3. QED BY <4>1, <4>2
    <3>2. CASE q # p
      BY <2>1, <3>2, <1>5 DEF Left
    <3>3. QED BY <3>1, <3>2
  <2>2. QED BY <2>1, <1>1 DEF Left
<1>10. SilentAfterLeaving'
  BY <1>1 DEF SilentAfterLeaving
<1>11. QED BY <1>4, <1>6, <1>7, <1>8, <1>9, <1>10

\* What a delivery does, id by id.
LEMMA DeliverFacts ==
    ASSUME Inv, NEW p \in Publishers, PublishDeliver(p), NEW s \in Ids
    PROVE  LET msg == publishing[p].msg
               t == publishing[p].ids[s]
           IN  /\ subscribers[s] = None =>
                     subscribers'[s] = None /\ delivered'[s] = << >> /\ t = 0
               /\ subscribers[s] # None =>
                     subscribers'[s] = push_back(subscribers[s], msg, t)
               /\ delivered'[s] = delivered[s] \o Copies(msg, t)
<1> USE DEF Inv
<1> DEFINE msg == publishing[p].msg
           t == publishing[p].ids[s]
<1>1. /\ subscribers' = [u \in Ids |-> IF subscribers[u] = None THEN None
                                      ELSE push_back(subscribers[u], msg, publishing[p].ids[u])]
      /\ delivered' = [u \in Ids |-> delivered[u] \o Copies(msg, publishing[p].ids[u])]
      /\ publishing[p] # None
  BY DEF PublishDeliver, Copies
<1>2. delivered'[s] = delivered[s] \o Copies(msg, t)
  BY <1>1
<1>3. subscribers[s] # None => subscribers'[s] = push_back(subscribers[s], msg, t)
  BY <1>1
<1>4. ASSUME subscribers[s] = None
      PROVE  subscribers'[s] = None /\ delivered'[s] = << >> /\ t = 0
  <2>1. t = 0 /\ delivered[s] = << >> /\ subscribers'[s] = None
    BY <1>1, <1>4 DEF Known
  <2>2. Copies(msg, t) \in Seq(Messages) /\ Len(Copies(msg, t)) = 0
    BY <1>1, <2>1, PublishingType, CopiesFacts
  <2>3. Copies(msg, t) = << >>
    BY <2>2
  <2>4. QED BY <1>2, <2>1, <2>3
<1>5. QED BY <1>2, <1>3, <1>4

LEMMA PublishDeliverKeeps ==
    ASSUME Inv, NEW p \in Publishers, PublishDeliver(p)
    PROVE  Inv'
<1> USE DEF Inv
<1>1. /\ publishing[p] # None /\ publishing' = [publishing EXCEPT ![p] = None]
      /\ UNCHANGED <<channels, published, polled, off>>
      /\ DOMAIN subscribers' = Ids /\ DOMAIN delivered' = Ids
      /\ subscribers' = [u \in Ids |-> subscribers'[u]] /\ delivered' = [u \in Ids |-> delivered'[u]]
  BY DEF PublishDeliver
<1>2. PICK msg \in Messages, ids \in Lists :
         msg = publishing[p].msg /\ ids = publishing[p].ids /\ \A s \in Ids : ids[s] \in Nat
  BY <1>1, PublishingType
<1>3. msg.by = p /\ msg.n <= published /\ msg.n \in Nat /\ published \in Nat
  BY <1>1, <1>2, PublishingType DEF OnTheWay, TypeOK
<1>4. ASSUME NEW s \in Ids
      PROVE  /\ subscribers[s] = None => subscribers'[s] = None /\ delivered'[s] = << >> /\ ids[s] = 0
             /\ subscribers[s] # None => subscribers'[s] = push_back(subscribers[s], msg, ids[s])
             /\ delivered'[s] = delivered[s] \o Copies(msg, ids[s])
  BY <1>2, DeliverFacts
<1>5. \A s \in Ids : /\ delivered[s] \in Seq(Messages) /\ polled[s] \in Seq(Messages)
                     /\ subscribers[s] # None => subscribers[s] \in Seq(Messages)
  BY DEF TypeOK
<1>6. ASSUME NEW s \in Ids, subscribers[s] # None
      PROVE  subscribers'[s] \in Seq(Messages) /\ subscribers'[s] # None
  <2>1. PICK q \in Seq(Messages), t \in Nat : q = subscribers[s] /\ t = ids[s]
    BY <1>2, <1>5, <1>6
  <2>2. push_back(q, msg, t) \in Seq(Messages)
    BY PushFacts
  <2>3. QED BY <1>4, <1>6, <2>1, <2>2, PubSubAssumption
<1>7. ASSUME NEW s \in Ids
      PROVE  /\ delivered'[s] \in Seq(Messages)
             /\ \A i \in 1..Len(delivered'[s]) :
                   \/ i \in 1..Len(delivered[s]) /\ delivered'[s][i] = delivered[s][i]
                   \/ ids[s] > 0 /\ delivered'[s][i] = msg
  <2>1. PICK d \in Seq(Messages), t \in Nat : d = delivered[s] /\ t = ids[s]
    BY <1>2, <1>5
  <2>2. delivered'[s] = d \o Copies(msg, t)
    BY <1>4, <2>1
  <2>3. /\ delivered'[s] \in Seq(Messages) /\ Len(delivered'[s]) = Len(d) + t /\ Len(d) \in Nat
        /\ \A i \in 1..Len(d) : delivered'[s][i] = d[i]
        /\ \A i \in (Len(d) + 1)..(Len(d) + t) : delivered'[s][i] = msg
    <3> DEFINE all == d \o Copies(msg, t)
    <3>2. /\ all \in Seq(Messages) /\ Len(all) = Len(d) + t /\ Len(d) \in Nat
          /\ \A i \in 1..Len(d) : all[i] = d[i]
          /\ \A i \in (Len(d) + 1)..(Len(d) + t) : all[i] = msg
      BY AddedFacts
    <3> HIDE DEF all
    <3>3. delivered'[s] = all
      BY <2>2 DEF all
    <3>4. QED BY <3>2, <3>3
  <2>4. \A i \in 1..(Len(d) + t) : i \in 1..Len(d) \/ (i \in (Len(d) + 1)..(Len(d) + t) /\ t > 0)
    BY <2>3
  <2>5. QED BY <2>1, <2>3, <2>4
<1>8. TypeOK'
  <2>1. subscribers' \in [Ids -> Seq(Messages) \cup {None}]
    BY <1>1, <1>4, <1>6
  <2>2. delivered' \in [Ids -> Seq(Messages)]
    BY <1>1, <1>7
  <2>3. publishing' \in [Publishers -> [msg : Messages, ids : Lists] \cup {None}]
    BY <1>1 DEF TypeOK
  <2>4. QED BY <1>1, <2>1, <2>2, <2>3 DEF TypeOK
<1>9. publishing'[p] = None /\ \A q \in Publishers : q # p => publishing'[q] = publishing[q]
  BY <1>1 DEF TypeOK
<1>10. Known'
  <2>1. ASSUME NEW s \in Ids, subscribers'[s] = None
        PROVE  subscribers[s] = None /\ delivered'[s] = << >>
    BY <2>1, <1>4, <1>6
  <2>2. QED BY <2>1, <1>1, <1>9 DEF Known
<1>11. OnTheWay'
  BY <1>1, <1>9 DEF OnTheWay
<1>12. Counted'
  BY <1>1, <1>3, <1>7 DEF Counted
<1>13. Left'
  BY <1>1, <1>9 DEF Left
<1>14. NewestKept'
  <2>1. ASSUME NEW s \in Ids, subscribers'[s] # None
        PROVE  Newest(subscribers'[s], delivered'[s], polled'[s])
    <3>1. subscribers[s] # None
      BY <2>1, <1>4
    <3>2. Newest(subscribers[s], delivered[s], polled[s])
      BY <3>1, NewestDef
    <3>3. PICK q \in Seq(Messages), d \in Seq(Messages), l \in Seq(Messages), t \in Nat :
             q = subscribers[s] /\ d = delivered[s] /\ l = polled[s] /\ t = ids[s]
      BY <3>1, <1>2, <1>5
    <3>4. Newest(push_back(q, msg, t), d \o Copies(msg, t), l)
      BY <3>2, <3>3, NewestPushed
    <3>5. QED BY <3>1, <3>3, <3>4, <1>1, <1>4
  <2>2. ASSUME NEW s \in Ids, subscribers'[s] = None
        PROVE  delivered'[s] = << >>
    BY <2>2, <1>4, <1>6
  <2>3. QED BY <2>1, <2>2, NewestDefNext
<1>15. SilentAfterLeaving'
  <2>1. ASSUME NEW c \in Channels, NEW s \in Ids, off[c][s] # None,
               NEW i \in 1..Len(delivered'[s]), delivered'[s][i].channel = c
        PROVE  delivered'[s][i].n <= off[c][s]
    <3>1. CASE i \in 1..Len(delivered[s]) /\ delivered'[s][i] = delivered[s][i]
      BY <2>1, <3>1 DEF SilentAfterLeaving
    <3>2. CASE ids[s] > 0 /\ delivered'[s][i] = msg
      BY <2>1, <3>2, <1>1, <1>2 DEF Left
    <3>3. QED BY <1>7, <3>1, <3>2
  <2>2. QED BY <2>1, <1>1 DEF SilentAfterLeaving
<1>16. InOrder'
  <2>1. ASSUME NEW m, NotNewer(m)
        PROVE  NotNewer(m)'
    BY <2>1, <1>1, <1>9 DEF NotNewer
  <2>2. NotNewer(msg)'
    BY <1>1, <1>3, <1>9 DEF NotNewer
  <2>3. ASSUME NEW s \in Ids, subscribers[s] # None
        PROVE  /\ Ordered(Seen(s))'
               /\ \A i \in 1..Len(Seen(s)') : NotNewer(Seen(s)[i])'
    <3>1. PICK q \in Seq(Messages), l \in Seq(Messages), t \in Nat :
             q = subscribers[s] /\ l = polled[s] /\ t = ids[s]
      BY <2>3, <1>2, <1>5
    <3>2. Seen(s) = l \o q
      BY <2>3, <3>1 DEF Seen
    <3>3. PICK new : new = l \o push_back(q, msg, t) /\ Seen(s)' = new
      BY <2>3, <3>1, <1>1, <1>4, <1>6 DEF Seen
    <3>4. Ordered(l \o q) /\ \A i \in 1..Len(l \o q) : NotNewer((l \o q)[i])
      BY <3>2 DEF InOrder
    <3>5. \A i \in 1..Len(l \o q) : (l \o q)[i].by = msg.by => (l \o q)[i].n <= msg.n
      BY <3>4, <1>1, <1>2, <1>3 DEF NotNewer
    <3>6. /\ Ordered(new)
          /\ \A i \in 1..Len(new) : new[i] = msg \/ \E k \in 1..Len(l \o q) : new[i] = (l \o q)[k]
      <4> DEFINE v == l \o push_back(q, msg, t)
      <4>1. /\ Ordered(v)
            /\ \A i \in 1..Len(v) : v[i] = msg \/ \E k \in 1..Len(l \o q) : v[i] = (l \o q)[k]
        BY <3>4, <3>5, SeenPushed
      <4> HIDE DEF v
      <4>2. new = v
        BY <3>3 DEF v
      <4>3. QED BY <4>1, <4>2
    <3>7. \A i \in 1..Len(new) : NotNewer(new[i])'
      <4>1. TAKE i \in 1..Len(new)
      <4>2. CASE new[i] = msg
        BY <2>2, <4>2
      <4>3. CASE \E k \in 1..Len(l \o q) : new[i] = (l \o q)[k]
        <5>1. NotNewer(new[i])
          BY <3>4, <4>3
        <5>2. QED BY <2>1, <5>1
      <4>4. QED BY <3>6, <4>2, <4>3
    <3>8. QED BY <3>3, <3>6, <3>7
  <2>4. ASSUME NEW s \in Ids, subscribers[s] = None
        PROVE  Seen(s)' = << >>
    BY <2>4, <1>4 DEF Seen
  <2>5. Len(<< >>) = 0
    OBVIOUS
  <2>6. QED BY <2>3, <2>4, <2>5 DEF InOrder, Ordered
<1>17. QED BY <1>8, <1>10, <1>11, <1>12, <1>13, <1>14, <1>15, <1>16

LEMMA PollKeeps ==
    ASSUME Inv, NEW s \in Ids, NEW limit \in Limits, poll_messages(s, limit)
    PROVE  Inv'
<1> USE DEF Inv
<1>1. PICK q \in Seq(Messages) : q = subscribers[s] /\ q # None
  BY DEF poll_messages, TypeOK
<1>2. PICK n \in Nat : n = (IF limit < Len(q) THEN limit ELSE Len(q)) /\ n <= Len(q)
  BY PubSubAssumption
<1>3. PICK l \in Seq(Messages), d \in Seq(Messages) : l = polled[s] /\ d = delivered[s]
  BY DEF TypeOK
<1>4. PICK rest \in Seq(Messages), front \in Seq(Messages) :
         rest = SubSeq(q, n + 1, Len(q)) /\ front = SubSeq(q, 1, n)
  BY <1>2, DividedFacts
<1>5. /\ polled' = [polled EXCEPT ![s] = l \o front]
      /\ subscribers' = [subscribers EXCEPT ![s] = rest]
      /\ UNCHANGED <<channels, publishing, published, delivered, off>>
  BY <1>1, <1>2, <1>3, <1>4 DEF poll_messages
<1>6. l \o front \in Seq(Messages)
  OBVIOUS
<1>7. TypeOK'
  BY <1>5, <1>6 DEF TypeOK
<1>8. /\ subscribers'[s] = rest /\ polled'[s] = l \o front
      /\ \A t \in Ids : t # s => subscribers'[t] = subscribers[t] /\ polled'[t] = polled[t]
  BY <1>5 DEF TypeOK
<1>9. rest # None
  BY PubSubAssumption
<1>10. Known'
  BY <1>5, <1>8, <1>9 DEF Known
<1>11. OnTheWay' /\ Counted' /\ Left' /\ SilentAfterLeaving'
  BY <1>5 DEF OnTheWay, Counted, Left, SilentAfterLeaving
<1>12. NewestKept'
  <2>1. Newest(q, d, l)
    BY <1>1, <1>3, NewestDef
  <2>2. Newest(rest, d, l \o front)
    BY <2>1, <1>2, <1>4, NewestPolled
  <2>3. QED BY <2>2, <1>3, <1>5, <1>8, <1>9, NewestDef, NewestDefNext
<1>13. \A t \in Ids : Seen(t)' = Seen(t)
  <2>1. Seen(s)' = Seen(s)
    <3>1. (l \o front) \o rest = l \o q
      <4>1. n <= Len(q)
        BY <1>2
      <4>2. (l \o SubSeq(q, 1, n)) \o SubSeq(q, n + 1, Len(q)) = l \o q
        BY <4>1, SeenPolled
      <4>3. QED BY <1>4, <4>2
    <3>2. Seen(s) = l \o q
      BY <1>1, <1>3 DEF Seen
    <3>3. Seen(s)' = (l \o front) \o rest
      BY <1>8, <1>9 DEF Seen
    <3>4. QED BY <3>1, <3>2, <3>3
  <2>2. QED BY <2>1, <1>8 DEF Seen
<1>14. InOrder'
  BY <1>5, <1>13 DEF InOrder, NotNewer, Ordered
<1>15. QED BY <1>7, <1>10, <1>11, <1>12, <1>14

LEMMA StutterKeeps ==
    ASSUME Inv, UNCHANGED vars
    PROVE  Inv'
<1> USE DEF Inv, vars
<1>1. TypeOK' /\ Known' /\ OnTheWay' /\ Counted' /\ Left' /\ SilentAfterLeaving'
  BY DEF TypeOK, Known, OnTheWay, Counted, Left, SilentAfterLeaving
<1>2. NewestKept'
  BY NewestDef, NewestDefNext
<1>3. \A s \in Ids : Seen(s)' = Seen(s)
  BY DEF Seen
<1>4. InOrder'
  BY <1>3 DEF InOrder, NotNewer, Ordered
<1>5. QED BY <1>1, <1>2, <1>4

LEMMA Invariance == Spec => []Inv
<1>1. Inv /\ [Next]_vars => Inv'
  BY SubscribeKeeps, UnsubscribeKeeps, PublishReadKeeps, PublishDeliverKeeps, PollKeeps,
     CleanupKeeps, StutterKeeps DEF Next
<1>2. QED BY Start, <1>1, PTL DEF Spec

-----------------------------------------------------------------------------
(* The theorems *)

\* The queue that publish fills and poll_messages empties holds the newest
\* messages delivered to its subscriber and loses none before more than
\* max_messages_per_subscriber of them were delivered.
THEOREM NewestSound == Spec => []NewestKept
<1>1. Inv => NewestKept
  BY DEF Inv
<1>2. QED BY <1>1, Invariance, PTL

\* A subscriber sees the messages of one publisher in the order of their
\* publication, though publish reads the list and delivers in two steps.
THEOREM PublisherOrderSound == Spec => []PublisherOrderKept
<1>1. Inv => PublisherOrderKept
  BY DEF Inv, InOrder, Ordered, PublisherOrderKept
<1>2. QED BY <1>1, Invariance, PTL

\* After unsubscribe or cleanup_stale_subscribers has taken an id off a
\* channel, no message published there later reaches it, until it subscribes.
THEOREM SilenceSound == Spec => []SilentAfterLeaving
<1>1. Inv => SilentAfterLeaving
  BY DEF Inv
<1>2. QED BY <1>1, Invariance, PTL
=============================================================================
