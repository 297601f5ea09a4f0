------------------------------- MODULE PubSub -------------------------------
(***************************************************************************)
(* Publish/subscribe (src/pubsub.rs): the subscriber list of each channel, *)
(* and the bounded queue of each subscriber.  publish reads the list under *)
(* one lock, lets go of it, and delivers under another: other publishers,  *)
(* subscriptions and polls come in between.  Every other operation holds   *)
(* the locks it needs throughout, and is one step.                         *)
(***************************************************************************)
EXTENDS Integers, Sequences, FiniteSets, SequencesExt

CONSTANTS
    Channels,
    Ids,            \* subscriber ids
    Publishers,     \* threads that publish, keyspace events included
    max_messages_per_subscriber,
    None,
    Limits,         \* the limits of polls
    MaxPublished,   \* bound on the messages published
    MaxListed       \* bound on the subscriptions of an id to a channel

\* A PubSubMessage, numbered and with its publisher.
Messages == [n : Nat, channel : Channels, by : Publishers]

\* The list of a channel, as how often each id is on it: the order of different
\* ids makes no difference, as publish delivers to all of them under one lock.
Lists == [Ids -> Nat]

ASSUME PubSubAssumption ==
    /\ max_messages_per_subscriber \in Nat \ {0}
    /\ Limits \subseteq Nat
    /\ MaxPublished \in Nat /\ MaxListed \in Nat
    /\ None \notin Nat /\ None \notin Seq(Messages)
    /\ None \notin [msg : Messages, ids : Lists]

VARIABLES
    channels,       \* per channel its list of subscribers, all 0 if it is not in the map
    subscribers,    \* per id its queue of messages, None before the first subscription
    publishing,     \* per publisher: the message and the list it has read, or None
    published,      \* the number of messages published so far
    delivered,      \* history, per id: everything ever pushed on its queue
    polled,         \* history, per id: everything poll_messages has returned
    off             \* history, per channel and id: None from a subscription on,
                    \* else how many messages were published when the id left

vars == <<channels, subscribers, publishing, published, delivered, polled, off>>

Init ==
    /\ channels = [c \in Channels |-> [s \in Ids |-> 0]]
    /\ subscribers = [s \in Ids |-> None]
    /\ publishing = [p \in Publishers |-> None]
    /\ published = 0
    /\ delivered = [s \in Ids |-> <<>>]
    /\ polled = [s \in Ids |-> <<>>]
    /\ off = [c \in Channels |-> [s \in Ids |-> 0]]

-----------------------------------------------------------------------------

\* The id goes on the list even if it is there already.
subscribe(c, s) ==
    /\ channels[c][s] < MaxListed
    /\ channels' = [channels EXCEPT ![c][s] = @ + 1]
    /\ subscribers' = [subscribers EXCEPT ![s] = IF @ = None THEN <<>> ELSE @]
    /\ off' = [off EXCEPT ![c][s] = None]
    /\ UNCHANGED <<publishing, published, delivered, polled>>

\* Faulty variant: one occurrence of the id is removed.
without_one(ids, s) == [ids EXCEPT ![s] = @ - 1]

\* retain(|id| id != subscriber_id)
without(ids, s) == [ids EXCEPT ![s] = 0]

\* The queue stays, and with it what has not been polled.
unsubscribe(c, s) ==
    /\ channels[c][s] > 0
    /\ channels' = [channels EXCEPT ![c] = without(@, s)]
    /\ off' = [off EXCEPT ![c][s] = published]
    /\ UNCHANGED <<subscribers, publishing, published, delivered, polled>>

\* The first half of publish: read the list.
PublishRead(p, c) ==
    /\ publishing[p] = None
    /\ published < MaxPublished
    /\ published' = published + 1
    /\ publishing' = [publishing EXCEPT ![p] =
          [msg |-> [n |-> published + 1, channel |-> c, by |-> p], ids |-> channels[c]]]
    /\ UNCHANGED <<channels, subscribers, delivered, polled, off>>

\* Faulty variant: a full queue drops the new message.
push_back_if_room(queue, msg, times) ==
    LET room == max_messages_per_subscriber - Len(queue)
    IN  queue \o [i \in 1..(IF times < room THEN times ELSE room) |-> msg]

\* Faulty variant: the message goes to the wrong end.
push_front(queue, msg, times) ==
    LET all == [i \in 1..times |-> msg] \o queue
        kept == IF Len(all) > max_messages_per_subscriber
                THEN max_messages_per_subscriber ELSE Len(all)
    IN  SubSeq(all, 1, kept)

\* push_back, after pop_front on a full queue, once per occurrence on the list.
push_back(queue, msg, times) ==
    LET all == queue \o [i \in 1..times |-> msg]
        kept == IF Len(all) > max_messages_per_subscriber
                THEN max_messages_per_subscriber ELSE Len(all)
    IN  SubSeq(all, Len(all) - kept + 1, Len(all))

\* The second half: deliver to the ids of the list read before.
PublishDeliver(p) ==
    LET msg == publishing[p].msg
        times(s) == publishing[p].ids[s]
    IN  /\ publishing[p] # None
        /\ subscribers' = [s \in Ids |-> IF subscribers[s] = None THEN None
                                         ELSE push_back(subscribers[s], msg, times(s))]
        /\ delivered' = [s \in Ids |-> delivered[s] \o [i \in 1..times(s) |-> msg]]
        /\ publishing' = [publishing EXCEPT ![p] = None]
        /\ UNCHANGED <<channels, published, polled, off>>

\* Up to limit messages from the front of the queue.
poll_messages(s, limit) ==
    /\ subscribers[s] # None
    /\ LET n == IF limit < Len(subscribers[s]) THEN limit ELSE Len(subscribers[s])
       IN  /\ polled' = [polled EXCEPT ![s] = @ \o SubSeq(subscribers[s], 1, n)]
           /\ subscribers' = [subscribers EXCEPT ![s] = SubSeq(@, n + 1, Len(@))]
    /\ UNCHANGED <<channels, publishing, published, delivered, off>>

\* Ids with nothing pending are taken off every list; their queues stay.
cleanup_stale_subscribers ==
    LET pending(s) == subscribers[s] # None /\ subscribers[s] # <<>>
    IN  /\ channels' = [c \in Channels |-> [s \in Ids |-> IF pending(s) THEN channels[c][s] ELSE 0]]
        /\ off' = [c \in Channels |-> [s \in Ids |->
                      IF channels[c][s] > 0 /\ ~pending(s) THEN published ELSE off[c][s]]]
        /\ UNCHANGED <<subscribers, publishing, published, delivered, polled>>

Next ==
    \/ \E c \in Channels, s \in Ids : subscribe(c, s) \/ unsubscribe(c, s)
    \/ \E p \in Publishers : PublishDeliver(p) \/ \E c \in Channels : PublishRead(p, c)
    \/ \E s \in Ids, limit \in Limits : poll_messages(s, limit)
    \/ cleanup_stale_subscribers

Spec == Init /\ [][Next]_vars

-----------------------------------------------------------------------------
(* Properties *)

\* The queue of a subscriber holds the newest of the messages delivered to it,
\* never more than the limit, and of the deliveries to it none is lost, or
\* handed out a second time, until there are more than the limit: no message is
\* delivered to an id without a queue, whatever happens between the two halves
\* of publish.  (An id that has subscribed twice has each message delivered
\* twice: these count as two deliveries, and each of them is kept or polled.)
NewestKept ==
    \A s \in Ids :
        /\ subscribers[s] = None => delivered[s] = <<>>
        /\ subscribers[s] # None =>
              LET lost == Len(delivered[s]) - Len(polled[s]) - Len(subscribers[s])
              IN  /\ Len(subscribers[s]) <= max_messages_per_subscriber
                  /\ IsSuffix(subscribers[s], delivered[s])
                  /\ lost >= 0
                  /\ lost > 0 => Len(delivered[s]) > max_messages_per_subscriber

\* What an id has polled, and what waits for it.
Seen(s) == IF subscribers[s] = None THEN <<>> ELSE polled[s] \o subscribers[s]

\* A subscriber sees the messages of one publisher in the order in which they
\* were published, on whatever channels, though other publishers deliver and
\* subscribers poll between its two halves, and though full queues drop some.
PublisherOrderKept ==
    \A s \in Ids : \A i, j \in 1..Len(Seen(s)) :
        i < j /\ Seen(s)[i].by = Seen(s)[j].by => Seen(s)[i].n <= Seen(s)[j].n

\* Once an id has left a channel, however many subscriptions it had there, no
\* message published there from then on reaches it (those whose publisher had
\* read the list before still may).
SilentAfterLeaving ==
    \A c \in Channels, s \in Ids : off[c][s] # None =>
        \A i \in 1..Len(delivered[s]) :
            delivered[s][i].channel = c => delivered[s][i].n <= off[c][s]
=============================================================================
