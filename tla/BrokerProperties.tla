-------------------------- MODULE BrokerProperties --------------------------
(* What the broker of module Broker guarantees, and what its comments and  *)
(* the README promise of it that the code does not keep.                   *)
EXTENDS Broker

OnTopicOf(u, t) == sender_pc[u] \in OnTopic /\ topic[u] = t

\* The messages of topic t that user u may have been sent since the last
\* replay: the loop variable while the sender thread works on t, else the
\* stored cursor.
Reached(u, t) == IF OnTopicOf(u, t) THEN index[u] ELSE readUpTo[u][t]

SentSinceReplay(u, t) ==
  {p \in 1..Len(stream[u]) : p > replayedAt[u][t] /\ stream[u][p].topic = t}

-----------------------------------------------------------------------------
(* Safety                                                                  *)

\* At most one sender thread goes over user_informations and topics at a
\* time, and it is the one that holds mutex_sender: no wakeup, spurious or
\* not, lets a second one in before the unlock that ends the pass.
OnePassAtATime ==
  \A u \in Users : sender_pc[u] \in InPass <=> mutex_sender = u

\* Between two replays a subscriber gets the messages of a topic in the order
\* in which they were registered, and none of them twice, although the
\* receiver thread changes the cursor without a lock while the sender thread
\* works from its own copy of it and overwrites it afterwards.
InOrderAndOnce ==
  \A u \in Users : \A t \in Keys :
    \A p, q \in SentSinceReplay(u, t) :
      p < q => stream[u][p].index < stream[u][q].index

\* The broker implements the feed: its topics are the logs, the connections
\* to the subscribers the feeds, and the next message that can be fed is the
\* one after Reached.  So whatever the threads do between, while the two maps
\* stay whole no unlocked toggle, no reset in the middle of a pass and no cursor
\* stored late removes or reorders what was registered, and a cursor only moves
\* on by what is sent, to the end, or back to 0.
Feed == INSTANCE TopicFeed WITH
          Topics <- Keys,
          Spoilt <- Garbage,
          log <- topics,
          next <- [u \in Users |-> [t \in Keys |-> Reached(u, t) + 1]],
          feed <- stream

ImplementsFeed == Feed!Spec

-----------------------------------------------------------------------------
(* Liveness                                                                *)

\* handle_publisher locks only mutex_message, which no sender thread takes:
\* every publisher that sends or hangs up is served even if no subscriber ever
\* reads and a sender thread is stuck in send() with mutex_sender held, unless
\* the broker dies.
PublishersAreServed == backlog # <<>> ~> backlog = <<>> \/ ~up

\* While the subscribers read, every pass ends and mutex_sender, which
\* handle_subscriber needs for the next subscriber, becomes free again, unless
\* the broker dies of a send() to a subscriber that has gone.
SenderLockIsReleased ==
  SubscribersRead => []<>(mutex_sender = NoThread) \/ <>(~up)

\* A wakeup that was lost delays delivery until the next pass: while the
\* subscribers read, a sender thread that keeps making passes brings the cursor
\* of every topic its user stays subscribed to to the end of the log for good.
PassesCatchUp ==
  SubscribersRead => \A u \in Users, t \in Topics :
      []<>(sender_pc[u] = "scan") /\ <>[](subscribed[u][t])
        => <>[](readUpTo[u][t] = Len(topics[t]))

-----------------------------------------------------------------------------
(* Promises of the README and of the comments that the code does not keep  *)

Delivered(u, t, n) == \E p \in SentSinceReplay(u, t) : stream[u][p].index = n

\* README.md:19, item 4: a message registered later for a topic the
\* subscriber is subscribed to is sent as well.
LaterMessagesArrive ==
  \A u \in Users, t \in Topics, n \in 1..MaxPosts :
    subscribed[u][t] /\ Len(topics[t]) >= n
      ~> ~subscribed[u][t] \/ Delivered(u, t, n)

\* broker.cpp:376: a pass sends the data the user does not have yet, so a
\* message below the cursor has been sent.
CursorCoversOnlySent ==
  \A u \in Users, t \in Topics :
    \A n \in 1..readUpTo[u][t] : Delivered(u, t, n)
=============================================================================
