----------------------------- MODULE FeedProofs -----------------------------
(* The broker implements the feed: every behaviour of module Broker is,     *)
(* under the mapping of BrokerProperties, a behaviour of TopicFeed, for any *)
(* sets of users, topics and contents and any bounds.                       *)
EXTENDS BrokerProofs

\* Between NextTopic and the loop the stored cursor is what the pass has
\* copied, unless handle_receiver has reset it meanwhile: then a pass that finds
\* nothing to send leaves the topic replayed.
CopyOrReset ==
  \A u \in Users :
    sender_pc[u] = "check" => readUpTo[u][topic[u]] \in {0, index[u]}

FeedInv == Typed /\ Cursors /\ CopyOrReset

\* The message to be fed next, as the refinement mapping gives it.
NextToFeed == [u \in Users |-> [t \in Keys |-> Reached(u, t) + 1]]

LEMMA FeedVars == Feed!feedVars = <<topics, NextToFeed, stream>>
BY DEF Feed!feedVars, NextToFeed

LEMMA ReachedTyped == Typed => \A u \in Users, t \in Keys : Reached(u, t) \in Nat
BY DEF Typed, TypeOK, Reached

\* A step that leaves the logs, the streams and Reached alone is a stutter.
LEMMA Stutters ==
  ASSUME UNCHANGED <<topics, stream>>,
         \A u \in Users, t \in Keys : Reached(u, t)' = Reached(u, t)
  PROVE  UNCHANGED Feed!feedVars
<1>1. NextToFeed' = NextToFeed
  BY DEF NextToFeed
<1>2. QED
  BY <1>1 DEF Feed!feedVars, NextToFeed

\* A step that moves Reached for one user and topic only.
LEMMA OneMoves ==
  ASSUME NEW u \in Users, NEW t \in Keys,
         \A v \in Users, k \in Keys :
           v # u \/ k # t => Reached(v, k)' = Reached(v, k)
  PROVE  NextToFeed' = [NextToFeed EXCEPT ![u][t] = Reached(u, t)' + 1]
BY DEF NextToFeed

LEMMA CopyInit == Init => CopyOrReset
BY DEF Init, CopyOrReset

\* CopyOrReset is kept: nobody but the pass itself moves a stored cursor other
\* than to 0.
LEMMA CopyStep == Typed /\ CopyOrReset /\ [Next]_vars => CopyOrReset'
<1> SUFFICES ASSUME Typed, CopyOrReset, [Next]_vars PROVE CopyOrReset'
  OBVIOUS
<1> DEFINE PCs == {"start", "lock", "waiting", "woken"} \cup InPass
<1>0. /\ sender_pc \in [Users -> PCs]
      /\ readUpTo \in [Users -> [Keys -> Nat]]
      /\ index \in [Users -> Nat]
      /\ topic \in [Users -> Keys \cup {-1}]
      /\ request \in [Users -> Keys]
      /\ entries \in [Users -> SUBSET Keys]
  BY DEF Typed, TypeOK
<1>t. \A u \in Users : sender_pc[u] = "check" => topic[u] \in Keys
  BY <1>0 DEF Typed, TopicIsEntry, OnTopic
<1>k. ASSUME UNCHANGED <<readUpTo, topic, index>>,
             \A v \in Users : sender_pc'[v] = "check" => sender_pc[v] = "check"
      PROVE  CopyOrReset'
  BY <1>k DEF CopyOrReset
<1>1. ASSUME NEW m \in Posts, Post(m) PROVE CopyOrReset'
  BY <1>k, <1>1 DEF Post, informationVars, passVars
<1>2. ASSUME NEW u \in Users, NEW t \in Topics, SendRequest(u, t) PROVE CopyOrReset'
  BY <1>k, <1>2 DEF SendRequest, informationVars, passVars
<1>3. ASSUME NEW u \in Users, TakeMessage(u) PROVE CopyOrReset'
  BY <1>k, <1>3 DEF TakeMessage, informationVars, passVars
<1>4. ASSUME NEW u \in Users, Leave(u) PROVE CopyOrReset'
  BY <1>k, <1>4 DEF Leave, informationVars, passVars
<1>5. ASSUME NEW u \in Users, SpuriousWakeup(u) PROVE CopyOrReset'
  BY <1>0, <1>k, <1>5 DEF SpuriousWakeup, informationVars, passVars
<1>6. ASSUME Accept PROVE CopyOrReset'
  BY <1>k, <1>6 DEF Accept, Received, informationVars, passVars
<1>7. ASSUME RegisterMessage PROVE CopyOrReset'
  BY <1>k, <1>7 DEF RegisterMessage, push_back, informationVars, passVars
<1>8. ASSUME DistributeMessage PROVE CopyOrReset'
  <2>1. \A v \in Users : sender_pc'[v] # sender_pc[v] => sender_pc'[v] = "woken"
    BY <1>8, BroadcastMoves DEF DistributeMessage
  <2>2. QED
    BY <1>k, <1>8, <2>1 DEF DistributeMessage, informationVars, passVars
<1>9. ASSUME NEW u \in Users, Receive(u) PROVE CopyOrReset'
  BY <1>k, <1>9 DEF Receive, informationVars, passVars
<1>10. ASSUME NEW u \in Users, Subscribe(u) PROVE CopyOrReset'
  BY <1>0, <1>t, <1>10 DEF Subscribe, passVars, CopyOrReset
<1>11. ASSUME NEW u \in Users, Unsubscribe(u) PROVE CopyOrReset'
  BY <1>k, <1>11 DEF Unsubscribe, passVars
<1>12. ASSUME NEW u \in Users, Resubscribe(u) PROVE CopyOrReset'
  BY <1>k, <1>12 DEF Resubscribe, passVars
<1>13. ASSUME NEW u \in Users, Rewind(u) PROVE CopyOrReset'
  BY <1>0, <1>t, <1>13 DEF Rewind, passVars, CopyOrReset
<1>14. ASSUME NEW u \in Users, Signal(u) PROVE CopyOrReset'
  <2>1. \A v \in Users : sender_pc'[v] # sender_pc[v] => sender_pc'[v] = "woken"
    BY <1>14, BroadcastMoves DEF Signal
  <2>2. QED
    BY <1>k, <1>14, <2>1 DEF Signal, informationVars, passVars
<1>15. ASSUME NEW u \in Users, ConnectSender(u) PROVE CopyOrReset'
  BY <1>0, <1>k, <1>15 DEF ConnectSender, informationVars, passVars
<1>16. ASSUME NEW u \in Users, Sleep(u) PROVE CopyOrReset'
  BY <1>0, <1>k, <1>16 DEF Sleep, informationVars, passVars
<1>17. ASSUME NEW u \in Users, BeginPass(u) PROVE CopyOrReset'
  BY <1>0, <1>17 DEF BeginPass, informationVars, CopyOrReset
<1>18. ASSUME NEW u \in Users, NextTopic(u) PROVE CopyOrReset'
  <2>1. PICK t \in entries[u] :
          /\ topic' = [topic EXCEPT ![u] = t]
          /\ \/ /\ index' = [index EXCEPT ![u] = readUpTo[u][t]]
                /\ sender_pc' = [sender_pc EXCEPT ![u] = "check"]
             \/ UNCHANGED <<index, sender_pc>>
    BY <1>18, TopicPicked
  <2>2. UNCHANGED readUpTo /\ sender_pc[u] = "scan"
    BY <1>18 DEF NextTopic, informationVars
  <2>3. QED
    BY <1>0, <2>1, <2>2 DEF CopyOrReset
<1>19. ASSUME NEW u \in Users, CheckTopic(u) PROVE CopyOrReset'
  BY <1>0, <1>k, <1>19 DEF CheckTopic, HasUnsent, informationVars, passVars
<1>20. ASSUME NEW u \in Users, SendNext(u) PROVE CopyOrReset'
  BY <1>0, <1>20 DEF SendNext, HasUnsent, informationVars, CopyOrReset
<1>21. ASSUME NEW u \in Users, LeaveLoop(u) PROVE CopyOrReset'
  BY <1>0, <1>k, <1>21 DEF LeaveLoop, HasUnsent, informationVars, passVars
<1>22. ASSUME NEW u \in Users, CommitCursor(u) PROVE CopyOrReset'
  BY <1>0, <1>22 DEF CommitCursor, NewCursor, passVars, CopyOrReset
<1>23. ASSUME NEW u \in Users, EndPass(u) PROVE CopyOrReset'
  BY <1>0, <1>k, <1>23 DEF EndPass, Unlock, informationVars, passVars
<1>24. ASSUME NEW u \in Users, Die(u) PROVE CopyOrReset'
  BY <1>k, <1>24 DEF Die, informationVars, passVars
<1>25. ASSUME UNCHANGED vars PROVE CopyOrReset'
  BY <1>k, <1>25 DEF vars, informationVars, passVars
<1>26. QED
  BY <1>1, <1>2, <1>3, <1>4, <1>5, <1>6, <1>7, <1>8, <1>9, <1>10, <1>11, <1>12,
     <1>13, <1>14, <1>15, <1>16, <1>17, <1>18, <1>19, <1>20, <1>21, <1>22, <1>23,
     <1>24, <1>25
  DEF Next, Environment, PublisherThread, ReceiverThread, AcquireLock, Pass

-----------------------------------------------------------------------------
(* The steps                                                               *)

LEMMA FeedInit == Init => Feed!Init
<1> SUFFICES ASSUME Init PROVE Feed!Init
  OBVIOUS
<1>1. \A u \in Users, t \in Keys : Reached(u, t) = 0
  BY DEF Init, Reached, OnTopicOf, OnTopic
<1>2. [u \in Users |-> [t \in Keys |-> Reached(u, t) + 1]]
        = [u \in Users |-> [t \in Keys |-> 1]]
  BY <1>1
<1>3. QED
  BY <1>2 DEF Init, Feed!Init

LEMMA FeedStep == FeedInv /\ [Next]_vars => [Feed!Next]_(Feed!feedVars)
<1> SUFFICES ASSUME FeedInv, [Next]_vars
             PROVE  Feed!Next \/ UNCHANGED Feed!feedVars
  BY DEF FeedInv
<1> DEFINE PCs == {"start", "lock", "waiting", "woken"} \cup InPass
<1> DEFINE Same == \A v \in Users, k \in Keys : Reached(v, k)' = Reached(v, k)
<1> DEFINE SameBut(u, t) ==
      \A v \in Users, k \in Keys : v # u \/ k # t => Reached(v, k)' = Reached(v, k)
<1> DEFINE Goal == Feed!Next \/ UNCHANGED Feed!feedVars
<1>0. /\ Typed
      /\ sender_pc \in [Users -> PCs]
      /\ topics \in [Keys -> Seq(Contents)]
      /\ readUpTo \in [Users -> [Keys -> Nat]]
      /\ index \in [Users -> Nat]
      /\ topic \in [Users -> Keys \cup {-1}]
      /\ request \in [Users -> Keys]
      /\ entries \in [Users -> SUBSET Keys]
      /\ stream \in [Users -> Seq(Messages)]
  BY DEF FeedInv, Typed, TypeOK
<1>e. \A u \in Users : sender_pc[u] \in OnTopic => topic[u] \in entries[u]
  BY DEF FeedInv, Typed, TopicIsEntry
<1>n. \A v \in Users, k \in Keys : NextToFeed[v][k] = Reached(v, k) + 1
  BY DEF NextToFeed
<1>r. \A v \in Users, k \in Keys : Reached(v, k) \in Nat
  BY <1>0, ReachedTyped
\* Where no sender thread comes to or leaves a topic, Reached stays.
<1>s. ASSUME UNCHANGED <<topics, stream, readUpTo, index>>,
             \A v \in Users :
               \/ sender_pc'[v] = sender_pc[v] /\ topic'[v] = topic[v]
               \/ sender_pc[v] \notin OnTopic /\ sender_pc'[v] \notin OnTopic
      PROVE  Goal
  <2>1. Same
    BY <1>s DEF Reached, OnTopicOf
  <2>2. QED
    BY <1>s, <2>1, Stutters
<1>1. ASSUME NEW m \in Posts, Post(m) PROVE Goal
  BY <1>s, <1>1 DEF Post, informationVars, passVars, streamVars
<1>2. ASSUME NEW u \in Users, NEW t \in Topics, SendRequest(u, t) PROVE Goal
  BY <1>s, <1>2 DEF SendRequest, publisherVars, informationVars, passVars, streamVars
<1>3. ASSUME NEW u \in Users, TakeMessage(u) PROVE Goal
  BY <1>s, <1>3 DEF TakeMessage, publisherVars, informationVars, passVars
<1>4. ASSUME NEW u \in Users, Leave(u) PROVE Goal
  BY <1>s, <1>4 DEF Leave, publisherVars, informationVars, passVars, streamVars
<1>5. ASSUME NEW u \in Users, SpuriousWakeup(u) PROVE Goal
  BY <1>0, <1>s, <1>5
  DEF SpuriousWakeup, publisherVars, informationVars, passVars, streamVars, OnTopic
<1>6. ASSUME Accept PROVE Goal
  BY <1>s, <1>6 DEF Accept, Received, informationVars, passVars, streamVars
<1>7. ASSUME RegisterMessage PROVE Goal
  <2>1. message.topic \in Keys /\ message.content \in Contents
    BY <1>7 DEF RegisterMessage, FeedInv, Typed, Handled, Keys
  <2>2. topics' = [topics EXCEPT ![message.topic] = Append(@, message.content)]
    BY <1>7 DEF RegisterMessage, push_back
  <2>3. UNCHANGED <<readUpTo, index, topic, sender_pc, stream>>
    BY <1>7 DEF RegisterMessage, informationVars, passVars, streamVars
  <2>4. NextToFeed' = NextToFeed
    BY <2>3 DEF NextToFeed, Reached, OnTopicOf
  <2>5. Feed!Publish(message.topic, message.content)
    BY <2>2, <2>3, <2>4 DEF Feed!Publish, NextToFeed
  <2>6. QED
    BY <2>1, <2>5 DEF Feed!Next
<1>8. ASSUME DistributeMessage PROVE Goal
  <2>1. \A v \in Users : sender_pc'[v] # sender_pc[v] =>
          sender_pc[v] = "waiting" /\ sender_pc'[v] = "woken"
    BY <1>0, <1>8 DEF DistributeMessage, Broadcast
  <2>2. QED
    BY <1>s, <1>8, <2>1
    DEF DistributeMessage, informationVars, passVars, streamVars, OnTopic
<1>9. ASSUME NEW u \in Users, Receive(u) PROVE Goal
  BY <1>s, <1>9 DEF Receive, publisherVars, informationVars, passVars, streamVars
<1>10. ASSUME NEW u \in Users, Subscribe(u) PROVE Goal
  <2>r. PICK r \in Keys : r = request[u]
    BY <1>0
  <2>1. /\ r \notin entries[u]
        /\ readUpTo' = [readUpTo EXCEPT ![u][r] = 0]
        /\ UNCHANGED <<topics, stream, index, topic, sender_pc>>
    BY <1>10, <2>r DEF Subscribe, publisherVars, passVars, streamVars
  <2>2. ~OnTopicOf(u, r)
    BY <1>e, <2>1 DEF OnTopicOf
  <2>3. Reached(u, r)' = 0 /\ SameBut(u, r)
    BY <1>0, <2>1, <2>2 DEF Reached, OnTopicOf
  <2>4. Feed!Replay(u, r)
    BY <2>1, <2>3, OneMoves DEF Feed!Replay, NextToFeed
  <2>5. QED
    BY <2>4 DEF Feed!Next
<1>11. ASSUME NEW u \in Users, Unsubscribe(u) PROVE Goal
  BY <1>s, <1>11 DEF Unsubscribe, publisherVars, passVars, streamVars
<1>12. ASSUME NEW u \in Users, Resubscribe(u) PROVE Goal
  BY <1>s, <1>12 DEF Resubscribe, publisherVars, passVars, streamVars
\* A rewind that comes while the pass is on the topic replays nothing yet.
<1>13. ASSUME NEW u \in Users, Rewind(u) PROVE Goal
  <2>r. PICK r \in Keys : r = request[u]
    BY <1>0
  <2>1. /\ readUpTo' = [readUpTo EXCEPT ![u][r] = 0]
        /\ UNCHANGED <<topics, stream, index, topic, sender_pc>>
    BY <1>13, <2>r DEF Rewind, publisherVars, passVars, streamVars
  <2>2. SameBut(u, r)
    BY <1>0, <2>1 DEF Reached, OnTopicOf
  <2>3. CASE OnTopicOf(u, r)
    <3>1. Reached(u, r)' = Reached(u, r)
      BY <2>1, <2>3 DEF Reached, OnTopicOf
    <3>2. QED
      BY <2>1, <2>2, <3>1, Stutters
  <2>4. CASE ~OnTopicOf(u, r)
    <3>1. Reached(u, r)' = 0
      BY <1>0, <2>1, <2>4 DEF Reached, OnTopicOf
    <3>2. Feed!Replay(u, r)
      BY <2>1, <2>2, <3>1, OneMoves DEF Feed!Replay, NextToFeed
    <3>3. QED
      BY <3>2 DEF Feed!Next
  <2>5. QED
    BY <2>3, <2>4
<1>14. ASSUME NEW u \in Users, Signal(u) PROVE Goal
  <2>1. \A v \in Users : sender_pc'[v] # sender_pc[v] =>
          sender_pc[v] = "waiting" /\ sender_pc'[v] = "woken"
    BY <1>0, <1>14 DEF Signal, Broadcast
  <2>2. QED
    BY <1>s, <1>14, <2>1
    DEF Signal, publisherVars, informationVars, passVars, streamVars, OnTopic
<1>15. ASSUME NEW u \in Users, ConnectSender(u) PROVE Goal
  BY <1>0, <1>s, <1>15
  DEF ConnectSender, publisherVars, informationVars, passVars, streamVars, OnTopic
<1>16. ASSUME NEW u \in Users, Sleep(u) PROVE Goal
  BY <1>0, <1>s, <1>16
  DEF Sleep, publisherVars, informationVars, passVars, streamVars, OnTopic
<1>17. ASSUME NEW u \in Users, BeginPass(u) PROVE Goal
  BY <1>0, <1>s, <1>17
  DEF BeginPass, publisherVars, informationVars, streamVars, OnTopic
\* The pass takes over the cursor it finds.
<1>18. ASSUME NEW u \in Users, NextTopic(u) PROVE Goal
  <2>1. PICK t \in entries[u] :
          /\ topic' = [topic EXCEPT ![u] = t]
          /\ \/ /\ index' = [index EXCEPT ![u] = readUpTo[u][t]]
                /\ sender_pc' = [sender_pc EXCEPT ![u] = "check"]
             \/ UNCHANGED <<index, sender_pc>>
    BY <1>18, TopicPicked
  <2>2. UNCHANGED <<topics, stream, readUpTo>> /\ sender_pc[u] = "scan"
    BY <1>18 DEF NextTopic, publisherVars, informationVars, streamVars
  <2>3. Same
    BY <1>0, <2>1, <2>2 DEF Reached, OnTopicOf, OnTopic
  <2>4. QED
    BY <2>2, <2>3, Stutters
\* Nothing to send: the topic is left at the copied cursor, or replayed.
<1>19. ASSUME NEW u \in Users, CheckTopic(u) PROVE Goal
  <2>t. PICK t \in Keys : t = topic[u] /\ sender_pc[u] = "check"
    BY <1>0, <1>e, <1>19 DEF CheckTopic, OnTopic
  <2>1. /\ sender_pc' = [sender_pc EXCEPT ![u] = IF HasUnsent(u) THEN "send" ELSE "scan"]
        /\ UNCHANGED <<topics, stream, readUpTo, index, topic>>
    BY <1>19 DEF CheckTopic, publisherVars, informationVars, passVars, streamVars
  <2>2. SameBut(u, t)
    BY <1>0, <2>t, <2>1 DEF Reached, OnTopicOf
  <2>3. Reached(u, t) = index[u] /\ Reached(u, t)' \in {0, index[u]}
    BY <1>0, <2>t, <2>1 DEF Reached, OnTopicOf, OnTopic, FeedInv, CopyOrReset
  <2>4. CASE Reached(u, t)' = Reached(u, t)
    BY <2>1, <2>2, <2>4, Stutters
  <2>5. CASE Reached(u, t)' = 0
    <3>1. Feed!Replay(u, t)
      BY <2>1, <2>2, <2>5, OneMoves DEF Feed!Replay, NextToFeed
    <3>2. QED
      BY <3>1 DEF Feed!Next
  <2>6. QED
    BY <2>3, <2>4, <2>5
<1>20. ASSUME NEW u \in Users, SendNext(u) PROVE Goal
  <2>t. PICK t \in Keys : t = topic[u] /\ sender_pc[u] = "send"
    BY <1>0, <1>e, <1>20 DEF SendNext, OnTopic
  <2>1. /\ index[u] < Len(topics[t])
        /\ index' = [index EXCEPT ![u] = @ + 1]
        /\ UNCHANGED <<topics, readUpTo, topic, sender_pc>>
    BY <1>20, <2>t DEF SendNext, HasUnsent, publisherVars, informationVars
  <2>2. Reached(u, t) = index[u] /\ Reached(u, t)' = index[u] + 1 /\ SameBut(u, t)
    BY <1>0, <2>t, <2>1 DEF Reached, OnTopicOf, OnTopic
  <2>3. \E c \in {topics[t][index[u] + 1], Garbage} :
          stream' = [stream EXCEPT ![u] = Append(@,
            [topic |-> t, index |-> index[u] + 1, content |-> c])]
    <3>1. PICK c \in CopiedContents(u) :
            stream' = [stream EXCEPT ![u] = Append(@,
              [topic |-> t, index |-> index[u] + 1, content |-> c])]
      BY <1>20, <2>t DEF SendNext
    <3>2. c \in {topics[t][index[u] + 1], Garbage}
      BY <2>t DEF CopiedContents
    <3>3. QED
      BY <3>1, <3>2
  <2>4. NextToFeed[u][t] = index[u] + 1
    BY <1>n, <2>2
  <2>5. NextToFeed' = [NextToFeed EXCEPT ![u][t] = @ + 1]
    BY <1>0, <2>2, <2>4, OneMoves
  <2>6. NextToFeed[u][t] <= Len(topics[t])
    BY <1>0, <2>1, <2>4
  <2>7. Feed!Deliver(u, t)
    BY <2>1, <2>3, <2>4, <2>5, <2>6 DEF Feed!Deliver, NextToFeed
  <2>8. QED
    BY <2>7 DEF Feed!Next
<1>21. ASSUME NEW u \in Users, LeaveLoop(u) PROVE Goal
  <2>1. /\ sender_pc[u] = "send" /\ sender_pc' = [sender_pc EXCEPT ![u] = "commit"]
        /\ UNCHANGED <<topics, stream, readUpTo, index, topic>>
    BY <1>21 DEF LeaveLoop, publisherVars, informationVars, passVars, streamVars
  <2>2. Same
    BY <1>0, <2>1 DEF Reached, OnTopicOf, OnTopic
  <2>3. QED
    BY <2>1, <2>2, Stutters
\* What was registered since the loop has ended is passed over.
<1>22. ASSUME NEW u \in Users, CommitCursor(u) PROVE Goal
  <2>t. PICK t \in Keys : t = topic[u] /\ sender_pc[u] = "commit"
    BY <1>0, <1>e, <1>22 DEF CommitCursor, OnTopic
  <2>1. /\ sender_pc' = [sender_pc EXCEPT ![u] = "scan"]
        /\ readUpTo' = [readUpTo EXCEPT ![u][t] = Len(topics[t])]
        /\ UNCHANGED <<topics, stream, index, topic>>
    BY <1>22, <2>t DEF CommitCursor, NewCursor, publisherVars, passVars, streamVars
  <2>2. /\ Reached(u, t) = index[u]
        /\ Reached(u, t)' = Len(topics[t])
        /\ SameBut(u, t)
    BY <1>0, <2>t, <2>1, SMTT(30) DEF Reached, OnTopicOf, OnTopic
  <2>3. index[u] <= Len(topics[t])
    BY <2>t DEF FeedInv, Cursors, CursorsInLog, OnTopic
  <2>4. CASE index[u] = Len(topics[t])
    BY <2>1, <2>2, <2>4, Stutters
  <2>5. CASE index[u] < Len(topics[t])
    <3>1. NextToFeed[u][t] <= Len(topics[t])
      BY <1>0, <1>n, <2>2, <2>5
    <3>2. NextToFeed' = [NextToFeed EXCEPT ![u][t] = Len(topics[t]) + 1]
      BY <2>2, OneMoves
    <3>3. Feed!Skip(u, t)
      BY <2>1, <3>1, <3>2 DEF Feed!Skip, NextToFeed
    <3>4. QED
      BY <3>3 DEF Feed!Next
  <2>6. QED
    BY <1>0, <2>3, <2>4, <2>5
<1>23. ASSUME NEW u \in Users, EndPass(u) PROVE Goal
  BY <1>0, <1>s, <1>23
  DEF EndPass, publisherVars, informationVars, streamVars, OnTopic
<1>24. ASSUME NEW u \in Users, Die(u) PROVE Goal
  BY <1>s, <1>24 DEF Die, publisherVars, informationVars, passVars, streamVars
<1>25. ASSUME UNCHANGED vars PROVE Goal
  BY <1>s, <1>25 DEF vars, publisherVars, informationVars, passVars, streamVars
<1>26. QED
  BY <1>1, <1>2, <1>3, <1>4, <1>5, <1>6, <1>7, <1>8, <1>9, <1>10, <1>11, <1>12,
     <1>13, <1>14, <1>15, <1>16, <1>17, <1>18, <1>19, <1>20, <1>21, <1>22, <1>23,
     <1>24, <1>25
  DEF Next, Environment, PublisherThread, ReceiverThread, AcquireLock, Pass

LEMMA FeedInvInit == Init => FeedInv
BY TypedInit, CursorsInit, CopyInit DEF FeedInv

LEMMA FeedInvStep == FeedInv /\ [Next]_vars => FeedInv'
BY TypedStep, CursorsStep, CopyStep DEF FeedInv

\* The broker implements the feed, for every set of users, topics and contents
\* and every bound: logs only grow, a subscriber is sent a topic's messages in
\* order from a cursor that moves by sending, to the end, or back to the start.
THEOREM BrokerImplementsFeed == Spec => ImplementsFeed
<1>1. Spec => []FeedInv
  BY FeedInvInit, FeedInvStep, PTL DEF Spec
<1>2. QED
  BY <1>1, FeedInit, FeedStep, PTL DEF Spec, ImplementsFeed, Feed!Spec
=============================================================================
