---------------------------- MODULE BrokerProofs ----------------------------
(* Proofs about the broker, for any sets of users, topics and contents and *)
(* any bounds.                                                             *)
EXTENDS BrokerProperties, TLAPS

\* What type correctness rests on: a message past recv() is not a hangup, and
\* a sender thread works on a key of its user's map.
Handled ==
  publisher_pc # "accept" => message \in [topic : Topics, content : Contents]

TopicIsEntry ==
  \A u \in Users : sender_pc[u] \in OnTopic => topic[u] \in entries[u]

Typed == TypeOK /\ Handled /\ TopicIsEntry

LEMMA TypedInit == Init => Typed
BY NoThreadAssumption, BoundsAssumption
DEF Init, Typed, TypeOK, Handled, TopicIsEntry, Keys, EmptyTopic, Posts, Hangup,
    Messages, InPass, OnTopic

\* The range-for stops at a key of the user's map; a key that is subscribed
\* to starts the inner loop at the stored cursor.
LEMMA TopicPicked ==
  ASSUME NEW u \in Users, NextTopic(u)
  PROVE  \E t \in entries[u] :
           /\ topic' = [topic EXCEPT ![u] = t]
           /\ \/ /\ index' = [index EXCEPT ![u] = readUpTo[u][t]]
                 /\ sender_pc' = [sender_pc EXCEPT ![u] = "check"]
              \/ UNCHANGED <<index, sender_pc>>
BY Zenon DEF NextTopic, Remaining

\* A send appends one message: the one after `index` of the current topic.
LEMMA SentMessage ==
  ASSUME Typed, NEW u \in Users, SendNext(u)
  PROVE  \E m \in Messages :
           /\ m.topic = topic[u]
           /\ m.index = index[u] + 1
           /\ stream' = [stream EXCEPT ![u] = Append(@, m)]
<1>1. /\ topics \in [Keys -> Seq(Contents)]
      /\ index \in [Users -> Nat]
      /\ entries \in [Users -> SUBSET Keys]
      /\ sender_pc[u] \in OnTopic => topic[u] \in entries[u]
  BY DEF Typed, TypeOK, TopicIsEntry
<1>2. topic[u] \in Keys
  BY <1>1 DEF SendNext, HasUnsent, OnTopic
<1>3. topics[topic[u]][index[u] + 1] \in Contents
  BY <1>1, <1>2 DEF SendNext, HasUnsent
<1>4. PICK c \in CopiedContents(u) :
        stream' = [stream EXCEPT ![u] = Append(@,
          [topic |-> topic[u], index |-> index[u] + 1, content |-> c])]
  BY DEF SendNext, HasUnsent
<1>5. c \in Contents \cup {Garbage}
  BY <1>3 DEF CopiedContents
<1>6. index[u] + 1 \in Nat
  BY <1>1
<1> DEFINE m == [topic |-> topic[u], index |-> index[u] + 1, content |-> c]
<1>7. m \in Messages
  BY <1>2, <1>5, <1>6 DEF Messages
<1>8. QED
  BY <1>4, <1>7

\* A broadcast moves waiting threads and nobody else.
LEMMA BroadcastMoves ==
  ASSUME Typed, Broadcast \/ UNCHANGED sender_pc
  PROVE  /\ sender_pc' \in [Users -> {"start", "lock", "waiting", "woken"} \cup InPass]
         /\ \A v \in Users : sender_pc'[v] # sender_pc[v] => sender_pc'[v] = "woken"
<1>1. sender_pc \in [Users -> {"start", "lock", "waiting", "woken"} \cup InPass]
  BY DEF Typed, TypeOK
<1>2. QED
  BY <1>1 DEF Broadcast

LEMMA TypedStep == Typed /\ [Next]_vars => Typed'
<1> SUFFICES ASSUME Typed, [Next]_vars PROVE Typed'
  OBVIOUS
<1> USE DEF Typed, TypeOK, Handled, TopicIsEntry, InPass, OnTopic
<1>1. ASSUME NEW m \in Posts, Post(m) PROVE Typed'
  <2>1. backlog' \in Seq(Posts)
    BY <1>1 DEF Post
  <2>2. posted' \in 0..MaxPosts
    BY <1>1, BoundsAssumption DEF Post
  <2>3. QED
    BY <1>1, <2>1, <2>2
    DEF Post, publisherVars, informationVars, receiverVars, passVars, streamVars
<1>2. ASSUME NEW u \in Users, NEW t \in Topics, SendRequest(u, t) PROVE Typed'
  <2>1. asked' \in [Users -> 0..MaxRequests]
    BY <1>2, BoundsAssumption DEF SendRequest
  <2>2. requests' \in [Users -> Seq(Topics)]
    BY <1>2 DEF SendRequest
  <2>3. QED
    BY <1>2, <2>1, <2>2
    DEF SendRequest, publisherVars, informationVars, receiverVars, passVars,
        streamVars
<1>3. ASSUME NEW u \in Users, TakeMessage(u) PROVE Typed'
  BY <1>3
  DEF TakeMessage, publisherVars, informationVars, receiverVars, passVars,
      streamVars
<1>4. ASSUME NEW u \in Users, Leave(u) PROVE Typed'
  BY <1>4
  DEF Leave, publisherVars, informationVars, receiverVars, passVars, streamVars
<1>5. ASSUME NEW u \in Users, SpuriousWakeup(u) PROVE Typed'
  BY <1>5
  DEF SpuriousWakeup, publisherVars, informationVars, receiverVars, passVars,
      streamVars
<1>6. ASSUME Accept PROVE Typed'
  <2>1. Head(backlog) \in Posts /\ Tail(backlog) \in Seq(Posts)
    BY <1>6 DEF Accept, Received
  <2>2. Head(backlog) # Hangup => Head(backlog) \in [topic : Topics, content : Contents]
    BY <2>1 DEF Posts
  <2>3. QED
    BY <1>6, <2>1, <2>2
    DEF Accept, Received, publisherVars, informationVars, receiverVars, passVars,
        streamVars
<1>7. ASSUME RegisterMessage PROVE Typed'
  <2>1. message \in [topic : Topics, content : Contents]
    BY <1>7 DEF RegisterMessage, push_back
  <2>2. topics' \in [Keys -> Seq(Contents)]
    BY <1>7, <2>1 DEF RegisterMessage, push_back, Keys
  <2>3. QED
    BY <1>7, <2>1, <2>2
    DEF RegisterMessage, push_back, publisherVars, informationVars, receiverVars,
        passVars, streamVars
<1>8. ASSUME DistributeMessage PROVE Typed'
  <2>0. Broadcast \/ UNCHANGED sender_pc
    BY <1>8 DEF DistributeMessage
  <2>1. sender_pc' \in [Users -> {"start", "lock", "waiting", "woken"} \cup InPass]
    BY <2>0, BroadcastMoves
  <2>2. \A v \in Users : sender_pc'[v] \in OnTopic => sender_pc[v] \in OnTopic
    <3>1. \A v \in Users : sender_pc'[v] # sender_pc[v] => sender_pc'[v] = "woken"
      BY <2>0, BroadcastMoves
    <3>2. QED
      BY ONLY <3>1 DEF OnTopic
  <2>3. QED
    BY <1>8, <2>1, <2>2
    DEF DistributeMessage, publisherVars, informationVars, receiverVars,
        passVars, streamVars
<1>9. ASSUME NEW u \in Users, Receive(u) PROVE Typed'
  <2>1. requests[u] \in Seq(Topics)
    OBVIOUS
  <2>2. requests[u] # <<>> =>
          Head(requests[u]) \in Topics /\ Tail(requests[u]) \in Seq(Topics)
    BY <2>1
  <2>3. requests' \in [Users -> Seq(Topics)]
    BY <1>9, <2>2, ZenonT(60) DEF Receive
  <2>4. request' \in [Users -> Keys]
    <3>1. PICK k \in Keys : request' = [request EXCEPT ![u] = k]
      BY <1>9, <2>2 DEF Receive, Keys
    <3>2. QED
      BY <3>1
  <2>5. QED
    BY <1>9, <2>3, <2>4
    DEF Receive, publisherVars, informationVars, receiverVars, passVars,
        streamVars
<1>10. ASSUME NEW u \in Users, Subscribe(u) PROVE Typed'
  BY <1>10
  DEF Subscribe, publisherVars, informationVars, receiverVars, passVars,
      streamVars
<1>11. ASSUME NEW u \in Users, Unsubscribe(u) PROVE Typed'
  BY <1>11
  DEF Unsubscribe, publisherVars, informationVars, receiverVars, passVars,
      streamVars
<1>12. ASSUME NEW u \in Users, Resubscribe(u) PROVE Typed'
  BY <1>12
  DEF Resubscribe, publisherVars, informationVars, receiverVars, passVars,
      streamVars
<1>13. ASSUME NEW u \in Users, Rewind(u) PROVE Typed'
  <2>1. request[u] \in Keys /\ Len(stream[u]) \in Nat
    OBVIOUS
  <2>2. readUpTo' \in [Users -> [Keys -> Nat]]
    BY <1>13, <2>1 DEF Rewind
  <2>3. replayedAt' \in [Users -> [Keys -> Nat]]
    BY <1>13, <2>1 DEF Rewind
  <2>4. QED
    BY <1>13, <2>2, <2>3
    DEF Rewind, publisherVars, informationVars, receiverVars, passVars, streamVars
<1>14. ASSUME NEW u \in Users, Signal(u) PROVE Typed'
  <2>0. Broadcast \/ UNCHANGED sender_pc
    BY <1>14 DEF Signal
  <2>1. sender_pc' \in [Users -> {"start", "lock", "waiting", "woken"} \cup InPass]
    BY <2>0, BroadcastMoves
  <2>2. \A v \in Users : sender_pc'[v] \in OnTopic => sender_pc[v] \in OnTopic
    <3>1. \A v \in Users : sender_pc'[v] # sender_pc[v] => sender_pc'[v] = "woken"
      BY <2>0, BroadcastMoves
    <3>2. QED
      BY ONLY <3>1 DEF OnTopic
  <2>3. QED
    BY <1>14, <2>1, <2>2
    DEF Signal, publisherVars, informationVars, receiverVars, passVars,
        streamVars
<1>15. ASSUME NEW u \in Users, ConnectSender(u) PROVE Typed'
  BY <1>15
  DEF ConnectSender, publisherVars, informationVars, receiverVars, passVars,
      streamVars
<1>16. ASSUME NEW u \in Users, Sleep(u) PROVE Typed'
  BY <1>16
  DEF Sleep, LockIsFree, publisherVars, informationVars, receiverVars, passVars,
      streamVars
<1>17. ASSUME NEW u \in Users, BeginPass(u) PROVE Typed'
  BY <1>17
  DEF BeginPass, LockIsFree, publisherVars, informationVars, receiverVars,
      passVars, streamVars
<1>18. ASSUME NEW u \in Users, NextTopic(u) PROVE Typed'
  <2>1. PICK t \in entries[u] :
          /\ topic' = [topic EXCEPT ![u] = t]
          /\ \/ /\ index' = [index EXCEPT ![u] = readUpTo[u][t]]
                /\ sender_pc' = [sender_pc EXCEPT ![u] = "check"]
             \/ UNCHANGED <<index, sender_pc>>
    BY <1>18, TopicPicked
  <2>2. t \in Keys
    OBVIOUS
  <2>3. topic' \in [Users -> Keys \cup {-1}]
    BY <2>1, <2>2
  <2>4. index' \in [Users -> Nat]
    <3>1. readUpTo[u][t] \in Nat /\ index \in [Users -> Nat]
      BY <2>2
    <3>2. QED
      BY ONLY <2>1, <3>1
  <2>5. sender_pc' \in [Users -> {"start", "lock", "waiting", "woken"} \cup InPass]
    BY <2>1
  <2>6. TopicIsEntry'
    <3>1. UNCHANGED entries /\ sender_pc[u] = "scan"
      BY <1>18 DEF NextTopic, informationVars
    <3>2. \A v \in Users :
            v # u => topic'[v] = topic[v] /\ sender_pc'[v] = sender_pc[v]
      BY <2>1
    <3>3. topic'[u] \in entries[u]
      BY <2>1
    <3>4. QED
      BY ONLY Typed, <3>1, <3>2, <3>3 DEF Typed, TopicIsEntry
  <2>7. QED
    BY <1>18, <2>3, <2>4, <2>5, <2>6
    DEF NextTopic, publisherVars, informationVars, receiverVars, streamVars
<1>19. ASSUME NEW u \in Users, CheckTopic(u) PROVE Typed'
  BY <1>19
  DEF CheckTopic, HasUnsent, publisherVars, informationVars, receiverVars,
      passVars, streamVars
<1>20. ASSUME NEW u \in Users, SendNext(u) PROVE Typed'
  <2>1. PICK m \in Messages : stream' = [stream EXCEPT ![u] = Append(@, m)]
    BY <1>20, SentMessage
  <2>2. stream' \in [Users -> Seq(Messages)]
    <3>1. stream \in [Users -> Seq(Messages)]
      OBVIOUS
    <3>2. QED
      BY ONLY u \in Users, <2>1, <3>1
  <2>3. index' \in [Users -> Nat]
    BY <1>20, SMTT(30) DEF SendNext, HasUnsent
  <2>4. QED
    BY <1>20, <2>2, <2>3
    DEF SendNext, HasUnsent, publisherVars, informationVars, receiverVars
<1>21. ASSUME NEW u \in Users, LeaveLoop(u) PROVE Typed'
  BY <1>21
  DEF LeaveLoop, HasUnsent, publisherVars, informationVars, receiverVars,
      passVars, streamVars
<1>22. ASSUME NEW u \in Users, CommitCursor(u) PROVE Typed'
  <2>1. readUpTo' \in [Users -> [Keys -> Nat]]
    <3>1. /\ readUpTo \in [Users -> [Keys -> Nat]]
          /\ topics \in [Keys -> Seq(Contents)]
      OBVIOUS
    <3>2. PICK t \in Keys : readUpTo' = [readUpTo EXCEPT ![u][t] = Len(topics[t])]
      BY <1>22 DEF CommitCursor, NewCursor
    <3>3. QED
      BY ONLY u \in Users, <3>1, <3>2
  <2>2. QED
    BY <1>22, <2>1
    DEF CommitCursor, publisherVars, informationVars, receiverVars, passVars, streamVars
<1>23. ASSUME NEW u \in Users, EndPass(u) PROVE Typed'
  BY <1>23
  DEF EndPass, Unlock, publisherVars, informationVars, receiverVars, passVars,
      streamVars
<1>24. ASSUME NEW u \in Users, Die(u) PROVE Typed'
  BY <1>24
  DEF Die, publisherVars, informationVars, receiverVars, passVars, streamVars
<1>25. ASSUME UNCHANGED vars PROVE Typed'
  BY <1>25
  DEF vars, publisherVars, informationVars, receiverVars, passVars, streamVars
<1>26. QED
  BY <1>1, <1>2, <1>3, <1>4, <1>5, <1>6, <1>7, <1>8, <1>9, <1>10, <1>11, <1>12,
     <1>13, <1>14, <1>15, <1>16, <1>17, <1>18, <1>19, <1>20, <1>21, <1>22, <1>23,
     <1>24, <1>25
  DEF Next, Environment, PublisherThread, ReceiverThread, AcquireLock, Pass

\* The type invariant of the broker holds for every set of users, topics and
\* contents and every bound.
THEOREM TypeCorrect == Spec => []TypeOK
<1>1. Typed => TypeOK
  BY DEF Typed
<1>2. QED
  BY TypedInit, TypedStep, <1>1, PTL DEF Spec

-----------------------------------------------------------------------------
(* Mutual exclusion of the passes                                          *)

LEMMA ExclusionInit == Init => OnePassAtATime
BY NoThreadAssumption DEF Init, OnePassAtATime, InPass

LEMMA ExclusionStep == Typed /\ OnePassAtATime /\ [Next]_vars => OnePassAtATime'
<1> SUFFICES ASSUME Typed, OnePassAtATime, [Next]_vars PROVE OnePassAtATime'
  OBVIOUS
<1> DEFINE PCs == {"start", "lock", "waiting", "woken"} \cup InPass
<1>0. sender_pc \in [Users -> PCs] /\ mutex_sender \in Users \cup {NoThread}
  BY DEF Typed, TypeOK
<1> USE NoThreadAssumption DEF OnePassAtATime, InPass
<1>1. ASSUME NEW m \in Posts, Post(m) PROVE OnePassAtATime'
  BY <1>0, <1>1 DEF Post, passVars
<1>2. ASSUME NEW u \in Users, NEW t \in Topics, SendRequest(u, t) PROVE OnePassAtATime'
  BY <1>0, <1>2 DEF SendRequest, passVars
<1>3. ASSUME NEW u \in Users, TakeMessage(u) PROVE OnePassAtATime'
  BY <1>0, <1>3 DEF TakeMessage, passVars
<1>4. ASSUME NEW u \in Users, Leave(u) PROVE OnePassAtATime'
  BY <1>0, <1>4 DEF Leave, passVars
<1>5. ASSUME NEW u \in Users, SpuriousWakeup(u) PROVE OnePassAtATime'
  BY <1>0, <1>5 DEF SpuriousWakeup, passVars
<1>6. ASSUME Accept PROVE OnePassAtATime'
  BY <1>0, <1>6 DEF Accept, Received, passVars
<1>7. ASSUME RegisterMessage PROVE OnePassAtATime'
  BY <1>0, <1>7 DEF RegisterMessage, push_back, passVars
<1>8. ASSUME DistributeMessage PROVE OnePassAtATime'
  BY <1>0, <1>8 DEF DistributeMessage, passVars, Broadcast
<1>9. ASSUME NEW u \in Users, Receive(u) PROVE OnePassAtATime'
  BY <1>0, <1>9 DEF Receive, passVars
<1>10. ASSUME NEW u \in Users, Subscribe(u) PROVE OnePassAtATime'
  BY <1>0, <1>10 DEF Subscribe, passVars
<1>11. ASSUME NEW u \in Users, Unsubscribe(u) PROVE OnePassAtATime'
  BY <1>0, <1>11 DEF Unsubscribe, passVars
<1>12. ASSUME NEW u \in Users, Resubscribe(u) PROVE OnePassAtATime'
  BY <1>0, <1>12 DEF Resubscribe, passVars
<1>13. ASSUME NEW u \in Users, Rewind(u) PROVE OnePassAtATime'
  BY <1>0, <1>13 DEF Rewind, passVars
<1>14. ASSUME NEW u \in Users, Signal(u) PROVE OnePassAtATime'
  BY <1>0, <1>14 DEF Signal, passVars, Broadcast
<1>15. ASSUME NEW u \in Users, ConnectSender(u) PROVE OnePassAtATime'
  BY <1>0, <1>15 DEF ConnectSender, passVars
<1>16. ASSUME NEW u \in Users, Sleep(u) PROVE OnePassAtATime'
  BY <1>0, <1>16 DEF Sleep, LockIsFree, passVars
<1>17. ASSUME NEW u \in Users, BeginPass(u) PROVE OnePassAtATime'
  BY <1>0, <1>17 DEF BeginPass, LockIsFree, passVars
<1>18. ASSUME NEW u \in Users, NextTopic(u) PROVE OnePassAtATime'
  BY <1>0, <1>18 DEF NextTopic, passVars
<1>19. ASSUME NEW u \in Users, CheckTopic(u) PROVE OnePassAtATime'
  BY <1>0, <1>19 DEF CheckTopic, HasUnsent, passVars
<1>20. ASSUME NEW u \in Users, SendNext(u) PROVE OnePassAtATime'
  BY <1>0, <1>20 DEF SendNext, HasUnsent, passVars
<1>21. ASSUME NEW u \in Users, LeaveLoop(u) PROVE OnePassAtATime'
  BY <1>0, <1>21 DEF LeaveLoop, HasUnsent, passVars
<1>22. ASSUME NEW u \in Users, CommitCursor(u) PROVE OnePassAtATime'
  BY <1>0, <1>22 DEF CommitCursor, NewCursor, passVars
<1>23. ASSUME NEW u \in Users, EndPass(u) PROVE OnePassAtATime'
  BY <1>0, <1>23 DEF EndPass, Unlock, passVars
<1>24. ASSUME NEW u \in Users, Die(u) PROVE OnePassAtATime'
  BY <1>0, <1>24 DEF Die, passVars
<1>25. ASSUME UNCHANGED vars PROVE OnePassAtATime'
  BY <1>25 DEF vars, passVars
<1>26. QED
  BY <1>1, <1>2, <1>3, <1>4, <1>5, <1>6, <1>7, <1>8, <1>9, <1>10, <1>11, <1>12,
     <1>13, <1>14, <1>15, <1>16, <1>17, <1>18, <1>19, <1>20, <1>21, <1>22, <1>23,
     <1>24, <1>25
  DEF Next, Environment, PublisherThread, ReceiverThread, AcquireLock, Pass

\* However many sender threads there are and however they are woken, only the
\* holder of mutex_sender is inside a pass.
THEOREM ExclusivePasses == Spec => []OnePassAtATime
BY TypedInit, TypedStep, ExclusionInit, ExclusionStep, PTL DEF Spec

-----------------------------------------------------------------------------
(* Order of delivery                                                       *)

\* No cursor, stored or copied by a pass, is past the end of its topic.
CursorsInLog ==
  /\ \A u \in Users, t \in Keys : readUpTo[u][t] <= Len(topics[t])
  /\ \A u \in Users :
       sender_pc[u] \in OnTopic => index[u] <= Len(topics[topic[u]])

\* The stored cursor may be rewound after the pass has copied it, never moved
\* forward.
CopyNotBehind ==
  \A u \in Users : sender_pc[u] = "check" => readUpTo[u][topic[u]] <= index[u]

\* Nothing is sent of a topic that has no entry in the user's map.
OnlyEntriesSent ==
  \A u \in Users : \A p \in 1..Len(stream[u]) : stream[u][p].topic \in entries[u]

Cursors == CursorsInLog /\ CopyNotBehind

LEMMA CursorsInit == Init => Cursors
BY DEF Init, Cursors, CursorsInLog, CopyNotBehind, OnTopic

LEMMA CursorsStep == Typed /\ Cursors /\ [Next]_vars => Cursors'
<1> SUFFICES ASSUME Typed, Cursors, [Next]_vars PROVE Cursors'
  OBVIOUS
<1> DEFINE PCs == {"start", "lock", "waiting", "woken"} \cup InPass
<1>0. /\ sender_pc \in [Users -> PCs]
      /\ topics \in [Keys -> Seq(Contents)]
      /\ readUpTo \in [Users -> [Keys -> Nat]]
      /\ index \in [Users -> Nat]
      /\ topic \in [Users -> Keys \cup {-1}]
      /\ request \in [Users -> Keys]
      /\ entries \in [Users -> SUBSET Keys]
  BY DEF Typed, TypeOK
<1>t. \A u \in Users : sender_pc[u] \in OnTopic => topic[u] \in Keys
  BY <1>0 DEF Typed, TopicIsEntry
<1> USE DEF Cursors, CursorsInLog, CopyNotBehind, InPass, OnTopic
<1>1. ASSUME NEW m \in Posts, Post(m) PROVE Cursors'
  BY <1>0, <1>t, <1>1 DEF Post, publisherVars, informationVars, passVars
<1>2. ASSUME NEW u \in Users, NEW t \in Topics, SendRequest(u, t) PROVE Cursors'
  BY <1>0, <1>t, <1>2 DEF SendRequest, publisherVars, informationVars, passVars
<1>3. ASSUME NEW u \in Users, TakeMessage(u) PROVE Cursors'
  BY <1>0, <1>t, <1>3 DEF TakeMessage, publisherVars, informationVars, passVars
<1>4. ASSUME NEW u \in Users, Leave(u) PROVE Cursors'
  BY <1>0, <1>t, <1>4 DEF Leave, publisherVars, informationVars, passVars
<1>5. ASSUME NEW u \in Users, SpuriousWakeup(u) PROVE Cursors'
  BY <1>0, <1>t, <1>5 DEF SpuriousWakeup, publisherVars, informationVars, passVars
<1>6. ASSUME Accept PROVE Cursors'
  BY <1>0, <1>t, <1>6 DEF Accept, Received, publisherVars, informationVars, passVars
<1>7. ASSUME RegisterMessage PROVE Cursors'
  <2>1. message.topic \in Keys /\ message.content \in Contents
    BY <1>7 DEF RegisterMessage, push_back, Typed, Handled, Keys
  <2>2. \A t \in Keys : Len(topics'[t]) \in Nat /\ Len(topics[t]) <= Len(topics'[t])
    BY <1>0, <1>7, <2>1 DEF RegisterMessage, push_back
  <2>3. UNCHANGED <<readUpTo, topic, index, sender_pc>>
    BY <1>7 DEF RegisterMessage, push_back, informationVars, passVars
  <2>4. \A t \in Keys : Len(topics[t]) \in Nat
    BY <1>0
  <2>5. QED
    BY <1>0, <1>t, <2>2, <2>3, <2>4
<1>8. ASSUME DistributeMessage PROVE Cursors'
  <2>1. /\ Broadcast \/ UNCHANGED sender_pc
        /\ UNCHANGED <<topics, readUpTo, topic, index>>
    BY <1>8 DEF DistributeMessage, publisherVars, informationVars, passVars
  <2>2. \A v \in Users : sender_pc'[v] # sender_pc[v] => sender_pc'[v] = "woken"
    BY <2>1, BroadcastMoves
  <2>3. QED
    BY <1>0, <1>t, <2>1, <2>2
<1>9. ASSUME NEW u \in Users, Receive(u) PROVE Cursors'
  <2>1. UNCHANGED <<topics, readUpTo, entries, sender_pc, topic, index>>
    BY <1>9 DEF Receive, publisherVars, informationVars, passVars
  <2>2. QED
    BY <1>0, <1>t, <2>1
<1>10. ASSUME NEW u \in Users, Subscribe(u) PROVE Cursors'
  BY <1>0, <1>t, <1>10 DEF Subscribe, publisherVars, informationVars, passVars
<1>11. ASSUME NEW u \in Users, Unsubscribe(u) PROVE Cursors'
  BY <1>0, <1>t, <1>11 DEF Unsubscribe, publisherVars, informationVars, passVars
<1>12. ASSUME NEW u \in Users, Resubscribe(u) PROVE Cursors'
  BY <1>0, <1>t, <1>12 DEF Resubscribe, publisherVars, informationVars, passVars
<1>13. ASSUME NEW u \in Users, Rewind(u) PROVE Cursors'
  BY <1>0, <1>t, <1>13 DEF Rewind, publisherVars, informationVars, passVars
<1>14. ASSUME NEW u \in Users, Signal(u) PROVE Cursors'
  <2>1. /\ Broadcast \/ UNCHANGED sender_pc
        /\ UNCHANGED <<topics, readUpTo, topic, index>>
    BY <1>14 DEF Signal, publisherVars, informationVars, passVars
  <2>2. \A v \in Users : sender_pc'[v] # sender_pc[v] => sender_pc'[v] = "woken"
    BY <2>1, BroadcastMoves
  <2>3. QED
    BY <1>0, <1>t, <2>1, <2>2
<1>15. ASSUME NEW u \in Users, ConnectSender(u) PROVE Cursors'
  BY <1>0, <1>t, <1>15 DEF ConnectSender, publisherVars, informationVars, passVars
<1>16. ASSUME NEW u \in Users, Sleep(u) PROVE Cursors'
  BY <1>0, <1>t, <1>16
  DEF Sleep, LockIsFree, publisherVars, informationVars, passVars
<1>17. ASSUME NEW u \in Users, BeginPass(u) PROVE Cursors'
  BY <1>0, <1>t, <1>17
  DEF BeginPass, LockIsFree, publisherVars, informationVars, passVars
<1>18. ASSUME NEW u \in Users, NextTopic(u) PROVE Cursors'
  <2>1. PICK t \in entries[u] :
          /\ topic' = [topic EXCEPT ![u] = t]
          /\ \/ /\ index' = [index EXCEPT ![u] = readUpTo[u][t]]
                /\ sender_pc' = [sender_pc EXCEPT ![u] = "check"]
             \/ UNCHANGED <<index, sender_pc>>
    BY <1>18, TopicPicked
  <2>2. t \in Keys /\ readUpTo[u][t] <= Len(topics[t])
    BY <1>0
  <2>3. UNCHANGED <<readUpTo, topics>> /\ sender_pc[u] = "scan"
    BY <1>18 DEF NextTopic, informationVars, publisherVars
  <2>4. CASE UNCHANGED <<index, sender_pc>>
    BY <1>0, <1>t, <2>1, <2>3, <2>4
  <2>5. CASE /\ index' = [index EXCEPT ![u] = readUpTo[u][t]]
             /\ sender_pc' = [sender_pc EXCEPT ![u] = "check"]
    <3>1. \A v \in Users : v # u => /\ sender_pc'[v] = sender_pc[v]
                                    /\ index'[v] = index[v]
                                    /\ topic'[v] = topic[v]
      BY <1>0, <2>1, <2>5
    <3>2. index'[u] = readUpTo[u][t] /\ topic'[u] = t
      BY <1>0, <2>1, <2>5
    <3>3. readUpTo[u][t] \in Nat
      BY <1>0, <2>2
    <3>4. CursorsInLog'
      <4>1. \A v \in Users, k \in Keys : readUpTo'[v][k] <= Len(topics'[k])
        BY <2>3
      <4>2. \A v \in Users :
              sender_pc'[v] \in OnTopic => index'[v] <= Len(topics'[topic'[v]])
        BY <2>2, <2>3, <3>1, <3>2
      <4>3. QED
        BY <4>1, <4>2
    <3>5. CopyNotBehind'
      BY <2>3, <3>1, <3>2, <3>3
    <3>6. QED
      BY <3>4, <3>5
  <2>6. QED
    BY <2>1, <2>4, <2>5
<1>19. ASSUME NEW u \in Users, CheckTopic(u) PROVE Cursors'
  BY <1>0, <1>t, <1>19
  DEF CheckTopic, HasUnsent, publisherVars, informationVars, passVars
<1>20. ASSUME NEW u \in Users, SendNext(u) PROVE Cursors'
  BY <1>0, <1>t, <1>20
  DEF SendNext, HasUnsent, publisherVars, informationVars, passVars
<1>21. ASSUME NEW u \in Users, LeaveLoop(u) PROVE Cursors'
  BY <1>0, <1>t, <1>21
  DEF LeaveLoop, HasUnsent, publisherVars, informationVars, passVars
<1>22. ASSUME NEW u \in Users, CommitCursor(u) PROVE Cursors'
  BY <1>0, <1>t, <1>22
  DEF CommitCursor, NewCursor, publisherVars, informationVars, passVars
<1>23. ASSUME NEW u \in Users, EndPass(u) PROVE Cursors'
  BY <1>0, <1>t, <1>23 DEF EndPass, Unlock, publisherVars, informationVars, passVars
<1>24. ASSUME NEW u \in Users, Die(u) PROVE Cursors'
  BY <1>0, <1>t, <1>24 DEF Die, publisherVars, informationVars, passVars
<1>25. ASSUME UNCHANGED vars PROVE Cursors'
  BY <1>25 DEF vars, publisherVars, informationVars, passVars
<1>26. QED
  BY <1>1, <1>2, <1>3, <1>4, <1>5, <1>6, <1>7, <1>8, <1>9, <1>10, <1>11, <1>12,
     <1>13, <1>14, <1>15, <1>16, <1>17, <1>18, <1>19, <1>20, <1>21, <1>22, <1>23,
     <1>24, <1>25
  DEF Next, Environment, PublisherThread, ReceiverThread, AcquireLock, Pass

LEMMA EntriesInit == Init => OnlyEntriesSent
BY DEF Init, OnlyEntriesSent

LEMMA EntriesStep == Typed /\ OnlyEntriesSent /\ [Next]_vars => OnlyEntriesSent'
<1> SUFFICES ASSUME Typed, OnlyEntriesSent, [Next]_vars PROVE OnlyEntriesSent'
  OBVIOUS
<1>0. /\ stream \in [Users -> Seq(Messages)]
      /\ entries \in [Users -> SUBSET Keys]
      /\ TopicIsEntry
  BY DEF Typed, TypeOK
<1> USE DEF OnlyEntriesSent
<1>1. ASSUME NEW m \in Posts, Post(m) PROVE OnlyEntriesSent'
  BY <1>0, <1>1 DEF Post, informationVars, streamVars
<1>2. ASSUME NEW u \in Users, NEW t \in Topics, SendRequest(u, t) PROVE OnlyEntriesSent'
  BY <1>0, <1>2 DEF SendRequest, informationVars, streamVars
<1>3. ASSUME NEW u \in Users, TakeMessage(u) PROVE OnlyEntriesSent'
  BY <1>0, <1>3 DEF TakeMessage, informationVars, streamVars
<1>4. ASSUME NEW u \in Users, Leave(u) PROVE OnlyEntriesSent'
  BY <1>0, <1>4 DEF Leave, informationVars, streamVars
<1>5. ASSUME NEW u \in Users, SpuriousWakeup(u) PROVE OnlyEntriesSent'
  BY <1>0, <1>5 DEF SpuriousWakeup, informationVars, streamVars
<1>6. ASSUME Accept PROVE OnlyEntriesSent'
  BY <1>0, <1>6 DEF Accept, Received, informationVars, streamVars
<1>7. ASSUME RegisterMessage PROVE OnlyEntriesSent'
  BY <1>0, <1>7 DEF RegisterMessage, push_back, informationVars, streamVars
<1>8. ASSUME DistributeMessage PROVE OnlyEntriesSent'
  BY <1>0, <1>8 DEF DistributeMessage, informationVars, streamVars
<1>9. ASSUME NEW u \in Users, Receive(u) PROVE OnlyEntriesSent'
  BY <1>0, <1>9 DEF Receive, informationVars, streamVars
<1>10. ASSUME NEW u \in Users, Subscribe(u) PROVE OnlyEntriesSent'
  BY <1>0, <1>10 DEF Subscribe, informationVars, streamVars
<1>11. ASSUME NEW u \in Users, Unsubscribe(u) PROVE OnlyEntriesSent'
  BY <1>0, <1>11 DEF Unsubscribe, informationVars, streamVars
<1>12. ASSUME NEW u \in Users, Resubscribe(u) PROVE OnlyEntriesSent'
  BY <1>0, <1>12 DEF Resubscribe, informationVars, streamVars
<1>13. ASSUME NEW u \in Users, Rewind(u) PROVE OnlyEntriesSent'
  BY <1>0, <1>13 DEF Rewind, informationVars, streamVars
<1>14. ASSUME NEW u \in Users, Signal(u) PROVE OnlyEntriesSent'
  BY <1>0, <1>14 DEF Signal, informationVars, streamVars
<1>15. ASSUME NEW u \in Users, ConnectSender(u) PROVE OnlyEntriesSent'
  BY <1>0, <1>15 DEF ConnectSender, informationVars, streamVars
<1>16. ASSUME NEW u \in Users, Sleep(u) PROVE OnlyEntriesSent'
  BY <1>0, <1>16 DEF Sleep, LockIsFree, informationVars, streamVars
<1>17. ASSUME NEW u \in Users, BeginPass(u) PROVE OnlyEntriesSent'
  BY <1>0, <1>17 DEF BeginPass, LockIsFree, informationVars, streamVars
<1>18. ASSUME NEW u \in Users, NextTopic(u) PROVE OnlyEntriesSent'
  BY <1>0, <1>18 DEF NextTopic, informationVars, streamVars
<1>19. ASSUME NEW u \in Users, CheckTopic(u) PROVE OnlyEntriesSent'
  BY <1>0, <1>19 DEF CheckTopic, HasUnsent, informationVars, streamVars
<1>20. ASSUME NEW u \in Users, SendNext(u) PROVE OnlyEntriesSent'
  <2>1. PICK m \in Messages :
          m.topic = topic[u] /\ stream' = [stream EXCEPT ![u] = Append(@, m)]
    BY <1>20, SentMessage
  <2>2. topic[u] \in entries[u] /\ entries' = entries
    BY <1>0, <1>20 DEF TopicIsEntry, SendNext, HasUnsent, OnTopic, informationVars
  <2>3. QED
    BY <1>0, <2>1, <2>2
<1>21. ASSUME NEW u \in Users, LeaveLoop(u) PROVE OnlyEntriesSent'
  BY <1>0, <1>21 DEF LeaveLoop, HasUnsent, informationVars, streamVars
<1>22. ASSUME NEW u \in Users, CommitCursor(u) PROVE OnlyEntriesSent'
  BY <1>0, <1>22 DEF CommitCursor, NewCursor, informationVars, streamVars
<1>23. ASSUME NEW u \in Users, EndPass(u) PROVE OnlyEntriesSent'
  BY <1>0, <1>23 DEF EndPass, Unlock, informationVars, streamVars
<1>24. ASSUME NEW u \in Users, Die(u) PROVE OnlyEntriesSent'
  BY <1>0, <1>24 DEF Die, informationVars, streamVars
<1>25. ASSUME UNCHANGED vars PROVE OnlyEntriesSent'
  BY <1>25 DEF vars, informationVars, streamVars
<1>26. QED
  BY <1>1, <1>2, <1>3, <1>4, <1>5, <1>6, <1>7, <1>8, <1>9, <1>10, <1>11, <1>12,
     <1>13, <1>14, <1>15, <1>16, <1>17, <1>18, <1>19, <1>20, <1>21, <1>22, <1>23,
     <1>24, <1>25
  DEF Next, Environment, PublisherThread, ReceiverThread, AcquireLock, Pass

\* What user u can have been sent of topic t: while a pass is in the inner
\* loop on t, its loop variable; else the stored cursor.
SentBound(u, t) ==
  IF sender_pc[u] \in {"send", "commit"} /\ topic[u] = t
  THEN index[u] ELSE readUpTo[u][t]

SentBelowBound ==
  \A u \in Users, t \in Keys : \A p \in SentSinceReplay(u, t) :
    stream[u][p].index <= SentBound(u, t)

Order == SentBelowBound /\ InOrderAndOnce

IInv == Typed /\ Cursors /\ OnlyEntriesSent /\ Order

LEMMA OrderInit == Init => Order
BY DEF Init, Order, SentBelowBound, InOrderAndOnce, SentSinceReplay

LEMMA BoundTyped == Typed => \A u \in Users, t \in Keys : SentBound(u, t) \in Nat
BY DEF Typed, TypeOK, SentBound

LEMMA SentTyped ==
  ASSUME Typed, NEW u \in Users
  PROVE  /\ Len(stream[u]) \in Nat
         /\ \A p \in 1..Len(stream[u]) : stream[u][p].index \in Nat
<1>1. stream[u] \in Seq(Messages)
  BY DEF Typed, TypeOK
<1>2. \A m \in Messages : m.index \in Nat
  BY DEF Messages
<1>3. QED
  BY <1>1, <1>2

\* Nothing is sent and no cursor that bounds what was sent moves back.
LEMMA OrderKept ==
  ASSUME Typed, Typed', Order, UNCHANGED <<stream, replayedAt>>,
         \A u \in Users, t \in Keys : SentBound(u, t) <= SentBound(u, t)'
  PROVE  Order'
<1>1. \A u \in Users, t \in Keys :
        /\ SentSinceReplay(u, t)' = SentSinceReplay(u, t)
        /\ SentBound(u, t) \in Nat
        /\ SentBound(u, t)' \in Nat
  <2>1. \A u \in Users, t \in Keys : SentSinceReplay(u, t)' = SentSinceReplay(u, t)
    BY DEF SentSinceReplay
  <2>2. \A u \in Users, t \in Keys : SentBound(u, t)' \in Nat
    BY DEF Typed, TypeOK, SentBound
  <2>3. QED
    BY <2>1, <2>2, BoundTyped
<1>2. \A u \in Users, t \in Keys : \A p \in SentSinceReplay(u, t) :
        stream[u][p].index \in Nat
  BY SentTyped DEF SentSinceReplay
<1>3. SentBelowBound'
  BY <1>1, <1>2 DEF Order, SentBelowBound
<1>4. InOrderAndOnce'
  BY <1>1 DEF Order, InOrderAndOnce
<1>5. QED
  BY <1>3, <1>4 DEF Order

\* The same for a step that changes nothing of what was sent or is about to be.
LEMMA OrderUntouched ==
  ASSUME Typed, Typed', Order,
         UNCHANGED <<sender_pc, topic, index, readUpTo, replayedAt, stream>>
  PROVE  Order'
<1>1. \A u \in Users, t \in Keys :
        SentBound(u, t) \in Nat /\ SentBound(u, t)' = SentBound(u, t)
  BY BoundTyped DEF SentBound
<1>2. \A u \in Users, t \in Keys : SentBound(u, t) <= SentBound(u, t)'
  BY <1>1
<1>3. QED
  BY <1>2, OrderKept

LEMMA OrderStep == IInv /\ Typed' /\ [Next]_vars => Order'
<1> SUFFICES ASSUME IInv, Typed', [Next]_vars PROVE Order'
  OBVIOUS
<1> DEFINE PCs == {"start", "lock", "waiting", "woken"} \cup InPass
<1>0. /\ Typed
      /\ Order
      /\ sender_pc \in [Users -> PCs]
      /\ topics \in [Keys -> Seq(Contents)]
      /\ readUpTo \in [Users -> [Keys -> Nat]]
      /\ index \in [Users -> Nat]
      /\ topic \in [Users -> Keys \cup {-1}]
      /\ request \in [Users -> Keys]
      /\ entries \in [Users -> SUBSET Keys]
      /\ stream \in [Users -> Seq(Messages)]
      /\ replayedAt \in [Users -> [Keys -> Nat]]
  BY DEF IInv, Typed, TypeOK
<1>b. \A u \in Users, t \in Keys : SentBound(u, t) \in Nat
  BY <1>0, BoundTyped
<1> DEFINE BoundKept ==
      \A v \in Users, k \in Keys : SentBound(v, k) <= SentBound(v, k)'
<1>1. ASSUME NEW m \in Posts, Post(m) PROVE Order'
  <2>1. UNCHANGED <<sender_pc, topic, index, readUpTo, replayedAt, stream>>
    BY <1>1 DEF Post, informationVars, passVars, streamVars
  <2>2. QED
    BY <1>0, <2>1, OrderUntouched
<1>2. ASSUME NEW u \in Users, NEW t \in Topics, SendRequest(u, t) PROVE Order'
  <2>1. UNCHANGED <<sender_pc, topic, index, readUpTo, replayedAt, stream>>
    BY <1>2 DEF SendRequest, informationVars, passVars, streamVars
  <2>2. QED
    BY <1>0, <2>1, OrderUntouched
<1>3. ASSUME NEW u \in Users, TakeMessage(u) PROVE Order'
  <2>1. UNCHANGED <<sender_pc, topic, index, readUpTo, replayedAt, stream>>
    BY <1>3 DEF TakeMessage, informationVars, passVars, streamVars
  <2>2. QED
    BY <1>0, <2>1, OrderUntouched
<1>4. ASSUME NEW u \in Users, Leave(u) PROVE Order'
  <2>1. UNCHANGED <<sender_pc, topic, index, readUpTo, replayedAt, stream>>
    BY <1>4 DEF Leave, informationVars, passVars, streamVars
  <2>2. QED
    BY <1>0, <2>1, OrderUntouched
<1>5. ASSUME NEW u \in Users, SpuriousWakeup(u) PROVE Order'
  <2>1. /\ sender_pc[u] \notin {"send", "commit"}
        /\ sender_pc'[u] \notin {"send", "commit"}
        /\ \A v \in Users : v # u => sender_pc'[v] = sender_pc[v]
        /\ UNCHANGED <<readUpTo, replayedAt, topic, index, stream>>
    BY <1>0, <1>5 DEF SpuriousWakeup, informationVars, passVars, streamVars
  <2>2. BoundKept
    BY <1>b, <2>1 DEF SentBound
  <2>3. QED
    BY <1>0, <2>1, <2>2, OrderKept
<1>6. ASSUME Accept PROVE Order'
  <2>1. UNCHANGED <<sender_pc, topic, index, readUpTo, replayedAt, stream>>
    BY <1>6 DEF Accept, Received, informationVars, passVars, streamVars
  <2>2. QED
    BY <1>0, <2>1, OrderUntouched
<1>7. ASSUME RegisterMessage PROVE Order'
  <2>1. UNCHANGED <<sender_pc, topic, index, readUpTo, replayedAt, stream>>
    BY <1>7 DEF RegisterMessage, push_back, informationVars, passVars, streamVars
  <2>2. QED
    BY <1>0, <2>1, OrderUntouched
<1>8. ASSUME DistributeMessage PROVE Order'
  <2>1. /\ \A v \in Users : sender_pc'[v] # sender_pc[v] =>
             sender_pc[v] = "waiting" /\ sender_pc'[v] = "woken"
        /\ UNCHANGED <<readUpTo, replayedAt, topic, index, stream>>
    BY <1>0, <1>8
    DEF DistributeMessage, Broadcast, informationVars, passVars, streamVars
  <2>2. BoundKept
    BY <1>b, <2>1 DEF SentBound
  <2>3. QED
    BY <1>0, <2>1, <2>2, OrderKept
<1>9. ASSUME NEW u \in Users, Receive(u) PROVE Order'
  <2>1. UNCHANGED <<sender_pc, topic, index, readUpTo, replayedAt, stream>>
    BY <1>9 DEF Receive, informationVars, passVars, streamVars
  <2>2. QED
    BY <1>0, <2>1, OrderUntouched
<1>10. ASSUME NEW u \in Users, Subscribe(u) PROVE Order'
  <2>1. request[u] \in Keys /\ request[u] \notin entries[u]
    BY <1>0, <1>10 DEF Subscribe
  <2>2. /\ readUpTo' = [readUpTo EXCEPT ![u][request[u]] = 0]
        /\ UNCHANGED <<replayedAt, sender_pc, topic, index, stream>>
    BY <1>10 DEF Subscribe, passVars, streamVars
  <2>3. SentSinceReplay(u, request[u]) = {}
    BY <1>0, <2>1 DEF IInv, OnlyEntriesSent, SentSinceReplay
  <2>4. \A v \in Users, k \in Keys :
          v # u \/ k # request[u] => SentBound(v, k)' = SentBound(v, k)
    BY <1>0, <2>1, <2>2 DEF SentBound
  <2>5. \A v \in Users, k \in Keys :
          SentSinceReplay(v, k)' = SentSinceReplay(v, k)
    BY <2>2 DEF SentSinceReplay
  <2>6. SentBelowBound'
    BY <1>0, <2>2, <2>3, <2>4, <2>5, ZenonT(60) DEF Order, SentBelowBound
  <2>7. InOrderAndOnce'
    BY <1>0, <2>2, <2>5 DEF Order, InOrderAndOnce
  <2>8. QED
    BY <2>6, <2>7 DEF Order
<1>11. ASSUME NEW u \in Users, Unsubscribe(u) PROVE Order'
  <2>1. UNCHANGED <<sender_pc, topic, index, readUpTo, replayedAt, stream>>
    BY <1>11 DEF Unsubscribe, informationVars, passVars, streamVars
  <2>2. QED
    BY <1>0, <2>1, OrderUntouched
<1>12. ASSUME NEW u \in Users, Resubscribe(u) PROVE Order'
  <2>1. UNCHANGED <<sender_pc, topic, index, readUpTo, replayedAt, stream>>
    BY <1>12 DEF Resubscribe, informationVars, passVars, streamVars
  <2>2. QED
    BY <1>0, <2>1, OrderUntouched
<1>13. ASSUME NEW u \in Users, Rewind(u) PROVE Order'
  <2>r. PICK r \in Keys : r = request[u]
    BY <1>0
  <2>1. /\ readUpTo' = [readUpTo EXCEPT ![u][r] = 0]
        /\ replayedAt' = [replayedAt EXCEPT ![u][r] = Len(stream[u])]
        /\ UNCHANGED <<sender_pc, topic, index, stream>>
    BY <1>13, <2>r DEF Rewind, passVars, streamVars
  <2>2. SentSinceReplay(u, r)' = {}
    <3>1. Len(stream[u]) \in Nat
      BY <1>0, SentTyped
    <3>2. replayedAt'[u][r] = Len(stream[u])
      BY <1>0, <2>1, <3>1
    <3>3. QED
      BY <2>1, <3>1, <3>2 DEF SentSinceReplay
  <2>3. \A v \in Users, k \in Keys : v # u \/ k # r =>
          /\ SentBound(v, k)' = SentBound(v, k)
          /\ SentSinceReplay(v, k)' = SentSinceReplay(v, k)
    BY <1>0, <2>1, ZenonT(60) DEF SentBound, SentSinceReplay
  <2>4. SentBelowBound'
    <3> SUFFICES ASSUME NEW v \in Users, NEW k \in Keys,
                        NEW p \in SentSinceReplay(v, k)'
                 PROVE  (stream[v][p].index <= SentBound(v, k))'
      BY DEF SentBelowBound
    <3>1. v # u \/ k # r
      BY <2>2
    <3>2. stream[v][p].index <= SentBound(v, k)
      BY <1>0, <2>3, <3>1 DEF Order, SentBelowBound
    <3>3. QED
      BY <2>1, <2>3, <3>1, <3>2
  <2>5. InOrderAndOnce'
    <3> SUFFICES ASSUME NEW v \in Users, NEW k \in Keys,
                        NEW p \in SentSinceReplay(v, k)',
                        NEW q \in SentSinceReplay(v, k)', p < q
                 PROVE  (stream[v][p].index < stream[v][q].index)'
      BY DEF InOrderAndOnce
    <3>1. v # u \/ k # r
      BY <2>2
    <3>2. QED
      BY <1>0, <2>1, <2>3, <3>1 DEF Order, InOrderAndOnce
  <2>6. QED
    BY <2>4, <2>5 DEF Order
<1>14. ASSUME NEW u \in Users, Signal(u) PROVE Order'
  <2>1. /\ \A v \in Users : sender_pc'[v] # sender_pc[v] =>
             sender_pc[v] = "waiting" /\ sender_pc'[v] = "woken"
        /\ UNCHANGED <<readUpTo, replayedAt, topic, index, stream>>
    BY <1>0, <1>14 DEF Signal, Broadcast, informationVars, passVars, streamVars
  <2>2. BoundKept
    BY <1>b, <2>1 DEF SentBound
  <2>3. QED
    BY <1>0, <2>1, <2>2, OrderKept
<1>15. ASSUME NEW u \in Users, ConnectSender(u) PROVE Order'
  <2>1. /\ sender_pc[u] \notin {"send", "commit"}
        /\ sender_pc'[u] \notin {"send", "commit"}
        /\ \A v \in Users : v # u => sender_pc'[v] = sender_pc[v]
        /\ UNCHANGED <<readUpTo, replayedAt, topic, index, stream>>
    BY <1>0, <1>15 DEF ConnectSender, informationVars, passVars, streamVars
  <2>2. BoundKept
    BY <1>b, <2>1 DEF SentBound
  <2>3. QED
    BY <1>0, <2>1, <2>2, OrderKept
<1>16. ASSUME NEW u \in Users, Sleep(u) PROVE Order'
  <2>1. /\ sender_pc[u] \notin {"send", "commit"}
        /\ sender_pc'[u] \notin {"send", "commit"}
        /\ \A v \in Users : v # u => /\ sender_pc'[v] = sender_pc[v]
                                     /\ topic'[v] = topic[v]
        /\ UNCHANGED <<readUpTo, replayedAt, index, stream>>
    BY <1>0, <1>16 DEF Sleep, informationVars, passVars, streamVars
  <2>2. BoundKept
    BY <1>b, <2>1 DEF SentBound
  <2>3. QED
    BY <1>0, <2>1, <2>2, OrderKept
<1>17. ASSUME NEW u \in Users, BeginPass(u) PROVE Order'
  <2>1. /\ sender_pc[u] \notin {"send", "commit"}
        /\ sender_pc'[u] \notin {"send", "commit"}
        /\ \A v \in Users : v # u => /\ sender_pc'[v] = sender_pc[v]
                                     /\ topic'[v] = topic[v]
        /\ UNCHANGED <<readUpTo, replayedAt, index, stream>>
    BY <1>0, <1>17 DEF BeginPass, informationVars, passVars, streamVars
  <2>2. BoundKept
    BY <1>b, <2>1 DEF SentBound
  <2>3. QED
    BY <1>0, <2>1, <2>2, OrderKept
<1>18. ASSUME NEW u \in Users, NextTopic(u) PROVE Order'
  <2>1. PICK t \in entries[u] :
          /\ topic' = [topic EXCEPT ![u] = t]
          /\ \/ /\ index' = [index EXCEPT ![u] = readUpTo[u][t]]
                /\ sender_pc' = [sender_pc EXCEPT ![u] = "check"]
             \/ UNCHANGED <<index, sender_pc>>
    BY <1>18, TopicPicked
  <2>2. UNCHANGED <<readUpTo, replayedAt, stream>> /\ sender_pc[u] = "scan"
    BY <1>18 DEF NextTopic, informationVars, streamVars
  <2>3. \A v \in Users : v # u => /\ sender_pc'[v] = sender_pc[v]
                                  /\ topic'[v] = topic[v]
                                  /\ index'[v] = index[v]
    BY <1>0, <2>1
  <2>4. sender_pc'[u] \in {"scan", "check"}
    BY <1>0, <2>1, <2>2
  <2>5. BoundKept
    BY <1>b, <2>2, <2>3, <2>4 DEF SentBound
  <2>6. QED
    BY <1>0, <2>2, <2>5, OrderKept
<1>19. ASSUME NEW u \in Users, CheckTopic(u) PROVE Order'
  <2>1. /\ sender_pc[u] = "check" /\ sender_pc'[u] \in {"send", "scan"}
        /\ \A v \in Users : v # u => sender_pc'[v] = sender_pc[v]
        /\ UNCHANGED <<readUpTo, replayedAt, topic, index, stream>>
    BY <1>0, <1>19 DEF CheckTopic, HasUnsent, informationVars, passVars, streamVars
  <2>2. readUpTo[u][topic[u]] <= index[u]
    BY <2>1 DEF IInv, Cursors, CopyNotBehind
  <2>3. BoundKept
    BY <1>b, <2>1, <2>2 DEF SentBound
  <2>4. QED
    BY <1>0, <2>1, <2>3, OrderKept
<1>20. ASSUME NEW u \in Users, SendNext(u) PROVE Order'
  <2>1. PICK m \in Messages :
          /\ m.topic = topic[u]
          /\ m.index = index[u] + 1
          /\ stream' = [stream EXCEPT ![u] = Append(@, m)]
    BY <1>0, <1>20, SentMessage
  <2>2. /\ sender_pc[u] = "send"
        /\ index' = [index EXCEPT ![u] = @ + 1]
        /\ UNCHANGED <<sender_pc, topic, readUpTo, replayedAt>>
    BY <1>20 DEF SendNext, HasUnsent, informationVars
  <2>3. PICK t \in Keys : t = topic[u]
    BY <1>0, <2>2 DEF Typed, TopicIsEntry, OnTopic
  <2>4. /\ SentBound(u, t) = index[u]
        /\ SentBound(u, t)' = index[u] + 1
    BY <1>0, <2>2, <2>3 DEF SentBound
  <2>5. \A v \in Users, k \in Keys :
          v # u \/ k # t => SentBound(v, k)' = SentBound(v, k)
    BY <1>0, <2>2, <2>3 DEF SentBound
  <2>6. stream[u] \in Seq(Messages) /\ Len(stream[u]) \in Nat
    BY <1>0
  <2>7. /\ \A v \in Users : v # u => stream'[v] = stream[v]
        /\ Len(stream'[u]) = Len(stream[u]) + 1
        /\ stream'[u][Len(stream[u]) + 1] = m
        /\ \A p \in 1..Len(stream[u]) : stream'[u][p] = stream[u][p]
    BY <1>0, <2>1, <2>6
  <2>8. \A v \in Users, k \in Keys : v # u \/ k # t =>
          SentSinceReplay(v, k)' = SentSinceReplay(v, k)
    BY <2>1, <2>2, <2>3, <2>6, <2>7 DEF SentSinceReplay
  <2>9. SentSinceReplay(u, t)'
          \subseteq SentSinceReplay(u, t) \cup {Len(stream[u]) + 1}
    BY <2>2, <2>6, <2>7 DEF SentSinceReplay
  <2>10. \A v \in Users, k \in Keys : \A p \in SentSinceReplay(v, k) :
           /\ p \in 1..Len(stream[v])
           /\ stream'[v][p] = stream[v][p]
           /\ stream[v][p].index \in Nat
    BY <1>0, <2>7, SentTyped DEF SentSinceReplay
  <2>11. SentBelowBound'
    <3> SUFFICES ASSUME NEW v \in Users, NEW k \in Keys,
                        NEW p \in SentSinceReplay(v, k)'
                 PROVE  stream'[v][p].index <= SentBound(v, k)'
      BY DEF SentBelowBound
    <3>1. CASE p \in SentSinceReplay(v, k)
      <4>1. /\ stream[v][p].index <= SentBound(v, k)
            /\ stream'[v][p].index = stream[v][p].index
            /\ stream[v][p].index \in Nat
        BY <1>0, <2>10, <3>1 DEF Order, SentBelowBound
      <4>2. SentBound(v, k) \in Nat
        BY <1>b
      <4>3. \/ SentBound(v, k)' = SentBound(v, k)
            \/ SentBound(v, k)' = SentBound(v, k) + 1
        BY <2>4, <2>5
      <4>4. QED
        BY <4>1, <4>2, <4>3
    <3>2. CASE p \notin SentSinceReplay(v, k)
      <4>1. v = u /\ k = t /\ p = Len(stream[u]) + 1
        BY <2>8, <2>9, <3>2
      <4>2. stream'[v][p].index = index[u] + 1
        BY <2>1, <2>7, <4>1
      <4>3. QED
        BY <1>0, <2>4, <4>1, <4>2
    <3>3. QED
      BY <3>1, <3>2
  <2>12. InOrderAndOnce'
    <3> SUFFICES ASSUME NEW v \in Users, NEW k \in Keys,
                        NEW p \in SentSinceReplay(v, k)',
                        NEW q \in SentSinceReplay(v, k)', p < q
                 PROVE  stream'[v][p].index < stream'[v][q].index
      BY DEF InOrderAndOnce
    <3>1. CASE q \in SentSinceReplay(v, k)
      <4>1. p # Len(stream[v]) + 1
        <5>1. q \in 1..Len(stream[v]) /\ Len(stream[v]) \in Nat
          BY <1>0, <2>10, <3>1, SentTyped
        <5>2. p \in Int
          BY DEF SentSinceReplay
        <5>3. QED
          BY <5>1, <5>2
      <4>2. p \in SentSinceReplay(v, k)
        BY <2>8, <2>9, <4>1
      <4>3. QED
        BY <1>0, <2>10, <3>1, <4>2, ZenonT(60) DEF Order, InOrderAndOnce
    <3>2. CASE q \notin SentSinceReplay(v, k)
      <4>1. v = u /\ k = t /\ q = Len(stream[u]) + 1
        BY <2>8, <2>9, <3>2
      <4>2. p \in SentSinceReplay(v, k)
        BY <2>9, <4>1
      <4>3. stream[v][p].index <= index[u] /\ stream[v][p].index \in Nat
        BY <1>0, <2>4, <2>10, <4>1, <4>2 DEF Order, SentBelowBound
      <4>4. stream'[v][q].index = index[u] + 1
        BY <2>1, <2>7, <4>1
      <4>5. QED
        <5>1. index[u] \in Nat /\ stream'[v][p] = stream[v][p]
          BY <1>0, <2>10, <4>2
        <5>2. QED
          BY <4>3, <4>4, <5>1
    <3>3. QED
      BY <3>1, <3>2
  <2>13. QED
    BY <2>11, <2>12 DEF Order
<1>21. ASSUME NEW u \in Users, LeaveLoop(u) PROVE Order'
  <2>1. /\ sender_pc[u] = "send" /\ sender_pc' = [sender_pc EXCEPT ![u] = "commit"]
        /\ UNCHANGED <<readUpTo, replayedAt, topic, index, stream>>
    BY <1>21 DEF LeaveLoop, HasUnsent, informationVars, passVars, streamVars
  <2>2. \A v \in Users :
          sender_pc'[v] \in {"send", "commit"} <=> sender_pc[v] \in {"send", "commit"}
    BY <1>0, <2>1
  <2>3. BoundKept
    BY <1>b, <2>1, <2>2 DEF SentBound
  <2>4. QED
    BY <1>0, <2>1, <2>3, OrderKept
<1>22. ASSUME NEW u \in Users, CommitCursor(u) PROVE Order'
  <2>1. /\ sender_pc[u] = "commit" /\ sender_pc' = [sender_pc EXCEPT ![u] = "scan"]
        /\ readUpTo' = [readUpTo EXCEPT ![u][topic[u]] = Len(topics[topic[u]])]
        /\ UNCHANGED <<replayedAt, topic, index, stream>>
    BY <1>22 DEF CommitCursor, NewCursor, passVars, streamVars
  <2>2. PICK t \in Keys : t = topic[u] /\ index[u] <= Len(topics[t])
    BY <1>0, <2>1 DEF IInv, Cursors, CursorsInLog, OnTopic, Typed, TopicIsEntry
  <2>3. SentBound(u, t) = index[u]
    BY <2>1, <2>2 DEF SentBound
  <2>4. SentBound(u, t)' = Len(topics[t])
    BY <1>0, <2>1, <2>2 DEF SentBound
  <2>5. \A v \in Users, k \in Keys :
          v # u \/ k # t => SentBound(v, k)' = SentBound(v, k)
    <3>1. \A v \in Users, k \in Keys :
            v # u \/ k # t => readUpTo'[v][k] = readUpTo[v][k]
      BY <1>0, <2>1, <2>2
    <3>2. /\ sender_pc'[u] = "scan"
          /\ \A v \in Users : v # u => sender_pc'[v] = sender_pc[v]
      BY <1>0, <2>1
    <3>3. QED
      BY <2>1, <2>2, <3>1, <3>2 DEF SentBound
  <2>6. BoundKept
    BY <1>b, <2>2, <2>3, <2>4, <2>5
  <2>7. QED
    BY <1>0, <2>1, <2>6, OrderKept
<1>23. ASSUME NEW u \in Users, EndPass(u) PROVE Order'
  <2>1. /\ sender_pc[u] \notin {"send", "commit"}
        /\ sender_pc'[u] \notin {"send", "commit"}
        /\ \A v \in Users : v # u => /\ sender_pc'[v] = sender_pc[v]
                                     /\ topic'[v] = topic[v]
        /\ UNCHANGED <<readUpTo, replayedAt, index, stream>>
    BY <1>0, <1>23 DEF EndPass, informationVars, passVars, streamVars
  <2>2. BoundKept
    BY <1>b, <2>1 DEF SentBound
  <2>3. QED
    BY <1>0, <2>1, <2>2, OrderKept
<1>24. ASSUME NEW u \in Users, Die(u) PROVE Order'
  <2>1. UNCHANGED <<sender_pc, topic, index, readUpTo, replayedAt, stream>>
    BY <1>24 DEF Die, informationVars, passVars, streamVars
  <2>2. QED
    BY <1>0, <2>1, OrderUntouched
<1>25. ASSUME UNCHANGED vars PROVE Order'
  <2>1. UNCHANGED <<sender_pc, topic, index, readUpTo, replayedAt, stream>>
    BY <1>25 DEF vars, informationVars, passVars, streamVars
  <2>2. QED
    BY <1>0, <2>1, OrderUntouched
<1>26. QED
  BY <1>1, <1>2, <1>3, <1>4, <1>5, <1>6, <1>7, <1>8, <1>9, <1>10, <1>11, <1>12,
     <1>13, <1>14, <1>15, <1>16, <1>17, <1>18, <1>19, <1>20, <1>21, <1>22, <1>23,
     <1>24, <1>25
  DEF Next, Environment, PublisherThread, ReceiverThread, AcquireLock, Pass

LEMMA InvariantInit == Init => IInv
BY TypedInit, CursorsInit, EntriesInit, OrderInit DEF IInv

LEMMA InvariantStep == IInv /\ [Next]_vars => IInv'
BY TypedStep, CursorsStep, EntriesStep, OrderStep DEF IInv

\* For any number of subscribers, topics, messages and toggles, between two
\* replays of a topic no message of it is sent twice or after a later one.
THEOREM DeliveryInOrder == Spec => []InOrderAndOnce
<1>1. IInv => InOrderAndOnce
  BY DEF IInv, Order
<1>2. QED
  BY InvariantInit, InvariantStep, <1>1, PTL DEF Spec
=============================================================================
