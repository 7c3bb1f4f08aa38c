------------------------------- MODULE Broker -------------------------------
(***************************************************************************)
(* The message broker of "publisher and subscriber architecture": the      *)
(* publisher thread (handle_publisher), one sender thread and one receiver *)
(* thread per connected subscriber (handle_sender, handle_receiver), and   *)
(* the publisher and subscriber processes as far as the broker can tell    *)
(* them apart.  The threads meet in the map `topics`, in the map           *)
(* `user_informations`, in the mutex `mutex_sender` and in the condition   *)
(* variable `p_thread_cond`.                                               *)
(*                                                                         *)
(* A step is the code between two points at which another thread's write   *)
(* can change what this thread does next.  The connection set-up that      *)
(* creates the threads is the module BrokerAccept.                         *)
(***************************************************************************)
EXTENDS Integers, Sequences, FiniteSets

CONSTANTS
  Users,          \* ids handed out by handle_subscriber, one pair of threads each
  Topics,         \* topic names, as numbers in the order std::map keeps them
  Contents,       \* file contents a publisher may post
  Garbage,        \* what is copied out of a vector while it is reallocated
  RaceOutcomes,   \* what such a copy may do: "intact", "garbage", "crash";
                  \* "crash" also of a map looked up while it is inserted into
  SocketCapacity, \* messages a connection holds before send() blocks
  Leavers,        \* users whose subscriber process may end
  MaxPosts,       \* bound: connections made by publishers
  MaxRequests,    \* bound: topics a user types
  NoThread        \* mutex_sender is free

EmptyTopic == 0   \* what a recv() of 0 bytes leaves in the cleared topic buffer
Keys == Topics \cup {EmptyTopic}
Hangup == [topic |-> EmptyTopic, content |-> Garbage]  \* closed before sending

ASSUME TopicsAssumption == Topics \subseteq Nat \ {0}
ASSUME GarbageAssumption == Garbage \notin Contents
ASSUME RaceAssumption == RaceOutcomes \subseteq {"intact", "garbage", "crash"}
ASSUME CapacityAssumption == SocketCapacity \in Nat \ {0}
ASSUME LeaversAssumption == Leavers \subseteq Users
ASSUME BoundsAssumption == MaxPosts \in Nat /\ MaxRequests \in Nat
ASSUME NoThreadAssumption == NoThread \notin Users

VARIABLES
  up,             \* the broker process has not exited
  topics,         \* topic -> contents registered so far; <<>> when absent
  backlog,        \* publisher connections not yet accepted, with what they carry
  message,        \* the message handle_publisher works on
  publisher_pc,   \* "accept", "push" (inside push_back), "distribute"
  posted,         \* publisher connections so far (bound)
  entries,        \* user -> topics that are keys of user_informations[user]
  subscribed,     \* user -> topic -> user_informations[user][topic].first
  readUpTo,       \* user -> topic -> user_informations[user][topic].second
  receiver_pc,    \* user -> "recv", "apply", "rewind", "signal"
  request,        \* user -> the topic buffer of handle_receiver
  requests,       \* user -> topics sent by the subscriber and not yet received
  asked,          \* user -> number of topics typed (bound)
  connected,      \* user -> the subscriber process still runs
  mutex_sender,   \* the sender thread that holds mutex_sender, or NoThread
  sender_pc,      \* user -> control point of handle_sender
  topic,          \* user -> the key the range-for stands at, -1 before the first
  index,          \* user -> isReadUpTo, then i, of the loop over one topic
  stream,         \* user -> every message sent on the subscriber's connection
  taken,          \* user -> how many of them the subscriber has received
  replayedAt      \* history: user -> topic -> Len(stream) when the cursor was reset

publisherVars == <<topics, backlog, message, publisher_pc, posted>>
informationVars == <<entries, subscribed, readUpTo, replayedAt>>
receiverVars == <<receiver_pc, request, requests, asked, connected>>
passVars == <<mutex_sender, topic, index>>
streamVars == <<stream, taken>>
vars == <<up, publisherVars, informationVars, receiverVars, passVars,
          sender_pc, streamVars>>

InPass == {"scan", "check", "send", "commit"}
OnTopic == {"check", "send", "commit"}

Posts == [topic : Topics, content : Contents] \cup {Hangup}
Messages == [topic : Keys, index : Nat, content : Contents \cup {Garbage}]

TypeOK ==
  /\ up \in BOOLEAN
  /\ topics \in [Keys -> Seq(Contents)]
  /\ backlog \in Seq(Posts)
  /\ message \in Posts
  /\ publisher_pc \in {"accept", "push", "distribute"}
  /\ posted \in 0..MaxPosts
  /\ entries \in [Users -> SUBSET Keys]
  /\ subscribed \in [Users -> [Keys -> BOOLEAN]]
  /\ readUpTo \in [Users -> [Keys -> Nat]]
  /\ receiver_pc \in [Users -> {"recv", "apply", "rewind", "signal"}]
  /\ request \in [Users -> Keys]
  /\ requests \in [Users -> Seq(Topics)]
  /\ asked \in [Users -> 0..MaxRequests]
  /\ connected \in [Users -> BOOLEAN]
  /\ mutex_sender \in Users \cup {NoThread}
  /\ sender_pc \in [Users -> {"start", "lock", "waiting", "woken"} \cup InPass]
  /\ topic \in [Users -> Keys \cup {-1}]
  /\ index \in [Users -> Nat]
  /\ stream \in [Users -> Seq(Messages)]
  /\ taken \in [Users -> Nat]
  /\ replayedAt \in [Users -> [Keys -> Nat]]

Init ==
  /\ up = TRUE
  /\ topics = [t \in Keys |-> <<>>]
  /\ backlog = <<>>
  /\ message = Hangup
  /\ publisher_pc = "accept"
  /\ posted = 0
  /\ entries = [u \in Users |-> {}]
  /\ subscribed = [u \in Users |-> [t \in Keys |-> FALSE]]
  /\ readUpTo = [u \in Users |-> [t \in Keys |-> 0]]
  /\ receiver_pc = [u \in Users |-> "recv"]
  /\ request = [u \in Users |-> EmptyTopic]
  /\ requests = [u \in Users |-> <<>>]
  /\ asked = [u \in Users |-> 0]
  /\ connected = [u \in Users |-> TRUE]
  /\ mutex_sender = NoThread
  /\ sender_pc = [u \in Users |-> "start"]
  /\ topic = [u \in Users |-> -1]
  /\ index = [u \in Users |-> 0]
  /\ stream = [u \in Users |-> <<>>]
  /\ taken = [u \in Users |-> 0]
  /\ replayedAt = [u \in Users |-> [t \in Keys |-> 0]]

(***************************************************************************)
(* The processes around the broker: post() of a publisher, which connects, *)
(* sends one message and closes (or dies before it has sent); the main     *)
(* thread of a subscriber, which sends the topic the user typed; the       *)
(* receiver thread of a subscriber; and the end of a subscriber process.   *)
(* A publisher's connection and its message are one step: one that         *)
(* connects, stays and sends nothing would keep handle_publisher in        *)
(* recv(), and is not modelled.                                            *)
(***************************************************************************)
Post(m) ==
  /\ up
  /\ posted < MaxPosts
  /\ posted' = posted + 1
  /\ backlog' = Append(backlog, m)
  /\ UNCHANGED <<up, topics, message, publisher_pc, informationVars, receiverVars,
                 passVars, sender_pc, streamVars>>

SendRequest(u, t) ==
  /\ up
  /\ connected[u]
  /\ asked[u] < MaxRequests
  /\ asked' = [asked EXCEPT ![u] = @ + 1]
  /\ requests' = [requests EXCEPT ![u] = Append(@, t)]
  /\ UNCHANGED <<up, publisherVars, informationVars, receiver_pc, request,
                 connected, passVars, sender_pc, streamVars>>

TakeMessage(u) ==
  /\ up
  /\ connected[u]
  /\ taken[u] < Len(stream[u])
  /\ taken' = [taken EXCEPT ![u] = @ + 1]
  /\ UNCHANGED <<up, publisherVars, informationVars, receiverVars, passVars,
                 sender_pc, stream>>

Leave(u) ==
  /\ up
  /\ u \in Leavers
  /\ connected[u]
  /\ connected' = [connected EXCEPT ![u] = FALSE]
  /\ UNCHANGED <<up, publisherVars, informationVars, receiver_pc, request,
                 requests, asked, passVars, sender_pc, streamVars>>

(***************************************************************************)
(* handle_publisher.  It alone takes mutex_message, so the lock never      *)
(* blocks.  While push_back runs the vector may be reallocated, which the  *)
(* sender threads, holding only mutex_sender, can observe (CopiedContents).*)
(***************************************************************************)
\* Mutant: the result of recv() is not tested.
AnythingReceived(m) == TRUE

Received(m) == m # Hangup

Accept ==
  /\ up
  /\ publisher_pc = "accept"
  /\ backlog # <<>>
  /\ backlog' = Tail(backlog)
  /\ message' = Head(backlog)
  /\ publisher_pc' = IF Received(Head(backlog)) THEN "push" ELSE "accept"
  /\ UNCHANGED <<up, topics, posted, informationVars, receiverVars, passVars,
                 sender_pc, streamVars>>

push_back(v, c) == Append(v, c)

\* Mutant: the topics are written under mutex_sender, as they are read.
RegisterUnderSenderLock ==
  /\ up
  /\ publisher_pc = "push"
  /\ mutex_sender = NoThread
  /\ topics' = [topics EXCEPT ![message.topic] = push_back(@, message.content)]
  /\ publisher_pc' = "distribute"
  /\ UNCHANGED <<up, backlog, message, posted, informationVars, receiverVars,
                 passVars, sender_pc, streamVars>>

RegisterMessage ==
  /\ up
  /\ publisher_pc = "push"
  /\ topics' = [topics EXCEPT ![message.topic] = push_back(@, message.content)]
  /\ publisher_pc' = "distribute"
  /\ UNCHANGED <<up, backlog, message, posted, informationVars, receiverVars,
                 passVars, sender_pc, streamVars>>

\* pthread_cond_broadcast: whoever waits now must reacquire the mutex;
\* whoever is not waiting is not told.
Broadcast ==
  sender_pc' = [u \in Users |->
                  IF sender_pc[u] = "waiting" THEN "woken" ELSE sender_pc[u]]

DistributeMessage ==
  /\ up
  /\ publisher_pc = "distribute"
  /\ IF topics[message.topic] # <<>> THEN Broadcast ELSE UNCHANGED sender_pc
  /\ publisher_pc' = "accept"
  /\ UNCHANGED <<up, topics, backlog, message, posted, informationVars,
                 receiverVars, passVars, streamVars>>

(***************************************************************************)
(* handle_receiver: adds, removes or re-adds a subscription without a lock *)
(* (the lock is commented out in the source) and broadcasts.  After the    *)
(* subscriber has gone recv() returns 0 for ever, which the code takes for *)
(* a request for the empty topic.                                          *)
(***************************************************************************)
Receive(u) ==
  /\ up
  /\ receiver_pc[u] = "recv"
  /\ \/ /\ requests[u] # <<>>
        /\ request' = [request EXCEPT ![u] = Head(requests[u])]
        /\ requests' = [requests EXCEPT ![u] = Tail(@)]
     \/ /\ requests[u] = <<>>
        /\ ~connected[u]
        /\ request' = [request EXCEPT ![u] = EmptyTopic]
        /\ UNCHANGED requests
  /\ receiver_pc' = [receiver_pc EXCEPT ![u] = "apply"]
  /\ UNCHANGED <<up, publisherVars, informationVars, asked, connected, passVars,
                 sender_pc, streamVars>>

Subscribe(u) ==
  /\ up
  /\ receiver_pc[u] = "apply"
  /\ request[u] \notin entries[u]
  /\ entries' = [entries EXCEPT ![u] = @ \cup {request[u]}]
  /\ subscribed' = [subscribed EXCEPT ![u][request[u]] = TRUE]
  /\ readUpTo' = [readUpTo EXCEPT ![u][request[u]] = 0]
  /\ receiver_pc' = [receiver_pc EXCEPT ![u] = "signal"]
  /\ UNCHANGED <<up, publisherVars, replayedAt, request, requests, asked,
                 connected, passVars, sender_pc, streamVars>>

Unsubscribe(u) ==
  /\ up
  /\ receiver_pc[u] = "apply"
  /\ request[u] \in entries[u]
  /\ subscribed[u][request[u]]
  /\ subscribed' = [subscribed EXCEPT ![u][request[u]] = FALSE]
  /\ receiver_pc' = [receiver_pc EXCEPT ![u] = "signal"]
  /\ UNCHANGED <<up, publisherVars, entries, readUpTo, replayedAt, request,
                 requests, asked, connected, passVars, sender_pc, streamVars>>

Resubscribe(u) ==
  /\ up
  /\ receiver_pc[u] = "apply"
  /\ request[u] \in entries[u]
  /\ ~subscribed[u][request[u]]
  /\ subscribed' = [subscribed EXCEPT ![u][request[u]] = TRUE]
  /\ receiver_pc' = [receiver_pc EXCEPT ![u] = "rewind"]
  /\ UNCHANGED <<up, publisherVars, entries, readUpTo, replayedAt, request,
                 requests, asked, connected, passVars, sender_pc, streamVars>>

\* The second assignment of the re-subscription: replay from the first message.
Rewind(u) ==
  /\ up
  /\ receiver_pc[u] = "rewind"
  /\ readUpTo' = [readUpTo EXCEPT ![u][request[u]] = 0]
  /\ replayedAt' = [replayedAt EXCEPT ![u][request[u]] = Len(stream[u])]
  /\ receiver_pc' = [receiver_pc EXCEPT ![u] = "signal"]
  /\ UNCHANGED <<up, publisherVars, entries, subscribed, request, requests, asked,
                 connected, passVars, sender_pc, streamVars>>

Signal(u) ==
  /\ up
  /\ receiver_pc[u] = "signal"
  /\ Broadcast
  /\ receiver_pc' = [receiver_pc EXCEPT ![u] = "recv"]
  /\ UNCHANGED <<up, publisherVars, informationVars, request, requests, asked,
                 connected, passVars, streamVars>>

(***************************************************************************)
(* handle_sender.  One pass goes over the user's topics in map order, sends*)
(* what lies between the cursor and the end of the topic's vector, and     *)
(* stores the vector's size as the new cursor.                             *)
(***************************************************************************)
\* Mutant: the mutex is not waited for.
LockIgnored == TRUE

LockIsFree == mutex_sender = NoThread

ConnectSender(u) ==
  /\ up
  /\ sender_pc[u] = "start"
  /\ sender_pc' = [sender_pc EXCEPT ![u] = "lock"]
  /\ UNCHANGED <<up, publisherVars, informationVars, receiverVars, passVars,
                 streamVars>>

\* Locks mutex_sender and releases it again inside pthread_cond_wait.
Sleep(u) ==
  /\ up
  /\ sender_pc[u] = "lock"
  /\ LockIsFree
  /\ sender_pc' = [sender_pc EXCEPT ![u] = "waiting"]
  /\ UNCHANGED <<up, publisherVars, informationVars, receiverVars, passVars,
                 streamVars>>

SpuriousWakeup(u) ==
  /\ up
  /\ sender_pc[u] = "waiting"
  /\ sender_pc' = [sender_pc EXCEPT ![u] = "woken"]
  /\ UNCHANGED <<up, publisherVars, informationVars, receiverVars, passVars,
                 streamVars>>

\* pthread_cond_wait returns: the thread owns mutex_sender again.
BeginPass(u) ==
  /\ up
  /\ sender_pc[u] = "woken"
  /\ LockIsFree
  /\ mutex_sender' = u
  /\ sender_pc' = [sender_pc EXCEPT ![u] = "scan"]
  /\ topic' = [topic EXCEPT ![u] = -1]
  /\ UNCHANGED <<up, publisherVars, informationVars, receiverVars, index,
                 streamVars>>

Remaining(u) == {t \in entries[u] : t > topic[u]}

\* The range-for copies the next pair of the map; isSubscribed and
\* isReadUpTo are local from here on.
NextTopic(u) ==
  /\ up
  /\ sender_pc[u] = "scan"
  /\ \E t \in Remaining(u) :
       /\ \A k \in Remaining(u) : t <= k
       /\ topic' = [topic EXCEPT ![u] = t]
       /\ IF subscribed[u][t]
          THEN /\ index' = [index EXCEPT ![u] = readUpTo[u][t]]
               /\ sender_pc' = [sender_pc EXCEPT ![u] = "check"]
          ELSE UNCHANGED <<index, sender_pc>>
  /\ UNCHANGED <<up, publisherVars, informationVars, receiverVars, mutex_sender,
                 streamVars>>

\* Mutant: the last message of a topic is taken for one already sent.
HasAllButLast(u) == index[u] + 1 < Len(topics[topic[u]])

HasUnsent(u) == index[u] < Len(topics[topic[u]])

\* if (isReadUpTo < topics[topic].size()).  operator[] inserts a topic that is
\* absent, here and at every later look, which `topics` does not show: an empty
\* topic is one that is absent or has been inserted, and register_message, which
\* pushes back onto the one and assigns to the other, makes no difference
\* either.  Of what the insertion may do to the map while register_message
\* changes it under the other mutex, only the end of the process is modelled
\* (TreeOverlapped, in Die), not a lookup that goes astray.
CheckTopic(u) ==
  /\ up
  /\ sender_pc[u] = "check"
  /\ sender_pc' = [sender_pc EXCEPT ![u] =
                     IF HasUnsent(u) THEN "send" ELSE "scan"]
  /\ UNCHANGED <<up, publisherVars, informationVars, receiverVars, passVars,
                 streamVars>>

\* strcpy out of topics[topic][i].  The publisher thread may be inside
\* push_back on the same vector.
CopyOverlapped(u) == publisher_pc = "push" /\ message.topic = topic[u]

CopiedContents(u) ==
  IF ~CopyOverlapped(u)
  THEN {topics[topic[u]][index[u] + 1]}
  ELSE (IF "intact" \in RaceOutcomes THEN {topics[topic[u]][index[u] + 1]} ELSE {})
       \cup (IF "garbage" \in RaceOutcomes THEN {Garbage} ELSE {})

SendNext(u) ==
  /\ up
  /\ sender_pc[u] = "send"
  /\ HasUnsent(u)
  /\ connected[u] => Len(stream[u]) - taken[u] < SocketCapacity
  /\ \E c \in CopiedContents(u) :
       stream' = [stream EXCEPT ![u] =
          Append(@, [topic |-> topic[u], index |-> index[u] + 1, content |-> c])]
  /\ index' = [index EXCEPT ![u] = @ + 1]
  /\ UNCHANGED <<up, publisherVars, informationVars, receiverVars, mutex_sender,
                 topic, sender_pc, taken>>

LeaveLoop(u) ==
  /\ up
  /\ sender_pc[u] = "send"
  /\ ~HasUnsent(u)
  /\ sender_pc' = [sender_pc EXCEPT ![u] = "commit"]
  /\ UNCHANGED <<up, publisherVars, informationVars, receiverVars, passVars,
                 streamVars>>

\* Mutant: the cursor of the map's pair stays what it was.
OldCursor(u) == readUpTo[u][topic[u]]

\* Mutant: the cursor is left at the last message sent.
LastSent(u) == Len(topics[topic[u]]) - 1

\* The size is read again, not taken from the loop that has just ended.
NewCursor(u) == Len(topics[topic[u]])

CommitCursor(u) ==
  /\ up
  /\ sender_pc[u] = "commit"
  /\ readUpTo' = [readUpTo EXCEPT ![u][topic[u]] = NewCursor(u)]
  /\ sender_pc' = [sender_pc EXCEPT ![u] = "scan"]
  /\ UNCHANGED <<up, publisherVars, entries, subscribed, replayedAt, receiverVars,
                 passVars, streamVars>>

\* Mutant: the pass ends without the unlock.
KeepLock == UNCHANGED mutex_sender

Unlock == mutex_sender' = NoThread

EndPass(u) ==
  /\ up
  /\ sender_pc[u] = "scan"
  /\ Remaining(u) = {}
  /\ Unlock
  /\ sender_pc' = [sender_pc EXCEPT ![u] = "lock"]
  /\ UNCHANGED <<up, publisherVars, informationVars, receiverVars, topic, index,
                 streamVars>>

\* register_message may be inserting its topic into the map the pass looks
\* topics up in; handle_receiver adds a topic to the map the pass goes over, or
\* its user to the map of the users.
TreeOverlapped(u) ==
  \/ /\ sender_pc[u] \in OnTopic
     /\ publisher_pc = "push" /\ topics[message.topic] = <<>>
  \/ /\ sender_pc[u] \in InPass
     /\ \E v \in Users : /\ receiver_pc[v] = "apply" /\ request[v] \notin entries[v]
                        /\ (v = u \/ entries[v] = {})

\* The ways the whole process stops in these threads: SIGPIPE, which the
\* broker does not handle, on a connection whose reader has gone, a copy out of
\* a vector that is being reallocated, and a map torn by two threads.
Die(u) ==
  /\ up
  /\ \/ /\ sender_pc[u] = "send"
        /\ HasUnsent(u)
        /\ ~connected[u] \/ (CopyOverlapped(u) /\ "crash" \in RaceOutcomes)
     \/ TreeOverlapped(u) /\ "crash" \in RaceOutcomes
  /\ up' = FALSE
  /\ UNCHANGED <<publisherVars, informationVars, receiverVars, passVars,
                 sender_pc, streamVars>>

PublisherThread == Accept \/ RegisterMessage \/ DistributeMessage

ReceiverThread(u) ==
  Receive(u) \/ Subscribe(u) \/ Unsubscribe(u) \/ Resubscribe(u) \/ Rewind(u)
  \/ Signal(u)

AcquireLock(u) == Sleep(u) \/ BeginPass(u)

Pass(u) ==
  \/ NextTopic(u) \/ CheckTopic(u) \/ SendNext(u) \/ LeaveLoop(u)
  \/ CommitCursor(u) \/ EndPass(u)

Environment ==
  \/ \E m \in Posts : Post(m)
  \/ \E u \in Users : TakeMessage(u) \/ Leave(u) \/ SpuriousWakeup(u)
  \/ \E u \in Users, t \in Topics : SendRequest(u, t)

Next ==
  \/ Environment
  \/ PublisherThread
  \/ \E u \in Users :
       ReceiverThread(u) \/ ConnectSender(u) \/ AcquireLock(u) \/ Pass(u) \/ Die(u)

Spec == Init /\ [][Next]_vars

(***************************************************************************)
(* The kernel runs every thread that stays runnable.  Nobody has to post,  *)
(* type or leave, and no waiter is preferred when mutex_sender is released.*)
(***************************************************************************)
ThreadsRun ==
  /\ WF_vars(PublisherThread)
  /\ \A u \in Users :
       /\ WF_vars(ReceiverThread(u))
       /\ WF_vars(ConnectSender(u))
       /\ WF_vars(AcquireLock(u))
       /\ WF_vars(Pass(u))

\* The receiver thread of a subscriber process keeps calling recv().
SubscribersRead == \A u \in Users : WF_vars(TakeMessage(u))

ThreadFairSpec == Spec /\ ThreadsRun
FairSpec == ThreadFairSpec /\ SubscribersRead
=============================================================================
