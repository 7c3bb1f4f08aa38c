----------------------------- MODULE ChatProofs -----------------------------
(* Proofs about the chat room, for any number of clients, slots and lines. *)
EXTENDS ChatProperties, TLAPS

-----------------------------------------------------------------------------
(* The slots of the circular queue                                         *)

LEMMA QuotientRemainder ==
  ASSUME NEW n \in Nat \ {0}, NEW a \in Nat
  PROVE  \E q \in Nat : \E r \in 0..(n - 1) : a = n * q + r /\ a % n = r
<1>1. a % n \in 0..(n - 1)
  OBVIOUS
<1>2. a = n * (a \div n) + (a % n)
  OBVIOUS
<1>3. a \div n \in Int
  OBVIOUS
<1>4. ASSUME NEW q \in Int, NEW r \in 0..(n - 1), n * q + r \in Nat PROVE q \in Nat
  BY <1>4
<1>5. QED
  BY <1>1, <1>2, <1>3, <1>4

\* The slot after that of the a-th message is that of the next one.
LEMMA SlotAfter ==
  ASSUME NEW n \in Nat \ {0}, NEW a \in Nat
  PROVE  ((a % n) + 1) % n = (a + 1) % n
<1>1. PICK q \in Nat, r \in 0..(n - 1) : a = n * q + r /\ a % n = r
  BY QuotientRemainder
<1>2. CASE r < n - 1
  <2>1. (n * q + (r + 1)) % n = r + 1 /\ (r + 1) % n = r + 1
    BY <1>2
  <2>2. QED
    BY <1>1, <2>1
<1>3. CASE r = n - 1
  <2>1. (n * (q + 1) + 0) % n = 0 /\ n % n = 0
    OBVIOUS
  <2>2. a + 1 = n * (q + 1) + 0
    BY <1>1, <1>3
  <2>3. QED
    BY <1>1, <1>3, <2>1, <2>2
<1>4. QED
  BY <1>2, <1>3

\* Messages that are less than a round apart are in different slots.
LEMMA SlotsDiffer ==
  ASSUME NEW n \in Nat \ {0}, NEW a \in Nat, NEW b \in Nat, a < b, b - a < n
  PROVE  a % n # b % n
<1>1. PICK q \in Nat, r \in 0..(n - 1) : a = n * q + r /\ a % n = r
  BY QuotientRemainder
<1>2. PICK p \in Nat, s \in 0..(n - 1) : b = n * p + s /\ b % n = s
  BY QuotientRemainder
<1>3. ASSUME r = s PROVE FALSE
  <2>1. n * p - n * q = b - a
    BY <1>1, <1>2, <1>3
  <2>2. p > q
    BY <2>1
  <2>3. n * p - n * q >= n
    BY <2>2
  <2>4. QED
    BY <2>1, <2>3
<1>4. QED
  BY <1>1, <1>2, <1>3
-----------------------------------------------------------------------------
(* The invariant                                                           *)

HasMutex == {"advance", "copy"}

\* Threads exist for the clients accepted, and have a line between recv() and
\* the end of enqueue().
ThreadsStarted ==
  \A r \in Clients :
    /\ r >= threadCount => receiver_pc[r] = "none"
    /\ receiver_pc[r] \in {"stamp", "check", "lock"} \cup HasMutex
         => receivedMessage[r] \in Messages

\* A thread that moves `rear` or writes a slot holds the mutex, and no other does.
OneWriter == \A r \in Clients : receiver_pc[r] \in HasMutex <=> mutex = r

Copying == \E r \in Clients : receiver_pc[r] = "copy"

\* Messages `rear` has been moved on for.
Advanced == IF Copying THEN Len(enqueued) + 1 ELSE Len(enqueued)

\* The index of each end of the queue is the number of messages that went
\* through it, modulo the number of slots, whatever the other end does.
RearFollows == rear = IF Advanced = 0 THEN -1 ELSE (Advanced - 1) % N

FrontFollows ==
  \/ front = dequeued % N
  \/ front = -1 /\ dequeued = 0 /\ Advanced = 0 /\ mutex = NoThread /\ sender_pc = "poll"

\* The slot that is broadcast is that of the last message taken out.
CurrentFollows ==
  /\ sender_pc = "send" => dequeued >= 1 /\ current = (dequeued - 1) % N
  /\ sender_pc # "send" => id = 0

Typed == TypeOK /\ ThreadsStarted

Queue == OneWriter /\ RearFollows /\ FrontFollows /\ CurrentFollows

\* A broadcast that is not ahead of the queue names a message put into it.
BroadcastsNamed ==
  \A c \in Clients : \A i \in 1..Len(stream[c]) :
    stream[c][i].behind >= 0 => stream[c][i].number \in 1..Len(enqueued)

\* The last broadcast a client was sent: it has had the current one when the
\* loop has come past it.
LastBroadcast(c) == IF sender_pc = "send" /\ id <= c THEN dequeued - 1 ELSE dequeued

StreamsFollow ==
  \A c \in Clients :
    stream[c] # <<>> =>
      /\ c < threadCount
      /\ \A i \in 1..Len(stream[c]) : stream[c][i].number = stream[c][1].number + i - 1
      /\ ~left[c] => stream[c][Len(stream[c])].number = LastBroadcast(c)

IInv ==
  /\ Typed
  /\ Queue
  /\ QueueHoldsTheLatest
  /\ BroadcastsNamed
  /\ BroadcastsAreFaithful
  /\ StreamsFollow

-----------------------------------------------------------------------------
(* Types                                                                   *)

LEMMA Constants ==
  N \in Nat \ {0} /\ MAX_NUM_CLIENT \in Nat \ {0} /\ SocketCapacity \in Nat \ {0}
BY QueueAssumption, ClientsAssumption, CapacityAssumption DEF N

LEMMA SlotOfNumber == \A k \in Nat : k % N \in Slots
BY Constants DEF Slots

LEMMA TypedInit == Init => Typed
<1> SUFFICES ASSUME Init PROVE Typed
  OBVIOUS
<1>1. 0 \in Clients /\ 0 \in Slots
  BY Constants DEF Clients, Slots
<1>2. QED
  BY <1>1, Constants DEF Init, Typed, TypeOK, ThreadsStarted, ReceiverPCs, HasMutex

LEMMA TypedStep == Typed /\ FrontFollows /\ CurrentFollows /\ [Next]_vars => Typed'
<1> SUFFICES ASSUME Typed, FrontFollows, CurrentFollows, [Next]_vars PROVE Typed'
  OBVIOUS
<1> USE Constants DEF Typed, TypeOK, ThreadsStarted, ReceiverPCs, HasMutex
<1>1. ASSUME NEW c \in Clients, Type(c) PROVE Typed'
  <2>1. [from |-> c, line |-> typed[c] + 1, userId |-> -1] \in Messages
    <3>1. typed \in [Clients -> Nat]
      OBVIOUS
    <3>2. typed[c] + 1 \in Nat \ {0}
      BY ONLY c \in Clients, <3>1
    <3>3. QED
      BY ONLY c \in Clients, <3>2, SMTT(30) DEF Messages
  <2>2. inbox' \in [Clients -> Seq(Messages)]
    <3>1. PICK m \in Messages : inbox' = [inbox EXCEPT ![c] = Append(@, m)]
      BY <1>1, <2>1 DEF Type
    <3>2. inbox \in [Clients -> Seq(Messages)]
      OBVIOUS
    <3>3. QED
      BY ONLY c \in Clients, <3>1, <3>2
  <2>3. typed' \in [Clients -> Nat]
    <3>1. typed \in [Clients -> Nat] /\ typed' = [typed EXCEPT ![c] = @ + 1]
      BY <1>1 DEF Type
    <3>2. QED
      BY ONLY c \in Clients, <3>1
  <2>4. QED
    BY <1>1, <2>2, <2>3 DEF Type, roomVars, queueVars, receiverVars, senderVars
<1>2. ASSUME NEW c \in Clients, Leave(c) PROVE Typed'
  BY <1>2 DEF Leave, roomVars, queueVars, receiverVars, senderVars
<1>s. ASSUME NEW c \in Clients, Show(c) PROVE Typed'
  <2>1. unread' \in [Clients -> 0..SocketCapacity]
    <3>1. /\ unread \in [Clients -> 0..SocketCapacity] /\ unread[c] > 0
          /\ unread' = [unread EXCEPT ![c] = @ - 1]
      BY <1>s DEF Show
    <3>2. QED
      BY ONLY c \in Clients, <3>1, Constants
  <2>2. QED
    BY <1>s, <2>1
    DEF Show, roomVars, queueVars, receiverVars, senderVars, clientVars
<1>3. ASSUME AcceptClient PROVE Typed'
  <2>1. threadCount \in Clients
    BY <1>3 DEF AcceptClient, Clients
  <2>2. threadCount' = threadCount + 1 /\ threadCount' \in 0..MAX_NUM_CLIENT
    BY <1>3 DEF AcceptClient
  <2>3. receiver_pc' = [receiver_pc EXCEPT ![threadCount] = "call"]
    BY <1>3 DEF AcceptClient
  <2>4. receiver_pc' \in [Clients -> ReceiverPCs]
    BY <2>3
  <2>5. ThreadsStarted'
    <3>1. UNCHANGED receivedMessage
      BY <1>3 DEF AcceptClient
    <3>2. \A r \in Clients : r \in Int /\ receiver_pc'[r] =
            IF r = threadCount THEN "call" ELSE receiver_pc[r]
      BY <2>3 DEF Clients
    <3>3. \A r \in Clients : r >= threadCount => receiver_pc[r] = "none"
      OBVIOUS
    <3>4. \A r \in Clients : r >= threadCount' => receiver_pc'[r] = "none"
      BY ONLY <2>1, <2>2, <3>2, <3>3 DEF Clients
    <3>5. QED
      BY <3>1, <3>2, <3>4
  <2>6. QED
    BY <1>3, <2>1, <2>2, <2>4, <2>5 DEF AcceptClient, queueVars, senderVars, clientVars
<1>4. ASSUME NEW r \in Clients, CallRecv(r) PROVE Typed'
  BY <1>4 DEF CallRecv, roomVars, queueVars, senderVars, clientVars
<1>5. ASSUME NEW r \in Clients, ReceiveLine(r) PROVE Typed'
  <2>1. PICK c \in Clients : c = listensTo[r]
    OBVIOUS
  <2>2. Head(inbox[c]) \in Messages /\ Tail(inbox[c]) \in Seq(Messages)
    <3>1. inbox[c] \in Seq(Messages) /\ inbox[c] # <<>>
      BY <1>5, <2>1 DEF ReceiveLine
    <3>2. QED
      BY ONLY <3>1
  <2>3. inbox' \in [Clients -> Seq(Messages)]
    BY <1>5, <2>1, <2>2 DEF ReceiveLine
  <2>4. receivedMessage' \in [Clients -> Messages \cup {Junk}]
    BY <1>5, <2>1, <2>2 DEF ReceiveLine
  <2>5. ThreadsStarted'
    BY <1>5, <2>1, <2>2 DEF ReceiveLine, roomVars
  <2>6. QED
    BY <1>5, <2>3, <2>4, <2>5 DEF ReceiveLine, roomVars, queueVars, senderVars
<1>6. ASSUME NEW r \in Clients, EndReceiver(r) PROVE Typed'
  BY <1>6 DEF EndReceiver, roomVars, queueVars, senderVars, clientVars
<1>7. ASSUME NEW r \in Clients, Stamp(r) PROVE Typed'
  <2>1. receivedMessage[r] \in Messages
    BY <1>7 DEF Stamp
  <2>2. [receivedMessage[r] EXCEPT !.userId = userId] \in Messages
    BY <2>1 DEF Messages
  <2>3. receivedMessage' = [receivedMessage EXCEPT ![r] =
                              [receivedMessage[r] EXCEPT !.userId = userId]]
    BY <1>7 DEF Stamp
  <2>4. receivedMessage' \in [Clients -> Messages \cup {Junk}]
    BY <2>2, <2>3
  <2>5. ThreadsStarted'
    BY <1>7, <2>2, <2>3 DEF Stamp, roomVars
  <2>6. QED
    BY <1>7, <2>4, <2>5 DEF Stamp, roomVars, queueVars, senderVars, clientVars
<1>8. ASSUME NEW r \in Clients, CheckFull(r) PROVE Typed'
  BY <1>8 DEF CheckFull, roomVars, queueVars, senderVars, clientVars
<1>9. ASSUME NEW r \in Clients, LockQueue(r) PROVE Typed'
  <2>1. front' \in Slots \cup {-1}
    BY <1>9 DEF LockQueue, Slots
  <2>2. ThreadsStarted'
    BY <1>9 DEF LockQueue, roomVars
  <2>3. QED
    BY <1>9, <2>1, <2>2 DEF LockQueue, roomVars, senderVars, clientVars
<1>10. ASSUME NEW r \in Clients, AdvanceRear(r) PROVE Typed'
  <2>1. rear' \in Slots
    BY <1>10 DEF AdvanceRear, NextSlot, Slots
  <2>2. QED
    BY <1>10, <2>1 DEF AdvanceRear, roomVars, senderVars, clientVars
<1>11. ASSUME NEW r \in Clients, CopyMessage(r) PROVE Typed'
  <2>1. PICK m \in Messages : m = receivedMessage[r]
    BY <1>11 DEF CopyMessage
  <2>2. messages' \in [Slots -> Messages \cup {Junk}]
    BY <1>11, <2>1 DEF CopyMessage
  <2>3. enqueued' \in Seq(Messages)
    BY <1>11, <2>1 DEF CopyMessage
  <2>4. ThreadsStarted'
    BY <1>11 DEF CopyMessage, roomVars
  <2>5. QED
    BY <1>11, <2>2, <2>3, <2>4 DEF CopyMessage, roomVars, senderVars, clientVars
<1>12. ASSUME FindMessage PROVE Typed'
  BY <1>12 DEF FindMessage, roomVars, queueVars, receiverVars, clientVars
<1>13. ASSUME Dequeue PROVE Typed'
  <2>1. front \in Slots
    BY <1>13, SlotOfNumber DEF Dequeue, FrontFollows
  <2>2. front' \in Slots
    BY <1>13, <2>1 DEF Dequeue, NextSlot, Slots
  <2>3. dequeued' \in Nat
    BY <1>13 DEF Dequeue
  <2>4. QED
    BY <1>13, <2>1, <2>2, <2>3, SMTT(30)
    DEF Dequeue, roomVars, receiverVars, clientVars
<1>14. ASSUME NextClient PROVE id' \in Clients /\ sender_pc' \in {"poll", "lock", "send"}
  <2>1. id \in 0..(MAX_NUM_CLIENT - 1) /\ sender_pc \in {"poll", "lock", "send"}
    BY DEF Clients
  <2>2. QED
    BY ONLY <1>14, <2>1, Constants DEF NextClient, Clients
<1>15. ASSUME SendToNobody PROVE Typed'
  BY <1>14, <1>15 DEF SendToNobody, roomVars, queueVars, receiverVars, clientVars
<1>16. ASSUME SendToClient PROVE Typed'
  <2>1. PICK m \in SlotContents :
          stream' = [stream EXCEPT ![id] = Append(@,
            [number |-> dequeued, message |-> m, behind |-> Len(enqueued) - dequeued])]
    BY <1>16 DEF SendToClient
  <2>2. m \in Messages \cup {Junk}
    BY DEF SlotContents
  <2>3. dequeued \in Nat \ {0}
    BY <1>16 DEF SendToClient, CurrentFollows
  <2>4. Len(enqueued) - dequeued \in Int
    OBVIOUS
  <2>5. [number |-> dequeued, message |-> m, behind |-> Len(enqueued) - dequeued]
          \in Broadcasts
    BY <2>2, <2>3, <2>4 DEF Broadcasts
  <2>6. stream' \in [Clients -> Seq(Broadcasts)]
    BY <2>1, <2>5
  <2>7. unread' \in [Clients -> 0..SocketCapacity]
    <3>1. /\ unread \in [Clients -> 0..SocketCapacity] /\ id \in Clients
          /\ unread[id] < SocketCapacity
          /\ unread' = [unread EXCEPT ![id] = @ + 1]
      BY <1>16 DEF SendToClient
    <3>2. QED
      BY ONLY <3>1, Constants
  <2>8. QED
    BY <1>14, <1>16, <2>6, <2>7
    DEF SendToClient, roomVars, queueVars, receiverVars, clientVars
<1>17. ASSUME handlerOnConnectionBroken PROVE Typed'
  BY <1>17
  DEF handlerOnConnectionBroken, roomVars, queueVars, receiverVars, senderVars, clientVars
<1>18. ASSUME UNCHANGED vars PROVE Typed'
  BY <1>18 DEF vars, roomVars, queueVars, receiverVars, senderVars, clientVars
<1>19. QED
  BY <1>1, <1>2, <1>s, <1>3, <1>4, <1>5, <1>6, <1>7, <1>8, <1>9, <1>10, <1>11, <1>12,
     <1>13, <1>15, <1>16, <1>17, <1>18
  DEF Next, SenderThread, ReceiverThread

-----------------------------------------------------------------------------
(* The queue and its two ends                                              *)

\* A step that leaves the queue alone, and who writes it.
OffQueue ==
  /\ UNCHANGED queueVars
  /\ \A r \in Clients : receiver_pc[r] \in HasMutex \/ receiver_pc'[r] \in HasMutex
       => receiver_pc'[r] = receiver_pc[r]

\* The steps of the clients, of the main thread and of a receiver thread
\* outside enqueue() leave the sender thread alone as well.
LEMMA RoomSteps ==
  ASSUME Typed,
         \/ AcceptClient
         \/ \E c \in Clients :
              \/ Type(c) \/ Leave(c) \/ Show(c)
              \/ CallRecv(c) \/ ReceiveLine(c) \/ EndReceiver(c) \/ Stamp(c) \/ CheckFull(c)
         \/ UNCHANGED vars
  PROVE  OffQueue /\ UNCHANGED senderVars /\ UNCHANGED stream
<1> USE DEF OffQueue, HasMutex, Typed, TypeOK, ThreadsStarted
<1>1. CASE AcceptClient
  <2>1. threadCount \in Clients
    BY <1>1, Constants DEF AcceptClient, Clients
  <2>2. receiver_pc[threadCount] = "none"
    BY <2>1 DEF Clients
  <2>3. receiver_pc' = [receiver_pc EXCEPT ![threadCount] = "call"]
    BY <1>1 DEF AcceptClient
  <2>4. QED
    BY <1>1, <2>1, <2>2, <2>3 DEF AcceptClient
<1>2. ASSUME NEW c \in Clients, Type(c) \/ Leave(c) \/ Show(c)
      PROVE  OffQueue /\ UNCHANGED senderVars /\ UNCHANGED stream
  BY <1>2 DEF Type, Leave, Show, receiverVars
<1>3. ASSUME NEW c \in Clients,
             CallRecv(c) \/ ReceiveLine(c) \/ EndReceiver(c) \/ Stamp(c) \/ CheckFull(c)
      PROVE  OffQueue /\ UNCHANGED senderVars /\ UNCHANGED stream
  BY <1>3 DEF CallRecv, ReceiveLine, EndReceiver, Stamp, CheckFull
<1>4. CASE UNCHANGED vars
  BY <1>4 DEF vars, receiverVars
<1>5. QED
  BY <1>1, <1>2, <1>3, <1>4

LEMMA SenderStepsOffQueue ==
  ASSUME FindMessage \/ SendToNobody \/ SendToClient \/ handlerOnConnectionBroken
  PROVE  OffQueue
BY DEF FindMessage, SendToNobody, SendToClient, handlerOnConnectionBroken, OffQueue,
       receiverVars

LEMMA OffQueueKeeps ==
  ASSUME OffQueue
  PROVE  /\ OneWriter => OneWriter'
         /\ Copying' = Copying
         /\ Advanced' = Advanced
         /\ RearFollows => RearFollows'
         /\ QueueHoldsTheLatest => QueueHoldsTheLatest'
<1> USE DEF OffQueue, HasMutex, queueVars
<1>1. OneWriter => OneWriter'
  BY DEF OneWriter
<1>2. Copying' = Copying
  BY DEF Copying
<1>3. Advanced' = Advanced
  BY <1>2 DEF Advanced
<1>4. RearFollows => RearFollows'
  BY <1>3 DEF RearFollows
<1>5. \A s : BeingWritten(s)' = BeingWritten(s)
  BY <1>2 DEF BeingWritten, Copying
<1>6. QueueHoldsTheLatest => QueueHoldsTheLatest'
  BY <1>5 DEF QueueHoldsTheLatest
<1>7. QED
  BY <1>1, <1>2, <1>3, <1>4, <1>6

\* A receiver thread inside enqueue() is the only one.
LEMMA OnlyWriter ==
  ASSUME OneWriter, NEW r \in Clients, receiver_pc[r] \in HasMutex
  PROVE  /\ mutex = r
         /\ \A t \in Clients : t # r => receiver_pc[t] \notin HasMutex
         /\ Copying <=> receiver_pc[r] = "copy"
BY DEF OneWriter, HasMutex, Copying

LEMMA NobodyWrites ==
  ASSUME OneWriter, mutex = NoThread
  PROVE  (\A t \in Clients : receiver_pc[t] \notin HasMutex) /\ ~Copying
BY NoThreadAssumption DEF OneWriter, HasMutex, Copying

LEMMA QueueInit == Init => Queue
BY Constants, NoThreadAssumption
DEF Init, Queue, OneWriter, HasMutex, RearFollows, FrontFollows, CurrentFollows,
    Advanced, Copying

LEMMA QueueStep == Typed /\ Queue /\ [Next]_vars => Queue'
<1> SUFFICES ASSUME Typed, Queue, [Next]_vars PROVE Queue'
  OBVIOUS
<1> USE Constants
<1>t. /\ front \in Slots \cup {-1} /\ rear \in Slots \cup {-1}
      /\ receiver_pc \in [Clients -> ReceiverPCs]
      /\ enqueued \in Seq(Messages) /\ dequeued \in Nat
      /\ Len(enqueued) \in Nat /\ MAX_NUM_CLIENT \in Nat \ {0}
      /\ \A r \in Clients : receiver_pc[r] \in {"stamp", "check", "lock"} \cup HasMutex
         => receivedMessage[r] \in Messages
  BY DEF Typed, TypeOK, ThreadsStarted
<1>q. OneWriter /\ RearFollows /\ FrontFollows /\ CurrentFollows
  BY DEF Queue
<1>1. CASE \/ AcceptClient
           \/ \E c \in Clients :
                \/ Type(c) \/ Leave(c) \/ Show(c)
                \/ CallRecv(c) \/ ReceiveLine(c) \/ EndReceiver(c) \/ Stamp(c) \/ CheckFull(c)
           \/ UNCHANGED vars
  <2>1. OffQueue /\ UNCHANGED senderVars
    BY <1>1, RoomSteps
  <2>2. FrontFollows' /\ CurrentFollows'
    BY <2>1, <1>q, OffQueueKeeps
    DEF FrontFollows, CurrentFollows, OffQueue, queueVars, senderVars
  <2>3. QED
    BY <2>1, <2>2, <1>q, OffQueueKeeps DEF Queue
<1>2. ASSUME NEW r \in Clients, LockQueue(r) PROVE Queue'
  <2>1. receiver_pc[r] = "lock" /\ mutex = NoThread /\ mutex' = r
    BY <1>2 DEF LockQueue, LockIsFree
  <2>2. \A t \in Clients : receiver_pc'[t] = IF t = r THEN "advance" ELSE receiver_pc[t]
    BY <1>2, <1>t DEF LockQueue
  <2>3. OneWriter'
    BY <2>1, <2>2, <1>q, NobodyWrites DEF OneWriter, HasMutex
  <2>4. UNCHANGED <<rear, enqueued, dequeued, sender_pc, current, id>>
    BY <1>2 DEF LockQueue, senderVars
  <2>5. ~Copying /\ ~Copying'
    BY <2>1, <2>2, <1>q, NobodyWrites DEF Copying, HasMutex
  <2>6. Advanced' = Advanced
    BY <2>4, <2>5 DEF Advanced
  <2>7. RearFollows'
    BY <2>4, <2>6, <1>q DEF RearFollows
  <2>8. FrontFollows'
    <3>1. front' = IF front = -1 THEN 0 ELSE front
      BY <1>2 DEF LockQueue
    <3>2. \A k \in Nat : k % N # -1
      BY SlotOfNumber DEF Slots
    <3>3. 0 % N = 0
      OBVIOUS
    <3>4. QED
      BY <3>1, <3>2, <3>3, <2>4, <1>q, <1>t DEF FrontFollows
  <2>9. CurrentFollows'
    BY <2>4, <1>q DEF CurrentFollows
  <2>10. QED
    BY <2>3, <2>7, <2>8, <2>9 DEF Queue
<1>3. ASSUME NEW r \in Clients, AdvanceRear(r) PROVE Queue'
  <2>1. receiver_pc[r] = "advance" /\ rear' = NextSlot(rear)
    BY <1>3 DEF AdvanceRear
  <2>2. UNCHANGED <<front, mutex, enqueued, dequeued, sender_pc, current, id>>
    BY <1>3 DEF AdvanceRear, senderVars
  <2>3. \A t \in Clients : receiver_pc'[t] = IF t = r THEN "copy" ELSE receiver_pc[t]
    BY <1>3, <1>t DEF AdvanceRear
  <2>4. mutex = r /\ ~Copying
    BY <2>1, <1>q, OnlyWriter DEF HasMutex
  <2>5. OneWriter'
    BY <2>1, <2>2, <2>3, <1>q DEF OneWriter, HasMutex
  <2>6. Copying'
    BY <2>3 DEF Copying
  <2>7. Advanced = Len(enqueued) /\ Advanced' = Len(enqueued) + 1
    BY <2>2, <2>4, <2>6 DEF Advanced
  <2>8. RearFollows'
    <3>1. CASE Len(enqueued) = 0
      <4>1. rear = -1
        BY <3>1, <2>7, <1>q DEF RearFollows
      <4>2. rear' = 0 % N
        BY <4>1, <2>1 DEF NextSlot
      <4>3. QED
        BY <4>2, <3>1, <2>7 DEF RearFollows
    <3>2. CASE Len(enqueued) # 0
      <4>1. Len(enqueued) - 1 \in Nat
        BY <3>2, <1>t
      <4>2. rear = (Len(enqueued) - 1) % N
        BY <3>2, <2>7, <1>q DEF RearFollows
      <4>3. rear' = ((Len(enqueued) - 1) + 1) % N
        BY <4>1, <4>2, <2>1, SlotAfter DEF NextSlot
      <4>4. Len(enqueued) + 1 # 0 /\ (Len(enqueued) - 1) + 1 = (Len(enqueued) + 1) - 1
        BY <1>t
      <4>5. QED
        BY <4>3, <4>4, <2>7 DEF RearFollows
    <3>3. QED
      BY <3>1, <3>2
  <2>9. FrontFollows' /\ CurrentFollows'
    BY <2>2, <2>4, <1>q, NoThreadAssumption DEF FrontFollows, CurrentFollows
  <2>10. QED
    BY <2>5, <2>8, <2>9 DEF Queue
<1>4. ASSUME NEW r \in Clients, CopyMessage(r) PROVE Queue'
  <2>1. receiver_pc[r] = "copy" /\ mutex' = NoThread
    BY <1>4 DEF CopyMessage
  <2>2. UNCHANGED <<front, rear, dequeued, sender_pc, current, id>>
    BY <1>4 DEF CopyMessage, senderVars
  <2>3. \A t \in Clients : receiver_pc'[t] = IF t = r THEN "call" ELSE receiver_pc[t]
    BY <1>4, <1>t DEF CopyMessage
  <2>4. mutex = r /\ Copying /\ \A t \in Clients : t # r => receiver_pc[t] \notin HasMutex
    BY <2>1, <1>q, OnlyWriter DEF HasMutex
  <2>5. OneWriter' /\ ~Copying'
    BY <2>1, <2>3, <2>4, NoThreadAssumption DEF OneWriter, HasMutex, Copying
  <2>6. receivedMessage[r] \in Messages
    BY <2>1, <1>t DEF HasMutex
  <2>7. Len(enqueued') = Len(enqueued) + 1
    BY <1>4, <2>6, <1>t DEF CopyMessage
  <2>8. Advanced' = Advanced
    BY <2>4, <2>5, <2>7 DEF Advanced
  <2>9. RearFollows'
    BY <2>2, <2>8, <1>q DEF RearFollows
  <2>10. FrontFollows' /\ CurrentFollows'
    BY <2>2, <2>4, <1>q, NoThreadAssumption DEF FrontFollows, CurrentFollows
  <2>11. QED
    BY <2>5, <2>9, <2>10 DEF Queue
<1>5. ASSUME FindMessage PROVE Queue'
  <2>1. OffQueue
    BY <1>5, SenderStepsOffQueue
  <2>2. rear # front /\ sender_pc = "poll" /\ sender_pc' = "lock" /\ id' = id
    BY <1>5 DEF FindMessage, isEmpty
  <2>3. front = dequeued % N
    BY <2>2, <1>q DEF FrontFollows, RearFollows
  <2>4. FrontFollows' /\ CurrentFollows'
    BY <2>1, <2>2, <2>3, <1>q DEF FrontFollows, CurrentFollows, OffQueue, queueVars
  <2>5. QED
    BY <2>1, <2>4, <1>q, OffQueueKeeps DEF Queue
<1>6. ASSUME Dequeue PROVE Queue'
  <2>1. /\ sender_pc = "lock" /\ sender_pc' = "send" /\ current' = front
        /\ front' = NextSlot(front) /\ dequeued' = dequeued + 1
        /\ UNCHANGED <<rear, mutex, enqueued, receiver_pc, id>>
    BY <1>6 DEF Dequeue, receiverVars
  <2>2. front = dequeued % N
    BY <2>1, <1>q DEF FrontFollows
  <2>3. front' = dequeued' % N
    BY <2>1, <2>2, <1>t, SlotAfter DEF NextSlot
  <2>4. dequeued' >= 1 /\ dequeued' - 1 = dequeued
    BY <2>1, <1>t
  <2>5. CurrentFollows'
    BY <2>1, <2>2, <2>4 DEF CurrentFollows
  <2>6. OneWriter'
    BY <2>1, <1>q DEF OneWriter
  <2>7. RearFollows'
    BY <2>1, <1>q DEF RearFollows, Advanced, Copying
  <2>8. QED
    BY <2>3, <2>5, <2>6, <2>7 DEF Queue, FrontFollows
<1>7. ASSUME SendToNobody \/ SendToClient PROVE Queue'
  <2>1. OffQueue
    BY <1>7, SenderStepsOffQueue
  <2>2. sender_pc = "send" /\ UNCHANGED current /\ NextClient
    BY <1>7 DEF SendToNobody, SendToClient
  <2>3. front = dequeued % N
    BY <2>2, <1>q DEF FrontFollows
  <2>4. FrontFollows'
    BY <2>1, <2>3 DEF FrontFollows, OffQueue, queueVars
  <2>5. CurrentFollows'
    BY <2>1, <2>2, <1>q DEF CurrentFollows, NextClient, OffQueue, queueVars
  <2>6. QED
    BY <2>1, <2>4, <2>5, <1>q, OffQueueKeeps DEF Queue
<1>8. ASSUME handlerOnConnectionBroken PROVE Queue'
  <2>1. OffQueue /\ UNCHANGED senderVars
    BY <1>8, SenderStepsOffQueue DEF handlerOnConnectionBroken
  <2>2. FrontFollows' /\ CurrentFollows'
    BY <2>1, <1>q, OffQueueKeeps
    DEF FrontFollows, CurrentFollows, OffQueue, queueVars, senderVars
  <2>3. QED
    BY <2>1, <2>2, <1>q, OffQueueKeeps DEF Queue
<1>9. QED
  BY <1>1, <1>2, <1>3, <1>4, <1>5, <1>6, <1>7, <1>8 DEF Next, SenderThread, ReceiverThread

-----------------------------------------------------------------------------
(* What the slots hold                                                     *)

LEMMA LatestInit == Init => QueueHoldsTheLatest
BY DEF Init, QueueHoldsTheLatest

LEMMA LatestStep == Typed /\ Queue /\ QueueHoldsTheLatest /\ [Next]_vars
                      => QueueHoldsTheLatest'
<1> SUFFICES ASSUME Typed, Queue, QueueHoldsTheLatest, [Next]_vars
             PROVE  QueueHoldsTheLatest'
  OBVIOUS
<1> USE Constants
<1>t. /\ messages \in [Slots -> Messages \cup {Junk}]
      /\ receiver_pc \in [Clients -> ReceiverPCs]
      /\ enqueued \in Seq(Messages) /\ Len(enqueued) \in Nat
      /\ \A r \in Clients : receiver_pc[r] \in {"stamp", "check", "lock"} \cup HasMutex
         => receivedMessage[r] \in Messages
  BY SMTT(30) DEF Typed, TypeOK, ThreadsStarted
<1>q. OneWriter /\ RearFollows
  BY DEF Queue
<1>w. \A s : BeingWritten(s) <=> s = rear /\ Copying
  BY DEF BeingWritten, Copying
<1>1. CASE OffQueue
  BY <1>1, OffQueueKeeps
<1>2. ASSUME NEW r \in Clients, LockQueue(r) PROVE QueueHoldsTheLatest'
  <2>1. mutex = NoThread /\ UNCHANGED <<messages, enqueued>>
    BY <1>2 DEF LockQueue, LockIsFree
  <2>2. \A s : ~BeingWritten(s)
    BY <2>1, <1>q, <1>w, NobodyWrites
  <2>3. QED
    BY <2>1, <2>2 DEF QueueHoldsTheLatest
<1>3. ASSUME NEW r \in Clients, AdvanceRear(r) PROVE QueueHoldsTheLatest'
  <2>1. receiver_pc[r] = "advance" /\ UNCHANGED <<messages, enqueued>>
    BY <1>3 DEF AdvanceRear
  <2>2. \A s : ~BeingWritten(s)
    BY <2>1, <1>q, <1>w, OnlyWriter DEF HasMutex
  <2>3. QED
    BY <2>1, <2>2 DEF QueueHoldsTheLatest
<1>4. ASSUME NEW r \in Clients, CopyMessage(r) PROVE QueueHoldsTheLatest'
  <2>1. PICK m \in Messages : m = receivedMessage[r]
    BY <1>4, <1>t DEF CopyMessage, HasMutex
  <2>2. messages' = [messages EXCEPT ![rear] = m] /\ enqueued' = Append(enqueued, m)
    BY <1>4, <2>1 DEF CopyMessage
  <2>3. Copying
    BY <1>4 DEF CopyMessage, Copying
  <2>4. rear = Len(enqueued) % N
    BY <2>3, <1>q, <1>t DEF RearFollows, Advanced
  <2>5. rear \in Slots
    BY <2>4, <1>t, SlotOfNumber
  <2>6. ASSUME NEW k \in 1..Len(enqueued'), k + N > Len(enqueued')
        PROVE  messages'[(k - 1) % N] = enqueued'[k]
    <3>1. Len(enqueued') = Len(enqueued) + 1
      BY <2>2, <1>t
    <3>2. CASE k = Len(enqueued) + 1
      BY <3>2, <2>2, <2>4, <2>5, <1>t
    <3>3. CASE k # Len(enqueued) + 1
      <4>1. k \in 1..Len(enqueued) /\ k + N > Len(enqueued)
        BY <2>6, <3>1, <3>3, <1>t
      <4>2. k - 1 \in Nat /\ k - 1 < Len(enqueued) /\ Len(enqueued) - (k - 1) < N
        BY <2>6, <3>1, <4>1, <1>t
      <4>3. (k - 1) % N # rear
        BY <4>2, <2>4, <1>t, SlotsDiffer
      <4>4. messages[(k - 1) % N] = enqueued[k]
        BY <4>1, <4>3, <1>w DEF QueueHoldsTheLatest
      <4>5. messages'[(k - 1) % N] = messages[(k - 1) % N]
        BY <4>2, <4>3, <2>2, <1>t, SlotOfNumber
      <4>6. enqueued'[k] = enqueued[k]
        BY <4>1, <2>2, <1>t
      <4>7. QED
        BY <4>4, <4>5, <4>6
    <3>4. QED
      BY <3>2, <3>3
  <2>7. QED
    BY <2>6 DEF QueueHoldsTheLatest
<1>5. ASSUME Dequeue PROVE QueueHoldsTheLatest'
  BY <1>5 DEF Dequeue, receiverVars, QueueHoldsTheLatest, BeingWritten
<1>6. QED
  BY <1>1, <1>2, <1>3, <1>4, <1>5, RoomSteps, SenderStepsOffQueue
  DEF Next, SenderThread, ReceiverThread

-----------------------------------------------------------------------------
(* What a broadcast sends                                                  *)

\* While fewer than N - 1 later messages are in the queue, the pointer that the
\* sender thread holds is to a slot that nobody writes.
LEMMA SlotIsStill ==
  ASSUME Typed, Queue, QueueHoldsTheLatest, sender_pc = "send",
         Len(enqueued) - dequeued \in 0..(N - 2)
  PROVE  SlotContents = {enqueued[dequeued]}
<1> USE Constants
<1>t. Len(enqueued) \in Nat /\ dequeued \in Nat
  BY DEF Typed, TypeOK
<1>1. dequeued >= 1 /\ current = (dequeued - 1) % N
  BY DEF Queue, CurrentFollows
<1>2. dequeued \in 1..Len(enqueued) /\ dequeued + N > Len(enqueued)
  BY <1>1, <1>t
<1>3. ASSUME Copying PROVE current # rear
  <2>1. rear = Len(enqueued) % N
    BY <1>3, <1>t DEF Queue, RearFollows, Advanced
  <2>2. dequeued - 1 \in Nat /\ dequeued - 1 < Len(enqueued)
        /\ Len(enqueued) - (dequeued - 1) < N
    BY <1>1, <1>2, <1>t
  <2>3. QED
    BY <1>1, <1>t, <2>1, <2>2, SlotsDiffer
<1>4. ~BeingWritten(current)
  BY <1>3 DEF BeingWritten, Copying
<1>5. messages[current] = enqueued[dequeued]
  BY <1>1, <1>2, <1>4 DEF QueueHoldsTheLatest
<1>6. QED
  BY <1>4, <1>5 DEF SlotContents, BeingWritten

LEMMA AppendHolds ==
  ASSUME NEW S, NEW q \in Seq(S), NEW e
  PROVE  /\ Len(q) \in Nat /\ Len(Append(q, e)) = Len(q) + 1
         /\ Append(q, e)[Len(q) + 1] = e
         /\ \A j \in 1..Len(q) : Append(q, e)[j] = q[j]
<1>1. q \in Seq(S \cup {e}) /\ e \in S \cup {e}
  OBVIOUS
<1>2. QED
  BY <1>1

LEMMA BroadcastsInit == Init => BroadcastsNamed /\ BroadcastsAreFaithful
BY DEF Init, BroadcastsNamed, BroadcastsAreFaithful

LEMMA BroadcastsStep ==
  /\ Typed /\ Queue /\ QueueHoldsTheLatest /\ BroadcastsNamed /\ BroadcastsAreFaithful
  /\ [Next]_vars
  => BroadcastsNamed' /\ BroadcastsAreFaithful'
<1> SUFFICES ASSUME Typed, Queue, QueueHoldsTheLatest,
                    BroadcastsNamed, BroadcastsAreFaithful, [Next]_vars
             PROVE  BroadcastsNamed' /\ BroadcastsAreFaithful'
  OBVIOUS
<1>t. /\ enqueued \in Seq(Messages) /\ Len(enqueued) \in Nat /\ dequeued \in Nat
      /\ stream \in [Clients -> Seq(Broadcasts)]
      /\ id \in Clients
      /\ N \in Nat \ {0}
      /\ \A r \in Clients : receiver_pc[r] \in {"stamp", "check", "lock"} \cup HasMutex
         => receivedMessage[r] \in Messages
  BY Constants DEF Typed, TypeOK, ThreadsStarted
<1>1. CASE UNCHANGED <<stream, enqueued>>
  BY <1>1 DEF BroadcastsNamed, BroadcastsAreFaithful
<1>2. ASSUME NEW r \in Clients, CopyMessage(r)
      PROVE  BroadcastsNamed' /\ BroadcastsAreFaithful'
  <2>1. PICK m \in Messages : m = receivedMessage[r]
    BY <1>2, <1>t DEF CopyMessage, HasMutex
  <2>2. UNCHANGED stream /\ enqueued' = Append(enqueued, m)
    BY <1>2, <2>1 DEF CopyMessage
  <2>3. /\ Len(enqueued') = Len(enqueued) + 1
        /\ \A k \in 1..Len(enqueued) : enqueued'[k] = enqueued[k]
    BY <2>2, <1>t
  <2>4. BroadcastsNamed'
    BY <2>2, <2>3, <1>t DEF BroadcastsNamed
  <2>5. ASSUME NEW c \in Clients, NEW i \in 1..Len(stream[c]),
               stream[c][i].behind \in 0..(N - 2)
        PROVE  stream[c][i].message = enqueued'[stream[c][i].number]
    <3>1. stream[c][i].message = enqueued[stream[c][i].number]
      BY <2>5 DEF BroadcastsAreFaithful
    <3>2. stream[c][i].number \in 1..Len(enqueued)
      BY <2>5, <1>t DEF BroadcastsNamed
    <3>3. QED
      BY <3>1, <3>2, <2>3
  <2>6. BroadcastsAreFaithful'
    BY <2>2, <2>5 DEF BroadcastsAreFaithful
  <2>7. QED
    BY <2>4, <2>6
<1>3. ASSUME SendToClient PROVE BroadcastsNamed' /\ BroadcastsAreFaithful'
  <2>1. PICK m \in SlotContents :
          stream' = [stream EXCEPT ![id] = Append(@,
            [number |-> dequeued, message |-> m, behind |-> Len(enqueued) - dequeued])]
    BY <1>3 DEF SendToClient
  <2> DEFINE b == [number |-> dequeued, message |-> m,
                   behind |-> Len(enqueued) - dequeued]
  <2>2. sender_pc = "send" /\ UNCHANGED enqueued
    BY <1>3 DEF SendToClient, queueVars
  <2>3. dequeued >= 1
    BY <2>2 DEF Queue, CurrentFollows
  <2>4. b.behind >= 0 => b.number \in 1..Len(enqueued)
    BY <2>3, <1>t
  <2>5. b.behind \in 0..(N - 2) => b.message = enqueued[b.number]
    BY <2>1, <2>2, SlotIsStill
  <2>6. ASSUME NEW c \in Clients, NEW i \in 1..Len(stream'[c])
        PROVE  \/ stream'[c][i] = b
               \/ i \in 1..Len(stream[c]) /\ stream'[c][i] = stream[c][i]
    <3>1. CASE c # id
      BY <3>1, <2>1, <1>t
    <3>2. CASE c = id
      <4>1. stream'[c] = Append(stream[c], b)
        BY <3>2, <2>1, <1>t
      <4>2. stream[c] \in Seq(Broadcasts)
        BY <1>t
      <4> HIDE DEF b
      <4>3. QED
        BY <4>1, <4>2, AppendHolds
    <3>3. QED
      BY <3>1, <3>2
  <2> HIDE DEF b
  <2>7. BroadcastsNamed'
    BY <2>2, <2>4, <2>6 DEF BroadcastsNamed
  <2>8. BroadcastsAreFaithful'
    BY <2>2, <2>5, <2>6 DEF BroadcastsAreFaithful
  <2>9. QED
    BY <2>7, <2>8
<1>4. ASSUME NEW r \in Clients, LockQueue(r) \/ AdvanceRear(r)
      PROVE  UNCHANGED <<stream, enqueued>>
  BY <1>4 DEF LockQueue, AdvanceRear
<1>5. ASSUME FindMessage \/ Dequeue \/ SendToNobody \/ handlerOnConnectionBroken
      PROVE  UNCHANGED <<stream, enqueued>>
  BY <1>5 DEF FindMessage, Dequeue, SendToNobody, handlerOnConnectionBroken, queueVars
<1>6. ASSUME OffQueue, UNCHANGED stream PROVE UNCHANGED <<stream, enqueued>>
  BY <1>6 DEF OffQueue, queueVars
<1>7. QED
  BY <1>1, <1>2, <1>3, <1>4, <1>5, <1>6, RoomSteps DEF Next, SenderThread, ReceiverThread

-----------------------------------------------------------------------------
(* Which broadcasts a client is sent                                       *)

LEMMA StreamsInit == Init => StreamsFollow
BY DEF Init, StreamsFollow

LEMMA StreamsStep == Typed /\ Queue /\ StreamsFollow /\ [Next]_vars => StreamsFollow'
<1> SUFFICES ASSUME Typed, Queue, StreamsFollow, [Next]_vars PROVE StreamsFollow'
  OBVIOUS
<1>t. /\ threadCount \in 0..MAX_NUM_CLIENT /\ MAX_NUM_CLIENT \in Nat \ {0}
      /\ dequeued \in Nat
      /\ sender_pc \in {"poll", "lock", "send"}
      /\ left \in [Clients -> BOOLEAN]
      /\ stream \in [Clients -> Seq(Broadcasts)]
      /\ id \in Clients
      /\ sender_pc # "send" => id = 0
  BY Constants DEF Typed, TypeOK, Queue, CurrentFollows
\* Joining and leaving only weaken what is said of a client.
<1>1. ASSUME UNCHANGED <<stream, dequeued, id>>, threadCount' \in Int,
             threadCount' >= threadCount,
             \A c \in Clients : left[c] => left'[c],
             \A c \in Clients : LastBroadcast(c)' = LastBroadcast(c)
      PROVE  StreamsFollow'
  <2>1. \A c \in Clients : c < threadCount => c < threadCount'
    BY <1>1, <1>t DEF Clients
  <2>2. QED
    BY <1>1, <2>1 DEF StreamsFollow
<1>2. ASSUME NEW c \in Clients, Type(c) \/ Leave(c) \/ Show(c) PROVE StreamsFollow'
  <2>1. UNCHANGED <<stream, dequeued, id, sender_pc, threadCount>>
    BY <1>2 DEF Type, Leave, Show, roomVars, queueVars, senderVars, clientVars
  <2>2. \A d \in Clients : left[d] => left'[d]
    BY <1>2, <1>t DEF Type, Leave, Show, clientVars
  <2>3. QED
    BY <1>1, <1>t, <2>1, <2>2 DEF LastBroadcast
<1>3. ASSUME AcceptClient PROVE StreamsFollow'
  <2>1. UNCHANGED <<stream, dequeued, id, sender_pc, left>> /\ threadCount' = threadCount + 1
    BY <1>3 DEF AcceptClient, queueVars, senderVars, clientVars
  <2>2. QED
    BY <1>1, <1>t, <2>1 DEF LastBroadcast
<1>4. ASSUME NEW r \in Clients, ReceiverThread(r) PROVE StreamsFollow'
  <2>1. UNCHANGED <<stream, dequeued, id, sender_pc, left, threadCount>>
    BY <1>4
    DEF ReceiverThread, CallRecv, ReceiveLine, EndReceiver, Stamp, CheckFull, LockQueue,
        AdvanceRear, CopyMessage, roomVars, queueVars, senderVars, clientVars
  <2>2. QED
    BY <1>1, <1>t, <2>1 DEF LastBroadcast
<1>5. ASSUME FindMessage \/ handlerOnConnectionBroken PROVE StreamsFollow'
  <2>1. UNCHANGED <<stream, dequeued, id, left, threadCount>>
    BY <1>5
    DEF FindMessage, handlerOnConnectionBroken, roomVars, queueVars, senderVars, clientVars
  <2>2. sender_pc' = "send" <=> sender_pc = "send"
    BY <1>5 DEF FindMessage, handlerOnConnectionBroken, senderVars
  <2>3. QED
    BY <1>1, <1>t, <2>1, <2>2 DEF LastBroadcast
<1>6. ASSUME Dequeue PROVE StreamsFollow'
  <2>1. /\ UNCHANGED <<stream, id, left, threadCount>>
        /\ sender_pc = "lock" /\ sender_pc' = "send" /\ dequeued' = dequeued + 1
    BY <1>6 DEF Dequeue, roomVars, clientVars
  <2>2. \A c \in Clients : LastBroadcast(c)' = LastBroadcast(c)
    BY <2>1, <1>t DEF LastBroadcast, Clients
  <2>3. QED
    BY <2>1, <2>2 DEF StreamsFollow
\* The loop has come past the client it was at, and past no other.
<1>7. ASSUME NextClient, sender_pc = "send", UNCHANGED dequeued
      PROVE  /\ LastBroadcast(id) = dequeued - 1
             /\ \A c \in Clients :
                  LastBroadcast(c)' = IF c = id THEN dequeued ELSE LastBroadcast(c)
  <2>1. LastBroadcast(id) = dequeued - 1
    BY <1>7, <1>t DEF LastBroadcast, Clients
  <2>2. CASE id = MAX_NUM_CLIENT - 1
    <3>1. sender_pc' = "poll"
      BY <1>7, <2>2 DEF NextClient
    <3>2. \A c \in Clients : id <= c <=> c = id
      BY <2>2, <1>t DEF Clients
    <3>3. QED
      BY <1>7, <2>1, <3>1, <3>2 DEF LastBroadcast
  <2>3. CASE id # MAX_NUM_CLIENT - 1
    <3>1. sender_pc' = "send" /\ id' = id + 1
      BY <1>7, <2>3 DEF NextClient
    <3>2. \A c \in Clients : id' <= c <=> id <= c /\ c # id
      BY <3>1, <1>t DEF Clients
    <3>3. id <= id
      BY <1>t DEF Clients
    <3>4. QED
      BY <1>7, <2>1, <3>1, <3>2, <3>3 DEF LastBroadcast
  <2>4. QED
    BY <2>2, <2>3, <2>1
<1>8. ASSUME SendToNobody PROVE StreamsFollow'
  <2>1. /\ UNCHANGED <<stream, left, threadCount, dequeued>>
        /\ sender_pc = "send" /\ NextClient /\ (id >= threadCount \/ left[id])
    BY <1>8 DEF SendToNobody, roomVars, queueVars, clientVars
  <2>2. \A c \in Clients : c # id => LastBroadcast(c)' = LastBroadcast(c)
    BY <2>1, <1>7
  <2>3. id < threadCount => left[id]
    BY <2>1, <1>t DEF Clients
  <2>4. QED
    BY <2>1, <2>2, <2>3, <1>t DEF StreamsFollow
<1>9. ASSUME SendToClient PROVE StreamsFollow'
  <2>1. PICK m \in SlotContents :
          stream' = [stream EXCEPT ![id] = Append(@,
            [number |-> dequeued, message |-> m, behind |-> Len(enqueued) - dequeued])]
    BY <1>9 DEF SendToClient
  <2> DEFINE b == [number |-> dequeued, message |-> m,
                   behind |-> Len(enqueued) - dequeued]
  <2>2. /\ UNCHANGED <<left, threadCount, dequeued>>
        /\ sender_pc = "send" /\ NextClient /\ id < threadCount /\ ~left[id]
    BY <1>9 DEF SendToClient, roomVars, queueVars, clientVars
  <2>3. ASSUME NEW c \in Clients, stream'[c] # <<>>, c # id
        PROVE  /\ c < threadCount
               /\ \A i \in 1..Len(stream'[c]) :
                    stream'[c][i].number = stream'[c][1].number + i - 1
               /\ ~left[c] => stream'[c][Len(stream'[c])].number = LastBroadcast(c)'
    <3>1. stream'[c] = stream[c]
      BY <2>1, <2>3, <1>t
    <3>2. LastBroadcast(c)' = LastBroadcast(c)
      BY <1>7, <2>2, <2>3
    <3>3. QED
      BY <3>1, <3>2, <2>3 DEF StreamsFollow
  <2>4. /\ \A i \in 1..Len(stream'[id]) :
             stream'[id][i].number = stream'[id][1].number + i - 1
        /\ stream'[id][Len(stream'[id])].number = dequeued
    <3>1. stream'[id] = Append(stream[id], b) /\ b.number = dequeued
      BY <2>1, <1>t
    <3>2. stream[id] \in Seq(Broadcasts)
      BY <1>t
    <3> HIDE DEF b
    <3>3. PICK q \in Seq(Broadcasts) : q = stream[id]
      BY <3>2
    <3>4. /\ Len(q) \in Nat /\ Len(Append(q, b)) = Len(q) + 1
          /\ Append(q, b)[Len(q) + 1] = b
          /\ \A j \in 1..Len(q) : Append(q, b)[j] = q[j]
      BY AppendHolds
    <3>5. CASE q = <<>>
      BY <3>1, <3>3, <3>4, <3>5, <1>t
    <3>6. CASE q # <<>>
      <4>1. Len(q) >= 1
        BY <3>6
      <4>2. q[Len(q)].number = dequeued - 1
        BY <3>3, <3>6, <2>2, <1>7, <1>t DEF StreamsFollow
      <4>3. \A i \in 1..Len(q) : q[i].number = q[1].number + i - 1
        BY <3>3, <3>6, <1>t DEF StreamsFollow
      <4>4. q[1].number \in Int
        <5>1. q[1] \in Broadcasts
          BY <4>1, <3>4
        <5>2. QED
          BY <5>1 DEF Broadcasts
      <4>5. dequeued = q[1].number + (Len(q) + 1) - 1
        <5>1. Len(q) \in Nat /\ dequeued \in Nat /\ Len(q) \in 1..Len(q)
          BY <4>1, <3>4, <1>t
        <5>2. q[Len(q)].number = q[1].number + Len(q) - 1
          BY <5>1, <4>3
        <5>3. QED
          BY ONLY <4>2, <4>4, <5>1, <5>2
      <4> DEFINE s == Append(q, b)
      <4>6. s[1] = q[1] /\ s[Len(s)].number = dequeued
        BY <3>1, <3>4, <4>1
      <4>7. ASSUME NEW i \in 1..Len(s) PROVE s[i].number = s[1].number + i - 1
        <5>1. CASE i \in 1..Len(q)
          BY <5>1, <3>4, <4>3, <4>6
        <5>2. CASE i = Len(q) + 1
          BY <5>2, <3>1, <3>4, <4>5, <4>6
        <5>3. QED
          BY <5>1, <5>2, <3>4
      <4>8. QED
        BY <3>1, <3>3, <4>6, <4>7
    <3>7. QED
      BY <3>5, <3>6
  <2>5. \A c \in Clients : c = id => LastBroadcast(c)' = dequeued
    BY <1>7, <2>2
  <2>6. QED
    BY <2>2, <2>3, <2>4, <2>5 DEF StreamsFollow
<1>10. CASE UNCHANGED vars
  <2>1. UNCHANGED <<stream, dequeued, id, sender_pc, left, threadCount>>
    BY <1>10 DEF vars, roomVars, queueVars, senderVars, clientVars
  <2>2. QED
    BY <1>1, <1>t, <2>1 DEF LastBroadcast
<1>11. QED
  BY <1>2, <1>3, <1>4, <1>5, <1>6, <1>8, <1>9, <1>10 DEF Next, SenderThread

-----------------------------------------------------------------------------
(* The theorems                                                            *)

LEMMA Invariance == Spec => []IInv
<1>1. Init => IInv
  BY TypedInit, QueueInit, LatestInit, BroadcastsInit, StreamsInit DEF IInv
<1>2. IInv /\ [Next]_vars => IInv'
  <2> SUFFICES ASSUME IInv, [Next]_vars PROVE IInv'
    OBVIOUS
  <2>1. Typed'
    BY TypedStep DEF IInv, Queue
  <2>2. Queue' /\ QueueHoldsTheLatest'
    BY QueueStep, LatestStep DEF IInv
  <2>3. BroadcastsNamed' /\ BroadcastsAreFaithful'
    BY BroadcastsStep DEF IInv
  <2>4. StreamsFollow'
    BY StreamsStep DEF IInv
  <2>5. QED
    BY <2>1, <2>2, <2>3, <2>4 DEF IInv
<1>3. QED
  BY <1>1, <1>2, PTL DEF Spec

\* server.c: front, rear and the slot the sender holds are indices of the
\* queue, a message is only stored once recv() has filled it, and so on.
THEOREM TypeCorrect == Spec => []TypeOK
<1>1. IInv => TypeOK
  BY DEF IInv, Typed
<1>2. QED
  BY <1>1, Invariance, PTL

\* server.c, enqueue: with any number of receiver threads and slots, each of
\* the last N messages is in the slot its number says, but for the slot that is
\* being written.
THEOREM LatestInTheirSlots == Spec => []QueueHoldsTheLatest
<1>1. IInv => QueueHoldsTheLatest
  BY DEF IInv
<1>2. QED
  BY <1>1, Invariance, PTL

\* server.c, senderWorkload: reading the slot without the mutex is harmless
\* as long as fewer than N - 1 later messages have been put into the queue.
THEOREM FaithfulBroadcasts == Spec => []BroadcastsAreFaithful
<1>1. IInv => BroadcastsAreFaithful
  BY DEF IInv
<1>2. QED
  BY <1>1, Invariance, PTL

\* server.c, senderWorkload: from its first broadcast on, a client that stays
\* is sent every broadcast, in order, whoever else joins or leaves.
THEOREM EveryBroadcast == Spec => []NoBroadcastIsMissed
<1>1. StreamsFollow => NoBroadcastIsMissed
  BY DEF StreamsFollow, NoBroadcastIsMissed, LastBroadcast
<1>2. IInv => NoBroadcastIsMissed
  BY <1>1 DEF IInv
<1>3. QED
  BY <1>2, Invariance, PTL
=============================================================================
