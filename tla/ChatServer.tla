----------------------------- MODULE ChatServer -----------------------------
(***************************************************************************)
(* The chat room of "Socket (Multi Threaded)": the main thread of server.c,*)
(* which accepts clients and starts a receiver thread for each, the        *)
(* receiver threads, which put what they receive into a circular queue, the*)
(* sender thread, which takes it out and sends it to everyone, and the     *)
(* clients of client.c.                                                    *)
(*                                                                         *)
(* A client is named by the place it takes in socketOfClients.  A step is  *)
(* the code between two points at which another thread can interfere; the  *)
(* threads look at `front`, `rear` and `*tid` without a lock.              *)
(***************************************************************************)
EXTENDS Integers, Sequences, FiniteSets

CONSTANTS
  MAX_NUM_CLIENT,          \* clients the room has places for
  MAX_MESSAGE_QUEUE_SIZE,  \* slots of the circular queue
  SocketCapacity,          \* messages a connection holds before send() blocks
  MaxLines,                \* client -> bound: lines it types
  Leavers,                 \* clients whose process may end
  Junk,                    \* contents of memory nobody has written, or half written
  NoThread                 \* mutex is free

Clients == 0..(MAX_NUM_CLIENT - 1)
N == MAX_MESSAGE_QUEUE_SIZE
Slots == 0..(N - 1)

ASSUME ClientsAssumption == MAX_NUM_CLIENT \in Nat \ {0}
ASSUME QueueAssumption == MAX_MESSAGE_QUEUE_SIZE \in Nat \ {0}
ASSUME CapacityAssumption == SocketCapacity \in Nat \ {0}
ASSUME LinesAssumption == MaxLines \in [Clients -> Nat]
ASSUME LeaversAssumption == Leavers \subseteq Clients
ASSUME NoThreadAssumption == NoThread \notin Clients

VARIABLES
  up,              \* the server process has not exited
  threadCount,     \* clients accepted, each with a receiver thread
  userId,          \* main's loop variable, whose address every thread has
  front, rear,     \* -1 until the first message
  messages,        \* slot -> message
  mutex,           \* the receiver thread that holds the mutex, or NoThread
  receiver_pc,     \* thread -> control point of receiverWorkload and enqueue
  listensTo,       \* thread -> client whose socket it has passed to recv()
  receivedMessage, \* thread -> its message
  sender_pc,       \* "poll", "lock", "send"
  current,         \* slot the pointer returned by dequeue() points to
  id,              \* client the broadcast has come to
  typed,           \* client -> lines typed (bound)
  inbox,           \* client -> lines sent to the server and not yet received
  left,            \* client -> its process has ended
  enqueued,        \* history: messages put into the queue, in order
  dequeued,        \* history: number of messages taken out
  stream,          \* client -> what it was sent, and in which broadcast
  unread           \* client -> messages it was sent and has not received yet

roomVars == <<threadCount, userId>>
queueVars == <<front, rear, messages, mutex, enqueued, dequeued>>
receiverVars == <<receiver_pc, listensTo, receivedMessage>>
senderVars == <<sender_pc, current, id>>
clientVars == <<typed, inbox, left>>
vars == <<up, roomVars, queueVars, receiverVars, senderVars, clientVars, stream,
          unread>>

\* A line of a client, with the user id the server has stamped on it.
Messages == [from : Clients, line : Nat \ {0}, userId : Clients \cup {-1}]
Broadcasts == [number : Nat \ {0}, message : Messages \cup {Junk}, behind : Int]

ReceiverPCs ==
  {"none", "call", "recv", "stamp", "check", "lock", "advance", "copy", "done"}

TypeOK ==
  /\ up \in BOOLEAN
  /\ threadCount \in 0..MAX_NUM_CLIENT
  /\ userId \in Clients
  /\ front \in Slots \cup {-1}
  /\ rear \in Slots \cup {-1}
  /\ messages \in [Slots -> Messages \cup {Junk}]
  /\ mutex \in Clients \cup {NoThread}
  /\ receiver_pc \in [Clients -> ReceiverPCs]
  /\ listensTo \in [Clients -> Clients]
  /\ receivedMessage \in [Clients -> Messages \cup {Junk}]
  /\ sender_pc \in {"poll", "lock", "send"}
  /\ current \in Slots
  /\ id \in Clients
  /\ typed \in [Clients -> Nat]
  /\ inbox \in [Clients -> Seq(Messages)]
  /\ left \in [Clients -> BOOLEAN]
  /\ enqueued \in Seq(Messages)
  /\ dequeued \in Nat
  /\ stream \in [Clients -> Seq(Broadcasts)]
  /\ unread \in [Clients -> 0..SocketCapacity]

Init ==
  /\ up = TRUE
  /\ threadCount = 0
  /\ userId = 0
  /\ front = -1
  /\ rear = -1
  /\ messages = [s \in Slots |-> Junk]
  /\ mutex = NoThread
  /\ receiver_pc = [r \in Clients |-> "none"]
  /\ listensTo = [r \in Clients |-> 0]
  /\ receivedMessage = [r \in Clients |-> Junk]
  /\ sender_pc = "poll"
  /\ current = 0
  /\ id = 0
  /\ typed = [c \in Clients |-> 0]
  /\ inbox = [c \in Clients |-> <<>>]
  /\ left = [c \in Clients |-> FALSE]
  /\ enqueued = <<>>
  /\ dequeued = 0
  /\ stream = [c \in Clients |-> <<>>]
  /\ unread = [c \in Clients |-> 0]

(***************************************************************************)
(* The clients and the main thread.  A client may type before its          *)
(* connection is accepted; whoever comes after the last place waits in the *)
(* listen queue for ever and is not modelled.                              *)
(***************************************************************************)
Type(c) ==
  /\ up
  /\ ~left[c]
  /\ typed[c] < MaxLines[c]
  /\ typed' = [typed EXCEPT ![c] = @ + 1]
  /\ inbox' = [inbox EXCEPT ![c] =
                 Append(@, [from |-> c, line |-> typed[c] + 1, userId |-> -1])]
  /\ UNCHANGED <<up, roomVars, queueVars, receiverVars, senderVars, left,
                 stream, unread>>

Leave(c) ==
  /\ up
  /\ c \in Leavers
  /\ ~left[c]
  /\ left' = [left EXCEPT ![c] = TRUE]
  /\ UNCHANGED <<up, roomVars, queueVars, receiverVars, senderVars, typed, inbox,
                 stream, unread>>

\* workload: the receiver thread of the client shows what comes.
Show(c) ==
  /\ up
  /\ ~left[c]
  /\ unread[c] > 0
  /\ unread' = [unread EXCEPT ![c] = @ - 1]
  /\ UNCHANGED <<up, roomVars, queueVars, receiverVars, senderVars, clientVars,
                 stream>>

\* userId is one variable: its address is what every thread is given.
AcceptClient ==
  /\ up
  /\ threadCount < MAX_NUM_CLIENT
  /\ userId' = threadCount
  /\ receiver_pc' = [receiver_pc EXCEPT ![threadCount] = "call"]
  /\ threadCount' = threadCount + 1
  /\ UNCHANGED <<up, queueVars, listensTo, receivedMessage, senderVars, clientVars,
                 stream, unread>>

(***************************************************************************)
(* receiverWorkload.  The thread looks *tid up before every recv() and     *)
(* again to stamp what it has received.                                    *)
(***************************************************************************)
CallRecv(r) ==
  /\ up
  /\ receiver_pc[r] = "call"
  /\ listensTo' = [listensTo EXCEPT ![r] = userId]
  /\ receiver_pc' = [receiver_pc EXCEPT ![r] = "recv"]
  /\ UNCHANGED <<up, roomVars, queueVars, receivedMessage, senderVars, clientVars,
                 stream, unread>>

ReceiveLine(r) ==
  /\ up
  /\ receiver_pc[r] = "recv"
  /\ inbox[listensTo[r]] # <<>>
  /\ receivedMessage' = [receivedMessage EXCEPT ![r] = Head(inbox[listensTo[r]])]
  /\ inbox' = [inbox EXCEPT ![listensTo[r]] = Tail(@)]
  /\ receiver_pc' = [receiver_pc EXCEPT ![r] = "stamp"]
  /\ UNCHANGED <<up, roomVars, queueVars, listensTo, senderVars, typed, left,
                 stream, unread>>

\* recv() of a connection that was closed, or reset with lines still unread.
EndReceiver(r) ==
  /\ up
  /\ receiver_pc[r] = "recv"
  /\ left[listensTo[r]]
  /\ receiver_pc' = [receiver_pc EXCEPT ![r] = "done"]
  /\ UNCHANGED <<up, roomVars, queueVars, listensTo, receivedMessage, senderVars,
                 clientVars, stream, unread>>

Stamp(r) ==
  /\ up
  /\ receiver_pc[r] = "stamp"
  /\ receivedMessage' = [receivedMessage EXCEPT ![r].userId = userId]
  /\ receiver_pc' = [receiver_pc EXCEPT ![r] = "check"]
  /\ UNCHANGED <<up, roomVars, queueVars, listensTo, senderVars, clientVars,
                 stream, unread>>

(***************************************************************************)
(* enqueue: isFull() before the lock, then front, rear and the slot, whose *)
(* index is read from `rear` again for every use.                          *)
(***************************************************************************)
\* Mutant: the index does not wrap around.
StraightOn(slot) == slot + 1

NextSlot(slot) == (slot + 1) % N

\* Mutant: the mutex is taken whether it is free or not.
TakenAnyway == TRUE

LockIsFree == mutex = NoThread

isFull == front = rear + 1

\* Mutant: the last two messages are held back.
isEmptyEarly == rear = front \/ rear = NextSlot(front)

isEmpty == rear = front

CheckFull(r) ==
  /\ up
  /\ receiver_pc[r] = "check"
  /\ receiver_pc' = [receiver_pc EXCEPT ![r] = IF isFull THEN "call" ELSE "lock"]
  /\ UNCHANGED <<up, roomVars, queueVars, listensTo, receivedMessage, senderVars,
                 clientVars, stream, unread>>

LockQueue(r) ==
  /\ up
  /\ receiver_pc[r] = "lock"
  /\ LockIsFree
  /\ mutex' = r
  /\ front' = IF front = -1 THEN 0 ELSE front
  /\ receiver_pc' = [receiver_pc EXCEPT ![r] = "advance"]
  /\ UNCHANGED <<up, roomVars, rear, messages, enqueued, dequeued, listensTo,
                 receivedMessage, senderVars, clientVars, stream, unread>>

AdvanceRear(r) ==
  /\ up
  /\ receiver_pc[r] = "advance"
  /\ rear' = NextSlot(rear)
  /\ receiver_pc' = [receiver_pc EXCEPT ![r] = "copy"]
  /\ UNCHANGED <<up, roomVars, front, messages, mutex, enqueued, dequeued, listensTo,
                 receivedMessage, senderVars, clientVars, stream, unread>>

\* Mutant: the thread serves one message and not one after another.
CopyMessageOnce(r) ==
  /\ up
  /\ receiver_pc[r] = "copy"
  /\ messages' = [messages EXCEPT ![rear] = receivedMessage[r]]
  /\ enqueued' = Append(enqueued, receivedMessage[r])
  /\ mutex' = NoThread
  /\ receiver_pc' = [receiver_pc EXCEPT ![r] = "done"]
  /\ UNCHANGED <<up, roomVars, front, rear, dequeued, listensTo, receivedMessage,
                 senderVars, clientVars, stream, unread>>

CopyMessage(r) ==
  /\ up
  /\ receiver_pc[r] = "copy"
  /\ messages' = [messages EXCEPT ![rear] = receivedMessage[r]]
  /\ enqueued' = Append(enqueued, receivedMessage[r])
  /\ mutex' = NoThread
  /\ receiver_pc' = [receiver_pc EXCEPT ![r] = "call"]
  /\ UNCHANGED <<up, roomVars, front, rear, dequeued, listensTo, receivedMessage,
                 senderVars, clientVars, stream, unread>>

(***************************************************************************)
(* senderWorkload.  dequeue() returns a pointer into the queue, which the  *)
(* loop over the clients reads again for every send(), without the mutex.  *)
(***************************************************************************)
FindMessage ==
  /\ up
  /\ sender_pc = "poll"
  /\ ~isEmpty
  /\ sender_pc' = "lock"
  /\ UNCHANGED <<up, roomVars, queueVars, receiverVars, current, id, clientVars,
                 stream, unread>>

Dequeue ==
  /\ up
  /\ sender_pc = "lock"
  /\ LockIsFree
  /\ current' = front
  /\ front' = NextSlot(front)
  /\ dequeued' = dequeued + 1
  /\ sender_pc' = "send"
  /\ UNCHANGED <<up, roomVars, rear, messages, mutex, enqueued, receiverVars, id,
                 clientVars, stream, unread>>

\* What send() may read from the slot: a thread may be writing it.
SlotContents ==
  {messages[current]}
    \cup (IF current = rear /\ \E r \in Clients : receiver_pc[r] = "copy"
          THEN {Junk} ELSE {})

\* Mutant: the next broadcast goes on where this one ended.
NextClientResuming ==
  IF id = MAX_NUM_CLIENT - 1
  THEN sender_pc' = "poll" /\ UNCHANGED id
  ELSE id' = id + 1 /\ UNCHANGED sender_pc

NextClient ==
  IF id = MAX_NUM_CLIENT - 1
  THEN sender_pc' = "poll" /\ id' = 0
  ELSE id' = id + 1 /\ UNCHANGED sender_pc

\* A place nobody has taken holds descriptor 0, on which send() fails; a send
\* to a client that has gone may still succeed.
SendToNobody ==
  /\ up
  /\ sender_pc = "send"
  /\ id >= threadCount \/ left[id]
  /\ NextClient
  /\ UNCHANGED <<up, roomVars, queueVars, receiverVars, current, clientVars,
                 stream, unread>>

\* send() blocks while the connection is full: the sender thread serves one
\* client after another, so that a client that does not read stops them all.
SendToClient ==
  /\ up
  /\ sender_pc = "send"
  /\ id < threadCount
  /\ ~left[id]
  /\ unread[id] < SocketCapacity
  /\ unread' = [unread EXCEPT ![id] = @ + 1]
  /\ \E m \in SlotContents :
       stream' = [stream EXCEPT ![id] = Append(@,
          [number |-> dequeued, message |-> m,
           behind |-> Len(enqueued) - dequeued])]
  /\ NextClient
  /\ UNCHANGED <<up, roomVars, queueVars, receiverVars, current, clientVars>>

\* SIGPIPE: handlerOnConnectionBroken ends the process.
handlerOnConnectionBroken ==
  /\ up
  /\ sender_pc = "send"
  /\ id < threadCount
  /\ left[id]
  /\ up' = FALSE
  /\ UNCHANGED <<roomVars, queueVars, receiverVars, senderVars, clientVars,
                 stream, unread>>

ReceiverThread(r) ==
  \/ CallRecv(r) \/ ReceiveLine(r) \/ EndReceiver(r) \/ Stamp(r) \/ CheckFull(r)
  \/ LockQueue(r) \/ AdvanceRear(r) \/ CopyMessage(r)

SenderThread ==
  \/ FindMessage \/ Dequeue \/ SendToNobody \/ SendToClient
  \/ handlerOnConnectionBroken

Next ==
  \/ AcceptClient
  \/ SenderThread
  \/ \E c \in Clients : Type(c) \/ Leave(c) \/ Show(c) \/ ReceiverThread(c)

Spec == Init /\ [][Next]_vars

\* Every thread of the server that can go on does; nobody has to connect, type,
\* read or leave, and no thread is preferred when the mutex is released.
FairSpec ==
  /\ Spec
  /\ WF_vars(SenderThread)
  /\ \A r \in Clients : WF_vars(ReceiverThread(r))

\* The receiver thread of a client process keeps calling recv().
ClientsRead == \A c \in Clients : WF_vars(Show(c))
=============================================================================
