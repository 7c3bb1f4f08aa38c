--------------------------- MODULE ChatProperties ---------------------------
(* What the chat room of module ChatServer guarantees, and what its        *)
(* comments and the README promise of it that the code does not keep.      *)
EXTENDS ChatServer

\* Lines that are typed in the room at most.
Lines ==
  LET by[c \in 0..MAX_NUM_CLIENT] == IF c = 0 THEN 0 ELSE by[c - 1] + MaxLines[c - 1]
  IN  by[MAX_NUM_CLIENT]

BeingWritten(s) == s = rear /\ \E r \in Clients : receiver_pc[r] = "copy"

\* server.c, enqueue: although isFull() is asked before the lock is taken and
\* the slot is found through the global `rear`, any number of receiver threads
\* together leave each of the last N messages in the slot its number says.
QueueHoldsTheLatest ==
  \A k \in 1..Len(enqueued) :
    LET s == (k - 1) % N
    IN  k + N > Len(enqueued) /\ ~BeingWritten(s) => messages[s] = enqueued[k]

\* server.c, senderWorkload: the slot is sent to one client after another
\* without the mutex.  As long as fewer than N - 1 later messages have been
\* put into the queue, what the n-th broadcast sends is the n-th message.
BroadcastsAreFaithful ==
  \A c \in Clients : \A i \in 1..Len(stream[c]) :
    LET b == stream[c][i]
    IN  b.behind \in 0..(N - 2) => b.message = enqueued[b.number]

\* Once a client has been sent a broadcast it is sent every later one, in
\* order: clients that leave, join or have not joined yet cost the others
\* nothing while the server lives.
NoBroadcastIsMissed ==
  \A c \in Clients :
    stream[c] # <<>> =>
      /\ \A i \in 1..Len(stream[c]) : stream[c][i].number = stream[c][1].number + i - 1
      /\ sender_pc # "send" /\ ~left[c] => stream[c][Len(stream[c])].number = dequeued

BroadcastEnded(n) == dequeued > n \/ (dequeued = n /\ sender_pc # "send")

\* While the clients read, only the last of the messages put into the queue can
\* stay in it: each earlier one is taken out and sent to everyone, or the server
\* has died, provided that the sender thread never runs past `rear` (which it
\* does when it looks into the very first enqueue between `front` = 0 and the new
\* `rear`, and so takes that message out as well) and that the queue never comes
\* full circle unnoticed (which, as isFull() has no modulus, it does at the end
\* of the array).
OnlyTheLastIsHeldBack ==
  ClientsRead /\ [](Len(enqueued) - dequeued \in 0..N) =>
    \A n \in 1..Lines : Len(enqueued) > n ~> BroadcastEnded(n) \/ ~up

\* All threads move over to the newest client's socket (*tid), so what the
\* newest client types is received, until another client joins, it leaves, or
\* the server dies, even while a client that does not read blocks the sender.
NewestClientIsHeard ==
  \A c \in Clients :
    threadCount = c + 1 /\ inbox[c] # <<>>
      ~> inbox[c] = <<>> \/ threadCount > c + 1 \/ left[c] \/ ~up

-----------------------------------------------------------------------------
(* Promises of the README and of the comments that the code does not keep  *)

\* server.c:120: the user id is passed to the thread as its argument, so what
\* a client types is stamped with that client's id.
LinesAreStampedWithTheirSender ==
  \A k \in 1..Len(enqueued) : enqueued[k].userId = enqueued[k].from

\* server.c:197: the slots from front to rear are taken to be full, so a message
\* put between them is one the sender thread finds, and while the clients read
\* each one is taken out.
EveryLineIsShown ==
  ClientsRead => \A n \in 1..Lines : Len(enqueued) >= n ~> dequeued >= n
=============================================================================
