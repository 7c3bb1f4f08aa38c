-------------------------- MODULE FtpConversation --------------------------
(***************************************************************************)
(* Request and reply stay in step: proof of InStep.  What is proved is     *)
(* whose turn it is at each control point of the two programs.             *)
(***************************************************************************)
EXTENDS FtpProofs

-----------------------------------------------------------------------------
(* The invariant: the control connection                                   *)

\* The one reply to a command, ...
Answered == Len(replies) = 1 /\ ~Opening(replies[1].status)

\* ... or the two to a transfer, the second of which may be still to come.
OpenedOnly == Len(replies) = 1 /\ Opening(replies[1].status)
OpenedAndEnded ==
  Len(replies) = 2 /\ Opening(replies[1].status) /\ ~Opening(replies[2].status)
TransferOpened == OpenedOnly \/ OpenedAndEnded

\* What the client may find in the queue of replies, whatever became of the server.
RepliesFit ==
  /\ client_pc \in {"off", "left", "exited", "prompt"} => replies = <<>>
  /\ client_pc \in {"join", "final"}
       => (replies = <<>> \/ Answered) /\ sentCommand \in Transfers
  /\ client_pc = "recv"
       => replies = <<>> \/ Answered \/ (TransferOpened /\ sentCommand \in Transfers)

\* Whose turn it is while client and server are connected.
Turn ==
  \/ client_pc = "prompt" /\ request = NoRequest /\ server_pc = "recv"
  \/ /\ client_pc = "recv" /\ server_pc = "recv" /\ replies = <<>>
     /\ request # NoRequest /\ request.command = sentCommand
  \/ /\ client_pc = "recv" /\ server_pc = "recv" /\ (Answered \/ OpenedAndEnded)
     /\ request = NoRequest
  \/ client_pc = "recv" /\ server_pc = "join" /\ OpenedOnly /\ request = NoRequest
  \/ /\ client_pc \in {"join", "final"} /\ server_pc = "join" /\ replies = <<>>
     /\ request = NoRequest
  \/ /\ client_pc \in {"join", "final"} /\ server_pc = "recv" /\ Answered
     /\ request = NoRequest

Conversation ==
  /\ RepliesFit
  /\ up =>
       /\ cfd = "none" <=> server_pc = "accept"
       /\ cfd = "none" => request = NoRequest
       /\ cfd = "client" => Turn
       /\ cfd # "client" => /\ client_pc \in {"off", "left", "exited", "recv"}
                            /\ replies = <<>> /\ dataThreads = <<>>

-----------------------------------------------------------------------------
(* The queue of replies                                                    *)

\* What the next reply is, and what remains without it.
LEMMA Taken ==
  ASSUME TypeOK
  PROVE  /\ replies = <<>> => ~Opening(Reply.status)
         /\ Answered => replies # <<>> /\ ~Opening(Reply.status)
         /\ TransferOpened => replies # <<>> /\ Opening(Reply.status)
         /\ ~(OpenedOnly /\ OpenedAndEnded)
         /\ replies' = Consumed(replies) =>
              /\ (replies = <<>> \/ Answered \/ OpenedOnly) => replies' = <<>>
              /\ OpenedAndEnded => Answered'
<1>1. replies \in Seq(Replies)
  BY DEF TypeOK, WiresTypeOK
<1>2. replies = <<>> => Reply.status = 0 /\ ~Opening(0)
  BY Openings DEF Reply
<1>3. replies # <<>> => Reply = replies[1]
  BY ReplyTyped
<1>4. /\ replies = <<>> => Consumed(replies) = <<>>
      /\ replies # <<>> => /\ Len(Consumed(replies)) = Len(replies) - 1 /\ Len(replies) >= 1
                          /\ \A j \in 1..(Len(replies) - 1) : Consumed(replies)[j] = replies[j + 1]
      /\ Consumed(replies) \in Seq(Replies)
  BY <1>1, ConsumedHolds
<1>5. Len(replies) \in Nat /\ (Len(replies) = 0 <=> replies = <<>>)
  BY Numbers
<1>6. ASSUME NEW q \in Seq(Replies), Len(q) = 0 PROVE q = <<>>
  BY <1>6
<1>7. replies = <<>> \/ Len(replies) = 1 => Consumed(replies) = <<>>
  BY <1>4, <1>5, <1>6
<1>8. ASSUME Len(replies) = 2, replies' = Consumed(replies)
      PROVE  Len(replies') = 1 /\ replies'[1] = replies[2]
  BY <1>4, <1>5, <1>8
<1>9. QED
  BY <1>2, <1>3, <1>5, <1>7, <1>8 DEF Answered, OpenedOnly, OpenedAndEnded, TransferOpened

\* What a reply adds to the queue.
LEMMA Replied ==
  ASSUME TypeOK, cfd = "client", NEW status \in Statuses, NEW port \in Int,
         Send(status, port)
  PROVE  /\ (replies = <<>> /\ status # 150) => Answered'
         /\ (replies = <<>> /\ status = 150) => OpenedOnly'
         /\ replies = <<>> => replies'[1] = [status |-> status, port |-> port]
         /\ (OpenedOnly /\ status # 150) => OpenedAndEnded'
<1> DEFINE reply == [status |-> status, port |-> port]
<1>1. reply \in Replies /\ reply.status = status
  BY DEF Replies
<1>2. replies \in Seq(Replies) /\ replies' = Append(replies, reply)
  BY DEF TypeOK, WiresTypeOK, Send
<1>3. /\ Len(replies) \in Nat /\ Len(replies') = Len(replies) + 1
      /\ replies'[Len(replies) + 1] = reply
      /\ \A j \in 1..Len(replies) : replies'[j] = replies[j]
  BY ONLY <1>1, <1>2, AppendHolds
<1>4. (status # 150 => ~Opening(status)) /\ Opening(150)
  BY Openings
<1>5. replies = <<>> => Len(replies) = 0
  BY NoItems
<1>6. replies = <<>> => Len(replies') = 1 /\ replies'[1] = reply
  BY <1>3, <1>5
<1>7. OpenedOnly => Len(replies') = 2 /\ replies'[1] = replies[1] /\ replies'[2] = reply
  BY <1>3 DEF OpenedOnly
<1> HIDE DEF reply
<1>8. QED
  BY <1>1, <1>4, <1>6, <1>7 DEF Answered, OpenedOnly, OpenedAndEnded, reply

LEMMA RepliesStay ==
  ASSUME UNCHANGED replies
  PROVE  /\ Answered' = Answered /\ OpenedOnly' = OpenedOnly
         /\ OpenedAndEnded' = OpenedAndEnded /\ TransferOpened' = TransferOpened
BY DEF Answered, OpenedOnly, OpenedAndEnded, TransferOpened

-----------------------------------------------------------------------------
(* Every step keeps the conversation                                       *)

LEMMA ConversationStays ==
  ASSUME Conversation, UNCHANGED <<up, server_pc, cfd, request, replies, client_pc, sentCommand>>,
         dataThreads = <<>> => dataThreads' = <<>>
  PROVE  Conversation'
<1>1. RepliesFit' = RepliesFit /\ Turn' = Turn
  BY RepliesStay DEF RepliesFit, Turn, NoRequest
<1>2. QED
  BY <1>1 DEF Conversation, NoRequest

LEMMA AnsweringConverses ==
  ASSUME TypeOK, Conversation, Answering, NEW status \in Statuses \ {150},
         NEW port \in Int, Send(status, port)
  PROVE  Conversation' /\ (cfd = "client" => replies = <<>> /\ client_pc = "recv" /\ Answered')
<1>1. /\ up /\ server_pc = "recv" /\ request # NoRequest /\ request' = NoRequest
      /\ UNCHANGED <<up, server_pc, cfd, client_pc, sentCommand, dataThreads>>
      /\ NoRequest' = NoRequest
  BY DEF Answering, Arrived, mainVars, clientVars, processVars, dataVars, NoRequest
<1>2. CASE cfd = "client"
  <2>1. client_pc = "recv" /\ replies = <<>>
    BY <1>1, <1>2 DEF Conversation, Turn
  <2>2. Answered'
    <3>1. status \in Statuses /\ status # 150
      OBVIOUS
    <3>2. (replies = <<>> /\ status # 150) => Answered'
      BY <1>2, <3>1, Replied, ZenonT(60)
    <3>3. QED
      BY ONLY <2>1, <3>1, <3>2
  <2>3. RepliesFit' /\ Turn'
    BY <1>1, <2>1, <2>2 DEF RepliesFit, Turn
  <2>4. QED
    BY <1>1, <1>2, <2>1, <2>2, <2>3 DEF Conversation
<1>3. CASE cfd # "client"
  <2>1. replies' = replies
    BY <1>3 DEF Send
  <2>2. RepliesFit'
    BY <1>1, <2>1, RepliesStay DEF RepliesFit, Conversation
  <2>3. QED
    BY <1>1, <1>3, <2>1, <2>2 DEF Conversation
<1>4. QED
  BY <1>2, <1>3

LEMMA StartConverses ==
  ASSUME TypeOK, Conversation, StartTransfer
  PROVE  /\ Conversation'
         /\ cfd = "client" => /\ replies = <<>> /\ client_pc = "recv" /\ OpenedOnly'
                             /\ request.command = sentCommand /\ sentCommand \in Transfers
<1>1. /\ up /\ server_pc = "recv" /\ request # NoRequest /\ request' = NoRequest
      /\ UNCHANGED <<up, cfd, client_pc, sentCommand, dataThreads>> /\ server_pc' = "join"
      /\ request.command \in Transfers /\ Send(150, 0) /\ NoRequest' = NoRequest
      /\ 150 \in Statuses
  BY DEF StartTransfer, Executes, Arrived, clientVars, processVars, dataVars, NoRequest,
         Transfers, Statuses
<1>2. CASE cfd = "client"
  <2>1. client_pc = "recv" /\ replies = <<>> /\ request.command = sentCommand
    BY <1>1, <1>2 DEF Conversation, Turn
  <2>2. OpenedOnly' /\ TransferOpened'
    BY <1>1, <1>2, <2>1, Replied, NoPort DEF TransferOpened
  <2>3. RepliesFit' /\ Turn'
    BY <1>1, <2>1, <2>2 DEF RepliesFit, Turn
  <2>4. QED
    BY <1>1, <1>2, <2>1, <2>2, <2>3 DEF Conversation
<1>3. CASE cfd # "client"
  <2>1. replies' = replies
    BY <1>1, <1>3 DEF Send
  <2>2. RepliesFit'
    BY <1>1, <2>1, RepliesStay DEF RepliesFit, Conversation
  <2>3. QED
    BY <1>1, <1>3, <2>1, <2>2 DEF Conversation
<1>4. QED
  BY <1>2, <1>3

LEMMA EndConverses ==
  ASSUME TypeOK, Conversation, EndTransfer
  PROVE  /\ Conversation'
         /\ cfd = "client" =>
              \/ client_pc = "recv" /\ OpenedOnly /\ OpenedAndEnded'
              \/ client_pc \in {"join", "final"} /\ replies = <<>> /\ Answered'
<1>1. /\ up /\ server_pc = "join" /\ server_pc' = "recv"
      /\ UNCHANGED <<up, cfd, request, client_pc, sentCommand, dataThreads>>
      /\ NoRequest' = NoRequest
  BY DEF EndTransfer, clientVars, processVars, dataVars, NoRequest
<1>2. PICK status \in Statuses \ {150} : Send(status, 0)
  BY DEF EndTransfer, Statuses
<1>3. CASE cfd = "client"
  <2>1. \/ client_pc = "recv" /\ OpenedOnly /\ request = NoRequest
        \/ client_pc \in {"join", "final"} /\ replies = <<>> /\ request = NoRequest
    BY <1>1, <1>3 DEF Conversation, Turn
  <2>2. /\ OpenedOnly => OpenedAndEnded'
        /\ replies = <<>> => Answered'
    <3>1. status \in Statuses /\ status # 150
      OBVIOUS
    <3>2. /\ (replies = <<>> /\ status # 150) => Answered'
          /\ (OpenedOnly /\ status # 150) => OpenedAndEnded'
      BY <1>2, <1>3, <3>1, Replied, NoPort, ZenonT(60)
    <3>3. QED
      BY ONLY <3>1, <3>2
  <2>3. client_pc = "recv" => sentCommand \in Transfers
    BY <2>1, Taken DEF Conversation, RepliesFit, TransferOpened
  <2>4. RepliesFit'
    BY <1>1, <2>1, <2>2, <2>3 DEF RepliesFit, TransferOpened, Conversation
  <2>5. Turn'
    BY <1>1, <2>1, <2>2 DEF Turn
  <2>6. QED
    BY <1>1, <1>3, <2>1, <2>2, <2>4, <2>5 DEF Conversation
<1>4. CASE cfd # "client"
  <2>1. replies' = replies
    BY <1>2, <1>4 DEF Send
  <2>2. RepliesFit'
    BY <1>1, <2>1, RepliesStay DEF RepliesFit, Conversation
  <2>3. QED
    BY <1>1, <1>4, <2>1, <2>2 DEF Conversation
<1>5. QED
  BY <1>3, <1>4

LEMMA ConnectionConverses ==
  ASSUME TypeOK, Conversation, AcceptClient \/ RecvError \/ Connect
  PROVE  Conversation'
<1>1. CASE AcceptClient
  <2>1. /\ up /\ server_pc = "accept" /\ server_pc' = "recv" /\ cfd' = "client"
        /\ client_pc = "recv" /\ replies' = <<[status |-> 220, port |-> 0]>>
        /\ UNCHANGED <<up, request, client_pc, sentCommand, dataThreads>>
        /\ NoRequest' = NoRequest
    BY <1>1 DEF AcceptClient, clientVars, processVars, dataVars, NoRequest
  <2>2. request = NoRequest
    BY <2>1 DEF Conversation
  <2>3. Len(replies') = 1 /\ replies'[1].status = 220
    BY <2>1
  <2>4. Answered'
    BY <2>3, Openings DEF Answered, Statuses
  <2>5. RepliesFit' /\ Turn'
    BY <2>1, <2>2, <2>4 DEF RepliesFit, Turn
  <2>6. QED
    BY <2>1, <2>5 DEF Conversation
<1>2. CASE RecvError
  <2>1. /\ up /\ cfd = "gone" /\ cfd' = "none" /\ server_pc' = "accept"
        /\ request' = NoRequest /\ NoRequest' = NoRequest
        /\ UNCHANGED <<up, replies, client_pc, sentCommand, dataThreads>>
    BY <1>2 DEF RecvError, clientVars, processVars, dataVars, NoRequest
  <2>2. RepliesFit'
    BY <2>1, RepliesStay DEF RepliesFit, Conversation
  <2>3. QED
    BY <2>1, <2>2 DEF Conversation
<1>3. CASE Connect
  <2>1. /\ up /\ client_pc \in {"off", "left", "exited"} /\ client_pc' = "recv"
        /\ UNCHANGED <<up, server_pc, cfd, request, replies, dataThreads>>
        /\ NoRequest' = NoRequest
    BY <1>3 DEF Connect, serverVars, mainVars, wireVars, dataVars, NoRequest
  <2>2. replies = <<>> /\ cfd # "client"
    BY <2>1 DEF Conversation, RepliesFit, Turn
  <2>3. RepliesFit'
    BY <2>1, <2>2 DEF RepliesFit
  <2>4. QED
    BY <2>1, <2>2, <2>3 DEF Conversation
<1>4. QED
  BY <1>1, <1>2, <1>3

LEMMA CrashConverses ==
  ASSUME Conversation, Crash
  PROVE  Conversation'
<1>1. up' = FALSE /\ UNCHANGED <<replies, client_pc, sentCommand>>
  BY DEF Crash, clientVars, processVars
<1>2. RepliesFit'
  BY <1>1, RepliesStay DEF RepliesFit, Conversation
<1>3. QED
  BY <1>1, <1>2 DEF Conversation

\* At the prompt the client is connected, unless the server is gone.
LEMMA SendLineConverses ==
  ASSUME TypeOK, Conversation, NEW line \in Lines, SendLine(line)
  PROVE  Conversation'
<1>1. /\ client_pc = "prompt" /\ sentCommand' = line.command
      /\ UNCHANGED <<up, server_pc, cfd, replies, dataThreads>> /\ NoRequest' = NoRequest
      /\ \/ up /\ request' = line /\ client_pc' = "recv"
         \/ ~up /\ client_pc' \in {"recv", "exited"}
  BY DEF SendLine, serverVars, mainVars, dataVars, NoRequest
<1>2. replies = <<>>
  BY <1>1 DEF Conversation, RepliesFit
<1>3. RepliesFit'
  BY <1>1, <1>2 DEF RepliesFit
<1>4. CASE up
  <2>1. cfd = "client" /\ server_pc = "recv"
    BY <1>1, <1>4 DEF Conversation, Turn
  <2>2. line # NoRequest
    BY LinesAssumption DEF Request, Commands, NoRequest
  <2>3. Turn'
    BY <1>1, <1>2, <1>4, <2>1, <2>2 DEF Turn
  <2>4. QED
    BY <1>1, <1>3, <1>4, <2>1, <2>3 DEF Conversation
<1>5. CASE ~up
  BY <1>1, <1>3, <1>5 DEF Conversation
<1>6. QED
  BY <1>4, <1>5

LEMMA CallbackConverses ==
  ASSUME TypeOK, Conversation, Callback
  PROVE  /\ Conversation'
         /\ up => cfd = "client"
<1>1. UNCHANGED <<up, server_pc, cfd, request, sentCommand>> /\ NoRequest' = NoRequest
  BY DEF Callback, Acknowledge, CreateDataThread, JoinDataThread, DataThreadEnds,
         ReceiveFinal, serverVars, mainVars, wireVars, NoRequest
<1>2. CASE Acknowledge \/ CreateDataThread
  <2>1. /\ client_pc = "recv" /\ client_pc' = "prompt" /\ replies' = Consumed(replies)
        /\ replies # <<>> \/ ~up
        /\ sentCommand \notin Transfers \/ ~Opening(Reply.status)
    BY <1>2 DEF Acknowledge, CreateDataThread, Reads, Transfers
  <2>2. replies = <<>> \/ Answered
    BY <2>1, Taken DEF Conversation, RepliesFit
  <2>3. replies' = <<>>
    BY <2>1, <2>2, Taken
  <2>4. RepliesFit'
    BY <2>1, <2>3 DEF RepliesFit
  <2>5. CASE up
    <3>1. cfd = "client" /\ request = NoRequest /\ server_pc = "recv"
      BY <2>1, <2>2, <2>5, Taken DEF Conversation, Turn, TransferOpened
    <3>2. Turn'
      BY <1>1, <2>1, <2>3, <3>1 DEF Turn
    <3>3. QED
      BY <1>1, <2>4, <2>5, <3>1, <3>2 DEF Conversation
  <2>6. QED
    BY <1>1, <2>4, <2>5 DEF Conversation
<1>3. CASE JoinDataThread
  <2>1. /\ client_pc = "recv" /\ client_pc' = "join" /\ replies' = Consumed(replies)
        /\ sentCommand \in Transfers /\ Opening(Reply.status)
    BY <1>3 DEF JoinDataThread, Reads, Transfers
  <2>2. TransferOpened /\ replies # <<>> /\ ~Answered
    BY <2>1, Taken DEF Conversation, RepliesFit
  <2>3. /\ OpenedOnly => replies' = <<>>
        /\ OpenedAndEnded => Answered'
    BY <2>1, Taken
  <2>4. RepliesFit'
    BY <1>1, <2>1, <2>2, <2>3 DEF RepliesFit, TransferOpened
  <2>5. CASE up
    <3>1. cfd = "client" /\ Turn
      BY <2>2, <2>5 DEF Conversation
    <3>2. request = NoRequest /\ \/ OpenedOnly /\ server_pc = "join"
                                 \/ OpenedAndEnded /\ server_pc = "recv"
      BY <2>1, <2>2, <3>1 DEF Turn
    <3>3. Turn'
      BY <1>1, <2>1, <2>3, <3>2 DEF Turn
    <3>4. QED
      BY <1>1, <2>4, <2>5, <3>1, <3>3 DEF Conversation
  <2>6. QED
    BY <1>1, <2>4, <2>5 DEF Conversation
<1>4. CASE DataThreadEnds
  <2>1. client_pc = "join" /\ client_pc' = "final" /\ UNCHANGED <<replies, dataThreads>>
    BY <1>4 DEF DataThreadEnds, wireVars, dataVars
  <2>2. RepliesFit'
    BY <1>1, <2>1, RepliesStay DEF RepliesFit, Conversation
  <2>3. Turn => Turn'
    BY <1>1, <2>1, RepliesStay DEF Turn
  <2>4. QED
    BY <1>1, <2>1, <2>2, <2>3 DEF Conversation
<1>5. CASE ReceiveFinal
  <2>1. /\ client_pc = "final" /\ client_pc' = "prompt" /\ replies' = Consumed(replies)
        /\ replies # <<>> \/ ~up
    BY <1>5 DEF ReceiveFinal, LastConsumed, Reads
  <2>2. replies = <<>> \/ Answered
    BY <2>1 DEF Conversation, RepliesFit
  <2>3. replies' = <<>>
    BY <2>1, <2>2, Taken
  <2>4. RepliesFit'
    BY <2>1, <2>3 DEF RepliesFit
  <2>5. CASE up
    <3>1. cfd = "client" /\ request = NoRequest /\ server_pc = "recv"
      BY <2>1, <2>5 DEF Conversation, Turn
    <3>2. Turn'
      BY <1>1, <2>1, <2>3, <3>1 DEF Turn
    <3>3. QED
      BY <1>1, <2>4, <2>5, <3>1, <3>2 DEF Conversation
  <2>6. QED
    BY <1>1, <2>4, <2>5 DEF Conversation
<1>6. QED
  BY <1>2, <1>3, <1>4, <1>5 DEF Callback

LEMMA DepartsConverses ==
  ASSUME Conversation, Departs
  PROVE  Conversation' /\ (up => cfd = "client")
<1>1. PICK pc \in {"left", "exited"} : Goes(pc)
  BY DEF Departs
<1>2. /\ client_pc' = pc /\ cfd' = "gone" /\ replies' = <<>> /\ dataThreads' = <<>>
      /\ UNCHANGED <<up, server_pc, request>>
  BY <1>1 DEF Goes
<1>3. RepliesFit'
  BY <1>2 DEF RepliesFit
<1>4. up => cfd = "client"
  BY DEF Departs, Reads, Conversation
<1>5. QED
  BY <1>2, <1>3, <1>4 DEF Conversation

LEMMA ConversationStep == TypeOK /\ Counted /\ Conversation /\ [Next]_vars => Conversation'
<1> SUFFICES ASSUME TypeOK, Counted, Conversation, [Next]_vars PROVE Conversation'
  OBVIOUS
<1>1. CASE UNCHANGED vars
  BY <1>1, ConversationStays
     DEF vars, serverVars, mainVars, wireVars, clientVars, processVars, dataVars
<1>2. CASE Quiet
  BY <1>2, QuietAnswers, AnsweringConverses, NoPort DEF TypeOK
<1>3. CASE Pasv
  <2>1. 227 \in Statuses \ {150}
    BY DEF Statuses
  <2>2. QED
    BY <1>3, <2>1, PasvAnswers, AnsweringConverses
<1>4. CASE Port
  <2>1. 200 \in Statuses \ {150} /\ 400 \in Statuses \ {150}
    BY DEF Statuses
  <2>2. QED
    BY <1>4, <2>1, PortAnswers, AnsweringConverses, NoPort
<1>5. CASE StartTransfer \/ EndTransfer \/ AcceptClient \/ RecvError \/ Connect
  BY <1>5, StartConverses, EndConverses, ConnectionConverses
<1>6. CASE up /\ Crash
  BY <1>6, CrashConverses
<1>7. ASSUME NEW i \in DOMAIN threads, Prepares(i) PROVE Conversation'
  <2>1. UNCHANGED <<mainVars, wireVars, clientVars>> /\ up' = up
    BY <1>7, Preparing
  <2>2. QED
    BY <2>1, ConversationStays DEF mainVars, wireVars, clientVars, processVars, dataVars
<1>8. ASSUME NEW i \in DOMAIN threads, Transfer(i) PROVE Conversation'
  <2>1. UNCHANGED <<up, mainVars, request, replies, processVars>>
        /\ Len(dataThreads') = Len(dataThreads) /\ dataThreads' \in Seq(ClientThreads)
    BY <1>8, Transferring
  <2>2. dataThreads = <<>> => dataThreads' = <<>>
    <3>1. ASSUME NEW q \in Seq(ClientThreads), Len(q) = 0 PROVE q = <<>>
      BY <3>1
    <3>2. QED
      BY <2>1, <3>1, Numbers
  <2>3. QED
    BY <2>1, <2>2, ConversationStays DEF mainVars, processVars
<1>9. CASE Callback
  BY <1>9, CallbackConverses
<1>10. CASE Departs
  BY <1>10, DepartsConverses
<1>11. ASSUME NEW line \in Lines, SendLine(line) PROVE Conversation'
  BY <1>11, SendLineConverses
<1>12. ASSUME NEW i \in DOMAIN dataThreads,
              Parse(i) \/ ParseWrong(i) \/ WakeClientUnasked(i) \/ ConnectData(i) \/ SaveData(i)
       PROVE  Conversation'
  <2>1. UNCHANGED <<serverVars, request, replies, processVars>>
    BY <1>12 DEF Parse, ParseWrong, WakeClientUnasked, ConnectData, SaveData, wireVars
  <2>2. dataThreads # <<>>
    BY Numbers
  <2>3. QED
    BY <2>1, <2>2, ConversationStays DEF serverVars, mainVars, processVars
<1>13. QED
  BY <1>1, <1>2, <1>3, <1>4, <1>5, <1>6, <1>7, <1>8, <1>9, <1>10, <1>11, <1>12, Steps

LEMMA ConversationInit == Init => Conversation
BY DEF Init, Conversation, RepliesFit, Turn

\* Request and reply stay in step for any number of commands, clients and
\* connections that break off: the two replies of NLST and RETR are both read,
\* whatever order the data threads and main end in, before the next line is asked
\* for, and no other command leaves one behind.
THEOREM RequestAndReply == Spec => []InStep
<1> DEFINE Talk == TypeOK /\ Counted /\ Conversation
<1>1. Init => Talk
  BY TypedInit, ConversationInit
<1>2. Talk /\ [Next]_vars => Talk'
  BY TypedStep, ConversationStep
<1>3. Talk => InStep
  BY DEF Conversation, RepliesFit, Turn, InStep
<1>4. QED
  BY <1>1, <1>2, <1>3, PTL DEF Spec

=============================================================================
