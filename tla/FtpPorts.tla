------------------------------ MODULE FtpPorts ------------------------------
(***************************************************************************)
(* Both sides mean the same port: proof of PortsAgree, which holds if the  *)
(* user types once the data threads wait and none of the client's wakes up *)
(* before it is asked to or returns before it could connect, and if what   *)
(* lies beyond the table of ports can be read back from its two parts as   *)
(* the table can.                                                          *)
(***************************************************************************)
EXTENDS FtpTransfers

\* A port is read back as it was, up to the 16 bits of a socket address, or not
\* at all.
Survives(port) == Readable(port) => htons(Decode(port)) = htons(port)

\* A reply that selects a mode names the port of the server's newest thread, and the
\* client will read it by the command that the reply is for.
Agreed(status, port) ==
  /\ threads # <<>>
  /\ htons(port) = Newest(threads).port
  /\ sentCommand \in Modes
  /\ sentCommand = "pasv" => status = 227 /\ Survives(port)
  /\ sentCommand = "port" => status = 200

Selecting == {200, 227}

\* No thread parses but the newest, and nothing is typed while it does.
OnlyNewestParses ==
  \A i \in DOMAIN dataThreads :
    dataThreads[i].pc = "parse" => i = Len(dataThreads) /\ client_pc = "prompt"

AgreedInReply ==
  client_pc = "recv" /\ sentCommand \in Modes /\ Answered /\ replies[1].status \in Selecting
    => Agreed(replies[1].status, replies[1].port)

AgreedInThread ==
  dataThreads # <<>> /\ Newest(dataThreads).status \in Selecting
    /\ Newest(dataThreads).pc = "parse"
    => Agreed(Newest(dataThreads).status, Newest(dataThreads).port)

SameTarget ==
  dataThreads # <<>> /\ Newest(dataThreads).status \in Selecting
    /\ Newest(dataThreads).pc = "waiting" /\ authStatus = "MODESELECTED" /\ NoModeAsked
    => threads # <<>> /\ target = Newest(threads).port

PortsFollow ==
  {"wait", "asked"} \subseteq assumed /\ up /\ Understood =>
    OnlyNewestParses /\ AgreedInReply /\ AgreedInThread /\ SameTarget

\* What is known before a step.
Following ==
  /\ Underway /\ {"wait", "asked"} \subseteq assumed /\ up /\ Understood
  /\ OnlyNewestParses /\ AgreedInReply /\ AgreedInThread /\ SameTarget

-----------------------------------------------------------------------------
(* The four parts, step by step                                            *)

\* The newest thread of the server keeps its port.
LEMMA PortsStay ==
  ASSUME TypeOK, Counted, assumed' = assumed,
         \/ UNCHANGED threads
         \/ threads' \in Signalled(threads)
         \/ \E i \in DOMAIN threads : Prepares(i) \/ Transfer(i)
  PROVE  threads # <<>> => threads' # <<>> /\ Newest(threads)'.port = Newest(threads).port
<1> SUFFICES ASSUME threads # <<>>
             PROVE  threads' # <<>> /\ Newest(threads)'.port = Newest(threads).port
  OBVIOUS
<1>1. Len(threads) \in DOMAIN threads /\ Len(threads) # 0 /\ Newest(threads) = threads[Len(threads)]
  BY Numbers DEF Newest
<1>2. CASE UNCHANGED threads
  BY <1>2 DEF Newest
<1>3. CASE Len(threads') = Len(threads) /\ \A j \in DOMAIN threads : threads'[j].port = threads[j].port
  <2>1. threads' # <<>>
    BY <1>1, <1>3, NoItems
  <2>2. Newest(threads)' = threads'[Len(threads)]
    BY <1>3 DEF Newest
  <2>3. QED
    BY <1>1, <1>3, <2>1, <2>2
<1>4. CASE threads' \in Signalled(threads)
  BY <1>3, <1>4, ServerSignal
<1>5. ASSUME NEW i \in DOMAIN threads, Prepares(i) \/ Transfer(i)
      PROVE  threads' # <<>> /\ Newest(threads)'.port = Newest(threads).port
  BY <1>3, <1>5, Preparing, Transferring
<1>6. QED
  BY <1>2, <1>4, <1>5

LEMMA OnlyNewestParsesStep ==
  ASSUME Following, [Next]_vars
  PROVE  OnlyNewestParses'
<1>1. /\ TypeOK /\ Counted /\ Conversation /\ OnlyNewestParses /\ up /\ {"wait", "asked"} \subseteq assumed
      /\ Underway
  BY DEF Following, Underway
<1>2. CASE ServerStep
  BY <1>1, <1>2, ClientIdle DEF OnlyNewestParses
<1>3. ASSUME NEW i \in DOMAIN threads, Transfer(i) PROVE OnlyNewestParses'
  <2>1. client_pc' = client_pc
    BY <1>3 DEF Transfer, processVars
  <2>2. QED
    BY <1>1, <1>3, <2>1, Transferring DEF OnlyNewestParses
<1>4. CASE Connect
  <2>1. client_pc # "prompt" /\ dataThreads' = dataThreads
    BY <1>4 DEF Connect, dataVars
  <2>2. QED
    BY <1>1, <2>1 DEF OnlyNewestParses
<1>5. ASSUME NEW line \in Lines, SendLine(line) PROVE OnlyNewestParses'
  <2>1. Settled /\ dataThreads' = dataThreads
    BY <1>1, <1>5 DEF SendLine, dataVars
  <2>2. QED
    BY <2>1 DEF OnlyNewestParses, Settled
<1>6. CASE Departs
  <2>1. DOMAIN dataThreads' = {}
    BY <1>6 DEF Departs, Goes
  <2>2. QED
    BY <2>1 DEF OnlyNewestParses
<1>7. CASE Acknowledge \/ DataThreadEnds \/ ReceiveFinal
  <2>1. client_pc # "prompt" /\ dataThreads' = dataThreads
    BY <1>7 DEF Acknowledge, DataThreadEnds, ReceiveFinal, Reads, dataVars
  <2>2. QED
    BY <1>1, <2>1 DEF OnlyNewestParses
<1>8. CASE CreateDataThread
  <2>1. client_pc = "recv" /\ client_pc' = "prompt"
    BY <1>8 DEF CreateDataThread, Reads
  <2>2. ASSUME NEW i \in DOMAIN dataThreads', dataThreads'[i].pc = "parse"
        PROVE  i = Len(dataThreads')
    BY <1>1, <1>8, <2>1, <2>2, ThreadCreated, Numbers DEF OnlyNewestParses
  <2>3. QED
    BY <2>1, <2>2 DEF OnlyNewestParses
<1>9. CASE JoinDataThread
  <2>1. client_pc = "recv" /\ DOMAIN dataThreads' = DOMAIN dataThreads
        /\ \/ dataThreads' = dataThreads
           \/ \E i \in DOMAIN dataThreads :
                /\ dataThreads'[i].pc = "woken"
                /\ \A j \in DOMAIN dataThreads :
                     j # i => dataThreads'[j].pc = dataThreads[j].pc
    BY <1>1, <1>9, Joining
  <2>2. QED
    BY <1>1, <2>1 DEF OnlyNewestParses
<1>10. ASSUME NEW i \in DOMAIN dataThreads,
              Parse(i) \/ ParseWrong(i) \/ WakeClientUnasked(i) \/ ConnectData(i) \/ SaveData(i)
       PROVE  OnlyNewestParses'
  <2>1. /\ DOMAIN dataThreads' = DOMAIN dataThreads /\ Len(dataThreads') = Len(dataThreads)
        /\ client_pc' = client_pc /\ dataThreads'[i].pc # "parse"
        /\ \A j \in DOMAIN dataThreads : j # i => dataThreads'[j].pc = dataThreads[j].pc
    BY <1>1, <1>10, ClientThreadSteps
  <2>2. QED
    BY <1>1, <2>1 DEF OnlyNewestParses
<1>11. QED
  BY <1>1, <1>2, <1>3, <1>4, <1>5, <1>6, <1>7, <1>8, <1>9, <1>10, StepsByProcess DEF Callback

LEMMA AgreedStays ==
  ASSUME NEW status, NEW port, Agreed(status, port), sentCommand' = sentCommand,
         threads' # <<>> /\ Newest(threads)'.port = Newest(threads).port
  PROVE  Agreed(status, port)'
BY DEF Agreed

LEMMA AnsweredSomething ==
  /\ replies = <<>> => ~Answered
  /\ replies' = <<>> => ~Answered'
  /\ (OpenedOnly' \/ OpenedAndEnded') => ~Answered'
BY NoItems, OpenedOrAnswered DEF Answered

\* PASV and PORT, when they select a mode and the client is there to read it.
LEMMA SelectedAgrees ==
  ASSUME Following, \A p \in Garbage : Survives(p), Pasv \/ Port, cfd = "client",
         Answered', replies'[1].status \in Selecting
  PROVE  Agreed(replies[1].status, replies[1].port)'
<1>1. TypeOK /\ Counted /\ Conversation
  BY DEF Following, Underway
<1>2. Answering /\ request.command \in Modes
  BY <1>1, PasvAnswers, PortAnswers DEF Modes
<1>3. /\ replies = <<>> /\ request.command = sentCommand /\ sentCommand' = sentCommand
      /\ assumed' = assumed
  BY <1>1, <1>2 DEF Answering, Arrived, Conversation, Turn, clientVars, processVars, boundVars
<1>4. /\ 200 \in Statuses /\ 227 \in Statuses /\ 400 \in Statuses /\ 0 \in Int
  BY NoPort DEF Statuses
<1>5. CASE Pasv
  <2>1. PICK port \in Int : /\ SelectsMode(port) /\ Send(227, port)
                           /\ (portIdx < Len(ports) => Decode(port) = port)
                           /\ (portIdx >= Len(ports) => port \in Garbage)
    BY <1>1, <1>5, PasvAnswers
  <2>2. portIdx < Len(ports) \/ portIdx >= Len(ports)
    BY <1>1, Numbers, Constants DEF TypeOK, ClientTypeOK
  <2>3. Survives(port)
    BY <2>1, <2>2 DEF Survives
  <2>4. threads' # <<>> /\ Newest(threads').port = htons(port)
    BY <1>1, <1>3, <2>1, SelectTyped
  <2>5. replies'[1] = [status |-> 227, port |-> port]
    BY <1>1, <1>3, <1>4, <2>1, Replied
  <2>6. sentCommand = "pasv"
    BY <1>1, <1>3, <1>5, PasvAnswers
  <2>7. QED
    BY <1>3, <2>3, <2>4, <2>5, <2>6 DEF Agreed, Newest, Modes
<1>6. CASE Port
  <2>1. sentCommand = "port"
    BY <1>1, <1>3, <1>6, PortAnswers
  <2>2. CASE Send(400, 0)
    <3>1. replies'[1] = [status |-> 400, port |-> 0]
      BY <1>1, <1>3, <1>4, <2>2, Replied
    <3>2. QED
      BY <3>1 DEF Selecting
  <2>3. ASSUME NEW port \in Int, SelectsMode(port), Send(200, port)
        PROVE  Agreed(replies[1].status, replies[1].port)'
    <3>1. threads' # <<>> /\ Newest(threads').port = htons(port)
      BY <1>1, <1>3, <2>3, SelectTyped
    <3>2. replies'[1] = [status |-> 200, port |-> port]
      BY <1>1, <1>3, <1>4, <2>3, Replied
    <3>3. QED
      BY <1>3, <2>1, <3>1, <3>2 DEF Agreed, Newest, Modes
  <2>4. QED
    BY <1>1, <1>6, <2>2, <2>3, PortAnswers
<1>7. QED
  BY <1>5, <1>6

LEMMA AgreedInReplyStep ==
  ASSUME Following, \A p \in Garbage : Survives(p), [Next]_vars
  PROVE  up' => AgreedInReply'
<1>1. /\ TypeOK /\ Counted /\ Conversation /\ AgreedInReply /\ up /\ Underway
      /\ "asked" \in assumed /\ assumed' = assumed
  BY AssumedStays DEF Following, Underway
<1>2. CASE /\ UNCHANGED <<client_pc, sentCommand, replies>>
           /\ threads # <<>> => threads' # <<>> /\ Newest(threads)'.port = Newest(threads).port
  <2>1. SUFFICES ASSUME client_pc = "recv", sentCommand \in Modes, Answered,
                        replies[1].status \in Selecting
                 PROVE  Agreed(replies[1].status, replies[1].port)'
    BY <1>2, RepliesStay DEF AgreedInReply
  <2>2. Agreed(replies[1].status, replies[1].port) /\ threads # <<>>
    BY <1>1, <2>1 DEF AgreedInReply, Agreed
  <2>3. QED
    BY <1>2, <2>2 DEF Agreed
<1>3. CASE client_pc' # "recv" \/ replies' = <<>>
  BY <1>3, AnsweredSomething DEF AgreedInReply
<1>4. cfd # "client" => replies = <<>>
  BY <1>1 DEF Conversation
<1>5. CASE ServerStep
  <2>1. UNCHANGED <<client_pc, sentCommand>>
    BY <1>5, ClientIdle
  <2>2. CASE UNCHANGED vars
    BY <1>2, <2>1, <2>2 DEF vars, serverVars, threadVars, wireVars, Newest
  <2>3. CASE Crash
    BY <2>3 DEF Crash
  <2>4. CASE Quiet
    <3>1. Answering
      BY <1>1, <2>4, QuietAnswers DEF TypeOK
    <3>2. CASE cfd = "client"
      <4>1. request.command = sentCommand /\ replies = <<>>
        BY <1>1, <3>1, <3>2 DEF Answering, Arrived, Conversation, Turn
      <4>2. CASE sentCommand \in Modes
        <5>1. PICK status \in {400, 401} : Send(status, 0)
          BY <1>1, <2>4, <4>1, <4>2, QuietAnswers DEF TypeOK
        <5>2. status \in Statuses
          BY DEF Statuses
        <5>3. replies'[1] = [status |-> status, port |-> 0]
          BY <1>1, <3>2, <4>1, <5>1, <5>2, NoPort, Replied
        <5>4. replies'[1].status \notin Selecting
          BY <5>3 DEF Selecting
        <5>5. QED
          BY <5>4 DEF AgreedInReply
      <4>3. CASE sentCommand \notin Modes
        BY <2>1, <4>3 DEF AgreedInReply, Modes
      <4>4. QED
        BY <4>2, <4>3
    <3>3. CASE cfd # "client"
      BY <1>1, <1>3, <1>4, <2>4, <3>3, QuietAnswers DEF Send, TypeOK
    <3>4. QED
      BY <3>2, <3>3
  <2>5. CASE Pasv \/ Port
    <3>1. CASE cfd = "client"
      BY <2>5, <3>1, SelectedAgrees DEF AgreedInReply
    <3>2. CASE cfd # "client"
      BY <1>1, <1>3, <1>4, <2>5, <3>2, PasvAnswers, PortAnswers DEF Send
    <3>3. QED
      BY <3>1, <3>2
  <2>6. CASE StartTransfer
    <3>1. CASE cfd = "client"
      BY <1>1, <2>6, <3>1, StartConverses, AnsweredSomething DEF AgreedInReply
    <3>2. CASE cfd # "client"
      BY <1>3, <1>4, <2>6, <3>2 DEF StartTransfer, Send
    <3>3. QED
      BY <3>1, <3>2
  <2>7. CASE EndTransfer
    <3>1. CASE cfd = "client"
      BY <1>1, <2>1, <2>7, <3>1, EndConverses, AnsweredSomething DEF AgreedInReply
    <3>2. CASE cfd # "client"
      BY <1>3, <1>4, <2>7, <3>2 DEF EndTransfer, Send
    <3>3. QED
      BY <3>1, <3>2
  <2>8. CASE AcceptClient
    <3>1. replies'[1].status = 220
      BY <2>8 DEF AcceptClient
    <3>2. QED
      BY <3>1 DEF AgreedInReply, Selecting
  <2>9. CASE RecvError
    BY <1>3, <1>4, <2>9 DEF RecvError
  <2>10. ASSUME NEW i \in DOMAIN threads, Prepares(i) PROVE up' => AgreedInReply'
    <3>1. replies' = replies
      BY <1>1, <2>10, Preparing DEF wireVars
    <3>2. QED
      BY <1>1, <1>2, <2>1, <2>10, <3>1, PortsStay
  <2>11. QED
    BY <1>5, <2>2, <2>3, <2>4, <2>5, <2>6, <2>7, <2>8, <2>9, <2>10 DEF ServerStep
<1>6. ASSUME NEW i \in DOMAIN threads, Transfer(i) PROVE up' => AgreedInReply'
  <2>1. UNCHANGED <<client_pc, sentCommand, replies>>
    BY <1>6 DEF Transfer, processVars
  <2>2. QED
    BY <1>1, <1>2, <1>6, <2>1, PortsStay
<1>7. CASE Connect
  <2>1. replies' = replies /\ client_pc \in {"off", "left", "exited"}
    BY <1>7 DEF Connect, wireVars
  <2>2. QED
    BY <1>1, <1>3, <2>1 DEF Conversation, RepliesFit
<1>8. ASSUME NEW line \in Lines, SendLine(line) PROVE up' => AgreedInReply'
  <2>1. replies' = replies /\ client_pc = "prompt"
    BY <1>8 DEF SendLine
  <2>2. QED
    BY <1>1, <1>3, <2>1 DEF Conversation, RepliesFit
<1>9. CASE Callback \/ Departs
  <2>1. client_pc' # "recv"
    BY <1>9 DEF Callback, Acknowledge, CreateDataThread, JoinDataThread, DataThreadEnds,
       ReceiveFinal, Departs, Goes
  <2>2. QED
    BY <1>3, <2>1
<1>10. ASSUME NEW i \in DOMAIN dataThreads,
              Parse(i) \/ ParseWrong(i) \/ WakeClientUnasked(i) \/ ConnectData(i) \/ SaveData(i)
       PROVE  up' => AgreedInReply'
  <2>1. UNCHANGED <<client_pc, sentCommand, replies, threads>>
    BY <1>1, <1>10, ClientThreadSteps
  <2>2. QED
    BY <1>2, <2>1 DEF Newest
<1>11. QED
  BY <1>1, <1>5, <1>6, <1>7, <1>8, <1>9, <1>10, StepsByProcess

\* While a thread parses, main of the client prompts and main of the server waits.
LEMMA ParsingIsQuiet ==
  ASSUME Following, NEW i \in DOMAIN dataThreads, dataThreads[i].pc = "parse"
  PROVE  /\ client_pc = "prompt" /\ i = Len(dataThreads) /\ Newest(dataThreads) = dataThreads[i]
         /\ cfd = "client" /\ request = NoRequest /\ server_pc = "recv"
<1>1. client_pc = "prompt" /\ i = Len(dataThreads)
  BY DEF Following, OnlyNewestParses
<1>2. Conversation /\ up
  BY DEF Following, Underway
<1>3. QED
  BY <1>1, <1>2 DEF Conversation, Turn, Newest

\* The server has nothing to do with data threads of a client that is not there.
LEMMA ThreadsAreConnected ==
  ASSUME Following, dataThreads # <<>>
  PROVE  /\ cfd = "client" /\ server_pc # "accept"
         /\ client_pc \in {"prompt", "recv", "join", "final"}
         /\ Len(dataThreads) \in DOMAIN dataThreads
BY NewestIsOne DEF Following, Underway, Conversation, Turn

LEMMA AgreedInThreadStep ==
  ASSUME Following, [Next]_vars
  PROVE  up' => AgreedInThread'
<1>1. /\ TypeOK /\ Counted /\ Conversation /\ OnlyNewestParses /\ AgreedInReply /\ AgreedInThread
      /\ up /\ Underway /\ "asked" \in assumed /\ assumed' = assumed
  BY AssumedStays DEF Following, Underway
<1>2. CASE \A i \in DOMAIN dataThreads' : dataThreads'[i].pc # "parse"
  <2>1. dataThreads' # <<>> => Newest(dataThreads)'.pc # "parse"
    <3>1. dataThreads' \in Seq(ClientThreads)
      BY <1>1, TypedStep DEF TypeOK, ClientTypeOK
    <3>2. dataThreads' # <<>> => Len(dataThreads') \in DOMAIN dataThreads'
      BY <3>1
    <3>3. QED
      BY <1>2, <3>2 DEF Newest
  <2>2. QED
    BY <2>1 DEF AgreedInThread
<1>3. CASE /\ sentCommand' = sentCommand /\ Len(dataThreads') = Len(dataThreads)
           /\ dataThreads # <<>> =>
                /\ Newest(dataThreads)'.pc = Newest(dataThreads).pc
                /\ Newest(dataThreads)'.status = Newest(dataThreads).status
                /\ Newest(dataThreads)'.port = Newest(dataThreads).port
           /\ threads # <<>> => threads' # <<>> /\ Newest(threads)'.port = Newest(threads).port
  <2>1. dataThreads = <<>> => dataThreads' = <<>>
    <3>1. ASSUME NEW q \in Seq(ClientThreads), Len(q) = 0 PROVE q = <<>>
      BY <3>1
    <3>2. dataThreads' \in Seq(ClientThreads)
      BY <1>1, TypedStep DEF TypeOK, ClientTypeOK
    <3>3. QED
      BY <1>1, <1>3, <3>1, <3>2, Numbers
  <2>2. QED
    BY <1>1, <1>3, <2>1 DEF AgreedInThread, Agreed
<1>4. CASE dataThreads' = dataThreads /\ client_pc # "prompt"
  BY <1>1, <1>2, <1>4 DEF OnlyNewestParses
<1>5. CASE ServerStep
  <2>1. UNCHANGED <<sentCommand, dataThreads>>
    BY <1>5, ClientIdle
  <2>2. CASE \E i \in DOMAIN dataThreads : dataThreads[i].pc = "parse"
    <3>1. request = NoRequest /\ server_pc = "recv" /\ cfd = "client"
      BY <2>2, ParsingIsQuiet
    <3>2. ~(Quiet \/ Pasv \/ Port \/ StartTransfer \/ EndTransfer \/ AcceptClient \/ RecvError)
      BY <3>1 DEF Quiet, User, Pass, Refuse, Type, Cwd, Quit, Pasv, Port, StartTransfer,
         Executes, Arrived, EndTransfer, AcceptClient, RecvError
    <3>3. CASE UNCHANGED vars
      BY <1>3, <2>1, <3>3 DEF vars, serverVars, threadVars, Newest
    <3>4. CASE Crash
      BY <3>4 DEF Crash
    <3>5. ASSUME NEW i \in DOMAIN threads, Prepares(i) PROVE up' => AgreedInThread'
      BY <1>1, <1>3, <2>1, <3>5, PortsStay DEF Newest
    <3>6. QED
      BY <1>5, <3>2, <3>3, <3>4, <3>5 DEF ServerStep
  <2>3. CASE ~\E i \in DOMAIN dataThreads : dataThreads[i].pc = "parse"
    BY <1>2, <2>1, <2>3
  <2>4. QED
    BY <2>2, <2>3
<1>6. ASSUME NEW i \in DOMAIN threads, Transfer(i) PROVE up' => AgreedInThread'
  <2>1. sentCommand' = sentCommand
    BY <1>6 DEF Transfer, processVars
  <2>2. /\ Len(dataThreads') = Len(dataThreads)
        /\ \A t \in DOMAIN dataThreads :
             /\ dataThreads'[t].pc = dataThreads[t].pc
             /\ dataThreads'[t].port = dataThreads[t].port
             /\ dataThreads'[t].status = dataThreads[t].status
    BY <1>1, <1>6, Transferring
  <2>3. dataThreads # <<>> =>
          /\ Newest(dataThreads)'.pc = Newest(dataThreads).pc
          /\ Newest(dataThreads)'.status = Newest(dataThreads).status
          /\ Newest(dataThreads)'.port = Newest(dataThreads).port
    BY <1>1, <2>2, NewestIsOne
  <2>4. threads # <<>> => threads' # <<>> /\ Newest(threads)'.port = Newest(threads).port
    BY <1>1, <1>6, PortsStay
  <2>5. QED
    BY <1>3, <2>1, <2>2, <2>3, <2>4
<1>7. CASE Connect
  <2>1. dataThreads' = dataThreads /\ client_pc # "prompt"
    BY <1>7 DEF Connect, dataVars
  <2>2. QED
    BY <1>4, <2>1
<1>8. ASSUME NEW line \in Lines, SendLine(line) PROVE up' => AgreedInThread'
  <2>1. Settled /\ dataThreads' = dataThreads
    BY <1>8 DEF SendLine, dataVars, Following
  <2>2. QED
    BY <1>2, <2>1 DEF Settled
<1>9. CASE Departs
  <2>1. DOMAIN dataThreads' = {}
    BY <1>9 DEF Departs, Goes
  <2>2. QED
    BY <1>2, <2>1
<1>10. CASE Acknowledge \/ DataThreadEnds \/ ReceiveFinal
  <2>1. client_pc # "prompt" /\ dataThreads' = dataThreads
    BY <1>10 DEF Acknowledge, DataThreadEnds, ReceiveFinal, Reads, dataVars
  <2>2. QED
    BY <1>4, <2>1
<1>11. CASE CreateDataThread
  <2>1. /\ client_pc = "recv" /\ sentCommand \in Modes /\ replies # <<>>
        /\ UNCHANGED <<threads, sentCommand>>
    BY <1>1, <1>11 DEF CreateDataThread, Reads, Modes, serverVars, threadVars
  <2>2. Answered
    BY <1>1, <2>1, Taken DEF Conversation, RepliesFit, Modes, Transfers
  <2>3. Reply = replies[1]
    BY <1>1, <2>1, ReplyTyped
  <2>4. Reply.status \in Selecting => Agreed(Reply.status, Reply.port)
    BY <1>1, <2>1, <2>2, <2>3 DEF AgreedInReply
  <2>5. Newest(dataThreads').status = Reply.status /\ Newest(dataThreads').port = Reply.port
    BY <1>1, <1>11, ThreadCreated
  <2>6. QED
    BY <2>1, <2>4, <2>5 DEF AgreedInThread, Agreed, Newest
<1>12. CASE JoinDataThread
  <2>1. client_pc = "recv" /\ DOMAIN dataThreads' = DOMAIN dataThreads
        /\ \/ dataThreads' = dataThreads
           \/ \E i \in DOMAIN dataThreads :
                /\ dataThreads'[i].pc = "woken"
                /\ \A j \in DOMAIN dataThreads :
                     j # i => dataThreads'[j].pc = dataThreads[j].pc
    BY <1>1, <1>12, Joining
  <2>2. QED
    BY <1>1, <1>2, <2>1 DEF OnlyNewestParses
<1>13. ASSUME NEW i \in DOMAIN dataThreads,
              Parse(i) \/ ParseWrong(i) \/ WakeClientUnasked(i) \/ ConnectData(i) \/ SaveData(i)
       PROVE  up' => AgreedInThread'
  <2>1. /\ DOMAIN dataThreads' = DOMAIN dataThreads /\ dataThreads'[i].pc # "parse"
        /\ \A j \in DOMAIN dataThreads : j # i => dataThreads'[j].pc = dataThreads[j].pc
        /\ dataThreads[i].pc \in {"parse", "woken", "recv"}
    BY <1>1, <1>13, ClientThreadSteps
  <2>2. \A j \in DOMAIN dataThreads : j # i => dataThreads[j].pc # "parse"
    <3>1. CASE dataThreads[i].pc = "parse"
      BY <3>1, ParsingIsQuiet
    <3>2. CASE dataThreads[i].pc # "parse"
      <4>1. client_pc = "join"
        BY <1>1, <2>1, <3>2, ActiveInJoin DEF Active, Following
      <4>2. QED
        BY <1>1, <4>1 DEF OnlyNewestParses
    <3>3. QED
      BY <3>1, <3>2
  <2>3. QED
    BY <1>2, <2>1, <2>2
<1>14. QED
  BY <1>1, <1>5, <1>6, <1>7, <1>8, <1>9, <1>10, <1>11, <1>12, <1>13, StepsByProcess
     DEF Callback

LEMMA SameTargetStep ==
  ASSUME Following, [Next]_vars
  PROVE  up' => SameTarget'
<1>1. /\ TypeOK /\ Counted /\ Conversation /\ OnlyNewestParses /\ AgreedInThread /\ SameTarget
      /\ ModeIsFresh /\ NoneFailed /\ up /\ Underway /\ "asked" \in assumed
      /\ assumed' = assumed
  BY AssumedStays DEF Following, Underway, Asked, CommandsMatch
<1>2. CASE ~NoModeAsked' \/ authStatus' # "MODESELECTED" \/ dataThreads' = <<>>
  BY <1>2 DEF SameTarget
<1>3. CASE /\ Len(dataThreads') = Len(dataThreads) /\ target' = target
           /\ dataThreads # <<>> =>
                /\ Newest(dataThreads)'.pc = Newest(dataThreads).pc
                /\ Newest(dataThreads)'.status = Newest(dataThreads).status
           /\ threads # <<>> => threads' # <<>> /\ Newest(threads)'.port = Newest(threads).port
           /\ authStatus' = "MODESELECTED" => authStatus = "MODESELECTED"
           /\ NoModeAsked' => NoModeAsked
  <2>1. dataThreads = <<>> => dataThreads' = <<>>
    <3>1. ASSUME NEW q \in Seq(ClientThreads), Len(q) = 0 PROVE q = <<>>
      BY <3>1
    <3>2. dataThreads' \in Seq(ClientThreads)
      BY <1>1, TypedStep DEF TypeOK, ClientTypeOK
    <3>3. QED
      BY <1>1, <1>3, <3>1, <3>2, Numbers
  <2>2. QED
    BY <1>1, <1>3, <2>1 DEF SameTarget
<1>4. CASE ServerStep
  <2>1. UNCHANGED <<client_pc, sentCommand, dataThreads, target>> /\ NoModeAsked' = NoModeAsked
        /\ Newest(dataThreads)' = Newest(dataThreads)
    BY <1>4, ClientIdle DEF NoModeAsked
  <2>2. CASE UNCHANGED vars
    BY <1>3, <2>1, <2>2 DEF vars, serverVars, sessionVars, threadVars, Newest
  <2>3. CASE Crash
    BY <2>3 DEF Crash
  <2>4. CASE Quiet
    <3>1. threads' = threads /\ (authStatus' = "MODESELECTED" => authStatus = "MODESELECTED")
      BY <1>1, <2>4, QuietAnswers DEF TypeOK, threadVars
    <3>2. QED
      BY <1>3, <2>1, <3>1 DEF Newest
  <2>5. CASE Pasv \/ Port
    <3>1. CASE dataThreads = <<>>
      BY <1>2, <2>1, <3>1
    <3>2. CASE dataThreads # <<>>
      <4>1. Arrived /\ request.command \in Modes
        BY <1>1, <2>5, PasvAnswers, PortAnswers DEF Answering, Modes
      <4>2. client_pc = "recv" /\ sentCommand \in Modes
        BY <1>1, <3>2, <4>1, ThreadsAreConnected DEF Arrived, Conversation, Turn
      <4>3. ~NoModeAsked
        BY <4>2 DEF NoModeAsked
      <4>4. QED
        BY <1>2, <2>1, <4>3
    <3>3. QED
      BY <3>1, <3>2
  <2>6. CASE StartTransfer
    <3>1. threads' \in Signalled(threads) /\ authStatus' = authStatus
      BY <2>6 DEF StartTransfer
    <3>2. QED
      BY <1>1, <1>3, <2>1, <3>1, PortsStay
  <2>7. CASE EndTransfer
    <3>1. threads[Len(threads)].pc # "failed"
      <4>1. threads # <<>>
        BY <1>1, <2>7 DEF EndTransfer, Underway, JoinedOnce
      <4>2. Len(threads) \in DOMAIN threads
        BY <1>1, <4>1, Numbers
      <4>3. QED
        BY <1>1, <4>2 DEF NoneFailed
    <3>2. authStatus' = "LOGGEDIN"
      BY <2>7, <3>1 DEF EndTransfer, AfterTransfer
    <3>3. QED
      BY <1>2, <3>2
  <2>8. CASE AcceptClient \/ RecvError
    <3>1. server_pc = "accept" \/ cfd = "gone"
      BY <2>8 DEF AcceptClient, RecvError
    <3>2. dataThreads = <<>>
      BY <3>1, ThreadsAreConnected
    <3>3. QED
      BY <1>2, <2>1, <3>2
  <2>9. ASSUME NEW i \in DOMAIN threads, Prepares(i) PROVE up' => SameTarget'
    <3>1. authStatus' = authStatus
      BY <1>1, <2>9, Preparing DEF sessionVars
    <3>2. QED
      BY <1>1, <1>3, <2>1, <2>9, <3>1, PortsStay
  <2>10. QED
    BY <1>4, <2>2, <2>3, <2>4, <2>5, <2>6, <2>7, <2>8, <2>9 DEF ServerStep
<1>5. ASSUME NEW i \in DOMAIN threads, Transfer(i) PROVE up' => SameTarget'
  <2>1. UNCHANGED <<target, authStatus>> /\ NoModeAsked' = NoModeAsked
    BY <1>5 DEF Transfer, processVars, sessionVars, NoModeAsked
  <2>2. /\ Len(dataThreads') = Len(dataThreads)
        /\ \A t \in DOMAIN dataThreads :
             /\ dataThreads'[t].pc = dataThreads[t].pc
             /\ dataThreads'[t].status = dataThreads[t].status
    BY <1>1, <1>5, Transferring
  <2>3. dataThreads # <<>> =>
          /\ Newest(dataThreads)'.pc = Newest(dataThreads).pc
          /\ Newest(dataThreads)'.status = Newest(dataThreads).status
    BY <1>1, <2>2, NewestIsOne
  <2>4. threads # <<>> => threads' # <<>> /\ Newest(threads)'.port = Newest(threads).port
    BY <1>1, <1>5, PortsStay
  <2>5. QED
    BY <1>3, <2>1, <2>2, <2>3, <2>4
<1>6. CASE Connect
  <2>1. dataThreads' = dataThreads /\ client_pc \in {"off", "left", "exited"}
    BY <1>6 DEF Connect, dataVars
  <2>2. dataThreads = <<>>
    BY <2>1, ThreadsAreConnected
  <2>3. QED
    BY <1>2, <2>1, <2>2
<1>7. CASE Acknowledge \/ \E line \in Lines : SendLine(line)
  <2>1. /\ UNCHANGED <<threads, authStatus, dataThreads, target>>
        /\ client_pc = "prompt" \/ (client_pc = "recv" /\ sentCommand \notin Modes)
    BY <1>7 DEF Acknowledge, Reads, SendLine, serverVars, sessionVars, threadVars, dataVars,
       Modes
  <2>2. NoModeAsked
    BY <2>1 DEF NoModeAsked
  <2>3. QED
    BY <1>3, <2>1, <2>2 DEF Newest
<1>8. CASE Departs
  <2>1. dataThreads' = <<>>
    BY <1>8 DEF Departs, Goes
  <2>2. QED
    BY <1>2, <2>1
<1>9. CASE CreateDataThread
  <2>1. Newest(dataThreads').pc = "parse"
    BY <1>1, <1>9, ThreadCreated
  <2>2. QED
    BY <2>1 DEF SameTarget, Newest
<1>10. CASE JoinDataThread \/ DataThreadEnds
  <2>1. client_pc' \in {"join", "final"}
    BY <1>10 DEF JoinDataThread, DataThreadEnds
  <2>2. ~NoModeAsked'
    BY <2>1 DEF NoModeAsked
  <2>3. QED
    BY <1>2, <2>2
<1>11. CASE ReceiveFinal
  <2>1. client_pc = "final" /\ replies # <<>> /\ UNCHANGED <<authStatus, dataThreads>>
    BY <1>1, <1>11 DEF ReceiveFinal, Reads, serverVars, sessionVars, dataVars
  <2>2. cfd = "client" /\ server_pc = "recv"
    BY <1>1, <2>1 DEF Conversation, Turn
  <2>3. authStatus # "MODESELECTED"
    BY <1>1, <2>1, <2>2 DEF ModeIsFresh
  <2>4. QED
    BY <1>2, <2>1, <2>3
<1>12. ASSUME NEW i \in DOMAIN dataThreads, Parse(i) PROVE up' => SameTarget'
  <2>1. /\ dataThreads[i].pc = "parse" /\ UNCHANGED threads
        /\ Len(dataThreads') = Len(dataThreads)
        /\ dataThreads'[i].status = dataThreads[i].status
    BY <1>1, <1>12, ClientThreadSteps DEF Parse, ClientThreadAt
  <2>2. i = Len(dataThreads) /\ Newest(dataThreads) = dataThreads[i] /\ dataThreads # <<>>
    BY <1>1, <2>1, ParsingIsQuiet, Numbers
  <2>3. Newest(dataThreads)' = dataThreads'[i]
    BY <2>1, <2>2 DEF Newest
  <2>4. SUFFICES ASSUME dataThreads[i].status \in Selecting
                 PROVE  threads' # <<>> /\ target' = Newest(threads)'.port
    BY <2>1, <2>3 DEF SameTarget
  <2>5. Agreed(dataThreads[i].status, dataThreads[i].port)
    BY <1>1, <2>1, <2>2, <2>4 DEF AgreedInThread
  <2>6. target' = htons(dataThreads[i].port)
    <3>1. CASE sentCommand = "pasv"
      BY <1>12, <2>5, <3>1 DEF Agreed, Survives, Parse, Wrong
    <3>2. CASE sentCommand = "port"
      BY <1>12, <2>5, <3>2 DEF Agreed, Parse
    <3>3. QED
      BY <2>5, <3>1, <3>2 DEF Agreed, Modes
  <2>7. QED
    BY <2>1, <2>5, <2>6 DEF Agreed, Newest
<1>13. ASSUME NEW i \in DOMAIN dataThreads,
              WakeClientUnasked(i) \/ ConnectData(i) \/ SaveData(i)
       PROVE  up' => SameTarget'
  <2>1. client_pc' = client_pc /\ Active(i)
    BY <1>1, <1>13, ClientThreadSteps
       DEF Active, WakeClientUnasked, ConnectData, Prepared, SaveData, ClientThreadAt
  <2>2. ~NoModeAsked'
    BY <2>1, ActiveInJoin, <1>1 DEF NoModeAsked, Following
  <2>3. QED
    BY <1>2, <2>2
<1>14. ASSUME NEW i \in DOMAIN dataThreads, ParseWrong(i) PROVE up' => SameTarget'
  <2>1. /\ dataThreads[i].pc = "parse" /\ dataThreads'[i].pc = "gave_up"
        /\ Len(dataThreads') = Len(dataThreads)
    BY <1>1, <1>14, ClientThreadSteps DEF ParseWrong, ClientThreadAt, Parse, ConnectData, Prepared
  <2>2. i = Len(dataThreads)
    BY <1>1, <2>1, ParsingIsQuiet
  <2>3. Newest(dataThreads)'.pc = "gave_up"
    BY <2>1, <2>2 DEF Newest
  <2>4. QED
    BY <2>3 DEF SameTarget
<1>15. QED
  BY <1>1, <1>4, <1>5, <1>6, <1>7, <1>8, <1>9, <1>10, <1>11, <1>12, <1>13, <1>14,
     StepsByProcess DEF Callback

-----------------------------------------------------------------------------
(* The theorem                                                             *)

LEMMA NeverUpAgain == ASSUME TypeOK, [Next]_vars, up' PROVE up
<1>1. CASE ServerStep
  <2>1. UNCHANGED vars \/ up
    BY <1>1 DEF ServerStep, Quiet, User, Pass, Refuse, Type, Cwd, Quit, Pasv, Port,
       StartTransfer, Executes, Arrived, EndTransfer, AcceptClient, RecvError, Prepares, Bind,
       WakeUnasked, Listen, ServerThreadAt
  <2>2. QED
    BY <2>1 DEF vars, serverVars
<1>2. CASE ~ServerStep
  <2>1. up' = up
    BY <1>2, StepsByProcess DEF Transfer, Connect, Callback, Acknowledge, CreateDataThread,
       JoinDataThread, DataThreadEnds, ReceiveFinal, Departs, Goes, SendLine, Parse,
       ParseWrong, WakeClientUnasked, ConnectData, SaveData, serverVars
  <2>2. QED
    BY <2>1
<1>3. QED
  BY <1>1, <1>2

LEMMA PortsFollowStep ==
  ASSUME \A p \in Garbage : Survives(p), Session, PortsFollow, [Next]_vars
  PROVE  PortsFollow'
<1>1. assumed' = assumed /\ (up' => up)
  BY AssumedStays, NeverUpAgain DEF Session
<1>2. SUFFICES ASSUME {"wait", "asked"} \subseteq assumed, up, up', Understood'
               PROVE  OnlyNewestParses' /\ AgreedInReply' /\ AgreedInThread' /\ SameTarget'
  BY <1>1 DEF PortsFollow
<1>3. CASE Understood
  <2>1. Following
    BY <1>2, <1>3 DEF Session, PortsFollow, Following, Underway
  <2>2. QED
    BY <1>2, <2>1, OnlyNewestParsesStep, AgreedInReplyStep, AgreedInThreadStep, SameTargetStep
<1>4. CASE dataThreads' = <<>> /\ client_pc' # "recv"
  <2>1. DOMAIN dataThreads' = {}
    BY <1>4
  <2>2. QED
    BY <1>4, <2>1 DEF OnlyNewestParses, AgreedInReply, AgreedInThread, SameTarget
<1>5. QED
  BY <1>2, <1>3, <1>4, UnderstoodBefore DEF Session

\* When the next line may be typed, the client's data thread will connect to the
\* port that the server's newest one is made for, as often as modes are selected
\* and transfers made and whatever is typed for PORT, if every port behind the
\* table that can be read back from the two parts it is printed in is the same
\* afterwards: one whose low byte is zero is not.
THEOREM SamePort ==
  ASSUME \A p \in Garbage : Survives(p)
  PROVE  Spec => []PortsAgree
<1>1. Init => Session /\ PortsFollow
  <2>1. Init => PortsFollow
    BY DEF Init, PortsFollow, OnlyNewestParses, AgreedInReply, AgreedInThread, SameTarget
  <2>2. QED
    BY <2>1, SessionInit
<1>2. (Session /\ PortsFollow) /\ [Next]_vars => (Session /\ PortsFollow)'
  BY SessionStep, PortsFollowStep
<1>3. PortsFollow => PortsAgree
  BY DEF PortsFollow, SameTarget, PortsAgree, NoModeAsked, Selecting
<1>4. QED
  BY <1>1, <1>2, <1>3, PTL DEF Spec

=============================================================================
