------------------------------ MODULE FtpProofs ------------------------------
(***************************************************************************)
(* Proofs about the FTP session, for any lines, ports and assumptions and  *)
(* any number of clients and commands: the types, and what the proofs of   *)
(* the other properties have in common.                                    *)
(***************************************************************************)
EXTENDS FtpProperties, TLAPS

Transfers == {"nlst", "retr"}
Modes == {"pasv", "port"}

\* Lines typed that the server has not yet looked at are not counted in what
\* it has handed out for them.
Outstanding == IF request = NoRequest THEN 0 ELSE 1
Counted == portIdx + Outstanding <= typed /\ Len(threads) + Outstanding <= typed

-----------------------------------------------------------------------------
(* Sequences and ports                                                     *)

LEMMA AppendHolds ==
  ASSUME NEW S, NEW q \in Seq(S), NEW e \in S
  PROVE  /\ Append(q, e) \in Seq(S) /\ Append(q, e) # <<>>
         /\ Len(q) \in Nat /\ Len(Append(q, e)) = Len(q) + 1
         /\ Append(q, e)[Len(q) + 1] = e
         /\ \A j \in 1..Len(q) : Append(q, e)[j] = q[j]
OBVIOUS

LEMMA ExceptHolds ==
  ASSUME NEW S, NEW q \in Seq(S), NEW i \in DOMAIN q, NEW e \in S
  PROVE  /\ [q EXCEPT ![i] = e] \in Seq(S)
         /\ Len([q EXCEPT ![i] = e]) = Len(q)
         /\ DOMAIN [q EXCEPT ![i] = e] = DOMAIN q
         /\ \A j \in DOMAIN q : [q EXCEPT ![i] = e][j] = IF j = i THEN e ELSE q[j]
OBVIOUS

LEMMA ConsumedHolds ==
  ASSUME NEW S, NEW q \in Seq(S)
  PROVE  /\ Consumed(q) \in Seq(S)
         /\ q = <<>> => Consumed(q) = <<>>
         /\ q # <<>> => /\ Len(Consumed(q)) = Len(q) - 1 /\ Head(q) = q[1]
                        /\ Len(q) >= 1 /\ q[1] \in S
                        /\ \A j \in 1..(Len(q) - 1) : Consumed(q)[j] = q[j + 1]
BY DEF Consumed

LEMMA Networked ==
  /\ \A p \in Int : htons(p) \in PortNumbers
  /\ \A p \in PortNumbers : htons(p) = p
<1>1. MaxPort \in Int /\ MaxPort + 1 = 65536
  BY DEF MaxPort
<1>2. \A p : p \in PortNumbers <=> p \in Int /\ 0 <= p /\ p < MaxPort + 1
  BY <1>1 DEF PortNumbers
<1>3. ASSUME NEW p \in Int PROVE p % 65536 \in Int /\ 0 <= p % 65536 /\ p % 65536 < 65536
  BY <1>3
<1>4. ASSUME NEW p \in Int, 0 <= p, p < 65536 PROVE p % 65536 = p
  BY <1>4
<1>5. \A p \in Int : htons(p) = p % 65536
  BY <1>1 DEF htons
<1>6. QED
  BY ONLY <1>1, <1>2, <1>3, <1>4, <1>5

LEMMA FieldsAreInts == \A v \in Fields : v \in Int
<1>1. PICK a, b \in Int : a = -99 /\ b = 999
  OBVIOUS
<1>2. Fields = a..b
  BY <1>1, ZenonT(60) DEF Fields
<1>3. QED
  BY ONLY a \in Int, b \in Int, <1>2

LEMMA AddsInt == \A a, v \in Int : AddByte(a, v) \in Int
BY DEF AddByte

LEMMA NumberIsInt == \A fields \in FieldTriples : Number(fields) \in Int
<1> SUFFICES ASSUME NEW fields \in FieldTriples PROVE Number(fields) \in Int
  OBVIOUS
<1>1. fields[1] \in Fields /\ fields[2] \in Fields /\ fields[3] \in Fields
  BY DEF FieldTriples
<1>2. ASSUME NEW a \in Int, NEW b \in Int, NEW c \in Int
      PROVE  AddByte(AddByte(AddByte(0, a), b), c) \in Int
  <2>1. AddByte(0, a) \in Int
    BY AddsInt
  <2>2. AddByte(AddByte(0, a), b) \in Int
    BY <2>1, AddsInt
  <2>3. QED
    BY <2>2, AddsInt
<1>3. fields[1] \in Int /\ fields[2] \in Int /\ fields[3] \in Int
  BY <1>1, FieldsAreInts
<1>4. QED
  BY <1>2, <1>3 DEF Number

LEMMA PartsAreInts == \A p \in Int : High(p) \in Int /\ Low(p) \in Int /\ Decode(p) \in Int
<1> SUFFICES ASSUME NEW p \in Int PROVE High(p) \in Int /\ Low(p) \in Int /\ Decode(p) \in Int
  OBVIOUS
<1>1. High(p) \in Int
  BY DEF High
<1>2. Low(p) \in Int
  BY <1>1 DEF Low
<1>3. AddByte(0, High(p)) \in Int
  BY <1>1, AddsInt
<1>4. QED
  BY <1>1, <1>2, <1>3, AddsInt DEF Decode

LEMMA Decoded ==
  ASSUME NEW p \in PortNumbers, p % 256 # 0
  PROVE  Decode(p) = p
<1>1. p \in Int /\ p >= 0
  <2>1. PICK m \in Int : m = MaxPort
    BY DEF MaxPort
  <2>2. p \in 0..m
    BY <2>1, Zenon DEF PortNumbers
  <2>3. QED
    BY ONLY m \in Int, <2>2
<1>2. PICK h \in Int : h = p \div 256
  BY <1>1
<1>3. PICK l \in Int : l = p % 256
  BY <1>1
<1>4. p = 256 * h + l /\ l # 0
  BY <1>1, <1>2, <1>3
<1>5. High(p) = h /\ Low(p) = l
  BY <1>1, <1>2, <1>4 DEF High, Low
<1>6. AddByte(0, h) = h
  BY DEF AddByte
<1>7. QED
  BY <1>4, <1>5, <1>6 DEF Decode, AddByte

LEMMA Openings ==
  /\ Opening(150)
  /\ \A status \in (Statuses \cup {0}) \ {150} : ~Opening(status)
BY DEF Opening, Statuses

LEMMA Constants ==
  ASSUME assumed \in Settings
  PROVE  /\ MaxCommands[assumed] \in Nat /\ MaxClients \in Nat
         /\ Len(ports) \in Nat
         /\ \A i \in 1..Len(ports) : ports[i] \in PortNumbers /\ ports[i] % 256 # 0
         /\ Garbage \subseteq Int
BY BoundAssumption, TableAssumption, GarbageAssumption

-----------------------------------------------------------------------------
(* Types                                                                   *)

\* What a step that leaves the variables alone does not disturb.
LEMMA TypesKept ==
  /\ ServerTypeOK /\ UNCHANGED <<up, mainVars, sessionVars, assumed>> => ServerTypeOK'
  /\ ThreadsTypeOK /\ UNCHANGED <<threadVars, assumed>> => ThreadsTypeOK'
  /\ WiresTypeOK /\ UNCHANGED wireVars => WiresTypeOK'
  /\ ClientTypeOK /\ UNCHANGED clientVars => ClientTypeOK'
<1>1. ServerTypeOK /\ UNCHANGED <<up, mainVars, sessionVars, assumed>> => ServerTypeOK'
  BY DEF ServerTypeOK, mainVars, sessionVars
<1>2. ThreadsTypeOK /\ UNCHANGED <<threadVars, assumed>> => ThreadsTypeOK'
  BY DEF ThreadsTypeOK, ServerThreads, threadVars
<1>3. WiresTypeOK /\ UNCHANGED wireVars => WiresTypeOK'
  BY DEF WiresTypeOK, wireVars
<1>4. ClientTypeOK /\ UNCHANGED clientVars => ClientTypeOK'
  BY DEF ClientTypeOK, clientVars, processVars, dataVars, boundVars
<1>5. QED
  BY <1>1, <1>2, <1>3, <1>4

LEMMA SendTyped ==
  ASSUME WiresTypeOK, NEW status \in Statuses, NEW port \in Int, Send(status, port)
  PROVE  replies' \in Seq(Replies)
<1>1. [status |-> status, port |-> port] \in Replies
  BY DEF Replies
<1>2. QED
  BY <1>1 DEF Send, WiresTypeOK

LEMMA NoItems == \A S : <<>> \in Seq(S) /\ Len(<<>>) = 0
OBVIOUS

LEMMA NoPort == 0 \in PortNumbers /\ 0 \in Int
BY DEF PortNumbers, MaxPort

LEMMA TypedInit == Init => TypeOK /\ Counted
<1> SUFFICES ASSUME Init PROVE TypeOK /\ Counted
  OBVIOUS
<1>1. assumed \in Settings
  BY DEF Init
<1>2. MaxCommands[assumed] \in Nat /\ MaxClients \in Nat
  BY <1>1, Constants
<1>3. ServerTypeOK
  BY <1>2 DEF Init, ServerTypeOK, Arguments
<1>4. ThreadsTypeOK
  <2>1. threads \in Seq(ServerThreads) /\ Len(threads) = 0
    BY NoItems, Zenon DEF Init
  <2>2. data_server_fd \in 0..Len(threads)
    BY <2>1 DEF Init
  <2>3. QED
    BY <2>1, <2>2 DEF Init, ThreadsTypeOK
<1>5. WiresTypeOK
  BY DEF Init, WiresTypeOK
<1>6. ClientTypeOK
  <2>1. dataThreads \in Seq(ClientThreads)
    BY NoItems, Zenon DEF Init
  <2>2. /\ client_pc = "off" /\ sentCommand = "user" /\ target = 0
        /\ client_gmutex = FALSE /\ clients = 0 /\ typed = 0
    BY DEF Init
  <2>3. sentCommand \in Commands /\ target \in PortNumbers
    BY <2>2, NoPort DEF Commands
  <2>4. clients \in 0..MaxClients /\ typed \in 0..MaxCommands[assumed]
    BY <1>2, <2>2
  <2>5. QED
    BY <1>1, <2>1, <2>2, <2>3, <2>4 DEF ClientTypeOK
<1>7. Counted
  BY DEF Init, Counted, Outstanding
<1>8. QED
  BY <1>3, <1>4, <1>5, <1>6, <1>7 DEF TypeOK

LEMMA CrashTyped == TypeOK /\ Crash => TypeOK' /\ Counted'
<1> SUFFICES ASSUME TypeOK, Crash PROVE TypeOK' /\ Counted'
  OBVIOUS
<1> USE DEF TypeOK
<1>1. MaxCommands[assumed] \in Nat
  BY Constants DEF ClientTypeOK
<1>2. UNCHANGED clientVars /\ UNCHANGED <<responseMessage, replies, assumed, typed>>
  BY DEF Crash, clientVars, boundVars
<1>3. ServerTypeOK'
  <2>1. portIdx' \in 0..MaxCommands[assumed']
    BY <1>1, <1>2 DEF Crash
  <2>2. cfd' \in {"none", "client", "gone"}
    BY DEF Crash
  <2>3. QED
    BY <1>2, <2>1, <2>2 DEF Crash, ServerTypeOK, Arguments
<1>4. ThreadsTypeOK'
  <2>1. threads' \in Seq(ServerThreads') /\ Len(threads') = 0
    BY NoItems, Zenon DEF Crash
  <2>2. data_server_fd' \in 0..Len(threads')
    BY <2>1 DEF Crash
  <2>3. QED
    BY <2>1, <2>2 DEF Crash, ThreadsTypeOK
<1>5. WiresTypeOK'
  BY <1>2 DEF Crash, WiresTypeOK
<1>6. Counted'
  BY <1>2 DEF Crash, ClientTypeOK, Counted, Outstanding
<1>7. QED
  BY <1>2, <1>3, <1>4, <1>5, <1>6, TypesKept

LEMMA GoesTyped ==
  ASSUME TypeOK, Counted, NEW pc \in {"left", "exited"}, Goes(pc)
  PROVE  TypeOK' /\ Counted'
<1> USE DEF TypeOK
<1>1. UNCHANGED <<up, responseMessage, server_pc, sessionVars, threadVars, request, pending,
                  sentCommand, clients, typed, assumed>>
  BY DEF Goes, boundVars
<1>2. cfd' = "gone" /\ replies' = <<>> /\ client_pc' = pc /\ dataThreads' = <<>>
      /\ target' = 0 /\ client_gmutex' = FALSE
  BY DEF Goes
<1>3. ServerTypeOK'
  BY <1>1, <1>2 DEF ServerTypeOK, sessionVars
<1>4. ThreadsTypeOK'
  BY <1>1, TypesKept
<1>5. WiresTypeOK'
  BY <1>1, <1>2 DEF WiresTypeOK
<1>6. ClientTypeOK'
  BY <1>1, <1>2, NoPort, NoItems DEF ClientTypeOK
<1>7. Counted'
  BY <1>1 DEF Counted, Outstanding, sessionVars, threadVars
<1>8. QED
  BY <1>3, <1>4, <1>5, <1>6, <1>7

-----------------------------------------------------------------------------
(* What the steps of main have in common                                   *)

Quiet == User \/ Pass \/ Refuse \/ Type \/ Cwd \/ Quit

\* A command is taken and nothing of main or of the client changes.
Answering ==
  /\ Arrived
  /\ request' = NoRequest
  /\ UNCHANGED <<up, mainVars, dataCommand, fileName, pending, clientVars>>

\* Every command but the opened transfers is answered once, and by a reply that
\* does not say that another one follows.
LEMMA QuietAnswers ==
  ASSUME ServerTypeOK, Quiet
  PROVE  /\ Answering
         /\ UNCHANGED <<threadVars, portIdx>>
         /\ \E status \in Statuses \ {150} : Send(status, 0) /\ status # 227
         /\ authStatus' \in {"NOTLOGGEDIN", "NEEDPASSWORD", "LOGGEDIN", "MODESELECTED"}
         /\ authStatus' = "MODESELECTED" => authStatus = "MODESELECTED"
         /\ relativePath' \in {"open", "shut", "gone"}
         /\ request.command \in Transfers => authStatus' # "MODESELECTED"
         /\ request.command \in Modes => \E status \in {400, 401} : Send(status, 0)
<1> USE DEF ServerTypeOK, Executes, Answering, Statuses, Transfers, Modes
<1>1. CASE User
  BY <1>1 DEF User
<1>2. CASE Pass
  BY <1>2 DEF Pass
<1>3. CASE Refuse
  BY <1>3 DEF Refuse, sessionVars, Needed
<1>4. CASE Type
  BY <1>4 DEF Type, sessionVars
<1>5. CASE Cwd
  BY <1>5 DEF Cwd, Concatenated
<1>6. CASE Quit
  BY <1>6 DEF Quit
<1>7. QED
  BY <1>1, <1>2, <1>3, <1>4, <1>5, <1>6 DEF Quiet

\* A mode is selected by one more data thread, on the port the reply names,
\* or on what 16 bits hold of it.
SelectsMode(port) ==
  /\ authStatus = "LOGGEDIN" /\ authStatus' = "MODESELECTED"
  /\ threads' = Append(threads, [pc |-> "bind", port |-> htons(port), socket |-> 0])
  /\ joined' = FALSE
  /\ UNCHANGED <<data_server_fd, gmutex, relativePath>>

LEMMA PasvAnswers ==
  ASSUME TypeOK, Pasv
  PROVE  /\ Answering /\ request.command = "pasv" /\ portIdx' = portIdx + 1
         /\ \E port \in Int :
              SelectsMode(port) /\ Send(227, port)
              /\ (portIdx < Len(ports) => Decode(port) = port)
              /\ (portIdx >= Len(ports) => port \in Garbage)
<1>1. Answering /\ request.command = "pasv" /\ portIdx' = portIdx + 1
      /\ authStatus = "LOGGEDIN" /\ relativePath' = relativePath
  BY DEF Pasv, Executes, Answering
<1>2. PICK port \in NextPorts : CreateThread(port) /\ Send(227, port)
  BY DEF Pasv
<1>3. /\ portIdx \in Nat /\ Len(ports) \in Nat /\ Garbage \subseteq Int
      /\ \A i \in 1..Len(ports) : ports[i] \in PortNumbers /\ ports[i] % 256 # 0
  BY Constants DEF TypeOK, ServerTypeOK, ClientTypeOK
<1>4. CASE portIdx < Len(ports)
  <2>1. port = ports[portIdx + 1] /\ portIdx + 1 \in 1..Len(ports)
    BY <1>3, <1>4 DEF NextPorts
  <2>2. port \in PortNumbers /\ port \in Int /\ Decode(port) = port
    BY <1>3, <2>1, Decoded DEF PortNumbers
  <2>3. QED
    BY <1>1, <1>2, <1>3, <1>4, <2>2 DEF CreateThread, SelectsMode
<1>5. CASE ~(portIdx < Len(ports))
  BY <1>1, <1>2, <1>3, <1>5 DEF CreateThread, SelectsMode, NextPorts
<1>6. QED
  BY <1>4, <1>5

LEMMA PortAnswers ==
  ASSUME TypeOK, Port
  PROVE  /\ Answering /\ request.command = "port" /\ portIdx' = portIdx
         /\ \/ /\ Send(400, 0)
               /\ UNCHANGED <<authStatus, relativePath, threadVars>>
            \/ \E port \in Int : SelectsMode(port) /\ Send(200, port)
<1>1. /\ Answering /\ request.command = "port" /\ portIdx' = portIdx
      /\ authStatus = "LOGGEDIN" /\ relativePath' = relativePath
  BY DEF Port, Executes, Answering
<1>2. request \in Request
  BY <1>1 DEF Answering, Arrived, TypeOK, WiresTypeOK
<1>3. Number(request.fields) \in Int
  BY <1>2, NumberIsInt DEF Request
<1>4. CASE Send(400, 0) /\ UNCHANGED <<authStatus, threadVars>>
  BY <1>1, <1>4
<1>5. CASE CreateThread(Number(request.fields)) /\ Send(200, Number(request.fields))
  BY <1>1, <1>3, <1>5 DEF CreateThread, SelectsMode
<1>6. QED
  BY <1>1, <1>4, <1>5 DEF Port

LEMMA AnsweringTyped ==
  ASSUME TypeOK, Answering, NEW status \in Statuses, NEW port \in Int,
         Send(status, port)
  PROVE  /\ WiresTypeOK' /\ ClientTypeOK' /\ UNCHANGED clientVars
         /\ UNCHANGED <<up, mainVars, dataCommand, fileName, assumed, typed>>
         /\ Outstanding = 1 /\ Outstanding' = 0
<1>1. /\ UNCHANGED <<up, mainVars, dataCommand, fileName, assumed, typed>>
      /\ UNCHANGED clientVars /\ request' = NoRequest /\ request # NoRequest
      /\ pending' = pending
  BY DEF Answering, clientVars, boundVars, Arrived
<1>2. WiresTypeOK'
  BY <1>1, SendTyped DEF TypeOK, WiresTypeOK
<1>3. QED
  BY <1>1, <1>2, TypesKept DEF TypeOK, Outstanding

LEMMA QuietTyped ==
  ASSUME TypeOK, Counted, Quiet
  PROVE  TypeOK' /\ Counted'
<1>1. PICK status \in Statuses : Send(status, 0)
  BY QuietAnswers DEF TypeOK
<1>2. Answering /\ UNCHANGED <<threadVars, portIdx>>
  BY QuietAnswers DEF TypeOK
<1>3. /\ WiresTypeOK' /\ ClientTypeOK'
      /\ UNCHANGED <<up, mainVars, dataCommand, fileName, assumed, typed>>
      /\ Outstanding = 1 /\ Outstanding' = 0
  BY <1>1, <1>2, AnsweringTyped, NoPort
<1>4. ServerTypeOK'
  BY <1>2, <1>3, QuietAnswers DEF TypeOK, ServerTypeOK, mainVars
<1>5. ThreadsTypeOK'
  BY <1>2, <1>3, TypesKept DEF TypeOK
<1>6. Counted'
  <2>1. portIdx \in Nat /\ Len(threads) \in Nat /\ typed \in Nat
    BY Constants DEF TypeOK, ServerTypeOK, ThreadsTypeOK, ClientTypeOK
  <2>2. threads' = threads
    BY <1>2 DEF threadVars
  <2>3. QED
    BY <1>2, <1>3, <2>1, <2>2 DEF Counted
<1>7. QED
  BY <1>3, <1>4, <1>5, <1>6 DEF TypeOK

\* What TypeOK says of the numbers.
LEMMA Numbers ==
  ASSUME TypeOK
  PROVE  /\ MaxCommands[assumed] \in Nat /\ MaxClients \in Nat
         /\ portIdx \in Nat /\ typed \in Nat /\ typed <= MaxCommands[assumed]
         /\ Len(threads) \in Nat /\ Len(dataThreads) \in Nat /\ Len(replies) \in Nat
         /\ DOMAIN threads = 1..Len(threads) /\ DOMAIN dataThreads = 1..Len(dataThreads)
         /\ data_server_fd \in 0..Len(threads)
         /\ \A i \in DOMAIN threads : threads[i] \in ServerThreads
         /\ \A i \in DOMAIN dataThreads : dataThreads[i] \in ClientThreads
         /\ \A i \in 1..Len(replies) : replies[i] \in Replies
         /\ (Len(replies) = 0 <=> replies = <<>>)
         /\ (Len(threads) = 0 <=> threads = <<>>)
         /\ (Len(dataThreads) = 0 <=> dataThreads = <<>>)
BY Constants DEF TypeOK, ServerTypeOK, ThreadsTypeOK, WiresTypeOK, ClientTypeOK

LEMMA SelectTyped ==
  ASSUME TypeOK, NEW port \in Int, SelectsMode(port), assumed' = assumed
  PROVE  /\ ThreadsTypeOK' /\ Len(threads') = Len(threads) + 1
         /\ Newest(threads').port = htons(port) /\ Newest(threads').pc = "bind"
         /\ \A i \in DOMAIN threads : threads'[i] = threads[i]
         /\ threads' # <<>>
<1> DEFINE new == [pc |-> "bind", port |-> htons(port), socket |-> 0]
<1>1. new \in ServerThreads
  BY Numbers, Networked DEF ServerThreads
<1>2. threads \in Seq(ServerThreads) /\ threads' = Append(threads, new)
  BY DEF TypeOK, ThreadsTypeOK, SelectsMode
<1>3. /\ threads' \in Seq(ServerThreads) /\ Len(threads') = Len(threads) + 1
      /\ Len(threads) \in Nat /\ threads'[Len(threads) + 1] = new /\ threads' # <<>>
      /\ \A i \in 1..Len(threads) : threads'[i] = threads[i]
  BY ONLY <1>1, <1>2, AppendHolds
<1>4. ServerThreads' = ServerThreads
  BY DEF ServerThreads
<1>5. data_server_fd' \in 0..Len(threads')
  BY <1>3, Numbers DEF SelectsMode
<1>6. ThreadsTypeOK'
  BY <1>3, <1>4, <1>5 DEF ThreadsTypeOK, TypeOK, SelectsMode
<1>7. QED
  BY <1>3, <1>6, Numbers DEF Newest

LEMMA PasvTyped == TypeOK /\ Counted /\ Pasv => TypeOK' /\ Counted'
<1> SUFFICES ASSUME TypeOK, Counted, Pasv PROVE TypeOK' /\ Counted'
  OBVIOUS
<1>1. PICK port \in Int : SelectsMode(port) /\ Send(227, port)
  BY PasvAnswers
<1>2. Answering /\ portIdx' = portIdx + 1 /\ 227 \in Statuses
  BY PasvAnswers DEF Statuses
<1>3. /\ WiresTypeOK' /\ ClientTypeOK'
      /\ UNCHANGED <<up, mainVars, dataCommand, fileName, assumed, typed>>
      /\ Outstanding = 1 /\ Outstanding' = 0
  BY <1>1, <1>2, AnsweringTyped
<1>4. ThreadsTypeOK' /\ Len(threads') = Len(threads) + 1
  BY <1>1, <1>3, SelectTyped
<1>5. Counted' /\ portIdx' \in 0..MaxCommands[assumed']
  BY <1>2, <1>3, <1>4, Numbers DEF Counted
<1>6. ServerTypeOK'
  BY <1>1, <1>3, <1>5 DEF TypeOK, ServerTypeOK, mainVars, SelectsMode
<1>7. QED
  BY <1>3, <1>4, <1>5, <1>6 DEF TypeOK

LEMMA PortTyped == TypeOK /\ Counted /\ Port => TypeOK' /\ Counted'
<1> SUFFICES ASSUME TypeOK, Counted, Port PROVE TypeOK' /\ Counted'
  OBVIOUS
<1>1. Answering /\ portIdx' = portIdx /\ 200 \in Statuses /\ 400 \in Statuses
  BY PortAnswers DEF Statuses
<1>2. CASE Send(400, 0) /\ UNCHANGED <<authStatus, relativePath, threadVars>>
  <2>1. /\ WiresTypeOK' /\ ClientTypeOK'
        /\ UNCHANGED <<up, mainVars, dataCommand, fileName, assumed, typed>>
        /\ Outstanding = 1 /\ Outstanding' = 0
    BY <1>1, <1>2, AnsweringTyped, NoPort
  <2>2. ServerTypeOK' /\ ThreadsTypeOK'
    BY <1>1, <1>2, <2>1, TypesKept DEF TypeOK, sessionVars
  <2>3. Counted'
    BY <1>1, <1>2, <2>1, Numbers DEF Counted, threadVars
  <2>4. QED
    BY <2>1, <2>2, <2>3 DEF TypeOK
<1>3. ASSUME NEW port \in Int, SelectsMode(port), Send(200, port)
      PROVE  TypeOK' /\ Counted'
  <2>1. /\ WiresTypeOK' /\ ClientTypeOK'
        /\ UNCHANGED <<up, mainVars, dataCommand, fileName, assumed, typed>>
        /\ Outstanding = 1 /\ Outstanding' = 0
    BY <1>1, <1>3, AnsweringTyped
  <2>2. ThreadsTypeOK' /\ Len(threads') = Len(threads) + 1
    BY <1>3, <2>1, SelectTyped
  <2>3. ServerTypeOK'
    BY <1>1, <1>3, <2>1 DEF TypeOK, ServerTypeOK, mainVars, SelectsMode
  <2>4. Counted'
    BY <1>1, <2>1, <2>2, Numbers DEF Counted
  <2>5. QED
    BY <2>1, <2>2, <2>3, <2>4 DEF TypeOK
<1>4. QED
  BY <1>2, <1>3, PortAnswers

LEMMA SignalWakesOne ==
  ASSUME NEW ts, NEW woken \in Signalled(ts)
  PROVE  \/ woken = ts /\ \A i \in DOMAIN ts : ts[i].pc # "waiting"
         \/ \E i \in DOMAIN ts : ts[i].pc = "waiting" /\ woken = [ts EXCEPT ![i].pc = "woken"]
BY DEF Signalled, Waiting

\* One thread of the server moves on, one of the client does.
LEMMA ServerThreadMoves ==
  ASSUME TypeOK, assumed' = assumed, NEW i \in DOMAIN threads,
         NEW pc \in {"bind", "waiting", "woken", "accept", "done", "failed"},
         threads' = [threads EXCEPT ![i].pc = pc]
  PROVE  /\ threads' \in Seq(ServerThreads') /\ Len(threads') = Len(threads)
         /\ DOMAIN threads' = DOMAIN threads
         /\ threads'[i].pc = pc
         /\ \A j \in DOMAIN threads :
              /\ threads'[j].port = threads[j].port /\ threads'[j].socket = threads[j].socket
              /\ j # i => threads'[j].pc = threads[j].pc
<1> DEFINE moved == [threads[i] EXCEPT !.pc = pc]
<1>1. threads[i] \in ServerThreads /\ threads \in Seq(ServerThreads)
  BY Numbers DEF TypeOK, ThreadsTypeOK
<1>2. /\ moved \in ServerThreads /\ moved.pc = pc
      /\ moved.port = threads[i].port /\ moved.socket = threads[i].socket
  BY <1>1 DEF ServerThreads
<1>3. threads' = [threads EXCEPT ![i] = moved]
  OBVIOUS
<1>4. /\ threads' \in Seq(ServerThreads) /\ Len(threads') = Len(threads)
      /\ DOMAIN threads' = DOMAIN threads
      /\ \A j \in DOMAIN threads : threads'[j] = IF j = i THEN moved ELSE threads[j]
  BY ONLY <1>1, <1>2, <1>3, i \in DOMAIN threads, ExceptHolds
<1>5. ServerThreads' = ServerThreads
  BY DEF ServerThreads
<1>6. QED
  BY <1>2, <1>4, <1>5

LEMMA ClientThreadMoves ==
  ASSUME TypeOK, NEW i \in DOMAIN dataThreads,
         NEW pc \in {"parse", "gave_up", "waiting", "woken", "recv", "done"},
         dataThreads' = [dataThreads EXCEPT ![i].pc = pc]
  PROVE  /\ dataThreads' \in Seq(ClientThreads) /\ Len(dataThreads') = Len(dataThreads)
         /\ DOMAIN dataThreads' = DOMAIN dataThreads
         /\ dataThreads'[i].pc = pc
         /\ \A j \in DOMAIN dataThreads :
              /\ dataThreads'[j].port = dataThreads[j].port
              /\ dataThreads'[j].status = dataThreads[j].status
              /\ dataThreads'[j].got = dataThreads[j].got
              /\ j # i => dataThreads'[j].pc = dataThreads[j].pc
<1> DEFINE moved == [dataThreads[i] EXCEPT !.pc = pc]
<1>1. dataThreads[i] \in ClientThreads /\ dataThreads \in Seq(ClientThreads)
  BY Numbers DEF TypeOK, ClientTypeOK
<1>2. /\ moved \in ClientThreads /\ moved.pc = pc /\ moved.port = dataThreads[i].port
      /\ moved.status = dataThreads[i].status /\ moved.got = dataThreads[i].got
  BY <1>1 DEF ClientThreads
<1>3. dataThreads' = [dataThreads EXCEPT ![i] = moved]
  OBVIOUS
<1>4. /\ dataThreads' \in Seq(ClientThreads) /\ Len(dataThreads') = Len(dataThreads)
      /\ DOMAIN dataThreads' = DOMAIN dataThreads
      /\ \A j \in DOMAIN dataThreads : dataThreads'[j] = IF j = i THEN moved ELSE dataThreads[j]
  BY ONLY <1>1, <1>2, <1>3, i \in DOMAIN dataThreads, ExceptHolds
<1>5. QED
  BY <1>2, <1>4

\* The server's threads after a signal.
LEMMA ServerSignal ==
  ASSUME TypeOK, assumed' = assumed, threads' \in Signalled(threads)
  PROVE  /\ threads' \in Seq(ServerThreads') /\ Len(threads') = Len(threads)
         /\ DOMAIN threads' = DOMAIN threads
         /\ \A j \in DOMAIN threads :
              /\ threads'[j].port = threads[j].port /\ threads'[j].socket = threads[j].socket
              /\ \/ threads'[j].pc = threads[j].pc
                 \/ threads[j].pc = "waiting" /\ threads'[j].pc = "woken"
<1>1. CASE threads' = threads
  <2>1. ServerThreads' = ServerThreads
    BY DEF ServerThreads
  <2>2. QED
    BY <1>1, <2>1 DEF TypeOK, ThreadsTypeOK
<1>2. ASSUME NEW i \in DOMAIN threads, threads[i].pc = "waiting",
             threads' = [threads EXCEPT ![i].pc = "woken"]
      PROVE  /\ threads' \in Seq(ServerThreads') /\ Len(threads') = Len(threads)
             /\ DOMAIN threads' = DOMAIN threads
             /\ threads'[i].pc = "woken"
             /\ \A j \in DOMAIN threads :
                  /\ threads'[j].port = threads[j].port /\ threads'[j].socket = threads[j].socket
                  /\ j # i => threads'[j].pc = threads[j].pc
  BY <1>2, ServerThreadMoves
<1>3. \/ threads' = threads
      \/ \E i \in DOMAIN threads :
           threads[i].pc = "waiting" /\ threads' = [threads EXCEPT ![i].pc = "woken"]
  BY SignalWakesOne
<1>4. CASE \E i \in DOMAIN threads :
             threads[i].pc = "waiting" /\ threads' = [threads EXCEPT ![i].pc = "woken"]
  <2>1. PICK i \in DOMAIN threads :
          threads[i].pc = "waiting" /\ threads' = [threads EXCEPT ![i].pc = "woken"]
    BY <1>4
  <2>2. /\ threads' \in Seq(ServerThreads') /\ Len(threads') = Len(threads)
        /\ DOMAIN threads' = DOMAIN threads
        /\ threads'[i].pc = "woken"
        /\ \A j \in DOMAIN threads :
             /\ threads'[j].port = threads[j].port /\ threads'[j].socket = threads[j].socket
             /\ j # i => threads'[j].pc = threads[j].pc
    BY <1>2, <2>1
  <2>3. \A j \in DOMAIN threads :
          \/ threads'[j].pc = threads[j].pc
          \/ threads[j].pc = "waiting" /\ threads'[j].pc = "woken"
    <3> TAKE j \in DOMAIN threads
    <3>1. CASE j = i
      BY <2>1, <2>2, <3>1
    <3>2. CASE j # i
      BY <2>2, <3>2
    <3>3. QED
      BY <3>1, <3>2
  <2>4. QED
    BY <2>2, <2>3
<1>5. QED
  BY <1>1, <1>3, <1>4

LEMMA StartTransferTyped == TypeOK /\ Counted /\ StartTransfer => TypeOK' /\ Counted'
<1> SUFFICES ASSUME TypeOK, Counted, StartTransfer PROVE TypeOK' /\ Counted'
  OBVIOUS
<1>1. PICK command \in Transfers :
        /\ Executes(command) /\ dataCommand' = command
        /\ fileName' = IF command = "retr" THEN request.arg ELSE fileName
  BY DEF StartTransfer, Transfers, CommandSet
<1>2. /\ UNCHANGED <<up, responseMessage, cfd, authStatus, relativePath, portIdx, joined,
                     data_server_fd, gmutex, pending, clientVars, assumed, typed>>
      /\ Send(150, 0) /\ 150 \in Statuses /\ server_pc' = "join"
      /\ threads' \in Signalled(threads)
  BY DEF StartTransfer, clientVars, boundVars, Statuses
<1>3. request' = NoRequest /\ request # NoRequest /\ request \in Request
  BY <1>1 DEF Executes, Arrived, TypeOK, WiresTypeOK
<1>4. ServerTypeOK'
  BY <1>1, <1>2, <1>3 DEF TypeOK, ServerTypeOK, Request, Transfers
<1>5. ThreadsTypeOK' /\ Len(threads') = Len(threads)
  BY <1>2, ServerSignal DEF TypeOK, ThreadsTypeOK
<1>6. WiresTypeOK' /\ ClientTypeOK'
  BY <1>2, <1>3, SendTyped, NoPort, TypesKept DEF TypeOK, WiresTypeOK
<1>7. Counted'
  BY <1>2, <1>3, <1>5, Numbers DEF Counted, Outstanding
<1>8. QED
  BY <1>4, <1>5, <1>6, <1>7 DEF TypeOK

LEMMA EndTransferTyped == TypeOK /\ Counted /\ EndTransfer => TypeOK' /\ Counted'
<1> SUFFICES ASSUME TypeOK, Counted, EndTransfer PROVE TypeOK' /\ Counted'
  OBVIOUS
<1>1. /\ UNCHANGED <<up, responseMessage, cfd, relativePath, portIdx, dataCommand, fileName,
                     threads, data_server_fd, gmutex, request, pending, clientVars,
                     assumed, typed>>
      /\ joined' = TRUE /\ server_pc' = "recv"
      /\ authStatus' \in {authStatus, "LOGGEDIN"}
  BY DEF EndTransfer, AfterTransfer, clientVars, boundVars
<1>2. Send(226, 0) \/ Send(500, 0)
  BY DEF EndTransfer
<1>3. ServerTypeOK'
  BY <1>1 DEF TypeOK, ServerTypeOK
<1>4. ServerThreads' = ServerThreads
  BY <1>1 DEF ServerThreads
<1>5. ThreadsTypeOK'
  BY <1>1, <1>4 DEF TypeOK, ThreadsTypeOK
<1>6. 226 \in Statuses /\ 500 \in Statuses
  BY DEF Statuses
<1>7. WiresTypeOK' /\ ClientTypeOK'
  BY <1>1, <1>2, <1>6, SendTyped, NoPort, TypesKept DEF TypeOK, WiresTypeOK
<1>8. Counted'
  BY <1>1 DEF Counted, Outstanding
<1>9. QED
  BY <1>3, <1>5, <1>7, <1>8 DEF TypeOK

LEMMA AcceptClientTyped == TypeOK /\ Counted /\ AcceptClient => TypeOK' /\ Counted'
<1> SUFFICES ASSUME TypeOK, Counted, AcceptClient PROVE TypeOK' /\ Counted'
  OBVIOUS
<1>1. /\ UNCHANGED <<up, responseMessage, sessionVars, threadVars, request, pending,
                     clientVars, assumed, typed>>
      /\ server_pc' = "recv" /\ cfd' = "client"
      /\ replies' = <<[status |-> 220, port |-> 0]>>
  BY DEF AcceptClient, clientVars, boundVars
<1>2. [status |-> 220, port |-> 0] \in Replies
  BY NoPort DEF Replies, Statuses
<1>3. ASSUME NEW S, NEW e \in S PROVE <<e>> \in Seq(S)
  OBVIOUS
<1>4. WiresTypeOK'
  BY <1>1, <1>2, <1>3 DEF TypeOK, WiresTypeOK
<1>5. ServerTypeOK'
  BY <1>1 DEF TypeOK, ServerTypeOK, sessionVars
<1>6. ThreadsTypeOK' /\ ClientTypeOK'
  BY <1>1, TypesKept DEF TypeOK
<1>7. Counted'
  BY <1>1 DEF Counted, Outstanding, sessionVars, threadVars
<1>8. QED
  BY <1>4, <1>5, <1>6, <1>7 DEF TypeOK

LEMMA RecvErrorTyped == TypeOK /\ Counted /\ RecvError => TypeOK' /\ Counted'
<1> SUFFICES ASSUME TypeOK, Counted, RecvError PROVE TypeOK' /\ Counted'
  OBVIOUS
<1>1. /\ UNCHANGED <<up, responseMessage, sessionVars, threadVars, replies, pending,
                     clientVars, assumed, typed>>
      /\ server_pc' = "accept" /\ cfd' = "none" /\ request' = NoRequest
  BY DEF RecvError, clientVars, boundVars
<1>2. WiresTypeOK'
  BY <1>1 DEF TypeOK, WiresTypeOK
<1>3. ServerTypeOK'
  BY <1>1 DEF TypeOK, ServerTypeOK, sessionVars
<1>4. ThreadsTypeOK' /\ ClientTypeOK'
  BY <1>1, TypesKept DEF TypeOK
<1>5. Counted'
  BY <1>1, Numbers DEF Counted, Outstanding, sessionVars, threadVars
<1>6. QED
  BY <1>2, <1>3, <1>4, <1>5 DEF TypeOK

\* A thread of the server that is not yet asked to transfer anything.
Prepares(i) == Bind(i) \/ WakeUnasked(i) \/ Listen(i)

LEMMA Preparing ==
  ASSUME TypeOK, Counted, NEW i \in DOMAIN threads, Prepares(i)
  PROVE  /\ UNCHANGED <<up, mainVars, sessionVars, joined, wireVars, clientVars>>
         /\ up /\ threads[i].pc \in {"bind", "waiting", "woken"}
         /\ threads'[i].pc \in {"waiting", "woken", "accept"}
         /\ ThreadsTypeOK' /\ Len(threads') = Len(threads)
         /\ DOMAIN threads' = DOMAIN threads
         /\ \A j \in DOMAIN threads :
              /\ threads'[j].port = threads[j].port
              /\ j # i => threads'[j].pc = threads[j].pc
<1>1. /\ UNCHANGED <<up, mainVars, sessionVars, joined, wireVars, clientVars, assumed>>
      /\ up /\ threads[i].pc \in {"bind", "waiting", "woken"}
  BY DEF Prepares, Bind, WakeUnasked, Listen, ServerThreadAt, clientVars, boundVars
<1>2. CASE Bind(i)
  <2>1. /\ threads' = [threads EXCEPT ![i].pc = "waiting"] /\ data_server_fd' = i
        /\ gmutex' = FALSE
    BY <1>2 DEF Bind
  <2>2. /\ threads' \in Seq(ServerThreads') /\ Len(threads') = Len(threads)
        /\ DOMAIN threads' = DOMAIN threads /\ threads'[i].pc = "waiting"
        /\ \A j \in DOMAIN threads :
             /\ threads'[j].port = threads[j].port
             /\ j # i => threads'[j].pc = threads[j].pc
    BY <1>1, <2>1, ServerThreadMoves
  <2>3. data_server_fd' \in 0..Len(threads')
    BY <2>1, <2>2, Numbers
  <2>4. ThreadsTypeOK'
    BY <1>1, <2>1, <2>2, <2>3 DEF TypeOK, ThreadsTypeOK
  <2>5. QED
    BY <1>1, <2>2, <2>4
<1>3. CASE WakeUnasked(i)
  <2>1. /\ threads' = [threads EXCEPT ![i].pc = "woken"]
        /\ UNCHANGED <<data_server_fd, gmutex>>
    BY <1>3 DEF WakeUnasked
  <2>2. QED
    BY <1>1, <2>1, ServerThreadMoves, Numbers DEF TypeOK, ThreadsTypeOK
<1>4. CASE Listen(i)
  <2> DEFINE listens == [threads[i] EXCEPT !.pc = "accept", !.socket = data_server_fd]
  <2>1. threads' = [threads EXCEPT ![i] = listens] /\ gmutex' = TRUE
        /\ data_server_fd' = data_server_fd
    BY <1>4 DEF Listen
  <2>2. /\ threads[i] \in ServerThreads /\ threads \in Seq(ServerThreads)
        /\ data_server_fd \in 0..Len(threads)
    BY Numbers DEF TypeOK, ThreadsTypeOK
  <2>3. data_server_fd \in 0..MaxCommands[assumed]
    BY Numbers, <2>2 DEF Counted, Outstanding
  <2>4. listens \in ServerThreads /\ listens.pc = "accept" /\ listens.port = threads[i].port
    BY <2>2, <2>3 DEF ServerThreads
  <2>5. /\ threads' \in Seq(ServerThreads) /\ Len(threads') = Len(threads)
        /\ DOMAIN threads' = DOMAIN threads
        /\ \A j \in DOMAIN threads : threads'[j] = IF j = i THEN listens ELSE threads[j]
    BY ONLY <2>1, <2>2, <2>4, i \in DOMAIN threads, ExceptHolds
  <2>6. ServerThreads' = ServerThreads
    BY <1>1 DEF ServerThreads
  <2>7. ThreadsTypeOK'
    BY <1>1, <2>1, <2>2, <2>5, <2>6 DEF TypeOK, ThreadsTypeOK
  <2>8. QED
    BY <1>1, <2>4, <2>5, <2>7
<1>5. QED
  BY <1>2, <1>3, <1>4 DEF Prepares

\* A function on the domain of a sequence is a sequence of that length.
LEMMA MapHolds ==
  ASSUME NEW S, NEW q \in Seq(S), NEW new, new = [t \in DOMAIN q |-> new[t]],
         \A t \in DOMAIN q : new[t] \in S
  PROVE  new \in Seq(S) /\ Len(new) = Len(q) /\ DOMAIN new = DOMAIN q
OBVIOUS

LEMMA Transferring ==
  ASSUME TypeOK, NEW i \in DOMAIN threads, Transfer(i)
  PROVE  /\ up /\ threads[i].pc = "accept" /\ PortOf(i) \in pending
         /\ pending' = pending \ {PortOf(i)}
         /\ UNCHANGED <<up, mainVars, sessionVars, joined, data_server_fd, gmutex, request,
                        replies, processVars, target, client_gmutex, boundVars>>
         /\ ThreadsTypeOK' /\ Len(threads') = Len(threads)
         /\ DOMAIN threads' = DOMAIN threads
         /\ threads'[i].pc = IF dataCommand = "unknown" THEN "failed" ELSE "done"
         /\ \A j \in DOMAIN threads :
              /\ threads'[j].port = threads[j].port
              /\ j # i => threads'[j].pc = threads[j].pc
         /\ dataThreads' \in Seq(ClientThreads) /\ Len(dataThreads') = Len(dataThreads)
         /\ DOMAIN dataThreads' = DOMAIN dataThreads
         /\ \A t \in DOMAIN dataThreads :
              /\ dataThreads'[t].pc = dataThreads[t].pc
              /\ dataThreads'[t].port = dataThreads[t].port
              /\ dataThreads'[t].status = dataThreads[t].status
              /\ dataThreads'[t].got \in {dataThreads[t].got, dataCommand}
              /\ dataThreads[t].pc # "recv" => dataThreads'[t].got = dataThreads[t].got
<1>1. /\ up /\ threads[i].pc = "accept" /\ PortOf(i) \in pending
      /\ pending' = pending \ {PortOf(i)}
      /\ UNCHANGED <<up, mainVars, sessionVars, joined, data_server_fd, gmutex, request,
                     replies, processVars, target, client_gmutex, boundVars, assumed>>
  BY DEF Transfer, ServerThreadAt, boundVars
<1> DEFINE pc == IF dataCommand = "unknown" THEN "failed" ELSE "done"
<1>2. pc \in {"bind", "waiting", "woken", "accept", "done", "failed"}
      /\ threads' = [threads EXCEPT ![i].pc = pc]
  BY DEF Transfer
<1> HIDE DEF pc
<1>3. /\ threads' \in Seq(ServerThreads') /\ Len(threads') = Len(threads)
      /\ DOMAIN threads' = DOMAIN threads /\ threads'[i].pc = pc
      /\ \A j \in DOMAIN threads :
           /\ threads'[j].port = threads[j].port
           /\ j # i => threads'[j].pc = threads[j].pc
  BY <1>1, <1>2, ServerThreadMoves
<1>4. ThreadsTypeOK'
  BY <1>1, <1>3 DEF TypeOK, ThreadsTypeOK
<1>5. dataThreads \in Seq(ClientThreads) /\ \A t \in DOMAIN dataThreads :
        dataThreads[t] \in ClientThreads
  BY Numbers DEF TypeOK, ClientTypeOK
<1>6. /\ dataThreads' = [t \in DOMAIN dataThreads |-> dataThreads'[t]]
      /\ \A t \in DOMAIN dataThreads :
           dataThreads'[t] = IF dataThreads[t].pc = "recv" /\ dataThreads[t].port = PortOf(i)
                             THEN [dataThreads[t] EXCEPT !.got = dataCommand]
                             ELSE dataThreads[t]
  BY DEF Transfer
<1>7. dataCommand \in {"unknown", "nlst", "retr"}
  BY DEF TypeOK, ServerTypeOK
<1>8. ASSUME NEW t \in DOMAIN dataThreads
      PROVE  /\ dataThreads'[t] \in ClientThreads
             /\ dataThreads'[t].pc = dataThreads[t].pc
             /\ dataThreads'[t].port = dataThreads[t].port
             /\ dataThreads'[t].status = dataThreads[t].status
             /\ dataThreads'[t].got \in {dataThreads[t].got, dataCommand}
             /\ dataThreads[t].pc # "recv" => dataThreads'[t].got = dataThreads[t].got
  BY <1>5, <1>6, <1>7 DEF ClientThreads
<1>9. /\ dataThreads' \in Seq(ClientThreads) /\ Len(dataThreads') = Len(dataThreads)
      /\ DOMAIN dataThreads' = DOMAIN dataThreads
  BY ONLY <1>5, <1>6, <1>8, MapHolds
<1>10. QED
  BY <1>1, <1>3, <1>4, <1>8, <1>9 DEF pc

\* A step of the client that leaves the bounds alone.
LEMMA ServerKept ==
  ASSUME TypeOK, Counted, UNCHANGED <<serverVars, request, boundVars>>
  PROVE  ServerTypeOK' /\ ThreadsTypeOK' /\ Counted'
<1>1. UNCHANGED <<up, mainVars, sessionVars, threadVars, assumed, typed>>
  BY DEF serverVars, boundVars
<1>2. ServerTypeOK' /\ ThreadsTypeOK'
  BY <1>1, TypesKept DEF TypeOK
<1>3. Counted'
  BY <1>1 DEF Counted, Outstanding, sessionVars, threadVars
<1>4. QED
  BY <1>2, <1>3

LEMMA ReplyTyped ==
  ASSUME TypeOK
  PROVE  /\ Reply.status \in Statuses \cup {0} /\ Reply.port \in Int
         /\ Consumed(replies) \in Seq(Replies)
         /\ replies # <<>> => Reply = replies[1] /\ Reply \in Replies
<1>1. replies \in Seq(Replies)
  BY DEF TypeOK, WiresTypeOK
<1>2. CASE replies = <<>>
  BY <1>1, <1>2, NoPort, ConsumedHolds DEF Reply
<1>3. CASE replies # <<>>
  <2>1. Head(replies) = replies[1] /\ replies[1] \in Replies /\ Consumed(replies) \in Seq(Replies)
    BY <1>1, <1>3, ConsumedHolds
  <2>2. Reply = replies[1]
    BY <1>3, <2>1 DEF Reply
  <2>3. QED
    BY <2>1, <2>2 DEF Replies
<1>4. QED
  BY <1>2, <1>3

\* callback() without the steps that end the client.
Callback ==
  \/ Acknowledge \/ CreateDataThread \/ JoinDataThread \/ DataThreadEnds \/ ReceiveFinal

\* What a new data thread of the client starts with.
LEMMA ThreadCreated ==
  ASSUME TypeOK, CreateDataThread
  PROVE  /\ dataThreads' \in Seq(ClientThreads) /\ Len(dataThreads') = Len(dataThreads) + 1
         /\ DOMAIN dataThreads' = 1..(Len(dataThreads) + 1) /\ dataThreads' # <<>>
         /\ Newest(dataThreads').pc = "parse" /\ Newest(dataThreads').got = "nothing"
         /\ Newest(dataThreads').status = Reply.status
         /\ Newest(dataThreads').port = Reply.port
         /\ \A i \in DOMAIN dataThreads : dataThreads'[i] = dataThreads[i]
<1> DEFINE new == [pc |-> "parse", status |-> Reply.status, port |-> Reply.port,
                   got |-> "nothing"]
<1>1. new \in ClientThreads
  BY ReplyTyped DEF ClientThreads
<1>2. dataThreads \in Seq(ClientThreads) /\ dataThreads' = Append(dataThreads, new)
  BY DEF CreateDataThread, TypeOK, ClientTypeOK
<1>3. /\ dataThreads' \in Seq(ClientThreads) /\ Len(dataThreads') = Len(dataThreads) + 1
      /\ Len(dataThreads) \in Nat /\ dataThreads'[Len(dataThreads) + 1] = new
      /\ dataThreads' # <<>>
      /\ \A i \in 1..Len(dataThreads) : dataThreads'[i] = dataThreads[i]
  BY ONLY <1>1, <1>2, AppendHolds
<1>4. QED
  BY <1>3, Numbers DEF Newest

LEMMA CallbackTyped == TypeOK /\ Counted /\ Callback => TypeOK' /\ Counted'
<1> SUFFICES ASSUME TypeOK, Counted, Callback PROVE TypeOK' /\ Counted'
  OBVIOUS
<1>1. UNCHANGED <<serverVars, request, pending, sentCommand, target, client_gmutex, boundVars>>
  BY DEF Callback, Acknowledge, CreateDataThread, JoinDataThread, DataThreadEnds,
         ReceiveFinal, dataVars, wireVars
<1>2. client_pc' \in {"prompt", "join", "final"}
  BY DEF Callback, Acknowledge, CreateDataThread, JoinDataThread, DataThreadEnds, ReceiveFinal
<1>3. replies' \in {replies, Consumed(replies)}
  BY DEF Callback, Acknowledge, CreateDataThread, JoinDataThread, DataThreadEnds,
         ReceiveFinal, LastConsumed, wireVars
<1>4. WiresTypeOK'
  BY <1>1, <1>3, ReplyTyped DEF TypeOK, WiresTypeOK
<1>5. dataThreads' \in Seq(ClientThreads)
  <2>1. CASE CreateDataThread
    BY <2>1, ThreadCreated
  <2>2. CASE JoinDataThread
    <3>1. dataThreads' \in Signalled(dataThreads)
      BY <2>2 DEF JoinDataThread
    <3>2. QED
      BY <3>1, SignalWakesOne, ClientThreadMoves DEF TypeOK, ClientTypeOK
  <2>3. CASE Acknowledge \/ DataThreadEnds \/ ReceiveFinal
    BY <2>3 DEF Acknowledge, DataThreadEnds, ReceiveFinal, dataVars, TypeOK, ClientTypeOK
  <2>4. QED
    BY <2>1, <2>2, <2>3 DEF Callback
<1>6. ClientTypeOK'
  BY <1>1, <1>2, <1>5 DEF TypeOK, ClientTypeOK, boundVars
<1>7. QED
  BY <1>1, <1>4, <1>6, ServerKept DEF TypeOK

LEMMA ConnectTyped == TypeOK /\ Counted /\ Connect => TypeOK' /\ Counted'
<1> SUFFICES ASSUME TypeOK, Counted, Connect PROVE TypeOK' /\ Counted'
  OBVIOUS
<1>1. /\ UNCHANGED <<serverVars, wireVars, dataVars, typed, assumed>>
      /\ clients < MaxClients /\ clients' = clients + 1
      /\ client_pc' = "recv" /\ sentCommand' = "user"
  BY DEF Connect
<1>2. UNCHANGED <<up, mainVars, sessionVars, threadVars>>
  BY <1>1 DEF serverVars
<1>3. ServerTypeOK' /\ ThreadsTypeOK' /\ WiresTypeOK'
  BY <1>1, <1>2, TypesKept DEF TypeOK
<1>4. clients' \in 0..MaxClients
  BY <1>1, Numbers DEF TypeOK, ClientTypeOK
<1>5. ClientTypeOK'
  BY <1>1, <1>4 DEF TypeOK, ClientTypeOK, dataVars, Commands
<1>6. Counted'
  BY <1>1, <1>2 DEF Counted, Outstanding, sessionVars, threadVars, wireVars
<1>7. QED
  BY <1>3, <1>5, <1>6 DEF TypeOK

LEMMA SendLineTyped ==
  ASSUME TypeOK, Counted, NEW line \in Lines, SendLine(line)
  PROVE  TypeOK' /\ Counted'
<1>1. /\ UNCHANGED <<serverVars, replies, pending, dataVars, clients, assumed>>
      /\ typed < MaxCommands[assumed] /\ typed' = typed + 1
      /\ sentCommand' = line.command
      /\ client_pc' \in {"recv", "exited"} /\ request' \in {line, request}
  BY DEF SendLine
<1>2. UNCHANGED <<up, mainVars, sessionVars, threadVars>>
  BY <1>1 DEF serverVars
<1>3. line \in Request /\ line.command \in Commands
  BY LinesAssumption DEF Request
<1>4. ServerTypeOK' /\ ThreadsTypeOK'
  BY <1>1, <1>2, TypesKept DEF TypeOK
<1>5. WiresTypeOK'
  BY <1>1, <1>3 DEF TypeOK, WiresTypeOK
<1>6. typed' \in 0..MaxCommands[assumed']
  BY <1>1, Numbers
<1>7. ClientTypeOK'
  BY <1>1, <1>3, <1>6 DEF TypeOK, ClientTypeOK, dataVars
<1>8. Counted'
  <2>1. \/ request' = request
        \/ up /\ request' = line
    BY DEF SendLine
  <2>2. Outstanding' <= Outstanding + 1 /\ Outstanding' \in Int /\ Outstanding \in Int
    BY DEF Outstanding
  <2>3. portIdx' = portIdx /\ threads' = threads
    BY <1>2 DEF sessionVars, threadVars
  <2>4. QED
    BY <1>1, <2>2, <2>3, Numbers DEF Counted
<1>9. QED
  BY <1>4, <1>5, <1>7, <1>8 DEF TypeOK

LEMMA ParseTyped ==
  ASSUME TypeOK, Counted, NEW i \in DOMAIN dataThreads, Parse(i)
  PROVE  TypeOK' /\ Counted'
<1>1. /\ UNCHANGED <<serverVars, wireVars, processVars, boundVars, request>>
      /\ dataThreads' = [dataThreads EXCEPT ![i].pc = "waiting"] /\ client_gmutex' = FALSE
  BY DEF Parse, wireVars
<1>2. dataThreads[i] \in ClientThreads
  BY Numbers
<1>3. target' \in PortNumbers
  <2>1. dataThreads[i].port \in Int /\ Decode(dataThreads[i].port) \in Int
    BY <1>2, PartsAreInts DEF ClientThreads
  <2>2. \E dataPort \in {0, dataThreads[i].port, Decode(dataThreads[i].port)} \cup Garbage :
          target' = htons(dataPort)
    BY DEF Parse
  <2>3. QED
    BY <2>1, <2>2, Networked, GarbageAssumption
<1>4. dataThreads' \in Seq(ClientThreads)
  BY <1>1, ClientThreadMoves
<1>5. ClientTypeOK'
  BY <1>1, <1>3, <1>4 DEF TypeOK, ClientTypeOK, processVars, boundVars
<1>6. WiresTypeOK'
  BY <1>1, TypesKept DEF TypeOK
<1>7. QED
  BY <1>1, <1>5, <1>6, ServerKept DEF TypeOK

LEMMA ParseWrongTyped ==
  ASSUME TypeOK, Counted, NEW i \in DOMAIN dataThreads, ParseWrong(i)
  PROVE  TypeOK' /\ Counted'
<1>1. /\ UNCHANGED <<serverVars, wireVars, processVars, target, client_gmutex, boundVars,
                     request>>
      /\ dataThreads' = [dataThreads EXCEPT ![i].pc = "gave_up"]
  BY DEF ParseWrong, wireVars
<1>2. dataThreads' \in Seq(ClientThreads)
  BY <1>1, ClientThreadMoves
<1>3. ClientTypeOK'
  BY <1>1, <1>2 DEF TypeOK, ClientTypeOK, processVars, boundVars
<1>4. WiresTypeOK'
  BY <1>1, TypesKept DEF TypeOK
<1>5. QED
  BY <1>1, <1>3, <1>4, ServerKept DEF TypeOK

LEMMA WakeClientTyped ==
  ASSUME TypeOK, Counted, NEW i \in DOMAIN dataThreads, WakeClientUnasked(i)
  PROVE  TypeOK' /\ Counted'
<1>1. /\ UNCHANGED <<serverVars, wireVars, processVars, target, client_gmutex, boundVars,
                     request>>
      /\ dataThreads' = [dataThreads EXCEPT ![i].pc = "woken"]
  BY DEF WakeClientUnasked, wireVars
<1>2. dataThreads' \in Seq(ClientThreads)
  BY <1>1, ClientThreadMoves
<1>3. ClientTypeOK'
  BY <1>1, <1>2 DEF TypeOK, ClientTypeOK, processVars, boundVars
<1>4. WiresTypeOK'
  BY <1>1, TypesKept DEF TypeOK
<1>5. QED
  BY <1>1, <1>3, <1>4, ServerKept DEF TypeOK

\* connect() of a data thread of the client.
LEMMA Connecting ==
  ASSUME TypeOK, NEW i \in DOMAIN dataThreads, ConnectData(i)
  PROVE  /\ UNCHANGED <<serverVars, request, replies, processVars, target, boundVars>>
         /\ up /\ dataThreads[i].pc = "woken" /\ pending' = pending \cup {target}
         /\ client_gmutex' = TRUE
         /\ dataThreads' \in Seq(ClientThreads) /\ Len(dataThreads') = Len(dataThreads)
         /\ DOMAIN dataThreads' = DOMAIN dataThreads
         /\ dataThreads'[i].pc = "recv" /\ dataThreads'[i].got = dataThreads[i].got
         /\ \A j \in DOMAIN dataThreads :
              /\ dataThreads'[j].status = dataThreads[j].status
              /\ j # i => dataThreads'[j] = dataThreads[j]
<1> DEFINE connected == [dataThreads[i] EXCEPT !.pc = "recv", !.port = target]
<1>1. /\ UNCHANGED <<serverVars, request, replies, processVars, target, boundVars>>
      /\ up /\ dataThreads[i].pc = "woken" /\ pending' = pending \cup {target}
      /\ client_gmutex' = TRUE /\ dataThreads' = [dataThreads EXCEPT ![i] = connected]
  BY DEF ConnectData, Prepared, Listening, ClientThreadAt
<1>2. /\ dataThreads[i] \in ClientThreads /\ dataThreads \in Seq(ClientThreads)
      /\ target \in Int
  BY Numbers DEF TypeOK, ClientTypeOK, PortNumbers
<1>3. /\ connected \in ClientThreads /\ connected.pc = "recv"
      /\ connected.got = dataThreads[i].got /\ connected.status = dataThreads[i].status
  BY <1>2 DEF ClientThreads
<1>4. /\ dataThreads' \in Seq(ClientThreads) /\ Len(dataThreads') = Len(dataThreads)
      /\ DOMAIN dataThreads' = DOMAIN dataThreads
      /\ \A j \in DOMAIN dataThreads :
           dataThreads'[j] = IF j = i THEN connected ELSE dataThreads[j]
  BY ONLY <1>1, <1>2, <1>3, i \in DOMAIN dataThreads, ExceptHolds
<1>5. QED
  BY <1>1, <1>3, <1>4

LEMMA ConnectDataTyped ==
  ASSUME TypeOK, Counted, NEW i \in DOMAIN dataThreads, ConnectData(i)
  PROVE  TypeOK' /\ Counted'
<1>1. WiresTypeOK'
  BY Connecting DEF TypeOK, WiresTypeOK, ClientTypeOK
<1>2. ClientTypeOK'
  BY Connecting DEF TypeOK, ClientTypeOK, processVars, boundVars
<1>3. QED
  BY <1>1, <1>2, Connecting, ServerKept DEF TypeOK

LEMMA SaveDataTyped ==
  ASSUME TypeOK, Counted, NEW i \in DOMAIN dataThreads, SaveData(i)
  PROVE  TypeOK' /\ Counted'
<1>1. /\ UNCHANGED <<serverVars, wireVars, processVars, client_gmutex, boundVars, request>>
      /\ dataThreads' = [dataThreads EXCEPT ![i].pc = "done"] /\ target' = 0
  BY DEF SaveData, wireVars
<1>2. dataThreads' \in Seq(ClientThreads)
  BY <1>1, ClientThreadMoves
<1>3. ClientTypeOK'
  BY <1>1, <1>2, NoPort DEF TypeOK, ClientTypeOK, processVars, boundVars
<1>4. WiresTypeOK'
  BY <1>1, TypesKept DEF TypeOK
<1>5. QED
  BY <1>1, <1>3, <1>4, ServerKept DEF TypeOK

\* The client ends, whichever way.
Departs ==
  /\ \E pc \in {"left", "exited"} : Goes(pc)
  /\ cfd = "client" \/ dataThreads # <<>> \/ Reads("recv")

\* The steps in groups that have something in common.
LEMMA Steps ==
  ASSUME TypeOK, [Next]_vars
  PROVE  \/ UNCHANGED vars
         \/ up /\ Crash
         \/ Quiet \/ Pasv \/ Port \/ StartTransfer \/ EndTransfer \/ AcceptClient \/ RecvError
         \/ \E i \in DOMAIN threads : Prepares(i) \/ Transfer(i)
         \/ Connect \/ Callback \/ Departs
         \/ \E line \in Lines : SendLine(line)
         \/ \E i \in DOMAIN dataThreads :
              Parse(i) \/ ParseWrong(i) \/ WakeClientUnasked(i) \/ ConnectData(i) \/ SaveData(i)
<1>1. execute => \/ up /\ Crash
                 \/ Quiet \/ Pasv \/ Port \/ StartTransfer
  BY DEF execute, CrashOnReply, CrashOnName, Arrived, Quiet
<1>2. \A i \in DOMAIN threads :
        server_thread(i) \/ WakeUnasked(i) => (up /\ Crash) \/ Prepares(i) \/ Transfer(i)
  BY DEF server_thread, BindRefused, CrashOnFile, ServerThreadAt, Prepares
<1>3. callback => Callback \/ Departs
  BY DEF callback, Callback, Departs, QuitReceived, JoinNobody
<1>4. Leave => Departs
  BY DEF Leave, Departs
<1>5. ASSUME NEW i \in DOMAIN dataThreads, client_thread(i) \/ WakeClientUnasked(i)
      PROVE  \/ Departs \/ Parse(i) \/ ParseWrong(i)
             \/ WakeClientUnasked(i) \/ ConnectData(i) \/ SaveData(i)
  <2>1. dataThreads # <<>>
    BY <1>5, Numbers
  <2>2. QED
    BY <1>5, <2>1 DEF client_thread, ParseNothing, ConnectRefused, Departs
<1>6. QED
  BY <1>1, <1>2, <1>3, <1>4, <1>5 DEF Next, server_main

LEMMA TypedStep == TypeOK /\ Counted /\ [Next]_vars => TypeOK' /\ Counted'
<1> SUFFICES ASSUME TypeOK, Counted, [Next]_vars PROVE TypeOK' /\ Counted'
  OBVIOUS
<1>1. CASE UNCHANGED vars
  <2>1. UNCHANGED <<up, mainVars, sessionVars, threadVars, wireVars, clientVars, assumed>>
    BY <1>1 DEF vars, serverVars, clientVars, boundVars
  <2>2. Counted'
    BY <2>1 DEF Counted, Outstanding, sessionVars, threadVars, wireVars, clientVars, boundVars
  <2>3. QED
    BY <2>1, <2>2, TypesKept DEF TypeOK
<1>2. CASE up /\ Crash
  BY <1>2, CrashTyped
<1>3. CASE Quiet \/ Pasv \/ Port
  BY <1>3, QuietTyped, PasvTyped, PortTyped
<1>4. CASE StartTransfer \/ EndTransfer \/ AcceptClient \/ RecvError
  BY <1>4, StartTransferTyped, EndTransferTyped, AcceptClientTyped, RecvErrorTyped
<1>5. ASSUME NEW i \in DOMAIN threads, Prepares(i) PROVE TypeOK' /\ Counted'
  <2>1. /\ UNCHANGED <<up, mainVars, sessionVars, wireVars, clientVars>>
        /\ ThreadsTypeOK' /\ Len(threads') = Len(threads)
    BY <1>5, Preparing
  <2>2. assumed' = assumed /\ typed' = typed
    BY <2>1 DEF clientVars, boundVars
  <2>3. Counted'
    BY <2>1, <2>2 DEF Counted, Outstanding, sessionVars, wireVars
  <2>4. QED
    BY <2>1, <2>2, <2>3, TypesKept DEF TypeOK
<1>6. ASSUME NEW i \in DOMAIN threads, Transfer(i) PROVE TypeOK' /\ Counted'
  <2>1. /\ pending' = pending \ {PortOf(i)} /\ ThreadsTypeOK' /\ Len(threads') = Len(threads)
        /\ UNCHANGED <<up, mainVars, sessionVars, request, replies, processVars, target,
                       client_gmutex, boundVars>>
        /\ dataThreads' \in Seq(ClientThreads)
    BY <1>6, Transferring
  <2>2. assumed' = assumed /\ typed' = typed /\ clients' = clients
    BY <2>1 DEF boundVars
  <2>3. Counted'
    BY <2>1, <2>2 DEF Counted, Outstanding, sessionVars
  <2>4. WiresTypeOK' /\ ClientTypeOK'
    BY <2>1, <2>2 DEF TypeOK, WiresTypeOK, ClientTypeOK, processVars
  <2>5. QED
    BY <2>1, <2>2, <2>3, <2>4, TypesKept DEF TypeOK
<1>7. CASE Connect \/ Callback
  BY <1>7, ConnectTyped, CallbackTyped
<1>8. CASE Departs
  BY <1>8, GoesTyped DEF Departs
<1>9. ASSUME NEW line \in Lines, SendLine(line) PROVE TypeOK' /\ Counted'
  BY <1>9, SendLineTyped
<1>10. ASSUME NEW i \in DOMAIN dataThreads,
              Parse(i) \/ ParseWrong(i) \/ WakeClientUnasked(i) \/ ConnectData(i) \/ SaveData(i)
       PROVE  TypeOK' /\ Counted'
  BY <1>10, ParseTyped, ParseWrongTyped, WakeClientTyped, ConnectDataTyped, SaveDataTyped
<1>11. QED
  BY <1>1, <1>2, <1>3, <1>4, <1>5, <1>6, <1>7, <1>8, <1>9, <1>10, Steps

\* Every variable keeps its type, whatever is typed: the ports that are bound,
\* connected to and waited on fit into sin_port although those that PORT and
\* memory behind the table bring need not, portIdx and the threads are at most as
\* many as the lines typed, and no thread refers to a socket that nobody opened.
THEOREM TypeCorrect == Spec => []TypeOK
<1>1. Init => TypeOK /\ Counted
  BY TypedInit
<1>2. (TypeOK /\ Counted) /\ [Next]_vars => (TypeOK /\ Counted)'
  BY TypedStep
<1>3. QED
  BY <1>1, <1>2, PTL DEF Spec

=============================================================================
