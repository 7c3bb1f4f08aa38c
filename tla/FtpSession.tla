----------------------------- MODULE FtpSession -----------------------------
(***************************************************************************)
(* An FTP session: main and the data threads of FTP/server.c, and main and *)
(* the data threads of one FTP/client.c after another.                     *)
(*                                                                         *)
(* The server talks to one client at a time; another one waits in the      *)
(* listen queue and has nothing to do, so the model starts it when the     *)
(* previous one is gone.  A reply is its status and the number it prints;  *)
(* a line the user types is a command, the kind of its argument and, for   *)
(* PORT, the fields behind the address.  The server's directory is "open"  *)
(* (readable, its path ends in a slash), "shut" (readable, the slash is    *)
(* missing) or "gone".  asciiMode is left out: it is written by TYPE and   *)
(* read nowhere.                                                           *)
(*                                                                         *)
(* Both programs wait on a condition variable without the mutex.  As glibc *)
(* does it, the wait then gives up the mutex whoever has it, waking takes  *)
(* it, and as no thread unlocks it the next wait is what does.             *)
(***************************************************************************)
EXTENDS Integers, Sequences

CONSTANTS
  Lines,        \* what the user may type, of type Request
  ports,        \* the table of passive ports
  Garbage,      \* ints that memory beyond the table may read as
  MaxClients,   \* bound: client processes, one after the other
  MaxCommands,  \* bound: lines typed in all, for each member of Settings
  Settings      \* the sets of assumptions to be looked at:
                \* "wait":   the user types the next line when the data threads
                \*           already wait for it
                \* "listen": the server's data thread listens before the
                \*           client's connects
                \* "asked":  the client's data thread does not wake up unasked

MaxPort == 65535
PortNumbers == 0..MaxPort

\* What atoi() makes of a token of at most three characters.
Fields == -99..999
FieldTriples == Fields \X Fields \X Fields

Commands == {"user", "pass", "nlst", "retr", "cwd", "quit", "type", "pasv", "port"}
Arguments == {"none", "right", "wrong", "file", "missing", "dir", "/"}
\* With a fourth field that is not zero behind the address `port` leaves the
\* range of int; such a line is not modelled.
Request == [command : Commands, arg : Arguments, fields : FieldTriples]

ASSUME LinesAssumption == Lines \subseteq Request
ASSUME TableAssumption == ports \in Seq({p \in PortNumbers : p % 256 # 0})
ASSUME GarbageAssumption == Garbage \subseteq Int /\ Garbage # {}
ASSUME BoundAssumption == MaxClients \in Nat /\ MaxCommands \in [Settings -> Nat]
ASSUME SettingAssumption == Settings \subseteq SUBSET {"wait", "listen", "asked"}

VARIABLES
  \* the server
  up,              \* its process has neither exited nor crashed
  responseMessage, \* main's uninitialised pointer
  server_pc,       \* control point of main
  cfd,             \* the other end of the control connection
  authStatus,
  relativePath,
  portIdx,
  dataCommand,
  fileName,
  threads,         \* data threads, the last one is `dataThread`
  joined,          \* it has been joined
  data_server_fd,  \* the thread that opened the newest data socket
  gmutex,          \* somebody has locked it
  \* the wires
  request,         \* on its way to the server
  replies,         \* on their way to the client
  pending,         \* ports (htons) with a data connection the server has yet to accept
  \* the client
  client_pc,
  sentCommand,
  dataThreads,     \* data threads, the last one is `dataThread`
  target,          \* port of data_server_addr, after htons
  client_gmutex,
  \* the bounds and the assumptions
  clients, typed,
  assumed          \* a member of Settings, the same in all states

mainVars == <<responseMessage, server_pc, cfd>>
sessionVars == <<authStatus, relativePath, portIdx, dataCommand, fileName>>
threadVars == <<threads, joined, data_server_fd, gmutex>>
wireVars == <<request, replies, pending>>
processVars == <<client_pc, sentCommand>>
dataVars == <<dataThreads, target, client_gmutex>>
boundVars == <<clients, typed, assumed>>
serverVars == <<up, mainVars, sessionVars, threadVars>>
clientVars == <<processVars, dataVars, boundVars>>
vars == <<serverVars, wireVars, clientVars>>

NoRequest == [command |-> "none", arg |-> "none", fields |-> <<0, 0, 0>>]

Init ==
  /\ up = TRUE
  /\ responseMessage \in {"usable", "wild"}
  /\ server_pc = "accept"
  /\ cfd = "none"
  /\ authStatus = "NOTLOGGEDIN"
  /\ relativePath = "open"
  /\ portIdx = 0
  /\ dataCommand = "unknown"
  /\ fileName = "none"
  /\ threads = <<>>
  /\ joined = FALSE
  /\ data_server_fd = 0
  /\ gmutex = FALSE
  /\ request = NoRequest
  /\ replies = <<>>
  /\ pending = {}
  /\ client_pc = "off"
  /\ sentCommand = "user"
  /\ dataThreads = <<>>
  /\ target = 0
  /\ client_gmutex = FALSE
  /\ clients = 0
  /\ typed = 0
  /\ assumed \in Settings

-----------------------------------------------------------------------------
(* Ports in text, and in a socket address                                  *)

\* Mutant: the shift is applied after the addition.
AddByteAndShift(acc, value) == 256 * (acc + value)

\* A field that is zero neither shifts nor adds.
AddByte(acc, value) == IF value = 0 THEN acc ELSE 256 * acc + value

\* What is typed for PORT; fields that are missing count as zeros.
Number(fields) == AddByte(AddByte(AddByte(0, fields[1]), fields[2]), fields[3])

\* port/256 and port%256 of C, which round towards 0.
High(port) == IF port >= 0 THEN port \div 256 ELSE -((-port) \div 256)
Low(port) == port - 256 * High(port)

\* Neither of the two is printed in more than three characters.
Readable(port) == High(port) \in Fields /\ Low(port) \in Fields

\* What is read back where port was written as port/256,port%256.
Decode(port) == AddByte(AddByte(0, High(port)), Low(port))

\* Mutant: the port is used as it was read.
AsItIs(port) == port

\* The conversion to the 16 bits of sin_port; the order of bytes is the same
\* for all and left out.
htons(port) == port % (MaxPort + 1)

-----------------------------------------------------------------------------
(* The server: main                                                        *)

Send(status, port) ==
  replies' = IF cfd = "client"
             THEN Append(replies, [status |-> status, port |-> port])
             ELSE replies

AcceptClient ==
  /\ up
  /\ server_pc = "accept"
  /\ client_pc = "recv"
  /\ server_pc' = "recv"
  /\ cfd' = "client"
  /\ replies' = <<[status |-> 220, port |-> 0]>>
  /\ UNCHANGED <<up, responseMessage, sessionVars, threadVars, request, pending,
                 clientVars>>

\* recv() fails, if the connection was reset.  After an orderly end it returns
\* 0 for ever and the loop answers an unknown command to nobody: no step.
RecvError ==
  /\ up
  /\ server_pc = "recv"
  /\ cfd = "gone"
  /\ server_pc' = "accept"
  /\ cfd' = "none"
  /\ request' = NoRequest
  /\ UNCHANGED <<up, responseMessage, sessionVars, threadVars, replies, pending,
                 clientVars>>

Arrived == up /\ server_pc = "recv" /\ request # NoRequest

Executes(command) ==
  /\ Arrived
  /\ responseMessage = "usable"
  /\ request.command = command
  /\ request' = NoRequest

\* The process is gone with all its memory and sockets; replies it has sent can
\* still be read.
Crash ==
  /\ up' = FALSE
  /\ server_pc' = "accept"
  /\ cfd' = IF cfd = "client" THEN "client" ELSE "none"
  /\ authStatus' = "NOTLOGGEDIN"
  /\ relativePath' = "open"
  /\ portIdx' = 0
  /\ dataCommand' = "unknown"
  /\ fileName' = "none"
  /\ threads' = <<>>
  /\ joined' = FALSE
  /\ data_server_fd' = 0
  /\ gmutex' = FALSE
  /\ request' = NoRequest
  /\ pending' = {}
  /\ UNCHANGED <<responseMessage, replies, clientVars>>

\* execute() begins with a memset through responseMessage.
CrashOnReply == Arrived /\ responseMessage = "wild" /\ Crash

User ==
  /\ Executes("user")
  /\ \/ /\ authStatus = "NOTLOGGEDIN" /\ request.arg = "right"
        /\ authStatus' = "NEEDPASSWORD"
        /\ Send(331, 0)
     \/ /\ ~(authStatus = "NOTLOGGEDIN" /\ request.arg = "right")
        /\ UNCHANGED authStatus
        /\ Send(400, 0)
  /\ UNCHANGED <<up, mainVars, relativePath, portIdx, dataCommand, fileName, threadVars,
                 pending, clientVars>>

Pass ==
  /\ Executes("pass")
  /\ \/ /\ authStatus = "NEEDPASSWORD" /\ request.arg = "right"
        /\ authStatus' = "LOGGEDIN"
        /\ Send(230, 0)
     \/ /\ \/ authStatus = "NOTLOGGEDIN"
           \/ authStatus = "NEEDPASSWORD" /\ request.arg # "right"
        /\ UNCHANGED authStatus
        /\ Send(400, 0)
     \/ /\ authStatus \in {"LOGGEDIN", "MODESELECTED"}
        /\ UNCHANGED authStatus
        /\ Send(200, 0)
  /\ UNCHANGED <<up, mainVars, relativePath, portIdx, dataCommand, fileName, threadVars,
                 pending, clientVars>>

Needed(command) ==
  IF command \in {"nlst", "retr"} THEN "MODESELECTED" ELSE "LOGGEDIN"

Refuse ==
  /\ \E command \in {"nlst", "retr", "cwd", "type", "pasv", "port"} :
       Executes(command) /\ authStatus # Needed(command)
  /\ Send(401, 0)
  /\ UNCHANGED <<up, mainVars, sessionVars, threadVars, pending, clientVars>>

Type ==
  /\ Executes("type")
  /\ authStatus = "LOGGEDIN"
  /\ Send(IF request.arg = "right" THEN 200 ELSE 401, 0)
  /\ UNCHANGED <<up, mainVars, sessionVars, threadVars, pending, clientVars>>

\* The directory after strcat(relativePath, arg).
Concatenated(path, arg) ==
  CASE arg = "/" -> "open"
    [] arg = "dir" /\ path = "open" -> "shut"
    [] OTHER -> "gone"

\* Whatever is named, validDirectoryEntry finds an entry that is named
\* otherwise and says yes; without a name, or without the directory, it ends
\* the server.
NamesSomething == request.arg # "none" /\ relativePath # "gone"

Cwd ==
  /\ Executes("cwd")
  /\ authStatus = "LOGGEDIN"
  /\ NamesSomething
  /\ relativePath' = Concatenated(relativePath, request.arg)
  /\ Send(226, 0)
  /\ UNCHANGED <<up, mainVars, authStatus, portIdx, dataCommand, fileName, threadVars,
                 pending, clientVars>>

CrashOnName ==
  /\ Arrived
  /\ responseMessage = "usable"
  /\ request.command \in {"cwd", "retr"}
  /\ authStatus = Needed(request.command)
  /\ ~NamesSomething
  /\ Crash

\* The data thread of a mode that was selected stays.
Quit ==
  /\ Executes("quit")
  /\ authStatus' = "NOTLOGGEDIN"
  /\ Send(221, 0)
  /\ UNCHANGED <<up, mainVars, relativePath, portIdx, dataCommand, fileName, threadVars,
                 pending, clientVars>>

CreateThread(port) ==
  /\ threads' = Append(threads, [pc |-> "bind", port |-> htons(port), socket |-> 0])
  /\ joined' = FALSE
  /\ authStatus' = "MODESELECTED"
  /\ UNCHANGED <<data_server_fd, gmutex>>

\* ports[portIdx++], with no look at the length of the table.
NextPorts == IF portIdx < Len(ports) THEN {ports[portIdx + 1]} ELSE Garbage

Pasv ==
  /\ Executes("pasv")
  /\ authStatus = "LOGGEDIN"
  /\ portIdx' = portIdx + 1
  /\ \E port \in NextPorts : CreateThread(port) /\ Send(227, port)
  /\ UNCHANGED <<up, mainVars, relativePath, dataCommand, fileName, pending, clientVars>>

Port ==
  /\ Executes("port")
  /\ authStatus = "LOGGEDIN"
  /\ \/ /\ request.arg = "wrong"  \* a field of more than three characters
        /\ Send(400, 0)
        /\ UNCHANGED <<authStatus, threadVars>>
     \/ /\ request.arg # "wrong"
        /\ CreateThread(Number(request.fields))
        /\ Send(200, Number(request.fields))
  /\ UNCHANGED <<up, mainVars, relativePath, portIdx, dataCommand, fileName, pending,
                 clientVars>>

Waiting(ts) == {i \in DOMAIN ts : ts[i].pc = "waiting"}

\* Mutant: the signal is forgotten.
NotSignalled(ts) == {ts}

\* pthread_cond_signal: one of those who wait, or nobody and it is lost.
Signalled(ts) ==
  IF Waiting(ts) = {} THEN {ts} ELSE {[ts EXCEPT ![i].pc = "woken"] : i \in Waiting(ts)}

\* Mutant: RETR leaves the value that NLST has set.
CommandKept(command) == "nlst"

CommandSet(command) == command

StartTransfer ==
  /\ \E command \in {"nlst", "retr"} :
       /\ Executes(command)
       /\ command = "retr" => NamesSomething
       /\ dataCommand' = CommandSet(command)
       /\ fileName' = IF command = "retr" THEN request.arg ELSE fileName
  /\ authStatus = "MODESELECTED"
  /\ threads' \in Signalled(threads)
  /\ Send(150, 0)
  /\ server_pc' = "join"
  /\ UNCHANGED <<up, responseMessage, cfd, authStatus, relativePath, portIdx, joined,
                 data_server_fd, gmutex, pending, clientVars>>

\* Mutant: the mode stays selected after a transfer.
StillSelected == "MODESELECTED"

AfterTransfer == "LOGGEDIN"

EndTransfer ==
  /\ up
  /\ server_pc = "join"
  /\ LET dataThread == threads[Len(threads)]
     IN \/ /\ dataThread.pc = "done"
           /\ authStatus' = AfterTransfer
           /\ Send(226, 0)
        \/ /\ dataThread.pc = "failed"
           /\ UNCHANGED authStatus
           /\ Send(500, 0)
  /\ joined' = TRUE
  /\ server_pc' = "recv"
  /\ UNCHANGED <<up, responseMessage, cfd, relativePath, portIdx, dataCommand, fileName,
                 threads, data_server_fd, gmutex, request, pending, clientVars>>

-----------------------------------------------------------------------------
(* The server: the data threads.  No data socket is ever closed.           *)

InUse(p) == p # 0 /\ \E i \in DOMAIN threads : threads[i].pc # "bind" /\ threads[i].port = p

ServerThreadAt(i, pc) == up /\ i \in DOMAIN threads /\ threads[i].pc = pc

\* bind() and, as the mutex is not locked before, the beginning of the wait.
Bind(i) ==
  /\ ServerThreadAt(i, "bind")
  /\ ~InUse(threads[i].port)
  /\ threads' = [threads EXCEPT ![i].pc = "waiting"]
  /\ data_server_fd' = i
  /\ gmutex' = FALSE
  /\ UNCHANGED <<up, mainVars, sessionVars, joined, wireVars, clientVars>>

BindRefused(i) == ServerThreadAt(i, "bind") /\ InUse(threads[i].port) /\ Crash

WakeUnasked(i) ==
  /\ ServerThreadAt(i, "waiting")
  /\ threads' = [threads EXCEPT ![i].pc = "woken"]
  /\ UNCHANGED <<up, mainVars, sessionVars, joined, data_server_fd, gmutex, wireVars,
                 clientVars>>

\* The wait returns with the mutex; listen() and accept() read data_server_fd,
\* which may be another thread's socket by now.
Listen(i) ==
  /\ ServerThreadAt(i, "woken")
  /\ ~gmutex
  /\ gmutex' = TRUE
  /\ threads' = [threads EXCEPT ![i].pc = "accept", ![i].socket = data_server_fd]
  /\ UNCHANGED <<up, mainVars, sessionVars, joined, data_server_fd, wireVars, clientVars>>

PortOf(i) == threads[threads[i].socket].port

\* getStreamFromFile returns NULL, which newMessage copies from.
Unreadable == dataCommand = "retr" /\ (fileName # "file" \/ relativePath # "open")

Transfer(i) ==
  /\ ServerThreadAt(i, "accept")
  /\ PortOf(i) \in pending
  /\ ~Unreadable
  /\ pending' = pending \ {PortOf(i)}
  /\ threads' = [threads EXCEPT ![i].pc = IF dataCommand = "unknown" THEN "failed" ELSE "done"]
  /\ dataThreads' = [t \in DOMAIN dataThreads |->
                       IF dataThreads[t].pc = "recv" /\ dataThreads[t].port = PortOf(i)
                       THEN [dataThreads[t] EXCEPT !.got = dataCommand]
                       ELSE dataThreads[t]]
  /\ UNCHANGED <<up, mainVars, sessionVars, joined, data_server_fd, gmutex, request,
                 replies, processVars, target, client_gmutex, boundVars>>

CrashOnFile(i) ==
  ServerThreadAt(i, "accept") /\ PortOf(i) \in pending /\ Unreadable /\ Crash

-----------------------------------------------------------------------------
(* The client: main                                                        *)

Connect ==
  /\ up
  /\ client_pc \in {"off", "left", "exited"}
  /\ clients < MaxClients
  /\ clients' = clients + 1
  /\ client_pc' = "recv"
  /\ sentCommand' = "user"
  /\ UNCHANGED <<serverVars, wireVars, dataVars, typed, assumed>>

Settled ==
  /\ \A i \in DOMAIN threads : threads[i].pc # "bind"
  /\ \A i \in DOMAIN dataThreads : dataThreads[i].pc # "parse"

\* With the server gone the line is lost, or raises SIGPIPE, which ends the
\* client.
SendLine(line) ==
  /\ client_pc = "prompt"
  /\ typed < MaxCommands[assumed]
  /\ "wait" \in assumed /\ up => Settled
  /\ typed' = typed + 1
  /\ sentCommand' = line.command
  /\ \/ up /\ request' = line /\ client_pc' = "recv"
     \/ ~up /\ UNCHANGED request /\ client_pc' \in {"recv", "exited"}
  /\ UNCHANGED <<serverVars, replies, pending, dataVars, clients, assumed>>

Opening(status) == status \div 100 = 1

\* recv() in main or in callback takes the next reply; when the server has gone
\* it fails, and what is read is all zeros.
Reads(pc) == client_pc = pc /\ (replies # <<>> \/ ~up)

Reply == IF replies = <<>> THEN [status |-> 0, port |-> 0] ELSE Head(replies)

Consumed(queue) == IF queue = <<>> THEN queue ELSE Tail(queue)

\* Mutant: the last reply of a transfer is waited for but not received.
Peeked(queue) == queue

LastConsumed(queue) == Consumed(queue)

\* callback() when there is nothing to do.
Acknowledge ==
  /\ Reads("recv")
  /\ \/ sentCommand \in {"user", "pass", "cwd", "type"}
     \/ sentCommand \in {"nlst", "retr"} /\ ~Opening(Reply.status)
  /\ replies' = Consumed(replies)
  /\ client_pc' = "prompt"
  /\ UNCHANGED <<serverVars, request, pending, sentCommand, dataVars, boundVars>>

\* Whether or not the server has agreed.
CreateDataThread ==
  /\ Reads("recv")
  /\ sentCommand \in {"pasv", "port"}
  /\ dataThreads' = Append(dataThreads, [pc |-> "parse", status |-> Reply.status,
                                         port |-> Reply.port, got |-> "nothing"])
  /\ replies' = Consumed(replies)
  /\ client_pc' = "prompt"
  /\ UNCHANGED <<serverVars, request, pending, sentCommand, target, client_gmutex,
                 boundVars>>

JoinDataThread ==
  /\ Reads("recv")
  /\ sentCommand \in {"nlst", "retr"}
  /\ Opening(Reply.status)
  /\ dataThreads # <<>>
  /\ dataThreads' \in Signalled(dataThreads)
  /\ replies' = Consumed(replies)
  /\ client_pc' = "join"
  /\ UNCHANGED <<serverVars, request, pending, sentCommand, target, client_gmutex,
                 boundVars>>

DataThreadEnds ==
  /\ client_pc = "join"
  /\ dataThreads[Len(dataThreads)].pc \in {"done", "gave_up"}
  /\ client_pc' = "final"
  /\ UNCHANGED <<serverVars, wireVars, sentCommand, dataVars, boundVars>>

ReceiveFinal ==
  /\ Reads("final")
  /\ replies' = LastConsumed(replies)
  /\ client_pc' = "prompt"
  /\ UNCHANGED <<serverVars, request, pending, sentCommand, dataVars, boundVars>>

\* The process ends, and with it its threads and its end of the connection.
Goes(pc) ==
  /\ client_pc' = pc
  /\ cfd' = "gone"
  /\ replies' = <<>>
  /\ dataThreads' = <<>>
  /\ target' = 0
  /\ client_gmutex' = FALSE
  /\ UNCHANGED <<up, responseMessage, server_pc, sessionVars, threadVars, request, pending,
                 sentCommand, boundVars>>

\* The reply to QUIT; or pthread_join of a thread that was never created.
QuitReceived == Reads("recv") /\ sentCommand = "quit" /\ Goes("left")

JoinNobody ==
  /\ Reads("recv")
  /\ sentCommand \in {"nlst", "retr"}
  /\ Opening(Reply.status)
  /\ dataThreads = <<>>
  /\ Goes("exited")

\* The user interrupts it at any point; in the listen queue that is no
\* different from right after the server has accepted it.
Leave == cfd = "client" /\ Goes("left")

-----------------------------------------------------------------------------
(* The client: the data threads                                            *)

ClientThreadAt(i, pc) == i \in DOMAIN dataThreads /\ dataThreads[i].pc = pc

\* "wrong ip:dataPort given": a part of the reply that is too long.
Wrong(i) == /\ sentCommand = "pasv"
            /\ dataThreads[i].status = 227
            /\ ~Readable(dataThreads[i].port)

\* The command it parses by is the one sent last, which need not be the one
\* that created the thread; dataPort is uninitialised if it is another one.
Parse(i) ==
  /\ ClientThreadAt(i, "parse")
  /\ ~Wrong(i)
  /\ sentCommand = "port" => dataThreads[i].status = 200
  /\ \E dataPort \in
          CASE sentCommand = "pasv" ->
                 {IF dataThreads[i].status = 227 THEN Decode(dataThreads[i].port) ELSE 0}
            [] sentCommand = "port" -> {dataThreads[i].port}
            [] OTHER -> Garbage :
       target' = htons(dataPort)
  /\ dataThreads' = [dataThreads EXCEPT ![i].pc = "waiting"]
  /\ client_gmutex' = FALSE
  /\ UNCHANGED <<serverVars, wireVars, processVars, boundVars>>

\* The thread returns, and nobody is told.
ParseWrong(i) ==
  /\ ClientThreadAt(i, "parse")
  /\ Wrong(i)
  /\ dataThreads' = [dataThreads EXCEPT ![i].pc = "gave_up"]
  /\ UNCHANGED <<serverVars, wireVars, processVars, target, client_gmutex, boundVars>>

\* atoi(NULL): a reply that names no port.
ParseNothing(i) ==
  /\ ClientThreadAt(i, "parse")
  /\ sentCommand = "port"
  /\ dataThreads[i].status # 200
  /\ Goes("exited")

WakeClientUnasked(i) ==
  /\ "asked" \notin assumed
  /\ ClientThreadAt(i, "waiting")
  /\ dataThreads' = [dataThreads EXCEPT ![i].pc = "woken"]
  /\ UNCHANGED <<serverVars, wireVars, processVars, target, client_gmutex, boundVars>>

Listening(p) ==
  up /\ p # 0 /\ \E i \in DOMAIN threads : threads[i].socket # 0 /\ PortOf(i) = p

Prepared(i) ==
  /\ ClientThreadAt(i, "woken")
  /\ ~client_gmutex
  /\ "listen" \in assumed /\ up => \A t \in DOMAIN threads : threads[t].pc # "woken"

ConnectData(i) ==
  /\ Prepared(i)
  /\ Listening(target)
  /\ client_gmutex' = TRUE
  /\ dataThreads' = [dataThreads EXCEPT ![i].pc = "recv", ![i].port = target]
  /\ pending' = pending \cup {target}
  /\ UNCHANGED <<serverVars, request, replies, processVars, target, boundVars>>

ConnectRefused(i) == Prepared(i) /\ ~Listening(target) /\ Goes("exited")

\* The data, or the nothing that recv() brings when the server has gone, is saved
\* or printed.  The socket is closed, or stays connected if the file cannot be
\* written: of no use to another thread either way.
SaveData(i) ==
  /\ ClientThreadAt(i, "recv")
  /\ dataThreads[i].got \in {"nlst", "retr"} \/ ~up
  /\ dataThreads' = [dataThreads EXCEPT ![i].pc = "done"]
  /\ target' = 0
  /\ UNCHANGED <<serverVars, wireVars, processVars, client_gmutex, boundVars>>

-----------------------------------------------------------------------------
execute ==
  \/ CrashOnReply \/ User \/ Pass \/ Refuse \/ Type \/ Cwd \/ CrashOnName \/ Quit
  \/ Pasv \/ Port \/ StartTransfer

server_main == AcceptClient \/ execute \/ EndTransfer

server_thread(i) ==
  Bind(i) \/ BindRefused(i) \/ Listen(i) \/ Transfer(i) \/ CrashOnFile(i)

callback ==
  \/ Acknowledge \/ CreateDataThread \/ JoinDataThread \/ DataThreadEnds
  \/ ReceiveFinal \/ QuitReceived \/ JoinNobody

client_thread(i) ==
  \/ Parse(i) \/ ParseWrong(i) \/ ParseNothing(i)
  \/ ConnectData(i) \/ ConnectRefused(i) \/ SaveData(i)

Next ==
  \/ server_main \/ RecvError \/ Connect \/ callback \/ Leave
  \/ \E line \in Lines : SendLine(line)
  \/ \E i \in DOMAIN threads : server_thread(i) \/ WakeUnasked(i)
  \/ \E i \in DOMAIN dataThreads : client_thread(i) \/ WakeClientUnasked(i)

Spec == Init /\ [][Next]_vars

\* Threads that can go on do.  Nothing makes a user connect, type or leave, a
\* condition variable wake up unasked or a connection end in an error.
FairSpec ==
  /\ Spec
  /\ WF_vars(server_main)
  /\ WF_vars(callback)
  /\ \A i \in UNION {1..MaxCommands[setting] : setting \in Settings} :
       WF_vars(server_thread(i)) /\ WF_vars(client_thread(i))
=============================================================================
