---------------------------- MODULE FtpProperties ----------------------------
(***************************************************************************)
(* What FTP/server.c and FTP/client.c have to keep between them: two       *)
(* processes of two threads each that agree on the next reply, on the      *)
(* port, on what is transferred and on who waits for whom.                 *)
(***************************************************************************)
EXTENDS FtpSession

Newest(ts) == ts[Len(ts)]

Statuses == {150, 200, 220, 221, 226, 227, 230, 331, 400, 401, 500}
ServerThreads ==
  [pc : {"bind", "waiting", "woken", "accept", "done", "failed"},
   port : PortNumbers, socket : 0..MaxCommands[assumed]]
ClientThreads ==
  [pc : {"parse", "gave_up", "waiting", "woken", "recv", "done"},
   status : Statuses \cup {0}, port : Int,
   got : {"nothing", "nlst", "retr", "unknown"}]
Replies == [status : Statuses, port : Int]

ServerTypeOK ==
  /\ up \in BOOLEAN
  /\ responseMessage \in {"usable", "wild"}
  /\ server_pc \in {"accept", "recv", "join"}
  /\ cfd \in {"none", "client", "gone"}
  /\ authStatus \in {"NOTLOGGEDIN", "NEEDPASSWORD", "LOGGEDIN", "MODESELECTED"}
  /\ relativePath \in {"open", "shut", "gone"}
  /\ portIdx \in 0..MaxCommands[assumed]
  /\ dataCommand \in {"unknown", "nlst", "retr"}
  /\ fileName \in Arguments

ThreadsTypeOK ==
  /\ threads \in Seq(ServerThreads)
  /\ joined \in BOOLEAN
  /\ data_server_fd \in 0..Len(threads)
  /\ gmutex \in BOOLEAN

WiresTypeOK ==
  /\ request \in Request \cup {NoRequest}
  /\ replies \in Seq(Replies)
  /\ pending \subseteq PortNumbers

ClientTypeOK ==
  /\ client_pc \in {"off", "recv", "prompt", "join", "final", "left", "exited"}
  /\ sentCommand \in Commands
  /\ dataThreads \in Seq(ClientThreads)
  /\ target \in PortNumbers
  /\ client_gmutex \in BOOLEAN
  /\ clients \in 0..MaxClients
  /\ typed \in 0..MaxCommands[assumed]
  /\ assumed \in Settings

\* Every variable has its type.  A port in a reply is an int, which PORT
\* 0,0,0,0,999,999 makes 256743; the ports that are bound, listened on,
\* connected to and waiting to be accepted have passed htons.
TypeOK == ServerTypeOK /\ ThreadsTypeOK /\ WiresTypeOK /\ ClientTypeOK

\* Request and reply stay in step although NLST and RETR are answered twice
\* and every other command once: when the client asks for the next line, no
\* reply is outstanding and the server waits for it.
InStep ==
  up /\ client_pc = "prompt" =>
    request = NoRequest /\ replies = <<>> /\ server_pc = "recv" /\ cfd = "client"

\* pthread_join is called once for a data thread: while the server joins one,
\* or may be told to, it has not been joined before.  (A client's thread that
\* wakes up unasked connects before there is a command, the server's thread
\* then fails, and MODESELECTED outlasts it.)
JoinedOnce ==
  "asked" \in assumed =>
  (server_pc = "join" \/ authStatus = "MODESELECTED" => threads # <<>> /\ ~joined)

\* No data thread of the client has returned because it could not read the port;
\* main then joins at once and an older thread may be woken in its place.
Understood == \A i \in DOMAIN dataThreads : dataThreads[i].pc # "gave_up"

\* What arrives on the data connection is what this client asked for last,
\* though each side branches on a global variable that another thread writes:
\* dataCommand in the server, sentCommand in the client.
DataIsWhatWasAsked ==
  "asked" \in assumed /\ Understood =>
  \A i \in DOMAIN dataThreads :
    dataThreads[i].pc = "recv" => dataThreads[i].got \in {"nothing", sentCommand}

\* When the user is asked for the next line, a mode is selected and the client's
\* data thread has read the reply, the port the client will connect to is the one
\* the server has bound, through the two parts of PASV and the number of PORT
\* alike, however far that is beyond the 16 bits of a port.
PortsAgree ==
  /\ {"wait", "asked"} \subseteq assumed
  /\ Understood
  /\ up
  /\ client_pc = "prompt"
  /\ authStatus = "MODESELECTED"
  /\ dataThreads # <<>>
  /\ Newest(dataThreads).pc = "waiting"
  /\ Newest(dataThreads).status \in {200, 227}
  => target = Newest(threads).port

\* No older thread is left to take the signal meant for the newest.
Alone(ts) == \A i \in 1..(Len(ts) - 1) : ts[i].pc \in {"done", "failed"}

\* The client is about to read that the server has opened the transfer.
Opened == client_pc = "recv" /\ replies # <<>> /\ Opening(Head(replies).status)

Completed ==
  client_pc \in {"prompt", "left"} \/ (~up /\ client_pc = "exited")

\* README.md:18, item 3: a transfer that the server has opened comes to its end
\* and the client back to its prompt, if on both sides no thread but the newest
\* is left, these were made for each other by PASV or PORT, the client could read
\* the port, it is not 0 and all assumptions hold.  If the server ends meanwhile,
\* as it does when the file is not there, the client ends or prompts all the same.
TransfersEnd ==
  /\ assumed = {"wait", "listen", "asked"}
  /\ Opened
  /\ Alone(threads)
  /\ Alone(dataThreads)
  /\ Understood
  /\ dataThreads # <<>>
  /\ Newest(dataThreads).status \in {200, 227}
  /\ up => Newest(threads).port # 0
  ~> Completed

\* README.md:18, item 3, and the comment at server.c:387, "sleep until RETR or
\* NLST command is given": a transfer that the server has opened comes to its
\* end, at whatever moment after the 150 the server's data thread gets to listen.
EveryTransferEnds == Opened ~> Completed
=============================================================================
