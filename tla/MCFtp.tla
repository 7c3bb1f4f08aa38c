-------------------------------- MODULE MCFtp --------------------------------
(* Instances of FtpSession for TLC: lines that take every branch of the    *)
(* server, and a table of one port so that a second PASV reads beyond it.  *)
EXTENDS FtpProperties, TLC

MCPorts == <<1025>>

Plain(command, arg) == [command |-> command, arg |-> arg, fields |-> <<0, 0, 0>>]
PortLine(fields) == [command |-> "port", arg |-> "right", fields |-> fields]

LogIn == {Plain("user", "right"), Plain("pass", "right")}

\* PORT 260,1 is 66561, of which the low 16 bits are the port of the table;
\* PORT 1,0 is read as 0,1.
AllLines ==
  LogIn \cup
  {Plain("user", "wrong"), Plain("pass", "wrong"), Plain("quit", "none"),
   Plain("type", "right"), Plain("type", "wrong"),
   Plain("cwd", "dir"), Plain("cwd", "/"), Plain("cwd", "none"),
   Plain("pasv", "none"), PortLine(<<0, 260, 1>>), PortLine(<<0, 1, 0>>),
   Plain("port", "wrong"), Plain("nlst", "none"),
   Plain("retr", "file"), Plain("retr", "missing"), Plain("retr", "none")}

\* All assumptions and a long session, or none and a short one.
Calm == {"wait", "listen", "asked"}
CalmOrNot == {Calm, {}}
SessionLength == (Calm :> 7) @@ ({} :> 4)

OneTransfer == LogIn \cup {Plain("pasv", "none"), Plain("nlst", "none")}
Patient == {{"wait", "asked"}}
TransferLength == [setting \in Patient |-> 4]
=============================================================================
