--------------------------- MODULE FtpTransfers ---------------------------
(***************************************************************************)
(* What is transferred: proofs of JoinedOnce and DataIsWhatWasAsked, which *)
(* hold if no data thread of the client wakes up before it is asked to,    *)
(* the second one as long as none has returned before it could connect.    *)
(***************************************************************************)
EXTENDS FtpConversation

-----------------------------------------------------------------------------
(* The invariant: transfers, if no thread of the client wakes up unasked   *)

Unused == {"parse", "gave_up", "waiting"}
Fresh == dataThreads = <<>> \/ Newest(dataThreads).pc \in Unused

\* The client is not about to get a new data thread.
NoModeAsked ==
  client_pc = "prompt" \/ (client_pc = "recv" /\ sentCommand \notin Modes)

\* A mode the server has selected and not used is one the client's newest
\* thread has not used either.
ModeIsFresh ==
  /\ TransferOpened /\ client_pc = "recv" => Fresh
  /\ up /\ cfd = "client" =>
       /\ authStatus = "MODESELECTED" /\ NoModeAsked => Fresh
       /\ server_pc = "recv" /\ (client_pc \in {"join", "final"} \/ OpenedAndEnded)
            => authStatus # "MODESELECTED"

Active(i) == dataThreads[i].pc \in {"woken", "recv"}

\* A data thread runs only while main waits for the newest one, if this one has
\* not given up.
OneActive ==
  /\ client_pc # "join" => \A i \in DOMAIN dataThreads : ~Active(i)
  /\ \A i, j \in DOMAIN dataThreads : Active(i) /\ Active(j) => i = j
  /\ (\E i \in DOMAIN dataThreads : Active(i)) => Newest(dataThreads).pc # "done"

\* The commands of the two sides, as long as a transfer goes on.
SameCommand ==
  up /\ cfd = "client" /\ (client_pc \in {"join", "final"} \/ TransferOpened)
    => dataCommand = sentCommand

\* Who connects does so after a command.
CommandKnown ==
  up /\ (pending # {} \/ \E i \in DOMAIN dataThreads : Active(i)) => dataCommand # "unknown"

NoneFailed == \A i \in DOMAIN threads : threads[i].pc # "failed"

NothingYet ==
  \A i \in DOMAIN dataThreads :
    dataThreads[i].pc \in {"parse", "waiting", "woken"} => dataThreads[i].got = "nothing"

CommandsMatch == SameCommand /\ CommandKnown /\ NoneFailed /\ NothingYet

Asked ==
  "asked" \in assumed => ModeIsFresh /\ (Understood => OneActive) /\ CommandsMatch

\* What is known before a step.
Underway ==
  /\ TypeOK /\ Counted /\ Conversation
  /\ "asked" \in assumed /\ Asked /\ JoinedOnce /\ DataIsWhatWasAsked

-----------------------------------------------------------------------------
(* Which steps change what                                                 *)

ServerStep ==
  \/ UNCHANGED vars
  \/ up /\ Crash
  \/ Quiet \/ Pasv \/ Port \/ StartTransfer \/ EndTransfer \/ AcceptClient \/ RecvError
  \/ \E i \in DOMAIN threads : Prepares(i)

\* The client takes no notice of these.
LEMMA ClientIdle ==
  ASSUME ServerStep
  PROVE  /\ UNCHANGED clientVars
         /\ UNCHANGED <<client_pc, sentCommand, dataThreads, target, assumed>>
         /\ Newest(dataThreads)' = Newest(dataThreads)
<1>1. UNCHANGED clientVars
  BY DEF ServerStep, vars, Crash, Quiet, User, Pass, Refuse, Type, Cwd, Quit, Pasv, Port,
         StartTransfer, EndTransfer, AcceptClient, RecvError, Prepares, Bind, WakeUnasked,
         Listen
<1>2. QED
  BY <1>1 DEF clientVars, processVars, dataVars, boundVars, Newest

LEMMA StepsByProcess ==
  ASSUME TypeOK, [Next]_vars
  PROVE  \/ ServerStep
         \/ \E i \in DOMAIN threads : Transfer(i)
         \/ Connect \/ Callback \/ Departs
         \/ \E line \in Lines : SendLine(line)
         \/ \E i \in DOMAIN dataThreads :
              Parse(i) \/ ParseWrong(i) \/ WakeClientUnasked(i) \/ ConnectData(i) \/ SaveData(i)
BY Steps DEF ServerStep

LEMMA AssumedStays ==
  ASSUME TypeOK, [Next]_vars
  PROVE  assumed' = assumed
<1>1. CASE ServerStep
  BY <1>1, ClientIdle
<1>2. ASSUME NEW i \in DOMAIN threads, Transfer(i) PROVE assumed' = assumed
  BY <1>2 DEF Transfer, boundVars
<1>3. CASE Connect \/ Callback \/ Departs
  BY <1>3 DEF Connect, Callback, Acknowledge, CreateDataThread, JoinDataThread,
              DataThreadEnds, ReceiveFinal, Departs, Goes, boundVars
<1>4. ASSUME NEW line \in Lines, SendLine(line) PROVE assumed' = assumed
  BY <1>4 DEF SendLine
<1>5. ASSUME NEW i \in DOMAIN dataThreads,
             Parse(i) \/ ParseWrong(i) \/ WakeClientUnasked(i) \/ ConnectData(i) \/ SaveData(i)
      PROVE  assumed' = assumed
  BY <1>5 DEF Parse, ParseWrong, WakeClientUnasked, ConnectData, SaveData, boundVars
<1>6. QED
  BY <1>1, <1>2, <1>3, <1>4, <1>5, StepsByProcess

\* In the words of the invariant: connected, and main waits for the newest thread.
LEMMA ActiveInJoin ==
  ASSUME Underway, Understood, NEW i \in DOMAIN dataThreads, Active(i)
  PROVE  /\ client_pc = "join" /\ Newest(dataThreads).pc # "done"
         /\ up => cfd = "client" /\ dataCommand = sentCommand /\ sentCommand \in Transfers
         /\ \A j \in DOMAIN dataThreads : Active(j) => j = i
<1>1. OneActive /\ CommandsMatch
  BY DEF Underway, Asked
<1>2. client_pc = "join" /\ Newest(dataThreads).pc # "done"
  BY <1>1 DEF OneActive
<1>3. dataThreads # <<>>
  BY Numbers DEF Underway
<1>4. sentCommand \in Transfers /\ (up => cfd = "client")
  BY <1>2, <1>3 DEF Underway, Conversation, RepliesFit
<1>5. QED
  BY <1>1, <1>2, <1>4 DEF OneActive, CommandsMatch, SameCommand

\* Main waits for a data thread, and signals the one that is ready.
LEMMA Joining ==
  ASSUME Underway, JoinDataThread
  PROVE  /\ client_pc = "recv" /\ client_pc' = "join" /\ TransferOpened
         /\ replies' = Consumed(replies) /\ UNCHANGED sentCommand
         /\ Newest(dataThreads).pc \in Unused /\ dataThreads # <<>>
         /\ dataThreads' \in Seq(ClientThreads) /\ Len(dataThreads') = Len(dataThreads)
         /\ DOMAIN dataThreads' = DOMAIN dataThreads
         /\ \/ dataThreads' = dataThreads
            \/ \E i \in DOMAIN dataThreads :
                 /\ dataThreads[i].pc = "waiting" /\ dataThreads'[i].pc = "woken"
                 /\ \A j \in DOMAIN dataThreads :
                      /\ dataThreads'[j].got = dataThreads[j].got
                      /\ j # i => dataThreads'[j].pc = dataThreads[j].pc
<1>1. /\ client_pc = "recv" /\ client_pc' = "join" /\ replies' = Consumed(replies)
      /\ sentCommand \in Transfers /\ Opening(Reply.status) /\ dataThreads # <<>>
      /\ UNCHANGED sentCommand /\ dataThreads' \in Signalled(dataThreads)
  BY DEF JoinDataThread, Reads, Transfers
<1>2. TypeOK
  BY DEF Underway
<1>3. TransferOpened
  BY <1>1, <1>2, Taken DEF Underway, Conversation, RepliesFit
<1>4. Newest(dataThreads).pc \in Unused
  BY <1>1, <1>3 DEF Underway, Asked, ModeIsFresh, Fresh
<1>5. CASE dataThreads' = dataThreads
  BY <1>1, <1>2, <1>3, <1>4, <1>5 DEF TypeOK, ClientTypeOK
<1>6. ASSUME NEW i \in DOMAIN dataThreads, dataThreads[i].pc = "waiting",
             dataThreads' = [dataThreads EXCEPT ![i].pc = "woken"]
      PROVE  /\ dataThreads' \in Seq(ClientThreads) /\ Len(dataThreads') = Len(dataThreads)
             /\ DOMAIN dataThreads' = DOMAIN dataThreads
             /\ dataThreads[i].pc = "waiting" /\ dataThreads'[i].pc = "woken"
             /\ \A j \in DOMAIN dataThreads :
                  /\ dataThreads'[j].got = dataThreads[j].got
                  /\ j # i => dataThreads'[j].pc = dataThreads[j].pc
  BY <1>2, <1>6, ClientThreadMoves
<1>7. QED
  BY <1>1, <1>3, <1>4, <1>5, <1>6, SignalWakesOne

\* The newest data thread, before and after a step that creates none.
LEMMA NewestIsOne ==
  ASSUME TypeOK, dataThreads # <<>>
  PROVE  /\ Len(dataThreads) \in DOMAIN dataThreads
         /\ Newest(dataThreads) = dataThreads[Len(dataThreads)]
         /\ Len(dataThreads') = Len(dataThreads)
              => Newest(dataThreads)' = dataThreads'[Len(dataThreads)]
BY Numbers DEF Newest

\* What the steps of a single data thread of the client do to it.
LEMMA ClientThreadSteps ==
  ASSUME TypeOK, "asked" \in assumed, NEW i \in DOMAIN dataThreads,
         Parse(i) \/ ParseWrong(i) \/ WakeClientUnasked(i) \/ ConnectData(i) \/ SaveData(i)
  PROVE  /\ UNCHANGED <<up, server_pc, cfd, authStatus, dataCommand, threads, joined, request,
                        replies, client_pc, sentCommand>>
         /\ DOMAIN dataThreads' = DOMAIN dataThreads /\ Len(dataThreads') = Len(dataThreads)
         /\ dataThreads # <<>> /\ dataThreads' \in Seq(ClientThreads)
         /\ dataThreads'[i].got = dataThreads[i].got
         /\ \A j \in DOMAIN dataThreads :
              /\ dataThreads'[j].status = dataThreads[j].status
              /\ j # i => /\ dataThreads'[j].pc = dataThreads[j].pc
                         /\ dataThreads'[j].got = dataThreads[j].got
         /\ \/ Parse(i) /\ dataThreads[i].pc = "parse" /\ dataThreads'[i].pc = "waiting"
            \/ ParseWrong(i) /\ dataThreads[i].pc = "parse" /\ dataThreads'[i].pc = "gave_up"
            \/ ConnectData(i) /\ dataThreads[i].pc = "woken" /\ dataThreads'[i].pc = "recv"
            \/ SaveData(i) /\ dataThreads[i].pc = "recv" /\ dataThreads'[i].pc = "done"
<1>1. UNCHANGED <<serverVars, request, replies, processVars>>
  BY DEF Parse, ParseWrong, WakeClientUnasked, ConnectData, SaveData, wireVars
<1>2. UNCHANGED <<up, server_pc, cfd, authStatus, dataCommand, threads, joined, request,
                  replies, client_pc, sentCommand>>
  BY <1>1 DEF serverVars, mainVars, sessionVars, threadVars, processVars
<1>3. dataThreads # <<>>
  BY Numbers
<1>4. CASE ConnectData(i)
  <2>1. /\ dataThreads' \in Seq(ClientThreads) /\ Len(dataThreads') = Len(dataThreads)
        /\ DOMAIN dataThreads' = DOMAIN dataThreads /\ dataThreads[i].pc = "woken"
        /\ dataThreads'[i].pc = "recv" /\ dataThreads'[i].got = dataThreads[i].got
        /\ \A j \in DOMAIN dataThreads :
             /\ dataThreads'[j].status = dataThreads[j].status
             /\ j # i => dataThreads'[j] = dataThreads[j]
    BY <1>4, Connecting
  <2>2. QED
    BY <1>2, <1>3, <1>4, <2>1
<1>5. CASE Parse(i)
  <2>1. dataThreads[i].pc = "parse" /\ dataThreads' = [dataThreads EXCEPT ![i].pc = "waiting"]
    BY <1>5 DEF Parse, ClientThreadAt
  <2>2. QED
    BY <1>2, <1>3, <1>5, <2>1, ClientThreadMoves
<1>6. CASE SaveData(i)
  <2>1. dataThreads[i].pc = "recv" /\ dataThreads' = [dataThreads EXCEPT ![i].pc = "done"]
    BY <1>6 DEF SaveData, ClientThreadAt
  <2>2. QED
    BY <1>2, <1>3, <1>6, <2>1, ClientThreadMoves
<1>7. CASE ParseWrong(i)
  <2>1. dataThreads[i].pc = "parse" /\ dataThreads' = [dataThreads EXCEPT ![i].pc = "gave_up"]
    BY <1>7 DEF ParseWrong, ClientThreadAt
  <2>2. QED
    BY <1>2, <1>3, <1>7, <2>1, ClientThreadMoves
<1>8. ~WakeClientUnasked(i)
  BY DEF WakeClientUnasked
<1>9. QED
  BY <1>4, <1>5, <1>6, <1>7, <1>8

\* A data thread that has given up stays until the client ends.
LEMMA UnderstoodBefore ==
  ASSUME TypeOK, "asked" \in assumed, [Next]_vars, Understood'
  PROVE  Understood \/ (dataThreads' = <<>> /\ client_pc' # "recv")
<1>1. CASE UNCHANGED dataThreads
  BY <1>1 DEF Understood
<1>2. ASSUME DOMAIN dataThreads \subseteq DOMAIN dataThreads',
             \A j \in DOMAIN dataThreads :
               dataThreads[j].pc = "gave_up" => dataThreads'[j].pc = "gave_up"
      PROVE  Understood
  BY <1>2 DEF Understood
<1>3. CASE ServerStep
  BY <1>1, <1>3, ClientIdle
<1>4. ASSUME NEW i \in DOMAIN threads, Transfer(i) PROVE Understood
  BY <1>2, <1>4, Transferring
<1>5. CASE Connect \/ Acknowledge \/ DataThreadEnds \/ ReceiveFinal \/ \E line \in Lines : SendLine(line)
  BY <1>1, <1>5 DEF Connect, Acknowledge, DataThreadEnds, ReceiveFinal, SendLine, dataVars
<1>6. CASE Departs
  BY <1>6 DEF Departs, Goes
<1>7. CASE CreateDataThread
  <2>1. DOMAIN dataThreads \subseteq DOMAIN dataThreads'
    BY <1>7, ThreadCreated, Numbers
  <2>2. QED
    BY <1>2, <1>7, <2>1, ThreadCreated
<1>8. CASE JoinDataThread
  <2>1. CASE dataThreads' = dataThreads
    BY <1>1, <2>1
  <2>2. ASSUME NEW i \in DOMAIN dataThreads, dataThreads[i].pc = "waiting",
               dataThreads' = [dataThreads EXCEPT ![i].pc = "woken"]
        PROVE  Understood
    BY <1>2, <2>2, ClientThreadMoves
  <2>3. dataThreads' \in Signalled(dataThreads)
    BY <1>8 DEF JoinDataThread
  <2>4. QED
    BY <2>1, <2>2, <2>3, SignalWakesOne
<1>9. ASSUME NEW i \in DOMAIN dataThreads,
             Parse(i) \/ ParseWrong(i) \/ WakeClientUnasked(i) \/ ConnectData(i) \/ SaveData(i)
      PROVE  Understood
  BY <1>2, <1>9, ClientThreadSteps
<1>10. QED
  BY <1>3, <1>4, <1>5, <1>6, <1>7, <1>8, <1>9, StepsByProcess DEF Callback

-----------------------------------------------------------------------------
(* At most one data thread of the client runs                              *)

\* A step that leaves the control points of the client alone.
LEMMA OneActiveStays ==
  ASSUME OneActive, TypeOK, client_pc' = client_pc \/ (client_pc # "join" /\ client_pc' # "join"),
         Len(dataThreads') = Len(dataThreads), DOMAIN dataThreads' = DOMAIN dataThreads,
         \A j \in DOMAIN dataThreads : dataThreads'[j].pc = dataThreads[j].pc
  PROVE  OneActive'
<1>1. \A j \in DOMAIN dataThreads : Active(j)' <=> Active(j)
  BY DEF Active
<1>2. dataThreads # <<>> => Newest(dataThreads)'.pc = Newest(dataThreads).pc
  BY NewestIsOne
<1>3. dataThreads = <<>> => DOMAIN dataThreads = {}
  BY Numbers
<1>4. QED
  BY <1>1, <1>2, <1>3 DEF OneActive

LEMMA OneActiveStep ==
  ASSUME Underway, Understood, [Next]_vars
  PROVE  OneActive'
<1>1. TypeOK /\ OneActive /\ Counted
  BY DEF Underway, Asked
<1>2. CASE ServerStep
  BY <1>1, <1>2, ClientIdle, OneActiveStays
<1>3. ASSUME NEW i \in DOMAIN threads, Transfer(i) PROVE OneActive'
  <2>1. client_pc' = client_pc
    BY <1>3 DEF Transfer, processVars
  <2>2. QED
    BY <1>1, <1>3, <2>1, Transferring, OneActiveStays
<1>4. CASE Connect \/ \E line \in Lines : SendLine(line)
  <2>1. client_pc # "join" /\ client_pc' # "join" /\ dataThreads' = dataThreads
    BY <1>4 DEF Connect, SendLine, dataVars
  <2>2. QED
    BY <1>1, <2>1, OneActiveStays
<1>5. CASE Departs
  <2>1. dataThreads' = <<>> /\ DOMAIN dataThreads' = {}
    BY <1>5 DEF Departs, Goes
  <2>2. QED
    BY <2>1 DEF OneActive
<1>6. CASE Acknowledge \/ ReceiveFinal
  <2>1. client_pc # "join" /\ client_pc' # "join" /\ dataThreads' = dataThreads
    BY <1>6 DEF Acknowledge, ReceiveFinal, Reads, dataVars
  <2>2. QED
    BY <1>1, <2>1, OneActiveStays
<1>7. CASE DataThreadEnds
  <2>1. Newest(dataThreads).pc \in {"done", "gave_up"} /\ dataThreads' = dataThreads
    BY <1>7 DEF DataThreadEnds, dataVars, Newest
  <2>2. dataThreads # <<>> => Newest(dataThreads).pc = "done"
    BY <1>1, <2>1, NewestIsOne DEF Understood
  <2>3. \A i \in DOMAIN dataThreads : ~Active(i)
    BY <1>1, <2>2, ActiveInJoin, Numbers
  <2>4. \A i \in DOMAIN dataThreads' : ~Active(i)'
    BY <2>1, <2>3 DEF Active
  <2>5. QED
    BY <2>4 DEF OneActive
<1>8. CASE CreateDataThread
  <2>1. \A i \in DOMAIN dataThreads : ~Active(i)
    BY <1>1, <1>8 DEF OneActive, CreateDataThread, Reads
  <2>2. ASSUME NEW i \in DOMAIN dataThreads' PROVE ~Active(i)'
    <3>1. CASE i \in DOMAIN dataThreads
      BY <1>1, <1>8, <2>1, <3>1, ThreadCreated DEF Active
    <3>2. CASE i \notin DOMAIN dataThreads
      <4>1. i = Len(dataThreads')
        BY <1>1, <1>8, <3>2, ThreadCreated, Numbers
      <4>2. dataThreads'[i].pc = "parse"
        BY <1>1, <1>8, <4>1, ThreadCreated DEF Newest
      <4>3. QED
        BY <4>2 DEF Active
    <3>3. QED
      BY <3>1, <3>2
  <2>3. QED
    BY <2>2 DEF OneActive
<1>9. CASE JoinDataThread
  <2>1. \A i \in DOMAIN dataThreads : ~Active(i)
    BY <1>1, <1>9, Joining DEF OneActive
  <2>2. client_pc' = "join" /\ dataThreads # <<>> /\ Len(dataThreads') = Len(dataThreads)
    BY <1>9, Joining
  <2>3. Newest(dataThreads).pc \in Unused
        /\ Newest(dataThreads) = dataThreads[Len(dataThreads)]
        /\ Newest(dataThreads)' = dataThreads'[Len(dataThreads)]
        /\ Len(dataThreads) \in DOMAIN dataThreads
    BY <1>1, <1>9, <2>2, Joining, NewestIsOne
  <2>4. CASE dataThreads' = dataThreads
    <3>1. \A i \in DOMAIN dataThreads' : ~Active(i)'
      BY <2>1, <2>4 DEF Active
    <3>2. QED
      BY <2>2, <3>1 DEF OneActive
  <2>5. ASSUME NEW i \in DOMAIN dataThreads, dataThreads'[i].pc = "woken",
               \A j \in DOMAIN dataThreads : j # i => dataThreads'[j].pc = dataThreads[j].pc
        PROVE  OneActive'
    <3>1. \A j \in DOMAIN dataThreads : Active(j)' => j = i
      BY <2>1, <2>5 DEF Active
    <3>2. Newest(dataThreads)'.pc # "done"
      BY <2>3, <2>5 DEF Unused
    <3>3. DOMAIN dataThreads' = DOMAIN dataThreads
      BY <1>9, Joining
    <3>4. QED
      BY <2>2, <3>1, <3>2, <3>3 DEF OneActive
  <2>6. QED
    BY <1>9, <2>4, <2>5, Joining
<1>10. ASSUME NEW i \in DOMAIN dataThreads,
              Parse(i) \/ ParseWrong(i) \/ WakeClientUnasked(i) \/ ConnectData(i) \/ SaveData(i)
       PROVE  OneActive'
  <2>1. "asked" \in assumed
    BY DEF Underway
  <2>2. /\ DOMAIN dataThreads' = DOMAIN dataThreads /\ Len(dataThreads') = Len(dataThreads)
        /\ dataThreads # <<>> /\ client_pc' = client_pc
        /\ \A j \in DOMAIN dataThreads : j # i => dataThreads'[j].pc = dataThreads[j].pc
        /\ \/ dataThreads[i].pc = "parse" /\ dataThreads'[i].pc \in {"waiting", "gave_up"}
           \/ dataThreads[i].pc = "woken" /\ dataThreads'[i].pc = "recv"
           \/ dataThreads[i].pc = "recv" /\ dataThreads'[i].pc = "done"
    BY <1>1, <1>10, <2>1, ClientThreadSteps
  <2>3. Newest(dataThreads) = dataThreads[Len(dataThreads)]
        /\ Newest(dataThreads)' = dataThreads'[Len(dataThreads)]
        /\ Len(dataThreads) \in DOMAIN dataThreads
    BY <1>1, <2>2, NewestIsOne
  <2>4. \A j \in DOMAIN dataThreads : Active(j)' => Active(j)
    BY <2>2 DEF Active
  <2>5. (\E j \in DOMAIN dataThreads : Active(j)') => Newest(dataThreads)'.pc # "done"
    <3>1. SUFFICES ASSUME NEW j \in DOMAIN dataThreads, Active(j)'
                   PROVE  dataThreads'[Len(dataThreads)].pc # "done"
      BY <2>3
    <3>2. dataThreads[Len(dataThreads)].pc # "done"
      BY <2>3, <2>4, <3>1, ActiveInJoin
    <3>3. CASE dataThreads'[i].pc = "done"
      <4>1. Active(i) /\ ~Active(i)' /\ Active(j)
        BY <2>2, <2>4, <3>1, <3>3 DEF Active
      <4>2. i = j
        BY <4>1, ActiveInJoin
      <4>3. QED
        BY <3>1, <4>1, <4>2
    <3>4. CASE dataThreads'[i].pc # "done"
      BY <2>2, <2>3, <3>2, <3>4
    <3>5. QED
      BY <3>3, <3>4
  <2>6. QED
    BY <1>1, <2>2, <2>4, <2>5 DEF OneActive
<1>11. QED
  BY <1>1, <1>2, <1>3, <1>4, <1>5, <1>6, <1>7, <1>8, <1>9, <1>10, StepsByProcess DEF Callback

-----------------------------------------------------------------------------
(* Server and client mean the same transfer                                *)

LEMMA OpenedOrAnswered ==
  /\ (Answered \/ replies = <<>>) => ~TransferOpened
  /\ (Answered' \/ replies' = <<>>) => ~TransferOpened'
  /\ (OpenedOnly \/ OpenedAndEnded) <=> TransferOpened
  /\ (OpenedOnly' \/ OpenedAndEnded') <=> TransferOpened'
<1>1. Len(<<>>) = 0
  BY NoItems
<1>2. QED
  BY <1>1 DEF Answered, OpenedOnly, OpenedAndEnded, TransferOpened

\* A line is answered: what becomes of the transfer, if there was a client.
LEMMA AnsweredLine ==
  ASSUME Underway, Quiet \/ Pasv \/ Port
  PROVE  /\ UNCHANGED <<up, cfd, server_pc, dataCommand, pending>>
         /\ cfd = "client" => Answered' /\ client_pc = "recv"
<1>1. TypeOK /\ Conversation
  BY DEF Underway
<1>2. /\ 200 \in Statuses \ {150} /\ 400 \in Statuses \ {150} /\ 227 \in Statuses \ {150}
      /\ 0 \in Int
  BY NoPort DEF Statuses
<1>3. Answering
  BY <1>1, QuietAnswers, PasvAnswers, PortAnswers DEF TypeOK
<1>4. \E status \in Statuses \ {150}, port \in Int : Send(status, port)
  <2>1. CASE Quiet
    BY <1>1, <1>2, <2>1, QuietAnswers DEF TypeOK
  <2>2. CASE Pasv
    BY <1>1, <1>2, <2>2, PasvAnswers
  <2>3. CASE Port
    BY <1>1, <1>2, <2>3, PortAnswers
  <2>4. QED
    BY <2>1, <2>2, <2>3
<1>5. UNCHANGED <<up, cfd, server_pc, dataCommand, pending>>
  BY <1>3 DEF Answering, mainVars
<1>6. QED
  BY <1>1, <1>3, <1>4, <1>5, AnsweringConverses

LEMMA SameCommandStep ==
  ASSUME Underway, [Next]_vars
  PROVE  SameCommand'
<1>1. TypeOK /\ Counted /\ Conversation /\ SameCommand /\ "asked" \in assumed
  BY DEF Underway, Asked, CommandsMatch, SameCommand
<1>2. CASE UNCHANGED <<up, cfd, client_pc, replies, dataCommand, sentCommand>>
  BY <1>1, <1>2, RepliesStay DEF SameCommand
<1>3. CASE ServerStep
  <2>1. UNCHANGED <<client_pc, sentCommand>>
    BY <1>3, ClientIdle
  <2>2. CASE UNCHANGED vars
    BY <1>2, <2>1, <2>2 DEF vars, serverVars, mainVars, sessionVars, wireVars
  <2>3. CASE Crash
    BY <2>3 DEF Crash, SameCommand
  <2>4. CASE Quiet \/ Pasv \/ Port
    BY <2>1, <2>4, AnsweredLine, OpenedOrAnswered DEF SameCommand
  <2>5. CASE StartTransfer
    <3>1. dataCommand' = request.command /\ UNCHANGED <<up, cfd>>
      BY <2>5 DEF StartTransfer, Executes, CommandSet
    <3>2. cfd = "client" => request.command = sentCommand
      BY <1>1, <2>5, StartConverses
    <3>3. QED
      BY <2>1, <3>1, <3>2 DEF SameCommand
  <2>6. CASE EndTransfer
    <3>1. UNCHANGED <<up, cfd, dataCommand>>
      BY <2>6 DEF EndTransfer
    <3>2. cfd = "client" => client_pc \in {"join", "final"} \/ TransferOpened
      BY <1>1, <2>6, EndConverses, OpenedOrAnswered
    <3>3. QED
      BY <1>1, <2>1, <3>1, <3>2 DEF SameCommand
  <2>7. CASE AcceptClient
    <3>1. client_pc = "recv" /\ replies' = <<[status |-> 220, port |-> 0]>>
      BY <2>7 DEF AcceptClient
    <3>2. Len(replies') = 1 /\ ~Opening(replies'[1].status)
      BY <3>1, Openings DEF Statuses
    <3>3. ~TransferOpened'
      BY <3>2, OpenedOrAnswered DEF Answered
    <3>4. QED
      BY <2>1, <3>1, <3>3 DEF SameCommand
  <2>8. CASE RecvError
    BY <2>8 DEF RecvError, SameCommand
  <2>9. ASSUME NEW i \in DOMAIN threads, Prepares(i) PROVE SameCommand'
    BY <1>1, <1>2, <2>9, Preparing
       DEF mainVars, sessionVars, wireVars, clientVars, processVars
  <2>10. QED
    BY <1>3, <2>2, <2>3, <2>4, <2>5, <2>6, <2>7, <2>8, <2>9 DEF ServerStep
<1>4. ASSUME NEW i \in DOMAIN threads, Transfer(i) PROVE SameCommand'
  BY <1>2, <1>4 DEF Transfer, mainVars, sessionVars, processVars
<1>5. CASE Connect
  <2>1. UNCHANGED <<up, cfd, replies>> /\ client_pc' = "recv"
        /\ client_pc \in {"off", "left", "exited"}
    BY <1>5 DEF Connect, serverVars, mainVars, wireVars
  <2>2. cfd' = "client" => ~up'
    BY <1>1, <2>1 DEF Conversation, Turn
  <2>3. QED
    BY <2>2 DEF SameCommand
<1>6. ASSUME NEW line \in Lines, SendLine(line) PROVE SameCommand'
  <2>1. client_pc = "prompt" /\ client_pc' \in {"recv", "exited"} /\ replies' = replies
    BY <1>6 DEF SendLine
  <2>2. replies' = <<>>
    BY <1>1, <2>1 DEF Conversation, RepliesFit
  <2>3. QED
    BY <2>1, <2>2, OpenedOrAnswered DEF SameCommand
<1>7. CASE Acknowledge \/ CreateDataThread \/ ReceiveFinal
  <2>1. client_pc' = "prompt"
    BY <1>7 DEF Acknowledge, CreateDataThread, ReceiveFinal
  <2>2. Conversation'
    BY <1>1, <1>7, CallbackConverses DEF Callback
  <2>3. replies' = <<>>
    BY <2>1, <2>2 DEF Conversation, RepliesFit
  <2>4. QED
    BY <2>1, <2>3, OpenedOrAnswered DEF SameCommand
<1>8. CASE JoinDataThread
  <2>1. UNCHANGED <<up, cfd, dataCommand, sentCommand>> /\ TransferOpened
    BY <1>8, Joining DEF JoinDataThread, serverVars, mainVars, sessionVars
  <2>2. QED
    BY <1>1, <2>1 DEF SameCommand
<1>9. CASE DataThreadEnds
  <2>1. UNCHANGED <<up, cfd, dataCommand, sentCommand>> /\ client_pc = "join"
    BY <1>9 DEF DataThreadEnds, serverVars, mainVars, sessionVars
  <2>2. QED
    BY <1>1, <2>1 DEF SameCommand
<1>10. CASE Departs
  BY <1>10 DEF Departs, Goes, SameCommand
<1>11. ASSUME NEW i \in DOMAIN dataThreads,
              Parse(i) \/ ParseWrong(i) \/ WakeClientUnasked(i) \/ ConnectData(i) \/ SaveData(i)
       PROVE  SameCommand'
  BY <1>1, <1>2, <1>11, ClientThreadSteps
<1>12. QED
  BY <1>1, <1>3, <1>4, <1>5, <1>6, <1>7, <1>8, <1>9, <1>10, <1>11, StepsByProcess DEF Callback

LEMMA CommandKnownStep ==
  ASSUME Underway, [Next]_vars
  PROVE  CommandKnown'
<1>1. TypeOK /\ Counted /\ Conversation /\ CommandKnown /\ SameCommand /\ "asked" \in assumed
  BY DEF Underway, Asked, CommandsMatch
<1>2. ASSUME UNCHANGED <<up, dataCommand>>, pending' \subseteq pending,
             \A i \in DOMAIN dataThreads' : Active(i)' => i \in DOMAIN dataThreads /\ Active(i)
      PROVE  CommandKnown'
  BY <1>1, <1>2 DEF CommandKnown
<1>3. CASE UNCHANGED <<up, dataCommand, pending, dataThreads>>
  BY <1>2, <1>3 DEF Active
<1>4. CASE ServerStep
  <2>1. UNCHANGED dataThreads
    BY <1>4, ClientIdle
  <2>2. CASE UNCHANGED vars
    BY <1>3, <2>1, <2>2 DEF vars, serverVars, sessionVars, wireVars
  <2>3. CASE Crash
    BY <2>3 DEF Crash, CommandKnown
  <2>4. CASE Quiet \/ Pasv \/ Port
    BY <1>3, <2>1, <2>4, AnsweredLine
  <2>5. CASE StartTransfer
    BY <2>5 DEF StartTransfer, CommandSet, CommandKnown
  <2>6. CASE EndTransfer \/ AcceptClient \/ RecvError
    BY <1>3, <2>1, <2>6 DEF EndTransfer, AcceptClient, RecvError, sessionVars
  <2>7. ASSUME NEW i \in DOMAIN threads, Prepares(i) PROVE CommandKnown'
    BY <1>1, <1>3, <2>1, <2>7, Preparing DEF sessionVars, wireVars
  <2>8. QED
    BY <1>4, <2>2, <2>3, <2>4, <2>5, <2>6, <2>7 DEF ServerStep
<1>5. ASSUME NEW i \in DOMAIN threads, Transfer(i) PROVE CommandKnown'
  BY <1>1, <1>2, <1>5, Transferring DEF Active, sessionVars
<1>6. CASE Connect \/ Acknowledge \/ DataThreadEnds \/ ReceiveFinal
  BY <1>3, <1>6 DEF Connect, Acknowledge, DataThreadEnds, ReceiveFinal, serverVars, sessionVars,
     wireVars, dataVars
<1>7. CASE CreateDataThread
  <2>1. UNCHANGED <<up, dataCommand, pending>>
    BY <1>7 DEF CreateDataThread, serverVars, sessionVars
  <2>2. ASSUME NEW i \in DOMAIN dataThreads', i \notin DOMAIN dataThreads
        PROVE  dataThreads'[i].pc = "parse"
    <3>1. i = Len(dataThreads')
      BY <1>1, <1>7, <2>2, ThreadCreated, Numbers
    <3>2. QED
      BY <1>1, <1>7, <3>1, ThreadCreated DEF Newest
  <2>3. \A i \in DOMAIN dataThreads : dataThreads'[i] = dataThreads[i]
    BY <1>1, <1>7, ThreadCreated
  <2>4. QED
    BY <1>2, <2>1, <2>2, <2>3 DEF Active
<1>8. CASE JoinDataThread
  <2>1. TransferOpened /\ dataCommand' = dataCommand /\ up' = up
        /\ sentCommand \in Transfers
    BY <1>8, Joining DEF JoinDataThread, serverVars, sessionVars, Transfers
  <2>2. up => cfd = "client"
    BY <1>1, <1>8, CallbackConverses DEF Callback
  <2>3. QED
    BY <1>1, <2>1, <2>2 DEF SameCommand, CommandKnown, Transfers
<1>9. ASSUME NEW line \in Lines, SendLine(line) PROVE CommandKnown'
  BY <1>3, <1>9 DEF SendLine, serverVars, sessionVars, dataVars
<1>10. CASE Departs
  BY <1>2, <1>10 DEF Departs, Goes, sessionVars
<1>11. ASSUME NEW i \in DOMAIN dataThreads,
              Parse(i) \/ ParseWrong(i) \/ WakeClientUnasked(i) \/ ConnectData(i) \/ SaveData(i)
       PROVE  CommandKnown'
  <2>1. UNCHANGED <<up, dataCommand>> /\ DOMAIN dataThreads' = DOMAIN dataThreads
        /\ \A j \in DOMAIN dataThreads : Active(j)' => Active(j)
    BY <1>1, <1>11, ClientThreadSteps DEF Active
  <2>2. CASE pending' = pending
    BY <1>2, <2>1, <2>2
  <2>3. CASE ConnectData(i)
    <3>1. Active(i) /\ up
      BY <1>1, <2>3, Connecting DEF Active
    <3>2. QED
      BY <1>1, <2>1, <3>1 DEF CommandKnown
  <2>4. QED
    BY <1>11, <2>2, <2>3 DEF Parse, ParseWrong, WakeClientUnasked, SaveData, wireVars
<1>12. QED
  BY <1>1, <1>4, <1>5, <1>6, <1>7, <1>8, <1>9, <1>10, <1>11, StepsByProcess DEF Callback

\* A thread of the server transfers only when it has been told what.
LEMMA NoneFailedStep ==
  ASSUME Underway, [Next]_vars
  PROVE  NoneFailed'
<1>1. TypeOK /\ Counted /\ Conversation /\ CommandKnown /\ NoneFailed
  BY DEF Underway, Asked, CommandsMatch
<1>2. CASE UNCHANGED threads
  BY <1>1, <1>2 DEF NoneFailed
<1>3. ASSUME NEW port \in Int, SelectsMode(port), assumed' = assumed PROVE NoneFailed'
  <2>1. /\ ThreadsTypeOK' /\ Len(threads') = Len(threads) + 1
        /\ threads'[Len(threads')].pc = "bind"
        /\ \A i \in DOMAIN threads : threads'[i] = threads[i]
    BY <1>1, <1>3, SelectTyped DEF Newest
  <2>2. DOMAIN threads' = 1..Len(threads') /\ DOMAIN threads = 1..Len(threads)
        /\ Len(threads) \in Nat
    BY <1>1, <2>1, Numbers DEF ThreadsTypeOK
  <2>3. \A i \in DOMAIN threads' : i \in DOMAIN threads \/ i = Len(threads')
    BY <2>1, <2>2
  <2>4. QED
    BY <1>1, <2>1, <2>3 DEF NoneFailed
<1>4. CASE ServerStep
  <2>1. assumed' = assumed
    BY <1>4, ClientIdle
  <2>2. CASE UNCHANGED vars
    BY <1>2, <2>2 DEF vars, serverVars, threadVars
  <2>3. CASE Crash
    BY <2>3 DEF Crash, NoneFailed
  <2>4. CASE Quiet
    BY <1>1, <1>2, <2>4, QuietAnswers DEF TypeOK, threadVars
  <2>5. CASE Pasv
    BY <1>1, <1>3, <2>1, <2>5, PasvAnswers
  <2>6. CASE Port
    BY <1>1, <1>2, <1>3, <2>1, <2>6, PortAnswers DEF threadVars
  <2>7. CASE StartTransfer
    <3>1. threads' \in Signalled(threads)
      BY <2>7 DEF StartTransfer
    <3>2. QED
      BY <1>1, <2>1, <3>1, ServerSignal DEF NoneFailed
  <2>8. CASE EndTransfer \/ AcceptClient \/ RecvError
    BY <1>2, <2>8 DEF EndTransfer, AcceptClient, RecvError, threadVars
  <2>9. ASSUME NEW i \in DOMAIN threads, Prepares(i) PROVE NoneFailed'
    <3>1. \A j \in DOMAIN threads' : threads'[j].pc # "failed"
      BY <1>1, <2>9, Preparing DEF NoneFailed
    <3>2. QED
      BY <3>1 DEF NoneFailed
  <2>10. QED
    BY <1>4, <2>2, <2>3, <2>4, <2>5, <2>6, <2>7, <2>8, <2>9 DEF ServerStep
<1>5. ASSUME NEW i \in DOMAIN threads, Transfer(i) PROVE NoneFailed'
  <2>1. dataCommand # "unknown"
    BY <1>1, <1>5, Transferring DEF CommandKnown
  <2>2. \A j \in DOMAIN threads' : threads'[j].pc # "failed"
    BY <1>1, <1>5, <2>1, Transferring DEF NoneFailed
  <2>3. QED
    BY <2>2 DEF NoneFailed
<1>6. CASE Connect \/ Callback
  BY <1>2, <1>6 DEF Connect, Callback, Acknowledge, CreateDataThread, JoinDataThread,
     DataThreadEnds, ReceiveFinal, serverVars, threadVars
<1>7. CASE Departs \/ \E line \in Lines : SendLine(line)
  BY <1>2, <1>7 DEF Departs, Goes, SendLine, serverVars, threadVars
<1>8. ASSUME NEW i \in DOMAIN dataThreads,
             Parse(i) \/ ParseWrong(i) \/ WakeClientUnasked(i) \/ ConnectData(i) \/ SaveData(i)
      PROVE  NoneFailed'
  BY <1>2, <1>8 DEF Parse, ParseWrong, WakeClientUnasked, ConnectData, SaveData, serverVars, threadVars
<1>9. QED
  BY <1>1, <1>4, <1>5, <1>6, <1>7, <1>8, StepsByProcess

\* A data thread holds nothing before it has connected; then it holds nothing or
\* what main asked for.
LEMMA GotStep ==
  ASSUME Underway, [Next]_vars
  PROVE  NothingYet' /\ DataIsWhatWasAsked'
<1> DEFINE Got(i) == dataThreads[i].pc = "recv" => dataThreads[i].got \in {"nothing", sentCommand}
<1>1. /\ TypeOK /\ Counted /\ Conversation /\ NothingYet /\ "asked" \in assumed
      /\ assumed' = assumed
  BY AssumedStays DEF Underway, Asked, CommandsMatch
<1>2. Understood => OneActive /\ \A i \in DOMAIN dataThreads : Got(i)
  BY DEF Underway, Asked, DataIsWhatWasAsked
<1>3. SUFFICES NothingYet' /\ (Understood => \A i \in DOMAIN dataThreads' : Got(i)')
  <2>1. dataThreads' = <<>> => DataIsWhatWasAsked'
    BY DEF DataIsWhatWasAsked
  <2>2. Understood' => Understood \/ dataThreads' = <<>>
    BY <1>1, UnderstoodBefore
  <2>3. QED
    BY <1>1, <2>1, <2>2 DEF DataIsWhatWasAsked
<1>4. CASE UNCHANGED <<dataThreads, sentCommand>>
  BY <1>1, <1>2, <1>4 DEF NothingYet
<1>5. CASE ServerStep
  BY <1>4, <1>5, ClientIdle
<1>6. ASSUME NEW i \in DOMAIN threads, Transfer(i)
      PROVE  NothingYet' /\ (Understood => \A j \in DOMAIN dataThreads' : Got(j)')
  <2>1. /\ up /\ DOMAIN dataThreads' = DOMAIN dataThreads /\ sentCommand' = sentCommand
        /\ \A t \in DOMAIN dataThreads :
             /\ dataThreads'[t].pc = dataThreads[t].pc
             /\ dataThreads'[t].got \in {dataThreads[t].got, dataCommand}
             /\ dataThreads[t].pc # "recv" => dataThreads'[t].got = dataThreads[t].got
    BY <1>1, <1>6, Transferring DEF processVars
  <2>2. NothingYet'
    BY <1>1, <2>1 DEF NothingYet
  <2>3. ASSUME Understood, NEW t \in DOMAIN dataThreads, dataThreads[t].pc = "recv"
        PROVE  dataCommand = sentCommand
    BY <2>1, <2>3, ActiveInJoin DEF Active
  <2>4. QED
    BY <1>2, <2>1, <2>2, <2>3
<1>7. CASE Connect \/ \E line \in Lines : SendLine(line)
  <2>1. client_pc # "join" /\ dataThreads' = dataThreads
    BY <1>7 DEF Connect, SendLine, dataVars
  <2>2. Understood => \A i \in DOMAIN dataThreads : dataThreads[i].pc # "recv"
    BY <1>2, <2>1 DEF OneActive, Active
  <2>3. QED
    BY <1>1, <2>1, <2>2 DEF NothingYet
<1>8. CASE Departs
  <2>1. dataThreads' = <<>> /\ DOMAIN dataThreads' = {}
    BY <1>8 DEF Departs, Goes
  <2>2. QED
    BY <2>1 DEF NothingYet
<1>9. CASE Acknowledge \/ DataThreadEnds \/ ReceiveFinal
  BY <1>4, <1>9 DEF Acknowledge, DataThreadEnds, ReceiveFinal, dataVars
<1>10. CASE CreateDataThread
  <2>1. sentCommand' = sentCommand
    BY <1>10 DEF CreateDataThread
  <2>2. ASSUME NEW i \in DOMAIN dataThreads', i \notin DOMAIN dataThreads
        PROVE  dataThreads'[i].pc = "parse" /\ dataThreads'[i].got = "nothing"
    <3>1. i = Len(dataThreads')
      BY <1>1, <1>10, <2>2, ThreadCreated, Numbers
    <3>2. QED
      BY <1>1, <1>10, <3>1, ThreadCreated DEF Newest
  <2>3. \A i \in DOMAIN dataThreads : dataThreads'[i] = dataThreads[i]
    BY <1>1, <1>10, ThreadCreated
  <2>4. QED
    BY <1>1, <1>2, <2>1, <2>2, <2>3 DEF NothingYet
<1>11. CASE JoinDataThread
  <2>1. sentCommand' = sentCommand /\ DOMAIN dataThreads' = DOMAIN dataThreads
        /\ \/ dataThreads' = dataThreads
           \/ \E i \in DOMAIN dataThreads :
                /\ dataThreads[i].pc = "waiting" /\ dataThreads'[i].pc = "woken"
                /\ \A j \in DOMAIN dataThreads :
                     /\ dataThreads'[j].got = dataThreads[j].got
                     /\ j # i => dataThreads'[j].pc = dataThreads[j].pc
    BY <1>11, Joining
  <2>2. QED
    BY <1>1, <1>2, <2>1 DEF NothingYet
<1>12. ASSUME NEW i \in DOMAIN dataThreads,
              Parse(i) \/ ParseWrong(i) \/ WakeClientUnasked(i) \/ ConnectData(i) \/ SaveData(i)
       PROVE  NothingYet' /\ (Understood => \A j \in DOMAIN dataThreads' : Got(j)')
  <2>1. /\ DOMAIN dataThreads' = DOMAIN dataThreads /\ sentCommand' = sentCommand
        /\ dataThreads'[i].got = dataThreads[i].got
        /\ \A j \in DOMAIN dataThreads :
             j # i => /\ dataThreads'[j].pc = dataThreads[j].pc
                      /\ dataThreads'[j].got = dataThreads[j].got
        /\ \/ dataThreads[i].pc = "parse" /\ dataThreads'[i].pc \in {"waiting", "gave_up"}
           \/ dataThreads[i].pc = "woken" /\ dataThreads'[i].pc = "recv"
           \/ dataThreads[i].pc = "recv" /\ dataThreads'[i].pc = "done"
    BY <1>1, <1>12, ClientThreadSteps
  <2>2. QED
    BY <1>1, <1>2, <2>1 DEF NothingYet
<1>13. QED
  BY <1>1, <1>5, <1>6, <1>7, <1>8, <1>9, <1>10, <1>11, <1>12, StepsByProcess DEF Callback

\* A server's thread is joined as long as main knows of it, and once.
LEMMA JoinedOnceStep ==
  ASSUME Underway, [Next]_vars
  PROVE  JoinedOnce'
<1> DEFINE Free == server_pc = "join" \/ authStatus = "MODESELECTED" => threads # <<>> /\ ~joined
<1>1. /\ TypeOK /\ Counted /\ Conversation /\ NoneFailed /\ "asked" \in assumed
      /\ assumed' = assumed /\ Free
  BY AssumedStays DEF Underway, Asked, CommandsMatch, JoinedOnce
<1>2. SUFFICES Free'
  BY <1>1 DEF JoinedOnce
<1>3. CASE UNCHANGED <<server_pc, authStatus, threads, joined>>
  BY <1>1, <1>3
<1>4. ASSUME Len(threads') = Len(threads), threads' \in Seq(ServerThreads') PROVE threads # <<>> => threads' # <<>>
  <2>1. threads' = <<>> => Len(threads') = 0
    BY NoItems
  <2>2. QED
    BY <1>1, <1>4, <2>1, Numbers
<1>5. CASE ServerStep
  <2>1. CASE UNCHANGED vars
    BY <1>3, <2>1 DEF vars, serverVars, mainVars, sessionVars, threadVars
  <2>2. CASE Crash
    BY <2>2 DEF Crash
  <2>3. CASE Quiet
    <3>1. server_pc' = server_pc /\ (authStatus' = "MODESELECTED" => authStatus = "MODESELECTED")
          /\ UNCHANGED <<threads, joined>>
      BY <1>1, <2>3, QuietAnswers DEF TypeOK, Answering, mainVars, threadVars
    <3>2. QED
      BY <1>1, <3>1
  <2>4. ASSUME NEW port \in Int, SelectsMode(port) PROVE Free'
    BY <1>1, <2>4, SelectTyped DEF SelectsMode
  <2>5. CASE Pasv
    BY <1>1, <2>4, <2>5, PasvAnswers
  <2>6. CASE Port
    <3>1. server_pc' = server_pc
      BY <2>6 DEF Port, mainVars
    <3>2. QED
      BY <1>1, <1>3, <2>4, <2>6, <3>1, PortAnswers DEF threadVars
  <2>7. CASE StartTransfer
    <3>1. /\ authStatus = "MODESELECTED" /\ joined' = joined /\ threads' \in Signalled(threads)
      BY <2>7 DEF StartTransfer
    <3>2. Len(threads') = Len(threads) /\ threads' \in Seq(ServerThreads')
      BY <1>1, <3>1, ServerSignal
    <3>3. QED
      BY <1>1, <1>4, <3>1, <3>2
  <2>8. CASE EndTransfer
    <3>1. threads[Len(threads)].pc # "failed"
      <4>1. threads # <<>>
        BY <1>1, <2>8 DEF EndTransfer
      <4>2. Len(threads) \in DOMAIN threads
        BY <1>1, <4>1, Numbers
      <4>3. QED
        BY <1>1, <4>2 DEF NoneFailed
    <3>2. authStatus' = "LOGGEDIN" /\ server_pc' = "recv"
      BY <2>8, <3>1 DEF EndTransfer, AfterTransfer
    <3>3. QED
      BY <3>2
  <2>9. CASE AcceptClient
    <3>1. server_pc' = "recv" /\ UNCHANGED <<authStatus, threads, joined>>
      BY <2>9 DEF AcceptClient, sessionVars, threadVars
    <3>2. QED
      BY <1>1, <3>1
  <2>10. CASE RecvError
    <3>1. server_pc' = "accept" /\ UNCHANGED <<authStatus, threads, joined>>
      BY <2>10 DEF RecvError, sessionVars, threadVars
    <3>2. QED
      BY <1>1, <3>1
  <2>11. ASSUME NEW i \in DOMAIN threads, Prepares(i) PROVE Free'
    <3>1. UNCHANGED <<server_pc, authStatus, joined>> /\ Len(threads') = Len(threads)
          /\ threads' \in Seq(ServerThreads')
      BY <1>1, <2>11, Preparing DEF mainVars, sessionVars, ThreadsTypeOK
    <3>2. QED
      BY <1>1, <1>4, <3>1
  <2>12. QED
    BY <1>5, <2>1, <2>2, <2>3, <2>5, <2>6, <2>7, <2>8, <2>9, <2>10, <2>11 DEF ServerStep
<1>6. ASSUME NEW i \in DOMAIN threads, Transfer(i) PROVE Free'
  <2>1. UNCHANGED <<server_pc, authStatus, joined>> /\ Len(threads') = Len(threads)
        /\ threads' \in Seq(ServerThreads')
    BY <1>1, <1>6, Transferring DEF mainVars, sessionVars, ThreadsTypeOK
  <2>2. QED
    BY <1>1, <1>4, <2>1
<1>7. CASE Connect \/ Callback
  BY <1>3, <1>7 DEF Connect, Callback, Acknowledge, CreateDataThread, JoinDataThread,
     DataThreadEnds, ReceiveFinal, serverVars, mainVars, sessionVars, threadVars
<1>8. CASE Departs \/ \E line \in Lines : SendLine(line)
  BY <1>3, <1>8 DEF Departs, Goes, SendLine, serverVars, mainVars, sessionVars, threadVars
<1>9. ASSUME NEW i \in DOMAIN dataThreads,
             Parse(i) \/ ParseWrong(i) \/ WakeClientUnasked(i) \/ ConnectData(i) \/ SaveData(i)
      PROVE  Free'
  BY <1>3, <1>9 DEF Parse, ParseWrong, WakeClientUnasked, ConnectData, SaveData, serverVars, mainVars,
     sessionVars, threadVars
<1>10. QED
  BY <1>1, <1>5, <1>6, <1>7, <1>8, <1>9, StepsByProcess

-----------------------------------------------------------------------------
(* A mode that is selected has not been used on either side                *)

LEMMA FreshStays ==
  ASSUME Underway, Fresh, NEW i \in DOMAIN dataThreads,
         Parse(i) \/ ParseWrong(i) \/ WakeClientUnasked(i) \/ ConnectData(i) \/ SaveData(i)
  PROVE  Fresh'
<1>1. TypeOK /\ "asked" \in assumed
  BY DEF Underway
<1>2. /\ dataThreads # <<>> /\ Len(dataThreads') = Len(dataThreads)
      /\ \A j \in DOMAIN dataThreads : j # i => dataThreads'[j].pc = dataThreads[j].pc
      /\ \/ dataThreads[i].pc = "parse" /\ dataThreads'[i].pc \in Unused
         \/ dataThreads[i].pc \in {"woken", "recv"}
  BY <1>1, ClientThreadSteps DEF Unused
<1>3. /\ Newest(dataThreads) = dataThreads[Len(dataThreads)]
      /\ Newest(dataThreads)' = dataThreads'[Len(dataThreads)]
      /\ Len(dataThreads) \in DOMAIN dataThreads
  BY <1>1, <1>2, NewestIsOne
<1>4. CASE dataThreads[i].pc \in {"woken", "recv"}
  BY <1>2, <1>3, <1>4 DEF Fresh, Unused
<1>5. CASE dataThreads[i].pc = "parse" /\ dataThreads'[i].pc \in Unused
  BY <1>2, <1>3, <1>5 DEF Fresh
<1>6. QED
  BY <1>2, <1>4, <1>5

LEMMA ModeIsFreshStep ==
  ASSUME Underway, [Next]_vars
  PROVE  ModeIsFresh'
<1>1. TypeOK /\ Counted /\ Conversation /\ ModeIsFresh /\ NoneFailed /\ "asked" \in assumed
  BY DEF Underway, Asked, CommandsMatch
<1>2. CASE UNCHANGED <<up, server_pc, cfd, authStatus, replies, client_pc, sentCommand>>
           /\ ((client_pc # "join" /\ Fresh) => Fresh')
  <2>1. NoModeAsked' = NoModeAsked /\ (NoModeAsked => client_pc # "join")
    BY <1>2 DEF NoModeAsked
  <2>2. QED
    BY <1>1, <1>2, <2>1, RepliesStay DEF ModeIsFresh
<1>3. CASE ServerStep
  <2>1. UNCHANGED <<client_pc, sentCommand, dataThreads>> /\ Fresh' = Fresh
        /\ NoModeAsked' = NoModeAsked
    BY <1>3, ClientIdle DEF Fresh, NoModeAsked
  <2>2. CASE UNCHANGED vars
    BY <1>2, <2>1, <2>2 DEF vars, serverVars, mainVars, sessionVars, wireVars
  <2>3. CASE Crash
    <3>1. up' = FALSE /\ replies' = replies
      BY <2>3 DEF Crash
    <3>2. QED
      BY <1>1, <2>1, <3>1, RepliesStay DEF ModeIsFresh
  <2>4. ASSUME Quiet \/ Pasv \/ Port,
               \/ authStatus' = "MODESELECTED" => authStatus = "MODESELECTED"
               \/ request.command \in Modes
        PROVE  ModeIsFresh'
    <3>1. /\ UNCHANGED <<up, cfd, server_pc>>
          /\ cfd = "client" => ~TransferOpened' /\ ~OpenedAndEnded' /\ client_pc = "recv"
      BY <2>4, AnsweredLine, OpenedOrAnswered
    <3>2. up /\ request # NoRequest /\ server_pc = "recv"
      BY <2>4 DEF Quiet, User, Pass, Refuse, Type, Cwd, Quit, Pasv, Port, Executes, Arrived
    <3>3. cfd = "client" => request.command = sentCommand
      BY <1>1, <3>2 DEF Conversation, Turn
    <3>4. cfd # "client" => replies' = replies
      <4>1. CASE Quiet
        BY <1>1, <4>1, QuietAnswers DEF Send, TypeOK
      <4>2. CASE Pasv
        BY <1>1, <4>2, PasvAnswers DEF Send
      <4>3. CASE Port
        BY <1>1, <4>3, PortAnswers DEF Send
      <4>4. QED
        BY <2>4, <4>1, <4>2, <4>3
    <3>5. cfd # "client" => ModeIsFresh'
      BY <1>1, <2>1, <3>1, <3>4, RepliesStay DEF ModeIsFresh
    <3>6. cfd = "client" /\ request.command \in Modes => ~NoModeAsked
      BY <3>1, <3>3 DEF NoModeAsked
    <3>7. cfd = "client" => ModeIsFresh'
      BY <1>1, <2>1, <2>4, <3>1, <3>2, <3>6 DEF ModeIsFresh
    <3>8. QED
      BY <3>5, <3>7
  <2>5. CASE Quiet
    BY <1>1, <2>4, <2>5, QuietAnswers DEF TypeOK
  <2>6. CASE Pasv \/ Port
    BY <1>1, <2>4, <2>6, PasvAnswers, PortAnswers DEF Modes
  <2>7. CASE StartTransfer
    <3>1. /\ UNCHANGED <<up, cfd, authStatus>> /\ authStatus = "MODESELECTED"
          /\ server_pc' = "join" /\ up
      BY <2>7 DEF StartTransfer, Executes, Arrived
    <3>2. CASE cfd = "client"
      <4>1. client_pc = "recv" /\ sentCommand \in Transfers
        BY <1>1, <2>7, <3>2, StartConverses
      <4>2. NoModeAsked
        BY <4>1 DEF NoModeAsked, Transfers, Modes
      <4>3. Fresh
        BY <1>1, <3>1, <3>2, <4>2 DEF ModeIsFresh
      <4>4. QED
        BY <2>1, <3>1, <4>3 DEF ModeIsFresh
    <3>3. CASE cfd # "client"
      <4>1. replies' = replies
        BY <2>7, <3>3 DEF StartTransfer, Send
      <4>2. QED
        BY <1>1, <2>1, <3>1, <3>3, <4>1, RepliesStay DEF ModeIsFresh
    <3>4. QED
      BY <3>2, <3>3
  <2>8. CASE EndTransfer
    <3>1. threads[Len(threads)].pc # "failed"
      <4>1. threads # <<>>
        BY <1>1, <2>8 DEF EndTransfer, Underway, JoinedOnce
      <4>2. Len(threads) \in DOMAIN threads
        BY <1>1, <4>1, Numbers
      <4>3. QED
        BY <1>1, <4>2 DEF NoneFailed
    <3>2. authStatus' = "LOGGEDIN" /\ UNCHANGED <<up, cfd>>
      BY <2>8, <3>1 DEF EndTransfer, AfterTransfer
    <3>3. TransferOpened' /\ client_pc = "recv" => TransferOpened
      <4>1. CASE cfd = "client"
        BY <1>1, <2>8, <4>1, EndConverses, OpenedOrAnswered
      <4>2. CASE cfd # "client"
        BY <2>8, <4>2, RepliesStay DEF EndTransfer, Send
      <4>3. QED
        BY <4>1, <4>2
    <3>4. QED
      BY <1>1, <2>1, <3>2, <3>3 DEF ModeIsFresh
  <2>9. CASE AcceptClient
    <3>1. /\ client_pc = "recv" /\ replies' = <<[status |-> 220, port |-> 0]>>
          /\ up /\ server_pc = "accept"
      BY <2>9 DEF AcceptClient
    <3>2. Len(replies') = 1 /\ ~Opening(replies'[1].status)
      BY <3>1, Openings DEF Statuses
    <3>3. ~TransferOpened' /\ ~OpenedAndEnded'
      BY <3>2, OpenedOrAnswered DEF Answered
    <3>4. Fresh
      BY <1>1, <3>1 DEF Conversation, Fresh
    <3>5. QED
      BY <2>1, <3>1, <3>3, <3>4 DEF ModeIsFresh
  <2>10. CASE RecvError
    <3>1. cfd' = "none" /\ replies' = replies
      BY <2>10 DEF RecvError
    <3>2. QED
      BY <1>1, <2>1, <3>1, RepliesStay DEF ModeIsFresh
  <2>11. ASSUME NEW i \in DOMAIN threads, Prepares(i) PROVE ModeIsFresh'
    BY <1>1, <1>2, <2>1, <2>11, Preparing DEF mainVars, sessionVars, wireVars
  <2>12. QED
    BY <1>3, <2>2, <2>3, <2>5, <2>6, <2>7, <2>8, <2>9, <2>10, <2>11 DEF ServerStep
<1>4. ASSUME NEW i \in DOMAIN threads, Transfer(i) PROVE ModeIsFresh'
  <2>1. UNCHANGED <<up, server_pc, cfd, authStatus, replies, client_pc, sentCommand>>
    BY <1>4 DEF Transfer, mainVars, sessionVars, processVars
  <2>2. /\ Len(dataThreads') = Len(dataThreads)
        /\ \A t \in DOMAIN dataThreads : dataThreads'[t].pc = dataThreads[t].pc
        /\ dataThreads' \in Seq(ClientThreads)
    BY <1>1, <1>4, Transferring
  <2>3. dataThreads # <<>> => Newest(dataThreads)'.pc = Newest(dataThreads).pc
    BY <1>1, <2>2, NewestIsOne
  <2>4. dataThreads = <<>> => dataThreads' = <<>>
    <3>1. ASSUME NEW q \in Seq(ClientThreads), Len(q) = 0 PROVE q = <<>>
      BY <3>1
    <3>2. QED
      BY <1>1, <2>2, <3>1, Numbers
  <2>5. Fresh => Fresh'
    BY <2>3, <2>4 DEF Fresh
  <2>6. QED
    BY <1>2, <2>1, <2>5
<1>5. CASE Connect
  <2>1. UNCHANGED <<up, cfd, replies>> /\ client_pc \in {"off", "left", "exited"}
    BY <1>5 DEF Connect, serverVars, mainVars, wireVars
  <2>2. replies = <<>> /\ ~(up /\ cfd = "client")
    BY <1>1, <2>1 DEF Conversation, RepliesFit, Turn
  <2>3. QED
    BY <2>1, <2>2, OpenedOrAnswered DEF ModeIsFresh
<1>6. ASSUME NEW line \in Lines, SendLine(line) PROVE ModeIsFresh'
  <2>1. /\ client_pc = "prompt" /\ client_pc' \in {"recv", "exited"}
        /\ UNCHANGED <<up, cfd, authStatus, replies, dataThreads>>
    BY <1>6 DEF SendLine, serverVars, mainVars, sessionVars, dataVars
  <2>2. replies' = <<>>
    BY <1>1, <2>1 DEF Conversation, RepliesFit
  <2>3. NoModeAsked /\ Fresh' = Fresh
    BY <2>1 DEF NoModeAsked, Fresh
  <2>4. QED
    BY <1>1, <2>1, <2>2, <2>3, OpenedOrAnswered DEF ModeIsFresh
<1>7. CASE Acknowledge
  <2>1. /\ client_pc = "recv" /\ client_pc' = "prompt" /\ sentCommand \notin Modes
        /\ UNCHANGED <<up, cfd, authStatus, dataThreads>>
    BY <1>7 DEF Acknowledge, Reads, serverVars, mainVars, sessionVars, dataVars, Modes
  <2>2. replies' = <<>>
    BY <1>1, <1>7, <2>1, CallbackConverses DEF Callback, Conversation, RepliesFit
  <2>3. NoModeAsked /\ Fresh' = Fresh
    BY <2>1 DEF NoModeAsked, Fresh
  <2>4. QED
    BY <1>1, <2>1, <2>2, <2>3, OpenedOrAnswered DEF ModeIsFresh
<1>8. CASE CreateDataThread
  <2>1. client_pc' = "prompt"
    BY <1>8 DEF CreateDataThread
  <2>2. replies' = <<>>
    BY <1>1, <1>8, <2>1, CallbackConverses DEF Callback, Conversation, RepliesFit
  <2>3. Fresh'
    BY <1>1, <1>8, ThreadCreated DEF Fresh, Unused
  <2>4. QED
    BY <2>1, <2>2, <2>3, OpenedOrAnswered DEF ModeIsFresh
<1>9. CASE JoinDataThread
  <2>1. /\ client_pc = "recv" /\ client_pc' = "join" /\ TransferOpened
        /\ UNCHANGED <<up, cfd, server_pc, authStatus>>
    BY <1>9, Joining DEF JoinDataThread, serverVars, mainVars, sessionVars
  <2>2. up /\ cfd = "client" /\ server_pc = "recv" => OpenedAndEnded
    BY <1>1, <2>1, OpenedOrAnswered, Taken DEF Conversation, Turn
  <2>3. ~NoModeAsked'
    BY <2>1 DEF NoModeAsked
  <2>4. QED
    BY <1>1, <2>1, <2>2, <2>3 DEF ModeIsFresh
<1>10. CASE DataThreadEnds
  <2>1. /\ client_pc = "join" /\ client_pc' = "final"
        /\ UNCHANGED <<up, cfd, server_pc, authStatus, replies>>
    BY <1>10 DEF DataThreadEnds, serverVars, mainVars, sessionVars, wireVars
  <2>2. ~NoModeAsked'
    BY <2>1 DEF NoModeAsked
  <2>3. QED
    BY <1>1, <2>1, <2>2, RepliesStay DEF ModeIsFresh
<1>11. CASE ReceiveFinal
  <2>1. /\ client_pc = "final" /\ client_pc' = "prompt" /\ (replies # <<>> \/ ~up)
        /\ UNCHANGED <<up, cfd, server_pc, authStatus>>
    BY <1>11 DEF ReceiveFinal, Reads, serverVars, mainVars, sessionVars
  <2>2. replies' = <<>>
    BY <1>1, <1>11, <2>1, CallbackConverses DEF Callback, Conversation, RepliesFit
  <2>3. up /\ cfd = "client" => server_pc = "recv"
    BY <1>1, <2>1 DEF Conversation, Turn
  <2>4. up /\ cfd = "client" => authStatus # "MODESELECTED"
    BY <1>1, <2>1, <2>3 DEF ModeIsFresh
  <2>5. QED
    BY <2>1, <2>2, <2>4, OpenedOrAnswered DEF ModeIsFresh
<1>12. CASE Departs
  <2>1. cfd' = "gone" /\ client_pc' # "recv"
    BY <1>12 DEF Departs, Goes
  <2>2. QED
    BY <2>1 DEF ModeIsFresh
<1>13. ASSUME NEW i \in DOMAIN dataThreads,
              Parse(i) \/ ParseWrong(i) \/ WakeClientUnasked(i) \/ ConnectData(i) \/ SaveData(i)
       PROVE  ModeIsFresh'
  BY <1>1, <1>2, <1>13, ClientThreadSteps, FreshStays
<1>14. QED
  BY <1>1, <1>3, <1>4, <1>5, <1>6, <1>7, <1>8, <1>9, <1>10, <1>11, <1>12, <1>13,
     StepsByProcess DEF Callback

-----------------------------------------------------------------------------
(* The theorems                                                            *)

Session ==
  TypeOK /\ Counted /\ Conversation /\ Asked /\ JoinedOnce /\ DataIsWhatWasAsked

LEMMA SessionInit == Init => Session
<1> SUFFICES ASSUME Init PROVE Session
  OBVIOUS
<1>1. TypeOK /\ Counted /\ Conversation
  BY TypedInit, ConversationInit
<1>2. /\ threads = <<>> /\ dataThreads = <<>> /\ replies = <<>> /\ pending = {}
      /\ server_pc = "accept" /\ authStatus = "NOTLOGGEDIN" /\ cfd = "none"
  BY DEF Init
<1>3. DOMAIN threads = {} /\ DOMAIN dataThreads = {}
  BY <1>2
<1>4. Asked
  BY <1>2, <1>3, OpenedOrAnswered
     DEF Asked, ModeIsFresh, OneActive, CommandsMatch, SameCommand, CommandKnown, NoneFailed,
         NothingYet
<1>5. JoinedOnce /\ DataIsWhatWasAsked
  BY <1>2, <1>3 DEF JoinedOnce, DataIsWhatWasAsked
<1>6. QED
  BY <1>1, <1>4, <1>5 DEF Session

LEMMA SessionStep == Session /\ [Next]_vars => Session'
<1> SUFFICES ASSUME Session, [Next]_vars PROVE Session'
  OBVIOUS
<1>1. TypeOK' /\ Counted' /\ Conversation'
  BY TypedStep, ConversationStep DEF Session
<1>2. CASE "asked" \in assumed
  <2>1. Underway
    BY <1>2 DEF Session, Underway
  <2>2. ModeIsFresh' /\ SameCommand' /\ CommandKnown' /\ NoneFailed'
        /\ NothingYet' /\ JoinedOnce' /\ DataIsWhatWasAsked'
    BY <2>1, ModeIsFreshStep, SameCommandStep, CommandKnownStep,
       NoneFailedStep, GotStep, JoinedOnceStep
  <2>3. Understood' => Understood \/ dataThreads' = <<>>
    BY <1>2, UnderstoodBefore DEF Session
  <2>4. dataThreads' = <<>> => OneActive'
    BY DEF OneActive
  <2>5. Understood' => OneActive'
    BY <2>1, <2>3, <2>4, OneActiveStep
  <2>6. QED
    BY <1>1, <2>2, <2>5 DEF Session, Asked, CommandsMatch
<1>3. CASE "asked" \notin assumed
  <2>1. assumed' = assumed
    BY AssumedStays DEF Session
  <2>2. QED
    BY <1>1, <1>3, <2>1 DEF Session, Asked, JoinedOnce, DataIsWhatWasAsked
<1>4. QED
  BY <1>2, <1>3

\* Whatever is typed and in whatever order the threads run, main of the server
\* joins each data thread at most once, and one exists when it does: a thread of
\* the server cannot fail as long as the client's connect only when told to, so
\* that no mode outlasts its transfer.
THEOREM EachThreadOnce == Spec => []JoinedOnce
<1>1. Session => JoinedOnce
  BY DEF Session
<1>2. QED
  BY <1>1, SessionInit, SessionStep, PTL DEF Spec

\* What a data thread of the client receives is what its user asked for last, if
\* none has returned because of a port it could not read; also when modes are selected again and again, clients go in the middle of a
\* transfer and old data threads remain: by the time data can arrive, both mains
\* wait and neither global variable changes.
THEOREM TheRightData == Spec => []DataIsWhatWasAsked
<1>1. Session => DataIsWhatWasAsked
  BY DEF Session
<1>2. QED
  BY <1>1, SessionInit, SessionStep, PTL DEF Spec

=============================================================================
