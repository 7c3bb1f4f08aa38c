---------------------------- MODULE AcceptProofs ----------------------------
(* Proofs about how subscribers are connected to the broker, for any number*)
(* of subscribers, any rhythm of arrivals and any assumptions on timing.   *)
EXTENDS BrokerAccept, TLAPS

-----------------------------------------------------------------------------
(* The invariant                                                           *)

\* A subscriber has its ports, and handle_subscriber still writes the arguments
\* of its threads.
Writing == {"sender_id", "sender_port", "receiver_id", "receiver_port"}

NoPorts == [receiver |-> NoPort, sender |-> NoPort]
PortsOf(s) == [receiver |-> FirstPort + 2 * s, sender |-> FirstPort + 2 * s + 1]
ReceiverPorts == {FirstPort + 2 * s : s \in Subscribers}

\* Every subscriber has the two ports that its id says, and nobody has
\* anything before handle_subscriber has come to him.
PortsAreDealt ==
  /\ port_for_each_subscriber = FirstPort + 2 * subscriber_idx
  /\ accept_pc = "ports" => subscriber_idx < arrived
  /\ accept_pc \in Writing => subscriber_id \in Subscribers
                              /\ subscriber_id = subscriber_idx - 1
  /\ \A s \in Subscribers :
       /\ port[s] = IF s < subscriber_idx THEN PortsOf(s) ELSE NoPorts
       /\ s >= subscriber_idx => /\ sender[s].pc = "none" /\ receiver[s].pc = "none"
                                 /\ routine_pc[s] = "none" /\ main_pc[s] = "none"

\* Whatever arguments the receiver threads mix up, they are receivers' ports.
ReceiversBindEven ==
  /\ data_receiver.port \in ReceiverPorts \cup {NoPort}
  /\ \A s \in Subscribers : receiver[s].port \in ReceiverPorts \cup {NoPort}

\* A thread that still has to read its argument finds its own there.
SendersStart ==
  "start" \in prompt =>
    /\ accept_pc = "sender_port" => data_sender.id = subscriber_id /\ ~Starting(sender)
    /\ \A s \in Subscribers :
         /\ sender[s].pc \in {"id", "port"}
              => data_sender.id = s /\ data_sender.port = port[s].sender
         /\ sender[s].pc \in {"port", "connect", "serving"} => sender[s].id = s
         /\ sender[s].pc \in {"connect", "serving"} => sender[s].port = port[s].sender

ReceiversStart ==
  "start" \in prompt =>
    /\ accept_pc = "receiver_port"
         => data_receiver.id = subscriber_id /\ ~Starting(receiver)
    /\ \A s \in Subscribers :
         /\ receiver[s].pc \in {"id", "port"}
              => data_receiver.id = s /\ data_receiver.port = port[s].receiver
         /\ receiver[s].pc \in {"port", "bind", "accept", "serving"} => receiver[s].id = s
         /\ receiver[s].pc \in {"bind", "accept", "serving"}
              => receiver[s].port = port[s].receiver

\* A subscriber that has been dealt with has its receiver thread.
ReceiversExist ==
  \A s \in Subscribers :
    s < subscriber_idx /\ ~(s = subscriber_id /\ accept_pc \in Writing)
      => receiver[s].pc # "none"

NothingGoesWrong ==
  prompt = {"start", "sleep"} =>
    /\ up
    /\ \A s \in Subscribers :
         /\ main_pc[s] # "exited"
         /\ s < subscriber_idx => routine_pc[s] # "none"

IInv ==
  /\ TypeOK
  /\ PortsAreDealt
  /\ ReceiversBindEven
  /\ SubscribersCanListen
  /\ SendersStart
  /\ ReceiversStart
  /\ ReceiversExist
  /\ NothingGoesWrong

-----------------------------------------------------------------------------
(* Types                                                                   *)

LEMMA Constants == MaxSubscribers \in Nat /\ FirstPort \in Nat
BY SubscribersAssumption, PortAssumption

LEMMA DealtPorts ==
  \A s \in Subscribers :
    /\ s \in Int /\ 0 <= s /\ s < MaxSubscribers
    /\ FirstPort + 2 * s \in Ports /\ FirstPort + 2 * s + 1 \in Ports
BY Constants DEF Subscribers, Ports

LEMMA TypedInit == Init => TypeOK
<1> SUFFICES ASSUME Init PROVE TypeOK
  OBVIOUS
<1>1. Nobody \in Threads({"none", "id", "port", "connect", "serving"})
      /\ Nobody \in Threads({"none", "id", "port", "bind", "accept", "serving"})
  BY DEF Nobody, Threads
<1>2. [id |-> -1, port |-> NoPort] \in Users
  BY DEF Users
<1>3. /\ sender \in [Subscribers -> Threads({"none", "id", "port", "connect", "serving"})]
      /\ receiver \in [Subscribers ->
                         Threads({"none", "id", "port", "bind", "accept", "serving"})]
  BY <1>1 DEF Init
<1>4. port \in [Subscribers -> [receiver : Ports \cup {NoPort},
                                sender : Ports \cup {NoPort}]]
  BY DEF Init
<1>5. port_for_each_subscriber \in FirstPort..(FirstPort + 2 * MaxSubscribers)
      /\ arrived \in 0..MaxSubscribers /\ subscriber_idx \in 0..MaxSubscribers
  BY Constants DEF Init
<1>6. /\ routine_pc \in [Subscribers -> {"none", "bind", "accept", "reading", "failed"}]
      /\ main_pc \in [Subscribers -> {"none", "connect", "typing", "exited"}]
  BY DEF Init
<1>7. data_sender \in Users /\ data_receiver \in Users
  BY <1>2 DEF Init
<1>8. /\ up \in BOOLEAN /\ in_pass \in BOOLEAN /\ subscriber_id \in Subscribers \cup {-1}
      /\ prompt \in Settings
      /\ accept_pc \in {"accept", "ports", "sender_id", "sender_port", "receiver_id",
                        "receiver_port"}
  BY DEF Init
<1>9. QED
  BY ONLY <1>3, <1>4, <1>5, <1>6, <1>7, <1>8 DEF TypeOK

LEMMA TypedStep == TypeOK /\ PortsAreDealt /\ [Next]_vars => TypeOK'
<1> SUFFICES ASSUME TypeOK, PortsAreDealt, [Next]_vars PROVE TypeOK'
  OBVIOUS
<1> USE Constants DEF TypeOK
<1>1. CASE SubscriberArrives
  <2>1. arrived' \in 0..MaxSubscribers
    BY <1>1, ArrivalAssumption DEF SubscriberArrives
  <2>2. QED
    BY <1>1, <2>1 DEF SubscriberArrives, slotVars, subscriberVars
<1>2. CASE Accept
  BY <1>2 DEF Accept, slotVars, subscriberVars
<1>3. CASE AssignPorts
  <2>1. subscriber_idx \in Subscribers /\ subscriber_idx < MaxSubscribers
    BY <1>3, SMTT(30) DEF AssignPorts, PortsAreDealt, Subscribers
  <2>2. /\ port_for_each_subscriber \in Ports
        /\ port_for_each_subscriber + 2 - 1 \in Ports
        /\ port_for_each_subscriber + 2 \in FirstPort..(FirstPort + 2 * MaxSubscribers)
    BY <2>1 DEF PortsAreDealt, Ports
  <2>3. port' \in [Subscribers -> [receiver : Ports \cup {NoPort},
                                   sender : Ports \cup {NoPort}]]
    <3>1. port \in [Subscribers -> [receiver : Ports \cup {NoPort},
                                     sender : Ports \cup {NoPort}]]
      OBVIOUS
    <3>2. port' = [port EXCEPT ![subscriber_idx] =
                     [receiver |-> port_for_each_subscriber,
                      sender |-> port_for_each_subscriber + 2 - 1]]
      BY <1>3 DEF AssignPorts, PortsTaken
    <3>3. QED
      BY ONLY <2>1, <2>2, <3>1, <3>2, SMTT(30)
  <2>4. QED
    BY <1>3, <2>1, <2>2, <2>3 DEF AssignPorts, PortsTaken, slotVars
<1>4. CASE SetSenderId \/ SetReceiverId
  <2>1. subscriber_id \in Subscribers
    BY <1>4 DEF SetSenderId, SetReceiverId, PortsAreDealt, Writing
  <2>2. data_sender' \in Users /\ data_receiver' \in Users
    BY <1>4, <2>1 DEF SetSenderId, SetReceiverId, NewId, Users
  <2>3. QED
    BY <1>4, <2>2 DEF SetSenderId, SetReceiverId, subscriberVars
<1>5. CASE SetSenderPort
  <2>1. subscriber_id \in Subscribers
    BY <1>5 DEF SetSenderPort, PortsAreDealt, Writing
  <2>2. data_sender' \in Users
    BY <1>5, <2>1 DEF SetSenderPort, Users
  <2>3. sender' \in [Subscribers -> Threads({"none", "id", "port", "connect", "serving"})]
    <3>1. sender \in [Subscribers -> Threads({"none", "id", "port", "connect", "serving"})]
      OBVIOUS
    <3>2. sender' = [sender EXCEPT ![subscriber_id].pc = "id"]
      BY <1>5 DEF SetSenderPort
    <3>3. QED
      BY ONLY <2>1, <3>1, <3>2, SMTT(30) DEF Threads
  <2>4. QED
    BY <1>5, <2>2, <2>3 DEF SetSenderPort, subscriberVars
<1>6. CASE SetReceiverPort
  <2>1. subscriber_id \in Subscribers
    BY <1>6 DEF SetReceiverPort, PortsAreDealt, Writing
  <2>2. data_receiver' \in Users
    BY <1>6, <2>1 DEF SetReceiverPort, Users
  <2>3. receiver' \in [Subscribers ->
                         Threads({"none", "id", "port", "bind", "accept", "serving"})]
    <3>1. receiver \in [Subscribers ->
                          Threads({"none", "id", "port", "bind", "accept", "serving"})]
      OBVIOUS
    <3>2. receiver' = [receiver EXCEPT ![subscriber_id].pc = "id"]
      BY <1>6 DEF SetReceiverPort
    <3>3. QED
      BY ONLY <2>1, <3>1, <3>2, SMTT(30) DEF Threads
  <2>4. QED
    BY <1>6, <2>2, <2>3 DEF SetReceiverPort, subscriberVars
<1>7. CASE BeginPass \/ EndPass
  BY <1>7 DEF BeginPass, EndPass, acceptVars, slotVars, subscriberVars
<1>8. ASSUME NEW s \in Subscribers, handle_sender(s) PROVE TypeOK'
  <2>1. sender' \in [Subscribers -> Threads({"none", "id", "port", "connect", "serving"})]
    <3>0. /\ sender \in [Subscribers -> Threads({"none", "id", "port", "connect", "serving"})]
          /\ data_sender.id \in Subscribers \cup {-1}
          /\ data_sender.port \in Ports \cup {NoPort}
      BY DEF Users
    <3>1. CASE ReadSenderId(s)
      BY ONLY <3>0, <3>1, ZenonT(60) DEF ReadSenderId, Threads
    <3>2. CASE ReadSenderPort(s)
      BY ONLY <3>0, <3>2, ZenonT(60) DEF ReadSenderPort, Threads
    <3>3. CASE ConnectSender(s) \/ ConnectSenderRefused(s)
      BY ONLY <3>0, <3>3, SMTT(30) DEF ConnectSender, ConnectSenderRefused, Threads
    <3>4. QED
      BY <1>8, <3>1, <3>2, <3>3 DEF handle_sender
  <2>2. up' \in BOOLEAN
        /\ routine_pc' \in [Subscribers -> {"none", "bind", "accept", "reading", "failed"}]
    BY <1>8
    DEF handle_sender, ReadSenderId, ReadSenderPort, ConnectSender, ConnectSenderRefused,
        subscriberVars
  <2>3. QED
    BY <1>8, <2>1, <2>2
    DEF handle_sender, ReadSenderId, ReadSenderPort, ConnectSender, ConnectSenderRefused,
        acceptVars, slotVars, subscriberVars
<1>9. ASSUME NEW s \in Subscribers, handle_receiver(s) PROVE TypeOK'
  <2>1. receiver' \in [Subscribers ->
                         Threads({"none", "id", "port", "bind", "accept", "serving"})]
    <3>0. /\ receiver \in [Subscribers ->
                             Threads({"none", "id", "port", "bind", "accept", "serving"})]
          /\ data_receiver.id \in Subscribers \cup {-1}
          /\ data_receiver.port \in Ports \cup {NoPort}
      BY DEF Users
    <3>1. CASE ReadReceiverId(s)
      BY ONLY <3>0, <3>1, ZenonT(60) DEF ReadReceiverId, Threads
    <3>2. CASE ReadReceiverPort(s)
      BY ONLY <3>0, <3>2, ZenonT(60) DEF ReadReceiverPort, Threads
    <3>3. CASE BindReceiver(s)
      BY ONLY <3>0, <3>3, ZenonT(60) DEF BindReceiver, Threads
    <3>4. QED
      BY <1>9, <3>1, <3>2, <3>3 DEF handle_receiver
  <2>2. up' \in BOOLEAN
    BY <1>9 DEF handle_receiver, ReadReceiverId, ReadReceiverPort, BindReceiver
  <2>3. QED
    BY <1>9, <2>1, <2>2
    DEF handle_receiver, ReadReceiverId, ReadReceiverPort, BindReceiver,
        acceptVars, slotVars, subscriberVars
<1>10. ASSUME NEW s \in Subscribers, BindRoutine(s) PROVE TypeOK'
  BY <1>10 DEF BindRoutine, acceptVars, slotVars
<1>11. ASSUME NEW s \in Subscribers, main(s) PROVE TypeOK'
  <2>1. receiver' \in [Subscribers ->
                         Threads({"none", "id", "port", "bind", "accept", "serving"})]
    <3>1. receiver \in [Subscribers ->
                          Threads({"none", "id", "port", "bind", "accept", "serving"})]
      OBVIOUS
    <3>2. CASE ConnectMain(s)
      BY ONLY <3>1, <3>2, SMTT(30) DEF ConnectMain, Threads
    <3>3. CASE ConnectMainRefused(s)
      BY ONLY <3>1, <3>3 DEF ConnectMainRefused
    <3>4. QED
      BY <1>11, <3>2, <3>3 DEF main
  <2>2. QED
    BY <1>11, <2>1 DEF main, ConnectMain, ConnectMainRefused, acceptVars, slotVars
<1>12. CASE UNCHANGED vars
  BY <1>12 DEF vars, acceptVars, slotVars, subscriberVars
<1>13. QED
  BY <1>1, <1>2, <1>3, <1>4, <1>5, <1>6, <1>7, <1>8, <1>9, <1>10, <1>11, <1>12
  DEF Next, handle_subscriber

-----------------------------------------------------------------------------
(* Ports                                                                   *)

LEMMA DealtInit == Init => PortsAreDealt
BY Constants, DealtPorts DEF Init, PortsAreDealt, Writing, NoPorts, Nobody

LEMMA DealtStep == TypeOK /\ PortsAreDealt /\ [Next]_vars => PortsAreDealt'
<1> SUFFICES ASSUME TypeOK, PortsAreDealt, [Next]_vars PROVE PortsAreDealt'
  OBVIOUS
<1>t. /\ subscriber_idx \in Nat /\ arrived \in Int /\ FirstPort \in Nat
      /\ \A s \in Subscribers : s \in Int /\ 0 <= s
      /\ DOMAIN sender = Subscribers /\ DOMAIN receiver = Subscribers
      /\ DOMAIN routine_pc = Subscribers /\ DOMAIN main_pc = Subscribers
      /\ DOMAIN port = Subscribers
  BY Constants, DealtPorts DEF TypeOK
<1> USE DEF PortsAreDealt, Writing
<1>1. CASE SubscriberArrives
  BY <1>1, <1>t DEF SubscriberArrives, slotVars, subscriberVars
<1>2. CASE Accept
  BY <1>2 DEF Accept, ConnectionWaits, slotVars, subscriberVars
<1>3. CASE AssignPorts
  <2>1. subscriber_idx \in Subscribers
    BY <1>3, Constants DEF AssignPorts, TypeOK, Subscribers
  <2>2. /\ subscriber_id' = subscriber_idx /\ subscriber_idx' = subscriber_idx + 1
        /\ port_for_each_subscriber' = port_for_each_subscriber + 2
        /\ accept_pc' = "sender_id" /\ UNCHANGED <<sender, receiver>>
        /\ port' = [port EXCEPT ![subscriber_idx] =
                      [receiver |-> port_for_each_subscriber,
                       sender |-> port_for_each_subscriber + 2 - 1]]
        /\ routine_pc' = [routine_pc EXCEPT ![subscriber_idx] = "bind"]
        /\ main_pc' = [main_pc EXCEPT ![subscriber_idx] = "connect"]
    BY <1>3 DEF AssignPorts, PortsTaken
  <2>3. \A s \in Subscribers :
          port'[s] = IF s < subscriber_idx' THEN PortsOf(s) ELSE NoPorts
    <3>1. port'[subscriber_idx] = PortsOf(subscriber_idx)
      BY <2>1, <2>2, <1>t DEF PortsOf
    <3>2. \A s \in Subscribers : s # subscriber_idx => port'[s] = port[s]
      BY <2>2, <1>t
    <3>3. QED
      BY <3>1, <3>2, <2>2, <1>t
  <2>4. \A s \in Subscribers : s >= subscriber_idx' =>
          /\ sender'[s].pc = "none" /\ receiver'[s].pc = "none"
          /\ routine_pc'[s] = "none" /\ main_pc'[s] = "none"
    BY <2>2, <1>t
  <2>5. port_for_each_subscriber' = FirstPort + 2 * subscriber_idx'
    BY <2>2, <1>t
  <2>6. subscriber_id' = subscriber_idx' - 1
    BY <2>2, <1>t
  <2>7. QED
    BY <2>1, <2>2, <2>3, <2>4, <2>5, <2>6
<1>4. CASE SetSenderId \/ SetReceiverId
  BY <1>4 DEF SetSenderId, SetReceiverId, subscriberVars
<1>5. CASE SetSenderPort
  BY <1>5, <1>t DEF SetSenderPort, subscriberVars
<1>6. CASE SetReceiverPort
  BY <1>6, <1>t DEF SetReceiverPort, subscriberVars
<1>7. CASE BeginPass \/ EndPass \/ UNCHANGED vars
  BY <1>7 DEF BeginPass, EndPass, vars, acceptVars, slotVars, subscriberVars
<1>8. ASSUME UNCHANGED acceptVars,
             \A s \in Subscribers : s >= subscriber_idx =>
               /\ sender[s].pc = "none" => sender'[s].pc = "none"
               /\ receiver[s].pc = "none" => receiver'[s].pc = "none"
               /\ routine_pc[s] = "none" => routine_pc'[s] = "none"
               /\ main_pc[s] = "none" => main_pc'[s] = "none"
      PROVE  PortsAreDealt'
  BY <1>8 DEF acceptVars
<1>9. ASSUME NEW s \in Subscribers, handle_sender(s) PROVE PortsAreDealt'
  BY <1>8, <1>9, <1>t
  DEF handle_sender, ReadSenderId, ReadSenderPort, ConnectSender, ConnectSenderRefused,
      Listening, subscriberVars
<1>10. ASSUME NEW s \in Subscribers, handle_receiver(s) PROVE PortsAreDealt'
  BY <1>8, <1>10, <1>t
  DEF handle_receiver, ReadReceiverId, ReadReceiverPort, BindReceiver, subscriberVars
<1>11. ASSUME NEW s \in Subscribers, BindRoutine(s) PROVE PortsAreDealt'
  <2>1. s < subscriber_idx
    BY <1>11, <1>t DEF BindRoutine
  <2>2. QED
    BY <1>8, <1>11, <1>t, <2>1 DEF BindRoutine
<1>12. ASSUME NEW s \in Subscribers, main(s) PROVE PortsAreDealt'
  <2>1. \A k \in Subscribers : receiver[k].pc = "none" => receiver'[k].pc = "none"
    <3>1. CASE ConnectMain(s)
      <4>1. PICK k \in Subscribers : ReceiverListening(k)
                                     /\ receiver' = [receiver EXCEPT ![k].pc = "serving"]
        BY <3>1 DEF ConnectMain, Answers
      <4>2. QED
        BY <4>1, <1>t DEF ReceiverListening
    <3>2. QED
      BY <1>12, <3>1 DEF main, ConnectMainRefused
  <2>2. UNCHANGED <<acceptVars, sender>>
    BY <1>12 DEF main, ConnectMain, ConnectMainRefused
  <2>3. \A k \in Subscribers : /\ routine_pc[k] = "none" => routine_pc'[k] = "none"
                               /\ main_pc[k] = "none" => main_pc'[k] = "none"
    BY <1>12, <1>t DEF main, ConnectMain, ConnectMainRefused
  <2>4. QED
    BY <1>8, <2>1, <2>2, <2>3
<1>13. QED
  BY <1>1, <1>2, <1>3, <1>4, <1>5, <1>6, <1>7, <1>9, <1>10, <1>11, <1>12
  DEF Next, handle_subscriber

LEMMA EvenInit == Init => ReceiversBindEven
BY DEF Init, ReceiversBindEven, Nobody

LEMMA EvenStep == TypeOK /\ PortsAreDealt /\ ReceiversBindEven /\ [Next]_vars
                    => ReceiversBindEven'
<1> SUFFICES ASSUME TypeOK, PortsAreDealt, ReceiversBindEven, [Next]_vars
             PROVE  ReceiversBindEven'
  OBVIOUS
<1>t. receiver \in [Subscribers ->
                      Threads({"none", "id", "port", "bind", "accept", "serving"})]
      /\ data_receiver \in Users
  BY DEF TypeOK
<1> USE DEF ReceiversBindEven
<1>1. CASE SetReceiverPort
  <2>1. subscriber_id \in Subscribers /\ subscriber_id < subscriber_idx
    BY <1>1, Constants DEF SetReceiverPort, PortsAreDealt, Writing, TypeOK
  <2>2. port[subscriber_id].receiver \in ReceiverPorts
    <3>1. port[subscriber_id] = PortsOf(subscriber_id)
      BY <2>1 DEF PortsAreDealt
    <3>2. port[subscriber_id].receiver = FirstPort + 2 * subscriber_id
      BY <3>1 DEF PortsOf
    <3>3. QED
      BY <2>1, <3>2 DEF ReceiverPorts
  <2>3. data_receiver'.port = port[subscriber_id].receiver
    BY <1>1, <1>t DEF SetReceiverPort, Users
  <2>4. \A s \in Subscribers : receiver'[s].port = receiver[s].port
    BY <1>1, <1>t DEF SetReceiverPort, Threads
  <2>5. QED
    BY <2>2, <2>3, <2>4
<1>2. CASE SetReceiverId
  BY <1>2, <1>t DEF SetReceiverId, Users
<1>3. ASSUME NEW s \in Subscribers, handle_receiver(s) PROVE ReceiversBindEven'
  BY <1>3, <1>t
  DEF handle_receiver, ReadReceiverId, ReadReceiverPort, BindReceiver, slotVars, Threads
<1>4. ASSUME NEW s \in Subscribers, main(s) PROVE ReceiversBindEven'
  BY <1>4, <1>t DEF main, ConnectMain, ConnectMainRefused, slotVars, Threads
<1>5. ASSUME UNCHANGED <<data_receiver, receiver>> PROVE ReceiversBindEven'
  BY <1>5
<1>6. ASSUME NEW s \in Subscribers, handle_sender(s) \/ BindRoutine(s)
      PROVE  UNCHANGED <<data_receiver, receiver>>
  BY <1>6
  DEF handle_sender, ReadSenderId, ReadSenderPort, ConnectSender, ConnectSenderRefused,
      BindRoutine, slotVars
<1>7. ASSUME \/ SubscriberArrives \/ Accept \/ AssignPorts \/ SetSenderId \/ SetSenderPort
             \/ BeginPass \/ EndPass \/ UNCHANGED vars
      PROVE  UNCHANGED <<data_receiver, receiver>>
  BY <1>7
  DEF SubscriberArrives, Accept, AssignPorts, SetSenderId, SetSenderPort, BeginPass,
      EndPass, vars, slotVars
<1>8. QED
  BY <1>1, <1>2, <1>3, <1>4, <1>5, <1>6, <1>7 DEF Next, handle_subscriber

\* The port a subscriber listens on is in nobody's use when it binds.
LEMMA FreeToBind ==
  ASSUME TypeOK, PortsAreDealt, ReceiversBindEven,
         NEW s \in Subscribers, routine_pc[s] = "bind"
  PROVE  ~InUse(ReceiverPort(s))
<1>1. s < subscriber_idx /\ ReceiverPort(s) = FirstPort + 2 * s + 1
  BY Constants, DealtPorts DEF PortsAreDealt, PortsOf, ReceiverPort, TypeOK
<1>2. ASSUME NEW t \in Subscribers, Listening(t) PROVE ReceiverPort(t) # ReceiverPort(s)
  <2>1. t < subscriber_idx /\ ReceiverPort(t) = FirstPort + 2 * t + 1
    BY <1>2, Constants, DealtPorts DEF Listening, PortsAreDealt, PortsOf, ReceiverPort, TypeOK
  <2>2. t # s
    BY <1>2 DEF Listening
  <2>3. t \in Int /\ s \in Int /\ FirstPort \in Int
    BY DealtPorts, Constants
  <2>4. QED
    BY <1>1, <2>1, <2>2, <2>3
<1>3. ASSUME NEW t \in Subscribers PROVE receiver[t].port # ReceiverPort(s)
  <2>1. CASE receiver[t].port = NoPort
    BY <2>1, <1>1, Constants, DealtPorts DEF NoPort
  <2>2. CASE receiver[t].port \in ReceiverPorts
    <3>1. PICK k \in Subscribers : receiver[t].port = FirstPort + 2 * k
      BY <2>2 DEF ReceiverPorts
    <3>2. k \in Int /\ s \in Int /\ FirstPort \in Int
      BY DealtPorts, Constants
    <3>3. QED
      BY <1>1, <3>1, <3>2
  <2>3. QED
    BY <2>1, <2>2 DEF ReceiversBindEven
<1>4. QED
  BY <1>2, <1>3 DEF InUse

LEMMA ListenStep == /\ TypeOK /\ PortsAreDealt /\ ReceiversBindEven /\ SubscribersCanListen
                    /\ [Next]_vars
                    => SubscribersCanListen'
<1> SUFFICES ASSUME TypeOK, PortsAreDealt, ReceiversBindEven, SubscribersCanListen,
                    [Next]_vars
             PROVE  SubscribersCanListen'
  OBVIOUS
<1>t. DOMAIN routine_pc = Subscribers
  BY DEF TypeOK
<1> USE DEF SubscribersCanListen
<1>1. ASSUME NEW s \in Subscribers, BindRoutine(s) PROVE SubscribersCanListen'
  BY <1>1, <1>t, FreeToBind DEF BindRoutine
<1>2. ASSUME NEW s \in Subscribers, handle_sender(s) PROVE SubscribersCanListen'
  BY <1>2, <1>t
  DEF handle_sender, ReadSenderId, ReadSenderPort, ConnectSender, ConnectSenderRefused,
      subscriberVars
<1>3. ASSUME NEW s \in Subscribers, handle_receiver(s) PROVE SubscribersCanListen'
  BY <1>3
  DEF handle_receiver, ReadReceiverId, ReadReceiverPort, BindReceiver, subscriberVars
<1>4. ASSUME NEW s \in Subscribers, main(s) PROVE SubscribersCanListen'
  BY <1>4, <1>t DEF main, ConnectMain, ConnectMainRefused
<1>5. CASE AssignPorts
  BY <1>5, <1>t DEF AssignPorts
<1>6. CASE \/ SubscriberArrives \/ Accept \/ SetSenderId \/ SetSenderPort \/ SetReceiverId
           \/ SetReceiverPort \/ BeginPass \/ EndPass \/ UNCHANGED vars
  BY <1>6
  DEF SubscriberArrives, Accept, SetSenderId, SetSenderPort, SetReceiverId,
      SetReceiverPort, BeginPass, EndPass, vars, subscriberVars
<1>7. QED
  BY <1>1, <1>2, <1>3, <1>4, <1>5, <1>6 DEF Next, handle_subscriber

-----------------------------------------------------------------------------
(* The arguments of the threads                                            *)

LEMMA PromptStays == [Next]_vars => UNCHANGED prompt
BY DEF Next, handle_subscriber, SubscriberArrives, Accept, AssignPorts, SetSenderId,
    SetSenderPort, SetReceiverId, SetReceiverPort, BeginPass, EndPass, handle_sender,
    ReadSenderId, ReadSenderPort, ConnectSender, ConnectSenderRefused,
    handle_receiver, ReadReceiverId, ReadReceiverPort, BindReceiver, BindRoutine,
    main, ConnectMain, ConnectMainRefused, vars, subscriberVars

LEMMA AssignedPortIsNew ==
  ASSUME TypeOK, PortsAreDealt, AssignPorts
  PROVE  /\ subscriber_idx \in Subscribers /\ sender[subscriber_idx].pc = "none"
         /\ receiver[subscriber_idx].pc = "none"
         /\ \A s \in Subscribers : s # subscriber_idx => port'[s] = port[s]
<1>1. subscriber_idx \in Subscribers /\ subscriber_idx >= subscriber_idx
  BY Constants DEF AssignPorts, PortsAreDealt, TypeOK, Subscribers
<1>2. QED
  BY <1>1 DEF AssignPorts, PortsAreDealt, TypeOK

LEMMA SendersInit == Init => SendersStart
BY DEF Init, SendersStart, Nobody

LEMMA SendersStep == TypeOK /\ PortsAreDealt /\ SendersStart /\ [Next]_vars => SendersStart'
<1> SUFFICES ASSUME TypeOK, PortsAreDealt, SendersStart, [Next]_vars PROVE SendersStart'
  OBVIOUS
<1> SUFFICES ASSUME "start" \in prompt PROVE SendersStart'
  BY PromptStays DEF SendersStart
<1>t. /\ sender \in [Subscribers -> Threads({"none", "id", "port", "connect", "serving"})]
      /\ data_sender \in Users
  BY DEF TypeOK
<1> USE DEF SendersStart
<1>1. CASE AssignPorts
  <2>1. UNCHANGED <<sender, data_sender>> /\ accept_pc' = "sender_id"
    BY <1>1 DEF AssignPorts, slotVars
  <2>2. QED
    BY <1>1, <2>1, AssignedPortIsNew
<1>2. CASE SetSenderId
  <2>1. /\ ~Starting(sender) /\ accept_pc' = "sender_port"
        /\ data_sender' = [data_sender EXCEPT !.id = subscriber_id]
        /\ UNCHANGED <<sender, port, subscriber_id>>
    BY <1>2 DEF SetSenderId, NewId
  <2>2. data_sender'.id = subscriber_id'
    BY <2>1, <1>t DEF Users
  <2>3. QED
    BY <2>1, <2>2 DEF Starting
<1>3. CASE SetSenderPort
  <2>1. /\ subscriber_id \in Subscribers /\ data_sender.id = subscriber_id
        /\ ~Starting(sender) /\ UNCHANGED port
    BY <1>3 DEF SetSenderPort, PortsAreDealt, Writing
  <2>2. /\ data_sender'.id = subscriber_id
        /\ data_sender'.port = port[subscriber_id].sender
        /\ accept_pc' = "receiver_id"
    BY <1>3, <2>1, <1>t DEF SetSenderPort, Users
  <2>3. \A s \in Subscribers : IF s = subscriber_id THEN sender'[s].pc = "id"
                                                   ELSE sender'[s] = sender[s]
    BY <1>3, <1>t DEF SetSenderPort, Threads
  <2>4. QED
    BY <2>1, <2>2, <2>3 DEF Starting
<1>4. ASSUME NEW s \in Subscribers, handle_sender(s) PROVE SendersStart'
  <2>1. UNCHANGED <<accept_pc, subscriber_id, port, data_sender>>
    BY <1>4
    DEF handle_sender, ReadSenderId, ReadSenderPort, ConnectSender, ConnectSenderRefused,
        acceptVars, slotVars
  <2>2. \A t \in Subscribers : t # s => sender'[t] = sender[t]
    BY <1>4, <1>t
    DEF handle_sender, ReadSenderId, ReadSenderPort, ConnectSender, ConnectSenderRefused
  <2>3. CASE ReadSenderId(s)
    <3>1. /\ sender[s].pc = "id" /\ sender'[s].pc = "port"
          /\ sender'[s].id = data_sender.id
      BY <2>3, <1>t DEF ReadSenderId, Threads
    <3>2. QED
      BY <2>1, <2>2, <3>1 DEF Starting
  <2>4. CASE ReadSenderPort(s)
    <3>1. /\ sender[s].pc = "port" /\ sender'[s].pc = "connect"
          /\ sender'[s].id = sender[s].id /\ sender'[s].port = data_sender.port
      BY <2>4, <1>t DEF ReadSenderPort, Threads
    <3>2. QED
      BY <2>1, <2>2, <3>1 DEF Starting
  <2>5. CASE ConnectSender(s)
    <3>1. /\ sender[s].pc = "connect" /\ sender'[s].pc = "serving"
          /\ sender'[s].id = sender[s].id /\ sender'[s].port = sender[s].port
      BY <2>5, <1>t DEF ConnectSender, Threads
    <3>2. QED
      BY <2>1, <2>2, <3>1 DEF Starting
  <2>6. CASE ConnectSenderRefused(s)
    BY <2>1, <2>6 DEF ConnectSenderRefused, Starting
  <2>7. QED
    BY <1>4, <2>3, <2>4, <2>5, <2>6 DEF handle_sender
<1>5. ASSUME UNCHANGED <<sender, data_sender, port, subscriber_id>>,
             accept_pc' = accept_pc \/ accept_pc' # "sender_port"
      PROVE  SendersStart'
  BY <1>5 DEF Starting
<1>6. ASSUME NEW s \in Subscribers, handle_receiver(s) \/ BindRoutine(s) \/ main(s)
      PROVE  SendersStart'
  <2>1. UNCHANGED <<sender, data_sender, port, subscriber_id, accept_pc>>
    BY <1>6
    DEF handle_receiver, ReadReceiverId, ReadReceiverPort, BindReceiver, BindRoutine,
        main, ConnectMain, ConnectMainRefused, acceptVars, slotVars
  <2>2. QED
    BY <1>5, <2>1
<1>7. CASE \/ SubscriberArrives \/ Accept \/ SetReceiverId \/ SetReceiverPort
           \/ BeginPass \/ EndPass \/ UNCHANGED vars
  <2>1. UNCHANGED <<sender, data_sender, port, subscriber_id>>
    BY <1>7
    DEF SubscriberArrives, Accept, SetReceiverId, SetReceiverPort, BeginPass, EndPass,
        vars, acceptVars, slotVars
  <2>2. accept_pc' = accept_pc \/ accept_pc' # "sender_port"
    BY <1>7
    DEF SubscriberArrives, Accept, SetReceiverId, SetReceiverPort, BeginPass, EndPass,
        vars, acceptVars
  <2>3. QED
    BY <1>5, <2>1, <2>2
<1>8. QED
  BY <1>1, <1>2, <1>3, <1>4, <1>6, <1>7 DEF Next, handle_subscriber

LEMMA ReceiversInit == Init => ReceiversStart
BY DEF Init, ReceiversStart, Nobody

LEMMA ReceiversStep ==
  TypeOK /\ PortsAreDealt /\ ReceiversStart /\ [Next]_vars => ReceiversStart'
<1> SUFFICES ASSUME TypeOK, PortsAreDealt, ReceiversStart, [Next]_vars
             PROVE  ReceiversStart'
  OBVIOUS
<1> SUFFICES ASSUME "start" \in prompt PROVE ReceiversStart'
  BY PromptStays DEF ReceiversStart
<1>t. /\ receiver \in [Subscribers ->
                         Threads({"none", "id", "port", "bind", "accept", "serving"})]
      /\ data_receiver \in Users
  BY DEF TypeOK
<1> USE DEF ReceiversStart
<1>1. CASE AssignPorts
  <2>1. UNCHANGED <<receiver, data_receiver>> /\ accept_pc' = "sender_id"
    BY <1>1 DEF AssignPorts, slotVars
  <2>2. QED
    BY <1>1, <2>1, AssignedPortIsNew
<1>2. CASE SetReceiverId
  <2>1. /\ ~Starting(receiver) /\ accept_pc' = "receiver_port"
        /\ data_receiver' = [data_receiver EXCEPT !.id = subscriber_id]
        /\ UNCHANGED <<receiver, port, subscriber_id>>
    BY <1>2 DEF SetReceiverId, NewId
  <2>2. data_receiver'.id = subscriber_id'
    BY <2>1, <1>t DEF Users
  <2>3. QED
    BY <2>1, <2>2 DEF Starting
<1>3. CASE SetReceiverPort
  <2>1. /\ subscriber_id \in Subscribers /\ data_receiver.id = subscriber_id
        /\ ~Starting(receiver) /\ UNCHANGED port
    BY <1>3 DEF SetReceiverPort, PortsAreDealt, Writing
  <2>2. /\ data_receiver'.id = subscriber_id
        /\ data_receiver'.port = port[subscriber_id].receiver
        /\ accept_pc' = "accept"
    BY <1>3, <2>1, <1>t DEF SetReceiverPort, Users
  <2>3. \A s \in Subscribers : IF s = subscriber_id THEN receiver'[s].pc = "id"
                                                   ELSE receiver'[s] = receiver[s]
    BY <1>3, <1>t DEF SetReceiverPort, Threads
  <2>4. QED
    BY <2>1, <2>2, <2>3 DEF Starting
<1>4. ASSUME NEW s \in Subscribers, handle_receiver(s) PROVE ReceiversStart'
  <2>1. UNCHANGED <<accept_pc, subscriber_id, port, data_receiver>>
    BY <1>4
    DEF handle_receiver, ReadReceiverId, ReadReceiverPort, BindReceiver, acceptVars,
        slotVars
  <2>2. \A t \in Subscribers : t # s => receiver'[t] = receiver[t]
    BY <1>4, <1>t DEF handle_receiver, ReadReceiverId, ReadReceiverPort, BindReceiver
  <2>3. CASE ReadReceiverId(s)
    <3>1. /\ receiver[s].pc = "id" /\ receiver'[s].pc = "port"
          /\ receiver'[s].id = data_receiver.id
      BY <2>3, <1>t DEF ReadReceiverId, Threads
    <3>2. QED
      BY <2>1, <2>2, <3>1 DEF Starting
  <2>4. CASE ReadReceiverPort(s)
    <3>1. /\ receiver[s].pc = "port" /\ receiver'[s].pc = "bind"
          /\ receiver'[s].id = receiver[s].id /\ receiver'[s].port = data_receiver.port
      BY <2>4, <1>t DEF ReadReceiverPort, Threads
    <3>2. QED
      BY <2>1, <2>2, <3>1 DEF Starting
  <2>5. CASE BindReceiver(s) /\ receiver' # receiver
    <3>1. /\ receiver[s].pc = "bind" /\ receiver'[s].pc = "accept"
          /\ receiver'[s].id = receiver[s].id /\ receiver'[s].port = receiver[s].port
      <4>1. receiver[s].pc = "bind" /\ receiver' = [receiver EXCEPT ![s].pc = "accept"]
        BY <2>5 DEF BindReceiver
      <4>2. QED
        BY <4>1, <1>t DEF Threads
    <3>2. QED
      BY <2>1, <2>2, <3>1 DEF Starting
  <2>6. CASE UNCHANGED receiver
    BY <2>1, <2>6 DEF Starting
  <2>7. QED
    BY <1>4, <2>3, <2>4, <2>5, <2>6 DEF handle_receiver
<1>5. CASE \E s \in Subscribers : ConnectMain(s)
  <2>1. PICK k \in Subscribers : ReceiverListening(k)
                                 /\ receiver' = [receiver EXCEPT ![k].pc = "serving"]
    BY <1>5 DEF ConnectMain, Answers
  <2>2. UNCHANGED <<accept_pc, subscriber_id, port, data_receiver>>
    BY <1>5 DEF ConnectMain, acceptVars, slotVars
  <2>3. /\ receiver[k].pc \in {"accept", "serving"} /\ receiver'[k].pc = "serving"
        /\ receiver'[k].id = receiver[k].id /\ receiver'[k].port = receiver[k].port
        /\ \A t \in Subscribers : t # k => receiver'[t] = receiver[t]
    BY <2>1, <1>t DEF ReceiverListening, Threads
  <2>4. QED
    BY <2>2, <2>3 DEF Starting
<1>6. ASSUME UNCHANGED <<receiver, data_receiver, port, subscriber_id>>,
             accept_pc' = accept_pc \/ accept_pc' # "receiver_port"
      PROVE  ReceiversStart'
  BY <1>6 DEF Starting
<1>7. ASSUME NEW s \in Subscribers,
             handle_sender(s) \/ BindRoutine(s) \/ ConnectMainRefused(s)
      PROVE  ReceiversStart'
  <2>1. UNCHANGED <<receiver, data_receiver, port, subscriber_id, accept_pc>>
    BY <1>7
    DEF handle_sender, ReadSenderId, ReadSenderPort, ConnectSender, ConnectSenderRefused,
        BindRoutine, ConnectMainRefused, acceptVars, slotVars
  <2>2. QED
    BY <1>6, <2>1
<1>8. CASE \/ SubscriberArrives \/ Accept \/ SetSenderId \/ SetSenderPort
           \/ BeginPass \/ EndPass \/ UNCHANGED vars
  <2>1. UNCHANGED <<receiver, data_receiver, port, subscriber_id>>
    BY <1>8
    DEF SubscriberArrives, Accept, SetSenderId, SetSenderPort, BeginPass, EndPass,
        vars, acceptVars, slotVars
  <2>2. accept_pc' = accept_pc \/ accept_pc' # "receiver_port"
    BY <1>8
    DEF SubscriberArrives, Accept, SetSenderId, SetSenderPort, BeginPass, EndPass,
        vars, acceptVars
  <2>3. QED
    BY <1>6, <2>1, <2>2
<1>9. QED
  BY <1>1, <1>2, <1>3, <1>4, <1>5, <1>7, <1>8 DEF Next, handle_subscriber, main

-----------------------------------------------------------------------------
(* Nobody has to exit                                                      *)

LEMMA ExistInit == Init => ReceiversExist
BY DealtPorts DEF Init, ReceiversExist

LEMMA ExistStep == TypeOK /\ PortsAreDealt /\ ReceiversExist /\ [Next]_vars
                     => ReceiversExist'
<1> SUFFICES ASSUME TypeOK, PortsAreDealt, ReceiversExist, [Next]_vars
             PROVE  ReceiversExist'
  OBVIOUS
<1>t. /\ receiver \in [Subscribers ->
                         Threads({"none", "id", "port", "bind", "accept", "serving"})]
      /\ subscriber_idx \in Int
  BY DEF TypeOK
<1> USE DEF ReceiversExist, Writing
\* No receiver thread goes back to where it does not exist.
<1>1. ASSUME UNCHANGED <<subscriber_idx, subscriber_id>>,
             accept_pc' = accept_pc \/ accept_pc' \in Writing \/ accept_pc \notin Writing,
             \A s \in Subscribers : receiver[s].pc # "none" => receiver'[s].pc # "none"
      PROVE  ReceiversExist'
  BY <1>1
<1>2. CASE AssignPorts
  <2>1. /\ subscriber_id' = subscriber_idx /\ subscriber_idx' = subscriber_idx + 1
        /\ accept_pc = "ports" /\ accept_pc' = "sender_id" /\ UNCHANGED receiver
    BY <1>2 DEF AssignPorts
  <2>2. \A s \in Subscribers :
          s < subscriber_idx' /\ s # subscriber_id' => s < subscriber_idx
    BY <2>1, <1>t, DealtPorts
  <2>3. QED
    BY <2>1, <2>2
<1>3. CASE SetReceiverPort
  <2>1. /\ UNCHANGED <<subscriber_idx, subscriber_id>> /\ accept_pc' = "accept"
        /\ subscriber_id \in Subscribers
        /\ receiver' = [receiver EXCEPT ![subscriber_id].pc = "id"]
    BY <1>3 DEF SetReceiverPort, PortsAreDealt
  <2>2. \A s \in Subscribers : IF s = subscriber_id THEN receiver'[s].pc = "id"
                                                   ELSE receiver'[s] = receiver[s]
    BY <2>1, <1>t DEF Threads
  <2>3. QED
    BY <2>1, <2>2
<1>4. CASE \/ SubscriberArrives \/ Accept \/ SetSenderId \/ SetSenderPort
           \/ SetReceiverId \/ BeginPass \/ EndPass \/ UNCHANGED vars
  <2>1. UNCHANGED <<subscriber_idx, subscriber_id, receiver>>
    BY <1>4
    DEF SubscriberArrives, Accept, SetSenderId, SetSenderPort, SetReceiverId, BeginPass,
        EndPass, vars, acceptVars
  <2>2. accept_pc' = accept_pc \/ accept_pc' \in Writing \/ accept_pc \notin Writing
    BY <1>4
    DEF SubscriberArrives, Accept, SetSenderId, SetSenderPort, SetReceiverId, BeginPass,
        EndPass, vars, acceptVars
  <2>3. QED
    BY <1>1, <2>1, <2>2
<1>5. ASSUME NEW s \in Subscribers,
             handle_sender(s) \/ handle_receiver(s) \/ BindRoutine(s) \/ main(s)
      PROVE  ReceiversExist'
  <2>1. UNCHANGED <<subscriber_idx, subscriber_id, accept_pc>>
    BY <1>5
    DEF handle_sender, ReadSenderId, ReadSenderPort, ConnectSender, ConnectSenderRefused,
        handle_receiver, ReadReceiverId, ReadReceiverPort, BindReceiver, BindRoutine,
        main, ConnectMain, ConnectMainRefused, acceptVars
  <2>2. ASSUME NEW k \in Subscribers, NEW pc \in {"port", "bind", "accept", "serving"},
               receiver'[k].pc = pc, \A t \in Subscribers : t # k => receiver'[t] = receiver[t]
        PROVE  ReceiversExist'
    BY <1>1, <2>1, <2>2
  <2>3. CASE UNCHANGED receiver
    BY <1>1, <2>1, <2>3
  <2>4. CASE handle_receiver(s)
    BY <2>2, <2>3, <2>4, <1>t
    DEF handle_receiver, ReadReceiverId, ReadReceiverPort, BindReceiver, Threads
  <2>5. CASE ConnectMain(s)
    <3>1. PICK k \in Subscribers : receiver' = [receiver EXCEPT ![k].pc = "serving"]
      BY <2>5 DEF ConnectMain
    <3>2. QED
      BY <2>2, <3>1, <1>t DEF Threads
  <2>6. CASE handle_sender(s) \/ BindRoutine(s) \/ ConnectMainRefused(s)
    <3>1. UNCHANGED receiver
      BY <2>6
      DEF handle_sender, ReadSenderId, ReadSenderPort, ConnectSender,
          ConnectSenderRefused, BindRoutine, ConnectMainRefused
    <3>2. QED
      BY <2>3, <3>1
  <2>7. QED
    BY <1>5, <2>4, <2>5, <2>6 DEF main
<1>6. QED
  BY <1>2, <1>3, <1>4, <1>5 DEF Next, handle_subscriber

\* With both assumptions on timing a sender thread finds its subscriber
\* listening, ...
LEMMA SenderIsNotRefused ==
  ASSUME TypeOK, PortsAreDealt, SubscribersCanListen, SendersStart, NothingGoesWrong,
         prompt = {"start", "sleep"}, NEW s \in Subscribers
  PROVE  ~ConnectSenderRefused(s)
<1> SUFFICES ASSUME ConnectSenderRefused(s) PROVE FALSE
  OBVIOUS
<1>1. sender[s].pc = "connect" /\ AllBound
  BY DEF ConnectSenderRefused, SleepIsOver
<1>2. s < subscriber_idx
  BY <1>1, DealtPorts DEF PortsAreDealt, TypeOK
<1>3. routine_pc[s] \notin {"none", "bind", "failed"}
  BY <1>1, <1>2 DEF NothingGoesWrong, AllBound, SubscribersCanListen
<1>4. Listening(s)
  BY <1>3 DEF Listening, TypeOK
<1>5. ReceiverPort(s) = sender[s].port
  BY <1>1 DEF SendersStart, ReceiverPort
<1>6. QED
  BY <1>4, <1>5 DEF ConnectSenderRefused

LEMMA PortsGiven ==
  ASSUME PortsAreDealt, NEW s \in Subscribers, s < subscriber_idx
  PROVE  port[s].receiver = FirstPort + 2 * s /\ port[s].sender = FirstPort + 2 * s + 1
<1>1. port[s] = PortsOf(s)
  BY DEF PortsAreDealt
<1>2. QED
  BY <1>1 DEF PortsOf

\* ... a receiver thread finds its port free, ...
LEMMA ReceiverFindsItsPort ==
  ASSUME TypeOK, PortsAreDealt, ReceiversStart, "start" \in prompt,
         NEW s \in Subscribers, receiver[s].pc = "bind"
  PROVE  ~InUse(receiver[s].port)
<1>1. s < subscriber_idx /\ s \in Int /\ FirstPort \in Int
  BY Constants, DealtPorts DEF PortsAreDealt, TypeOK
<1>2. receiver[s].port = FirstPort + 2 * s
  BY <1>1, PortsGiven DEF ReceiversStart
<1>3. ASSUME NEW t \in Subscribers, Listening(t) PROVE ReceiverPort(t) # receiver[s].port
  <2>1. t < subscriber_idx /\ t \in Int
    BY <1>3, DealtPorts DEF Listening, PortsAreDealt, TypeOK
  <2>2. ReceiverPort(t) = FirstPort + 2 * t + 1
    BY <2>1, PortsGiven DEF ReceiverPort
  <2>3. QED
    BY <1>1, <1>2, <2>1, <2>2
<1>4. ASSUME NEW t \in Subscribers, ReceiverListening(t)
      PROVE  receiver[t].port # receiver[s].port
  <2>1. t < subscriber_idx /\ t \in Int
    BY <1>4, DealtPorts DEF ReceiverListening, PortsAreDealt, TypeOK
  <2>2. receiver[t].port = FirstPort + 2 * t
    BY <1>4, <2>1, PortsGiven DEF ReceiverListening, ReceiversStart
  <2>3. t # s
    BY <1>4 DEF ReceiverListening
  <2>4. QED
    BY <1>1, <1>2, <2>1, <2>2, <2>3
<1>5. QED
  BY <1>3, <1>4 DEF InUse

\* ... and a subscriber its receiver thread.
LEMMA MainIsNotRefused ==
  ASSUME TypeOK, PortsAreDealt, ReceiversStart, ReceiversExist, NothingGoesWrong,
         prompt = {"start", "sleep"}, NEW s \in Subscribers
  PROVE  ~ConnectMainRefused(s)
<1> SUFFICES ASSUME ConnectMainRefused(s) PROVE FALSE
  OBVIOUS
<1>1. main_pc[s] = "connect" /\ AllBound
  BY DEF ConnectMainRefused, SleepIsOver
<1>2. s < subscriber_idx
  BY <1>1, DealtPorts DEF PortsAreDealt, TypeOK
<1>3. receiver[s].pc \notin {"none", "id", "port", "bind"}
  BY <1>1, <1>2 DEF ReceiversExist, AllBound, Writing
<1>4. receiver[s].pc \in {"none", "id", "port", "bind", "accept", "serving"}
  BY DEF TypeOK, Threads
<1>5. ReceiverListening(s) /\ receiver[s].port = port[s].receiver
  BY <1>3, <1>4 DEF ReceiverListening, ReceiversStart
<1>6. up
  BY DEF NothingGoesWrong
<1>7. QED
  BY <1>5, <1>6 DEF ConnectMainRefused, Answers

LEMMA GoodInit == Init => NothingGoesWrong
BY DealtPorts DEF Init, NothingGoesWrong

LEMMA GoodStep == IInv /\ [Next]_vars => NothingGoesWrong'
<1> SUFFICES ASSUME IInv, [Next]_vars, prompt = {"start", "sleep"}
             PROVE  NothingGoesWrong'
  BY PromptStays DEF NothingGoesWrong
<1>t. /\ DOMAIN routine_pc = Subscribers /\ DOMAIN main_pc = Subscribers
      /\ subscriber_idx \in Int
  BY DEF IInv, TypeOK
<1>i. /\ TypeOK /\ PortsAreDealt /\ ReceiversBindEven /\ SubscribersCanListen
      /\ SendersStart /\ ReceiversStart /\ ReceiversExist /\ NothingGoesWrong
  BY DEF IInv
<1>1. ASSUME up', UNCHANGED subscriber_idx,
             \A s \in Subscribers :
               /\ main_pc'[s] = "exited" => main_pc[s] = "exited"
               /\ routine_pc'[s] = "none" => routine_pc[s] = "none"
      PROVE  NothingGoesWrong'
  BY <1>1, <1>i DEF NothingGoesWrong
<1>u. up
  BY <1>i DEF NothingGoesWrong
<1>2. CASE AssignPorts
  <2>1. /\ subscriber_idx' = subscriber_idx + 1 /\ UNCHANGED up
        /\ routine_pc' = [routine_pc EXCEPT ![subscriber_idx] = "bind"]
        /\ main_pc' = [main_pc EXCEPT ![subscriber_idx] = "connect"]
    BY <1>2 DEF AssignPorts
  <2>2. \A s \in Subscribers : s < subscriber_idx' => s < subscriber_idx \/ s = subscriber_idx
    BY <2>1, <1>t, DealtPorts
  <2>3. QED
    BY <2>1, <2>2, <1>t, <1>i DEF NothingGoesWrong
<1>3. CASE \/ SubscriberArrives \/ Accept \/ SetSenderId \/ SetSenderPort
           \/ SetReceiverId \/ SetReceiverPort \/ BeginPass \/ EndPass \/ UNCHANGED vars
  <2>1. UNCHANGED <<up, subscriber_idx, main_pc, routine_pc>>
    BY <1>3
    DEF SubscriberArrives, Accept, SetSenderId, SetSenderPort, SetReceiverId,
        SetReceiverPort, BeginPass, EndPass, vars, acceptVars, subscriberVars
  <2>2. QED
    BY <1>1, <1>u, <2>1
<1>4. ASSUME NEW s \in Subscribers, handle_sender(s) PROVE NothingGoesWrong'
  <2>1. ReadSenderId(s) \/ ReadSenderPort(s) \/ ConnectSender(s)
    BY <1>4, <1>i, SenderIsNotRefused DEF handle_sender
  <2>2. UNCHANGED <<up, subscriber_idx, main_pc>>
    BY <2>1 DEF ReadSenderId, ReadSenderPort, ConnectSender, acceptVars, subscriberVars
  <2>3. \A k \in Subscribers : routine_pc'[k] = "none" => routine_pc[k] = "none"
    BY <2>1, <1>t DEF ReadSenderId, ReadSenderPort, ConnectSender, subscriberVars
  <2>4. QED
    BY <1>1, <1>u, <2>2, <2>3
<1>5. ASSUME NEW s \in Subscribers, handle_receiver(s) PROVE NothingGoesWrong'
  <2>1. UNCHANGED <<subscriber_idx, main_pc, routine_pc>>
    BY <1>5
    DEF handle_receiver, ReadReceiverId, ReadReceiverPort, BindReceiver, acceptVars,
        subscriberVars
  <2>2. BindReceiver(s) => UNCHANGED up
    BY <1>i, ReceiverFindsItsPort DEF BindReceiver
  <2>3. UNCHANGED up
    BY <1>5, <2>2 DEF handle_receiver, ReadReceiverId, ReadReceiverPort
  <2>4. QED
    BY <1>1, <1>u, <2>1, <2>3
<1>6. ASSUME NEW s \in Subscribers, BindRoutine(s) PROVE NothingGoesWrong'
  <2>1. routine_pc' = [routine_pc EXCEPT ![s] = "accept"]
        /\ UNCHANGED <<up, subscriber_idx, main_pc>>
    BY <1>6, <1>i, FreeToBind DEF BindRoutine, acceptVars
  <2>2. QED
    BY <1>1, <1>u, <1>t, <2>1
<1>7. ASSUME NEW s \in Subscribers, main(s) PROVE NothingGoesWrong'
  <2>1. ConnectMain(s)
    BY <1>7, <1>i, MainIsNotRefused DEF main
  <2>2. /\ UNCHANGED <<up, subscriber_idx, routine_pc>>
        /\ main_pc' = [main_pc EXCEPT ![s] = "typing"]
    BY <2>1 DEF ConnectMain, acceptVars
  <2>3. QED
    BY <1>1, <1>u, <1>t, <2>2
<1>8. QED
  BY <1>2, <1>3, <1>4, <1>5, <1>6, <1>7 DEF Next, handle_subscriber

-----------------------------------------------------------------------------
(* The theorems                                                            *)

LEMMA Invariance == Spec => []IInv
<1>1. Init => IInv
  <2>1. Init => SubscribersCanListen
    BY DEF Init, SubscribersCanListen
  <2>2. QED
    BY <2>1, TypedInit, DealtInit, EvenInit, SendersInit, ReceiversInit, ExistInit, GoodInit
    DEF IInv
<1>2. IInv /\ [Next]_vars => IInv'
  <2> SUFFICES ASSUME IInv, [Next]_vars PROVE IInv'
    OBVIOUS
  <2>1. TypeOK' /\ PortsAreDealt'
    BY TypedStep, DealtStep DEF IInv
  <2>2. ReceiversBindEven' /\ SubscribersCanListen'
    BY EvenStep, ListenStep DEF IInv
  <2>3. SendersStart' /\ ReceiversStart' /\ ReceiversExist'
    BY SendersStep, ReceiversStep, ExistStep DEF IInv
  <2>4. NothingGoesWrong'
    BY GoodStep
  <2>5. QED
    BY <2>1, <2>2, <2>3, <2>4 DEF IInv
<1>3. QED
  BY <1>1, <1>2, PTL DEF Spec

\* broker.cpp, handle_subscriber: ids and ports stay in their ranges, however
\* many subscribers there are.
THEOREM TypeCorrect == Spec => []TypeOK
<1>1. IInv => TypeOK
  BY DEF IInv
<1>2. QED
  BY <1>1, Invariance, PTL

\* subscriber.cpp, receiver_routine: whatever arguments the broker's threads
\* mix up, the port a subscriber binds is free.
THEOREM EverybodyListens == Spec => []SubscribersCanListen
<1>1. IInv => SubscribersCanListen
  BY DEF IInv
<1>2. QED
  BY <1>1, Invariance, PTL

\* broker.cpp, handle_sender and handle_receiver: if every new thread has read
\* its argument before handle_subscriber writes the next one, each serves the
\* subscriber it was started for.
THEOREM EachItsOwnUser == Spec => []ThreadsServeTheirUser
<1>1. SendersStart /\ ReceiversStart => ThreadsServeTheirUser
  BY DEF SendersStart, ReceiversStart, ThreadsServeTheirUser, ReceiverListening
<1>2. IInv => ThreadsServeTheirUser
  BY <1>1 DEF IInv
<1>3. QED
  BY <1>2, Invariance, PTL

\* broker.cpp and subscriber.cpp: if, besides, everybody who is about to bind
\* has done so before a sleep(1) is over, no bind() and no connect() fails.
THEOREM EverybodyStays == Spec => []NobodyExits
<1>1. NothingGoesWrong => NobodyExits
  BY DEF NothingGoesWrong, NobodyExits
<1>2. IInv => NobodyExits
  BY <1>1 DEF IInv
<1>3. QED
  BY <1>2, Invariance, PTL
=============================================================================
