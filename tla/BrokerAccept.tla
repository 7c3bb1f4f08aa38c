---------------------------- MODULE BrokerAccept ----------------------------
(***************************************************************************)
(* How a subscriber is connected to the broker: handle_subscriber accepts  *)
(* it, gives it an id and two ports, and starts its sender and receiver    *)
(* thread; the subscriber listens on one port and connects to the other.   *)
(* The two threads find their id and port in `data_sender` and             *)
(* `data_receiver`, locals of handle_subscriber's loop that the next       *)
(* subscriber's values are written to, and both sides sleep one second     *)
(* where they should wait for the other side to listen.                    *)
(*                                                                         *)
(* The k-th subscriber accepted is named k - 1, as subscriber_idx names it.*)
(* What the threads do once they are connected is the module Broker; that  *)
(* a subscriber ends or is killed before it is connected is not modelled.  *)
(***************************************************************************)
EXTENDS Integers, FiniteSets

CONSTANTS
  MaxSubscribers,  \* bound: subscribers that connect
  FirstPort,       \* port_for_each_subscriber at the start
  Arrivals,        \* bound: those of them that connect, for each member of Settings
  Settings         \* the sets of assumptions on timing to be looked at:
                   \* "start": a new thread has read its argument before
                   \*          handle_subscriber writes the next one
                   \* "sleep": whoever is about to bind has done so before
                   \*          another's sleep(1) is over

ASSUME SubscribersAssumption == MaxSubscribers \in Nat
ASSUME PortAssumption == FirstPort \in Nat /\ FirstPort + 2 * MaxSubscribers - 1 <= 65535
ASSUME SettingAssumption == Settings \subseteq SUBSET {"start", "sleep"}
ASSUME ArrivalAssumption == Arrivals \in [Settings -> 0..MaxSubscribers]

Subscribers == 0..(MaxSubscribers - 1)
Ports == FirstPort..(FirstPort + 2 * MaxSubscribers - 1)
NoPort == -1

VARIABLES
  up,                        \* the broker process has not exited
  arrived,                   \* subscribers that have connected to the broker
  accept_pc,                 \* control point of handle_subscriber
  subscriber_id,             \* its local: the subscriber being accepted
  subscriber_idx,            \* next id
  port_for_each_subscriber,  \* next port
  in_pass,                   \* a sender thread holds mutex_sender for a pass
  port,                      \* subscriber -> the two ports it was given
  data_sender,               \* the argument of the sender threads
  data_receiver,             \* the argument of the receiver threads
  sender,                    \* thread -> [pc, id, port] of handle_sender
  receiver,                  \* thread -> [pc, id, port] of handle_receiver
  routine_pc,                \* subscriber -> receiver_routine
  main_pc,                   \* subscriber -> its main thread
  prompt                     \* the assumptions: a member of Settings, the same in all states

acceptVars == <<arrived, accept_pc, subscriber_id, subscriber_idx,
                port_for_each_subscriber, port>>
slotVars == <<data_sender, data_receiver>>
subscriberVars == <<routine_pc, main_pc, prompt>>
vars == <<up, acceptVars, in_pass, slotVars, sender, receiver, subscriberVars>>

Users == [id : Subscribers \cup {-1}, port : Ports \cup {NoPort}]
Threads(PCs) ==
  [pc : PCs, id : Subscribers \cup {-1}, port : Ports \cup {NoPort}]

TypeOK ==
  /\ up \in BOOLEAN
  /\ arrived \in 0..MaxSubscribers
  /\ accept_pc \in {"accept", "ports", "sender_id", "sender_port",
                    "receiver_id", "receiver_port"}
  /\ subscriber_id \in Subscribers \cup {-1}
  /\ subscriber_idx \in 0..MaxSubscribers
  /\ port_for_each_subscriber \in FirstPort..(FirstPort + 2 * MaxSubscribers)
  /\ in_pass \in BOOLEAN
  /\ port \in [Subscribers -> [receiver : Ports \cup {NoPort},
                               sender : Ports \cup {NoPort}]]
  /\ data_sender \in Users
  /\ data_receiver \in Users
  /\ sender \in [Subscribers ->
                   Threads({"none", "id", "port", "connect", "serving"})]
  /\ receiver \in [Subscribers ->
                   Threads({"none", "id", "port", "bind", "accept", "serving"})]
  /\ routine_pc \in [Subscribers -> {"none", "bind", "accept", "reading", "failed"}]
  /\ main_pc \in [Subscribers -> {"none", "connect", "typing", "exited"}]
  /\ prompt \in Settings

Nobody == [pc |-> "none", id |-> -1, port |-> NoPort]

Init ==
  /\ up = TRUE
  /\ arrived = 0
  /\ accept_pc = "accept"
  /\ subscriber_id = -1
  /\ subscriber_idx = 0
  /\ port_for_each_subscriber = FirstPort
  /\ in_pass = FALSE
  /\ port = [s \in Subscribers |-> [receiver |-> NoPort, sender |-> NoPort]]
  /\ data_sender = [id |-> -1, port |-> NoPort]
  /\ data_receiver = [id |-> -1, port |-> NoPort]
  /\ sender = [s \in Subscribers |-> Nobody]
  /\ receiver = [s \in Subscribers |-> Nobody]
  /\ routine_pc = [s \in Subscribers |-> "none"]
  /\ main_pc = [s \in Subscribers |-> "none"]
  /\ prompt \in Settings

(***************************************************************************)
(* handle_subscriber.  It needs mutex_sender, which the sender threads     *)
(* already running hold while they make a pass.                            *)
(***************************************************************************)
SubscriberArrives ==
  /\ up
  /\ arrived < Arrivals[prompt]
  /\ arrived' = arrived + 1
  /\ UNCHANGED <<up, accept_pc, subscriber_id, subscriber_idx,
                 port_for_each_subscriber, port, in_pass, slotVars, sender, receiver,
                 subscriberVars>>

\* Mutant: accept() is taken to have succeeded.
AcceptedAnyway == TRUE

ConnectionWaits == subscriber_idx < arrived

Accept ==
  /\ up
  /\ accept_pc = "accept"
  /\ ConnectionWaits
  /\ accept_pc' = "ports"
  /\ UNCHANGED <<up, arrived, subscriber_id, subscriber_idx,
                 port_for_each_subscriber, port, in_pass, slotVars, sender, receiver,
                 subscriberVars>>

\* Mutant: only one of the two increments happens.
OnePortTaken == 1

PortsTaken == 2

\* The critical section, and the send() of the ports after it; the subscriber
\* receives them and starts its receiver_routine.
AssignPorts ==
  /\ up
  /\ accept_pc = "ports"
  /\ ~in_pass
  /\ subscriber_id' = subscriber_idx
  /\ subscriber_idx' = subscriber_idx + 1
  /\ port' = [port EXCEPT ![subscriber_idx] =
                [receiver |-> port_for_each_subscriber,
                 sender |-> port_for_each_subscriber + PortsTaken - 1]]
  /\ port_for_each_subscriber' = port_for_each_subscriber + PortsTaken
  /\ routine_pc' = [routine_pc EXCEPT ![subscriber_idx] = "bind"]
  /\ main_pc' = [main_pc EXCEPT ![subscriber_idx] = "connect"]
  /\ accept_pc' = "sender_id"
  /\ UNCHANGED <<up, arrived, in_pass, slotVars, sender, receiver, prompt>>

\* Mutant: the thread is given the global counter instead of the local copy.
NextId == subscriber_idx

NewId == subscriber_id

Starting(thread) == \E s \in Subscribers : thread[s].pc \in {"id", "port"}

SetSenderId ==
  /\ up
  /\ accept_pc = "sender_id"
  /\ "start" \in prompt => ~Starting(sender)
  /\ data_sender' = [data_sender EXCEPT !.id = NewId]
  /\ accept_pc' = "sender_port"
  /\ UNCHANGED <<up, arrived, subscriber_id, subscriber_idx, in_pass,
                 port_for_each_subscriber, port, data_receiver, sender, receiver,
                 subscriberVars>>

SetSenderPort ==
  /\ up
  /\ accept_pc = "sender_port"
  /\ data_sender' = [data_sender EXCEPT !.port = port[subscriber_id].sender]
  /\ sender' = [sender EXCEPT ![subscriber_id].pc = "id"]
  /\ accept_pc' = "receiver_id"
  /\ UNCHANGED <<up, arrived, subscriber_id, subscriber_idx, in_pass,
                 port_for_each_subscriber, port, data_receiver, receiver,
                 subscriberVars>>

SetReceiverId ==
  /\ up
  /\ accept_pc = "receiver_id"
  /\ "start" \in prompt => ~Starting(receiver)
  /\ data_receiver' = [data_receiver EXCEPT !.id = NewId]
  /\ accept_pc' = "receiver_port"
  /\ UNCHANGED <<up, arrived, subscriber_id, subscriber_idx, in_pass,
                 port_for_each_subscriber, port, data_sender, sender, receiver,
                 subscriberVars>>

SetReceiverPort ==
  /\ up
  /\ accept_pc = "receiver_port"
  /\ data_receiver' = [data_receiver EXCEPT !.port = port[subscriber_id].receiver]
  /\ receiver' = [receiver EXCEPT ![subscriber_id].pc = "id"]
  /\ accept_pc' = "accept"
  /\ UNCHANGED <<up, arrived, subscriber_id, subscriber_idx, in_pass,
                 port_for_each_subscriber, port, data_sender, sender, subscriberVars>>

(***************************************************************************)
(* The first lines of handle_sender and handle_receiver, up to the loop    *)
(* that the module Broker models.                                          *)
(***************************************************************************)
Listening(s) == routine_pc[s] \in {"accept", "reading"}
ReceiverListening(s) == receiver[s].pc \in {"accept", "serving"}

\* Mutant: the subscriber does not cross the two ports over.
ReceiverPortStraight(s) == port[s].receiver

ReceiverPort(s) == port[s].sender

InUse(p) ==
  \E s \in Subscribers :
    \/ Listening(s) /\ ReceiverPort(s) = p
    \/ ReceiverListening(s) /\ receiver[s].port = p

\* Everybody on the way to a bind() has come past it: more than two processes
\* that sleep a second each need, so that what is said under "sleep" says
\* nothing of a bind() that is late.
AllBound ==
  /\ accept_pc \in {"accept", "ports"}
  /\ \A s \in Subscribers :
       /\ receiver[s].pc \notin {"id", "port", "bind"}
       /\ routine_pc[s] # "bind"

SleepIsOver == "sleep" \in prompt => AllBound

ReadSenderId(s) ==
  /\ up
  /\ sender[s].pc = "id"
  /\ sender' = [sender EXCEPT ![s].pc = "port", ![s].id = data_sender.id]
  /\ UNCHANGED <<up, acceptVars, in_pass, slotVars, receiver, subscriberVars>>

ReadSenderPort(s) ==
  /\ up
  /\ sender[s].pc = "port"
  /\ sender' = [sender EXCEPT ![s].pc = "connect", ![s].port = data_sender.port]
  /\ UNCHANGED <<up, acceptVars, in_pass, slotVars, receiver, subscriberVars>>

\* A second connection to a port is taken by the listen queue and never read.
ConnectSender(s) ==
  /\ up
  /\ sender[s].pc = "connect"
  /\ SleepIsOver
  /\ \E k \in Subscribers :
       /\ Listening(k)
       /\ ReceiverPort(k) = sender[s].port
       /\ routine_pc' = [routine_pc EXCEPT ![k] = "reading"]
  /\ sender' = [sender EXCEPT ![s].pc = "serving"]
  /\ UNCHANGED <<up, acceptVars, in_pass, slotVars, receiver, main_pc, prompt>>

\* exit(EXIT_FAILURE) after connect() was refused.
ConnectSenderRefused(s) ==
  /\ up
  /\ sender[s].pc = "connect"
  /\ SleepIsOver
  /\ ~\E k \in Subscribers : Listening(k) /\ ReceiverPort(k) = sender[s].port
  /\ up' = FALSE
  /\ UNCHANGED <<acceptVars, in_pass, slotVars, sender, receiver, subscriberVars>>

ReadReceiverId(s) ==
  /\ up
  /\ receiver[s].pc = "id"
  /\ receiver' = [receiver EXCEPT ![s].pc = "port", ![s].id = data_receiver.id]
  /\ UNCHANGED <<up, acceptVars, in_pass, slotVars, sender, subscriberVars>>

ReadReceiverPort(s) ==
  /\ up
  /\ receiver[s].pc = "port"
  /\ receiver' = [receiver EXCEPT ![s].pc = "bind", ![s].port = data_receiver.port]
  /\ UNCHANGED <<up, acceptVars, in_pass, slotVars, sender, subscriberVars>>

BindReceiver(s) ==
  /\ up
  /\ receiver[s].pc = "bind"
  /\ IF InUse(receiver[s].port)
     THEN up' = FALSE /\ UNCHANGED receiver
     ELSE receiver' = [receiver EXCEPT ![s].pc = "accept"] /\ UNCHANGED up
  /\ UNCHANGED <<acceptVars, in_pass, slotVars, sender, subscriberVars>>

\* The passes of module Broker: a sender thread that serves takes mutex_sender
\* and gives it back, unless it blocks for ever in send().
BeginPass ==
  /\ up
  /\ ~in_pass
  /\ \E s \in Subscribers : sender[s].pc = "serving"
  /\ in_pass' = TRUE
  /\ UNCHANGED <<up, acceptVars, slotVars, sender, receiver, subscriberVars>>

EndPass ==
  /\ up
  /\ in_pass
  /\ in_pass' = FALSE
  /\ UNCHANGED <<up, acceptVars, slotVars, sender, receiver, subscriberVars>>

(***************************************************************************)
(* The subscriber process: receiver_routine binds and listens, main sleeps *)
(* and connects; an error in either ends both.                             *)
(***************************************************************************)
BindRoutine(s) ==
  /\ routine_pc[s] = "bind"
  /\ IF InUse(ReceiverPort(s))
     THEN /\ routine_pc' = [routine_pc EXCEPT ![s] = "failed"]
          /\ main_pc' = [main_pc EXCEPT ![s] = "exited"]
     ELSE /\ routine_pc' = [routine_pc EXCEPT ![s] = "accept"]
          /\ UNCHANGED main_pc
  /\ UNCHANGED <<up, acceptVars, in_pass, slotVars, sender, receiver, prompt>>

\* With the broker gone nothing listens any more.
Answers(s, k) == up /\ ReceiverListening(k) /\ receiver[k].port = port[s].receiver

ConnectMain(s) ==
  /\ main_pc[s] = "connect"
  /\ SleepIsOver
  /\ \E k \in Subscribers :
       /\ Answers(s, k)
       /\ receiver' = [receiver EXCEPT ![k].pc = "serving"]
  /\ main_pc' = [main_pc EXCEPT ![s] = "typing"]
  /\ UNCHANGED <<up, acceptVars, in_pass, slotVars, sender, routine_pc, prompt>>

ConnectMainRefused(s) ==
  /\ main_pc[s] = "connect"
  /\ SleepIsOver
  /\ ~\E k \in Subscribers : Answers(s, k)
  /\ main_pc' = [main_pc EXCEPT ![s] = "exited"]
  /\ routine_pc' = [routine_pc EXCEPT ![s] = "none"]
  /\ UNCHANGED <<up, acceptVars, in_pass, slotVars, sender, receiver, prompt>>

handle_subscriber ==
  \/ Accept \/ AssignPorts \/ SetSenderId \/ SetSenderPort \/ SetReceiverId
  \/ SetReceiverPort

handle_sender(s) ==
  \/ ReadSenderId(s) \/ ReadSenderPort(s) \/ ConnectSender(s)
  \/ ConnectSenderRefused(s)

handle_receiver(s) == ReadReceiverId(s) \/ ReadReceiverPort(s) \/ BindReceiver(s)

main(s) == ConnectMain(s) \/ ConnectMainRefused(s)

Next ==
  \/ SubscriberArrives \/ handle_subscriber \/ BeginPass \/ EndPass
  \/ \E s \in Subscribers :
       handle_sender(s) \/ handle_receiver(s) \/ BindRoutine(s) \/ main(s)

Spec == Init /\ [][Next]_vars

\* Every thread that can go on does.  That a pass ends, or that a mutex goes to
\* the thread that has waited longest, is not assumed.
FairSpec ==
  /\ Spec
  /\ WF_vars(handle_subscriber)
  /\ \A s \in Subscribers :
       /\ WF_vars(handle_sender(s))
       /\ WF_vars(handle_receiver(s))
       /\ WF_vars(BindRoutine(s))
       /\ WF_vars(main(s))

\* No pass lasts for ever.  In module Broker this takes subscribers that read
\* (SenderLockIsReleased): one that does not leaves send() blocked with the mutex
\* held, and handle_subscriber with it.
PassesEnd == WF_vars(EndPass)

\* The mutex, given back again and again, is not taken by the next pass every
\* time before handle_subscriber gets it.  pthread_mutex_lock does not promise
\* this.
MutexIsHandedOver == SF_vars(AssignPorts)

-----------------------------------------------------------------------------
(* Properties                                                              *)

\* A subscriber always finds the port it was given free to listen on: the
\* receiver threads of the broker, though they may confuse their arguments and
\* then bind each other's ports, never bind one a subscriber listens on.
SubscribersCanListen == \A s \in Subscribers : routine_pc[s] # "failed"

\* When new threads read their argument before the next subscriber's is
\* written, a sender thread that serves is connected to the subscriber whose
\* subscriptions it looks up, and no two threads serve the same one.
ThreadsServeTheirUser ==
  "start" \in prompt =>
  \A s \in Subscribers :
    /\ sender[s].pc = "serving" => sender[s].id = s /\ sender[s].port = port[s].sender
    /\ ReceiverListening(s) => receiver[s].id = s /\ receiver[s].port = port[s].receiver

\* With both timing assumptions no connection set-up ends the broker or a
\* subscriber.
NobodyExits == prompt = {"start", "sleep"} => up /\ \A s \in Subscribers : main_pc[s] # "exited"

\* ... and every subscriber that has connected is at last served by a sender
\* and a receiver thread, however many passes the earlier ones cause, if those
\* passes end and handle_subscriber's turn on mutex_sender comes.
ArrivedAreServed ==
  PassesEnd /\ MutexIsHandedOver =>
    \A s \in Subscribers :
      prompt = {"start", "sleep"} /\ arrived > s
      ~> /\ sender[s].pc = "serving" /\ receiver[s].pc = "serving"
         /\ routine_pc[s] = "reading" /\ main_pc[s] = "typing"

\* README.md:19, item 4: a subscriber receives the messages of the topics it
\* has entered, so the sender thread connected to it looks up its own id.
EachReadsItsOwnTopics ==
  \A s, k \in Subscribers :
    sender[s].pc = "serving" /\ sender[s].port = port[k].sender => sender[s].id = k
=============================================================================
