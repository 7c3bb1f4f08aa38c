# Verification of HYU-2021-Network-Protocol

TLA+ specifications of the programs of this repository, the instances TLC
checks and the theorems TLAPS proves. Source paths are relative to `src/`;
`broker.cpp`, `publisher.cpp` and `subscriber.cpp` are those of
`publisher and subscriber architecture/`, `server.c` and `client.c` without
a directory those of `Socket (Multi Threaded)/`, `FTP/server.c` and
`FTP/client.c` those of `FTP/`.

## 1. The system

| part | state | operations | interacts with |
|---|---|---|---|
| **Broker, delivery** (`broker.cpp` 116-221, 322-570) | `topics` (topic -> vector of contents), `user_informations` (user -> topic -> subscribed?, cursor), `mutex_message`, `mutex_sender`, `p_thread_cond` | `handle_publisher` receives and registers a message and broadcasts; one `handle_sender` per user wakes up, passes over the user's topics, sends what lies beyond the cursor and stores the cursor; one `handle_receiver` per user toggles subscriptions | threads through the two maps, a mutex each and the condition variable; processes through one connection per message (publisher) or two for life (subscriber) |
| **Broker, set-up** (`broker.cpp` 223-361, 407-463; `subscriber.cpp` 52-160, 175-243) | `subscriber_idx`, `port_for_each_subscriber`, the locals `data_sender`, `data_receiver` | `handle_subscriber` accepts, assigns an id and two ports, starts two threads; both sides bind, sleep a second, connect | shares `mutex_sender` with the passes |
| **Publisher** (`publisher.cpp`) | none that lasts | `post()`: connect, send one message, close | broker, port 1001 |
| **Subscriber** (`subscriber.cpp`) | the two ports | main sends the topics typed, `receiver_routine` prints messages | broker, ports 20000 and up |
| **Chat server** (`server.c`) | `messages`, `front`, `rear`, `socketOfClients`, `userId` (by address), `mutex` | main accepts ten clients; a receiver thread each stamps and enqueues; one sender thread dequeues and sends to all | chat clients |
| **Chat client** (`client.c`) | none that lasts | main sends lines, a thread prints what comes | chat server |
| **FTP server** (`FTP/server.c`) | `authStatus`, `relativePath`, `portIdx`, `dataCommand`, `fileName`, `dataThread`, `data_server_fd`, `gmutex`, `gcond` | `main` accepts one client at a time; `execute` runs USER, PASS, PASV, PORT, NLST, RETR, CWD, TYPE, QUIT; a data thread per PASV or PORT binds, waits for the command, listens, sends | control connection and one data connection per transfer |
| **FTP client** (`FTP/client.c`) | `sentCommand`, `dataThread`, `data_server_addr`, `gmutex`, `gcond` | `main` reads a reply, runs `callback`, prompts, sends; a data thread per PASV or PORT reads the port, waits, connects, receives | as above |
| **Echoer** (`Socket (Single Threaded)/echoer.c`) | a line buffer | server and client of one line at a time | - |

What makes them hard:

- *Broker.* Readers and the writer of `topics` hold different mutexes;
  `user_informations` is changed under none (the lock at broker.cpp:478 is
  commented out); `pthread_cond_wait` has no predicate, so wakeups can be lost
  or spurious; `send()` to a slow subscriber blocks with the mutex held and one
  to a subscriber that has gone raises SIGPIPE, which is not handled; the end
  of a subscriber looks like an endless series of requests for the empty topic.
  Correct means: topics only grow, a subscriber gets a topic in order and
  without repetition, passes exclude each other, publishers never wait for
  subscribers.
- *Set-up.* New threads read their argument from a local that the next
  iteration writes; `sleep(1)` stands for synchronisation. Correct means: every
  subscriber is served by two threads that know its id and port, and nobody
  exits.
- *Chat.* All threads read one `userId`; full and empty are tested before the
  mutex is taken and cannot be told apart by `front` and `rear`; the slot is
  sent after the mutex has been released; SIGPIPE ends the server. Correct
  means: what is broadcast is what was enqueued, in order, to everyone.
- *FTP.* Two processes with a main and a data thread each, four of them in
  every transfer: both mains signal a condition variable without predicate and
  then join. The server announces the transfer before its data thread listens.
  Globals carry the command to the data threads; the session, its mode and its
  threads outlive the connection; ports go through text and a table without a
  limit. Correct means: request and reply stay in step, both sides mean the same
  port and the same command, each data thread is joined once, and a transfer
  that was opened ends.

`PROJECT.json` lists each hazard at its line with the properties about it.

## 2. Modules

| module | what it is |
|---|---|
| `TopicFeed` | abstract specification of the broker: logs that only grow, feeds that go forward through them, and replays |
| `Broker` | the threads of `broker.cpp` once connected, with the processes around them |
| `BrokerProperties` | the properties of `Broker`, the refinement mapping to `TopicFeed`, and two promises the code does not keep |
| `BrokerProofs` | theorems about `Broker`, with proofs |
| `FeedProofs` | `Broker` implements `TopicFeed`, with proof |
| `BrokerAccept` | connection set-up and its properties |
| `AcceptProofs` | theorems about `BrokerAccept`, with proofs |
| `ChatServer`, `ChatProperties` | the chat room; its properties and two promises it does not keep |
| `ChatProofs` | theorems about the chat room, with proofs |
| `FtpSession`, `FtpProperties` | FTP server and client together; their properties and a promise they do not keep |
| `FtpProofs`, `FtpConversation`, `FtpTransfers`, `FtpPorts` | theorems about the FTP session, with proofs; each module EXTENDS the one before and adds a layer to the invariant |
| `MCBroker`, `MCAccept`, `MCChat`, `MCFtp` | what TLC is started on; the `.cfg` files give the constants |

`Broker` begins where `BrokerAccept` ends: with threads that know their user.
In return `BrokerAccept` sees the passes of `Broker` only as `BeginPass` and
`EndPass` on `mutex_sender`. Nothing there says that a pass ends: `send()` may
block in it for ever. `ArrivedAreServed` has it as a premise (`PassesEnd`), and
`SenderLockIsReleased` says of `Broker` when it holds: if the subscribers read.

### Broker

A step is the code between two points where another thread's write can change
what happens next. `handle_publisher`: `Accept` (accept and recv), then with
`publisher_pc = "push"` it is inside `push_back`, so that a concurrent copy may
be torn; `RegisterMessage` ends it, `DistributeMessage` broadcasts. Only this
thread takes `mutex_message`, so that mutex is not a variable.
`handle_receiver`: `Receive`, then `Subscribe`, `Unsubscribe` or `Resubscribe`;
the re-subscription's second assignment is `Rewind`, a step of its own because
a pass can come between the two; `Signal` broadcasts. `handle_sender`:
`ConnectSender`; `Sleep` locks and waits; a broadcast or `SpuriousWakeup` makes
it `"woken"`; `BeginPass` reacquires the mutex; `NextTopic` copies the next
pair of the map (the local `isReadUpTo` is `index`); `CheckTopic` is the `if`
of line 385; `SendNext` one turn of the loop; `LeaveLoop`; `CommitCursor` reads
the size *again* (line 397); `EndPass` unlocks. `Die` is the end of the process
by SIGPIPE or by a torn copy. `replayedAt` is a history variable.

Abstractions: `topics[t] = <<>>` stands for a topic that is absent or that
`operator[]` has inserted: `register_message` assigns to the one and pushes back
onto the other, with the same result. Contents are model values; a message on a
connection is one unit (no partial `recv`), and a publisher's connection and its
message are one step, so that a publisher that connects and stays silent, with
`handle_publisher` in `recv()`, is not modelled. An insertion into either map is one
step. `RaceOutcomes` says what a copy during `push_back` may do: succeed, copy
garbage, crash. `operator[]` inserts into `topics` under `mutex_sender` (385, 388)
while `register_message` does so under `mutex_message` (521-531), and
`handle_receiver` into `user_informations` under none: of what a map may do that is
torn in this way, the model has only that the process ends (`TreeOverlapped`), not
that a lookup goes astray.

### BrokerAccept

`handle_subscriber`: `Accept`, `AssignPorts` (the critical section and the send),
`SetSenderId`, `SetSenderPort` (which starts the sender thread),
`SetReceiverId`, `SetReceiverPort`. The threads read id and port in two steps.
A bind on a port in use or a refused connect ends the process it happens in.
The variable `prompt` holds the timing assumptions made, chosen once in `Init`
from the constant `Settings`: `"start"`, a new thread has read its argument
before the next is written; `"sleep"`, whoever is about to bind has done so before
somebody's `sleep(1)` is over. The code ensures neither; with `prompt = {}`
anything can happen. A property names the assumptions it needs. `"sleep"` holds
everybody back until nobody is on the way to a `bind`: what is said under it says
nothing of a late `bind`. A subscriber that ends before it is connected is not
modelled.

### ChatServer

`AcceptClient` is one iteration of main: it overwrites `userId`, whose
address all threads have. `CallRecv` looks `*tid` up for the socket, `Stamp` looks it
up again for the id. `enqueue` is `CheckFull` (before the lock), `LockQueue`,
`AdvanceRear`, `CopyMessage`; `dequeue` is `FindMessage` (before the lock) and
`Dequeue`; the broadcast takes one step per client, reads the slot again each
time, and may read junk while a thread writes it (`SlotContents`). `send()` blocks
while the client has `SocketCapacity` messages it has not received, and with it the
one sender thread; `Show` is the client's thread that receives. A place
nobody has taken holds descriptor 0, which is no socket. `enqueued`,
`dequeued` and the fields of a broadcast other than the message are history.
main's variable `userId` is scoped to one iteration; that each iteration uses the
same memory is what every build does.

### FtpSession

The server's `main` is `AcceptClient`, one action per command of `execute`,
`EndTransfer` (the return of `pthread_join`) and `RecvError`. `Refuse` is the 401 of
all commands that need another `authStatus`; `StartTransfer` is NLST and RETR up
to the join; `CrashOnReply`, `CrashOnName`, `CrashOnFile` and `BindRefused` end
the process. `threads` is the sequence of data threads ever created, whose last
is `dataThread`; QUIT leaves a waiting one behind. Each goes through `Bind`
(with the beginning of the wait), `Listen` (on the socket `data_server_fd` names
by then), `Transfer`. The client's `main` is `SendLine` and, for the reply,
`Acknowledge`, `CreateDataThread`, `JoinDataThread`, `DataThreadEnds`,
`ReceiveFinal`, `QuitReceived` or `JoinNobody`; its data threads go through
`Parse`, `ConnectData`, `SaveData`; `ParseWrong` is the return of one that cannot
read the port. With the server gone every `recv` brings
zeros, a connect is refused, and a send may raise SIGPIPE.

Abstractions: one client process after another, as `main` serves one at a time;
a message is one unit (each is sent and received with one call of the same
size); a reply is its status and the number it prints. Ports are ints until
`htons` cuts them to 16 bits in a socket address. PORT takes up to three fields
behind the address (the fifth number on), each an `atoi` of at most three
characters, -99 to 999 (`Fields`), so that the number may be negative or far beyond
16 bits, and is printed as it is; a fourth field that is not zero, with which the
arithmetic may leave the range of int, is not modelled. PASV prints a port as two
parts, which the client's data thread refuses beyond three characters
(`Readable`). A working directory is `"open"`,
`"shut"` (CWD appends no slash, so that files in it are not found) or `"gone"`
(`validDirectoryEntry` accepts every name, its `strcmp` is inverted).
`pthread_cond_wait` without the mutex is undefined in POSIX; the model does what
glibc does. `asciiMode` is read nowhere and left out.

The variable `assumed` holds the timing assumptions, chosen in `Init` from
`Settings`: `"wait"`, the user types no line before the data threads wait;
`"listen"`, the client's data thread connects when the server's listens;
`"asked"`, the client's data thread does not wake up spuriously (the server's may
always). The code ensures none of them.

## 3. What TLC checks

| run | instance | result |
|---|---|---|
| `broker_one_subscriber` | 1 user who may leave, 2 topics, 2 posts, 3 requests, torn copies and maps, crashes | `TypeOK`, `InOrderAndOnce`, and `ImplementsFeed`: the broker refines `TopicFeed` |
| `broker_two_subscribers` | 2 users, 1 topic, 2 posts, 1 request each, sockets that hold one message | `OnePassAtATime`; `PublishersAreServed` even if nobody reads; if the subscribers read, `SenderLockIsReleased` and `PassesCatchUp` |
| `accept` | every set of timing assumptions; 3 subscribers with both, else 2 | `TypeOK`, `SubscribersCanListen` always; `ThreadsServeTheirUser` with `"start"`; `NobodyExits` with both; `ArrivedAreServed` with both if passes end and the mutex is handed over |
| `chat_queue` | 2 clients of whom one may leave and the other types 4 lines, 3 slots | `TypeOK`, `QueueHoldsTheLatest`, `BroadcastsAreFaithful`, `NoBroadcastIsMissed` |
| `chat_live` | 2 clients, 2 slots, 2 lines and 1, the older client may leave, fair threads | `NewestClientIsHeard` even if nobody reads; `OnlyTheLastIsHeldBack` if the clients read |
| `ftp_session` | 18 kinds of lines, PORT beyond 16 bits among them, a port table of one entry, 2 clients; 7 lines with all assumptions, 4 with none | `TypeOK`, `InStep` always; `JoinedOnce` with `"asked"`, `DataIsWhatWasAsked` if also no port was unreadable (`Understood`); `PortsAgree` with `"wait"` too; `TransfersEnd` with all |

Six runs end in a counterexample to something the README or a comment says:

| run | promise | what the code does |
|---|---|---|
| `broker_lost_wakeup` | README.md:19, messages registered later are sent too | a broadcast between unlock (403) and wait (370), or during a pass, wakes nobody; nothing makes up for it until the next message or request (`PassesCatchUp` says that then it is made up for) |
| `broker_skipped_message` | broker.cpp:376, the data the user does not have is sent | line 397 reads the size again; what was appended since the loop's last test counts as sent |
| `accept_overlap` | README.md:19, one receives the topics one entered | a thread that starts late takes the next subscriber's id with its own port |
| `chat_wrong_sender` | server.c:120, the id is passed to the thread | lines are stamped with the newest client's id |
| `chat_held_back` | server.c:197, the slots from front to rear are full, so that what is put there is found | a lone message makes `rear == front`, which is "empty" |
| `ftp_connect_race` | README.md:18, directory and files are transferred over the chosen port | 150 is sent before the data thread listens: the client, however late the user types, may connect too early and exits; the server stays in `pthread_join` |

Met while modelling and part of the models, without a run of their own: a pass
that commits its cursor (397) over a re-subscription's reset (502) loses the
replay, which `CursorCoversOnlySent` counts too (one post, three requests); a
copy during `push_back` can deliver garbage (`TopicFeed`'s `Spoilt`); a
sender thread that looks into the very first chat message's enqueue between
`front = 0` and the new `rear` takes that message out, so that `front` is past `rear`
and slots that were never written are broadcast; a chat client that does not read
stops the broadcasts to everyone, while receiver threads go on overwriting the
queue; isFull() (server.c:201) compares without
the modulus, so that a queue that has come full circle at the end of the array
overwrites messages not yet taken out, which `OnlyTheLastIsHeldBack` excepts;
broker.cpp:78 names `mutex_message` as the
companion of `port_for_each_subscriber`, the code takes `mutex_sender`.
FTP: a line typed before the data threads wait loses its signal, or is parsed
by the wrong command (client.c:161); a spurious wakeup of the client's data thread
makes the server's fail, and as the 500 leaves MODESELECTED the next transfer
joins a thread twice; a refused PASV leaves a stray thread in the client that may
take the next signal, a refused PORT ends it (`atoi(NULL)`); a mode selected
before QUIT leaves a thread in the server that may take the next one's signal; a
second client goes on with the first one's session; PORT 1,0 opens port 1.

*Bounds.* `MaxPosts`, `MaxRequests`, `MaxSubscribers`, `MaxLines` bound what the
environment does. Two posts let a message arrive in every phase of a pass over
an earlier one; three requests subscribe, unsubscribe and re-subscribe, with
the replay overlapping a pass; two topics make a pass go on after a topic.
A connection that holds one message makes the second `send()` block, in the chat
room the second broadcast. Two
subscribers compete for the mutex and overlap in set-up; a third meets passes of
two earlier ones. Four lines go round a queue of three slots, three round one of
two, whose full and empty cases are those of a hundred slots; that one client types
all four does not keep the receiver threads apart, as both turn to its socket. Seven lines are login, two
modes and two transfers, the second beyond the port table (`Garbage` is what
memory there may hold: 0, a number beyond 16 bits that can be read back from
its parts, and one that cannot), with one more line anywhere; four with no assumption are
one transfer, or a second client that finds a mode selected.
Deadlock is not checked: when the bounds are used up and everybody waits, or the
process has exited, the system stops.

*Fairness.* Weak fairness per thread of a server: the kernel runs a thread that can
run. Locking is weakly fair too: a mutex that stays free is taken, but nobody is
promised it against competitors. No fairness for posting, typing, leaving,
spurious wakeups, nor for an error of `recv` (FTP), as a connection that ended in
order gives none. What else has to happen is a premise of the property that needs
it and not an assumption of the specification:

- that the process at the other end reads its connection: `SubscribersRead` in
  `SenderLockIsReleased` and `PassesCatchUp`, `ClientsRead` in
  `OnlyTheLastIsHeldBack` and `EveryLineIsShown`;
- that passes end (`PassesEnd`, which is that the subscribers read, see section 2) and
  that `handle_subscriber`, which asks for the mutex once per subscriber, gets it
  eventually when it is free again and again (`MutexIsHandedOver`; a pthread mutex
  does not promise it), in `ArrivedAreServed`.

Without any one of these TLC finds the property violated.
`PublishersAreServed` and `NewestClientIsHeard` hold while a `send()` blocks for
ever.

## 4. What is proved

Every invariant of the passing runs, and the refinement, is a theorem of its
specification (`Spec`, without fairness), for every value of the constants that
satisfies the named assumptions of its module:

| module | theorem | property |
|---|---|---|
| `BrokerProofs` | `TypeCorrect`, `ExclusivePasses`, `DeliveryInOrder` | `TypeOK`, `OnePassAtATime`, `InOrderAndOnce` |
| `FeedProofs` | `BrokerImplementsFeed` | `ImplementsFeed` |
| `AcceptProofs` | `TypeCorrect`, `EverybodyListens`, `EachItsOwnUser`, `EverybodyStays` | `TypeOK`, `SubscribersCanListen`, `ThreadsServeTheirUser`, `NobodyExits` |
| `ChatProofs` | `TypeCorrect`, `LatestInTheirSlots`, `FaithfulBroadcasts`, `EveryBroadcast` | `TypeOK`, `QueueHoldsTheLatest`, `BroadcastsAreFaithful`, `NoBroadcastIsMissed` |
| `FtpProofs` | `TypeCorrect` | `TypeOK` |
| `FtpConversation` | `RequestAndReply` | `InStep` |
| `FtpTransfers` | `EachThreadOnce`, `TheRightData` | `JoinedOnce`, `DataIsWhatWasAsked` |
| `FtpPorts` | `SamePort` | `PortsAgree` |

### Broker

Assumed: topics are positive numbers, bounds are numbers, the mutex's "free" is
no user. `OnePassAtATime` is inductive together with `Typed` (`TypeOK`, what the
publisher thread has at hand is a message, and a pass works on a key of its
user's map). `InOrderAndOnce` is not: it speaks of messages already sent, and the step
that sends the next must know that its index is above all of theirs. The
invariant `IInv` adds

- `SentBelowBound` (in `Order`): every message of a topic sent since its last
  replay has an index of at most `SentBound`, the loop variable inside the
  loop and the stored cursor outside;
- `CursorsInLog`: no cursor, stored or copied, is past the end of its topic, so
  that `CommitCursor`, which stores the size read again, never moves it back;
- `CopyNotBehind`: between `NextTopic` and the loop the stored cursor may have been
  rewound by `handle_receiver` but not advanced, so that the loop starts at or
  above it;
- `OnlyEntriesSent`: nothing was sent of a topic the user has no entry for, so
  that `Subscribe`, which starts a cursor at 0, comes before any message of it.

`Rewind` may come in the middle of a pass: it moves `replayedAt` to the end of the
connection, where the property starts afresh.

`BrokerImplementsFeed` is step simulation. The mapping takes a feed's position
from `Reached`, the loop variable while the pass works on the topic and the stored
cursor otherwise; `Stutters` and `OneMoves` reduce a step to what it does to
`Reached`. The steps that are not stutters: `RegisterMessage` (the log grows),
`SendNext` (feed and position go on by one), `CommitCursor` (the position skips
to the size read again), `Subscribe` and `Rewind` (a replay; a `Rewind` of the topic
the pass is working on shows nothing yet). Beyond `Typed` and `Cursors` it takes
`CopyOrReset`, sharper than `CopyNotBehind`: until the loop is entered the stored
cursor is the copy or 0, so that a pass that finds nothing to send leaves the topic
where it was, or replayed.

### BrokerAccept

Assumed: a number of subscribers whose ports stay below 65536, as `htons` would
truncate them beyond (broker.cpp:349). The three properties need different parts of
`IInv`:

- `PortsAreDealt`: ids and ports come from one counter each, in step, so that
  subscriber s has `FirstPort + 2s` and `FirstPort + 2s + 1`. With
  `ReceiversBindEven` - a receiver thread may pick up any receiver's port, but
  never a subscriber's - it gives `SubscribersCanListen` with no assumption on timing
  at all.
- `SendersStart`, `ReceiversStart`: with `"start"`, as long as a thread has not read
  its argument, what it will find there is its own; and `handle_subscriber`
  writes only when nobody is about to read. This gives `ThreadsServeTheirUser`.
- `NothingGoesWrong`, `ReceiversExist`: with `"sleep"` too, whoever connects finds
  a listener, because the thread or process it connects to exists and has got
  past `bind`, and that it binds its own port is the previous part. This gives
  `NobodyExits`.

### Chat room

Assumed: clients and slots are numbered, at least one slot, and a connection holds a
message.

- `OneWriter`: exactly the holder of the mutex is between `AdvanceRear` and
  the unlock.
- `RearFollows`, `FrontFollows`, `CurrentFollows`: the indices `rear`, `front` and
  `current` are the number of messages enqueued and dequeued, modulo the slots,
  *whatever* the other end does. isFull() and isEmpty() are not used: the
  queue keeps this when it overflows and when it underruns, which is why
  `QueueHoldsTheLatest` needs no premise. The arithmetic is in lemmas about
  `%` (`QuotientRemainder`, `SlotAfter`, and that two of the last N numbers have
  different slots).
- `BroadcastsNamed`: a broadcast that is not ahead of the queue has the number of a
  message in it. With `QueueHoldsTheLatest` and `CurrentFollows` it gives
  `BroadcastsAreFaithful`.
- `StreamsFollow`: a client's broadcasts have consecutive numbers up to
  `LastBroadcast`, which depends on whether the loop over the clients has come past
  it. It gives `NoBroadcastIsMissed`.

### FTP

Assumed: `Lines` are requests; the table holds ports whose low byte is not 0, as
the one in `FTP/server.c` does; what lies behind it is any int; bounds are numbers.
Four layers:

1. *Types* (`FtpProofs`). The numbers in replies are ints without a bound; what is
   bound, connected to and pending is what `htons` makes of them. `Counted`: what the server has handed out - ports,
   threads - is at most the lines it has looked at, which bounds both
   counters. The module also has what the other layers share: `Append`, `EXCEPT` and
   `Consumed` on sequences, what `Signalled` may do, and `Steps`, which sorts the
   steps by what they leave alone.
2. *Conversation* (`FtpConversation`). `Turn` lists the six ways in which the two
   control points and the two wires fit while the connection is up: the client
   prompts; a request is under way; an answer is (one reply, or the two of a
   transfer); the 150 is while the server joins; both join; the client joins and
   the final reply is there. `RepliesFit` says what the client may find
   after the server has gone. `InStep` is the first of the six ways.
3. *Transfers* (`FtpTransfers`), under `"asked"`. `OneActive`: a data thread
   of the client runs only while main joins. `ModeIsFresh`: a mode the server has
   selected and not yet used is one the client's newest thread has not used
   either - this is what a spurious wakeup breaks, and the reason why
   `JoinedOnce` fails without the assumption. `CommandsMatch`: the globals the data
   threads branch on name the same command while a transfer goes on, and no
   server thread has failed.
4. *Ports* (`FtpPorts`), under `"wait"` too. The port is followed from the server's
   newest thread into the reply (`AgreedInReply`), from the reply into the client's
   newest thread (`AgreedInThread`) and from there into `target` (`SameTarget`);
   `OnlyNewestParses` says that no other thread of the client writes
   `target` meanwhile.

`SamePort` has a hypothesis besides the assumptions on the constants: what PASV
reads *beyond* the table (`Garbage`, any ints) survives being printed in two
parts and read back, where the parts are printed in three characters at most:
what `htons` makes of it is the same (`Survives`). It cannot be dropped: a port
256 k is printed as `k,0` and read back as `k`, and with `Garbage = {512}` TLC finds
`PortsAgree` violated. For the table itself nothing is assumed beyond
`TableAssumption`, and for PORT nothing at all: the server answers with the number as
it read it, and `htons` cuts it alike on both sides. Where the parts are longer, the
client's data thread returns (`"gave_up"`), main joins at once and an older thread may
take the next signal; `Understood`, the premise of `DataIsWhatWasAsked`,
`PortsAgree` and `TransfersEnd`, excepts what follows. `JoinedOnce` and `InStep` need
no such premise.

*Only model-checked.* The liveness properties and the fairness they rest on, which
are beyond this prover: `PublishersAreServed`, `SenderLockIsReleased`,
`PassesCatchUp`, `ArrivedAreServed`, `NewestClientIsHeard`,
`OnlyTheLastIsHeldBack`, `TransfersEnd`. The six counterexamples are TLC's
too.

## 5. Not modelled, and what is next

Not modelled: wording and layout of output, files and prompts of the publisher,
partial `recv` and `send`, errors of `socket`, `setsockopt`, `listen`,
`pthread_create`, which end the process before anything else happens, port
numbers beyond 65535 in the broker (broker.cpp:349, excluded by `PortAssumption`; the
process runs out of descriptors long before), lookups that go astray in a torn
map, a publisher that connects and stays silent, a subscriber that ends while it is
being connected, a fourth field of PORT, the eleventh chat client (main spins), contents of files and
directories. `Socket (Single Threaded)/echoer.c` has no module: one process on
either side sends or prints what it has just read, with nothing that could come
between. (README.md:16 has the server send the line back; it only prints it.)

The invariants and the refinement that the runs check are all proved. What would
add most next: an abstract specification of the FTP session (a request, its reply
or two, and the transfer between them) and one of the chat room (a sequence of lines
that each member is shown from some point on), with `Turn` and `StreamsFollow` as
the invariants under which `FtpSession` and `ChatServer` implement them.
