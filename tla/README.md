# Models of the network programs in this repository

The repository is the code of a book on network programming: some hundred small
programs, most of them one call or one library wide, and a few that are systems
of their own, with state, several actors and an order of events that matters.
This directory holds TLA+ models of those, the TLC configurations that check
them, and proofs that TLAPS checks.

Run in this directory:

    tlc -config MCSelectSafety.cfg MCSelectServer.tla      # and so on, see "Runs"
    tlapm TransceiverProofs.tla                            # and the other modules of proofs

## 1. Inventory

All paths are below `src/`.

| Part | State | Operations | Hard behaviour |
|---|---|---|---|
| `book02/ch04/cpp/select_aio_server` **Transceiver** | a ring of bytes with two indexes, a file descriptor, counters | `open_file`, `read_data`, `send_buffer`, `get_request` | partial reads and sends at the wrap of the ring, the end of the file |
| the same, **SelectProcessor**, **Client** | the list of clients, three descriptor sets | `run_step`: `select`, accept, three passes per client | one thread for all, erase while iterating, stale descriptor sets, resets, exceptions |
| `book03/ch14/cpp/tg-arm-bot/server` **Telegram conversation** | `command`, `waiting_command_param`, the update offset | `onAnyMessage` | state across messages, a failing reply, restart and redelivery |
| the same, **business logic and WebSocket channel** | `devices_map_`, `sockets_`, `devices_to_ws_keys` | REST handlers, upgrade, UID, close and error, pings, broadcast of a command | two threads and no lock, callbacks in either order, stale keys |
| `tg-arm-bot/driver_serial` | its place in `run()`, the commands that wait | register, connect, announce, execute, SIGINT | failure and restart, a signal at any point |
| `tg-arm-bot/driver_console` | the same, a new identifier in each run | the same | the same: a device with one run |
| `socket_wrapper` | ownership of a descriptor | RAII, `accept_client` | exceptions that reach the server's loop |
| `book02/ch03/cpp/mt_server` | list of futures, a thread per client | accept, `get_request`, `send_file`, sweep | sweep only behind `accept`, exceptions of tasks, the last block |
| `book02/ch03/python/mt_server` | list of futures, pool of ten workers | accept, submit, the task, sweep | a queued task is waited for by the accepting thread |
| `book02/ch05/cpp/ioring_server` | a `Request` per client, the two rings | accept, recv, send completions, the timeout | short sends, one client's error, the idle timer, buffers in flight |
| `book03/ch19/cpp/simple_blockchain` | the chain, the list of nodes, in each process | join, fetch, mine, add, post, replace | two threads and no lock, posts that cross, nodes that end |
| `book03/ch19/python/p2p-chat.py` | list of connections | connect, send, resend, disconnect | rings of peers, coalesced messages, disconnections |
| `book02/ch05/cpp/epoll_example` | none: the kernel's ready list | accept once, read once | a second connection in one edge |
| `book01/ch21/cpp/simple_http_proxy` | one client and one target connection | read request, forward, collect, answer | one client blocks all, end of stream inside the headers |
| `accept_pool`, `aio_example`, `rio_example`, library echo servers | little of their own | callbacks of a library | that of the library |
| resolvers, ping, sniffers, netlink, tun, OpenSSL and messaging samples | none to speak of | one or two calls | none |
| vendored and generated code | - | - | - |

How they interact.  Inside the select() server, `SelectProcessor` calls a
client's `Transceiver` by way of `Client`; everything else is between programs,
over sockets.  In the robotic arm system a Telegram user's text reaches the
callback of the conversation, `on_command()` goes over `devices_map_` on that
same thread and sends to WebSockets that the web thread owns; the driver at the
other end registered its device over REST and announced its UID over the
WebSocket.  The three maps are shared by the two threads without a lock.
In `simple_blockchain` every process is client and server at once: the command
line posts to other nodes, whose servers write the chain that their own command
lines read.  In the chat all peers are alike, and a message crosses as many of
them as there are connections.

What makes each part correct:

- Transceiver: no byte is lost, repeated or overwritten; "finished" is told
  when, and only when, all was sent.
- SelectProcessor: a transfer that is reported done was delivered; nobody is
  dropped, delayed or ended for the sake of another client; places are given
  back.
- Conversation: what is executed is what the buttons said; no message is lost.
- Channel: a command goes to registered devices and to no other; a driver
  that announced itself is found; nothing but a loop over a shared map ends the
  server.
- mt_server: a client that is told the end of its file has all of it; one
  client costs another neither the service nor the server, except as stated.
- ioring_server: every `Request` has one operation, the echo is the client's own
  text in order, and only named causes end the server.
- simple_blockchain: links hold, chains only grow, what a node was told it has,
  and posts that cross do not lock.
- p2p-chat: over a tree a message is shown once and to whom it is for, and the
  flood ends.

The hazards are listed one by one, each at its line and with the properties
that watch it, in `PROJECT.json`.

## 2. Modules

| Module | Models |
|---|---|
| `FileStream` | what a file transfer promises: a prefix of the file that grows, at most `Capacity` bytes on the way |
| `Transceiver` | the ring of class `Transceiver`, at the level of its indexes |
| `TransceiverProofs` | type correctness, the ring's invariant, the answer "finished", refinement of `FileStream` |
| `SelectServer` | `SelectProcessor::run_step()` with the clients, the peers and the kernels between them |
| `SelectServerProofs` | its five invariants, and that each client's transfer implements `FileStream` |
| `BotConversation` | the `onAnyMessage()` callback over a sequence of messages, the polling loop, end and restart |
| `BotConversationProofs` | its two invariants about words and answers, and that no message is forgotten |
| `ArmServer` | both threads of the arm server over their maps, and the serial drivers |
| `ArmServerProofs` | what ends the server, first runs, and whom a broadcast reaches |
| `MtServer` | both editions of the multithreaded file server: accepting thread, tasks, clients |
| `MtServerProofs` | delivery and the causes of the end, for both editions |
| `IoringServer` | the completion loop, the requests, and the kernel behind the rings |
| `IoringProofs` | one operation per request, the order of the echo, the causes of the end |
| `BlockChain` | the nodes of `simple_blockchain`, both threads of each |
| `BlockChainProofs` | links, lengths given up and lengths heard of |
| `P2PChat` | the peers of `p2p-chat.py`, their connections and what is on its way |
| `P2PChatProofs` | how often a message is shown, and that the flood leaves nobody out |
| `MC...` | instances for TLC |

Each module of proofs extends the module above it.  `SelectServer` meets the
two above it in `FileStream`; the other programs do not talk to each other, and
neither do their modules.

### Transceiver and FileStream

A byte of a file is its offset, so two bytes are never the same.  `ReadSome(n)`
and `SendSome(n)` are `read_data()` and `send_buffer()` with a kernel that
served `n` bytes, any number up to what the code asks (`ReadRequest`,
`SendRequest`); `ReadNothing` and `SendNothing` are the early returns and the
errors.  A call repeats on EINTR and EAGAIN, so it is one step with its last
answer.  `call` and `status` are what the owner of the object saw.

`FileStream` has no ring: three variables, fetch, end, deliver.  `Transceiver`
implements it with `Capacity <- Size - 1`, `fetched <- file_offset`,
`sent <- received`, `ended <- read_finished`.

### SelectServer

An action is one system call of the server's thread, and `pc` and `cursor` say
where `run_step()` is, so peers act between any two calls.  `Select` builds the
three sets and waits; `Accept` is `process_new_client()`; then each client of
the list goes through "recv" (`DropOnError`, `TestNoFile`, `NoRequest`,
`RequestThrows`, `RequestRejected`, `RequestOpens`), "send" (`NothingToSend`,
`SendFinished`, `SendFails`, `Send`) and "read" (`NothingToRead`, `ReadFails`,
`Read`).  The sets stay as `select()` left them while the list changes.

The ring is kept as counters (`fetched`, `handed`, `ended`): what module
Transceiver is shown to implement.  `StreamOfEachClient` checks that these
counters step as `FileStream` does for each client, so the two levels meet in
one abstract specification.

Undefined behaviour: with no file open the code evaluates `FD_ISSET(-1, ...)`.
`BadFdTest` is the set of outcomes of a build: the bit is clear, or a fortified
libc aborts the process.

The peers are external.  Those in `Faulty` may write more than a request, shut
down, leave, reset, send urgent data, ask for a file that is missing, whose
name cannot be resolved ("barred") or whose reading fails; `Faults` chooses
among these.

`RequestThrows` is the exception that leaves `update_file_path()` outside the
`try` block, in two ways.  `RecvFails`: a reset that `recv()` meets.
`NameFails`: `fs::weakly_canonical()`, `fs::exists()` and
`fs::is_regular_file()` are called in the forms that throw, so a name behind a
directory that may not be searched, in a circle of links, or too long, is no
refusal.

### BotConversation

A message is what the callback tells apart: a part's button with its action, a
system button, `/start`, a number, or anything else.  `handled` is the position
in the updates, `Confirm` the offset of the next `getUpdates()`.  Every reply is
a place where `sendMessage()` may throw: `FirstReplyFails` is the first reply of
a message, the second disjunct of `Call` the one behind `on_command()`.  The end
of the process loses `command` and `waiting_command_param`, and after `Restart`
the updates that were not confirmed come again.  All chats share one
conversation, as in the code.

`called` records what `on_command()` was given and by which message.  The model
also shows what the code does with words that are left from an earlier choice:
`on_command()` looks at the first two, so a user who presses two buttons and
then enters a number moves the part of the first button; the properties state
exactly when this cannot happen.

### ArmServer

The three maps are the variables `devices`, `ws_key` and `sockets`; `links` is
what the web thread has yet to see of each connection.  The web thread's
actions are the REST handlers (`Register` and `Unregister` of the drivers,
`OperatorPosts`, `OperatorDeletes` and `PutState` of people with the scripts in
`tools/`), `Upgrade`, `Welcomed` (the callback of the welcome message),
`ReadUid`, `Lost` (close and error handler) and `PingCloses`, the ping handler
at a socket that is closed already: `close()` erases the element that its loop is
at.  The bot thread's are `StartCommand`, one step per device
(`SendCommand`, `Report`), and `SendToNobody`, the null pointer.

Undefined behaviour: a write to a map while the bot thread is in a broadcast is
a data race, after which the process goes on or ends (`WritesMap`).  `bot.torn`
remembers such a write: the `++` of the loop may then lead to any device behind
this one, erased or not, or to the end, or end the process (`TornNextAts`,
`Advance`); that it might lead back is left out.  The `++` of the ping handler
goes on or ends the process.  What a broadcast promises holds only without such
a write.

A driver, of either kind, is a stage of `run()`: register, connect, announce, listen; SIGINT
leads to "unregister" from any of them, `Fail` ends it anywhere.  A run makes
one connection, so a key is the device and the run.  A reply that Telegram
refuses ends the process too; that is `BotConversation`'s matter and left out
here.

### MtServer

The variable `edition` is chosen in `Init`, so that one run compares the two
programs.  `Accept` is `accept()` with `std::async()` or `submit()`; then the
accepting thread goes over `tasks`: `Keep` and `AskResult` are the two outcomes
of `wait_for(1ms)` or of `running()`, `Collect` is `get()` or `result()` with
the removal or the exception, `Swept` the way back to `accept()`.  `Exit` waits
for the futures as their destructors do.  A task is `StartTask` (in Python only
when one of `Workers` is free, in the order of the queue), `GetRequest`, `Send`
for each partial send, `SendFails`; `GoOn` is the loop of `send_file()`.

The two editions differ where `edition` is tested: the C++ buffer keeps its
size and what was in it, so the last block is padded with the block before
(`NextBlock`); the C++ `get_request()` ends at the end of the first segment
(`IsPart`, `NamesNoFile`); only the C++ future rethrows.  What a client had sent
before it reset the connection is still received (`RecvFails`), and a name that
cannot be resolved throws (`NameFails`), as in `SelectServer`; in Python such a
name is an exception that the task itself catches.

### IoringServer

`event`, `length` and `data` are the fields of a `Request`, `flight` counts its
operations inside the kernel and `cq` is the completion ring.  `Accepted`,
`Received` and `Sent` are the kernel's, which reports a reset once, to the
operation that meets it first (`told`); the server's `OnAccept`, `OnRecv` and
`OnSend` are the branches of the loop, each with the operation it submits.
`Timeout` is `io_uring_wait_cqes()` returning `-ETIME`: it may happen only when
the kernel has nothing that it must complete (`Still`): nobody says anything, and
every send that is under way waits for a peer that does not read (`Blocked`).

### BlockChain

`pc` is where `main()` of a node is, and `at` the index of the loop it is in.
`Rebuild` is the loop of a new node over the chain that it has fetched, a block
at a time.  `Announce`, `Fetch` and `Post` are one
request each of the three loops in `requests.hpp`, together with the handler
that answers it at the other node; a handler that replaces the chain takes
steps of its own (`Pop`, `Popped`, `Restore`, `Answer`), because its node's
`main()` may be anywhere meanwhile.  A command goes through the accesses of
`main()` to the vector one by one: `Mine` and `Find` read the length and the
last hash in front of `findHash()`, `Ask` and `Asked` read them again for
`addBlock()`, each pair in two reads (`ReadAgain`); `Check` and `Push` are the
two halves of `addBlock()`; `Snapshot` is the length that `toJSON()` reads and
`Copy` its loop, a block at a time and up to the size of the moment, so that
what is posted may be cut or mixed.  `overlap` says that a replacement popped
blocks during `Push` or `Copy`, or added some during `Push`, somewhere.  A block
stands for its hash: index, previous block and text, so equal hashes mean equal
blocks.  The vector has no lock: that a data race ends the process is part of `End`, and a
process that goes on does one of the other steps.

### P2PChat

A connection is named by the peer that dialled it and has two ends; `protos` are
the ends that are in some `_protos`.  `Listen` and `Dial` are `run()`, `Say` is a
line of the user, `Receive` one `data_received()` with one message, `Coalesced`
one with more, which `json.loads()` refuses and asyncio answers by closing.
`Quit` and `Stop` are Control-C and the user's next line, for which `stop()` holds
the event loop (`p2p-chat.py:178`): between them the peer is connected and
deaf.  `Targets` and `Exceptions` are addresses as the code compares them: the server's
end of every connection has the same address, a dialling end a port of its own.
`sent[i].reach` remembers whom a message could get to when it was said: `Reach`
is the least set with the peer that no connection leads out of.

## 3. Runs

| Run | Instance | Result |
|---|---|---|
| `transceiver_ring` | ring of 5, file of 12 | TypeOK, RingHoldsUnsent, FinishedMeansAllSent, StreamSpec hold |
| `select_safety` | three peers, two places, all faults, barred names among them, requests in two segments, both builds | TypeOK, ListSound, DoneIsDelivered, DroppedForCause, DiesOnRequest, StreamOfEachClient hold |
| `select_liveness` | a faulty peer (no resets, no barred names) and a good one | GoodPeerServed, DepartedIsReleased hold |
| `select_reset` | the same with resets | ServerSurvives is violated |
| `bot_conversation` | four messages, two moves and one button of no part, one crash | TypeOK, WordsAreChoices, AnswerMovesChoice, NothingForgotten hold |
| `arm_safety` | two devices, the first driver runs twice, one command, people at the REST API | TypeOK, DiesInLoop, FirstRunHasChannel, OnlyRegisteredCommanded hold |
| `arm_liveness` | two devices, one run each, one command | ListenerGetsChannel holds |
| `arm_restart` | the first driver runs twice, no command | AnnouncedHasChannel is violated |
| `block_chain` | three nodes that join in turn, three blocks in all, one of the miners may end | TypeOK, LinkBreaksByOverlap, GivenUpForLonger, HeardIsReached, CommandEnds hold |
| `mt_server` | both editions, two good clients and one of no good, one worker | TypeOK, DoneIsDelivered, DiesOnRequest, GoodIsServed hold |
| `p2p_chat` | a chain of three, a peer that dials himself, two that dial each other; two messages | TypeOK, ShownOnce, ShownUnlessBroken, ComesToRest hold |
| `ioring_server` | two clients of three cells, a buffer of two | TypeOK, OneOperationEach, EchoInOrder, EndsForCause, GoodIsEchoed hold |

### The bounds

- Ring of 5, file of 12: both indexes go round twice, and full, empty, and
  both orders of the indexes occur with every size of partial call.  The proofs
  cover every size.
- Two places for three peers make "one too many" happen, and an erase in front
  of, at and behind the iterator.  A ring and a socket that hold one or two
  bytes of a file of two are full, empty and partly drained in all
  combinations.  Two segments are the least in which a request can be cut.
  Peers that are not faulty are interchangeable (`PeerSymmetry`, in the safety
  run only).
- Four messages: the longest condition of a property spans three, and one
  more stands before them.  A second crash meets the state of the first, since
  a restart forgets both variables.
- Two devices are the least for a broadcast to be in the middle of, two runs
  the least for a stale key.  The second command of the bot thread would meet
  only maps that the first one met, since a broadcast leaves them as they are.
- `block_chain`: three nodes are the least where one posts to two and a third
  joins a network of two; two blocks of one node and one of another make ties,
  longer chains and posts that cross.  `Leavers` is one of the miners: it ends
  while it is on the lists of the others, posts, or is posted to.
- `mt_server`: one worker and three clients give a task at work, one in the
  queue and one in the backlog; ten workers and twelve clients would be the same
  case.  Blocks of two cells and files of 0, 1 and 2: an empty file, a short
  block, and a file that ends with a block.  `Segmented` is one client.
- `p2p_chat`: the three overlays are a tree with a peer in the middle, the
  smallest ring, and the default of the options, a peer that dials himself.
  Three messages on a wire (`MaxWire`) are two that may be read at once and one
  behind them; at the bound the writer waits, and since a full wire can always
  be read as one or as several, the bound locks nobody.  `Talkers` and `Leavers`
  leave a peer that only resends.
- `ioring_server`: two cells make a short send, and three a message that does
  not fit one buffer.
- `CHECK_DEADLOCK FALSE` everywhere but in the ring: a process may end, peers
  connect once, messages and runs are bounded.

### Fairness

- `SelectServer`: `WF(RunStep)`, the thread runs on, and `select()` returns
  when something is ready; weak fairness of the kernel that answers data for a
  closed socket with a reset; of peers that are not faulty, that they write
  their request and read.  Nothing is assumed of faulty peers.
- `ArmServer`: the web thread serves what has arrived (`Welcomed`, `ReadUid`);
  a driver that has begun registers, connects and announces itself.  Nothing is
  assumed of SIGINT, failures, closes, people and the bot thread.
- `MtServer`: the accepting thread goes on (`Keep`, `AskResult`, `Collect`,
  `Swept`, `Exit`), every client in the backlog is accepted at last (`Accept`),
  every task runs, good clients ask.  Of the others nothing: one may be silent
  for ever.
- `IoringServer`: the kernel completes what it can for good clients, which read
  their echo, and the loop runs; a send to another may wait for ever.  `Timeout`
  has no fairness: that nothing happens for five seconds is never due.
- `BlockChain`: each of the two threads of a node runs.  Users start nodes, give
  commands and leave at will.
- `P2PChat`: the event loop of each peer receives and notices closed connections
  until its user quits.  Users speak and quit at will; nothing is assumed of the
  line that `stop()` waits for.
- The other runs assume none.

## 4. Findings

- `select_reset` (`select_aio_server/main.cpp:432`): a request is read outside
  the `try` block.  A peer that resets its connection before its file was read
  to the end makes `recv()` fail and `get_request()` throw, through `run_step()`
  to `main()`: the server ends, and with it every other client it has.  A name
  that the file system refuses to resolve takes the same way
  (`main.cpp:291`, `304`, `309`).  `DiesOnRequest` says that a client whose file
  has not ended is at the root of every end of the server, by one of these two
  or by the abort in `FD_ISSET`; the calls of section 6 that may throw for want
  of resources are left aside.
- `arm_restart` (`web_socket.cpp:194`): `emplace()` keeps the key of the first
  connection of a UID.  A serial driver that runs a second time has the same
  UID and is never found again; the next command dereferences a null pointer
  and ends the server.

What the other models show, without a run that expects a violation:

- `simple_blockchain`: its `README.md` says "There can only be one explicit set
  of blocks in the chain at a given time" and that of chains of the same size
  the longest is chosen.  The test is a strict `>` (`main.cpp:133`), so a node
  keeps its own chain on a tie (`GivenUpForLonger`) and two histories stay until
  one grows.  Nothing compares a block's previous hash with the block before it
  (`BlockChain.hpp:72`); it fits nevertheless unless a replacement runs into an
  own push or into the copy of the chain that is posted, which is then cut or
  mixed; after that it may never fit again (`LinkBreaksByOverlap`).  A block
  posted between a new node's fetch and its `server.start()` is refused and
  missed until the next one (`main.cpp:75`, `162`).
- C++ `mt_server`: the client receives up to a block more than the file, the
  rest of the buffer (`main.cpp:95`); a request in two segments is taken to end
  with the first (`main.cpp:123`); a connection that is reset before its request
  was read, or a name that cannot be resolved (`main.cpp:180`, `192`, `197`), ends
  the server behind the next `accept()` (`main.cpp:294`).
- Python `mt_server`: a task in the queue is not `running()`, so the accepting
  thread waits for its result (`mt-file-server1.py:130`), behind clients that may
  be silent for ever.  `GoodIsServed` names these cases.
- `ioring_server`: five seconds without a completion end the server, also while
  a send waits for a peer that does not read
  (`main.cpp:139`; the branch behind it that would print a dot is never
  reached), and so does a reset that a recv meets (`main.cpp:178`); a short send
  loses the rest.
- `p2p-chat.py`: in a ring of peers a message for nobody goes round for ever, what
  passes a peer that dialled himself is shown more than once, and two messages in one
  read close the connection.  One who pressed Control-C stays connected, and
  reads and resends nothing, until his user types another line.
- The serial driver has no command for the state "disabled" and answers 501
  (`WSListener.cpp:149-152`); the user who pressed "Shutdown" reads "OK".

## 5. Proofs

Every safety property that a passing run checks, and both refinements, are also
theorems, for every value of the constants that the assumptions of the modules
allow.  `tlapm` checks them without a step left open.  Each module of proofs
has the same form: an inductive invariant `IInv`, a lemma that `Init` implies
it, one lemma per action (or group of actions) that the action keeps it, and
theorems that draw the properties from it.  TLC checked every `IInv` on the
instance of the run before it was proved.

| Module | Assumptions on the constants | Theorems |
|---|---|---|
| `TransceiverProofs` | `SizeAssumption`, `FileLengthAssumption` | TypeCorrect, RingCorrect, FinishedCorrect, Implements |
| `SelectServerProofs` | `SelectAssumption` | TypeCorrect, ListCorrect, DoneCorrect, DroppedCorrect, DeathCorrect, StreamCorrect |
| `BotConversationProofs` | `BotAssumption` | TypeCorrect, WordsCorrect, AnswerCorrect, NothingLost |
| `ArmServerProofs` | `ArmAssumption` | TypeCorrect, DeathCorrect, FirstRunCorrect, OnlyRegisteredCorrect |
| `MtServerProofs` | `MtServerAssumption` | TypeCorrect, DeliveredCorrect, DeathCorrect |
| `IoringProofs` | `IoringAssumption` | TypeCorrect, OneOperationCorrect, EchoCorrect, EndCorrect |
| `BlockChainProofs` | `BlockChainAssumption` | TypeCorrect, LinksCorrect, GivenUpCorrect, HeardCorrect |
| `P2PChatProofs` | `P2PAssumption` | TypeCorrect, ShownOnceCorrect, FloodCorrect |

### Transceiver

The invariant adds to the properties that the socket has received exactly the
first `sent_size` bytes, and that `read_finished` is set only at the end of the
file.  `RingHoldsUnsent` alone says nothing of what was sent before, and
`FinishedMeansAllSent` is not inductive without knowing that an empty ring with
`read_finished` set has `sent_size = file_offset = FileLength`.  The argument
is about the indexes.  `ReadRequestFits`: what `read_data()` asks leaves one slot
free and does not run past the vector.  `SendRequestFits`: what `send_buffer()`
offers is occupied.  `UnsentSlotSafe`: a read stores into no occupied slot.
`SendSomeDelivers`: what a send takes continues the prefix.  `Implements` maps
reads to `Fetch` or `End`, sends to `Deliver`, and the rest to stutters.

### SelectServer

`BytesSound` balances the bytes of one connection from the disk to the reader;
`Innocent` says what a peer that is not faulty has not done, and so what the
server cannot hold against it.  The part that is easy to miss is `ReadyOK`: the
sets are those of one `select()` and are used after earlier clients of the same
pass were erased, so the invariant says that for each client still to come the
answers are still true.  `ListSound` needs `BacklogSound`, since what is accepted
must not be in the list already.  `StreamCorrect` reads `FileStream` off
`BytesSound`: a step of one client is a step of its stream or a stutter, and a
stutter for all other clients.

### BotConversation

`WordsOfButtons` says that words are left behind no other message than a button
or /start, `WordsOfLastButton` whose they are behind the button of a move; with them `AnswerMovesChoice` is
inductive.  `NothingForgotten` is a fact of steps and needs `HandledIsAnswered`.

### ArmServer

`EndOK`, `KeyOK`, `UidOK` and `FirstOK` say where a run's connection can be while
its driver is at each stage: what a command needs is there, or on its way in one
of the two queues of the web thread.  `BroadcastOK` says that the loop is at a
registered device, as long as no map was written under it;
`OnlyRegisteredCorrect` is a statement about steps and follows from it.
`DiesInLoop` speaks of a server that has ended, while drivers go on: the lemma
`BroadcastKept` says that no lost connection comes back and no driver becomes
`Ready` any more.

### MtServer

`TransferOK` says what is in the block that a task sends, in both editions; the
C++ block is a whole buffer, so what lies behind the end of the file is left
open.  `GotFile` says that cells are in their places, `Complete` that nothing is
missing at the end.  `FailedOK` ties a future's exception to the peer's reset or
to its name, and `GoodOK` says of a good client's task that ends without a file
that it is a C++ task that took a part of the request for the whole.

### IoringServer

Behind `OneOperationEach` is `FlightOK`, that an operation in use is in the
kernel or in the completion ring and not in both, and `QueueOK`, that the ring has
one completion of a request at most.  For the echo `Unsent(c, n)` says that the
last `n` cells of client `c` are in its buffer and not yet back; the completion
that is under way decides what `n` is.

### BlockChain

A chain that is sent is `Whole`: a block for each index, each on top of the one
before it.  As long as no replacement ran into a push or a copy, `toJSON()` of a
linked chain is whole (`ToJSONWhole`): a handler that has begun to pop while
`main()` copies is such an overlap, and one that has not leaves both the length
and the blocks as they were read (`Copied`).  For the own block `Reading` follows
what `main()` has read, two values at two moments: a length that is the one the
chain comes to (`Goal`) was read from a chain that no longer changes (`Settled`),
so the block fits, or the test refuses it.  Whatever is in `json` or in `replace`
is whole, and a chain that is replaced or rebuilt is the first blocks of such a chain (`Follows`),
so that each block fits (`FollowsNext`) and the handler never meets an index that is
missing before the end.  `LinksCorrect`, `GivenUpCorrect` and `HeardCorrect` follow:
the first since linked is part of it, the others since a replacement is longer than
what it replaces and ends only when it is complete.  The type invariant has to hold
of chains with broken links too, so the bounds of the loops are stated apart from
`Whole`.

### P2PChat

`Tame` overlays are those where nobody dials himself and there is no ring.  In them
each connection cuts the peers in two, those `Below` the one who dialled and the
others, and the two `Side`s of neighbouring connections are nested: that is the
lemma that needs the absence of a ring, and the reason why it does.  `FloodOK` says
that a message on its way to an end is nowhere else on that end's side, and was
shown to nobody there; `ShownOnce` follows.  `CarriedOK` says for any overlay that whom
a message could reach has been shown it or can be reached from where it is still
under way; when nothing is under way, `ShownUnlessBroken` follows.

### What is only model-checked

- Liveness: `GoodPeerServed`, `DepartedIsReleased`, `ListenerGetsChannel`,
  `CommandEnds`, `GoodIsServed`, `ComesToRest`, `GoodIsEchoed`.  They rest on
  fairness, and the prover knows neither `ENABLED` nor well-founded progress.
- `ServerSurvives` and `AnnouncedHasChannel`, which do not hold.

Two models are written for the prover as well as for TLC: `Reach` in `P2PChat` is
a least closed set and not computed step by step, and a new node of `BlockChain`
rebuilds its chain in steps of one block and not with a fold.  A chain that was
fetched may lack an index, behind an overlap at the node it is from; the exception
ends the new node, which is a step of `Rebuild`.

## 6. Not modelled

- The text of requests, paths and HTTP-like messages: a request is whole, cut,
  names no file, or names one that cannot be resolved.  Path handling is left out.
- Exceptions for want of resources or of the listening socket: of
  `accept_client()`, `set_nonblock()` and `select()` in `select_aio_server`
  (`main.cpp:370`, `380`, `398`; `socket_functions.cpp:70-80`), of `accept()` and
  of `current_path()` in both file servers.  Each ends its server too.
- `get_request()`'s buffer of `MAX_PATH` bytes: a request line fits.
- Descriptor numbers beyond "this step closed one": a descriptor that is used
  again inherits the bit of the closed one in the set of files.
- EINTR and EAGAIN inside a call, which only repeat it.
- Pings to open WebSockets, the handshake's headers, GET handlers: no state.
- `BlockChain`: the nonce and the bits of SHA-256 (`hash.hpp`); an input of the
  menu that is no command; the twenty-command limit beyond "a node may end".
- `MtServer`: paths, and requests longer than the buffer; a failing `accept()`.
- `IoringServer`: a failing `accept()`, a full submission ring.
- `P2PChat`: text that is no JSON by itself, and JSON cut in two by TCP; peers on
  several hosts, where server ends have different addresses.
- The generated REST layer.
- `epoll_example`: it keeps no state; whether a second connection in an edge is
  seen is a matter of the kernel's list.  `simple_http_proxy`: one client at a
  time, joined; what can go wrong there is text.
- Everything else is a demonstration of one library call or third-party code:
  of the repository's C, C++ and Python lines nearly all are vendored (lwIP,
  mTCP, WASTE, npcap, `json.hh`, `httplib.h`).

## 7. Plan

The programs with state of their own are modelled, and what they promise about
safety is proved.  What could follow:

1. An abstract specification of the chat's flood (a message is said, and shown to
   those it is for) that `P2PChat` implements over a forest, with `FloodOK` as the
   invariant of the refinement.
2. The same for `BlockChain`: a node's chain that only grows, seen where the node
   is `Free`.
3. For the echo server the bounded stream again, with cells of a client in the
   place of the bytes of a file, as long as no send was short.
