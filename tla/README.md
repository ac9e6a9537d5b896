# TLA+ models of the emergency service platform

This directory holds TLA+ modules that model the STOMP server (Java) and the
client (C++) of this repository, the TLC configurations that check them on small instances, and proofs that TLAPS checks.
Paths below are relative to `src/`; `srv/`, `api/` and `impl/` are under
`server/src/main/java/bgu/spl/net/`. `PROJECT.json` lists components, runs,
mutants, theorems and hazards, and maps every definition to the lines it models.

    tlc -workers 2 -config MCBus.cfg MCStompMessagingProtocol
    tlapm StompMessagingProtocolProofs.tla

## 1. The system

A client process connects over TCP, sends STOMP frames (CONNECT, SUBSCRIBE,
UNSUBSCRIBE, SEND, DISCONNECT) and receives CONNECTED, MESSAGE, RECEIPT and ERROR
frames. The server runs either with one thread per client or as a reactor: one
selector thread for all sockets and a pool of workers for the protocol.

    socket --bytes--> selector thread --task--> ActorThreadPool --frame--> protocol object
      ^                     ^                                                  |
      +--- write queue <----+-------- send(), OP_WRITE, wakeup <---------------+--> shared tables

| component | state | operations | what makes it hard |
|---|---|---|---|
| `srv/ActorThreadPool` | waiting tasks per actor, the actors that play, the executor | submit, complete, shutdownNow | selector thread and workers race on one actor |
| `srv/ConnectionsImpl` | handlers by id, subscribers by topic, users, active users, message counter (all but the first static) | register, disconnect, authenticateUser, isUserActive, add/removeSubscription, getSubscribers, send | each access to a ConcurrentHashMap is atomic, the methods are not |
| `impl/stomp/StompMessagingProtocolImpl` | connected, shouldTerminate, clientSubscriptions of one connection | process, with a handler for each command | handlers of different connections interleave; the transport may close the channel in the middle of one |
| `srv/Reactor` | selector, interest sets, selector tasks | serve, handleAccept, handleReadWrite, updateInterestedOps | a selector that sleeps, keys that are cancelled |
| `srv/NonBlockingConnectionHandler` | write queue, channel, shared buffer pool | continueRead, continueWrite, send, close | partial writes, a queue that workers fill while the selector drains it, buffers used after their release |
| `srv/BaseServer`, `srv/BlockingConnectionHandler` | one thread and socket per client | serve, run, send, close | senders of other threads, a close without disconnect |
| `impl/stomp/StompFrame`, `StompMessageEncoderDecoder` | bytes of an incomplete frame | decodeNextByte, encode, parse | the terminator inside a body, empty lines |
| client `StompClient.cpp`, `keyboardInput.cpp` | main loop, communication thread | login, join, exit, report, summary, logout | two threads share the protocol object and delete it |
| client `StompProtocol.cpp`, `ConnectionHandler.cpp` | subscriptions, receipts, received events | send, parseFrame, handleReceipt | maps without locks, receipts that never come |
| client `event.cpp`, the summary in `StompProtocol.cpp` | events received | Event(body), summarizeEmergencyChannel | what survives the way through three texts; lengths, order |

What makes each of them correct, in a sentence: the pool runs the tasks of one
connection in order and one at a time and forgets none; the tables keep a name
with one password, and forget a connection that is gone; the bus delivers a
message to who asked for it, at most once for each time it asked, in the order of the sender; the
reactor decodes what was sent in order, writes whole frames in order, forgets no
frame in a queue and goes on serving; the client terminates each command with its
receipt, and its summaries tell what others reported. Sections 4 and 7 tell how far the code and the models get.

## 2. Modules

| module | models | used by |
|---|---|---|
| `ActorMailbox` | abstract: what the pool promises, a mailbox per actor | `ActorThreadPool` implements it, `Reactor` is built on it |
| `ActorThreadPool` | `srv/ActorThreadPool.java` | `MCActorThreadPool`, `ActorThreadPoolProofs` |
| `ConnectionsImpl` | the shared tables; one operator per access | `StompMessagingProtocol` |
| `TopicBus` | abstract: what a client may count on | `StompMessagingProtocol` implements it |
| `StompMessagingProtocol` | all handlers, each as the sequence of its accesses, and the transport as far as they see it | `MCStompMessagingProtocol`, `StompMessagingProtocolProofs`, `StompMessagingBusProofs` |
| `Reactor` | the selector thread, the workers' sends, write queues, buffers | `MCReactor`, `ReactorProofs` |
| `StompClient` | both threads of the client, the objects they share, one server behind a connection | `MCStompClient.cfg`, `MCRelogin.cfg`, `StompClientProofs`, `StompClientReceiptProofs` |
| `StompFrame` | frames and their texts, the decoder and its buffer, on both sides | `Event`, `BlockingServer`, `StompFrameProofs` |
| `Event` | the body of a report, the event that is read from it, the summary | `BlockingServer` |
| `BlockingServer` | the thread-per-client server with clients that report to each other, connected by streams of bytes | `MCBlockingServer`, `BlockingServerProofs` |

### ActorThreadPool

`submit` and `complete` synchronise on the actor and touch only its entries, so
each is a step (`Submit`, `Complete`); `Take` is a thread of the executor that
begins a task. `handed` is what the executor has and no thread runs yet: it is a
set and not a queue, because a `ThreadPoolExecutor` that starts a thread gives it
its first task directly. `Shutdown` is `shutdownNow`: what was handed is dropped
and later tasks are rejected. Left out: entries of `acts` that the garbage
collector removes once a handler is unreachable.

### ConnectionsImpl and StompMessagingProtocol

A connection `c` has two threads of control: `Worker(c)`, which processes its
frames one at a time (that much `ActorThreadPool` guarantees), and `Closer(c)`,
the transport that may find the end of the stream at any moment. `call[p]` is the
program counter and the locals of thread `p`. One step is one access to a shared
table, with the private work around it; the fields of the protocol object belong
to the worker alone, so their assignments ride along with such a step. The inner
maps of `topicSubscriptions` are objects with an identity (`Maps`), because a
thread may put an entry in a map that has already left the table. An exception in a
handler (the dereference of `get(topic)` when it returns null) ends the frame
without an answer. `synchronized (topicSubscriptions)` in `disconnect` is
`monitor`; only `disconnect` takes it.

Abstracted: the wording of headers and bodies (a required header is there or
missing, an id is a number or not), `CONNECTED` and `ERROR` contents, and the
order in which a `ConcurrentHashMap` is walked, which is any order.

The walk of `handleSend` over the subscribers is the weakly consistent iterator of the
live map. `Advance` looks for the next node while the handler still has the one before
(the iterator is always one node ahead), and reads each place of the table when it gets
there; a node that was found is returned even if it was removed since, with the id it
has by then. A client that left and subscribes again goes to the end of its bin
(`PutOwnSubscription`): a walk whose last node is in that bin (`InBin`) may find it there
a second time. Ids share a bin when they are equal modulo the length of the table
(`SameBin`), 16 in Java; a table that grows while it is walked is not modelled. `Advance`
takes the places in any order, so the model also has walks that no hash table makes. 
`IsUserActive` is one step, although
`containsValue` walks the table: a user enters the table at most once, and the
comment there says why that is enough. `authenticateUser` with the assignment of
`connected` is one step, because nobody else reads `connected`.

### Reactor

The selector thread is a program counter (`selector.pc`): `select`, running the
tasks of other threads, going through the selected keys in any order, and inside
`continueWrite`. Workers are at the operations that other threads can tell apart:
`writeQueue.add`, the task for the selector, `wakeup`, the assignment of
`shouldTerminate`, `disconnect`, the release of the buffer. What the protocol does
with a frame is one of five kinds: answer the sender, publish to everybody, send an ERROR and terminate,
DISCONNECT with a receipt, DISCONNECT without (`quit`). A chunk is what one read
returns, and holds one frame; decoding is in `StompFrame`.

A test of an empty queue is part of the step before it where the two commute with
every step of another thread: `writeQueue.remove()` with the `isEmpty()` after it
(others only append), `select()` with the first `selectorTasks.isEmpty()`. The
second test of the queue at `NonBlockingConnectionHandler.java:118` and the test
of `shouldTerminate` are steps of their own. `shouldTerminate` is a plain field
that the selector reads without synchronisation: the model lets the read miss the
value until an atomic operation of the worker has published it.

Left out: `Reactor.close()`, which nothing calls, and failures of the selector,
of `accept` and of the server socket; and exceptions that leave a handler of the protocol,
which end a task early (`StompClient` and `StompMessagingProtocol` have them). Every task gives its
buffer back also then, by the `finally` at `NonBlockingConnectionHandler.java:76`.

### StompClient

The main thread (`main.pc`) reads a command, looks at the pointer `protocol`, asks
`isConnected`, and goes on to what the command does; the communicator (`comm.pc`)
is the loop of `communicate` and its end, in which the two objects are deleted and
the two pointers cleared, each a step of its own. Steps are cut where the other
thread can interfere: at each use of a shared pointer, at `receiptMap` and
`eventSummary`, at the socket. Fields that only the main thread uses (`idCounter`,
`receiptCounter`, `subscriptionIds`) change in the step that asks `isConnected`.
A session is what one `login` creates: a handler, a protocol object, a connection.

Undefined behaviour has an outcome of its own. The use of a deleted object or a
null pointer, an empty line (`tokens[0]` before `tokens.empty()`) and a data race on
one of the maps end the model in `outcome = "undefined"`; a data race may also go
well. The properties speak of what happens before.

The server answers frames in their order, as the handlers of
`StompMessagingProtocolImpl` do for one client; a CONNECT may be refused, other
clients may publish, the RECEIPT of a DISCONNECT may be lost with the connection.
What other clients do to the shared tables is `StompMessagingProtocol`; here it is a choice.
The publisher may miss its own MESSAGE, because a race has lost its entry. And a handler may
fail (`ServeFails`): a null pointer exception leaves SUBSCRIBE, UNSUBSCRIBE or DISCONNECT
without an answer, the reactor keeps the connection, and the frames that were read with
the failing one are thrown away, perhaps up to the middle of the next (`Torn`), of which the
rest is a frame with a command nobody knows, or a single newline, over which `fromString` fails
too. The history `dropped` has the commands of frames that the server read and never carries
out. With a thread per client the exception ends the thread and closes the socket, which is
`LinkLost`. The connection may end
at any moment, with or without the last frames. Abstracted: event files and bodies
(a report is a number of SENDs), what a summary writes, the number of arguments of
a command, host and port, memory that a second login leaks before it terminates
the program.

### StompFrame, Event and BlockingServer

A text is a sequence of symbols: newline, colon and NUL, for which the code looks,
and words, in which it looks for nothing. `toString`, `fromString`, `serialize`,
`parseFrame`, `reportBody` and `EventOf` are the functions of the code on such texts,
with what they lose or add: a body that goes through the server comes out with one
more newline, the client reads a frame up to the first NUL, a value with a colon is
read as empty, the description line is taken for general information. Java's `split` drops
trailing empty lines, which are no headers anyway (`Parsed`). The key
"description" has two symbols because its first character is cut off. The decoder is
its array and the length in use; what an operator does with the array in one step is
what `pushByte` does byte by byte.

`BlockingServer` sends these texts over two streams per client. `thread[c]` is the
thread of the connection: in the loop of `run`, going through the subscribers, in
`out.write`, in `out.flush`. `Write` and `Flush` are two steps because several threads
use one `BufferedOutputStream`, whose methods are synchronised one by one; a flush
sends what the others have buffered too. A flush waits while the socket is full
(`WireCapacity`), and fails when the socket was closed or the client is gone; then
`close` runs, on the thread of the sender. A thread whose `run` ends only closes the
socket: the tables keep its entries. `ReadFrame` is the loop up to the byte that
completes a frame, since nobody else sees the bytes before it.

The histories `sent` and `written` hold the frames behind the bytes, so that what is
decoded can be compared with what was meant. The properties compare ends that lie far
apart: `KeptAsReported` relates what a client has kept to the files of all reporters, `KeptInOrder` their order to that of
each file, and `SummaryTells` relates the file of a reporter to the summary another user would
get at that moment, through `report`, the client's frame, the decoder, the bus, the
server's frame, the client's parser, the event and the sort.

Less than the code: the tables change in one step (their races are in
`StompMessagingProtocol`), one channel, no UNSUBSCRIBE and so no topic that is removed, no null pointer exception and no subscriber
that a walk meets twice, names and passwords are right,
`out` is never null because a client subscribes only after `run` has begun. The
client is its two loops without the deletion of objects, which is in `StompClient`.

## 3. Runs

Every passing run checks, for each of its properties, that a plausible bug in the
code breaks it: `PROJECT.json` names these mutants, which stand beside the
definitions they change.

| run | instance | states | shows |
|---|---|---|---|
| `pool` | 3 actors, 2 threads, 3 tasks each, a shutdown at any time | 13,520 | one task of an actor at a time (`Exclusive`), none stranded, in order, each task runs; the pool implements `ActorMailbox` |
| `bus` | a publisher with 3 frames and a subscriber with 4, 1 topic, whose ids share a bin, closes at any time | 1.1 M | the handlers implement `TopicBus`; `CleanClose`, `NotListedAfterUnsubscribe` |
| `monitor` | 3 frames of every kind, complete or not, and a second client that races for the name with two passwords, 2 closes | 255 k | every frame and every disconnect ends; passwords are never replaced, at most one active entry per name, who is logged in gave the right password |
| `reactor` | one client publishes to two or disconnects and may leave, the other asks; frames of 2 bytes, a socket that takes 1 | 460 k | input in order, whole frames out in order, no lost wakeup; each request is answered in full, or its connection is closed, or the selector thread is lost |
| `client` | 5 lines typed, 2 sessions, 1 channel, reports of 2 events, 1 message of another client, a server that may fail over a frame | 730 k | `ReceiptsMatch`, `SubscriptionsAgree`, `NothingLeft`; the communicator ends a session only for a logout, an ERROR or a lost connection (`EndsForAReason`); every logout ends, unless the server failed over the DISCONNECT or threw it away |
| `reports` | 2 clients of the thread-per-client server: one reports a file of 3 events to both; both report; one reports to a client that may log out or be lost | 26 k | `DecodedAsSent`, `HandledAsWritten`: frames survive the streams whole and in order; `KeptAsReported`: no client keeps what nobody reported; `KeptInOrder`: none of a user's reports is left out, doubled or overtaken; `SummaryTells`; each report reaches the subscribers (`ReportsArrive`), connections that ended are forgotten (`DeadForgotten`) |
| `lost_subscription`, `ghost`, `terminated`, `keeps_serving`, `stuck_logout`, `relogin` | as small as the behaviour allows | | section 4 |

**Bounds.** `MaxTasks`, `MaxConnections`, `MaxFrames` and `MaxChunks` bound how
often the environment acts; the queues, tables and threads themselves are not
bounded. Three tasks make a waiting queue of two, so that its order shows; three
actors on two threads make the executor's own queue matter. Every race on the
topics is between two connections, and three frames are what it takes to connect,
subscribe and then do the thing in question; a third connection would be one more
subscriber for the loop of SEND. In `bus` the subscriber has a fourth frame, to leave or to
come back: `Bins` is 1, so that the two ids share a bin as 1 and 17 do in a table of 16, and the
walk of the publisher does meet the subscriber twice: a copy of a message for an earlier and one
for a later SUBSCRIBE are both in the inbox then. In `monitor` three frames and the close make three
calls of `disconnect` that may compete. Three inner maps (two in `monitor`) suffice for
one topic: in every reachable state of `bus`, `monitor` and the runs of section 4
where a worker is about to create a map, one is left that nobody refers to. Maps are interchangeable, so
permuting them is a sound symmetry (used for `bus`, which has no liveness property). In `reactor`
each client has one chunk, so two workers fill one queue and lease from one pool; that several chunks of one
connection stay in order is what `ReactorInputInOrder` and `ReactorOutputInOrder` prove for any number.
A frame of two bytes and a socket of one make every frame a
partial write. In `reports` the lengths 1024, 27 and 30 of the code are the constants
`Capacity`, `ShortLength` and `LongLength`: with 8, 2 and 5 every frame outgrows the
buffer, and there are descriptions that are not cut, cut without a mark, and marked.
The code only compares with these numbers, so small ones stand for the large. A file of
three events shows one in the server while another is on its way and a third is kept. The
first two share a date and stand against the order of their names, so
that the sort must use both; one has a colon in its city. `WireCapacity` 0 makes a
writer wait whenever the reader has not read everything. Five commands are two sessions with a login, a join and a logout
between them, or a channel joined, left and joined again. `CHECK_DEADLOCK FALSE` is in every configuration because the
system does stop: clients may send nothing more, and the bounds are used up.

**Fairness.** `pool`: a thread of the executor that can take a task takes it, and
tasks end, since `process` does no blocking operation. `monitor`: workers and
closers that can run do run; the monitor needs no strong fairness because
finitely many disconnects compete for it. `reactor`: the selector thread and the
workers run, and a client that stays reads what arrives. `reports`: the threads of the server run, and so
does the communicator of a client; users type what they like. `client`: both threads run and
a server that is connected deals with what it gets, but not always with an answer
(`ServeFails`); whether the connection lasts is left open. No fairness is assumed of
what clients send or when they leave.

## 4. Where code and comments disagree

Each of these is a run that TLC ends with a counterexample; the quoted comments
are in `PROJECT.json`.

* `lost_subscription`: a confirmed subscription disappears with an inner map that
  another client found empty just before.
* `ghost`: a frame still in process when the channel closes enters the connection
  in tables that `disconnect` has already swept. If it was a first CONNECT, the
  user stays active and can never log in again.
* `stuck_logout`: a topic is removed between two accesses of `removeSubscription`, a null pointer
  exception leaves `handleDisconnect`, and the connection stays open: no RECEIPT, no ERROR, and
  `join` in the client waits for ever. SUBSCRIBE and UNSUBSCRIBE can end like this too. A frame that was read together with one over which the
  server fails has the same end.
* `terminated`: a connection marked for termination stays open: only
  `continueWrite` looks at the mark, and the ERROR is queued before the mark is
  set; a DISCONNECT without receipt queues nothing.
* `keeps_serving`: a task for a key whose channel was closed meanwhile throws
  `CancelledKeyException` in the selector thread, and the server stops serving.
* `relogin`: after a lost connection the thread of the old session was never joined;
  the next login terminates the client, which is said to handle this gracefully.

Seen while modelling, without a run of their own: a subscriber that leaves a topic and comes back
while a message is sent is met twice by the walk over the live map, and gets the message, with its
"unique" id (`StompMessagingProtocolImpl.java:226`), twice, which `TopicBus` allows and
`PutOwnSubscription` explains; two connections log in as one user, because `isUserActive` is asked
outside the monitor of `authenticateUser` and a user is entered as active only when
it registers (`OneActiveConnection` and `Authenticated` do not say otherwise); two subscription ids for one topic share one entry of
the table, so that dropping one drops both; the client uses objects that its other thread deletes, and two maps without a
lock (`Undefined` in `StompClient`); SEND never answers its receipt
header (it returns before `sendReceiptIfRequested`); a selector
that meets an `IOException` while writing never leaves `continueWrite`
(`Spinning` in `Reactor`); the RECEIPT of a DISCONNECT is lost when an earlier
frame is flushed between the mark and the RECEIPT; the reason in an ERROR frame lies
behind the terminator of the frame that its body quotes, so no client ever reads it
(`ReadAs` in `BlockingServer`); a thread of the blocking server that ends without
`disconnect` leaves its connection and its subscriptions until somebody's report to it
fails (`DeadForgotten`), and its user active for ever if nobody reports; a description
of 28 characters, which has 30 when two newlines were added on its way, loses its last
one without a mark, and a value with a colon is lost (`Tells`, `Kept`); a newline in the
city or the name of an event makes `report` write a line without a colon, which the client that
receives it cannot parse (`LinesAssumption` in `BlockingServer` leaves such files out); `data/events1_partial.json` has dates that are texts, on which
`parseEventsFile` throws.

## 5. Proofs

| theorem | states | in |
|---|---|---|
| `PoolTypes`, `PoolExclusive`, `PoolStrandsNone`, `PoolInOrder`, `PoolImplementsMailbox` | `TypeOK`, `Exclusive`, `NoneStranded`, `InOrder` of `ActorThreadPool`; `ImplementsMailbox`: the pool refines `ActorMailbox` | `ActorThreadPoolProofs` |
| `Types`, `OneLogin`, `Logins`, `Passwords` | `TypeOK`, `OneActiveConnection`, `Authenticated`, `PasswordKept` of `StompMessagingProtocol` | `StompMessagingProtocolProofs` |
| `HandlersImplementBus`, `NoLeftover`, `NothingRemains` | `ImplementsBus`: the handlers refine `TopicBus`; `NotListedAfterUnsubscribe`; `CleanClose` | `StompMessagingBusProofs` |
| `ReactorTypes`, `ReactorInputInOrder`, `ReactorOutputInOrder`, `ReactorWakes` | `TypeOK`, `InputInOrder`, `OutputInOrder`, `NoLostWakeup` of `Reactor` | `ReactorProofs` |
| `ClientTypes`, `SessionsLeaveNothing` | `TypeOK`, `NothingLeft` of `StompClient` | `StompClientProofs` |
| `RequestsOnTheWay`, `ReceiptsFindTheirRequests`, `ClientAndServerAgree`, `SessionsEndForAReason` | the invariant about requests; `ReceiptsMatch`, `SubscriptionsAgree`, `EndsForAReason` of `StompClient` | `StompClientReceiptProofs` |
| `DecodedSerialized`, `ParsedToString` | of a frame with any headers and any body: the decoder makes it again of what the client serializes, and the client parses what the server writes | `StompFrameProofs` |
| `SpecDecodedAsSent`, `SpecHandledAsWritten`, `SpecTypeOK`, `SpecKeptAsReported`, `SpecKeptInOrder` | `DecodedAsSent`, `HandledAsWritten`, `TypeOK`, `KeptAsReported`, `KeptInOrder` of `BlockingServer` | `BlockingServerProofs` |
| `ReportMakesEvent` | the body that `report` writes of any event of a file is an event again where it arrives | `BlockingServerProofs` |

`DecodedSerialized`, `ParsedToString` and `ReportMakesEvent` are about the functions on texts. Each
of the others is a theorem of `Spec`, for any sets of connections, topics, users, channels and frames,
any number of threads, sessions and commands, and any value of the bounds. They assume only what the
modules assume of their constants (`PoolAssumption`, `RegistryAssumption`,
`ProtocolAssumption`, `ReactorAssumption`, `ClientAssumption`, `WordsAssumption`, `EventAssumption`,
`BlockingAssumption`, `FrameWordsAssumption`, `FilesAssumption`, `LinesAssumption`): bounds are natural numbers, null values
are not values, a frame has at least one byte, a word has no separator in it, two numbers are written
differently. Only the last two restrict what a user may do: no text of a file has a
NUL, and no city, name or entry of the information has a newline; descriptions may. TLC evaluates all of them in the runs. The
inductive invariants below were checked by TLC on the instances of section 3 before
they were proved.

*Pool.* `InOrder` is not inductive: nothing in it says which task the executor holds
or which ones wait. `PoolInv` adds that what the executor holds of an actor is the
task after those it has executed (`NextTask`), and, until the pool is shut down, that
the waiting tasks follow that one without a gap and an actor which is not playing has
none (`Waiting`). `Complete` is the step that needs all of it: the head of the waiting
tasks takes the place of the task that ended.

*Mailbox.* The mailbox of an actor is what the executor has of it and what waits, and
a mailbox executes what it submitted in order. `PoolInv` shows that the first of
these is the task the pool hands to a thread; every other step of the pool is a
submission, the end of a task, the shutdown, or changes no mailbox.

*Logins.* `TypeInv` (`DataOK`, `CallOK`, `LoopOK`) ties the locals of a thread to
its program counter: at `putSubscriber` there is a map and a numeric id, at
`lookup` an entry. That is what makes type correctness inductive. On top,
`LoginInv` adds that whoever is in `activeUsers` is a registered user
(`ActiveAreRegistered`): `authenticateUser` enters only users that are not
registered, so a name that is active over one connection cannot be entered over
another. That is why `OneActiveConnection` holds although `isUserActive` is asked too
early. `Passwords` follows from the same invariant.

*Bus.* A step of a handler is a step of `TopicBus` when it enters a subscription, takes
a message id, or sends one copy; every other step is a stutter. What a step delivers it
has carried along for a while, from tables that others change: `BusInv` says that a
handler carries only what was asked for (`Requested`), that the message it sends is the
last one of its client (`Sending`), and that no copy is sent twice for one request (`OnceEach`).
The iterator may come back to a client, so that it has not met it before is no invariant. Requests are
numbered: each SUBSCRIBE of a client writes its number into the entry (a history). Whatever an
entry, a walk or an inbox has of a client is of a request before the one that would be put next
(`Earlier`, `FoundBefore`); so what stands at a place that the iterator has still before it
is later than all copies that were sent and nodes that were found (`ToVisit`, `Ahead`), the node it has found
is later than the one it returned (`NextIsLater`), and that one later than the copies sent
(`EntryIsNew`). Only a put brings the walk back to a place, and a put is a later request. Two parts are about the tables. An
inner map serves the topic it was made for and no other, be it in the table or in the
hands of a handler that got it before it was removed (`OneTopic`); each entry in a map
that serves a topic was asked for, for that topic (`EntriesAsked`). Without the maps in
the hands of handlers neither part is inductive.

*Leaving.* `NotListedAfterUnsubscribe` is about a worker between two frames; while one is
processed, the table may list the client for a topic it has just given up. `ListInv` says
that the worker is then at the removal of that very topic (`ListedHasTopic`), that whoever
is being entered has the subscription already (`SubscribedFirst`), and that a worker about to
remove the client from a map, while the table still lists it, has the map of the table
(`RemovesFromTable`): a map leaves the table only when it is empty, and a newer one
never listed the client. A sweep of DISCONNECT ends with `shouldTerminate` (`Leaving`).

*Closing.* `CloseInv` follows `disconnect` of the transport through its loop: of the topics
that the iterator has behind it (all but `Unswept`) only the one whose map is in its hands
may still list the connection (`Swept`). Until `removeUser` the worker rests, unless
a frame came late, and nobody but the worker enters the connection.

*Reactor, input.* All connections share a pool of buffers. `InputInv` says that a buffer
is in the pool or leased to one unfinished task, never both and never twice (`Leases`),
that it holds the chunk it was leased for until the task has begun (`Contents`), and that
chunks, leases and tasks of a connection count the same (`Counted`). Only then does
each task decode its own chunk.

*Reactor, wakeup.* `NoLostWakeup` is about the selector at `select`; `WakeInv` says where the
announcement is at every other step: a frame in the queue of an open channel has a task or a worker
that is about to add one (`Announced`), or `OP_WRITE` that the selector is not about to
drop (`Waits`); a task that the selector thread is not just running comes with a wakeup, or
a worker at `wakeup()` (`Heard`); and a channel that is not open yet has nothing in
its queue (`Quiet`), so that registering it forgets nothing.

*Reactor, output.* `OutputInv` speaks of the sequence of all frames that were ever added for a
connection: some of them are written in full, the next one perhaps in part, and this one and the
rest are in the queue (`Sent`). Those of one client are ordered by their chunks (`Ordered`);
they are of chunks that were processed, and the frame of a task that is still to send is
not among them (`Known`), because a task sends to each receiver at most once (`Once`).

*Client, sessions.* `TypeInv` ties the command in hand, with its ids, to the program counter
of the main thread. `LifeInv` says what the two threads find as long as nothing undefined
has happened: without a communicator, what the login has allocated so far (`LoginAlone`);
with one, the objects of its session, less those it has deleted (`Serves`). The
third case is a login that is typed beside a communicator which still runs
(`LoginBeside`): it takes the pointers away from it, and the program ends in
`terminated` or `undefined`. `NothingLeft` needs all three, since each of them must
be shown never to come back to the prompt without a thread and with an object.

*Client, requests.* `ReceiptInv` follows the number of a request. Three thresholds part the
numbers that were read, those that were answered, those that were sent and the one in hand
(`Ordered`), so no number is on its way twice; each number on its way has its request in
`receiptMap` (`Known`). What the RECEIPT of an UNSUBSCRIBE confirms is the channel that the
server has under the id, so the proof names for each id the channel it was given for
(`Named`). A frame that is read while a login takes the pointers away is parsed by an object
with an empty map (`ParsesOwn`): it does no harm to this property, though the program is
about to end.

*Client, subscriptions.* `subscriptionIds` changes when the command is checked, the frame
goes out two steps later, and the server serves it later still. `Agreed` adds the frame in hand to the
queue (`Pending`), and leaves out the time between a logout and the end of its
session (`Parting`), in which the client still lists what the server will drop.
`WillHaveAppend` and `WillHaveServed` say that sending a frame has its effect on what the server
will have, and serving it has none. That a frame in hand is sent at all needs `Connected`,
for `sendFrameAscii` is refused otherwise and nobody looks at its result. All this is said of a
connection of which the server has thrown nothing away (`dropped`): a handler that fails alone has
changed `clientSubscriptions` before, like one that answers (`FailsAlone`).

*Client, end of a session.* `StopInv` says that as long as the main thread does not wait in
`join`, no request in `receiptMap` is a DISCONNECT but the one it is about to send
(`Stopping`). The number of that one is above all that were read (`ReadBefore`, from the
thresholds), so no RECEIPT can be taken for its own. A new object starts with
`stopCommunication` false, which needs that nothing was done to it while the login set it
up (`New`). A login beside a communicator is left out: there the communicator may be at
the objects of another session.

*Texts.* What `StompFrame` and `Event` compute is recursive, over data of any length. The proofs
get induction from sets: a set of natural numbers that is not empty has a least one (`Least`), so
a set of texts that has each text all of whose shorter ones it has, has every text
(`SizeInduction`); and a recursive function exists because its finite beginnings do
(`StompFrameProofs`, first part). From there: the pieces of a text are what stands
before its first separator and the pieces of what stands behind it (`SplitCat`), so a text of whole lines is read line by line
(`WholeLines`), the header lines of a frame give its headers in whatever order the
map was walked, and the body is what follows the empty line (`ParsedFrame`). The
decoder keeps its array, longer or shorter than the frame; what it returns depends only
on the part in use, and growing the array keeps that part (`PushByte`, `Pushed`).

*Streams.* The inductive invariant of `BlockingServer` is `IInv`. `Streams` says that the bytes on their way to the server
are the texts of the frames in `sent`, whole and in that order; and that the bytes on their way to a
client, followed by those still in the buffer of its connection, are the texts of the frames in `written`. A
flush moves bytes from the one to the other, whoever calls it, so the order is
that of the writes. The bytes of a client that is gone count no more. `AllThreads`
says of every thread that the frame it serves or writes is a proper one: only the body of an
ERROR has a terminator inside, because it quotes a text. That is the one frame of which the
client sees less than was written (`ReadAs`), and what follows that terminator is dropped with it.

*Events.* A body is a text of lines (`BodyLines`), each with a key before its first colon
(`KeyIsFirst`) and a value of which `Kept` is read (`ValueIsKept`); the keys of a report are
different, and an entry of the information begins with a blank, so it is taken for none of them (`LinesTell`).
The loop over the lines stops at the description, whose lines are put together again
with a newline that was not there (`JoinLines`). So each step that makes an event finds a
date to convert and no line without a key, on which the code would throw.

*Kept.* Each SEND and each MESSAGE, wherever it is, has as its body a report that was made before
(`OfReports`): in `sent` (`SentReported`), in the hands of a thread that walks the subscribers
(`ServedReported`), in `written` (`WrittenReported`), and, read as an event, in the summary
of a client (`KeptReported`). `reported` only grows (`NeverFewer`), so
what was a report stays one.

*In order.* `KeptInOrder` needs the whole way of a report. `InOrder` gives each report of a user
`u` on its way its number in the file of `u`: those in `sent[u]` follow the number `n` of the last one that the
server has read (`Served`), and for each client `c`, those it keeps and those in `written[c]` follow
each other up to some number `b` (`Delivered`, where `Chain` says that numbers follow). `Position` ties `b` to the loop
of `u`: one below `n` while `c` is still to get the report in the loop (`Awaits`), and
`n` otherwise, unless `c` is `Over`, in no table any more and never to be again. A client of
which that cannot be said has none of the reports of `u` (`Untouched`); its first one may have any number.
A client that is looked for in vain, or is found not connected, must be `Over`:
`Presence` says that who is subscribed is registered and connected, and that an answer to DISCONNECT is the last.
A SEND that is refused has a number too, and nobody has anything of that user then. The order between the
reports of several users is decided by the threads, and nothing is said of it.

*Only model-checked.* `EveryTaskRuns`, `FramesEnd`, `ClosesEnd` and `Answered` are
liveness under fairness, beyond this prover; so are `LogoutEnds`, `ReportsArrive` and
`DeadForgotten`. `SummaryTells` is left to TLC too: it holds of the files of the run and not of
every file (an entry of the information whose key is empty or has a colon of its own is counted
otherwise than it was reported), and the conditions under which it would be a
theorem are nowhere in the code.

## 6. Not modelled

* `parseEventsFile` in `event.cpp`: it converts JSON with the vendored library; a file
  is a sequence of events here. Its exceptions (no such file, a date that is a text) end the client.
* `epochToDate` and the layout of the summary file.
* A client that stays connected and never reads: in the thread-per-client server it
  holds up everybody who reports to it. `ReportsArrive` assumes that clients read.
* `StompServer.java` picks a server by its argument and has no state.
* `impl/echo`, `impl/newsfeed`, `impl/rci` and `client/src/echoClient.cpp` are course examples
  the service does not use; `client/include/json.hpp` is a vendored library.
* Log lines, and headers nobody reads.

Of some 25,800 lines of implementation 24,640 are `json.hpp`, and several hundred
the course examples, so the share of all lines that any model of this system can map is
a few per cent. Of the service's own code, the handlers, tables, transports, frames
and both client threads are mapped; what is left is getters, constructors, includes, usage
messages and output.

## 7. Plan

In this order, the most consequential behaviour first; all steps are done.

1. `ActorThreadPool` over `ActorMailbox`, with its invariants proved.
2. `ConnectionsImpl`, `StompMessagingProtocol` over `TopicBus`, types and logins proved.
3. `Reactor` over `ActorMailbox`.
4. `StompClient` with its connection and a server that serves it.
5. `StompFrame` and `Event`: texts, the decoder, reports and summaries.
6. `BlockingServer`, which composes 5 with the threads of the blocking server.
7. Proofs of the invariants, action properties and refinements that the runs check, for every
   module with state; and of the texts they send, for every text.

What could follow: the summary, under named conditions on the information of an event.
