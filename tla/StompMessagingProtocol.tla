----------------------- MODULE StompMessagingProtocol -----------------------
(***************************************************************************)
(* The STOMP protocol of the server (StompMessagingProtocolImpl.java) over *)
(* the shared tables of ConnectionsImpl. A connection has two threads of   *)
(* control: its worker processes the frames the client sent, one at a time *)
(* (ActorThreadPool), and its closer is the transport, which may find the  *)
(* channel at its end at any moment and calls disconnect while the worker  *)
(* is in the middle of a frame. A step is one access to a shared table,    *)
(* with the private work of the handler that precedes or follows it.       *)
(***************************************************************************)
EXTENDS ConnectionsImpl, Sequences

CONSTANTS
  Frames,    \* Frames[c]: the frames client c may send
  MaxFrames, \* MaxFrames[c]: a bound, how many of them c sends
  BadId      \* an id header that is not a number

(* The headers the handlers read; receipt: whether the frame asks for one. *)
FrameType ==
  [command : {"CONNECT", "DISCONNECT", "SUBSCRIBE", "UNSUBSCRIBE", "SEND",
              "unknown"},
   login : Users \cup {Null}, passcode : Passcodes \cup {Null},
   destination : Topics \cup {Null}, id : SubIds \cup {BadId, Null},
   receipt : BOOLEAN]

ASSUME ProtocolAssumption ==
  /\ MaxFrames \in [Connections -> Nat]
  /\ BadId \notin SubIds \cup {Null}
  /\ Null \notin [login : Users, passcode : Passcodes]
  /\ Null \notin [to : Connections, id : SubIds, request : Nat]
  /\ Frames \in [Connections -> SUBSET FrameType]

VARIABLES
  open,                \* open[c]: the channel of c is open
  received,            \* received[c]: how many frames of c were decoded
  connected,           \* field of the protocol object of c
  shouldTerminate,     \* field of the protocol object of c
  clientSubscriptions, \* clientSubscriptions[c][id]: the topic c has under id
  monitor,             \* the thread in synchronized(topicSubscriptions)
  call                 \* call[p]: where thread p is, and its local variables

VARIABLES  \* histories: what the properties are about
  session,    \* session[c]: the credentials of the CONNECT that succeeded
  owed,       \* owed[c]: the frame c sent last asked for a receipt and got none
  late,       \* late[c]: a frame of c was processed when its channel was closed
  asked,      \* asked[c]: the subscriptions c has asked for, one after the other
  published,  \* published[n]: the topic and the sender of message n
  inbox       \* inbox[c]: the MESSAGE frames given to the handler of c

sessionVars == <<connected, shouldTerminate, clientSubscriptions, session>>
messageVars == <<asked, published, inbox>>
vars == <<registryVars, sessionVars, messageVars, open, received, monitor, call,
          owed, late>>

Worker(c) == <<c, "worker">>
Closer(c) == <<c, "closer">>
Threads == Connections \X {"worker", "closer"}

(* frame: the frame in process; topic, map, entry, messageId: locals of the *)
(* handler; todo: what an iterator of the handler has not reached; next: the *)
(* node that the iterator over an inner map has found and not yet returned.  *)
Idle == [pc |-> "idle", frame |-> Null, topic |-> Null, map |-> Null,
         entry |-> Null, next |-> Null, messageId |-> 0, todo |-> {}]

(* The entry of d as the walk over a map has it, also when it is removed *)
Nodes == [to : Connections, id : SubIds, request : Nat]
Node(d, entry) == [to |-> d, id |-> entry.id, request |-> entry.request]

Labels == {"idle", "sendError", "terminate", "receipt", "isUserActive",
  "authenticate", "putTopic", "getTopic", "putSubscriber", "unsubscribeAll",
  "containsTopic", "getForRemove", "removeSubscriber", "getForEmpty", "isEmpty",
  "removeTopic", "nextMessageId", "getSubscribers", "advance", "nextEntry",
  "lookup", "enqueue", "disconnect", "enter", "sweep", "sweepOne", "removeUser", "closed"}

Calls ==
  [pc : Labels, frame : FrameType \cup {Null}, topic : Topics \cup {Null},
   map : Maps \cup {Null},
   entry : Nodes \cup {Null}, next : Nodes \cup {Null},
   messageId : Nat, todo : SUBSET (Connections \cup Topics \cup SubIds)]

TypeOK ==
  /\ RegistryTypeOK
  /\ open \in [Connections -> BOOLEAN]
  /\ received \in [Connections -> Nat]
  /\ \A c \in Connections : received[c] <= MaxFrames[c]
  /\ connected \in [Connections -> BOOLEAN]
  /\ shouldTerminate \in [Connections -> BOOLEAN]
  /\ clientSubscriptions \in [Connections -> [SubIds -> Topics \cup {Null}]]
  /\ monitor \in Threads \cup {Null}
  /\ call \in [Threads -> Calls]
  /\ session \in [Connections -> [login : Users, passcode : Passcodes] \cup {Null}]
  /\ owed \in [Connections -> BOOLEAN]
  /\ late \in [Connections -> BOOLEAN]
  /\ asked \in [Connections -> Seq([topic : Topics, id : SubIds])]
  /\ published \in Seq([topic : Topics, from : Connections])
  /\ inbox \in [Connections ->
                Seq([msg : Nat, topic : Topics, id : SubIds, request : Nat])]

Init ==
  /\ RegistryInit
  /\ open = [c \in Connections |-> FALSE]
  /\ received = [c \in Connections |-> 0]
  /\ connected = [c \in Connections |-> FALSE]
  /\ shouldTerminate = [c \in Connections |-> FALSE]
  /\ clientSubscriptions = [c \in Connections |-> [id \in SubIds |-> Null]]
  /\ monitor = Null
  /\ call = [p \in Threads |-> Idle]
  /\ session = [c \in Connections |-> Null]
  /\ owed = [c \in Connections |-> FALSE]
  /\ late = [c \in Connections |-> FALSE]
  /\ asked = [c \in Connections |-> <<>>]
  /\ published = <<>>
  /\ inbox = [c \in Connections |-> <<>>]

-----------------------------------------------------------------------------
(* Where a thread is and where it goes *)

At(p, label) == call[p].pc = label
Goto(p, label) == call' = [call EXCEPT ![p].pc = label]
Return(p) == call' = [call EXCEPT ![p] = Idle]
FrameOf(c) == call[Worker(c)].frame

(* A step of a handler that changes nothing but the tables, nothing at all *)
TransportSame == UNCHANGED <<open, received, late>>
OnlyTables == UNCHANGED <<sessionVars, messageVars, monitor, owed>> /\ TransportSame
OnlyCall == UNCHANGED registryVars /\ OnlyTables

-----------------------------------------------------------------------------
(* The transport: accepted, closed at any moment *)

(* The acceptor creates the handler, which registers itself. *)
Accept ==
  /\ Register
  /\ open' = [open EXCEPT ![connectionCounter + 1] = TRUE]
  /\ UNCHANGED <<sessionVars, messageVars, received, monitor, call, owed, late>>

(***************************************************************************)
(* close(), after the end of the stream or an error: the channel is closed *)
(* and disconnect is called. Frames that were read before may still be     *)
(* waiting for the worker, or be in its hands.                             *)
(***************************************************************************)
Close(c) ==
  /\ open[c]
  /\ open' = [open EXCEPT ![c] = FALSE]
  /\ Goto(Closer(c), "disconnect")
  /\ late' = [late EXCEPT ![c] = ~At(Worker(c), "idle")]
  /\ UNCHANGED <<registryVars, sessionVars, messageVars, received, monitor, owed>>

(***************************************************************************)
(* process(f): the worker has decoded frame f and goes to label. What was  *)
(* read is decoded and processed to the end, also when the channel is      *)
(* closed by then and when shouldTerminate is set.                         *)
(***************************************************************************)
ProcessAs(c, f, label, topic, todo) ==
  /\ c \in 1..connectionCounter
  /\ At(Worker(c), "idle")
  /\ received[c] < MaxFrames[c]
  /\ received' = [received EXCEPT ![c] = @ + 1]
  /\ call' = [call EXCEPT ![Worker(c)] =
       [Idle EXCEPT !.pc = label, !.frame = f, !.topic = topic, !.todo = todo]]
  /\ owed' = [owed EXCEPT ![c] = f.receipt]
  /\ late' = [late EXCEPT ![c] = @ \/ ~open[c]]
  /\ UNCHANGED <<registryVars, open, monitor, published, inbox>>

Process(c, f, label) == ProcessAs(c, f, label, Null, {})

(* A frame that answers the one in process is sent to c itself; it is lost *)
(* when c was already removed from the active connections.                 *)
Answer(c) == owed' = [owed EXCEPT ![c] = @ /\ c \notin activeConnections]

(* sendError: the ERROR frame is sent ... *)
SendError(c) ==
  /\ At(Worker(c), "sendError")
  /\ Answer(c)
  /\ Goto(Worker(c), "terminate")
  /\ UNCHANGED <<registryVars, sessionVars, messageVars, monitor>>
  /\ TransportSame

(* ... and then the connection is marked for termination. *)
MarkForTermination(c) ==
  /\ At(Worker(c), "terminate")
  /\ shouldTerminate' = [shouldTerminate EXCEPT ![c] = TRUE]
  /\ Return(Worker(c))
  /\ UNCHANGED <<registryVars, messageVars, monitor, connected,
                 clientSubscriptions, session, owed>>
  /\ TransportSame

(* sendReceiptIfRequested; after it handleDisconnect calls disconnect. *)
SendReceiptIfRequested(c) ==
  /\ At(Worker(c), "receipt")
  /\ Answer(c)
  /\ IF FrameOf(c).command = "DISCONNECT"
       THEN Goto(Worker(c), "disconnect")
       ELSE Return(Worker(c))
  /\ UNCHANGED <<registryVars, sessionVars, messageVars, monitor>>
  /\ TransportSame

(* The default branch of process *)
HandleUnknown(c, f) ==
  /\ f.command = "unknown"
  /\ Process(c, f, "sendError")
  /\ UNCHANGED <<sessionVars, asked>>
-----------------------------------------------------------------------------
(* CONNECT *)

(* Mutant: the test of the passcode header is dropped. *)
ConnectRefusedForLogin(c, f) == connected[c] \/ f.login = Null

ConnectRefused(c, f) == connected[c] \/ f.login = Null \/ f.passcode = Null

(* A null login or passcode stands for any of the required headers missing. *)
HandleConnect(c, f) ==
  /\ f.command = "CONNECT"
  /\ Process(c, f, IF ConnectRefused(c, f) THEN "sendError" ELSE "isUserActive")
  /\ UNCHANGED <<sessionVars, asked>>

CheckUserActive(c) ==
  /\ At(Worker(c), "isUserActive")
  /\ Goto(Worker(c), IF IsUserActive(FrameOf(c).login) THEN "sendError"
                                                       ELSE "authenticate")
  /\ OnlyCall

LogIn(c) ==
  /\ connected' = [connected EXCEPT ![c] = TRUE]
  /\ session' = [session EXCEPT ![c] = [login |-> FrameOf(c).login,
                                        passcode |-> FrameOf(c).passcode]]
  /\ Goto(Worker(c), "receipt")
  /\ UNCHANGED <<shouldTerminate, clientSubscriptions>>

(* Mutant: the user becomes active with every login. *)
AuthenticateAndActivate(c) ==
  LET user == FrameOf(c).login
      password == FrameOf(c).passcode
  IN  /\ At(Worker(c), "authenticate")
      /\ \/ /\ users[user] \in {Null, password}
            /\ RegisterUser(c, user, password)
            /\ LogIn(c)
         \/ /\ users[user] \notin {Null, password}
            /\ Goto(Worker(c), "sendError")
            /\ UNCHANGED <<registryVars, sessionVars>>
      /\ UNCHANGED <<messageVars, monitor, owed>>
      /\ TransportSame

(* Mutant: the test of containsKey is dropped, every CONNECT registers. *)
AuthenticateAnew(c) ==
  /\ At(Worker(c), "authenticate")
  /\ RegisterUser(c, FrameOf(c).login, FrameOf(c).passcode)
  /\ LogIn(c)
  /\ UNCHANGED <<messageVars, monitor, owed>>
  /\ TransportSame

(***************************************************************************)
(* authenticateUser and, when it succeeds, the assignment of connected and *)
(* the CONNECTED frame, which no other thread can tell apart from it. A    *)
(* known user is not entered in activeUsers again.                         *)
(***************************************************************************)
AuthenticateUser(c) ==
  LET user == FrameOf(c).login
      password == FrameOf(c).passcode
  IN  /\ At(Worker(c), "authenticate")
      /\ \/ /\ users[user] = Null
            /\ RegisterUser(c, user, password)
            /\ LogIn(c)
         \/ /\ users[user] = password
            /\ LogIn(c)
            /\ UNCHANGED registryVars
         \/ /\ users[user] \notin {Null, password}
            /\ Goto(Worker(c), "sendError")
            /\ UNCHANGED <<registryVars, sessionVars>>
      /\ UNCHANGED <<messageVars, monitor, owed>>
      /\ TransportSame

-----------------------------------------------------------------------------
(* SUBSCRIBE and addSubscription *)

HandleSubscribe(c, f) ==
  /\ f.command = "SUBSCRIBE"
  /\ \/ /\ ~connected[c] \/ f.destination = Null \/ f.id \in {Null, BadId}
        /\ Process(c, f, "sendError")
        /\ UNCHANGED <<sessionVars, asked>>
     \/ /\ connected[c] /\ f.destination # Null /\ f.id \notin {Null, BadId}
        /\ ProcessAs(c, f, "putTopic", f.destination, {})
        /\ clientSubscriptions' =
             [clientSubscriptions EXCEPT ![c][f.id] = f.destination]
        /\ asked' = [asked EXCEPT ![c] =
             Append(@, [topic |-> f.destination, id |-> f.id])]
        /\ UNCHANGED <<connected, shouldTerminate, session>>

(* The inner maps that the table or a local variable still refers to *)
Referenced ==
  {topicSubscriptions[t] : t \in Topics} \cup {call[p].map : p \in Threads}

PutTopic(c) ==
  /\ At(Worker(c), "putTopic")
  /\ \E m \in Maps \ Referenced : PutTopicIfAbsent(call[Worker(c)].topic, m)
  /\ Goto(Worker(c), "getTopic")
  /\ OnlyTables

(***************************************************************************)
(* topicSubscriptions.get(topic): when the entry is gone the dereference   *)
(* of null throws out of process, and the frame is left as it is.          *)
(***************************************************************************)
Get(c, label, next) ==
  /\ At(Worker(c), label)
  /\ LET m == topicSubscriptions[call[Worker(c)].topic]
     IN  IF m = Null
           THEN Return(Worker(c))
           ELSE call' = [call EXCEPT ![Worker(c)].map = m, ![Worker(c)].pc = next]
  /\ OnlyCall

GetTopic(c) == Get(c, "getTopic", "putSubscriber")

Walks(walk, m) ==
  walk.pc \in {"advance", "nextEntry", "lookup", "enqueue"} /\ walk.map = m

(***************************************************************************)
(* A walk over map m is in the bin of c when the last node that its        *)
(* iterator found is there: the node of another connection, or that of c,  *)
(* removed since, with others after it.                                    *)
(***************************************************************************)
InBin(walk, m, c) ==
  LET last == IF walk.pc = "advance" THEN walk.entry ELSE walk.next
  IN  /\ Walks(walk, m) /\ last # Null /\ SameBin(last.to, c)
      /\ \/ last.to # c
         \/ \E d \in walk.todo \ {c} : SameBin(d, c) /\ subscribers[m][d] # Null

(***************************************************************************)
(* put(connectionId, subscriptionId). A new node goes to the end of its    *)
(* bin: a walk that is in this bin may find it there, even if it has had c *)
(* before. When c is in the map, its node gets the new id, and whoever     *)
(* walks over it will read that.                                           *)
(***************************************************************************)
PutOwnSubscription(c) ==
  LET here == call[Worker(c)]
      old == subscribers[here.map][c]
      new == [id |-> FrameOf(c).id, request |-> Len(asked[c])]
      done == [here EXCEPT !.pc = "receipt", !.map = Null]
  IN  /\ At(Worker(c), "putSubscriber")
      /\ PutSubscriber(here.map, c, new)
      /\ \/ /\ old = Null
            /\ \E again \in SUBSET {p \in Threads : InBin(call[p], here.map, c)} :
                 call' = [p \in Threads |->
                   IF p = Worker(c) THEN done
                   ELSE IF p \in again THEN [call[p] EXCEPT !.todo = @ \cup {c}]
                   ELSE call[p]]
         \/ /\ old # Null
            /\ call' = [p \in Threads |->
                 IF p = Worker(c) THEN done
                 ELSE IF Walks(call[p], here.map) /\ call[p].next = Node(c, old)
                        THEN [call[p] EXCEPT !.next = Node(c, new)]
                 ELSE call[p]]
      /\ OnlyTables

-----------------------------------------------------------------------------
(* UNSUBSCRIBE, DISCONNECT and removeSubscription *)

HandleUnsubscribe(c, f) ==
  /\ f.command = "UNSUBSCRIBE"
  /\ \/ /\ ~connected[c] \/ f.id \in {Null, BadId}
             \/ clientSubscriptions[c][f.id] = Null
        /\ Process(c, f, "sendError")
        /\ UNCHANGED <<sessionVars, asked>>
     \/ /\ connected[c] /\ f.id \notin {Null, BadId}
        /\ clientSubscriptions[c][f.id] # Null
        /\ ProcessAs(c, f, "containsTopic", clientSubscriptions[c][f.id], {})
        /\ clientSubscriptions' = [clientSubscriptions EXCEPT ![c][f.id] = Null]
        /\ UNCHANGED <<connected, shouldTerminate, session, asked>>

OwnIds(c) == {id \in SubIds : clientSubscriptions[c][id] # Null}

HandleDisconnect(c, f) ==
  /\ f.command = "DISCONNECT"
  /\ \/ /\ ~connected[c]
        /\ Process(c, f, "sendError")
        /\ UNCHANGED <<sessionVars, asked>>
     \/ /\ connected[c]
        /\ ProcessAs(c, f, "unsubscribeAll", Null, OwnIds(c))
        /\ shouldTerminate' = [shouldTerminate EXCEPT ![c] = TRUE]
        /\ UNCHANGED <<connected, clientSubscriptions, session, asked>>

(* Mutant: the loop does not advance. *)
UnsubscribeSame(c) ==
  /\ At(Worker(c), "unsubscribeAll")
  /\ \E id \in call[Worker(c)].todo :
       call' = [call EXCEPT ![Worker(c)].topic = clientSubscriptions[c][id],
                            ![Worker(c)].pc = "containsTopic"]
  /\ OnlyCall

(* The loop of handleDisconnect over the topics of clientSubscriptions *)
UnsubscribeNext(c) ==
  /\ At(Worker(c), "unsubscribeAll")
  /\ \E id \in call[Worker(c)].todo :
       call' = [call EXCEPT ![Worker(c)].todo = @ \ {id},
                            ![Worker(c)].topic = clientSubscriptions[c][id],
                            ![Worker(c)].pc = "containsTopic"]
  /\ OnlyCall

(* clientSubscriptions.clear(), after the loop *)
ClearSubscriptions(c) ==
  /\ At(Worker(c), "unsubscribeAll")
  /\ call[Worker(c)].todo = {}
  /\ clientSubscriptions' =
       [clientSubscriptions EXCEPT ![c] = [id \in SubIds |-> Null]]
  /\ Goto(Worker(c), "receipt")
  /\ UNCHANGED <<registryVars, messageVars, monitor, connected, shouldTerminate,
                 session, owed>>
  /\ TransportSame

(* Where removeSubscription returns to *)
Removed(c) ==
  call' = [call EXCEPT ![Worker(c)].map = Null,
    ![Worker(c)].pc = IF FrameOf(c).command = "DISCONNECT" THEN "unsubscribeAll"
                                                           ELSE "receipt"]

ContainsTopic(c) ==
  /\ At(Worker(c), "containsTopic")
  /\ IF topicSubscriptions[call[Worker(c)].topic] = Null
       THEN Removed(c)
       ELSE Goto(Worker(c), "getForRemove")
  /\ OnlyCall

GetForRemove(c) == Get(c, "getForRemove", "removeSubscriber")

(* Mutant: the entry is not removed. *)
RemoveNoSubscription(c) ==
  /\ At(Worker(c), "removeSubscriber")
  /\ call' = [call EXCEPT ![Worker(c)].pc = "getForEmpty", ![Worker(c)].map = Null]
  /\ OnlyCall

RemoveOwnSubscription(c) ==
  /\ At(Worker(c), "removeSubscriber")
  /\ RemoveSubscriber(call[Worker(c)].map, c)
  /\ call' = [call EXCEPT ![Worker(c)].pc = "getForEmpty", ![Worker(c)].map = Null]
  /\ OnlyTables

GetForEmpty(c) == Get(c, "getForEmpty", "isEmpty")

TestEmpty(c) ==
  /\ At(Worker(c), "isEmpty")
  /\ IF subscribers[call[Worker(c)].map] = NoEntries
       THEN call' = [call EXCEPT ![Worker(c)].pc = "removeTopic",
                                 ![Worker(c)].map = Null]
       ELSE Removed(c)
  /\ OnlyCall

(* The topic is removed whatever map it has by now. *)
RemoveEmptyTopic(c) ==
  /\ At(Worker(c), "removeTopic")
  /\ RemoveTopic(call[Worker(c)].topic)
  /\ Removed(c)
  /\ OnlyTables
-----------------------------------------------------------------------------
(* SEND *)

SubscribedTo(c, t) == \E id \in SubIds : clientSubscriptions[c][id] = t

HandleSend(c, f) ==
  /\ f.command = "SEND"
  /\ \/ /\ ~connected[c] \/ f.destination = Null
             \/ ~SubscribedTo(c, f.destination)
        /\ Process(c, f, "sendError")
     \/ /\ connected[c] /\ f.destination # Null /\ SubscribedTo(c, f.destination)
        /\ ProcessAs(c, f, "nextMessageId", f.destination, {})
  /\ UNCHANGED <<sessionVars, asked>>

(* Mutant: getAndIncrement in place of incrementAndGet. *)
NextMessageIdLate(c) ==
  /\ At(Worker(c), "nextMessageId")
  /\ GetNextMessageId
  /\ call' = [call EXCEPT ![Worker(c)].messageId = messageCounter,
                          ![Worker(c)].pc = "getSubscribers"]
  /\ published' = Append(published, [topic |-> call[Worker(c)].topic, from |-> c])
  /\ UNCHANGED <<sessionVars, monitor, owed, asked, inbox>>
  /\ TransportSame

NextMessageId(c) ==
  /\ At(Worker(c), "nextMessageId")
  /\ GetNextMessageId
  /\ call' = [call EXCEPT ![Worker(c)].messageId = messageCounter',
                          ![Worker(c)].pc = "getSubscribers"]
  /\ published' = Append(published, [topic |-> call[Worker(c)].topic, from |-> c])
  /\ UNCHANGED <<sessionVars, monitor, owed, asked, inbox>>
  /\ TransportSame

(* getSubscribers: the live inner map, or a new empty one. SEND ends without *)
(* looking at its receipt header.                                            *)
GetSubscribers(c) ==
  /\ At(Worker(c), "getSubscribers")
  /\ LET m == topicSubscriptions[call[Worker(c)].topic]
     IN  IF m = Null
           THEN Return(Worker(c))
           ELSE call' = [call EXCEPT ![Worker(c)].map = m,
                                     ![Worker(c)].todo = Connections,
                                     ![Worker(c)].pc = "advance"]
  /\ OnlyCall

(***************************************************************************)
(* The iterator looks for its next node while the handler has the one      *)
(* before it. It passes the places of the table one by one, in an order    *)
(* that the model leaves open, and finds in each what is there when it     *)
(* gets there; PutOwnSubscription may put a place before it again.         *)
(***************************************************************************)
Advance(c) ==
  LET here == call[Worker(c)]
      label == IF here.entry = Null THEN "nextEntry" ELSE "lookup"
  IN  /\ At(Worker(c), "advance")
      /\ \/ /\ here.todo = {}
            /\ Goto(Worker(c), label)
         \/ \E d \in here.todo :
              LET entry == subscribers[here.map][d]
              IN  call' = [call EXCEPT ![Worker(c)] =
                    IF entry = Null
                      THEN [here EXCEPT !.todo = @ \ {d}]
                      ELSE [here EXCEPT !.todo = @ \ {d}, !.pc = label,
                                        !.next = Node(d, entry)]]
      /\ OnlyCall

(* next() returns the node that was found, and begins to look for another. *)
NextEntry(c) ==
  /\ At(Worker(c), "nextEntry")
  /\ call[Worker(c)].next # Null
  /\ call' = [call EXCEPT ![Worker(c)].entry = call[Worker(c)].next,
                          ![Worker(c)].next = Null,
                          ![Worker(c)].pc = "advance"]
  /\ OnlyCall

EndOfSend(c) ==
  /\ At(Worker(c), "nextEntry")
  /\ call[Worker(c)].next = Null
  /\ Return(Worker(c))
  /\ OnlyCall

(* connections.send: the handler of the subscriber is looked up ... *)
Lookup(c) ==
  /\ At(Worker(c), "lookup")
  /\ Goto(Worker(c), IF call[Worker(c)].entry.to \in activeConnections
                       THEN "enqueue" ELSE "nextEntry")
  /\ OnlyCall

(* ... and takes the frame unless its channel is closed. *)
Enqueue(c) ==
  LET here == call[Worker(c)]
      to == here.entry.to
      message == [msg |-> here.messageId, topic |-> here.topic,
                  id |-> here.entry.id, request |-> here.entry.request]
  IN  /\ At(Worker(c), "enqueue")
      /\ inbox' = IF open[to] THEN [inbox EXCEPT ![to] = Append(@, message)]
                              ELSE inbox
      /\ Goto(Worker(c), "nextEntry")
      /\ UNCHANGED <<registryVars, sessionVars, asked, published, monitor, owed>>
      /\ TransportSame

-----------------------------------------------------------------------------
(* disconnect(c), called by the worker after DISCONNECT and by the closer *)

Disconnect(p) ==
  /\ At(p, "disconnect")
  /\ RemoveConnection(p[1])
  /\ Goto(p, "enter")
  /\ OnlyTables

(* Mutant: the topics are not swept. *)
EnterMonitorOnly(p) ==
  /\ At(p, "enter")
  /\ monitor = Null
  /\ monitor' = p
  /\ Goto(p, "sweep")
  /\ UNCHANGED <<registryVars, sessionVars, messageVars, owed>>
  /\ TransportSame

EnterMonitor(p) ==
  /\ At(p, "enter")
  /\ monitor = Null
  /\ monitor' = p
  /\ call' = [call EXCEPT ![p].pc = "sweep", ![p].todo = Topics]
  /\ UNCHANGED <<registryVars, sessionVars, messageVars, owed>>
  /\ TransportSame

(* The iterator over topicSubscriptions.values() reaches topic t. It may meet *)
(* a topic again that was removed and put since; that only takes the client   *)
(* out of one more map.                                                       *)
SweepNext(p) ==
  /\ At(p, "sweep")
  /\ \E t \in call[p].todo :
       LET m == topicSubscriptions[t]
       IN  call' = [call EXCEPT ![p].todo = @ \ {t},
                                ![p].map = m,
                                ![p].pc = IF m = Null THEN "sweep" ELSE "sweepOne"]
  /\ OnlyCall

SweepOne(p) ==
  /\ At(p, "sweepOne")
  /\ RemoveSubscriber(call[p].map, p[1])
  /\ call' = [call EXCEPT ![p].pc = "sweep", ![p].map = Null]
  /\ OnlyTables

(* Mutant: the monitor is not given back. *)
ExitWithMonitor(p) ==
  /\ At(p, "sweep")
  /\ call[p].todo = {}
  /\ Goto(p, "removeUser")
  /\ OnlyCall

ExitMonitor(p) ==
  /\ At(p, "sweep")
  /\ call[p].todo = {}
  /\ monitor' = Null
  /\ Goto(p, "removeUser")
  /\ UNCHANGED <<registryVars, sessionVars, messageVars, owed>>
  /\ TransportSame

RemoveUser(p) ==
  /\ At(p, "removeUser")
  /\ RemoveActiveUser(p[1])
  /\ IF p = Worker(p[1]) THEN Return(p) ELSE Goto(p, "closed")
  /\ OnlyTables

-----------------------------------------------------------------------------
Receive(c, f) ==
  \/ HandleConnect(c, f) \/ HandleSubscribe(c, f) \/ HandleUnsubscribe(c, f)
  \/ HandleSend(c, f) \/ HandleDisconnect(c, f) \/ HandleUnknown(c, f)

(* A step of the worker of c inside a handler *)
WorkerStep(c) ==
  \/ SendError(c) \/ MarkForTermination(c) \/ SendReceiptIfRequested(c)
  \/ CheckUserActive(c) \/ AuthenticateUser(c)
  \/ PutTopic(c) \/ GetTopic(c) \/ PutOwnSubscription(c)
  \/ UnsubscribeNext(c) \/ ClearSubscriptions(c)
  \/ ContainsTopic(c) \/ GetForRemove(c) \/ RemoveOwnSubscription(c)
  \/ GetForEmpty(c) \/ TestEmpty(c) \/ RemoveEmptyTopic(c)
  \/ NextMessageId(c) \/ GetSubscribers(c)
  \/ Advance(c) \/ NextEntry(c) \/ EndOfSend(c) \/ Lookup(c) \/ Enqueue(c)

DisconnectStep(p) ==
  \/ Disconnect(p) \/ EnterMonitor(p) \/ SweepNext(p) \/ SweepOne(p)
  \/ ExitMonitor(p) \/ RemoveUser(p)

Next ==
  \/ Accept
  \/ \E c \in Connections :
       Close(c) \/ WorkerStep(c) \/ \E f \in Frames[c] : Receive(c, f)
  \/ \E p \in Threads : DisconnectStep(p)

Spec == Init /\ [][Next]_vars

(* Threads that can run do run. Clients may send nothing and never leave. *)
Fairness ==
  /\ \A c \in Connections : WF_vars(WorkerStep(c))
  /\ \A p \in Threads : WF_vars(DisconnectStep(p))

FairSpec == Spec /\ Fairness

-----------------------------------------------------------------------------
(* The connection is in use and its worker is between two frames. *)
Resting(c) == open[c] /\ At(Worker(c), "idle") /\ ~shouldTerminate[c]

(* The password of a registered user is never replaced, whatever CONNECTs    *)
(* race for the name: authenticateUser tests and puts in one monitor.        *)
PasswordKept ==
  [][\A u \in Users : users[u] # Null => users'[u] = users[u]]_vars

(* A user is entered in activeUsers over at most one connection, although   *)
(* isUserActive is asked outside the monitor in which the entry is made.    *)
OneActiveConnection ==
  \A c, d \in Connections :
    c # d /\ activeUsers[c] # Null => activeUsers[c] # activeUsers[d]

(* Who is logged in has given the password that is registered, and whoever  *)
(* loses the race of two first CONNECTs for one name is held to the         *)
(* password of the winner.                                                  *)
Authenticated ==
  \A c \in Connections :
    connected[c] => /\ session[c] # Null
                    /\ users[session[c].login] = session[c].passcode

(* When a channel is closed while its worker rests and no frame of it is    *)
(* processed later, disconnect leaves no trace of the connection in any     *)
(* table, whatever other workers do to the topics it sweeps meanwhile.      *)
CleanClose ==
  \A c \in Connections : At(Closer(c), "closed") /\ ~late[c] => Forgotten(c)

(* A client that never gives an id to two topics is not listed, between     *)
(* frames, for a topic it is not subscribed to: whatever map a racing       *)
(* UNSUBSCRIBE got hold of, the entry of the client in the table is gone.   *)
NotListedAfterUnsubscribe ==
  \A c \in Connections, t \in Topics :
    /\ Resting(c)
    /\ topicSubscriptions[t] # Null
    /\ subscribers[topicSubscriptions[t]][c] # Null
    /\ \A i, j \in DOMAIN asked[c] :
         asked[c][i].id = asked[c][j].id => asked[c][i] = asked[c][j]
    => SubscribedTo(c, t)

(* The handlers keep the promise of the bus to every client. *)
Bus == INSTANCE TopicBus
ImplementsBus == Bus!Spec

(* Every frame is processed to its end, and every disconnect completes: the *)
(* monitor of topicSubscriptions is always given back.                      *)
FramesEnd == \A c \in Connections : [](<>At(Worker(c), "idle"))
ClosesEnd == \A c \in Connections : ~open[c] /\ At(Closer(c), "disconnect")
                                      ~> At(Closer(c), "closed")

-----------------------------------------------------------------------------
(* What comments of the code say and the code does not do *)

(* "Adds the client to the global topicSubscriptions list": between frames, *)
(* and unless the receipt it asked for is missing, a client is listed in    *)
(* the shared table for every topic it is subscribed to.                    *)
SubscriptionsListed ==
  \A c \in Connections, t \in Topics :
    Resting(c) /\ ~owed[c] /\ SubscribedTo(c, t)
      => /\ topicSubscriptions[t] # Null
         /\ subscribers[topicSubscriptions[t]][c] # Null

(* "Removes the client from Connections": nothing is left of a connection   *)
(* whose disconnect is done and whose worker rests.                         *)
NoGhost ==
  \A c \in Connections :
    At(Closer(c), "closed") /\ At(Worker(c), "idle") => Forgotten(c)
=============================================================================
