----------------------------- MODULE StompClient -----------------------------
(***************************************************************************)
(* The client (StompClient.cpp, StompProtocol.cpp, ConnectionHandler.cpp)  *)
(* and one server behind a connection that may be lost. The main thread    *)
(* reads commands from the keyboard; the communicator, a thread that login *)
(* starts and logout joins, reads frames from the socket. They share, with *)
(* no lock, the pointers to a StompProtocol and a ConnectionHandler, which *)
(* login allocates and the communicator deletes at its end. A session is   *)
(* a pair of these objects with the connection that belongs to them.       *)
(*                                                                         *)
(* Undefined behaviour, of a dead pointer or of a data race, may do        *)
(* anything: the model stops in the outcome "undefined". A data race may   *)
(* also go well.                                                           *)
(***************************************************************************)
EXTENDS Integers, Sequences, Functions

CONSTANTS
  Channels,    \* the channels that the user names
  MaxLogins,   \* bound: the sessions
  MaxCommands, \* bound: the lines the user types
  MaxEvents,   \* bound: the events in a file that is reported
  MaxMessages, \* bound: the messages that others publish in a session
  None

ASSUME ClientAssumption ==
  /\ MaxLogins \in Nat /\ MaxCommands \in Nat
  /\ MaxEvents \in Nat /\ MaxMessages \in Nat
  /\ None \notin Channels \cup Int

VARIABLES  \* the client
  outcome,   \* "running", "terminated" (std::terminate) or "undefined"
  typed,     \* the number of lines read
  logins,    \* the number of sessions created
  main,      \* pc of the main thread; the command and its locals
  comm,      \* pc of the communicator; handler: whose socket it reads; frame:
             \* what it has read; error: what it found at its end
  protocol, connectionHandler,  \* the shared pointers, nullptr or a session
  protocols, handlers,          \* the objects that are allocated
  object     \* object[s]: the fields of the StompProtocol of s

VARIABLES  \* the connections and the server
  link,      \* link[s]: "none", "up" or "down"
  toServer, toClient,   \* the frames on their way
  subscriptions,        \* subscriptions[s]: clientSubscriptions, by id
  messages,  \* messages[s]: the messages others have published to s
  dropped    \* history, dropped[s]: the commands of the frames of s that the
             \* server has read and will not carry out

pointers == <<protocol, connectionHandler, protocols, handlers>>
network == <<link, toServer, toClient>>
server == <<subscriptions, messages, dropped>>
vars == <<outcome, typed, logins, main, comm, pointers, object, network, server>>

Sessions == 1..MaxLogins
nullptr == 0
Count == 0..MaxCommands

(* A command of the user is named by the frame it sends. *)
Commands == {"CONNECT", "SUBSCRIBE", "UNSUBSCRIBE", "SEND", "DISCONNECT"}
Request == [command : {"SUBSCRIBE", "UNSUBSCRIBE", "DISCONNECT"},
            channel : Channels \cup {None}]
ClientFrame == [command : Commands \cup {"torn"}, channel : Channels \cup {None},
                id : Count \cup {None}, receipt : Count \cup {None}]
(* the end of a frame whose first bytes were thrown away *)
Torn == [command |-> "torn", channel |-> None, id |-> None, receipt |-> None]
(* request is a history: what the server answers with a RECEIPT *)
ServerFrame == [command : {"CONNECTED", "MESSAGE", "RECEIPT", "ERROR"},
                channel : Channels \cup {None}, receipt : Count \cup {None},
                request : Request \cup {None}]

(* the maps of the code *)
PartialFunction(f, S, T) == DOMAIN f \subseteq S /\ f \in [DOMAIN f -> T]
With(f, x, y) == [z \in DOMAIN f \cup {x} |-> IF z = x THEN y ELSE f[z]]
Without(f, x) == Restrict(f, DOMAIN f \ {x})

TypeOK ==
  /\ outcome \in {"running", "terminated", "undefined"}
  /\ typed \in Count /\ logins \in 0..MaxLogins
  /\ main \in [pc : {"prompt", "check", "store", "send", "summary", "newHandler",
                     "newProtocol", "connect", "thread", "join"},
               command : Commands \cup {"summary", None},
               channel : Channels \cup {None},
               id : Count \cup {None}, receipt : Count \cup {None},
               left : 0..MaxEvents]
  /\ comm \in [pc : {"none", "test", "enter", "read", "parse", "lost", "close",
                     "nullHandler", "delete", "nullProtocol", "ended"},
               handler : 0..MaxLogins, frame : ServerFrame \cup {None}, error : BOOLEAN]
  /\ protocol \in 0..MaxLogins /\ connectionHandler \in 0..MaxLogins
  /\ protocols \subseteq Sessions /\ handlers \subseteq Sessions
  /\ \A s \in Sessions :
       /\ object[s] \in
            [connected : BOOLEAN, stopCommunication : BOOLEAN, errorOccured : BOOLEAN,
             idCounter : Count, receiptCounter : Count,
             eventSummary : [Channels -> Nat],
             receiptMap : {object[s].receiptMap},
             subscriptionIds : {object[s].subscriptionIds}]
       /\ PartialFunction(object[s].receiptMap, Count, Request)
       /\ PartialFunction(object[s].subscriptionIds, Channels, Count)
       /\ link[s] \in {"none", "up", "down"}
       /\ toServer[s] \in Seq(ClientFrame)
       /\ toClient[s] \in Seq(ServerFrame)
       /\ PartialFunction(subscriptions[s], Count, Channels)
       /\ messages[s] \in 0..MaxMessages
       /\ dropped[s] \subseteq Commands \cup {"torn"}

AtPrompt == [pc |-> "prompt", command |-> None, channel |-> None, id |-> None,
             receipt |-> None, left |-> 0]
NoThread == [pc |-> "none", handler |-> nullptr, frame |-> None, error |-> FALSE]

Empty == [x \in {} |-> None]

(* the constructor of StompProtocol *)
NewProtocol ==
  [connected |-> FALSE, stopCommunication |-> FALSE, errorOccured |-> FALSE,
   idCounter |-> 0, receiptCounter |-> 0,
   eventSummary |-> [ch \in Channels |-> 0],
   receiptMap |-> Empty, subscriptionIds |-> Empty]

Init ==
  /\ outcome = "running" /\ typed = 0 /\ logins = 0
  /\ main = AtPrompt /\ comm = NoThread
  /\ protocol = nullptr /\ connectionHandler = nullptr
  /\ protocols = {} /\ handlers = {}
  /\ object = [s \in Sessions |-> NewProtocol]
  /\ link = [s \in Sessions |-> "none"]
  /\ toServer = [s \in Sessions |-> <<>>]
  /\ toClient = [s \in Sessions |-> <<>>]
  /\ subscriptions = [s \in Sessions |-> Empty]
  /\ messages = [s \in Sessions |-> 0]
  /\ dropped = [s \in Sessions |-> {}]

-----------------------------------------------------------------------------
(* The main thread *)

Running == outcome = "running"
CommSame == UNCHANGED <<comm, server>>
OnlyMain == CommSame /\ UNCHANGED <<outcome, typed, logins, pointers, object, network>>

(***************************************************************************)
(* The user types a line. Every command looks at the pointer first: a      *)
(* login goes on without a protocol object, any other command is refused.  *)
(***************************************************************************)
ReadCommand(command, channel) ==
  /\ Running /\ main.pc = "prompt" /\ typed < MaxCommands
  /\ command = "CONNECT" => logins < MaxLogins
  /\ typed' = typed + 1
  /\ main' =
       IF protocol # nullptr
         THEN [AtPrompt EXCEPT !.pc = "check", !.command = command, !.channel = channel]
       ELSE IF command = "CONNECT"
         THEN [AtPrompt EXCEPT !.pc = "newHandler", !.command = command]
       ELSE AtPrompt
  /\ CommSame
  /\ UNCHANGED <<outcome, logins, pointers, object, network>>

(* tokens[0] is read before tokens.empty() is tested. *)
ReadBlankLine ==
  /\ Running /\ main.pc = "prompt" /\ typed < MaxCommands
  /\ typed' = typed + 1
  /\ outcome' = "undefined"
  /\ CommSame
  /\ UNCHANGED <<main, logins, pointers, object, network>>

(***************************************************************************)
(* protocol->isConnected(), and what follows it on fields of the object    *)
(* that only the main thread uses. The object may be deleted in between    *)
(* too, which makes no more outcomes than its deletion before or after.    *)
(***************************************************************************)
Checks(command) ==
  /\ Running /\ main.pc = "check" /\ main.command = command
  /\ protocol \in protocols

Refuse ==
  /\ Checks(main.command)
  /\ object[protocol].connected <=> main.command = "CONNECT"
  /\ main' = AtPrompt
  /\ OnlyMain

LoginAgain ==
  /\ Checks("CONNECT")
  /\ ~object[protocol].connected
  /\ main' = [main EXCEPT !.pc = "newHandler", !.channel = None]
  /\ OnlyMain

Change(changed) ==
  /\ object' = [object EXCEPT ![protocol] = changed]
  /\ CommSame
  /\ UNCHANGED <<outcome, typed, logins, pointers, network>>

Store(id, receipt) ==
  main' = [main EXCEPT !.pc = "store", !.id = id, !.receipt = receipt]

Join ==
  LET p == object[protocol]
  IN  /\ Checks("SUBSCRIBE") /\ p.connected
      /\ \/ /\ main.channel \in DOMAIN p.subscriptionIds
            /\ main' = AtPrompt
            /\ OnlyMain
         \/ /\ main.channel \notin DOMAIN p.subscriptionIds
            /\ Store(p.idCounter, p.receiptCounter)
            /\ Change([p EXCEPT
                 !.idCounter = @ + 1, !.receiptCounter = @ + 1,
                 !.subscriptionIds = With(@, main.channel, p.idCounter)])

GetSubscriptionId(p, channel) ==
  IF channel \in DOMAIN p.subscriptionIds THEN p.subscriptionIds[channel] ELSE -1

(* Mutant: the id is not compared with -1. *)
ExitUnchecked ==
  LET p == object[protocol]
  IN  /\ Checks("UNSUBSCRIBE") /\ p.connected
      /\ Store(GetSubscriptionId(p, main.channel), p.receiptCounter)
      /\ Change([p EXCEPT !.receiptCounter = @ + 1,
           !.subscriptionIds = Without(@, main.channel)])

(* Mutant: the receipt id is not used up. *)
ExitWithSameReceipt ==
  LET p == object[protocol]
      id == GetSubscriptionId(p, main.channel)
  IN  /\ Checks("UNSUBSCRIBE") /\ p.connected
      /\ IF id = -1 THEN main' = AtPrompt ELSE Store(id, p.receiptCounter)
      /\ Change([p EXCEPT !.subscriptionIds = Without(@, main.channel)])

(* Mutant: the receipt id is sent in place of the subscription id. *)
ExitWithReceiptAsId ==
  LET p == object[protocol]
      id == GetSubscriptionId(p, main.channel)
  IN  /\ Checks("UNSUBSCRIBE") /\ p.connected
      /\ IF id = -1 THEN main' = AtPrompt
                    ELSE Store(p.receiptCounter, p.receiptCounter)
      /\ Change([p EXCEPT !.receiptCounter = @ + 1,
           !.subscriptionIds = Without(@, main.channel)])

(* A receipt id is used up even when the user is not in the channel. *)
Exit ==
  LET p == object[protocol]
      id == GetSubscriptionId(p, main.channel)
  IN  /\ Checks("UNSUBSCRIBE") /\ p.connected
      /\ IF id = -1 THEN main' = AtPrompt ELSE Store(id, p.receiptCounter)
      /\ Change([p EXCEPT !.receiptCounter = @ + 1,
           !.subscriptionIds = Without(@, main.channel)])

Report ==
  /\ Checks("SEND") /\ object[protocol].connected
  /\ \E n \in 0..MaxEvents :
       main' = IF n = 0 THEN AtPrompt ELSE [main EXCEPT !.pc = "send", !.left = n]
  /\ OnlyMain

Logout ==
  LET p == object[protocol]
  IN  /\ Checks("DISCONNECT") /\ p.connected
      /\ Store(None, p.receiptCounter)
      /\ Change([p EXCEPT !.receiptCounter = @ + 1])

SummaryOf ==
  /\ Checks("summary") /\ object[protocol].connected
  /\ main' = [main EXCEPT !.pc = "summary"]
  /\ OnlyMain

(* summarizeEmergencyChannel reads the events and writes a file. *)
Summarize ==
  /\ Running /\ main.pc = "summary"
  /\ protocol \in protocols
  /\ main' = AtPrompt
  /\ OnlyMain

RequestOf == [command |-> main.command, channel |-> main.channel]

StoreReceipt ==
  /\ Running /\ main.pc = "store"
  /\ protocol \in protocols
  /\ object' = [object EXCEPT
       ![protocol].receiptMap = With(@, main.receipt, RequestOf)]
  /\ main' = [main EXCEPT !.pc = "send"]
  /\ CommSame
  /\ UNCHANGED <<outcome, typed, logins, pointers, network>>

(* The destination of an UNSUBSCRIBE is known to the server by its id. *)
FrameOf ==
  [command |-> main.command, id |-> main.id, receipt |-> main.receipt,
   channel |-> IF main.command = "UNSUBSCRIBE" THEN None ELSE main.channel]

(* sendFrameAscii: its result, FALSE on a lost connection, is not looked at. *)
Transmit(s) ==
  toServer' = IF /\ main.command = "CONNECT" \/ object[s].connected
                 /\ link[s] = "up"
              THEN [toServer EXCEPT ![s] = Append(@, FrameOf)]
              ELSE toServer

Send ==
  /\ Running /\ main.pc = "send"
  /\ protocol \in protocols \cap handlers
  /\ Transmit(protocol)
  /\ main' =
       IF main.command = "CONNECT" THEN [main EXCEPT !.pc = "thread"]
       ELSE IF main.command = "DISCONNECT" THEN [AtPrompt EXCEPT !.pc = "join"]
       ELSE IF main.left > 1 THEN [main EXCEPT !.left = @ - 1]
       ELSE AtPrompt
  /\ CommSame
  /\ UNCHANGED <<outcome, typed, logins, pointers, object, link, toClient>>

(* communicator.join() *)
JoinCommunicator ==
  /\ Running /\ main.pc = "join" /\ comm.pc = "ended"
  /\ main' = AtPrompt
  /\ comm' = NoThread
  /\ UNCHANGED <<outcome, typed, logins, pointers, object, network, server>>

-----------------------------------------------------------------------------
(* login *)

NewConnectionHandler ==
  /\ Running /\ main.pc = "newHandler"
  /\ logins' = logins + 1
  /\ connectionHandler' = logins'
  /\ handlers' = handlers \cup {logins'}
  /\ main' = [main EXCEPT !.pc = "newProtocol"]
  /\ CommSame
  /\ UNCHANGED <<outcome, typed, protocol, protocols, object, network>>

NewStompProtocol ==
  /\ Running /\ main.pc = "newProtocol"
  /\ connectionHandler \in handlers
  /\ protocol' = logins
  /\ protocols' = protocols \cup {logins}
  /\ main' = [main EXCEPT !.pc = "connect"]
  /\ CommSame
  /\ UNCHANGED <<outcome, typed, logins, connectionHandler, handlers, object, network>>

Connect ==
  /\ Running /\ main.pc = "connect"
  /\ connectionHandler \in handlers
  /\ link' = [link EXCEPT ![connectionHandler] = "up"]
  /\ main' = [main EXCEPT !.pc = "send"]
  /\ CommSame
  /\ UNCHANGED <<outcome, typed, logins, pointers, object, toServer, toClient>>

(* Mutant: the objects of the failed login are kept. *)
ConnectFailsAndKeep ==
  /\ Running /\ main.pc = "connect"
  /\ connectionHandler \in handlers
  /\ protocol \in protocols \cup {nullptr}
  /\ main' = AtPrompt
  /\ OnlyMain

(* The server is not there: both objects are deleted. *)
ConnectFails ==
  /\ Running /\ main.pc = "connect"
  /\ connectionHandler \in handlers
  /\ protocol \in protocols \cup {nullptr}
  /\ handlers' = handlers \ {connectionHandler}
  /\ protocols' = protocols \ {protocol}
  /\ connectionHandler' = nullptr
  /\ protocol' = nullptr
  /\ main' = AtPrompt
  /\ CommSame
  /\ UNCHANGED <<outcome, typed, logins, object, network>>

(***************************************************************************)
(* communicator = std::thread(communicate, ...): an assignment to a thread *)
(* that was started and not joined calls std::terminate.                   *)
(***************************************************************************)
StartCommunicator ==
  /\ Running /\ main.pc = "thread"
  /\ \/ /\ comm.pc = "none"
        /\ comm' = [NoThread EXCEPT !.pc = "test"]
        /\ main' = AtPrompt
        /\ UNCHANGED outcome
     \/ /\ comm.pc # "none"
        /\ outcome' = "terminated"
        /\ UNCHANGED <<main, comm>>
  /\ UNCHANGED <<typed, logins, pointers, object, network, server>>

-----------------------------------------------------------------------------
(* The communicator: communicate() *)

MainSame == UNCHANGED <<main, typed, logins, server>>
Goto(pc) == comm' = [comm EXCEPT !.pc = pc]

At(pc) == Running /\ comm.pc = pc

(* while (!protocol->shouldStopCommunication()) *)
TestStop ==
  /\ At("test") /\ protocol \in protocols
  /\ Goto(IF object[protocol].stopCommunication THEN "close" ELSE "enter")
  /\ MainSame
  /\ UNCHANGED <<outcome, pointers, object, network>>

(* connectionHandler->getFrameAscii: from here it reads from this object. *)
EnterRead ==
  /\ At("enter") /\ connectionHandler \in handlers
  /\ comm' = [comm EXCEPT !.pc = "read", !.handler = connectionHandler]
  /\ MainSame
  /\ UNCHANGED <<outcome, pointers, object, network>>

ReadFrame ==
  LET h == comm.handler
  IN  /\ At("read") /\ h \in handlers
      /\ toClient[h] # <<>>
      /\ comm' = [comm EXCEPT !.pc = "parse", !.frame = Head(toClient[h])]
      /\ toClient' = [toClient EXCEPT ![h] = Tail(@)]
      /\ MainSame
      /\ UNCHANGED <<outcome, pointers, object, link, toServer>>

(* The end of the stream or an error; signalStopCommunication follows. *)
ReadFails ==
  LET h == comm.handler
  IN  /\ At("read") /\ h \in handlers
      /\ toClient[h] = <<>> /\ link[h] = "down"
      /\ Goto("lost")
      /\ MainSame
      /\ UNCHANGED <<outcome, pointers, object, network>>

(* Mutant: the loop goes on after a read that failed. *)
LoseAndContinue ==
  /\ At("lost") /\ protocol \in protocols
  /\ Goto("test")
  /\ MainSame
  /\ UNCHANGED <<outcome, pointers, object, network>>

LoseConnection ==
  /\ At("lost") /\ protocol \in protocols
  /\ object' = [object EXCEPT ![protocol].stopCommunication = TRUE]
  /\ Goto("close")
  /\ MainSame
  /\ UNCHANGED <<outcome, pointers, network>>

(* Mutant: every RECEIPT ends the session. *)
HandleReceiptAndStop(p, receipt) ==
  IF receipt \notin DOMAIN p.receiptMap THEN p
  ELSE [p EXCEPT !.stopCommunication = TRUE, !.receiptMap = Without(@, receipt)]

(* handleReceipt: a request that is known is confirmed and erased. *)
HandleReceipt(p, receipt) ==
  IF receipt \notin DOMAIN p.receiptMap THEN p
  ELSE [p EXCEPT
         !.stopCommunication = @ \/ p.receiptMap[receipt].command = "DISCONNECT",
         !.receiptMap = Without(@, receipt)]

ParseFrame ==
  LET p == object[protocol]
      frame == comm.frame
  IN  /\ At("parse") /\ protocol \in protocols
      /\ object' = [object EXCEPT ![protocol] =
           CASE frame.command = "CONNECTED" -> [p EXCEPT !.connected = TRUE]
             [] frame.command = "MESSAGE" ->
                  [p EXCEPT !.eventSummary[frame.channel] = @ + 1]
             [] frame.command = "ERROR" ->
                  [p EXCEPT !.stopCommunication = TRUE, !.errorOccured = TRUE]
             [] frame.command = "RECEIPT" -> HandleReceipt(p, frame.receipt)]
      /\ comm' = [comm EXCEPT !.pc = "test", !.frame = None, !.handler = nullptr]
      /\ MainSame
      /\ UNCHANGED <<outcome, pointers, network>>

(* hasErrorOccurred(); then the handler is closed and deleted ... *)
CloseHandler ==
  /\ At("close")
  /\ protocol \in protocols /\ connectionHandler \in handlers
  /\ link' = [link EXCEPT ![connectionHandler] = "down"]
  /\ handlers' = handlers \ {connectionHandler}
  /\ comm' = [comm EXCEPT !.pc = "nullHandler", !.handler = nullptr,
                          !.error = object[protocol].errorOccured]
  /\ MainSame
  /\ UNCHANGED <<outcome, protocol, connectionHandler, protocols, object,
                 toServer, toClient>>

NullHandler ==
  /\ At("nullHandler")
  /\ connectionHandler' = nullptr
  /\ Goto("delete")
  /\ MainSame
  /\ UNCHANGED <<outcome, protocol, protocols, handlers, object, network>>

(* ... and the protocol, ... *)
DeleteProtocol ==
  /\ At("delete") /\ protocol \in protocols \cup {nullptr}
  /\ protocols' = protocols \ {protocol}
  /\ Goto("nullProtocol")
  /\ MainSame
  /\ UNCHANGED <<outcome, protocol, connectionHandler, handlers, object, network>>

(* ... and after an ERROR the program is terminated. *)
EndCommunicate ==
  /\ At("nullProtocol")
  /\ protocol' = nullptr
  /\ Goto("ended")
  /\ outcome' = IF comm.error THEN "terminated" ELSE outcome
  /\ MainSame
  /\ UNCHANGED <<connectionHandler, protocols, handlers, object, network>>

-----------------------------------------------------------------------------
(* Undefined behaviour *)

(* The main thread uses an object that is deleted, or a null pointer. *)
MainUsesDead ==
  \/ main.pc \in {"check", "store", "send", "summary"}
       /\ protocol \notin protocols
  \/ main.pc = "send" /\ protocol \notin handlers
  \/ main.pc \in {"newProtocol", "connect"} /\ connectionHandler \notin handlers
  \/ main.pc = "connect" /\ protocol \notin protocols \cup {nullptr}

CommunicatorUsesDead ==
  \/ comm.pc \in {"test", "parse", "lost", "close"} /\ protocol \notin protocols
  \/ comm.pc \in {"enter", "close"} /\ connectionHandler \notin handlers
  \/ comm.pc = "read" /\ comm.handler \notin handlers
  \/ comm.pc = "delete" /\ protocol \notin protocols \cup {nullptr}

(* Both threads are at the same map, and one of them changes it. *)
DataRace ==
  /\ comm.pc = "parse"
  /\ \/ main.pc = "store" /\ comm.frame.command = "RECEIPT"
     \/ main.pc = "summary" /\ comm.frame.command = "MESSAGE"

Undefined ==
  /\ Running
  /\ MainUsesDead \/ CommunicatorUsesDead \/ DataRace
  /\ outcome' = "undefined"
  /\ UNCHANGED <<typed, logins, main, comm, pointers, object, network, server>>

-----------------------------------------------------------------------------
(* The server, as one client sees it: it answers frames in their order. Its *)
(* tables of all clients are those of StompMessagingProtocol.               *)

ServerSame ==
  UNCHANGED <<outcome, typed, logins, main, comm, pointers, object>>

Reply(command, channel) ==
  [command |-> command, channel |-> channel, receipt |-> None, request |-> None]

Receipt(receipt, command, channel) ==
  [command |-> "RECEIPT", channel |-> None, receipt |-> receipt,
   request |-> [command |-> command, channel |-> channel]]

Answer(s, frame) == toClient' = [toClient EXCEPT ![s] = Append(@, frame)]

(* what a frame does to clientSubscriptions *)
Subscribed(subs, f) ==
  CASE f.command = "SUBSCRIBE"   -> With(subs, f.id, f.channel)
    [] f.command = "UNSUBSCRIBE" -> Without(subs, f.id)
    [] f.command = "DISCONNECT"  -> Empty
    [] OTHER                     -> subs

Receive(s, command) ==
  /\ link[s] = "up" /\ toServer[s] # <<>>
  /\ Head(toServer[s]).command = command
  /\ toServer' = [toServer EXCEPT ![s] = Tail(@)]
  /\ subscriptions' = [subscriptions EXCEPT ![s] = Subscribed(@, Head(toServer[s]))]
  /\ ServerSame
  /\ UNCHANGED <<messages, dropped>>

(* The password is wrong, or the user is active elsewhere: ERROR. *)
ServeConnect(s) ==
  /\ Receive(s, "CONNECT")
  /\ Answer(s, Reply("CONNECTED", None)) \/ Answer(s, Reply("ERROR", None))
  /\ UNCHANGED link

ServeSubscribe(s) ==
  LET f == Head(toServer[s])
  IN  /\ Receive(s, "SUBSCRIBE")
      /\ Answer(s, Receipt(f.receipt, "SUBSCRIBE", f.channel))
      /\ UNCHANGED link

ServeUnsubscribe(s) ==
  LET f == Head(toServer[s])
  IN  /\ Receive(s, "UNSUBSCRIBE")
      /\ IF f.id \in DOMAIN subscriptions[s]
           THEN Answer(s, Receipt(f.receipt, "UNSUBSCRIBE", subscriptions[s][f.id]))
           ELSE Answer(s, Reply("ERROR", None))
      /\ UNCHANGED link

(* The sender is listed for the topic and is sent its message too, unless a *)
(* race over the topic has lost its entry.                                  *)
ServeSend(s) ==
  LET channel == Head(toServer[s]).channel
  IN  /\ Receive(s, "SEND")
      /\ IF channel \in Range(subscriptions[s])
           THEN Answer(s, Reply("MESSAGE", channel)) \/ UNCHANGED toClient
           ELSE Answer(s, Reply("ERROR", None))
      /\ UNCHANGED link

(* What is left of a frame is no command that the server knows. *)
ServeTorn(s) ==
  /\ Receive(s, "torn")
  /\ Answer(s, Reply("ERROR", None))
  /\ UNCHANGED link

(* The server closes the connection after the RECEIPT, or too early for it. *)
ServeDisconnect(s) ==
  LET f == Head(toServer[s])
  IN  /\ Receive(s, "DISCONNECT")
      /\ \/ /\ Answer(s, Receipt(f.receipt, "DISCONNECT", None))
            /\ UNCHANGED link
         \/ /\ link' = [link EXCEPT ![s] = "down"]
            /\ UNCHANGED toClient

Serve(s) ==
  \/ ServeConnect(s) \/ ServeSubscribe(s) \/ ServeUnsubscribe(s)
  \/ ServeSend(s) \/ ServeDisconnect(s) \/ ServeTorn(s)

(***************************************************************************)
(* Another client removes the topic while it is used, and a null pointer   *)
(* exception leaves the handler (Get, in StompMessagingProtocol). Or only  *)
(* a newline is left of a torn frame, and fromString finds no command. No  *)
(* answer is sent, and the connection stays. The bytes that the reactor    *)
(* has read behind the frame are thrown away, up to the end of a frame or  *)
(* to the middle of one. What a handler has done to clientSubscriptions is *)
(* done; that of DISCONNECT clears it only after what fails.               *)
(***************************************************************************)
MayFail(f, subs) ==
  \/ f.command \in {"SUBSCRIBE", "torn"}
  \/ f.command = "UNSUBSCRIBE" /\ f.id \in DOMAIN subs
  \/ f.command = "DISCONNECT" /\ DOMAIN subs # {}

ServeFails(s) ==
  LET queue == toServer[s]
      f == Head(queue)
  IN  /\ link[s] = "up" /\ queue # <<>>
      /\ MayFail(f, subscriptions[s])
      /\ \E n \in 1..Len(queue), torn \in BOOLEAN :
           LET rest == SubSeq(queue, n + 1, Len(queue))
               last == IF torn THEN n + 1 ELSE n
           IN  /\ torn => n < Len(queue)
               /\ toServer' = [toServer EXCEPT ![s] =
                    IF torn THEN [rest EXCEPT ![1] = Torn] ELSE rest]
               /\ dropped' = [dropped EXCEPT ![s] = @
                    \cup {queue[k].command : k \in 2..last}
                    \cup ({f.command} \cap {"DISCONNECT"})]
      /\ subscriptions' = [subscriptions EXCEPT ![s] =
           IF f.command = "DISCONNECT" THEN @ ELSE Subscribed(@, f)]
      /\ ServerSame
      /\ UNCHANGED <<link, toClient, messages>>

ServerStep(s) == Serve(s) \/ ServeFails(s)

(* Another client publishes in a channel. *)
ServerPublishes(s) ==
  /\ link[s] = "up" /\ messages[s] < MaxMessages
  /\ \E channel \in Range(subscriptions[s]) : Answer(s, Reply("MESSAGE", channel))
  /\ messages' = [messages EXCEPT ![s] = @ + 1]
  /\ ServerSame
  /\ UNCHANGED <<link, toServer, subscriptions, dropped>>

(* The connection ends, and some of the last frames may not arrive. *)
LinkLost(s) ==
  /\ link[s] = "up"
  /\ link' = [link EXCEPT ![s] = "down"]
  /\ \E n \in 0..Len(toClient[s]) :
       toClient' = [toClient EXCEPT ![s] = SubSeq(@, 1, n)]
  /\ ServerSame
  /\ UNCHANGED <<toServer, subscriptions, messages, dropped>>

-----------------------------------------------------------------------------
User ==
  \/ ReadBlankLine
  \/ \E command \in {"CONNECT", "DISCONNECT"} : ReadCommand(command, None)
  \/ \E command \in {"SUBSCRIBE", "UNSUBSCRIBE", "SEND", "summary"},
        channel \in Channels : ReadCommand(command, channel)

MainStep ==
  \/ Refuse \/ LoginAgain \/ Join \/ Exit \/ Report \/ SummaryOf \/ Logout
  \/ Summarize \/ StoreReceipt \/ Send \/ JoinCommunicator
  \/ NewConnectionHandler \/ NewStompProtocol \/ Connect \/ ConnectFails
  \/ StartCommunicator

CommunicatorStep ==
  \/ TestStop \/ EnterRead \/ ReadFrame \/ ReadFails \/ LoseConnection \/ ParseFrame
  \/ CloseHandler \/ NullHandler \/ DeleteProtocol \/ EndCommunicate

Next ==
  \/ User \/ MainStep \/ CommunicatorStep \/ Undefined
  \/ \E s \in Sessions : ServerStep(s) \/ ServerPublishes(s) \/ LinkLost(s)

Spec == Init /\ [][Next]_vars

(* Threads run, and a server that is connected answers what it gets. *)
Fairness ==
  /\ WF_vars(MainStep) /\ WF_vars(CommunicatorStep)
  /\ \A s \in Sessions : WF_vars(ServerStep(s))

FairSpec == Spec /\ Fairness

-----------------------------------------------------------------------------
(* A RECEIPT, on its way or being read, finds the request that it confirms: *)
(* the request is stored before its frame is sent, and no later request     *)
(* has taken its id. Only so is the user told what really happened.         *)
ReceiptsMatch ==
  \A s \in protocols :
    LET arriving == Range(toClient[s]) \cup
                      (IF comm.handler = s /\ comm.frame # None THEN {comm.frame} ELSE {})
    IN  \A f \in arriving : f.command = "RECEIPT" =>
          /\ f.receipt \in DOMAIN object[s].receiptMap
          /\ object[s].receiptMap[f.receipt] = f.request

(* The server will have id i for the channel when it has served the queue:   *)
(* it has it, or will be told, and no later frame is about that id.          *)
About(f, i) ==
  \/ f.command \in {"SUBSCRIBE", "UNSUBSCRIBE"} /\ f.id = i
  \/ f.command = "DISCONNECT"

WillHave(subs, queue, i, channel) ==
  LET Last(n) == \A k \in DOMAIN queue : k > n => ~About(queue[k], i)
  IN  \/ i \in DOMAIN subs /\ subs[i] = channel /\ Last(0)
      \/ \E n \in DOMAIN queue :
           /\ queue[n].command = "SUBSCRIBE"
           /\ queue[n].id = i /\ queue[n].channel = channel /\ Last(n)

(* Client and server agree: what the client takes for its subscriptions is  *)
(* what the server will have when it has served the frames on their way,    *)
(* unless it has thrown some away (ServeFails).                             *)
SubscriptionsAgree ==
  Running /\ main.pc = "prompt" =>
    \A s \in protocols : link[s] = "up" /\ dropped[s] = {} =>
      LET mine == object[s].subscriptionIds
      IN  \A i \in Count, channel \in Channels :
            WillHave(subscriptions[s], toServer[s], i, channel)
              <=> channel \in DOMAIN mine /\ mine[channel] = i

(* When there is no communicator and the user may type, nothing is left of  *)
(* earlier sessions: a new login finds neither an old pointer nor an object *)
(* that nobody will delete.                                                 *)
NothingLeft ==
  Running /\ main.pc = "prompt" /\ comm.pc = "none" =>
    /\ protocol = nullptr /\ connectionHandler = nullptr
    /\ protocols = {} /\ handlers = {}

(* The communicator deletes what the main thread uses, without asking. It    *)
(* begins with that only while the main thread waits in join, or when the    *)
(* session is over anyway: an ERROR was received or the connection is lost.  *)
(* (A login beside a communicator that runs is left out.)                    *)
EndsForAReason ==
  Running /\ comm.pc = "close" /\ protocol \in protocols /\ main.command # "CONNECT" =>
    \/ main.pc = "join"
    \/ object[protocol].errorOccured
    \/ link[protocol] = "down"

(* A logout comes to its end, whether its RECEIPT arrives or the connection *)
(* is lost before, unless an ERROR that was on its way ends the program, or *)
(* the server has failed over the DISCONNECT or thrown it away.             *)
LogoutEnds ==
  main.pc = "join" ~>
    \/ main.pc # "join" \/ outcome = "terminated"
    \/ protocol # nullptr /\ "DISCONNECT" \in dropped[protocol]

-----------------------------------------------------------------------------
(* What the documentation says and the code does not do *)

(* "The client handles socket disconnection gracefully": once the           *)
(* communicator has ended with a lost connection, and not with an ERROR of  *)
(* the server, nothing the user types terminates the program.               *)
DisconnectionHandled ==
  outcome = "terminated" /\ comm.pc = "ended" => comm.error

(* "Wait for the communication thread to close and clean up resources,     *)
(* which is done when the server sends a RECEIPT frame": whoever waits in   *)
(* join comes out of it, unless an ERROR ends the program.                  *)
LogoutAnswered == main.pc = "join" ~> main.pc # "join" \/ outcome = "terminated"
=============================================================================
