-------------------- MODULE StompMessagingProtocolProofs --------------------
(***************************************************************************)
(* The types of the protocol's state and the safety of its logins, for any *)
(* number of clients, topics, users and frames.                            *)
(***************************************************************************)
EXTENDS StompMessagingProtocol, SequenceTheorems, TLAPS

(***************************************************************************)
(* TypeOK is not inductive: what a handler writes to a table comes from its *)
(* local variables, and which of those are set depends on where it is.     *)
(***************************************************************************)
RemovalLabels == {"containsTopic", "getForRemove", "removeSubscriber",
  "getForEmpty", "isEmpty", "removeTopic"}

TopicLabels == RemovalLabels \cup {"putTopic", "getTopic", "putSubscriber",
  "nextMessageId", "getSubscribers", "advance", "nextEntry", "lookup", "enqueue"}

MapLabels == {"putSubscriber", "removeSubscriber", "isEmpty", "advance",
  "nextEntry", "lookup", "enqueue", "sweepOne"}

LocalOK(k) ==
  /\ k.pc \in {"isUserActive", "authenticate"}
       => k.frame.login \in Users /\ k.frame.passcode \in Passcodes
  /\ k.pc \in {"putTopic", "getTopic", "putSubscriber"} => k.frame.id \in SubIds
  /\ k.pc \in TopicLabels => k.topic \in Topics
  /\ k.pc \in MapLabels => k.map \in Maps
  /\ k.pc \in {"advance", "nextEntry", "lookup", "enqueue"} => k.todo \subseteq Connections
  /\ k.pc \in {"lookup", "enqueue"} => k.entry \in Nodes
  /\ k.pc \in {"sweep", "sweepOne"} => k.todo \subseteq Topics

CallOK == call \in [Threads -> Calls] /\ \A p \in Threads : LocalOK(call[p])

WalkLabels == {"advance", "nextEntry", "lookup", "enqueue"}

(* A put of the entry new for c in map m, where old was before, may change the *)
(* locals k of another thread to l: its iterator will meet c, or holds c's node. *)
Overtaken(k, l, c, m, old, new) ==
  \/ l = k
  \/ /\ Walks(k, m) /\ old = Null
     /\ l = [k EXCEPT !.todo = @ \cup {c}]
  \/ /\ Walks(k, m) /\ old # Null /\ k.next = Node(c, old)
     /\ l = [k EXCEPT !.next = Node(c, new)]

(* What the loop of handleDisconnect has not visited is still subscribed. *)
InLoop(k) == k.pc \in RemovalLabels \cup {"unsubscribeAll"}

LoopOK ==
  \A c \in Connections :
    InLoop(call[Worker(c)]) => call[Worker(c)].todo \subseteq OwnIds(c)

DataOK ==
  /\ RegistryTypeOK
  /\ open \in [Connections -> BOOLEAN]
  /\ received \in [Connections -> Nat]
  /\ \A c \in Connections : received[c] <= MaxFrames[c]
  /\ connected \in [Connections -> BOOLEAN]
  /\ shouldTerminate \in [Connections -> BOOLEAN]
  /\ clientSubscriptions \in [Connections -> [SubIds -> Topics \cup {Null}]]
  /\ monitor \in Threads \cup {Null}
  /\ session \in [Connections -> [login : Users, passcode : Passcodes] \cup {Null}]
  /\ owed \in [Connections -> BOOLEAN]
  /\ late \in [Connections -> BOOLEAN]
  /\ asked \in [Connections -> Seq([topic : Topics, id : SubIds])]
  /\ published \in Seq([topic : Topics, from : Connections])
  /\ inbox \in [Connections -> Seq([msg : Nat, topic : Topics, id : SubIds, request : Nat])]

TypeInv == DataOK /\ CallOK /\ LoopOK

-----------------------------------------------------------------------------
LEMMA ThreadFacts ==
  ASSUME NEW c \in Connections
  PROVE  /\ Worker(c) \in Threads /\ Closer(c) \in Threads
         /\ Worker(c) # Closer(c)
         /\ Worker(c)[1] = c /\ Closer(c)[1] = c
         /\ \A d \in Connections : Worker(c) = Worker(d) => c = d
         /\ \A d \in Connections : Worker(c) # Closer(d)
  BY DEF Worker, Closer, Threads

LEMMA IdleFacts == Idle \in Calls /\ LocalOK(Idle) /\ ~InLoop(Idle)
  BY DEF Idle, Calls, Labels, LocalOK, InLoop, RemovalLabels, TopicLabels, MapLabels

(* One thread moves, to local variables that are all right. *)
LEMMA CallStep ==
  ASSUME CallOK, LoopOK, NEW p \in Threads, NEW k \in Calls, LocalOK(k),
         call' = [call EXCEPT ![p] = k],
         \A c \in Connections :
           p # Worker(c) => clientSubscriptions'[c] = clientSubscriptions[c],
         \A c \in Connections :
           p = Worker(c) /\ InLoop(k) => k.todo \subseteq OwnIds(c)'
  PROVE  CallOK' /\ LoopOK'
<1>1. CallOK'
  BY DEF CallOK
<1>2. LoopOK'
  BY ThreadFacts DEF CallOK, LoopOK, OwnIds
<1> QED
  BY <1>1, <1>2

(* A step that moves one thread and changes no more than the tables *)
LEMMA TablesStep ==
  ASSUME TypeInv, OnlyTables, RegistryTypeOK',
         NEW p \in Threads, NEW k \in Calls, LocalOK(k),
         call' = [call EXCEPT ![p] = k],
         \A c \in Connections :
           p = Worker(c) /\ InLoop(k) => k.todo \subseteq OwnIds(c)
  PROVE  TypeInv'
<1>1. UNCHANGED clientSubscriptions
  BY DEF OnlyTables, sessionVars
<1>2. CallOK' /\ LoopOK'
  BY <1>1, CallStep DEF TypeInv, OwnIds
<1>3. DataOK'
  BY DEF TypeInv, DataOK, OnlyTables, TransportSame, sessionVars, messageVars
<1> QED
  BY <1>2, <1>3 DEF TypeInv

(* A step that moves one thread and does nothing else *)
LEMMA OnlyCallStep ==
  ASSUME TypeInv, OnlyCall,
         NEW p \in Threads, NEW k \in Calls, LocalOK(k),
         call' = [call EXCEPT ![p] = k],
         \A c \in Connections :
           p = Worker(c) /\ InLoop(k) => k.todo \subseteq OwnIds(c)
  PROVE  TypeInv'
<1>1. RegistryTypeOK'
  BY DEF TypeInv, DataOK, RegistryTypeOK, OnlyCall, registryVars,
     connectionTables, topicTables, userTables
<1> QED
  BY <1>1, TablesStep DEF OnlyCall

-----------------------------------------------------------------------------
(* The transport *)

LEMMA AcceptType ==
  ASSUME TypeInv, Accept
  PROVE  TypeInv'
<1>1. CallOK' /\ LoopOK'
  BY DEF TypeInv, CallOK, LoopOK, OwnIds, Accept, sessionVars
<1>2. RegistryTypeOK'
  BY RegistryAssumption DEF TypeInv, DataOK, RegistryTypeOK, Accept, Register,
     topicTables, userTables, Connections
<1>3. DataOK'
  BY <1>2 DEF TypeInv, DataOK, Accept, sessionVars, messageVars
<1> QED
  BY <1>1, <1>3 DEF TypeInv

LEMMA CloseType ==
  ASSUME TypeInv, NEW c \in Connections, Close(c)
  PROVE  TypeInv'
<1> DEFINE p == Closer(c)
           k == [call[p] EXCEPT !.pc = "disconnect"]
<1>1. call' = [call EXCEPT ![p] = k]
  BY DEF Close, Goto
<1>2. p \in Threads /\ call[p] \in Calls
  BY ThreadFacts DEF TypeInv, CallOK
<1>3. k \in Calls /\ LocalOK(k) /\ ~InLoop(k)
  BY <1>2 DEF Calls, Labels, LocalOK, InLoop, RemovalLabels, TopicLabels, MapLabels
<1>4. CallOK' /\ LoopOK'
  BY <1>1, <1>2, <1>3, CallStep DEF TypeInv, Close, sessionVars
<1>5. DataOK'
  BY DEF TypeInv, DataOK, RegistryTypeOK, Close, sessionVars, messageVars,
     registryVars, connectionTables, topicTables, userTables
<1> QED
  BY <1>4, <1>5 DEF TypeInv

-----------------------------------------------------------------------------
(* A frame is decoded *)

LEMMA FrameFacts ==
  ASSUME NEW c \in Connections, NEW f \in Frames[c]
  PROVE  f \in FrameType
  BY ProtocolAssumption

LEMMA ProcessStep ==
  ASSUME TypeInv, NEW c \in Connections, NEW f \in FrameType,
         NEW label \in Labels, NEW topic \in Topics \cup {Null},
         NEW todo \in SUBSET SubIds,
         ProcessAs(c, f, label, topic, todo),
         label \notin MapLabels \cup {"lookup", "enqueue", "sweep", "sweepOne"},
         label \in TopicLabels => topic \in Topics,
         label \in {"putTopic", "getTopic"} => f.id \in SubIds,
         label \in {"isUserActive", "authenticate"}
           => f.login \in Users /\ f.passcode \in Passcodes,
         label \in RemovalLabels \cup {"unsubscribeAll"} => todo \subseteq OwnIds(c)',
         \A d \in Connections :
           d # c => clientSubscriptions'[d] = clientSubscriptions[d],
         connected' \in [Connections -> BOOLEAN],
         shouldTerminate' \in [Connections -> BOOLEAN],
         clientSubscriptions' \in [Connections -> [SubIds -> Topics \cup {Null}]],
         session' \in [Connections -> [login : Users, passcode : Passcodes] \cup {Null}],
         asked' \in [Connections -> Seq([topic : Topics, id : SubIds])]
  PROVE  TypeInv'
<1> DEFINE p == Worker(c)
           k == [Idle EXCEPT !.pc = label, !.frame = f, !.topic = topic, !.todo = todo]
<1>1. call' = [call EXCEPT ![p] = k] /\ p \in Threads
  BY ThreadFacts DEF ProcessAs
<1>2. /\ k.pc = label /\ k.frame = f /\ k.topic = topic /\ k.todo = todo
  BY DEF Idle
<1>3. k \in Calls
  <2>1. todo \in SUBSET (Connections \cup Topics \cup SubIds)
    OBVIOUS
  <2>2. f \in FrameType \cup {Null}
    OBVIOUS
  <2> QED
    BY <2>1, <2>2, IdleFacts DEF Calls
<1> HIDE DEF k
<1>4. LocalOK(k)
  BY <1>2 DEF LocalOK, MapLabels
<1>5. InLoop(k) => k.todo \subseteq OwnIds(c)'
  BY <1>2 DEF InLoop
<1>6. CallOK' /\ LoopOK'
  <2>1. \A d \in Connections :
          p # Worker(d) => clientSubscriptions'[d] = clientSubscriptions[d]
    BY ThreadFacts
  <2>2. \A d \in Connections :
          p = Worker(d) /\ InLoop(k) => k.todo \subseteq OwnIds(d)'
    BY <1>5, ThreadFacts
  <2> HIDE DEF p
  <2> QED
    BY <1>1, <1>3, <1>4, <2>1, <2>2, CallStep DEF TypeInv
<1>7. RegistryTypeOK'
  BY DEF TypeInv, DataOK, RegistryTypeOK, ProcessAs, registryVars,
     connectionTables, topicTables, userTables
<1>8. f.receipt \in BOOLEAN
  BY DEF FrameType
<1>9. DataOK'
  <2>1. /\ received' \in [Connections -> Nat]
        /\ \A d \in Connections : received'[d] <= MaxFrames[d]
    <3>1. /\ received \in [Connections -> Nat] /\ MaxFrames \in [Connections -> Nat]
          /\ \A d \in Connections : received[d] <= MaxFrames[d]
          /\ received[c] < MaxFrames[c]
          /\ received' = [received EXCEPT ![c] = @ + 1]
      BY ProtocolAssumption DEF TypeInv, DataOK, ProcessAs
    <3> QED
      BY ONLY <3>1
  <2>2. /\ owed' \in [Connections -> BOOLEAN]
        /\ late' \in [Connections -> BOOLEAN]
    BY <1>8 DEF TypeInv, DataOK, ProcessAs
  <2>3. UNCHANGED <<open, monitor, published, inbox>>
    BY DEF ProcessAs
  <2> QED
    BY <1>7, <2>1, <2>2, <2>3 DEF TypeInv, DataOK
<1> QED
  BY <1>6, <1>9 DEF TypeInv

LEMMA SimpleProcess ==
  ASSUME TypeInv, NEW c \in Connections, NEW f \in FrameType,
         NEW label \in {"sendError", "isUserActive"}, Process(c, f, label),
         label = "isUserActive" => f.login \in Users /\ f.passcode \in Passcodes,
         UNCHANGED <<sessionVars, asked>>
  PROVE  TypeInv'
<1>1. /\ label \in Labels
      /\ label \notin MapLabels \cup {"lookup", "enqueue", "sweep", "sweepOne"}
      /\ label \notin TopicLabels /\ label \notin {"putTopic", "getTopic"}
      /\ label \notin RemovalLabels \cup {"unsubscribeAll"}
      /\ label \in {"isUserActive", "authenticate"} => label = "isUserActive"
  BY DEF Labels, MapLabels, TopicLabels, RemovalLabels
<1>2. /\ connected' \in [Connections -> BOOLEAN]
      /\ shouldTerminate' \in [Connections -> BOOLEAN]
      /\ clientSubscriptions' \in [Connections -> [SubIds -> Topics \cup {Null}]]
      /\ session' \in [Connections -> [login : Users, passcode : Passcodes] \cup {Null}]
      /\ asked' \in [Connections -> Seq([topic : Topics, id : SubIds])]
      /\ clientSubscriptions' = clientSubscriptions
  BY DEF TypeInv, DataOK, sessionVars
<1>3. /\ ProcessAs(c, f, label, Null, {})
      /\ Null \in Topics \cup {Null} /\ {} \in SUBSET SubIds
      /\ \A d \in Connections :
           d # c => clientSubscriptions'[d] = clientSubscriptions[d]
  BY <1>2 DEF Process
<1> QED
  BY <1>1, <1>2, <1>3, ProcessStep

LEMMA HandleConnectType ==
  ASSUME TypeInv, NEW c \in Connections, NEW f \in FrameType, HandleConnect(c, f)
  PROVE  TypeInv'
<1>1. CASE ConnectRefused(c, f)
  BY <1>1, SimpleProcess DEF HandleConnect
<1>2. CASE ~ConnectRefused(c, f)
  <2>1. f.login \in Users /\ f.passcode \in Passcodes
    BY <1>2 DEF ConnectRefused, FrameType
  <2> QED
    BY <1>2, <2>1, SimpleProcess DEF HandleConnect
<1> QED
  BY <1>1, <1>2

LEMMA HandleUnknownType ==
  ASSUME TypeInv, NEW c \in Connections, NEW f \in FrameType, HandleUnknown(c, f)
  PROVE  TypeInv'
  BY SimpleProcess DEF HandleUnknown

LEMMA HandleSubscribeType ==
  ASSUME TypeInv, NEW c \in Connections, NEW f \in FrameType, HandleSubscribe(c, f)
  PROVE  TypeInv'
<1>1. CASE ~connected[c] \/ f.destination = Null \/ f.id \in {Null, BadId}
  BY <1>1, SimpleProcess DEF HandleSubscribe
<1>2. CASE connected[c] /\ f.destination # Null /\ f.id \notin {Null, BadId}
  <2>1. f.destination \in Topics /\ f.id \in SubIds
    BY <1>2 DEF FrameType
  <2>2. /\ ProcessAs(c, f, "putTopic", f.destination, {})
        /\ clientSubscriptions' =
             [clientSubscriptions EXCEPT ![c][f.id] = f.destination]
        /\ asked' = [asked EXCEPT ![c] =
             Append(@, [topic |-> f.destination, id |-> f.id])]
        /\ UNCHANGED <<connected, shouldTerminate, session>>
    BY <1>2 DEF HandleSubscribe
  <2>3. /\ "putTopic" \in Labels
        /\ "putTopic" \notin MapLabels \cup {"lookup", "enqueue", "sweep", "sweepOne"}
        /\ "putTopic" \notin RemovalLabels \cup {"unsubscribeAll"}
        /\ "putTopic" \notin {"isUserActive", "authenticate"}
        /\ {} \in SUBSET SubIds /\ f.destination \in Topics \cup {Null}
    BY <2>1 DEF Labels, MapLabels, RemovalLabels
  <2>4. /\ clientSubscriptions' \in [Connections -> [SubIds -> Topics \cup {Null}]]
        /\ \A d \in Connections :
             d # c => clientSubscriptions'[d] = clientSubscriptions[d]
        /\ asked' \in [Connections -> Seq([topic : Topics, id : SubIds])]
    <3>1. /\ clientSubscriptions' \in [Connections -> [SubIds -> Topics \cup {Null}]]
          /\ \A d \in Connections :
               d # c => clientSubscriptions'[d] = clientSubscriptions[d]
      BY <2>1, <2>2 DEF TypeInv, DataOK
    <3>2. asked' \in [Connections -> Seq([topic : Topics, id : SubIds])]
      <4> DEFINE s == [topic |-> f.destination, id |-> f.id]
      <4>1. s \in [topic : Topics, id : SubIds] /\ asked' = [asked EXCEPT ![c] = Append(@, s)]
        BY <2>1, <2>2
      <4> HIDE DEF s
      <4>2. asked \in [Connections -> Seq([topic : Topics, id : SubIds])]
        BY DEF TypeInv, DataOK
      <4>3. Append(asked[c], s) \in Seq([topic : Topics, id : SubIds])
        BY <4>1, <4>2, AppendProperties
      <4> QED
        BY <4>1, <4>2, <4>3
    <3> QED
      BY <3>1, <3>2
  <2>5. /\ connected' \in [Connections -> BOOLEAN]
        /\ shouldTerminate' \in [Connections -> BOOLEAN]
        /\ session' \in [Connections -> [login : Users, passcode : Passcodes] \cup {Null}]
    BY <2>2 DEF TypeInv, DataOK
  <2> QED
    BY <2>1, <2>2, <2>3, <2>4, <2>5, ProcessStep
<1> QED
  BY <1>1, <1>2

LEMMA HandleUnsubscribeType ==
  ASSUME TypeInv, NEW c \in Connections, NEW f \in FrameType, HandleUnsubscribe(c, f)
  PROVE  TypeInv'
<1>1. CASE \/ ~connected[c] \/ f.id \in {Null, BadId}
           \/ clientSubscriptions[c][f.id] = Null
  BY <1>1, SimpleProcess DEF HandleUnsubscribe
<1>2. CASE /\ connected[c] /\ f.id \notin {Null, BadId}
           /\ clientSubscriptions[c][f.id] # Null
  <2> DEFINE t == clientSubscriptions[c][f.id]
  <2>1. f.id \in SubIds
    BY <1>2 DEF FrameType
  <2>2. t \in Topics
    BY <1>2, <2>1 DEF TypeInv, DataOK
  <2>3. /\ ProcessAs(c, f, "containsTopic", t, {})
        /\ clientSubscriptions' = [clientSubscriptions EXCEPT ![c][f.id] = Null]
        /\ UNCHANGED <<connected, shouldTerminate, session, asked>>
    BY <1>2 DEF HandleUnsubscribe
  <2>4. /\ clientSubscriptions' \in [Connections -> [SubIds -> Topics \cup {Null}]]
        /\ \A d \in Connections :
             d # c => clientSubscriptions'[d] = clientSubscriptions[d]
    BY <2>1, <2>3 DEF TypeInv, DataOK
  <2>5. /\ connected' \in [Connections -> BOOLEAN]
        /\ shouldTerminate' \in [Connections -> BOOLEAN]
        /\ session' \in [Connections -> [login : Users, passcode : Passcodes] \cup {Null}]
        /\ asked' \in [Connections -> Seq([topic : Topics, id : SubIds])]
    BY <2>3 DEF TypeInv, DataOK
  <2> HIDE DEF t
  <2>6. /\ "containsTopic" \in Labels
        /\ "containsTopic" \notin MapLabels \cup {"lookup", "enqueue", "sweep", "sweepOne"}
        /\ "containsTopic" \notin {"isUserActive", "authenticate", "putTopic", "getTopic"}
        /\ {} \in SUBSET SubIds /\ t \in Topics \cup {Null}
        /\ {} \subseteq OwnIds(c)'
    BY <2>2 DEF Labels, MapLabels
  <2> QED
    BY <2>2, <2>3, <2>4, <2>5, <2>6, ProcessStep
<1> QED
  BY <1>1, <1>2

LEMMA HandleDisconnectType ==
  ASSUME TypeInv, NEW c \in Connections, NEW f \in FrameType, HandleDisconnect(c, f)
  PROVE  TypeInv'
<1>1. CASE ~connected[c]
  BY <1>1, SimpleProcess DEF HandleDisconnect
<1>2. CASE connected[c]
  <2>1. /\ ProcessAs(c, f, "unsubscribeAll", Null, OwnIds(c))
        /\ shouldTerminate' = [shouldTerminate EXCEPT ![c] = TRUE]
        /\ UNCHANGED <<connected, clientSubscriptions, session, asked>>
    BY <1>2 DEF HandleDisconnect
  <2>2. /\ connected' \in [Connections -> BOOLEAN]
        /\ shouldTerminate' \in [Connections -> BOOLEAN]
        /\ clientSubscriptions' \in [Connections -> [SubIds -> Topics \cup {Null}]]
        /\ session' \in [Connections -> [login : Users, passcode : Passcodes] \cup {Null}]
        /\ asked' \in [Connections -> Seq([topic : Topics, id : SubIds])]
        /\ \A d \in Connections :
             d # c => clientSubscriptions'[d] = clientSubscriptions[d]
    BY <2>1 DEF TypeInv, DataOK
  <2>3. OwnIds(c) \in SUBSET SubIds /\ OwnIds(c) \subseteq OwnIds(c)'
    BY <2>1 DEF OwnIds
  <2>4. /\ "unsubscribeAll" \in Labels
        /\ "unsubscribeAll" \notin MapLabels \cup {"lookup", "enqueue", "sweep", "sweepOne"}
        /\ "unsubscribeAll" \notin TopicLabels
        /\ "unsubscribeAll" \notin {"isUserActive", "authenticate", "putTopic", "getTopic"}
        /\ Null \in Topics \cup {Null}
    BY DEF Labels, MapLabels, TopicLabels, RemovalLabels
  <2> QED
    BY <2>1, <2>2, <2>3, <2>4, ProcessStep
<1> QED
  BY <1>1, <1>2

LEMMA HandleSendType ==
  ASSUME TypeInv, NEW c \in Connections, NEW f \in FrameType, HandleSend(c, f)
  PROVE  TypeInv'
<1>1. CASE \/ ~connected[c] \/ f.destination = Null
           \/ ~SubscribedTo(c, f.destination)
  BY <1>1, SimpleProcess DEF HandleSend
<1>2. CASE /\ connected[c] /\ f.destination # Null
           /\ SubscribedTo(c, f.destination)
  <2>1. f.destination \in Topics
    BY <1>2 DEF FrameType
  <2>2. /\ ProcessAs(c, f, "nextMessageId", f.destination, {})
        /\ UNCHANGED <<sessionVars, asked>>
    BY <1>2 DEF HandleSend
  <2>3. /\ connected' \in [Connections -> BOOLEAN]
        /\ shouldTerminate' \in [Connections -> BOOLEAN]
        /\ clientSubscriptions' \in [Connections -> [SubIds -> Topics \cup {Null}]]
        /\ session' \in [Connections -> [login : Users, passcode : Passcodes] \cup {Null}]
        /\ asked' \in [Connections -> Seq([topic : Topics, id : SubIds])]
        /\ \A d \in Connections :
             d # c => clientSubscriptions'[d] = clientSubscriptions[d]
    BY <2>2 DEF TypeInv, DataOK, sessionVars
  <2>4. /\ "nextMessageId" \in Labels
        /\ "nextMessageId" \notin MapLabels \cup {"lookup", "enqueue", "sweep", "sweepOne"}
        /\ "nextMessageId" \notin RemovalLabels \cup {"unsubscribeAll"}
        /\ "nextMessageId" \notin {"isUserActive", "authenticate", "putTopic", "getTopic"}
        /\ {} \in SUBSET SubIds /\ f.destination \in Topics \cup {Null}
    BY <2>1 DEF Labels, MapLabels, RemovalLabels
  <2> QED
    BY <2>1, <2>2, <2>3, <2>4, ProcessStep
<1> QED
  BY <1>1, <1>2

LEMMA ReceiveType ==
  ASSUME TypeInv, NEW c \in Connections, NEW f \in Frames[c], Receive(c, f)
  PROVE  TypeInv'
  BY FrameFacts, HandleConnectType, HandleUnknownType, HandleSubscribeType,
     HandleUnsubscribeType, HandleDisconnectType, HandleSendType DEF Receive

-----------------------------------------------------------------------------
(* The steps of a worker inside a handler *)

LEMMA Here ==
  ASSUME TypeInv, NEW c \in Connections
  PROVE  /\ Worker(c) \in Threads
         /\ call[Worker(c)] \in Calls
         /\ LocalOK(call[Worker(c)])
         /\ InLoop(call[Worker(c)]) => call[Worker(c)].todo \subseteq OwnIds(c)
         /\ \A d \in Connections : Worker(c) = Worker(d) => c = d
  BY ThreadFacts DEF TypeInv, CallOK, LoopOK

LEMMA WorkerOnlyCall ==
  ASSUME TypeInv, OnlyCall, NEW c \in Connections, NEW k \in Calls, LocalOK(k),
         call' = [call EXCEPT ![Worker(c)] = k],
         InLoop(k) => k.todo \subseteq OwnIds(c)
  PROVE  TypeInv'
  BY Here, OnlyCallStep, ZenonT(40)

LEMMA WorkerTables ==
  ASSUME TypeInv, OnlyTables, RegistryTypeOK',
         NEW c \in Connections, NEW k \in Calls, LocalOK(k),
         call' = [call EXCEPT ![Worker(c)] = k],
         InLoop(k) => k.todo \subseteq OwnIds(c)
  PROVE  TypeInv'
  BY Here, TablesStep, ZenonT(40)

LEMMA ReturnStep ==
  ASSUME TypeInv, OnlyCall, NEW c \in Connections, Return(Worker(c))
  PROVE  TypeInv'
  BY IdleFacts, WorkerOnlyCall DEF Return

LEMMA CheckUserActiveType ==
  ASSUME TypeInv, NEW c \in Connections, CheckUserActive(c)
  PROVE  TypeInv'
<1> DEFINE k == [call[Worker(c)] EXCEPT !.pc =
       IF IsUserActive(FrameOf(c).login) THEN "sendError" ELSE "authenticate"]
<1>1. call' = [call EXCEPT ![Worker(c)] = k] /\ OnlyCall
  BY DEF CheckUserActive, Goto
<1>2. k \in Calls /\ LocalOK(k) /\ ~InLoop(k)
  BY Here DEF CheckUserActive, At, Calls, Labels, LocalOK, InLoop,
     RemovalLabels, TopicLabels, MapLabels
<1> QED
  BY <1>1, <1>2, WorkerOnlyCall

(* get(topic): the map of the topic, or null and the end of the frame *)
LEMMA GetType ==
  ASSUME TypeInv, NEW c \in Connections, NEW label \in TopicLabels, NEW next \in Labels,
         Get(c, label, next),
         next \in {"putSubscriber"} => label = "getTopic",
         next \in {"putSubscriber", "removeSubscriber", "isEmpty"},
         next \in RemovalLabels => label \in RemovalLabels
  PROVE  TypeInv'
<1> DEFINE m == topicSubscriptions[call[Worker(c)].topic]
           k == [call[Worker(c)] EXCEPT !.map = m, !.pc = next]
<1>1. CASE m = Null
  BY <1>1, ReturnStep DEF Get
<1>2. CASE m # Null
  <2>1. call' = [call EXCEPT ![Worker(c)] = k] /\ OnlyCall
    BY <1>2, Here DEF Get
  <2>2. m \in Maps
    BY <1>2, Here DEF Get, At, LocalOK, TypeInv, DataOK, RegistryTypeOK
  <2>3. k \in Calls
    BY <2>2, Here DEF Calls
  <2>4. /\ k.pc = next /\ k.map = m /\ k.frame = call[Worker(c)].frame
        /\ k.topic = call[Worker(c)].topic /\ k.todo = call[Worker(c)].todo
    BY Here DEF Calls
  <2>5. LocalOK(k)
    BY <2>2, <2>4, Here DEF Get, At, LocalOK, TopicLabels, MapLabels
  <2>6. InLoop(k) => k.todo \subseteq OwnIds(c)
    BY <2>4, Here DEF Get, At, InLoop
  <2> QED
    BY <2>1, <2>3, <2>5, <2>6, WorkerOnlyCall
<1> QED
  BY <1>1, <1>2

LEMMA GetTopicType ==
  ASSUME TypeInv, NEW c \in Connections, GetTopic(c)
  PROVE  TypeInv'
  BY GetType DEF GetTopic, Labels, TopicLabels, RemovalLabels

LEMMA GetForRemoveType ==
  ASSUME TypeInv, NEW c \in Connections, GetForRemove(c)
  PROVE  TypeInv'
  BY GetType DEF GetForRemove, Labels, TopicLabels, RemovalLabels

LEMMA GetForEmptyType ==
  ASSUME TypeInv, NEW c \in Connections, GetForEmpty(c)
  PROVE  TypeInv'
  BY GetType DEF GetForEmpty, Labels, TopicLabels, RemovalLabels

(* removeSubscription returns to UNSUBSCRIBE or to the loop of DISCONNECT. *)
LEMMA RemovedFacts ==
  ASSUME TypeInv, NEW c \in Connections, Removed(c), InLoop(call[Worker(c)])
  PROVE  \E k \in Calls : /\ LocalOK(k)
                          /\ call' = [call EXCEPT ![Worker(c)] = k]
                          /\ InLoop(k) => k.todo \subseteq OwnIds(c)
<1> DEFINE k == [call[Worker(c)] EXCEPT !.map = Null,
       !.pc = IF FrameOf(c).command = "DISCONNECT" THEN "unsubscribeAll" ELSE "receipt"]
<1>1. call' = [call EXCEPT ![Worker(c)] = k]
  BY Here DEF Removed
<1>2. /\ k \in Calls /\ k.todo = call[Worker(c)].todo
      /\ k.pc \in {"unsubscribeAll", "receipt"}
  <2>1. (IF FrameOf(c).command = "DISCONNECT" THEN "unsubscribeAll" ELSE "receipt")
           \in Labels \cap {"unsubscribeAll", "receipt"}
    BY DEF Labels
  <2> QED
    BY <2>1, Here DEF Calls
<1> HIDE DEF k
<1>3. LocalOK(k)
  BY <1>2 DEF LocalOK, RemovalLabels, TopicLabels, MapLabels
<1> QED
  BY <1>1, <1>2, <1>3, Here

LEMMA ContainsTopicType ==
  ASSUME TypeInv, NEW c \in Connections, ContainsTopic(c)
  PROVE  TypeInv'
<1> DEFINE k == [call[Worker(c)] EXCEPT !.pc = "getForRemove"]
<1>0. InLoop(call[Worker(c)]) /\ OnlyCall
  BY DEF ContainsTopic, At, InLoop, RemovalLabels
<1>1. CASE topicSubscriptions[call[Worker(c)].topic] = Null
  <2>1. Removed(c)
    BY <1>1 DEF ContainsTopic
  <2> QED
    BY <1>0, <2>1, RemovedFacts, WorkerOnlyCall
<1>2. CASE topicSubscriptions[call[Worker(c)].topic] # Null
  <2>1. call' = [call EXCEPT ![Worker(c)] = k]
    BY <1>2 DEF ContainsTopic, Goto
  <2>2. k \in Calls /\ LocalOK(k) /\ k.todo = call[Worker(c)].todo
    BY Here DEF ContainsTopic, At, Calls, Labels, LocalOK, RemovalLabels, TopicLabels, MapLabels
  <2> QED
    BY <1>0, <2>1, <2>2, Here, WorkerOnlyCall
<1> QED
  BY <1>1, <1>2

LEMMA TestEmptyType ==
  ASSUME TypeInv, NEW c \in Connections, TestEmpty(c)
  PROVE  TypeInv'
<1> DEFINE k == [call[Worker(c)] EXCEPT !.pc = "removeTopic", !.map = Null]
<1>0. InLoop(call[Worker(c)]) /\ OnlyCall
  BY DEF TestEmpty, At, InLoop, RemovalLabels
<1>1. CASE subscribers[call[Worker(c)].map] = NoEntries
  <2>1. call' = [call EXCEPT ![Worker(c)] = k]
    BY <1>1, Here DEF TestEmpty
  <2>2. /\ k \in Calls /\ k.todo = call[Worker(c)].todo
        /\ k.pc = "removeTopic" /\ k.topic = call[Worker(c)].topic
    BY Here, ZenonT(40) DEF Calls, Labels
  <2>3. call[Worker(c)].topic \in Topics
    BY Here DEF TestEmpty, At, LocalOK, TopicLabels, RemovalLabels
  <2> HIDE DEF k
  <2>4. LocalOK(k)
    BY <2>2, <2>3 DEF LocalOK, MapLabels
  <2> QED
    BY <1>0, <2>1, <2>2, <2>4, Here, WorkerOnlyCall
<1>2. CASE subscribers[call[Worker(c)].map] # NoEntries
  <2>1. Removed(c)
    BY <1>2 DEF TestEmpty
  <2> QED
    BY <1>0, <2>1, RemovedFacts, WorkerOnlyCall
<1> QED
  BY <1>1, <1>2

LEMMA RemoveEmptyTopicType ==
  ASSUME TypeInv, NEW c \in Connections, RemoveEmptyTopic(c)
  PROVE  TypeInv'
<1>1. InLoop(call[Worker(c)]) /\ Removed(c) /\ OnlyTables
  BY DEF RemoveEmptyTopic, At, InLoop, RemovalLabels
<1>2. RegistryTypeOK'
  BY Here DEF RemoveEmptyTopic, At, LocalOK, TopicLabels, RemovalLabels, TypeInv, DataOK,
     RegistryTypeOK, RemoveTopic, connectionTables, userTables
<1> QED
  BY <1>1, <1>2, RemovedFacts, WorkerTables

LEMMA RemoveOwnSubscriptionType ==
  ASSUME TypeInv, NEW c \in Connections, RemoveOwnSubscription(c)
  PROVE  TypeInv'
<1> DEFINE k == [call[Worker(c)] EXCEPT !.pc = "getForEmpty", !.map = Null]
<1>1. call' = [call EXCEPT ![Worker(c)] = k] /\ OnlyTables
  BY Here DEF RemoveOwnSubscription
<1>2. /\ k \in Calls /\ k.todo = call[Worker(c)].todo
      /\ k.pc = "getForEmpty" /\ k.topic = call[Worker(c)].topic
  BY Here, ZenonT(40) DEF Calls, Labels
<1>6. call[Worker(c)].topic \in Topics
  BY Here DEF RemoveOwnSubscription, At, LocalOK, TopicLabels, RemovalLabels
<1> HIDE DEF k
<1>7. LocalOK(k)
  BY <1>2, <1>6 DEF LocalOK, MapLabels
<1>3. InLoop(call[Worker(c)])
  BY DEF RemoveOwnSubscription, At, InLoop, RemovalLabels
<1>4. call[Worker(c)].map \in Maps
  BY Here DEF RemoveOwnSubscription, At, LocalOK, MapLabels
<1>5. RegistryTypeOK'
  BY <1>4 DEF RemoveOwnSubscription, RemoveSubscriber, PutSubscriber, TypeInv,
     DataOK, RegistryTypeOK, connectionTables, userTables
<1> QED
  BY <1>1, <1>2, <1>3, <1>5, <1>7, Here, WorkerTables

(* What an entry that c is about to put looks like, and what the put does *)
LEMMA PutFacts ==
  ASSUME TypeInv, NEW c \in Connections, PutOwnSubscription(c),
         NEW m, m = call[Worker(c)].map,
         NEW new, new = [id |-> FrameOf(c).id, request |-> Len(asked[c])]
  PROVE  /\ m \in Maps /\ new \in Entries /\ call[Worker(c)].pc = "putSubscriber"
         /\ PutSubscriber(m, c, new) /\ OnlyTables
         /\ call' \in [Threads -> Calls]
         /\ call'[Worker(c)] = [call[Worker(c)] EXCEPT !.pc = "receipt", !.map = Null]
         /\ \A p \in Threads : p # Worker(c)
              => Overtaken(call[p], call'[p], c, m, subscribers[m][c], new)
<1>1. /\ m \in Maps /\ FrameOf(c).id \in SubIds /\ call[Worker(c)].pc = "putSubscriber"
      /\ Worker(c) \in Threads
  BY Here DEF PutOwnSubscription, At, LocalOK, MapLabels, FrameOf
<1>2. new \in Entries
  <2>1. Len(asked[c]) \in Nat
    BY LenProperties DEF TypeInv, DataOK
  <2> QED
    BY <1>1, <2>1 DEF Entries
<1>3. Node(c, new) \in Nodes
  BY <1>2 DEF Entries, Node, Nodes
<1> DEFINE old == subscribers[m][c]
           done == [call[Worker(c)] EXCEPT !.pc = "receipt", !.map = Null]
           Grown(p) == [call[p] EXCEPT !.todo = @ \cup {c}]
           Replaced(p) == [call[p] EXCEPT !.next = Node(c, new)]
<1>4. done \in Calls
  BY Here, ZenonT(40) DEF Calls, Labels
<1>5. \A p \in Threads : Grown(p) \in Calls /\ Replaced(p) \in Calls
  BY <1>3 DEF TypeInv, CallOK, Calls
<1>6. CASE old = Null
  <2>1. PICK again \in SUBSET {p \in Threads : InBin(call[p], m, c)} :
          call' = [p \in Threads |->
            IF p = Worker(c) THEN done ELSE IF p \in again THEN Grown(p) ELSE call[p]]
    BY <1>6 DEF PutOwnSubscription
  <2>2. \A p \in again : Walks(call[p], m)
    BY <2>1 DEF InBin
  <2> HIDE DEF done, Grown
  <2>3. /\ call' \in [Threads -> Calls] /\ call'[Worker(c)] = done
        /\ \A p \in Threads : p # Worker(c)
             => \/ call'[p] = call[p]
                \/ (p \in again /\ call'[p] = Grown(p))
    BY <1>1, <1>4, <1>5, <2>1 DEF TypeInv, CallOK
  <2> QED
    BY <1>1, <1>2, <1>6, <2>2, <2>3 DEF PutOwnSubscription, Overtaken, done, Grown
<1>7. CASE old # Null
  <2>1. call' = [p \in Threads |->
            IF p = Worker(c) THEN done
            ELSE IF Walks(call[p], m) /\ call[p].next = Node(c, old) THEN Replaced(p)
            ELSE call[p]]
    BY <1>7 DEF PutOwnSubscription
  <2> HIDE DEF done, Replaced
  <2>2. /\ call' \in [Threads -> Calls] /\ call'[Worker(c)] = done
        /\ \A p \in Threads : p # Worker(c)
             => \/ call'[p] = call[p]
                \/ /\ Walks(call[p], m) /\ call[p].next = Node(c, old)
                   /\ call'[p] = Replaced(p)
    BY <1>1, <1>4, <1>5, <2>1 DEF TypeInv, CallOK
  <2> QED
    BY <1>1, <1>2, <1>7, <2>2 DEF PutOwnSubscription, Overtaken, done, Replaced
<1> QED
  BY <1>6, <1>7

LEMMA OvertakenFacts ==
  ASSUME NEW k \in Calls, NEW l \in Calls, LocalOK(k), NEW c \in Connections, NEW m,
         NEW old, NEW new, Overtaken(k, l, c, m, old, new)
  PROVE  /\ LocalOK(l)
         /\ l.pc = k.pc /\ l.frame = k.frame /\ l.topic = k.topic /\ l.map = k.map
         /\ l.entry = k.entry /\ l.messageId = k.messageId
         /\ InLoop(k) => l.todo = k.todo
         /\ k.pc \notin WalkLabels => l = k
<1>1. /\ l.pc = k.pc /\ l.frame = k.frame /\ l.topic = k.topic /\ l.map = k.map
      /\ l.entry = k.entry /\ l.messageId = k.messageId
      /\ k.pc \notin WalkLabels => l = k
      /\ l.todo \in {k.todo, k.todo \cup {c}}
  BY DEF Overtaken, Walks, WalkLabels, Calls
<1> QED
  BY <1>1 DEF LocalOK, InLoop, WalkLabels, RemovalLabels

LEMMA PutOwnSubscriptionType ==
  ASSUME TypeInv, NEW c \in Connections, PutOwnSubscription(c)
  PROVE  TypeInv'
<1> DEFINE m == call[Worker(c)].map
           new == [id |-> FrameOf(c).id, request |-> Len(asked[c])]
<1>1. /\ m \in Maps /\ new \in Entries
      /\ PutSubscriber(m, c, new) /\ OnlyTables
      /\ call' \in [Threads -> Calls]
      /\ call'[Worker(c)] = [call[Worker(c)] EXCEPT !.pc = "receipt", !.map = Null]
      /\ \A p \in Threads : p # Worker(c)
              => Overtaken(call[p], call'[p], c, m, subscribers[m][c], new)
  BY PutFacts
<1>2. LocalOK(call'[Worker(c)]) /\ ~InLoop(call'[Worker(c)])
  <2>1. call'[Worker(c)].pc = "receipt"
    BY <1>1, Here DEF Calls
  <2> QED
    BY <2>1 DEF LocalOK, InLoop, RemovalLabels, TopicLabels, MapLabels
<1> HIDE DEF m, new
<1>3. \A p \in Threads : p # Worker(c) =>
        /\ LocalOK(call'[p]) /\ call'[p].pc = call[p].pc
        /\ InLoop(call[p]) => call'[p].todo = call[p].todo
  BY <1>1, OvertakenFacts DEF TypeInv, CallOK
<1>4. CallOK'
  BY <1>1, <1>2, <1>3 DEF CallOK
<1>5. LoopOK'
  <2> SUFFICES ASSUME NEW d \in Connections, InLoop(call'[Worker(d)])
               PROVE  call'[Worker(d)].todo \subseteq OwnIds(d)'
    BY DEF LoopOK
  <2>1. Worker(d) \in Threads /\ Worker(d) # Worker(c)
    BY <1>2, ThreadFacts
  <2>2. call'[Worker(d)].pc = call[Worker(d)].pc
    BY <1>3, <2>1
  <2>3. InLoop(call[Worker(d)])
    BY <2>2 DEF InLoop
  <2>4. call'[Worker(d)].todo = call[Worker(d)].todo
    BY <1>3, <2>1, <2>3
  <2>5. call[Worker(d)].todo \subseteq OwnIds(d)
    BY <2>3 DEF TypeInv, LoopOK
  <2> QED
    BY <1>1, <2>4, <2>5 DEF OwnIds, OnlyTables, sessionVars
<1>6. DataOK'
  BY <1>1 DEF PutSubscriber, TypeInv, DataOK, RegistryTypeOK, connectionTables,
     userTables, OnlyTables, TransportSame, sessionVars, messageVars
<1> QED
  BY <1>4, <1>5, <1>6 DEF TypeInv

LEMMA PutTopicType ==
  ASSUME TypeInv, NEW c \in Connections, PutTopic(c)
  PROVE  TypeInv'
<1> DEFINE k == [call[Worker(c)] EXCEPT !.pc = "getTopic"]
<1>1. call' = [call EXCEPT ![Worker(c)] = k] /\ OnlyTables
  BY DEF PutTopic, Goto
<1>2. k \in Calls /\ LocalOK(k) /\ ~InLoop(k)
  BY Here DEF PutTopic, At, Calls, Labels, LocalOK, InLoop, RemovalLabels,
     TopicLabels, MapLabels
<1>3. call[Worker(c)].topic \in Topics
  BY Here DEF PutTopic, At, LocalOK, TopicLabels
<1>4. NoEntries \in [Connections -> Entries \cup {Null}]
  BY DEF NoEntries
<1>5. RegistryTypeOK'
  <2> DEFINE t == call[Worker(c)].topic
  <2>1. PICK m \in Maps : PutTopicIfAbsent(t, m)
    BY DEF PutTopic
  <2>2. RegistryTypeOK
    BY DEF TypeInv, DataOK
  <2> HIDE DEF t
  <2>3. topicSubscriptions' \in [Topics -> Maps \cup {Null}]
    BY <2>1, <2>2 DEF PutTopicIfAbsent, RegistryTypeOK, topicTables
  <2>4. subscribers' \in [Maps -> [Connections -> Entries \cup {Null}]]
    BY <1>4, <2>1, <2>2 DEF PutTopicIfAbsent, RegistryTypeOK, topicTables
  <2> QED
    BY <2>1, <2>2, <2>3, <2>4 DEF PutTopicIfAbsent, RegistryTypeOK,
       connectionTables, userTables
<1> QED
  BY <1>1, <1>2, <1>5, WorkerTables

LEMMA UnsubscribeNextType ==
  ASSUME TypeInv, NEW c \in Connections, UnsubscribeNext(c)
  PROVE  TypeInv'
<1>1. PICK id \in call[Worker(c)].todo :
        call' = [call EXCEPT ![Worker(c)].todo = @ \ {id},
                             ![Worker(c)].topic = clientSubscriptions[c][id],
                             ![Worker(c)].pc = "containsTopic"]
  BY DEF UnsubscribeNext
<1> DEFINE t == clientSubscriptions[c][id]
           k == [call[Worker(c)] EXCEPT !.todo = @ \ {id}, !.topic = t,
                                        !.pc = "containsTopic"]
<1>2. call' = [call EXCEPT ![Worker(c)] = k] /\ OnlyCall
  BY <1>1, Here DEF UnsubscribeNext
<1>3. call[Worker(c)].todo \subseteq OwnIds(c)
  BY Here DEF UnsubscribeNext, At, InLoop
<1>4. t \in Topics
  BY <1>3 DEF OwnIds, TypeInv, DataOK
<1> HIDE DEF t
<1>5. k \in Calls
  BY <1>4, Here, ZenonT(40) DEF Calls, Labels
<1>6. k.pc = "containsTopic" /\ k.topic = t /\ k.todo = call[Worker(c)].todo \ {id}
  BY Here DEF Calls
<1> HIDE DEF k
<1>7. LocalOK(k)
  BY <1>4, <1>6 DEF LocalOK, MapLabels
<1> QED
  BY <1>2, <1>3, <1>5, <1>6, <1>7, WorkerOnlyCall

LEMMA ClearSubscriptionsType ==
  ASSUME TypeInv, NEW c \in Connections, ClearSubscriptions(c)
  PROVE  TypeInv'
<1> DEFINE k == [call[Worker(c)] EXCEPT !.pc = "receipt"]
<1>1. call' = [call EXCEPT ![Worker(c)] = k]
  BY DEF ClearSubscriptions, Goto
<1>2. k \in Calls /\ LocalOK(k) /\ ~InLoop(k)
  BY Here DEF Calls, Labels, LocalOK, InLoop, RemovalLabels, TopicLabels, MapLabels
<1>3. \A d \in Connections :
        Worker(c) # Worker(d) => clientSubscriptions'[d] = clientSubscriptions[d]
  BY Here DEF ClearSubscriptions, TypeInv, DataOK
<1>4. CallOK' /\ LoopOK'
  BY <1>1, <1>2, <1>3, Here, CallStep DEF TypeInv
<1>5. DataOK'
  BY DEF ClearSubscriptions, TypeInv, DataOK, RegistryTypeOK, registryVars,
     connectionTables, topicTables, userTables, messageVars, TransportSame
<1> QED
  BY <1>4, <1>5 DEF TypeInv

LEMMA MarkForTerminationType ==
  ASSUME TypeInv, NEW c \in Connections, MarkForTermination(c)
  PROVE  TypeInv'
<1>1. CallOK' /\ LoopOK'
  BY Here, IdleFacts, CallStep DEF TypeInv, MarkForTermination, Return
<1>2. DataOK'
  BY DEF MarkForTermination, TypeInv, DataOK, RegistryTypeOK, registryVars,
     connectionTables, topicTables, userTables, messageVars, TransportSame
<1> QED
  BY <1>1, <1>2 DEF TypeInv

(* A step that moves the worker and may take back what is owed *)
LEMMA AnswerStep ==
  ASSUME TypeInv, NEW c \in Connections, Answer(c), NEW k \in Calls, LocalOK(k), ~InLoop(k),
         call' = [call EXCEPT ![Worker(c)] = k], TransportSame,
         UNCHANGED <<registryVars, sessionVars, messageVars, monitor>>
  PROVE  TypeInv'
<1>1. CallOK' /\ LoopOK'
  BY Here, CallStep DEF TypeInv, sessionVars
<1>2. DataOK'
  BY DEF Answer, TypeInv, DataOK, RegistryTypeOK, registryVars, sessionVars,
     connectionTables, topicTables, userTables, messageVars, TransportSame
<1> QED
  BY <1>1, <1>2 DEF TypeInv

LEMMA SendErrorType ==
  ASSUME TypeInv, NEW c \in Connections, SendError(c)
  PROVE  TypeInv'
<1> DEFINE k == [call[Worker(c)] EXCEPT !.pc = "terminate"]
<1>1. call' = [call EXCEPT ![Worker(c)] = k]
  BY DEF SendError, Goto
<1>2. k \in Calls /\ LocalOK(k) /\ ~InLoop(k)
  BY Here DEF Calls, Labels, LocalOK, InLoop, RemovalLabels, TopicLabels, MapLabels
<1> QED
  BY <1>1, <1>2, AnswerStep DEF SendError

LEMMA SendReceiptIfRequestedType ==
  ASSUME TypeInv, NEW c \in Connections, SendReceiptIfRequested(c)
  PROVE  TypeInv'
<1> DEFINE k == [call[Worker(c)] EXCEPT !.pc = "disconnect"]
<1>1. k \in Calls /\ LocalOK(k) /\ ~InLoop(k)
  BY Here DEF Calls, Labels, LocalOK, InLoop, RemovalLabels, TopicLabels, MapLabels
<1>2. CASE FrameOf(c).command = "DISCONNECT"
  <2>1. call' = [call EXCEPT ![Worker(c)] = k]
    BY <1>2 DEF SendReceiptIfRequested, Goto
  <2> QED
    BY <1>1, <2>1, AnswerStep DEF SendReceiptIfRequested
<1>3. CASE FrameOf(c).command # "DISCONNECT"
  <2>1. call' = [call EXCEPT ![Worker(c)] = Idle]
    BY <1>3 DEF SendReceiptIfRequested, Return
  <2> QED
    BY <2>1, IdleFacts, AnswerStep DEF SendReceiptIfRequested
<1> QED
  BY <1>2, <1>3

LEMMA NextMessageIdType ==
  ASSUME TypeInv, NEW c \in Connections, NextMessageId(c)
  PROVE  TypeInv'
<1> DEFINE k == [call[Worker(c)] EXCEPT !.messageId = messageCounter',
                                        !.pc = "getSubscribers"]
           message == [topic |-> call[Worker(c)].topic, from |-> c]
<1>1. call' = [call EXCEPT ![Worker(c)] = k]
  BY Here DEF NextMessageId
<1>2. messageCounter' \in Nat /\ RegistryTypeOK'
  BY DEF NextMessageId, GetNextMessageId, TypeInv, DataOK, RegistryTypeOK,
     connectionTables, topicTables, userTables
<1>3. /\ k \in Calls
      /\ k.pc = "getSubscribers" /\ k.topic = call[Worker(c)].topic
  BY <1>2, Here, ZenonT(40) DEF Calls, Labels
<1>4. call[Worker(c)].topic \in Topics
  BY Here DEF NextMessageId, At, LocalOK, TopicLabels
<1> HIDE DEF k
<1>5. LocalOK(k) /\ ~InLoop(k)
  BY <1>3, <1>4 DEF LocalOK, InLoop, RemovalLabels, MapLabels
<1>6. UNCHANGED <<sessionVars, monitor, owed, asked, inbox>> /\ TransportSame
  BY DEF NextMessageId
<1>7. CallOK' /\ LoopOK'
  BY <1>1, <1>3, <1>5, <1>6, Here, CallStep DEF TypeInv, sessionVars
<1>8. message \in [topic : Topics, from : Connections]
  BY <1>4
<1>9. published' \in Seq([topic : Topics, from : Connections])
  <2>1. published' = Append(published, message)
    BY DEF NextMessageId
  <2> HIDE DEF message
  <2> QED
    BY <1>8, <2>1, AppendProperties DEF TypeInv, DataOK
<1>10. DataOK'
  BY <1>2, <1>6, <1>9 DEF TypeInv, DataOK, sessionVars, TransportSame
<1> QED
  BY <1>7, <1>10 DEF TypeInv

LEMMA GetSubscribersType ==
  ASSUME TypeInv, NEW c \in Connections, GetSubscribers(c)
  PROVE  TypeInv'
<1> DEFINE m == topicSubscriptions[call[Worker(c)].topic]
           k == [call[Worker(c)] EXCEPT !.map = m, !.todo = Connections,
                                        !.pc = "advance"]
<1>1. CASE m = Null
  BY <1>1, ReturnStep DEF GetSubscribers
<1>2. CASE m # Null
  <2>1. call' = [call EXCEPT ![Worker(c)] = k] /\ OnlyCall
    BY <1>2, Here DEF GetSubscribers
  <2>2. call[Worker(c)].topic \in Topics
    BY Here DEF GetSubscribers, At, LocalOK, TopicLabels
  <2>3. m \in Maps
    BY <1>2, <2>2 DEF TypeInv, DataOK, RegistryTypeOK
  <2> HIDE DEF m
  <2>4. /\ k \in Calls /\ k.pc = "advance" /\ k.map = m /\ k.todo = Connections
        /\ k.topic = call[Worker(c)].topic
    BY <2>3, Here, ZenonT(40) DEF Calls, Labels
  <2> HIDE DEF k
  <2>5. LocalOK(k) /\ ~InLoop(k)
    BY <2>2, <2>3, <2>4 DEF LocalOK, InLoop, RemovalLabels
  <2> QED
    BY <2>1, <2>4, <2>5, WorkerOnlyCall
<1> QED
  BY <1>1, <1>2

LEMMA AdvanceType ==
  ASSUME TypeInv, NEW c \in Connections, Advance(c)
  PROVE  TypeInv'
<1> DEFINE here == call[Worker(c)]
           label == IF here.entry = Null THEN "nextEntry" ELSE "lookup"
<1>1. /\ here.topic \in Topics /\ here.map \in Maps /\ here.todo \subseteq Connections
      /\ here.pc = "advance" /\ OnlyCall
      /\ here \in Calls
  BY Here DEF Advance, At, LocalOK, TopicLabels, MapLabels
<1>2. label \in {"nextEntry", "lookup"} /\ label \in Labels
  BY DEF Labels
<1>3. label = "lookup" => here.entry \in Nodes
  BY <1>1 DEF Calls
<1>4. CASE Goto(Worker(c), label)
  <2> DEFINE k == [here EXCEPT !.pc = label]
  <2>1. call' = [call EXCEPT ![Worker(c)] = k]
    BY <1>4 DEF Goto
  <2> HIDE DEF label
  <2>2. /\ k \in Calls /\ k.pc = label /\ k.map = here.map /\ k.entry = here.entry
        /\ k.topic = here.topic /\ k.todo = here.todo
    BY <1>1, <1>2 DEF Calls
  <2> HIDE DEF k
  <2>3. LocalOK(k) /\ ~InLoop(k)
    BY <1>1, <1>2, <1>3, <2>2 DEF LocalOK, InLoop, RemovalLabels
  <2> QED
    BY <1>1, <2>1, <2>2, <2>3, WorkerOnlyCall
<1>5. ASSUME NEW d \in here.todo,
             call' = [call EXCEPT ![Worker(c)] =
               IF subscribers[here.map][d] = Null
                 THEN [here EXCEPT !.todo = @ \ {d}]
                 ELSE [here EXCEPT !.todo = @ \ {d}, !.pc = label,
                                   !.next = Node(d, subscribers[here.map][d])]]
      PROVE  TypeInv'
  <2> DEFINE entry == subscribers[here.map][d]
  <2>1. d \in Connections /\ here.todo \ {d} \subseteq Connections
    BY <1>1
  <2>2. entry \in Entries \cup {Null}
    BY <1>1, <2>1 DEF TypeInv, DataOK, RegistryTypeOK
  <2>3. CASE entry = Null
    <3> DEFINE k == [here EXCEPT !.todo = @ \ {d}]
    <3>1. call' = [call EXCEPT ![Worker(c)] = k]
      BY <1>5, <2>3
    <3>2. /\ k \in Calls /\ k.pc = "advance" /\ k.map = here.map
          /\ k.topic = here.topic /\ k.todo = here.todo \ {d}
      BY <1>1 DEF Calls
    <3> HIDE DEF k
    <3>3. LocalOK(k) /\ ~InLoop(k)
      BY <1>1, <2>1, <3>2 DEF LocalOK, InLoop, RemovalLabels
    <3> QED
      BY <1>1, <3>1, <3>2, <3>3, WorkerOnlyCall
  <2>4. CASE entry # Null
    <3> DEFINE k == [here EXCEPT !.todo = @ \ {d}, !.pc = label, !.next = Node(d, entry)]
    <3>1. call' = [call EXCEPT ![Worker(c)] = k]
      BY <1>5, <2>4
    <3>2. Node(d, entry) \in Nodes
      BY <2>1, <2>2, <2>4 DEF Node, Nodes, Entries
    <3> HIDE DEF label, entry
    <3>3. /\ k \in Calls /\ k.pc = label /\ k.map = here.map /\ k.entry = here.entry
          /\ k.topic = here.topic /\ k.todo = here.todo \ {d}
      BY <1>1, <1>2, <3>2 DEF Calls
    <3> HIDE DEF k
    <3>4. LocalOK(k) /\ ~InLoop(k)
      BY <1>1, <1>2, <1>3, <2>1, <3>3 DEF LocalOK, InLoop, RemovalLabels
    <3> QED
      BY <1>1, <3>1, <3>3, <3>4, WorkerOnlyCall
  <2> QED
    BY <2>3, <2>4
<1>6. \/ Goto(Worker(c), label)
      \/ \E d \in here.todo :
           call' = [call EXCEPT ![Worker(c)] =
             IF subscribers[here.map][d] = Null
               THEN [here EXCEPT !.todo = @ \ {d}]
               ELSE [here EXCEPT !.todo = @ \ {d}, !.pc = label,
                                 !.next = Node(d, subscribers[here.map][d])]]
  BY DEF Advance
<1> QED
  BY <1>4, <1>5, <1>6

LEMMA NextEntryType ==
  ASSUME TypeInv, NEW c \in Connections, NextEntry(c)
  PROVE  TypeInv'
<1> DEFINE here == call[Worker(c)]
           k == [here EXCEPT !.entry = here.next, !.next = Null, !.pc = "advance"]
<1>1. call' = [call EXCEPT ![Worker(c)] = k] /\ OnlyCall
  BY Here DEF NextEntry
<1>2. /\ here.topic \in Topics /\ here.map \in Maps /\ here.todo \subseteq Connections
      /\ here \in Calls
  BY Here DEF NextEntry, At, LocalOK, TopicLabels, MapLabels
<1>3. /\ k \in Calls /\ k.pc = "advance" /\ k.map = here.map
      /\ k.topic = here.topic /\ k.todo = here.todo
  BY <1>2 DEF Calls, Labels
<1> HIDE DEF k
<1>4. LocalOK(k) /\ ~InLoop(k)
  BY <1>2, <1>3 DEF LocalOK, InLoop, RemovalLabels
<1> QED
  BY <1>1, <1>3, <1>4, WorkerOnlyCall

LEMMA EndOfSendType ==
  ASSUME TypeInv, NEW c \in Connections, EndOfSend(c)
  PROVE  TypeInv'
  BY ReturnStep DEF EndOfSend

LEMMA LookupType ==
  ASSUME TypeInv, NEW c \in Connections, Lookup(c)
  PROVE  TypeInv'
<1> DEFINE label == IF call[Worker(c)].entry.to \in activeConnections
                      THEN "enqueue" ELSE "nextEntry"
           k == [call[Worker(c)] EXCEPT !.pc = label]
<1>1. call' = [call EXCEPT ![Worker(c)] = k] /\ OnlyCall
  BY DEF Lookup, Goto
<1>2. label \in Labels /\ label \in {"enqueue", "nextEntry"}
  BY DEF Labels
<1> HIDE DEF label
<1>3. /\ k \in Calls /\ k.pc = label /\ k.map = call[Worker(c)].map
      /\ k.topic = call[Worker(c)].topic /\ k.todo = call[Worker(c)].todo
      /\ k.entry = call[Worker(c)].entry
  BY <1>2, Here DEF Calls
<1>4. /\ call[Worker(c)].map \in Maps /\ call[Worker(c)].topic \in Topics
      /\ call[Worker(c)].todo \subseteq Connections /\ call[Worker(c)].entry \in Nodes
  BY Here DEF Lookup, At, LocalOK, TopicLabels, MapLabels
<1> HIDE DEF k
<1>5. LocalOK(k) /\ ~InLoop(k)
  BY <1>2, <1>3, <1>4 DEF LocalOK, InLoop, RemovalLabels
<1> QED
  BY <1>1, <1>3, <1>5, WorkerOnlyCall

LEMMA EnqueueType ==
  ASSUME TypeInv, NEW c \in Connections, Enqueue(c)
  PROVE  TypeInv'
<1> DEFINE here == call[Worker(c)]
           to == here.entry.to
           message == [msg |-> here.messageId, topic |-> here.topic,
                       id |-> here.entry.id, request |-> here.entry.request]
           k == [here EXCEPT !.pc = "nextEntry"]
<1>1. /\ call' = [call EXCEPT ![Worker(c)] = k]
      /\ inbox' = IF open[to] THEN [inbox EXCEPT ![to] = Append(@, message)] ELSE inbox
      /\ UNCHANGED <<registryVars, sessionVars, asked, published, monitor, owed>>
      /\ TransportSame
  BY DEF Enqueue, Goto
<1>2. /\ k \in Calls /\ k.pc = "nextEntry" /\ k.map = here.map
      /\ k.topic = here.topic /\ k.todo = here.todo /\ here.messageId \in Nat
  BY Here DEF Calls, Labels
<1>3. /\ here.map \in Maps /\ here.topic \in Topics
      /\ here.todo \subseteq Connections /\ here.entry \in Nodes
  BY Here DEF Enqueue, At, LocalOK, TopicLabels, MapLabels
<1>4. /\ to \in Connections
      /\ message \in [msg : Nat, topic : Topics, id : SubIds, request : Nat]
  BY <1>2, <1>3 DEF Nodes
<1> HIDE DEF k
<1>5. LocalOK(k) /\ ~InLoop(k)
  BY <1>2, <1>3 DEF LocalOK, InLoop, RemovalLabels
<1>6. CallOK' /\ LoopOK'
  BY <1>1, <1>2, <1>5, Here, CallStep DEF TypeInv, sessionVars
<1>7. inbox' \in [Connections -> Seq([msg : Nat, topic : Topics, id : SubIds, request : Nat])]
  <2> HIDE DEF message, to
  <2>1. inbox \in [Connections -> Seq([msg : Nat, topic : Topics, id : SubIds, request : Nat])]
    BY DEF TypeInv, DataOK
  <2>2. Append(inbox[to], message) \in Seq([msg : Nat, topic : Topics, id : SubIds, request : Nat])
    BY <1>4, <2>1, AppendProperties
  <2> QED
    BY <1>1, <1>4, <2>1, <2>2
<1>8. DataOK'
  BY <1>1, <1>7 DEF TypeInv, DataOK, RegistryTypeOK, registryVars, sessionVars,
     connectionTables, topicTables, userTables, TransportSame
<1> QED
  BY <1>6, <1>8 DEF TypeInv

-----------------------------------------------------------------------------
(* disconnect, called by a worker or a closer *)

LEMMA ThreadHere ==
  ASSUME TypeInv, NEW p \in Threads
  PROVE  /\ call[p] \in Calls /\ LocalOK(call[p])
         /\ p[1] \in Connections
  BY DEF TypeInv, CallOK, Threads

(* A step of disconnect that moves its thread and changes only the tables *)
LEMMA DisconnectTables ==
  ASSUME TypeInv, OnlyTables, RegistryTypeOK', NEW p \in Threads,
         NEW k \in Calls, LocalOK(k), ~InLoop(k), call' = [call EXCEPT ![p] = k]
  PROVE  TypeInv'
  BY TablesStep

LEMMA DisconnectType ==
  ASSUME TypeInv, NEW p \in Threads, Disconnect(p)
  PROVE  TypeInv'
<1> DEFINE k == [call[p] EXCEPT !.pc = "enter"]
<1>1. call' = [call EXCEPT ![p] = k] /\ OnlyTables
  BY DEF Disconnect, Goto
<1>2. k \in Calls /\ k.pc = "enter"
  BY ThreadHere DEF Calls, Labels
<1> HIDE DEF k
<1>3. LocalOK(k) /\ ~InLoop(k)
  BY <1>2 DEF LocalOK, InLoop, RemovalLabels, TopicLabels, MapLabels
<1>4. RegistryTypeOK'
  BY DEF Disconnect, RemoveConnection, TypeInv, DataOK, RegistryTypeOK,
     topicTables, userTables
<1> QED
  BY <1>1, <1>2, <1>3, <1>4, DisconnectTables

(* A step that enters or leaves the monitor *)
LEMMA MonitorStep ==
  ASSUME TypeInv, NEW p \in Threads, monitor' \in Threads \cup {Null},
         NEW k \in Calls, LocalOK(k), ~InLoop(k), call' = [call EXCEPT ![p] = k],
         UNCHANGED <<registryVars, sessionVars, messageVars, owed>>, TransportSame
  PROVE  TypeInv'
<1>1. CallOK' /\ LoopOK'
  BY CallStep DEF TypeInv, sessionVars
<1>2. DataOK'
  BY DEF TypeInv, DataOK, RegistryTypeOK, registryVars, sessionVars, messageVars,
     connectionTables, topicTables, userTables, TransportSame
<1> QED
  BY <1>1, <1>2 DEF TypeInv

LEMMA EnterMonitorType ==
  ASSUME TypeInv, NEW p \in Threads, EnterMonitor(p)
  PROVE  TypeInv'
<1> DEFINE k == [call[p] EXCEPT !.pc = "sweep", !.todo = Topics]
<1>1. call' = [call EXCEPT ![p] = k]
  BY ThreadHere DEF EnterMonitor
<1>2. k \in Calls /\ k.pc = "sweep" /\ k.todo = Topics
  BY ThreadHere, ZenonT(40) DEF Calls, Labels
<1> HIDE DEF k
<1>3. LocalOK(k) /\ ~InLoop(k)
  BY <1>2 DEF LocalOK, InLoop, RemovalLabels, TopicLabels, MapLabels
<1> QED
  BY <1>1, <1>2, <1>3, MonitorStep DEF EnterMonitor

LEMMA ExitMonitorType ==
  ASSUME TypeInv, NEW p \in Threads, ExitMonitor(p)
  PROVE  TypeInv'
<1> DEFINE k == [call[p] EXCEPT !.pc = "removeUser"]
<1>1. call' = [call EXCEPT ![p] = k]
  BY DEF ExitMonitor, Goto
<1>2. k \in Calls /\ k.pc = "removeUser"
  BY ThreadHere DEF Calls, Labels
<1> HIDE DEF k
<1>3. LocalOK(k) /\ ~InLoop(k)
  BY <1>2 DEF LocalOK, InLoop, RemovalLabels, TopicLabels, MapLabels
<1> QED
  BY <1>1, <1>2, <1>3, MonitorStep DEF ExitMonitor

LEMMA SweepNextType ==
  ASSUME TypeInv, NEW p \in Threads, SweepNext(p)
  PROVE  TypeInv'
<1>0. OnlyCall /\ call[p].todo \subseteq Topics
  BY ThreadHere DEF SweepNext, At, LocalOK
<1>1. PICK t \in call[p].todo :
        LET m == topicSubscriptions[t]
        IN  call' = [call EXCEPT ![p].todo = @ \ {t}, ![p].map = m,
                                 ![p].pc = IF m = Null THEN "sweep" ELSE "sweepOne"]
  BY DEF SweepNext
<1> DEFINE m == topicSubscriptions[t]
           label == IF m = Null THEN "sweep" ELSE "sweepOne"
           k == [call[p] EXCEPT !.todo = @ \ {t}, !.map = m, !.pc = label]
<1>2. call' = [call EXCEPT ![p] = k]
  BY <1>1, ThreadHere
<1>3. m \in Maps \cup {Null}
  BY <1>0 DEF TypeInv, DataOK, RegistryTypeOK
<1>4. label \in Labels /\ label \in {"sweep", "sweepOne"} /\ (label = "sweepOne" => m \in Maps)
  BY <1>3 DEF Labels
<1> HIDE DEF m, label
<1>5. k \in Calls /\ k.pc = label /\ k.todo = call[p].todo \ {t} /\ k.map = m
  BY <1>3, <1>4, ThreadHere DEF Calls
<1> HIDE DEF k
<1>6. LocalOK(k) /\ ~InLoop(k)
  BY <1>0, <1>4, <1>5 DEF LocalOK, InLoop, RemovalLabels, TopicLabels, MapLabels
<1> QED
  BY <1>0, <1>2, <1>5, <1>6, OnlyCallStep

LEMMA SweepOneType ==
  ASSUME TypeInv, NEW p \in Threads, SweepOne(p)
  PROVE  TypeInv'
<1> DEFINE k == [call[p] EXCEPT !.pc = "sweep", !.map = Null]
<1>1. call' = [call EXCEPT ![p] = k] /\ OnlyTables
  BY ThreadHere DEF SweepOne
<1>2. call[p].todo \subseteq Topics /\ call[p].map \in Maps
  BY ThreadHere DEF SweepOne, At, LocalOK, MapLabels
<1>3. k \in Calls /\ k.pc = "sweep" /\ k.todo = call[p].todo
  BY ThreadHere, ZenonT(40) DEF Calls, Labels
<1> HIDE DEF k
<1>4. LocalOK(k) /\ ~InLoop(k)
  BY <1>2, <1>3 DEF LocalOK, InLoop, RemovalLabels, TopicLabels, MapLabels
<1>5. RegistryTypeOK'
  BY <1>2, ThreadHere DEF SweepOne, RemoveSubscriber, PutSubscriber, TypeInv,
     DataOK, RegistryTypeOK, connectionTables, userTables
<1> QED
  BY <1>1, <1>3, <1>4, <1>5, DisconnectTables

LEMMA RemoveUserType ==
  ASSUME TypeInv, NEW p \in Threads, RemoveUser(p)
  PROVE  TypeInv'
<1>1. OnlyTables
  BY DEF RemoveUser
<1>2. RegistryTypeOK'
  BY ThreadHere DEF RemoveUser, RemoveActiveUser, TypeInv, DataOK, RegistryTypeOK,
     connectionTables, topicTables
<1>3. CASE p = Worker(p[1])
  BY <1>1, <1>2, <1>3, IdleFacts, DisconnectTables DEF RemoveUser, Return
<1>4. CASE p # Worker(p[1])
  <2> DEFINE k == [call[p] EXCEPT !.pc = "closed"]
  <2>1. call' = [call EXCEPT ![p] = k]
    BY <1>4 DEF RemoveUser, Goto
  <2>2. k \in Calls /\ k.pc = "closed"
    BY ThreadHere DEF Calls, Labels
  <2> HIDE DEF k
  <2>3. LocalOK(k) /\ ~InLoop(k)
    BY <2>2 DEF LocalOK, InLoop, RemovalLabels, TopicLabels, MapLabels
  <2> QED
    BY <1>1, <1>2, <2>1, <2>2, <2>3, DisconnectTables
<1> QED
  BY <1>3, <1>4

-----------------------------------------------------------------------------
(* authenticateUser: the name is new, or its password matches, or not. *)

LEMMA AuthenticateFacts ==
  ASSUME TypeInv, NEW c \in Connections, AuthenticateUser(c)
  PROVE  FrameOf(c).login \in Users /\ FrameOf(c).passcode \in Passcodes
  BY Here DEF AuthenticateUser, At, LocalOK, FrameOf

LEMMA AuthenticateUserType ==
  ASSUME TypeInv, NEW c \in Connections, AuthenticateUser(c)
  PROVE  TypeInv'
<1> DEFINE user == FrameOf(c).login
           password == FrameOf(c).passcode
<1>1. user \in Users /\ password \in Passcodes
  BY AuthenticateFacts
<1>2. UNCHANGED <<messageVars, monitor, owed>> /\ TransportSame
  BY DEF AuthenticateUser
<1>3. PICK label \in {"receipt", "sendError"} :
        call' = [call EXCEPT ![Worker(c)].pc = label]
  BY DEF AuthenticateUser, LogIn, Goto
<1> DEFINE k == [call[Worker(c)] EXCEPT !.pc = label]
<1>4. call' = [call EXCEPT ![Worker(c)] = k]
  BY <1>3
<1>5. k \in Calls /\ k.pc = label
  BY Here DEF Calls, Labels
<1> HIDE DEF k
<1>6. LocalOK(k) /\ ~InLoop(k)
  BY <1>5 DEF LocalOK, InLoop, RemovalLabels, TopicLabels, MapLabels
<1>7. /\ UNCHANGED <<shouldTerminate, clientSubscriptions>>
      /\ connected' \in [Connections -> BOOLEAN]
  BY DEF AuthenticateUser, LogIn, sessionVars, TypeInv, DataOK
<1>8. session' \in [Connections -> [login : Users, passcode : Passcodes] \cup {Null}]
  <2> HIDE DEF user, password
  <2>1. session \in [Connections -> [login : Users, passcode : Passcodes] \cup {Null}]
    BY DEF TypeInv, DataOK
  <2>2. [login |-> user, passcode |-> password] \in [login : Users, passcode : Passcodes]
    BY <1>1
  <2>3. \/ UNCHANGED session
        \/ session' = [session EXCEPT ![c] = [login |-> user, passcode |-> password]]
    BY DEF AuthenticateUser, LogIn, sessionVars, user, password
  <2> QED
    BY <2>1, <2>2, <2>3
<1>9. RegistryTypeOK'
  <2> HIDE DEF user, password
  <2>1. UNCHANGED registryVars \/ RegisterUser(c, user, password)
    BY DEF AuthenticateUser, user, password
  <2>2. CASE UNCHANGED registryVars
    BY <2>2 DEF TypeInv, DataOK, RegistryTypeOK, registryVars,
       connectionTables, topicTables, userTables
  <2>3. CASE RegisterUser(c, user, password)
    BY <1>1, <2>3 DEF RegisterUser, TypeInv, DataOK, RegistryTypeOK,
       connectionTables, topicTables
  <2> QED
    BY <2>1, <2>2, <2>3
<1>10. CallOK' /\ LoopOK'
  BY <1>4, <1>5, <1>6, <1>7, Here, CallStep DEF TypeInv
<1>11. DataOK'
  BY <1>2, <1>7, <1>8, <1>9 DEF TypeInv, DataOK, messageVars, TransportSame
<1> QED
  BY <1>10, <1>11 DEF TypeInv

LEMMA WorkerStepType ==
  ASSUME TypeInv, NEW c \in Connections, WorkerStep(c)
  PROVE  TypeInv'
  BY SendErrorType, MarkForTerminationType, SendReceiptIfRequestedType,
     CheckUserActiveType, AuthenticateUserType, PutTopicType, GetTopicType,
     PutOwnSubscriptionType, UnsubscribeNextType, ClearSubscriptionsType,
     ContainsTopicType, GetForRemoveType, RemoveOwnSubscriptionType,
     GetForEmptyType, TestEmptyType, RemoveEmptyTopicType, NextMessageIdType,
     GetSubscribersType, AdvanceType, NextEntryType, EndOfSendType, LookupType, EnqueueType
     DEF WorkerStep

LEMMA DisconnectStepType ==
  ASSUME TypeInv, NEW p \in Threads, DisconnectStep(p)
  PROVE  TypeInv'
  BY DisconnectType, EnterMonitorType, SweepNextType, SweepOneType,
     ExitMonitorType, RemoveUserType DEF DisconnectStep

LEMMA TypeInvInit == Init => TypeInv
<1> SUFFICES ASSUME Init PROVE TypeInv
  OBVIOUS
<1>1. RegistryTypeOK
  BY RegistryAssumption DEF Init, RegistryInit, RegistryTypeOK, NoEntries
<1>2. DataOK
  <2>1. /\ published = <<>>
        /\ inbox = [c \in Connections |-> <<>>]
        /\ asked = [c \in Connections |-> <<>>]
    BY DEF Init
  <2>2. \A S : <<>> \in Seq(S)
    BY EmptySeq
  <2>3. /\ published \in Seq([topic : Topics, from : Connections])
        /\ inbox \in [Connections -> Seq([msg : Nat, topic : Topics, id : SubIds, request : Nat])]
        /\ asked \in [Connections -> Seq([topic : Topics, id : SubIds])]
    BY <2>1, <2>2
  <2> QED
    BY <1>1, <2>3, ProtocolAssumption DEF Init, DataOK
<1>3. CallOK /\ LoopOK
  BY IdleFacts, ThreadFacts DEF Init, CallOK, LoopOK
<1> QED
  BY <1>2, <1>3 DEF TypeInv

LEMMA TypeInvNext == TypeInv /\ [Next]_vars => TypeInv'
<1> SUFFICES ASSUME TypeInv, [Next]_vars PROVE TypeInv'
  OBVIOUS
<1>1. CASE UNCHANGED vars
  BY <1>1 DEF vars, TypeInv, DataOK, CallOK, LoopOK, OwnIds, RegistryTypeOK,
     registryVars, connectionTables, topicTables, userTables, sessionVars, messageVars
<1>2. CASE Next
  BY <1>2, AcceptType, CloseType, WorkerStepType, ReceiveType, DisconnectStepType
     DEF Next
<1> QED
  BY <1>1, <1>2

(***************************************************************************)
(* In every state each table and each local variable holds values of its   *)
(* type; the handlers never use an unset local, and no header that was not *)
(* checked for null reaches a table.                                       *)
(***************************************************************************)
THEOREM Types == Spec => []TypeOK
<1>1. TypeInv => TypeOK
  BY DEF TypeInv, DataOK, CallOK, TypeOK
<1> QED
  BY TypeInvInit, TypeInvNext, <1>1, PTL DEF Spec

-----------------------------------------------------------------------------
(***************************************************************************)
(* The logins. OneActiveConnection is not inductive by itself: a user who  *)
(* is entered in activeUsers was not registered before, and whoever is in  *)
(* that table is registered.                                               *)
(***************************************************************************)
ActiveAreRegistered ==
  \A c \in Connections : activeUsers[c] # Null => users[activeUsers[c]] # Null

LoggedIn ==
  \A c \in Connections :
    connected[c] => /\ session[c] \in [login : Users, passcode : Passcodes]
                    /\ users[session[c].login] = session[c].passcode

LoginInv == ActiveAreRegistered /\ OneActiveConnection /\ LoggedIn

loginVars == <<users, activeUsers, connected, session>>

(* The monitor of users: a password is put only where there is none. *)
LEMMA LoginInvAuthenticate ==
  ASSUME TypeInv, LoginInv, NEW c \in Connections, AuthenticateUser(c)
  PROVE  /\ LoginInv'
         /\ \A u \in Users : users[u] # Null => users'[u] = users[u]
<1> DEFINE user == FrameOf(c).login
           password == FrameOf(c).passcode
           credentials == [login |-> user, passcode |-> password]
<1>1. user \in Users /\ password \in Passcodes
  BY AuthenticateFacts
<1>2. Null \notin Users /\ Null \notin Passcodes
  BY RegistryAssumption
<1>3. /\ users \in [Users -> Passcodes \cup {Null}]
      /\ activeUsers \in [Connections -> Users \cup {Null}]
      /\ connected \in [Connections -> BOOLEAN]
      /\ session \in [Connections -> [login : Users, passcode : Passcodes] \cup {Null}]
  BY DEF TypeInv, DataOK, RegistryTypeOK
<1>4. /\ credentials \in [login : Users, passcode : Passcodes]
      /\ credentials.login = user /\ credentials.passcode = password
  BY <1>1
<1>5. LogIn(c) => /\ connected' = [connected EXCEPT ![c] = TRUE]
                  /\ session' = [session EXCEPT ![c] = credentials]
  BY DEF LogIn
<1>6. \/ /\ users[user] = Null /\ RegisterUser(c, user, password) /\ LogIn(c)
      \/ /\ users[user] = password /\ LogIn(c) /\ UNCHANGED <<users, activeUsers>>
      \/ UNCHANGED loginVars
  BY DEF AuthenticateUser, registryVars, userTables, sessionVars, loginVars
<1> HIDE DEF user, password, credentials
<1>7. CASE users[user] = Null /\ RegisterUser(c, user, password) /\ LogIn(c)
  <2>1. /\ users' = [users EXCEPT ![user] = password]
        /\ activeUsers' = [activeUsers EXCEPT ![c] = user]
    BY <1>7 DEF RegisterUser
  <2>2. /\ users'[user] = password
        /\ \A u \in Users : u # user => users'[u] = users[u]
    BY <1>1, <1>3, <2>1
  <2>3. \A u \in Users : users[u] # Null => users'[u] = users[u]
    BY <1>7, <2>2
  <2>4. \A d \in Connections : activeUsers[d] # user
    BY <1>1, <1>2, <1>7 DEF LoginInv, ActiveAreRegistered
  <2>5. /\ activeUsers'[c] = user
        /\ \A d \in Connections : d # c => activeUsers'[d] = activeUsers[d]
    BY <1>3, <2>1
  <2>6. OneActiveConnection'
    BY <2>4, <2>5 DEF LoginInv, OneActiveConnection
  <2>7. ActiveAreRegistered'
    BY <1>1, <1>2, <1>3, <2>2, <2>3, <2>5 DEF LoginInv, ActiveAreRegistered
  <2>8. LoggedIn'
    <3>1. ASSUME NEW d \in Connections, connected'[d]
          PROVE  /\ session'[d] \in [login : Users, passcode : Passcodes]
                 /\ users'[session'[d].login] = session'[d].passcode
      <4>1. CASE d = c
        BY <1>3, <1>4, <1>5, <1>7, <2>2, <4>1
      <4>2. CASE d # c
        <5>1. connected[d] /\ session'[d] = session[d]
          BY <1>3, <1>5, <1>7, <3>1, <4>2
        <5>2. /\ session[d] \in [login : Users, passcode : Passcodes]
              /\ users[session[d].login] = session[d].passcode
          BY <5>1 DEF LoginInv, LoggedIn
        <5>3. session[d].login \in Users /\ session[d].passcode # Null
          BY <1>2, <5>2
        <5> QED
          BY <2>3, <5>1, <5>2, <5>3
      <4> QED
        BY <4>1, <4>2
    <3> QED
      BY <3>1 DEF LoggedIn
  <2> QED
    BY <2>3, <2>6, <2>7, <2>8 DEF LoginInv
<1>8. CASE users[user] = password /\ LogIn(c) /\ UNCHANGED <<users, activeUsers>>
  <2>1. ActiveAreRegistered' /\ OneActiveConnection'
    BY <1>8 DEF LoginInv, ActiveAreRegistered, OneActiveConnection
  <2>2. ASSUME NEW d \in Connections, connected'[d]
        PROVE  /\ session'[d] \in [login : Users, passcode : Passcodes]
               /\ users[session'[d].login] = session'[d].passcode
    <3>1. CASE d = c
      BY <1>3, <1>4, <1>5, <1>8, <3>1
    <3>2. CASE d # c
      BY <1>3, <1>5, <1>8, <2>2, <3>2 DEF LoginInv, LoggedIn
    <3> QED
      BY <3>1, <3>2
  <2>3. LoggedIn'
    BY <1>8, <2>2 DEF LoggedIn
  <2> QED
    BY <1>8, <2>1, <2>3 DEF LoginInv
<1>9. CASE UNCHANGED loginVars
  BY <1>9 DEF loginVars, LoginInv, ActiveAreRegistered, OneActiveConnection, LoggedIn
<1> QED
  BY <1>6, <1>7, <1>8, <1>9

LEMMA LoginInvRemoveUser ==
  ASSUME TypeInv, LoginInv, NEW p \in Threads, RemoveUser(p)
  PROVE  LoginInv' /\ UNCHANGED users
<1>1. /\ activeUsers \in [Connections -> Users \cup {Null}]
      /\ activeUsers' = [activeUsers EXCEPT ![p[1]] = Null]
      /\ UNCHANGED <<users, connected, session>>
  BY DEF RemoveUser, RemoveActiveUser, OnlyTables, sessionVars, TypeInv,
     DataOK, RegistryTypeOK
<1>2. \A d \in Connections : activeUsers'[d] = Null \/ activeUsers'[d] = activeUsers[d]
  BY <1>1
<1>3. ActiveAreRegistered' /\ OneActiveConnection'
  BY <1>1, <1>2 DEF LoginInv, ActiveAreRegistered, OneActiveConnection
<1>4. LoggedIn'
  BY <1>1 DEF LoginInv, LoggedIn
<1> QED
  BY <1>1, <1>3, <1>4 DEF LoginInv

(* Every other step leaves the logins as they are. *)
LEMMA OtherSteps ==
  ASSUME NEW c \in Connections, NEW f, NEW p,
         \/ Accept \/ Close(c) \/ Receive(c, f)
         \/ WorkerStep(c) /\ ~AuthenticateUser(c)
         \/ DisconnectStep(p) /\ ~RemoveUser(p)
  PROVE  UNCHANGED loginVars
<1> USE DEF loginVars, registryVars, userTables, sessionVars, OnlyTables, OnlyCall
<1>1. CASE Accept
  BY <1>1 DEF Accept, Register
<1>2. CASE Close(c)
  BY <1>2 DEF Close
<1>3. CASE Receive(c, f)
  BY <1>3 DEF Receive, HandleConnect, HandleSubscribe, HandleUnsubscribe, HandleSend,
     HandleDisconnect, HandleUnknown, Process, ProcessAs
<1>4. CASE WorkerStep(c) /\ ~AuthenticateUser(c)
  <2>1. CASE SendError(c) \/ MarkForTermination(c) \/ SendReceiptIfRequested(c)
               \/ CheckUserActive(c) \/ ClearSubscriptions(c)
    BY <2>1 DEF SendError, MarkForTermination, SendReceiptIfRequested,
       CheckUserActive, ClearSubscriptions
  <2>2. CASE PutTopic(c) \/ PutOwnSubscription(c) \/ RemoveOwnSubscription(c)
               \/ RemoveEmptyTopic(c)
    BY <2>2 DEF PutTopic, PutTopicIfAbsent, PutOwnSubscription, PutSubscriber,
       RemoveOwnSubscription, RemoveSubscriber, RemoveEmptyTopic, RemoveTopic
  <2>3. CASE GetTopic(c) \/ GetForRemove(c) \/ GetForEmpty(c) \/ ContainsTopic(c)
               \/ TestEmpty(c) \/ UnsubscribeNext(c)
    BY <2>3 DEF GetTopic, GetForRemove, GetForEmpty, Get, ContainsTopic, TestEmpty,
       UnsubscribeNext
  <2>4. CASE NextMessageId(c) \/ GetSubscribers(c) \/ Advance(c) \/ NextEntry(c)
               \/ EndOfSend(c) \/ Lookup(c) \/ Enqueue(c)
    BY <2>4 DEF NextMessageId, GetNextMessageId, GetSubscribers, Advance, NextEntry,
       EndOfSend, Lookup, Enqueue
  <2> QED
    BY <1>4, <2>1, <2>2, <2>3, <2>4 DEF WorkerStep
<1>5. CASE DisconnectStep(p) /\ ~RemoveUser(p)
  BY <1>5 DEF DisconnectStep, Disconnect, RemoveConnection, EnterMonitor, SweepNext,
     SweepOne, RemoveSubscriber, PutSubscriber, ExitMonitor
<1> QED
  BY <1>1, <1>2, <1>3, <1>4, <1>5

LEMMA LoginInvNext ==
  TypeInv /\ LoginInv /\ [Next]_vars
    => /\ LoginInv'
       /\ \A u \in Users : users[u] # Null => users'[u] = users[u]
<1> SUFFICES ASSUME TypeInv, LoginInv, [Next]_vars
             PROVE  /\ LoginInv'
                    /\ \A u \in Users : users[u] # Null => users'[u] = users[u]
  OBVIOUS
<1>1. CASE UNCHANGED loginVars
  BY <1>1 DEF loginVars, LoginInv, ActiveAreRegistered, OneActiveConnection, LoggedIn
<1>2. ASSUME NEW c \in Connections, AuthenticateUser(c)
      PROVE  /\ LoginInv'
             /\ \A u \in Users : users[u] # Null => users'[u] = users[u]
  BY <1>2, LoginInvAuthenticate
<1>3. ASSUME NEW p \in Threads, RemoveUser(p)
      PROVE  /\ LoginInv'
             /\ \A u \in Users : users[u] # Null => users'[u] = users[u]
  BY <1>3, LoginInvRemoveUser
<1>4. CASE UNCHANGED vars
  BY <1>1, <1>4 DEF vars, registryVars, userTables, sessionVars, loginVars
<1>5. CASE Accept
  <2>1. UNCHANGED loginVars
    BY <1>5 DEF Accept, Register, loginVars, userTables, sessionVars
  <2> QED
    BY <1>1, <2>1
<1>6. ASSUME NEW c \in Connections, NEW f \in Frames[c], Receive(c, f)
      PROVE  UNCHANGED loginVars
  BY <1>6, OtherSteps
<1>7. ASSUME NEW c \in Connections, Close(c) \/ WorkerStep(c)
      PROVE  UNCHANGED loginVars \/ AuthenticateUser(c)
  BY <1>7, OtherSteps
<1>8. ASSUME NEW p \in Threads, DisconnectStep(p)
      PROVE  UNCHANGED loginVars \/ RemoveUser(p)
  BY <1>8, OtherSteps, ThreadHere
<1> QED
  BY <1>1, <1>2, <1>3, <1>4, <1>5, <1>6, <1>7, <1>8 DEF Next

LEMMA LoginInvInit == Init => LoginInv
  BY DEF Init, RegistryInit, NoEntries, LoginInv, ActiveAreRegistered,
     OneActiveConnection, LoggedIn

(***************************************************************************)
(* A name is entered in activeUsers over at most one connection, although  *)
(* isUserActive is asked outside the monitor of authenticateUser.          *)
(***************************************************************************)
THEOREM OneLogin == Spec => []OneActiveConnection
<1>1. LoginInv => OneActiveConnection
  BY DEF LoginInv
<1> QED
  BY TypeInvInit, TypeInvNext, LoginInvInit, LoginInvNext, <1>1, PTL DEF Spec

(***************************************************************************)
(* Whoever is logged in gave the password that is registered, also when    *)
(* two first CONNECTs race for one name.                                   *)
(***************************************************************************)
THEOREM Logins == Spec => []Authenticated
<1>1. LoginInv => Authenticated
  BY ProtocolAssumption DEF LoginInv, LoggedIn, Authenticated
<1> QED
  BY TypeInvInit, TypeInvNext, LoginInvInit, LoginInvNext, <1>1, PTL DEF Spec

(* The password of a registered user is never replaced. *)
THEOREM Passwords == Spec => PasswordKept
<1>1. TypeInv /\ LoginInv /\ [Next]_vars
        => [\A u \in Users : users[u] # Null => users'[u] = users[u]]_vars
  BY LoginInvNext
<1> QED
  BY TypeInvInit, TypeInvNext, LoginInvInit, LoginInvNext, <1>1, PTL
     DEF Spec, PasswordKept
=============================================================================
