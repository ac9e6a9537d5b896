----------------------- MODULE StompMessagingBusProofs -----------------------
(***************************************************************************)
(* The handlers of StompMessagingProtocol implement TopicBus: what a       *)
(* subscriber receives it has asked for, once for each time it asked and   *)
(* in the order of each sender, although a handler walks tables that other *)
(* threads change. Then what these tables hold of a client that left.      *)
(***************************************************************************)
EXTENDS StompMessagingProtocolProofs

SubscribingLabels == {"putTopic", "getTopic", "putSubscriber"}
SendLabels == {"getSubscribers"} \cup WalkLabels
HoldLabels == {"putSubscriber", "removeSubscriber", "isEmpty"} \cup WalkLabels

PlainLabels ==
  Labels \ (SubscribingLabels \cup SendLabels \cup HoldLabels \cup {"nextMessageId"})

Subscription(t, id) == [topic |-> t, id |-> id]

(* Client d asked for topic t, and an entry e says when and under which id. *)
Asked(d, t, e) ==
  e.request \in DOMAIN asked[d] /\ asked[d][e.request] = Subscription(t, e.id)

HasAsked(d, t, id) == \E r \in DOMAIN asked[d] : asked[d][r] = Subscription(t, id)

(***************************************************************************)
(* A handler got its inner map from the table and uses it when the table   *)
(* may have another one by now. A map serves the topic it was made for, to *)
(* the end, and every entry it holds was asked for, for that topic.        *)
(***************************************************************************)
Holds(k, t, m) == k.pc \in HoldLabels /\ k.map = m /\ k.topic = t

Serves(m, t) ==
  topicSubscriptions[t] = m \/ \E p \in Threads : Holds(call[p], t, m)

OneTopic ==
  \A m \in Maps, t, u \in Topics : Serves(m, t) /\ Serves(m, u) => t = u

EntriesAsked ==
  \A m \in Maps, t \in Topics, d \in Connections :
    Serves(m, t) /\ subscribers[m][d] # Null => Asked(d, t, subscribers[m][d])

OwnAsked ==
  \A c \in Connections, id \in SubIds :
    clientSubscriptions[c][id] # Null => HasAsked(c, clientSubscriptions[c][id], id)

(* The nodes of a walk: the one that next() returned, the one found after it *)
Found(k) == {e \in {k.entry, k.next} : e # Null}

(* What a handler is about to enter, to publish or to deliver was asked for. *)
Requested(c, k) ==
  /\ k.pc \in SubscribingLabels
       => Asked(c, k.topic, [id |-> k.frame.id, request |-> Len(asked[c])])
  /\ k.pc = "nextMessageId" => \E id \in SubIds : HasAsked(c, k.topic, id)
  /\ k.pc \in WalkLabels => \A e \in Found(k) : Asked(e.to, k.topic, e)

(* The message a handler carries is the last one of its client. *)
Sending(c, k) ==
  k.pc \in SendLabels =>
    /\ k.messageId \in DOMAIN published
    /\ published[k.messageId] = [topic |-> k.topic, from |-> c]
    /\ \A n \in DOMAIN published : published[n].from = c => n <= k.messageId

(* What d has of message n, it has for a request before request r. *)
Below(n, d, r) ==
  \A i \in DOMAIN inbox[d] : inbox[d][i].msg = n => inbox[d][i].request < r

(* Request r of d comes after those for which the walk has had or found d. *)
Ahead(k, d, r) ==
  /\ Below(k.messageId, d, r)
  /\ \A e \in Found(k) : e.to = d => e.request < r

(***************************************************************************)
(* A walk delivers at most one copy for each request. An iterator may meet *)
(* a subscriber twice, but an entry that it meets again is a newer one:    *)
(* only a put, of a later request, can bring the walk back to its place.   *)
(***************************************************************************)
ToVisit(k) ==
  \A d \in k.todo :
    subscribers[k.map][d] # Null => Ahead(k, d, subscribers[k.map][d].request)

NextIsLater(k) ==
  k.next # Null =>
    /\ Below(k.messageId, k.next.to, k.next.request)
    /\ k.entry # Null /\ k.entry.to = k.next.to => k.entry.request < k.next.request

EntryIsNew(k) ==
  k.pc # "nextEntry" /\ k.entry # Null
    => Below(k.messageId, k.entry.to, k.entry.request)

OnceEach(k) ==
  /\ k.pc \in {"nextMessageId", "getSubscribers"} => Found(k) = {}
  /\ k.pc = "getSubscribers" =>
       \A d \in Connections : \A i \in DOMAIN inbox[d] : inbox[d][i].msg # k.messageId
  /\ k.pc \in WalkLabels => ToVisit(k) /\ NextIsLater(k) /\ EntryIsNew(k)

Carries(c, k) == Requested(c, k) /\ Sending(c, k) /\ OnceEach(k)

(* The request that the next entry of d is put for: those of the entries that *)
(* are anywhere now came before it.                                           *)
Request(d) ==
  IF call[Worker(d)].pc \in SubscribingLabels THEN Len(asked[d]) ELSE Len(asked[d]) + 1

Before(e) == e.request < Request(e.to)

Earlier ==
  /\ \A d \in Connections, m \in Maps :
       subscribers[m][d] # Null => Before(Node(d, subscribers[m][d]))
  /\ \A d \in Connections : \A i \in DOMAIN inbox[d] : inbox[d][i].request < Request(d)

FoundBefore(k) == k.pc \in WalkLabels => \A e \in Found(k) : Before(e)

Numbered ==
  /\ messageCounter = Len(published)
  /\ \A d \in Connections :
       \A i \in DOMAIN inbox[d] : inbox[d][i].msg \in DOMAIN published

BusInv ==
  /\ Numbered
  /\ OwnAsked
  /\ OneTopic
  /\ EntriesAsked
  /\ Earlier
  /\ \A c \in Connections : Carries(c, call[Worker(c)]) /\ FoundBefore(call[Worker(c)])

-----------------------------------------------------------------------------
(* What a step can do to the tables *)

(* Only thread p moves. *)
Moves(p) == \A q \in Threads : q # p => call'[q] = call[q]

SubscribersShrink ==
  \A m \in Maps, d \in Connections : subscribers'[m][d] \in {Null, subscribers[m][d]}

OwnShrink ==
  \A c \in Connections, id \in SubIds :
    clientSubscriptions'[c][id] \in {Null, clientSubscriptions[c][id]}

TopicsShrink ==
  \A t \in Topics : topicSubscriptions'[t] \in {Null, topicSubscriptions[t]}

Shrinks == SubscribersShrink /\ OwnShrink /\ TopicsShrink

Quiet(p) ==
  /\ Moves(p)
  /\ UNCHANGED <<asked, published, inbox, messageCounter>>
  /\ Shrinks

Plain(p) == Quiet(p) /\ call'[p].pc \in PlainLabels

AskedGrow ==
  \A d \in Connections : \A r \in DOMAIN asked[d] :
    r \in DOMAIN asked'[d] /\ asked'[d][r] = asked[d][r]

RequestsGrow ==
  \A d \in Connections :
    /\ Request(d) \in Nat /\ Request(d)' \in Nat
    /\ Request(d) <= Request(d)'

(* A thread whose locals are k does not begin to subscribe with locals l. *)
Begins(k, l) == l.pc \in SubscribingLabels /\ k.pc \notin SubscribingLabels

LEMMA NodeFacts ==
  ASSUME NEW k \in Calls
  PROVE  /\ \A e \in Found(k) : /\ e \in Nodes /\ e.to \in Connections
                              /\ e.id \in SubIds /\ e.request \in Nat
         /\ k.entry # Null => k.entry \in Found(k)
         /\ k.next # Null => k.next \in Found(k)
<1>1. k.entry \in Nodes \cup {Null} /\ k.next \in Nodes \cup {Null}
  BY DEF Calls
<1>2. \A e \in Nodes : e.to \in Connections /\ e.id \in SubIds /\ e.request \in Nat
  BY DEF Nodes
<1> QED
  BY <1>1, <1>2 DEF Found

(* The tables as the types give them *)
LEMMA TableFacts ==
  ASSUME TypeInv
  PROVE  /\ call \in [Threads -> Calls]
         /\ topicSubscriptions \in [Topics -> Maps \cup {Null}]
         /\ subscribers \in [Maps -> [Connections -> Entries \cup {Null}]]
         /\ clientSubscriptions \in [Connections -> [SubIds -> Topics \cup {Null}]]
         /\ asked \in [Connections -> Seq([topic : Topics, id : SubIds])]
         /\ published \in Seq([topic : Topics, from : Connections])
         /\ inbox \in [Connections ->
                Seq([msg : Nat, topic : Topics, id : SubIds, request : Nat])]
         /\ messageCounter \in Nat
  BY DEF TypeInv, CallOK, DataOK, RegistryTypeOK

LEMMA EntryFacts ==
  ASSUME TypeInv, NEW m \in Maps, NEW d \in Connections, subscribers[m][d] # Null
  PROVE  /\ subscribers[m][d] \in Entries /\ subscribers[m][d].request \in Nat
         /\ subscribers[m][d].id \in SubIds
         /\ Node(d, subscribers[m][d]) \in Nodes
         /\ Node(d, subscribers[m][d]).to = d
         /\ Node(d, subscribers[m][d]).id = subscribers[m][d].id
         /\ Node(d, subscribers[m][d]).request = subscribers[m][d].request
<1>1. subscribers[m][d] \in Entries
  BY TableFacts
<1> QED
  BY <1>1 DEF Entries, Node, Nodes

LEMMA InboxFacts ==
  ASSUME TypeInv, NEW d \in Connections, NEW i \in DOMAIN inbox[d]
  PROVE  inbox[d][i].msg \in Nat /\ inbox[d][i].request \in Nat
<1>1. inbox[d] \in Seq([msg : Nat, topic : Topics, id : SubIds, request : Nat])
  BY TableFacts
<1>2. inbox[d][i] \in [msg : Nat, topic : Topics, id : SubIds, request : Nat]
  BY <1>1, ElementOfSeq, LenProperties
<1> QED
  BY <1>2

(* The number of the next request stays while nobody asks or begins to subscribe. *)
LEMMA RequestsKept ==
  ASSUME TypeInv, TypeInv', UNCHANGED asked,
         \A d \in Connections : ~Begins(call[Worker(d)], call'[Worker(d)])
  PROVE  RequestsGrow
<1> SUFFICES ASSUME NEW d \in Connections
             PROVE  /\ Request(d) \in Nat /\ Request(d)' \in Nat
                    /\ Request(d) <= Request(d)'
  BY DEF RequestsGrow
<1>1. Len(asked[d]) \in Nat /\ asked'[d] = asked[d]
  BY TableFacts, LenProperties
<1>2. ~Begins(call[Worker(d)], call'[Worker(d)])
  OBVIOUS
<1> QED
  BY <1>1, <1>2 DEF Request, Begins

LEMMA EarlierKept ==
  ASSUME TypeInv, Earlier, SubscribersShrink, UNCHANGED inbox, RequestsGrow
  PROVE  Earlier'
<1>1. ASSUME NEW d \in Connections, NEW m \in Maps, subscribers'[m][d] # Null
      PROVE  Before(Node(d, subscribers[m][d]))'
  <2>1. subscribers'[m][d] = subscribers[m][d] /\ subscribers[m][d] # Null
    BY <1>1 DEF SubscribersShrink
  <2>2. PICK e : e = Node(d, subscribers[m][d])
    OBVIOUS
  <2>3. e.request \in Nat /\ e.to = d /\ e.request < Request(d)
    BY <2>1, <2>2, EntryFacts DEF Earlier, Before
  <2>4. e.request < Request(d)'
    BY <2>3 DEF RequestsGrow
  <2> QED
    BY <2>1, <2>2, <2>3, <2>4 DEF Before, Node
<1>2. ASSUME NEW d \in Connections, NEW i \in DOMAIN inbox[d]
      PROVE  inbox[d][i].request < Request(d)'
  <2>1. inbox[d][i].request \in Nat /\ inbox[d][i].request < Request(d)
    BY InboxFacts DEF Earlier
  <2> QED
    BY <2>1 DEF RequestsGrow
<1> QED
  BY <1>1, <1>2 DEF Earlier

(* A map that serves a topic after the step served it before. *)
LEMMA MapsKept ==
  ASSUME BusInv, \A m \in Maps, t \in Topics : Serves(m, t)' => Serves(m, t),
         SubscribersShrink, AskedGrow
  PROVE  OneTopic' /\ EntriesAsked'
<1>1. OneTopic'
  BY DEF BusInv, OneTopic
<1>2. EntriesAsked'
  <2> SUFFICES ASSUME NEW m \in Maps, NEW t \in Topics, NEW d \in Connections,
                      Serves(m, t)', subscribers'[m][d] # Null
               PROVE  Asked(d, t, subscribers[m][d])'
    BY DEF EntriesAsked, Asked, Subscription
  <2>1. subscribers'[m][d] = subscribers[m][d] /\ subscribers[m][d] # Null
    BY DEF SubscribersShrink
  <2>2. Asked(d, t, subscribers[m][d])
    BY <2>1 DEF BusInv, EntriesAsked
  <2> QED
    BY <2>1, <2>2 DEF Asked, AskedGrow, Subscription
<1> QED
  BY <1>1, <1>2

(* What the walk of one thread is to do, while others ask and remove *)
LEMMA OnceEachKept ==
  ASSUME NEW k, OnceEach(k), UNCHANGED inbox, SubscribersShrink, LocalOK(k)
  PROVE  OnceEach(k)'
<1>1. \A n, d, r : Below(n, d, r)' <=> Below(n, d, r)
  BY DEF Below
<1>2. \A d, r : Ahead(k, d, r)' <=> Ahead(k, d, r)
  BY <1>1 DEF Ahead, Found
<1>3. ASSUME k.pc \in WalkLabels, ToVisit(k) PROVE ToVisit(k)'
  <2>1. k.map \in Maps /\ k.todo \subseteq Connections
    BY <1>3 DEF LocalOK, MapLabels, WalkLabels
  <2>2. \A d \in k.todo : subscribers'[k.map][d] \in {Null, subscribers[k.map][d]}
    BY <2>1 DEF SubscribersShrink
  <2> QED
    BY <1>2, <1>3, <2>2 DEF ToVisit
<1>4. NextIsLater(k) => NextIsLater(k)'
  BY <1>1 DEF NextIsLater
<1>5. EntryIsNew(k) => EntryIsNew(k)'
  BY <1>1 DEF EntryIsNew
<1> QED
  BY <1>3, <1>4, <1>5 DEF OnceEach, Found

LEMMA FoundKept ==
  ASSUME NEW k \in Calls, FoundBefore(k), RequestsGrow
  PROVE  FoundBefore(k)'
<1> SUFFICES ASSUME k.pc \in WalkLabels, NEW e \in Found(k)
             PROVE  e.request < Request(e.to)'
  BY DEF FoundBefore, Before, Found
<1>1. e.to \in Connections /\ e.request \in Nat
  BY NodeFacts
<1>2. e.request < Request(e.to)
  BY DEF FoundBefore, Before
<1> QED
  BY <1>1, <1>2 DEF RequestsGrow

LEMMA RequestedKept ==
  ASSUME NEW c \in Connections, NEW k \in Calls, Requested(c, k),
         AskedGrow, asked'[c] = asked[c]
  PROVE  Requested(c, k)'
<1>1. ASSUME NEW d \in Connections, NEW t, NEW e, Asked(d, t, e)
      PROVE  Asked(d, t, e)'
  BY <1>1 DEF Asked, AskedGrow, Subscription
<1>2. \A e \in Found(k) : e.to \in Connections
  BY NodeFacts
<1>3. ASSUME NEW t, NEW id, HasAsked(c, t, id) PROVE HasAsked(c, t, id)'
  BY <1>3 DEF HasAsked, AskedGrow, Subscription
<1>4. k.pc \in SubscribingLabels
        => Asked(c, k.topic, [id |-> k.frame.id, request |-> Len(asked[c])])'
  BY <1>1 DEF Requested
<1>5. k.pc = "nextMessageId" => \E id \in SubIds : HasAsked(c, k.topic, id)'
  BY <1>3 DEF Requested
<1>6. k.pc \in WalkLabels => \A e \in Found(k) : Asked(e.to, k.topic, e)'
  BY <1>1, <1>2 DEF Requested
<1> QED
  BY <1>4, <1>5, <1>6 DEF Requested, Found

LEMMA CarriesKept ==
  ASSUME NEW c \in Connections, NEW k \in Calls, Carries(c, k), FoundBefore(k),
         LocalOK(k), UNCHANGED <<published, inbox>>, SubscribersShrink, RequestsGrow,
         AskedGrow, asked'[c] = asked[c], call'[Worker(c)] = k
  PROVE  (Carries(c, call[Worker(c)]) /\ FoundBefore(call[Worker(c)]))'
<1>1. Requested(c, k)' /\ OnceEach(k)' /\ FoundBefore(k)'
  BY RequestedKept, OnceEachKept, FoundKept DEF Carries
<1>2. Sending(c, k)'
  BY DEF Carries, Sending
<1> QED
  BY <1>1, <1>2 DEF Carries, Requested, Sending, OnceEach, FoundBefore, Asked, Found,
     ToVisit, NextIsLater, EntryIsNew, Ahead

LEMMA PlainCarries ==
  ASSUME NEW c, NEW k, k.pc \in PlainLabels
  PROVE  Carries(c, k) /\ FoundBefore(k)
  BY DEF PlainLabels, Carries, FoundBefore, Requested, Sending, OnceEach,
     SubscribingLabels, SendLabels, WalkLabels

(* A step that only moves one thread, to where its locals are all right *)
LEMMA BusQuiet ==
  ASSUME TypeInv, TypeInv', BusInv, NEW p \in Threads, Quiet(p),
         NEW k, call'[p] = k, ~Begins(call[p], k),
         \A m \in Maps, t \in Topics : Holds(k, t, m) => Serves(m, t),
         \A c \in Connections : p = Worker(c) => Carries(c, k) /\ FoundBefore(k)
  PROVE  BusInv'
<1>1. \A m \in Maps, t \in Topics : Serves(m, t)' => Serves(m, t)
  BY RegistryAssumption DEF Quiet, Moves, Shrinks, TopicsShrink, Serves, Holds
<1>2. AskedGrow /\ UNCHANGED asked
  BY DEF Quiet, AskedGrow
<1>3. OneTopic' /\ EntriesAsked'
  BY <1>1, <1>2, MapsKept DEF Quiet, Shrinks
<1>4. Numbered'
  BY DEF BusInv, Numbered, Quiet
<1>5. OwnAsked'
  BY DEF BusInv, OwnAsked, HasAsked, Quiet, Shrinks, OwnShrink
<1>6. \A c \in Connections : ~Begins(call[Worker(c)], call'[Worker(c)])
  BY ThreadFacts DEF Quiet, Moves, Begins
<1>7. RequestsGrow
  BY <1>2, <1>6, RequestsKept
<1>8. Earlier'
  BY <1>7, EarlierKept DEF BusInv, Quiet, Shrinks
<1>9. ASSUME NEW c \in Connections
      PROVE  (Carries(c, call[Worker(c)]) /\ FoundBefore(call[Worker(c)]))'
  <2>1. call'[Worker(c)] \in Calls /\ LocalOK(call'[Worker(c)])
    BY ThreadFacts DEF TypeInv, CallOK
  <2>2. Carries(c, call'[Worker(c)]) /\ FoundBefore(call'[Worker(c)])
    BY ThreadFacts DEF BusInv, Quiet, Moves
  <2>3. UNCHANGED <<published, inbox>> /\ SubscribersShrink
    BY DEF Quiet, Shrinks
  <2> QED
    BY <1>2, <1>7, <2>1, <2>2, <2>3, CarriesKept
<1> QED
  BY <1>3, <1>4, <1>5, <1>8, <1>9 DEF BusInv

LEMMA BusPlain ==
  ASSUME TypeInv, TypeInv', BusInv, NEW p \in Threads, Plain(p)
  PROVE  BusInv'
<1>1. PICK k : call'[p] = k
  OBVIOUS
<1>2. \A m \in Maps, t \in Topics : ~Holds(k, t, m)
  BY <1>1 DEF Plain, PlainLabels, Holds
<1>3. \A c \in Connections : Carries(c, k) /\ FoundBefore(k)
  BY <1>1, PlainCarries DEF Plain
<1>4. ~Begins(call[p], k)
  BY <1>1 DEF Plain, PlainLabels, Begins
<1> QED
  BY <1>1, <1>2, <1>3, <1>4, BusQuiet DEF Plain

(* Thread p goes to a label, or returns; its locals may change on the way. *)
LEMMA Gone ==
  ASSUME TypeInv, NEW p \in Threads, NEW k, call' = [call EXCEPT ![p] = k]
  PROVE  Moves(p) /\ call'[p] = k
  BY TableFacts DEF Moves

LEMMA PlainFacts ==
  /\ {"idle", "sendError", "terminate", "receipt", "isUserActive", "authenticate",
      "unsubscribeAll", "containsTopic", "getForRemove", "getForEmpty", "removeTopic",
      "disconnect", "enter", "sweep", "sweepOne", "removeUser", "closed"}
       \subseteq PlainLabels
  /\ Idle.pc = "idle"
  BY DEF Idle, PlainLabels, Labels, SubscribingLabels, SendLabels, HoldLabels,
     WalkLabels

LEMMA PlainGoto ==
  ASSUME TypeInv, NEW p \in Threads, NEW label, Goto(p, label)
  PROVE  Moves(p) /\ call'[p] = [call[p] EXCEPT !.pc = label] /\ call'[p].pc = label
<1>1. call[p] \in Calls
  BY TableFacts
<1>2. call' = [call EXCEPT ![p] = [call[p] EXCEPT !.pc = label]]
  BY DEF Goto
<1>3. Moves(p) /\ call'[p] = [call[p] EXCEPT !.pc = label]
  <2> DEFINE k == [call[p] EXCEPT !.pc = label]
  <2>1. call' = [call EXCEPT ![p] = k]
    BY <1>2
  <2> HIDE DEF k
  <2>2. Moves(p) /\ call'[p] = k
    BY <2>1, Gone
  <2> QED
    BY <2>2 DEF k
<1> QED
  BY <1>1, <1>3 DEF Calls

LEMMA PlainReturn ==
  ASSUME TypeInv, NEW p \in Threads, Return(p)
  PROVE  Moves(p) /\ call'[p].pc \in PlainLabels
  BY Gone, PlainFacts DEF Return

(* The frame of c is taken and the worker goes to label. *)
LEMMA PlainProcess ==
  ASSUME TypeInv, NEW c \in Connections, NEW f, NEW label, NEW topic, NEW todo,
         ProcessAs(c, f, label, topic, todo)
  PROVE  /\ Moves(Worker(c))
         /\ call'[Worker(c)] = [Idle EXCEPT !.pc = label, !.frame = f,
                                            !.topic = topic, !.todo = todo]
         /\ call'[Worker(c)].pc = label /\ call'[Worker(c)].frame = f
         /\ call'[Worker(c)].topic = topic
         /\ call'[Worker(c)].entry = Null /\ call'[Worker(c)].next = Null
         /\ UNCHANGED <<registryVars, published, inbox>>
<1> DEFINE k == [Idle EXCEPT !.pc = label, !.frame = f, !.topic = topic, !.todo = todo]
<1>1. call' = [call EXCEPT ![Worker(c)] = k]
  BY DEF ProcessAs
<1>2. /\ k.pc = label /\ k.frame = f /\ k.topic = topic
      /\ k.entry = Null /\ k.next = Null
  BY DEF Idle
<1>3. UNCHANGED <<registryVars, published, inbox>>
  BY DEF ProcessAs
<1>4. Moves(Worker(c)) /\ call'[Worker(c)] = k
  <2> HIDE DEF k
  <2> QED
    BY <1>1, Gone, ThreadFacts
<1> QED
  BY <1>2, <1>3, <1>4

(* Where it goes, and with what. *)
LEMMA ProcessGoes ==
  ASSUME TypeInv, NEW c \in Connections, NEW f, NEW label, NEW topic, NEW todo,
         ProcessAs(c, f, label, topic, todo)
  PROVE  /\ call'[Worker(c)].pc = label /\ call'[Worker(c)].frame = f
         /\ call'[Worker(c)].topic = topic
<1> DEFINE k == [Idle EXCEPT !.pc = label, !.frame = f, !.topic = topic, !.todo = todo]
<1>1. call' = [call EXCEPT ![Worker(c)] = k]
  BY DEF ProcessAs
<1>2. k.pc = label /\ k.frame = f /\ k.topic = topic
  BY DEF Idle
<1> HIDE DEF k
<1> QED
  BY <1>1, <1>2, Gone, ThreadFacts

LEMMA NoShrink ==
  ASSUME UNCHANGED <<topicTables, clientSubscriptions>>
  PROVE  Shrinks
  BY DEF Shrinks, SubscribersShrink, OwnShrink, TopicsShrink, topicTables

LEMMA QuietCall ==
  ASSUME OnlyCall, NEW p \in Threads, Moves(p)
  PROVE  Quiet(p)
  BY NoShrink DEF Quiet, OnlyCall, OnlyTables, registryVars, sessionVars, messageVars

(* The handlers that only answer, or look at the logins *)
LEMMA AnswersPlain ==
  ASSUME TypeInv, NEW c \in Connections,
         \/ SendError(c) \/ MarkForTermination(c) \/ SendReceiptIfRequested(c)
         \/ CheckUserActive(c) \/ AuthenticateUser(c)
  PROVE  Plain(Worker(c))
<1>1. /\ Moves(Worker(c)) /\ call'[Worker(c)].pc \in PlainLabels
  <2>1. \/ \E label \in PlainLabels : Goto(Worker(c), label)
        \/ Return(Worker(c))
    BY DEF SendError, MarkForTermination, SendReceiptIfRequested, CheckUserActive,
       AuthenticateUser, LogIn, PlainLabels, Labels,
       SubscribingLabels, SendLabels, HoldLabels, WalkLabels
  <2> QED
    BY <2>1, PlainGoto, PlainReturn, ThreadFacts
<1>2. UNCHANGED <<topicTables, clientSubscriptions, asked, published, inbox,
                  messageCounter>>
  BY DEF SendError, MarkForTermination, SendReceiptIfRequested, CheckUserActive,
     AuthenticateUser, LogIn, RegisterUser, OnlyCall, OnlyTables, registryVars,
     sessionVars, messageVars
<1> QED
  BY <1>1, <1>2, NoShrink DEF Plain, Quiet

(* The steps of UNSUBSCRIBE and of the loop of DISCONNECT *)
LEMMA UnsubscribePlain ==
  ASSUME TypeInv, NEW c \in Connections,
         \/ UnsubscribeNext(c) \/ ClearSubscriptions(c) \/ ContainsTopic(c)
         \/ RemoveOwnSubscription(c) \/ TestEmpty(c) \/ RemoveEmptyTopic(c)
  PROVE  Plain(Worker(c))
<1>1. /\ Worker(c) \in Threads /\ call[Worker(c)] \in Calls
  BY Here
<1>2. ASSUME Removed(c)
      PROVE  Moves(Worker(c)) /\ call'[Worker(c)].pc \in PlainLabels
  <2> DEFINE label == IF FrameOf(c).command = "DISCONNECT" THEN "unsubscribeAll"
                                                           ELSE "receipt"
             k == [call[Worker(c)] EXCEPT !.map = Null, !.pc = label]
  <2>1. call' = [call EXCEPT ![Worker(c)] = k]
    BY <1>2 DEF Removed
  <2>2. label \in PlainLabels
    BY PlainFacts
  <2> HIDE DEF label
  <2>3. k.pc = label
    BY <1>1 DEF Calls
  <2> HIDE DEF k
  <2> QED
    BY <1>1, <2>1, <2>2, <2>3, Gone
<1>3. CASE UnsubscribeNext(c)
  <2>1. Moves(Worker(c)) /\ call'[Worker(c)].pc \in PlainLabels
    <3>1. PICK id : call' = [call EXCEPT
              ![Worker(c)] = [call[Worker(c)] EXCEPT !.todo = @ \ {id},
                               !.topic = clientSubscriptions[c][id],
                               !.pc = "containsTopic"]]
      BY <1>1, <1>3, TableFacts DEF UnsubscribeNext
    <3> DEFINE k == [call[Worker(c)] EXCEPT !.todo = @ \ {id},
                      !.topic = clientSubscriptions[c][id], !.pc = "containsTopic"]
    <3>2. k.pc = "containsTopic"
      BY <1>1 DEF Calls
    <3>3. call' = [call EXCEPT ![Worker(c)] = k]
      BY <3>1
    <3> HIDE DEF k
    <3> QED
      BY <1>1, <3>2, <3>3, Gone, PlainFacts
  <2> QED
    BY <1>1, <1>3, <2>1, QuietCall DEF Plain, UnsubscribeNext
<1>4. CASE ClearSubscriptions(c)
  <2>1. OwnShrink
    BY <1>4, TableFacts DEF ClearSubscriptions, OwnShrink
  <2>2. Shrinks
    BY <1>4, <2>1 DEF ClearSubscriptions, Shrinks, SubscribersShrink, TopicsShrink,
       registryVars, topicTables
  <2> QED
    BY <1>1, <1>4, <2>2, PlainGoto, PlainFacts DEF ClearSubscriptions, Plain, Quiet, registryVars,
       messageVars
<1>5. CASE ContainsTopic(c)
  <2>1. Moves(Worker(c)) /\ call'[Worker(c)].pc \in PlainLabels
    BY <1>1, <1>2, <1>5, PlainGoto, PlainFacts DEF ContainsTopic
  <2> QED
    BY <1>1, <1>5, <2>1, QuietCall DEF Plain, ContainsTopic
<1>6. CASE RemoveOwnSubscription(c)
  <2>1. Moves(Worker(c)) /\ call'[Worker(c)].pc \in PlainLabels
    BY <1>1, <1>6, TableFacts, PlainFacts DEF RemoveOwnSubscription, Moves, Calls
  <2>2. SubscribersShrink
    BY <1>6, TableFacts DEF RemoveOwnSubscription, RemoveSubscriber, PutSubscriber,
       SubscribersShrink
  <2> QED
    BY <1>6, <2>1, <2>2 DEF RemoveOwnSubscription, RemoveSubscriber, PutSubscriber,
       Plain, Quiet, Shrinks, OwnShrink, TopicsShrink, OnlyTables, sessionVars,
       messageVars
<1>7. CASE TestEmpty(c)
  <2>1. Moves(Worker(c)) /\ call'[Worker(c)].pc \in PlainLabels
    BY <1>1, <1>2, <1>7, TableFacts, PlainFacts DEF TestEmpty, Moves, Calls
  <2> QED
    BY <1>1, <1>7, <2>1, QuietCall DEF Plain, TestEmpty
<1>8. CASE RemoveEmptyTopic(c)
  <2>1. TopicsShrink
    BY <1>8, TableFacts DEF RemoveEmptyTopic, RemoveTopic, TopicsShrink
  <2> QED
    BY <1>2, <1>8, <2>1 DEF RemoveEmptyTopic, RemoveTopic,
       Plain, Quiet, Shrinks, OwnShrink, SubscribersShrink, OnlyTables, sessionVars,
       messageVars
<1> QED
  BY <1>3, <1>4, <1>5, <1>6, <1>7, <1>8

LEMMA DisconnectPlain ==
  ASSUME TypeInv, NEW p \in Threads, DisconnectStep(p)
  PROVE  Plain(p)
<1>1. call[p] \in Calls
  BY ThreadHere
<1>2. CASE SweepOne(p)
  <2>1. Moves(p) /\ call'[p].pc \in PlainLabels
    BY <1>1, <1>2, TableFacts, PlainFacts DEF SweepOne, Moves, Calls
  <2>2. SubscribersShrink
    BY <1>2, TableFacts DEF SweepOne, RemoveSubscriber, PutSubscriber, SubscribersShrink
  <2> QED
    BY <1>2, <2>1, <2>2 DEF SweepOne, RemoveSubscriber, PutSubscriber,
       Plain, Quiet, Shrinks, OwnShrink, TopicsShrink, OnlyTables, sessionVars,
       messageVars
<1>3. CASE Disconnect(p) \/ ExitMonitor(p) \/ RemoveUser(p)
  <2>1. Moves(p) /\ call'[p].pc \in PlainLabels
    BY <1>3, PlainGoto, PlainReturn, PlainFacts, ZenonT(40) DEF Disconnect, ExitMonitor, RemoveUser
  <2>2. UNCHANGED <<topicTables, clientSubscriptions, asked, published, inbox,
                    messageCounter>>
    BY <1>3 DEF Disconnect, ExitMonitor, RemoveUser, RemoveConnection,
       RemoveActiveUser, OnlyTables, registryVars, sessionVars, messageVars
  <2> QED
    BY <2>1, <2>2, NoShrink DEF Plain, Quiet
<1>4. CASE EnterMonitor(p) \/ SweepNext(p)
  <2>1. Moves(p) /\ call'[p].pc \in PlainLabels
    <3>1. CASE EnterMonitor(p)
      BY <1>1, <3>1, TableFacts, PlainFacts DEF EnterMonitor, Moves, Calls
    <3>2. CASE SweepNext(p)
      <4>1. PICK t : call' = [call EXCEPT ![p] = [call[p] EXCEPT !.todo = @ \ {t},
                !.map = topicSubscriptions[t],
                !.pc = IF topicSubscriptions[t] = Null THEN "sweep" ELSE "sweepOne"]]
        BY <3>2, TableFacts DEF SweepNext
      <4> DEFINE k == [call[p] EXCEPT !.todo = @ \ {t}, !.map = topicSubscriptions[t],
                !.pc = IF topicSubscriptions[t] = Null THEN "sweep" ELSE "sweepOne"]
      <4>2. k.pc \in {"sweep", "sweepOne"}
        BY <1>1 DEF Calls
      <4>3. call' = [call EXCEPT ![p] = k]
        BY <4>1
      <4> HIDE DEF k
      <4> QED
        BY <4>2, <4>3, Gone, PlainFacts
    <3> QED
      BY <1>4, <3>1, <3>2
  <2>2. UNCHANGED <<topicTables, clientSubscriptions, asked, published, inbox,
                    messageCounter>>
    BY <1>4 DEF EnterMonitor, SweepNext, OnlyCall, OnlyTables, registryVars,
       sessionVars, messageVars
  <2> QED
    BY <2>1, <2>2, NoShrink DEF Plain, Quiet
<1> QED
  BY <1>2, <1>3, <1>4 DEF DisconnectStep

-----------------------------------------------------------------------------
(* The transport and the handlers up to their first access to a table *)

(* Nothing of what the bus is about changes. *)
LEMMA BusSame ==
  ASSUME BusInv,
         UNCHANGED <<asked, published, inbox, messageCounter, topicSubscriptions,
                     subscribers, clientSubscriptions, call>>
  PROVE  BusInv'
<1>1. ASSUME NEW c \in Connections
      PROVE  (Carries(c, call[Worker(c)]) /\ FoundBefore(call[Worker(c)]))'
  <2>1. PICK k : k = call[Worker(c)]
    OBVIOUS
  <2>2. Carries(c, k) /\ FoundBefore(k) /\ call'[Worker(c)] = k
    BY <2>1 DEF BusInv
  <2>3. Requested(c, k)' /\ Sending(c, k)' /\ FoundBefore(k)'
    BY <2>2 DEF Carries, Requested, Sending, Asked, HasAsked, FoundBefore, Before,
       Request, Found
  <2>4. OnceEach(k)'
    BY <2>2 DEF Carries, OnceEach, ToVisit, NextIsLater, EntryIsNew, Ahead, Below, Found
  <2> QED
    BY <2>2, <2>3, <2>4 DEF Carries, Requested, Sending, OnceEach, Asked, HasAsked,
       ToVisit, NextIsLater, EntryIsNew, Ahead, Below, Found, FoundBefore, Before, Request
<1>2. Earlier'
  BY DEF BusInv, Earlier, Before, Request
<1>3. Numbered' /\ OwnAsked'
  BY DEF BusInv, Numbered, OwnAsked, HasAsked
<1>4. OneTopic' /\ EntriesAsked'
  BY DEF BusInv, OneTopic, EntriesAsked, Serves, Asked
<1> QED
  BY <1>1, <1>2, <1>3, <1>4 DEF BusInv

LEMMA BusAccept ==
  ASSUME BusInv, Accept
  PROVE  BusInv'
  BY BusSame DEF Accept, Register, topicTables, sessionVars, messageVars

LEMMA ClosePlain ==
  ASSUME TypeInv, NEW c \in Connections, Close(c)
  PROVE  Plain(Closer(c))
<1>1. Moves(Closer(c)) /\ call'[Closer(c)].pc \in PlainLabels
  <2>1. Goto(Closer(c), "disconnect") /\ Closer(c) \in Threads
    BY ThreadFacts DEF Close
  <2>2. Moves(Closer(c)) /\ call'[Closer(c)].pc = "disconnect"
    BY <2>1, PlainGoto
  <2> QED
    BY <2>2, PlainFacts
<1> QED
  BY <1>1, NoShrink DEF Close, Plain, Quiet, registryVars, sessionVars, messageVars

LEMMA ProcessPlain ==
  ASSUME TypeInv, NEW c \in Connections, NEW f, NEW label, NEW topic, NEW todo,
         ProcessAs(c, f, label, topic, todo), OwnShrink, UNCHANGED asked,
         label \in {"sendError", "isUserActive", "containsTopic", "unsubscribeAll"}
  PROVE  Plain(Worker(c))
<1>1. /\ Moves(Worker(c)) /\ call'[Worker(c)].pc = label
      /\ UNCHANGED <<registryVars, published, inbox>>
  BY PlainProcess
<1>2. Shrinks
  BY <1>1 DEF Shrinks, SubscribersShrink, TopicsShrink, registryVars, topicTables
<1>3. label \in PlainLabels
  BY PlainFacts
<1> QED
  BY <1>1, <1>2, <1>3 DEF Plain, Quiet, registryVars

LEMMA ReceivePlain ==
  ASSUME TypeInv, NEW c \in Connections, NEW f,
         \/ HandleConnect(c, f) \/ HandleUnknown(c, f)
         \/ HandleUnsubscribe(c, f) \/ HandleDisconnect(c, f)
  PROVE  Plain(Worker(c))
<1>1. PICK label, topic, todo :
        /\ label \in {"sendError", "isUserActive", "containsTopic", "unsubscribeAll"}
        /\ ProcessAs(c, f, label, topic, todo)
  BY DEF HandleConnect, HandleUnknown, HandleUnsubscribe, HandleDisconnect, Process
<1>2. UNCHANGED asked
  BY DEF HandleConnect, HandleUnknown, HandleUnsubscribe, HandleDisconnect
<1>3. OwnShrink
  <2>1. CASE UNCHANGED clientSubscriptions
    BY <2>1 DEF OwnShrink
  <2>2. CASE clientSubscriptions' = [clientSubscriptions EXCEPT ![c][f.id] = Null]
    BY <2>2, TableFacts DEF OwnShrink
  <2> QED
    BY <2>1, <2>2 DEF HandleConnect, HandleUnknown, HandleUnsubscribe,
       HandleDisconnect, sessionVars
<1> QED
  BY <1>1, <1>2, <1>3, ProcessPlain

(* SEND: the client has the topic, so it asked for it. *)
LEMMA BusHandleSend ==
  ASSUME TypeInv, TypeInv', BusInv, NEW c \in Connections, NEW f \in FrameType,
         HandleSend(c, f)
  PROVE  BusInv'
<1>1. UNCHANGED <<asked, clientSubscriptions>>
  BY DEF HandleSend, sessionVars
<1>2. CASE Process(c, f, "sendError")
  <2>1. OwnShrink
    BY <1>1 DEF OwnShrink
  <2>2. Plain(Worker(c))
    BY <1>1, <1>2, <2>1, ProcessPlain DEF Process
  <2> QED
    BY <2>2, BusPlain, ThreadFacts
<1>3. CASE /\ SubscribedTo(c, f.destination) /\ f.destination # Null
           /\ ProcessAs(c, f, "nextMessageId", f.destination, {})
  <2>1. PICK k : call'[Worker(c)] = k
    OBVIOUS
  <2>2. /\ k.pc = "nextMessageId" /\ k.topic = f.destination /\ Quiet(Worker(c))
        /\ k.entry = Null /\ k.next = Null
    <3>0. ProcessAs(c, f, "nextMessageId", f.destination, {})
      BY <1>3
    <3>1. /\ Moves(Worker(c))
          /\ call'[Worker(c)] = [Idle EXCEPT !.pc = "nextMessageId", !.frame = f,
                                   !.topic = f.destination, !.todo = {}]
          /\ call'[Worker(c)].pc = "nextMessageId" /\ call'[Worker(c)].frame = f
          /\ call'[Worker(c)].topic = f.destination
          /\ call'[Worker(c)].entry = Null /\ call'[Worker(c)].next = Null
          /\ UNCHANGED <<registryVars, published, inbox>>
      BY <3>0, PlainProcess, Zenon
    <3>2. UNCHANGED <<topicTables, messageCounter>>
      BY <3>1 DEF registryVars
    <3>3. Quiet(Worker(c))
      BY <1>1, <3>1, <3>2, NoShrink DEF Quiet
    <3> QED
      BY <2>1, <3>1, <3>3
  <2>3. \E id \in SubIds : HasAsked(c, k.topic, id)
    BY <1>3, <2>2 DEF SubscribedTo, BusInv, OwnAsked
  <2>4. Carries(c, k) /\ FoundBefore(k) /\ ~Begins(call[Worker(c)], k)
    BY <2>2, <2>3 DEF Carries, Requested, Sending, OnceEach, FoundBefore, Begins, Found,
       SubscribingLabels, SendLabels, WalkLabels
  <2>5. \A m, t : ~Holds(k, t, m)
    BY <2>2 DEF Holds, HoldLabels, WalkLabels
  <2> QED
    BY <2>1, <2>2, <2>4, <2>5, BusQuiet, ThreadFacts
<1> QED
  BY <1>2, <1>3 DEF HandleSend

LEMMA AskedMore ==
  ASSUME TypeInv, NEW c \in Connections, NEW t \in Topics, NEW id \in SubIds,
         asked' = [asked EXCEPT ![c] = Append(@, [topic |-> t, id |-> id])]
  PROVE  /\ AskedGrow /\ \A d \in Connections : d # c => asked'[d] = asked[d]
         /\ Len(asked[c]) \in Nat /\ Len(asked'[c]) = Len(asked[c]) + 1
         /\ Asked(c, t, [id |-> id, request |-> Len(asked[c])])'
<1> DEFINE s == Subscription(t, id)
<1>1. s \in [topic : Topics, id : SubIds]
  BY DEF Subscription
<1>2. /\ asked[c] \in Seq([topic : Topics, id : SubIds])
      /\ asked'[c] = Append(asked[c], s)
      /\ \A d \in Connections : d # c => asked'[d] = asked[d]
  BY TableFacts DEF Subscription
<1> HIDE DEF s
<1>3. /\ Len(asked[c]) \in Nat /\ DOMAIN asked[c] = 1..Len(asked[c])
      /\ DOMAIN asked'[c] = 1..(Len(asked[c]) + 1)
      /\ Len(asked'[c]) = Len(asked[c]) + 1
      /\ \A r \in 1..Len(asked[c]) : asked'[c][r] = asked[c][r]
      /\ asked'[c][Len(asked[c]) + 1] = s
  BY <1>1, <1>2, AppendProperties, LenProperties
<1>4. AskedGrow
  <2> SUFFICES ASSUME NEW d \in Connections, NEW r \in DOMAIN asked[d]
               PROVE  r \in DOMAIN asked'[d] /\ asked'[d][r] = asked[d][r]
    BY DEF AskedGrow
  <2> QED
    BY <1>2, <1>3
<1>5. Len(asked'[c]) \in DOMAIN asked'[c] /\ asked'[c][Len(asked'[c])] = s
  BY <1>3
<1> QED
  BY <1>2, <1>3, <1>4, <1>5 DEF Asked, Subscription, s

(* SUBSCRIBE: from now on the client has asked for the topic under the id. *)
LEMMA BusHandleSubscribe ==
  ASSUME TypeInv, TypeInv', BusInv, NEW c \in Connections, NEW f \in FrameType,
         HandleSubscribe(c, f)
  PROVE  BusInv'
<1>1. CASE Process(c, f, "sendError") /\ UNCHANGED <<sessionVars, asked>>
  <2>1. OwnShrink
    BY <1>1 DEF OwnShrink, sessionVars
  <2>2. Plain(Worker(c))
    BY <1>1, <2>1, ProcessPlain DEF Process
  <2> QED
    BY <2>2, BusPlain, ThreadFacts
<1>2. CASE /\ f.destination # Null /\ f.id \notin {Null, BadId}
           /\ ProcessAs(c, f, "putTopic", f.destination, {})
           /\ clientSubscriptions' =
                [clientSubscriptions EXCEPT ![c][f.id] = f.destination]
           /\ asked' = [asked EXCEPT ![c] =
                Append(@, [topic |-> f.destination, id |-> f.id])]
  <2>1. f.destination \in Topics /\ f.id \in SubIds
    BY <1>2 DEF FrameType
  <2>2. /\ Moves(Worker(c)) /\ UNCHANGED <<registryVars, published, inbox>>
        /\ call'[Worker(c)].pc = "putTopic" /\ call'[Worker(c)].frame = f
        /\ call'[Worker(c)].topic = f.destination
    BY <1>2, PlainProcess
  <2>3. /\ UNCHANGED <<topicSubscriptions, subscribers, messageCounter>>
        /\ SubscribersShrink /\ call[Worker(c)].pc = "idle"
    BY <1>2, <2>2 DEF registryVars, topicTables, ProcessAs, At, SubscribersShrink
  <2>4. /\ AskedGrow /\ \A d \in Connections : d # c => asked'[d] = asked[d]
        /\ Len(asked[c]) \in Nat /\ Len(asked'[c]) = Len(asked[c]) + 1
        /\ Asked(c, f.destination, [id |-> f.id, request |-> Len(asked[c])])'
    BY <1>2, <2>1, AskedMore
  <2>5. RequestsGrow
    <3> SUFFICES ASSUME NEW d \in Connections
                 PROVE  /\ Request(d) \in Nat /\ Request(d)' \in Nat
                        /\ Request(d) <= Request(d)'
      BY DEF RequestsGrow
    <3>1. CASE d = c
      BY <2>2, <2>3, <2>4, <3>1 DEF Request, SubscribingLabels
    <3>2. CASE d # c
      <4>1. call'[Worker(d)] = call[Worker(d)] /\ asked'[d] = asked[d]
        BY <2>2, <2>4, <3>2, ThreadFacts DEF Moves
      <4>2. Len(asked[d]) \in Nat
        BY TableFacts, LenProperties
      <4> QED
        BY <4>1, <4>2 DEF Request
    <3> QED
      BY <3>1, <3>2
  <2>6. Numbered' /\ Earlier'
    <3>1. Numbered'
      BY <2>2, <2>3 DEF BusInv, Numbered
    <3> QED
      BY <2>2, <2>3, <2>5, <3>1, EarlierKept DEF BusInv
  <2>7. OwnAsked'
    <3>1. ASSUME NEW d \in Connections, NEW id \in SubIds,
                 clientSubscriptions'[d][id] # Null
          PROVE  HasAsked(d, clientSubscriptions[d][id], id)'
      <4>1. CASE d = c /\ id = f.id
        <5>1. clientSubscriptions'[d][id] = f.destination
          BY <1>2, <2>1, <4>1, TableFacts
        <5> QED
          BY <2>4, <4>1, <5>1 DEF HasAsked, Asked, Subscription
      <4>2. CASE ~(d = c /\ id = f.id)
        <5>1. clientSubscriptions'[d][id] = clientSubscriptions[d][id]
          BY <1>2, <2>1, <4>2, TableFacts
        <5>2. HasAsked(d, clientSubscriptions[d][id], id)
          BY <3>1, <5>1 DEF BusInv, OwnAsked
        <5> QED
          BY <2>4, <5>1, <5>2 DEF HasAsked, AskedGrow, Subscription
      <4> QED
        BY <4>1, <4>2
    <3> QED
      BY <3>1 DEF OwnAsked, HasAsked, Subscription
  <2>8. \A m \in Maps, t \in Topics : Serves(m, t)' => Serves(m, t)
    BY <2>2, <2>3, ThreadFacts DEF Moves, Serves, Holds, HoldLabels, WalkLabels
  <2>9. OneTopic' /\ EntriesAsked'
    BY <2>3, <2>4, <2>8, MapsKept
  <2>10. ASSUME NEW d \in Connections
         PROVE  (Carries(d, call[Worker(d)]) /\ FoundBefore(call[Worker(d)]))'
    <3>1. CASE d = c
      BY <2>2, <2>4, <3>1 DEF Carries, Requested, Sending, OnceEach, FoundBefore, Asked,
         Subscription, SubscribingLabels, SendLabels, WalkLabels
    <3>2. CASE d # c
      <4>1. PICK k : k = call[Worker(d)]
        OBVIOUS
      <4>2. /\ call'[Worker(d)] = k /\ k \in Calls /\ LocalOK(k)
            /\ Carries(d, k) /\ FoundBefore(k)
        BY <2>2, <3>2, <4>1, ThreadFacts, Here DEF Moves, BusInv
      <4> QED
        BY <2>2, <2>3, <2>4, <2>5, <3>2, <4>2, CarriesKept
    <3> QED
      BY <3>1, <3>2
  <2> QED
    BY <2>6, <2>7, <2>9, <2>10 DEF BusInv
<1> QED
  BY <1>1, <1>2 DEF HandleSubscribe

-----------------------------------------------------------------------------
(* The steps that take an inner map from the table, and the walk over it *)

LEMMA BusReturn ==
  ASSUME TypeInv, TypeInv', BusInv, NEW c \in Connections, Return(Worker(c)), OnlyCall
  PROVE  BusInv'
<1>1. Plain(Worker(c))
  BY PlainReturn, QuietCall, ThreadFacts DEF Plain
<1> QED
  BY <1>1, BusPlain, ThreadFacts

(* A worker moves to locals k, and nothing else happens. *)
LEMMA BusMoves ==
  ASSUME TypeInv, TypeInv', BusInv, NEW c \in Connections, NEW k,
         call' = [call EXCEPT ![Worker(c)] = k], OnlyCall, Carries(c, k),
         FoundBefore(k), ~Begins(call[Worker(c)], k),
         \A m \in Maps, t \in Topics : Holds(k, t, m) => Serves(m, t)
  PROVE  BusInv'
<1>1. Moves(Worker(c)) /\ call'[Worker(c)] = k
  BY Gone, ThreadFacts
<1>2. Quiet(Worker(c))
  BY <1>1, QuietCall, ThreadFacts
<1> QED
  BY <1>1, <1>2, BusQuiet, ThreadFacts

LEMMA BusGet ==
  ASSUME TypeInv, TypeInv', BusInv, NEW c \in Connections,
         \/ GetTopic(c) \/ GetForRemove(c) \/ GetForEmpty(c)
  PROVE  BusInv'
<1> DEFINE here == call[Worker(c)]
           m == topicSubscriptions[here.topic]
<1>1. CASE Return(Worker(c)) /\ OnlyCall
  BY <1>1, BusReturn
<1>2. ASSUME NEW next \in {"putSubscriber", "removeSubscriber", "isEmpty"},
             m # Null, call' = [call EXCEPT ![Worker(c)].map = m, ![Worker(c)].pc = next],
             OnlyCall, next = "putSubscriber" => here.pc = "getTopic"
      PROVE  BusInv'
  <2> DEFINE k == [here EXCEPT !.map = m, !.pc = next]
  <2>1. Worker(c) \in Threads /\ here \in Calls
    BY Here
  <2>2. call' = [call EXCEPT ![Worker(c)] = k]
    BY <1>2, <2>1, TableFacts
  <2>3. k.pc = next /\ k.map = m /\ k.topic = here.topic /\ k.frame = here.frame
    BY <2>1 DEF Calls
  <2> HIDE DEF k
  <2>4. \A n \in Maps, t \in Topics : Holds(k, t, n) => Serves(n, t)
    BY <2>3 DEF Holds, Serves
  <2>5. Carries(c, k) /\ FoundBefore(k) /\ ~Begins(here, k)
    <3>1. Requested(c, here)
      BY DEF BusInv, Carries
    <3> QED
      BY <1>2, <2>3, <3>1 DEF Carries, Requested, Sending, OnceEach, FoundBefore, Begins,
         SubscribingLabels, SendLabels, WalkLabels
  <2> QED
    BY <1>2, <2>2, <2>4, <2>5, BusMoves
<1> QED
  BY <1>1, <1>2 DEF GetTopic, GetForRemove, GetForEmpty, Get, At

LEMMA BusGetSubscribers ==
  ASSUME TypeInv, TypeInv', BusInv, NEW c \in Connections, GetSubscribers(c)
  PROVE  BusInv'
<1> DEFINE here == call[Worker(c)]
           m == topicSubscriptions[here.topic]
<1>1. CASE m = Null
  BY <1>1, BusReturn DEF GetSubscribers
<1>2. CASE m # Null
  <2> DEFINE k == [here EXCEPT !.map = m, !.todo = Connections, !.pc = "advance"]
  <2>1. Worker(c) \in Threads /\ here \in Calls /\ here.pc = "getSubscribers"
    BY Here DEF GetSubscribers, At
  <2>2. call' = [call EXCEPT ![Worker(c)] = k] /\ OnlyCall
    BY <1>2, <2>1, TableFacts DEF GetSubscribers
  <2>3. /\ k.pc = "advance" /\ k.map = m /\ k.topic = here.topic
        /\ k.messageId = here.messageId /\ k.todo = Connections
        /\ k.entry = here.entry /\ k.next = here.next
    BY <2>1 DEF Calls
  <2> HIDE DEF k
  <2>4. \A n \in Maps, t \in Topics : Holds(k, t, n) => Serves(n, t)
    BY <2>3 DEF Holds, Serves
  <2>5. Carries(c, here)
    BY DEF BusInv
  <2>6. /\ Found(k) = {} /\ k.entry = Null /\ k.next = Null
        /\ \A n, d, r : n = k.messageId /\ d \in Connections => Below(n, d, r)
    BY <2>1, <2>3, <2>5 DEF Carries, OnceEach, Found, Below
  <2>7. OnceEach(k)
    BY <2>3, <2>6 DEF OnceEach, ToVisit, NextIsLater, EntryIsNew, Ahead, WalkLabels
  <2>8. Sending(c, k)
    BY <2>1, <2>3, <2>5 DEF Carries, Sending, SendLabels
  <2>9. Requested(c, k) /\ FoundBefore(k) /\ ~Begins(here, k)
    BY <2>3, <2>6 DEF Requested, FoundBefore, Begins, SubscribingLabels, WalkLabels
  <2> QED
    BY <2>2, <2>4, <2>7, <2>8, <2>9, BusMoves DEF Carries
<1> QED
  BY <1>1, <1>2

(* The walk goes on: the nodes it has are those it had, perhaps with one that *)
(* it found in its map, and nothing of what it has to visit is new.           *)
LEMMA BusAdvance ==
  ASSUME TypeInv, TypeInv', BusInv, NEW c \in Connections, Advance(c)
  PROVE  BusInv'
<1>1. PICK here : here = call[Worker(c)]
  OBVIOUS
<1>2. PICK label \in {"nextEntry", "lookup"} :
        label = IF here.entry = Null THEN "nextEntry" ELSE "lookup"
  OBVIOUS
<1>3. /\ here.topic \in Topics /\ here.map \in Maps /\ here.todo \subseteq Connections
      /\ here.pc = "advance" /\ OnlyCall /\ here \in Calls /\ Worker(c) \in Threads
  BY <1>1, Here DEF Advance, At, LocalOK, TopicLabels, MapLabels
<1>4. Requested(c, here) /\ Sending(c, here) /\ OnceEach(here) /\ FoundBefore(here)
  BY <1>1 DEF BusInv, Carries
<1>5. Serves(here.map, here.topic)
  BY <1>1, <1>3 DEF Serves, Holds, HoldLabels, WalkLabels
<1>6. ToVisit(here) /\ NextIsLater(here) /\ EntryIsNew(here)
  BY <1>3, <1>4 DEF OnceEach, WalkLabels
<1>7. ASSUME NEW k \in Calls, call' = [call EXCEPT ![Worker(c)] = k],
             k.pc \in {"advance", "nextEntry", "lookup"},
             k.pc # "nextEntry" \/ k.entry = Null,
             k.topic = here.topic, k.map = here.map, k.messageId = here.messageId,
             \A e \in Found(k) : Asked(e.to, k.topic, e) /\ Before(e),
             ToVisit(k), NextIsLater(k), k.entry = here.entry
      PROVE  BusInv'
  <2>1. Requested(c, k) /\ FoundBefore(k) /\ ~Begins(here, k)
    BY <1>7 DEF Requested, FoundBefore, Begins, SubscribingLabels
  <2>2. Sending(c, k)
    BY <1>3, <1>4, <1>7 DEF Sending, SendLabels, WalkLabels
  <2>3. EntryIsNew(k)
    BY <1>3, <1>6, <1>7 DEF EntryIsNew
  <2>4. OnceEach(k)
    BY <1>7, <2>3 DEF OnceEach
  <2>5. \A n \in Maps, t \in Topics : Holds(k, t, n) => Serves(n, t)
    BY <1>5, <1>7 DEF Holds
  <2> QED
    BY <1>1, <1>3, <1>7, <2>1, <2>2, <2>4, <2>5, BusMoves DEF Carries
<1>8. \A e \in Found(here) : Asked(e.to, here.topic, e) /\ Before(e)
  BY <1>3, <1>4 DEF Requested, FoundBefore, WalkLabels
<1>9. ASSUME NEW todo \in SUBSET here.todo, NEW pc \in {"advance", label},
             call' = [call EXCEPT ![Worker(c)] = [here EXCEPT !.todo = todo, !.pc = pc]]
      PROVE  BusInv'
  <2>1. PICK k : k = [here EXCEPT !.todo = todo, !.pc = pc]
    OBVIOUS
  <2>2. /\ k \in Calls /\ k.pc = pc /\ k.topic = here.topic /\ k.map = here.map
        /\ k.messageId = here.messageId /\ k.entry = here.entry /\ k.next = here.next
        /\ k.todo = todo
    BY <1>3, <2>1 DEF Calls, Labels
  <2>3. Found(k) = Found(here)
    BY <2>2 DEF Found
  <2>4. ToVisit(k) /\ NextIsLater(k)
    BY <1>6, <2>2, <2>3 DEF ToVisit, NextIsLater, Ahead
  <2>5. pc \in {"advance", "nextEntry", "lookup"} /\ (pc # "nextEntry" \/ here.entry = Null)
    BY <1>2
  <2> QED
    BY <1>7, <1>8, <1>9, <2>1, <2>2, <2>3, <2>4, <2>5
<1>10. ASSUME NEW d \in here.todo, NEW entry, entry = subscribers[here.map][d],
              entry # Null,
              call' = [call EXCEPT ![Worker(c)] =
                [here EXCEPT !.todo = @ \ {d}, !.pc = label, !.next = Node(d, entry)]]
       PROVE  BusInv'
  <2>1. PICK node : node = Node(d, entry)
    OBVIOUS
  <2>2. d \in Connections
    BY <1>3
  <2>3. /\ node \in Nodes /\ node.to = d /\ node.request = entry.request
        /\ node.id = entry.id
    BY <1>3, <1>10, <2>1, <2>2, EntryFacts
  <2>4. PICK k : k = [here EXCEPT !.todo = @ \ {d}, !.pc = label, !.next = node]
    OBVIOUS
  <2>5. /\ k.pc = label /\ k.topic = here.topic /\ k.map = here.map
        /\ k.messageId = here.messageId /\ k.entry = here.entry /\ k.next = node
        /\ k.todo = here.todo \ {d}
    BY <1>3, <2>4 DEF Calls
  <2>6. k \in Calls
    BY <1>3, <2>3, <2>4 DEF Calls, Labels
  <2>7. Ahead(here, d, entry.request)
    BY <1>6, <1>10 DEF ToVisit
  <2>8. Asked(d, here.topic, entry) /\ Before(node)
    BY <1>3, <1>5, <1>10, <2>1, <2>2 DEF BusInv, EntriesAsked, Earlier
  <2>9. Asked(node.to, here.topic, node)
    BY <2>3, <2>8 DEF Asked
  <2>10. \A e \in Found(k) : e = node \/ e \in Found(here)
    BY <2>5 DEF Found
  <2>11. ToVisit(k)
    <3>1. ASSUME NEW o \in k.todo, subscribers[k.map][o] # Null
          PROVE  Ahead(k, o, subscribers[k.map][o].request)
      <4>1. Ahead(here, o, subscribers[here.map][o].request) /\ o # d
        BY <1>6, <2>5, <3>1 DEF ToVisit
      <4> QED
        BY <2>3, <2>5, <2>10, <4>1 DEF Ahead
    <3> QED
      BY <3>1 DEF ToVisit
  <2>12. NextIsLater(k)
    <3>1. here.entry # Null => here.entry \in Found(here)
      BY <1>3, NodeFacts
    <3> QED
      BY <2>3, <2>5, <2>7, <3>1 DEF NextIsLater, Ahead
  <2>13. k.pc # "nextEntry" \/ k.entry = Null
    BY <1>2, <2>5
  <2>14. \A e \in Found(k) : Asked(e.to, k.topic, e) /\ Before(e)
    BY <1>8, <2>5, <2>8, <2>9, <2>10
  <2> QED
    BY <1>7, <1>10, <2>1, <2>4, <2>5, <2>6, <2>11, <2>12, <2>13, <2>14
<1>11. CASE here.todo = {} /\ Goto(Worker(c), label)
  <2>1. call' = [call EXCEPT ![Worker(c)] = [here EXCEPT !.todo = {}, !.pc = label]]
    <3>1. [here EXCEPT !.todo = {}, !.pc = label] = [here EXCEPT !.pc = label]
      BY <1>3, <1>11 DEF Calls
    <3> QED
      BY <1>1, <1>11, <3>1 DEF Goto
  <2> QED
    BY <1>9, <2>1
<1>12. ASSUME NEW d \in here.todo, subscribers[here.map][d] = Null,
              call' = [call EXCEPT ![Worker(c)] = [here EXCEPT !.todo = @ \ {d}]]
       PROVE  BusInv'
  <2>1. [here EXCEPT !.todo = @ \ {d}] = [here EXCEPT !.todo = here.todo \ {d}, !.pc = "advance"]
    BY <1>3 DEF Calls
  <2>2. here.todo \ {d} \in SUBSET here.todo
    OBVIOUS
  <2> QED
    BY <1>9, <1>12, <2>1, <2>2
<1> QED
  BY <1>1, <1>2, <1>10, <1>11, <1>12 DEF Advance

(* next() returns the node, and it is later than what the subscriber has. *)
LEMMA BusNextEntry ==
  ASSUME TypeInv, TypeInv', BusInv, NEW c \in Connections, NextEntry(c)
  PROVE  BusInv'
<1>1. PICK here : here = call[Worker(c)]
  OBVIOUS
<1>2. PICK k : k = [here EXCEPT !.entry = here.next, !.next = Null, !.pc = "advance"]
  OBVIOUS
<1>3. /\ here.pc = "nextEntry" /\ OnlyCall /\ here \in Calls /\ Worker(c) \in Threads
      /\ here.next # Null
  BY <1>1, Here DEF NextEntry, At
<1>4. call' = [call EXCEPT ![Worker(c)] = k]
  BY <1>1, <1>2, <1>3, TableFacts DEF NextEntry
<1>5. /\ k.pc = "advance" /\ k.topic = here.topic /\ k.map = here.map
      /\ k.messageId = here.messageId /\ k.entry = here.next /\ k.next = Null
      /\ k.todo = here.todo
  BY <1>2, <1>3 DEF Calls
<1>6. Requested(c, here) /\ Sending(c, here) /\ OnceEach(here) /\ FoundBefore(here)
  BY <1>1 DEF BusInv, Carries
<1>7. \A e \in Found(k) : e \in Found(here)
  BY <1>5 DEF Found
<1>8. ToVisit(here) /\ NextIsLater(here)
  BY <1>3, <1>6 DEF OnceEach, WalkLabels
<1>9. ToVisit(k) /\ NextIsLater(k) /\ EntryIsNew(k)
  <2>1. ToVisit(k)
    BY <1>5, <1>7, <1>8 DEF ToVisit, Ahead
  <2>2. EntryIsNew(k)
    BY <1>3, <1>5, <1>8 DEF NextIsLater, EntryIsNew
  <2> QED
    BY <1>5, <2>1, <2>2 DEF NextIsLater
<1>10. Requested(c, k) /\ FoundBefore(k) /\ ~Begins(here, k)
  BY <1>3, <1>5, <1>6, <1>7 DEF Requested, FoundBefore, Begins, SubscribingLabels, WalkLabels
<1>11. Sending(c, k)
  BY <1>3, <1>5, <1>6 DEF Sending, SendLabels, WalkLabels
<1>12. OnceEach(k)
  BY <1>5, <1>9 DEF OnceEach
<1>13. \A n \in Maps, t \in Topics : Holds(k, t, n) => Serves(n, t)
  BY <1>1, <1>3, <1>5 DEF Holds, Serves, HoldLabels, WalkLabels
<1> QED
  BY <1>1, <1>3, <1>4, <1>10, <1>11, <1>12, <1>13, BusMoves DEF Carries

LEMMA BusLookup ==
  ASSUME TypeInv, TypeInv', BusInv, NEW c \in Connections, Lookup(c)
  PROVE  BusInv'
<1> DEFINE here == call[Worker(c)]
           label == IF here.entry.to \in activeConnections THEN "enqueue" ELSE "nextEntry"
           k == [here EXCEPT !.pc = label]
<1>1. call' = [call EXCEPT ![Worker(c)] = k] /\ OnlyCall
  BY DEF Lookup, Goto
<1>2. label \in {"enqueue", "nextEntry"}
  OBVIOUS
<1> HIDE DEF label
<1>3. here \in Calls /\ here.pc = "lookup" /\ Worker(c) \in Threads
  BY Here DEF Lookup, At
<1>4. /\ k.pc = label /\ k.map = here.map /\ k.topic = here.topic
      /\ k.todo = here.todo /\ k.entry = here.entry /\ k.next = here.next
      /\ k.messageId = here.messageId
  BY <1>3 DEF Calls
<1> HIDE DEF k
<1>5. Carries(c, here) /\ FoundBefore(here)
  BY DEF BusInv
<1>6. Carries(c, k) /\ FoundBefore(k) /\ ~Begins(here, k)
  <2>1. Found(k) = Found(here)
    BY <1>4 DEF Found
  <2>2. OnceEach(k)
    BY <1>2, <1>3, <1>4, <1>5, <2>1 DEF Carries, OnceEach, ToVisit, NextIsLater, EntryIsNew,
       Ahead, WalkLabels
  <2>3. Requested(c, k) /\ FoundBefore(k) /\ ~Begins(here, k)
    BY <1>2, <1>3, <1>4, <1>5, <2>1 DEF Carries, Requested, FoundBefore, Begins,
       SubscribingLabels, WalkLabels
  <2>4. Sending(c, k)
    BY <1>2, <1>3, <1>4, <1>5 DEF Carries, Sending, SendLabels, WalkLabels
  <2> QED
    BY <2>2, <2>3, <2>4 DEF Carries
<1>7. \A n \in Maps, t \in Topics : Holds(k, t, n) => Serves(n, t)
  BY <1>2, <1>3, <1>4 DEF Holds, Serves, HoldLabels, WalkLabels
<1> QED
  BY <1>1, <1>6, <1>7, BusMoves

-----------------------------------------------------------------------------
(* The steps that write: a new inner map, an entry, a message, a delivery *)

LEMMA BusPutTopic ==
  ASSUME TypeInv, TypeInv', BusInv, NEW c \in Connections, PutTopic(c)
  PROVE  BusInv'
<1>1. PICK m \in Maps \ Referenced : PutTopicIfAbsent(call[Worker(c)].topic, m)
  BY DEF PutTopic
<1>2. PICK t : t = call[Worker(c)].topic
  OBVIOUS
<1>3. /\ t \in Topics /\ m \in Maps /\ Null \notin Maps /\ Worker(c) \in Threads
      /\ call[Worker(c)] \in Calls /\ call[Worker(c)].pc = "putTopic"
  BY <1>1, <1>2, Here, RegistryAssumption DEF PutTopic, At, LocalOK, TopicLabels
<1>4. /\ Moves(Worker(c)) /\ call'[Worker(c)].pc = "getTopic"
      /\ call'[Worker(c)] = [call[Worker(c)] EXCEPT !.pc = "getTopic"]
  BY <1>3, PlainGoto DEF PutTopic
<1>5. PICK k : k = call'[Worker(c)]
  OBVIOUS
<1>6. k.pc = "getTopic" /\ k.topic = t /\ k.frame = call[Worker(c)].frame
  BY <1>2, <1>3, <1>4, <1>5 DEF Calls
<1>7. UNCHANGED <<asked, published, inbox, messageCounter, clientSubscriptions>>
  BY <1>1 DEF PutTopic, PutTopicIfAbsent, OnlyTables, sessionVars, messageVars
<1>8. Requested(c, call[Worker(c)])
  BY DEF BusInv, Carries
<1>9. Carries(c, k) /\ FoundBefore(k) /\ ~Begins(call[Worker(c)], k)
  BY <1>2, <1>3, <1>6, <1>8 DEF Carries, Requested, Sending, OnceEach, FoundBefore, Begins,
     SubscribingLabels, SendLabels, WalkLabels
<1>10. \A n, u : ~Holds(k, u, n)
  BY <1>6 DEF Holds, HoldLabels, WalkLabels
<1>11. CASE UNCHANGED topicTables
  <2>1. Quiet(Worker(c))
    BY <1>4, <1>7, <1>11, NoShrink DEF Quiet
  <2> QED
    BY <1>3, <1>5, <1>9, <1>10, <2>1, BusQuiet, ThreadFacts
<1>12. /\ \A u \in Topics : topicSubscriptions[u] # m
       /\ \A p \in Threads : call[p].map # m
  BY <1>1 DEF Referenced
<1>13. CASE /\ topicSubscriptions[t] = Null
            /\ topicSubscriptions' = [topicSubscriptions EXCEPT ![t] = m]
            /\ subscribers' = [subscribers EXCEPT ![m] = NoEntries]
  <2>1. \A n \in Maps, u \in Topics :
          Serves(n, u)' => (Serves(n, u) /\ n # m) \/ (n = m /\ u = t)
    <3>1. ASSUME NEW n \in Maps, NEW u \in Topics, Serves(n, u)'
          PROVE  (Serves(n, u) /\ n # m) \/ (n = m /\ u = t)
      <4>1. CASE topicSubscriptions'[u] = n
        BY <1>3, <1>12, <1>13, <4>1, TableFacts DEF Serves
      <4>2. CASE \E p \in Threads : Holds(call'[p], u, n)
        <5>1. PICK p \in Threads : Holds(call'[p], u, n)
          BY <4>2
        <5>2. Holds(call[p], u, n)
          BY <1>4, <1>5, <1>10, <5>1 DEF Moves
        <5> QED
          BY <1>12, <5>2 DEF Serves, Holds
      <4> QED
        BY <3>1, <4>1, <4>2 DEF Serves
    <3> QED
      BY <3>1
  <2>2. OneTopic'
    BY <2>1 DEF BusInv, OneTopic
  <2>3. \A n \in Maps, d \in Connections :
          subscribers'[n][d] = IF n = m THEN Null ELSE subscribers[n][d]
    BY <1>3, <1>13, TableFacts DEF NoEntries
  <2>4. EntriesAsked'
    BY <1>7, <2>1, <2>3 DEF BusInv, EntriesAsked, Asked, Subscription
  <2>5. Numbered' /\ OwnAsked'
    BY <1>7 DEF BusInv, Numbered, OwnAsked, HasAsked, Subscription
  <2>6. SubscribersShrink /\ AskedGrow /\ UNCHANGED <<asked, inbox, published>>
    BY <1>7, <2>3 DEF SubscribersShrink, AskedGrow
  <2>7. RequestsGrow
    <3>1. \A d \in Connections : ~Begins(call[Worker(d)], call'[Worker(d)])
      BY <1>4, <1>5, <1>9, ThreadFacts DEF Moves, Begins
    <3> QED
      BY <2>6, <3>1, RequestsKept
  <2>8. Earlier'
    BY <2>6, <2>7, EarlierKept DEF BusInv
  <2>9. ASSUME NEW d \in Connections
        PROVE  (Carries(d, call[Worker(d)]) /\ FoundBefore(call[Worker(d)]))'
    <3>1. PICK j : j = call'[Worker(d)]
      OBVIOUS
    <3>2. j \in Calls /\ LocalOK(j)
      BY <3>1, ThreadFacts DEF TypeInv, CallOK
    <3>3. Carries(d, j) /\ FoundBefore(j)
      BY <1>4, <1>5, <1>9, <3>1, ThreadFacts DEF BusInv, Moves
    <3> QED
      BY <2>6, <2>7, <3>1, <3>2, <3>3, CarriesKept
  <2> QED
    BY <2>2, <2>4, <2>5, <2>8, <2>9 DEF BusInv
<1> QED
  BY <1>1, <1>2, <1>11, <1>13 DEF PutTopicIfAbsent

(* What another worker carries stays right when c puts an entry into the map  *)
(* that it walks: the entry is of the last request of c, which comes after all *)
(* that the walk or the inbox of c has.                                        *)
LEMMA OvertakenWalk ==
  ASSUME TypeInv, BusInv, UNCHANGED <<asked, published, inbox>>, RequestsGrow,
         NEW c \in Connections, NEW d \in Connections, NEW m \in Maps, NEW new \in Entries,
         subscribers' = [subscribers EXCEPT ![m][c] = new],
         new.request = Request(c), new.request < Request(c)',
         NEW k \in Calls, NEW l \in Calls, LocalOK(k), Carries(d, k), FoundBefore(k),
         Overtaken(k, l, c, m, subscribers[m][c], new),
         Walks(k, m) => Asked(c, k.topic, new), call'[Worker(d)] = l
  PROVE  (Carries(d, call[Worker(d)]) /\ FoundBefore(call[Worker(d)]))'
<1>1. /\ l.pc = k.pc /\ l.frame = k.frame /\ l.topic = k.topic /\ l.map = k.map
      /\ l.entry = k.entry /\ l.messageId = k.messageId
      /\ k.pc \notin WalkLabels => l = k
      /\ l.pc \in WalkLabels => l.map \in Maps /\ k.todo \subseteq Connections
  BY OvertakenFacts DEF LocalOK, MapLabels, WalkLabels
<1>2. /\ Node(c, new) \in Nodes /\ Node(c, new).to = c
      /\ Node(c, new).request = new.request /\ Node(c, new).id = new.id
      /\ new.request \in Nat
  BY DEF Node, Nodes, Entries
<1>3. /\ l.next = k.next /\ l.todo \in {k.todo, k.todo \cup {c}}
      \/ /\ l.next = Node(c, new) /\ k.next = Node(c, subscribers[m][c]) /\ Walks(k, m)
         /\ l.todo = k.todo /\ subscribers[m][c] # Null /\ k.next # Null
  <2>1. subscribers[m][c] # Null => Node(c, subscribers[m][c]) # Null
    BY EntryFacts, ProtocolAssumption DEF Nodes
  <2> QED
    BY <2>1 DEF Overtaken, Calls
<1>4. \A e \in Found(k) : e \in Nodes /\ e.to \in Connections /\ e.request \in Nat
  BY NodeFacts
<1>5. l.pc \in WalkLabels => \A e \in Found(k) : Asked(e.to, k.topic, e) /\ Before(e)
  BY <1>1 DEF Carries, Requested, FoundBefore
<1>6. \A e \in Found(l) : e \in Found(k) \/ (e = Node(c, new) /\ Walks(k, m))
  BY <1>1, <1>3 DEF Found
<1>7. Requested(d, l)
  <2>1. l.pc \in WalkLabels => \A e \in Found(l) : Asked(e.to, l.topic, e)
    BY <1>1, <1>2, <1>5, <1>6 DEF Asked
  <2> QED
    BY <1>1, <2>1 DEF Carries, Requested
<1>8. Sending(d, l)
  BY <1>1 DEF Carries, Sending
<1>9. l.pc \in WalkLabels => \A e \in Found(l) : Before(e)'
  <2>1. ASSUME NEW e \in Found(k), Before(e) PROVE Before(e)'
    BY <1>4, <2>1 DEF Before, RequestsGrow
  <2>2. Before(Node(c, new))'
    BY <1>2 DEF Before
  <2> QED
    BY <1>5, <1>6, <2>1, <2>2
<1>10. \A n : Below(n, c, new.request)
  <2>1. \A i \in DOMAIN inbox[c] : inbox[c][i].request < Request(c)
    BY DEF BusInv, Earlier
  <2> QED
    BY <2>1 DEF Below
<1>11. k.pc \in WalkLabels => \A e \in Found(k) : e.to = c => e.request < new.request
  BY <1>1, <1>5 DEF Before
<1>12. \A o \in Connections, n \in Maps :
         subscribers'[n][o] = IF n = m /\ o = c THEN new ELSE subscribers[n][o]
  BY TableFacts
<1>13. ASSUME k.pc \in WalkLabels PROVE ToVisit(l)'
  <2>1. ToVisit(k)
    BY <1>13 DEF Carries, OnceEach
  <2>2. ASSUME NEW o \in l.todo, subscribers'[l.map][o] # Null
        PROVE  Ahead(l, o, subscribers'[l.map][o].request)
    <3>1. o \in Connections /\ l.map \in Maps
      BY <1>1, <1>3, <1>13
    <3>2. CASE l.map = m /\ o = c
      <4>1. subscribers'[l.map][o] = new
        BY <1>12, <3>1, <3>2
      <4>2. c \in k.todo /\ subscribers[m][c] # Null
              => Ahead(k, c, subscribers[m][c].request)
        BY <1>1, <2>1, <3>2 DEF ToVisit
      <4>3. l.next = k.next
        <5> SUFFICES ASSUME l.next # k.next PROVE FALSE
          OBVIOUS
        <5>1. /\ k.next = Node(c, subscribers[m][c]) /\ l.todo = k.todo
              /\ subscribers[m][c] # Null /\ k.next # Null
          BY <1>3
        <5>2. k.next.to = c /\ k.next.request = subscribers[m][c].request
              /\ subscribers[m][c].request \in Nat
          BY <5>1, EntryFacts
        <5>3. k.next \in Found(k)
          BY <5>1 DEF Found
        <5>4. Ahead(k, c, subscribers[m][c].request)
          BY <4>2, <5>1, <2>2, <3>2
        <5>5. k.next.request < subscribers[m][c].request
          BY <5>2, <5>3, <5>4 DEF Ahead
        <5> QED
          BY <5>2, <5>5
      <4>4. Found(l) = Found(k)
        BY <1>1, <4>3 DEF Found
      <4>5. Ahead(l, c, new.request)
        BY <1>10, <1>11, <1>13, <4>4 DEF Ahead
      <4> QED
        BY <3>2, <4>1, <4>5
    <3>3. CASE ~(l.map = m /\ o = c)
      <4>1. subscribers'[l.map][o] = subscribers[l.map][o]
        BY <1>12, <3>1, <3>3
      <4>2. o \in k.todo
        <5>1. CASE o # c
          BY <1>3, <2>2, <5>1
        <5>2. CASE l.map # m
          <6>1. ~Walks(k, m)
            BY <1>1, <5>2 DEF Walks
          <6>2. l = k
            BY <6>1 DEF Overtaken
          <6> QED
            BY <2>2, <6>2
        <5> QED
          BY <3>3, <5>1, <5>2
      <4>3. Ahead(k, o, subscribers[l.map][o].request)
        BY <1>1, <2>1, <2>2, <4>1, <4>2 DEF ToVisit
      <4>4. \A e \in Found(l) : e.to = o => e \in Found(k)
        <5>1. CASE o # c
          BY <1>2, <1>6, <5>1
        <5>2. CASE l.map # m
          <6>1. ~Walks(k, m)
            BY <1>1, <5>2 DEF Walks
          <6> QED
            BY <1>6, <6>1
        <5> QED
          BY <3>3, <5>1, <5>2
      <4> QED
        BY <1>1, <4>1, <4>3, <4>4 DEF Ahead
    <3> QED
      BY <3>2, <3>3
  <2> QED
    BY <2>2 DEF ToVisit, Ahead, Below, Found
<1>14. ASSUME k.pc \in WalkLabels PROVE NextIsLater(l)
  <2>1. NextIsLater(k)
    BY <1>14 DEF Carries, OnceEach
  <2>2. CASE l.next = k.next
    BY <1>1, <2>1, <2>2 DEF NextIsLater
  <2>3. CASE l.next = Node(c, new)
    <3>1. Below(l.messageId, l.next.to, l.next.request)
      BY <1>2, <1>10, <2>3
    <3>2. l.entry # Null => l.entry \in Found(k)
      BY <1>1 DEF Found
    <3> QED
      BY <1>2, <1>11, <1>14, <2>3, <3>1, <3>2 DEF NextIsLater
  <2> QED
    BY <1>3, <2>2, <2>3
<1>15. EntryIsNew(k) => EntryIsNew(l)
  BY <1>1 DEF EntryIsNew
<1>16. OnceEach(l)'
  <2>1. CASE k.pc \in WalkLabels
    <3>1. ToVisit(l)' /\ NextIsLater(l) /\ EntryIsNew(l)
      BY <1>13, <1>14, <1>15, <2>1 DEF Carries, OnceEach
    <3>2. NextIsLater(l)' /\ EntryIsNew(l)'
      BY <3>1 DEF NextIsLater, EntryIsNew, Below
    <3> QED
      BY <1>1, <2>1, <3>1, <3>2 DEF OnceEach, WalkLabels
  <2>2. CASE k.pc \notin WalkLabels
    BY <1>1, <2>2 DEF Carries, OnceEach, Found
  <2> QED
    BY <2>1, <2>2
<1> QED
  BY <1>7, <1>8, <1>9, <1>16, SMTT(20) DEF Carries, Requested, Sending, OnceEach, FoundBefore,
     Asked, HasAsked, Found, ToVisit, NextIsLater, EntryIsNew, Ahead, Below, Before

LEMMA BusPutOwnSubscription ==
  ASSUME TypeInv, TypeInv', BusInv, NEW c \in Connections, PutOwnSubscription(c)
  PROVE  BusInv'
<1>1. PICK here : here = call[Worker(c)]
  OBVIOUS
<1>2. PICK m, new : /\ m = here.map
                    /\ new = [id |-> FrameOf(c).id, request |-> Len(asked[c])]
  OBVIOUS
<1>3. /\ m \in Maps /\ new \in Entries /\ here.pc = "putSubscriber"
      /\ PutSubscriber(m, c, new) /\ OnlyTables
      /\ call' \in [Threads -> Calls]
      /\ call'[Worker(c)] = [call[Worker(c)] EXCEPT !.pc = "receipt", !.map = Null]
      /\ \A p \in Threads : p # Worker(c)
              => Overtaken(call[p], call'[p], c, m, subscribers[m][c], new)
  BY <1>1, <1>2, PutFacts
<1>4. here.topic \in Topics /\ here \in Calls /\ Worker(c) \in Threads
  BY <1>1, <1>3, Here DEF LocalOK, TopicLabels
<1>5. call'[Worker(c)].pc = "receipt"
  BY <1>1, <1>3, <1>4 DEF Calls
<1>6. /\ UNCHANGED <<asked, published, inbox, messageCounter, clientSubscriptions>>
      /\ UNCHANGED topicSubscriptions
      /\ subscribers' = [subscribers EXCEPT ![m][c] = new]
  BY <1>3 DEF PutSubscriber, OnlyTables, sessionVars, messageVars
<1>7. \A p \in Threads : p # Worker(c) =>
        /\ call'[p].pc = call[p].pc /\ call'[p].map = call[p].map
        /\ call'[p].topic = call[p].topic
  BY <1>3, OvertakenFacts DEF TypeInv, CallOK
<1>8. Serves(m, here.topic)
  BY <1>1, <1>2, <1>3, <1>4 DEF Serves, Holds, HoldLabels
<1>9. Asked(c, here.topic, new)
  <2>1. Requested(c, here)
    BY <1>1 DEF BusInv, Carries
  <2>2. FrameOf(c).id = here.frame.id
    BY <1>1 DEF FrameOf
  <2> QED
    BY <1>2, <1>3, <2>1, <2>2 DEF Requested, SubscribingLabels
<1>10. new.request = Len(asked[c]) /\ new.request \in Nat
  BY <1>2, <1>3 DEF Entries
<1>11. /\ new.request = Request(c) /\ Request(c)' = Len(asked[c]) + 1
       /\ new.request < Request(c)'
  BY <1>1, <1>3, <1>5, <1>6, <1>10 DEF Request, SubscribingLabels
<1>12. RequestsGrow
  <2>1. \A d \in Connections : ~Begins(call[Worker(d)], call'[Worker(d)])
    BY <1>5, <1>7, ThreadFacts DEF Begins, SubscribingLabels
  <2> QED
    BY <1>6, <2>1, RequestsKept
<1>13. \A n \in Maps, u \in Topics : Serves(n, u)' => Serves(n, u)
  BY <1>5, <1>6, <1>7 DEF Serves, Holds, HoldLabels, WalkLabels
<1>14. OneTopic'
  BY <1>13 DEF BusInv, OneTopic
<1>15. \A o \in Connections, n \in Maps :
         subscribers'[n][o] = IF n = m /\ o = c THEN new ELSE subscribers[n][o]
  BY <1>3, <1>6, TableFacts
<1>16. EntriesAsked'
  <2> SUFFICES ASSUME NEW n \in Maps, NEW u \in Topics, NEW d \in Connections,
                      Serves(n, u)', subscribers'[n][d] # Null
               PROVE  Asked(d, u, subscribers'[n][d])
    BY <1>6 DEF EntriesAsked, Asked, Subscription
  <2>1. Serves(n, u)
    BY <1>13
  <2>2. CASE n = m /\ d = c
    <3>1. u = here.topic
      BY <1>3, <1>4, <1>8, <2>1, <2>2 DEF BusInv, OneTopic
    <3> QED
      BY <1>9, <1>15, <2>2, <3>1
  <2>3. CASE ~(n = m /\ d = c)
    BY <1>15, <2>1, <2>3 DEF BusInv, EntriesAsked
  <2> QED
    BY <2>2, <2>3
<1>17. Numbered' /\ OwnAsked'
  BY <1>6 DEF BusInv, Numbered, OwnAsked, HasAsked, Subscription
<1>18. Earlier'
  <2>1. ASSUME NEW d \in Connections, NEW n \in Maps, subscribers'[n][d] # Null
        PROVE  Before(Node(d, subscribers[n][d]))'
    <3>1. CASE n = m /\ d = c
      <4>1. subscribers'[n][d] = new
        BY <1>15, <3>1
      <4> QED
        BY <1>10, <1>11, <3>1, <4>1 DEF Before, Node
    <3>2. CASE ~(n = m /\ d = c)
      <4>1. subscribers'[n][d] = subscribers[n][d] /\ subscribers[n][d] # Null
        BY <1>15, <2>1, <3>2
      <4>2. PICK e : e = Node(d, subscribers[n][d])
        OBVIOUS
      <4>3. e.request \in Nat /\ e.to = d /\ e.request < Request(d)
        BY <4>1, <4>2, EntryFacts DEF BusInv, Earlier, Before
      <4>4. e.request < Request(d)'
        BY <1>12, <4>3 DEF RequestsGrow
      <4> QED
        BY <4>1, <4>2, <4>3, <4>4 DEF Before, Node
    <3> QED
      BY <3>1, <3>2
  <2>2. ASSUME NEW d \in Connections, NEW i \in DOMAIN inbox[d]
        PROVE  inbox[d][i].request < Request(d)'
    <3>1. inbox[d][i].request \in Nat /\ inbox[d][i].request < Request(d)
      BY InboxFacts DEF BusInv, Earlier
    <3> QED
      BY <1>12, <3>1 DEF RequestsGrow
  <2> QED
    BY <1>6, <2>1, <2>2 DEF Earlier
<1>19. ASSUME NEW d \in Connections
       PROVE  (Carries(d, call[Worker(d)]) /\ FoundBefore(call[Worker(d)]))'
  <2>1. CASE d = c
    BY <1>5, <2>1 DEF Carries, FoundBefore, Requested, Sending, OnceEach,
       SubscribingLabels, SendLabels, WalkLabels
  <2>2. CASE d # c
    <3>1. PICK k \in Calls, l \in Calls : k = call[Worker(d)] /\ l = call'[Worker(d)]
      BY <1>3, Here, ThreadFacts
    <3>2. LocalOK(k) /\ Carries(d, k) /\ FoundBefore(k)
      BY <3>1, Here DEF BusInv
    <3>3. Overtaken(k, l, c, m, subscribers[m][c], new)
      BY <1>3, <2>2, <3>1, ThreadFacts
    <3>4. ASSUME Walks(k, m) PROVE Asked(c, k.topic, new)
      <4>1. Holds(k, k.topic, m) /\ k.topic \in Topics
        BY <3>2, <3>4 DEF Walks, Holds, HoldLabels, WalkLabels, LocalOK, TopicLabels
      <4>2. Serves(m, k.topic)
        BY <3>1, <4>1, ThreadFacts DEF Serves
      <4>3. k.topic = here.topic
        BY <1>3, <1>4, <1>8, <4>1, <4>2 DEF BusInv, OneTopic
      <4> QED
        BY <1>9, <4>3
    <3> QED
      BY <1>3, <1>6, <1>11, <1>12, <3>1, <3>2, <3>3, <3>4, OvertakenWalk
  <2> QED
    BY <2>1, <2>2
<1> QED
  BY <1>14, <1>16, <1>17, <1>18, <1>19 DEF BusInv

LEMMA BusNextMessageId ==
  ASSUME TypeInv, TypeInv', BusInv, NEW c \in Connections, NextMessageId(c)
  PROVE  BusInv'
<1> DEFINE here == call[Worker(c)]
<1>1. PICK n \in Nat : n = Len(published)
  BY TableFacts
<1>2. PICK t : t = here.topic
  OBVIOUS
<1>3. /\ t \in Topics /\ here \in Calls /\ Worker(c) \in Threads
      /\ here.pc = "nextMessageId"
  BY <1>2, Here DEF NextMessageId, At, LocalOK, TopicLabels
<1>4. messageCounter' = n + 1 /\ messageCounter = n
  BY <1>1 DEF NextMessageId, GetNextMessageId, BusInv, Numbered
<1>5. PICK k : k = [here EXCEPT !.messageId = n + 1, !.pc = "getSubscribers"]
  OBVIOUS
<1>6. call' = [call EXCEPT ![Worker(c)] = k]
  BY <1>3, <1>4, <1>5, TableFacts DEF NextMessageId
<1>7. /\ k.pc = "getSubscribers" /\ k.topic = t /\ k.messageId = n + 1
      /\ k.entry = here.entry /\ k.next = here.next
  BY <1>2, <1>3, <1>5 DEF Calls
<1>8. Moves(Worker(c)) /\ call'[Worker(c)] = k
  BY <1>3, <1>6, Gone
<1>9. /\ UNCHANGED <<asked, inbox, clientSubscriptions, topicSubscriptions, subscribers>>
      /\ published' = Append(published, [topic |-> t, from |-> c])
  BY <1>2 DEF NextMessageId, GetNextMessageId, sessionVars, topicTables
<1>10. /\ DOMAIN published = 1..n /\ DOMAIN published' = 1..(n + 1)
       /\ Len(published') = n + 1
       /\ \A i \in 1..n : published'[i] = published[i]
       /\ published'[n + 1] = [topic |-> t, from |-> c]
  BY <1>1, <1>3, <1>9, TableFacts
<1>11. Numbered'
  BY <1>4, <1>9, <1>10 DEF BusInv, Numbered
<1>12. OwnAsked'
  BY <1>9 DEF BusInv, OwnAsked, HasAsked, Subscription
<1>13. \A m \in Maps, u \in Topics : Serves(m, u)' => Serves(m, u)
  BY <1>7, <1>8, <1>9 DEF Moves, Serves, Holds, HoldLabels, WalkLabels
<1>14. OneTopic' /\ EntriesAsked'
  BY <1>9, <1>13, MapsKept DEF SubscribersShrink, AskedGrow
<1>15. \A d \in Connections : \A i \in DOMAIN inbox[d] : inbox[d][i].msg \in 1..n
  BY <1>10 DEF BusInv, Numbered
<1>16. RequestsGrow
  <2>1. \A d \in Connections : ~Begins(call[Worker(d)], call'[Worker(d)])
    BY <1>7, <1>8, ThreadFacts DEF Moves, Begins, SubscribingLabels
  <2> QED
    BY <1>9, <2>1, RequestsKept
<1>17. Earlier'
  BY <1>9, <1>16, EarlierKept DEF BusInv, SubscribersShrink
<1>18. ASSUME NEW d \in Connections
       PROVE  (Carries(d, call[Worker(d)]) /\ FoundBefore(call[Worker(d)]))'
  <2>1. CASE d = c
    <3>1. Requested(c, k)' /\ FoundBefore(k)'
      BY <1>7 DEF Requested, FoundBefore, SubscribingLabels, WalkLabels
    <3>2. Sending(c, k)'
      BY <1>7, <1>10 DEF Sending
    <3>3. OnceEach(here)
      BY DEF BusInv, Carries
    <3>4. Found(k) = {}
      BY <1>3, <1>7, <3>3 DEF OnceEach, Found
    <3>5. OnceEach(k)'
      BY <1>7, <1>9, <1>15, <3>4 DEF OnceEach, WalkLabels, Found
    <3> QED
      BY <1>8, <2>1, <3>1, <3>2, <3>5, ZenonT(40) DEF Carries, Requested, Sending, OnceEach, FoundBefore,
         Asked, HasAsked, ToVisit, NextIsLater, EntryIsNew, Ahead, Below, Found, Before
  <2>2. CASE d # c
    <3>1. PICK j : j = call[Worker(d)]
      OBVIOUS
    <3>2. call'[Worker(d)] = j /\ j \in Calls /\ LocalOK(j)
      BY <1>8, <2>2, <3>1, ThreadFacts, Here DEF Moves
    <3>3. Carries(d, j) /\ FoundBefore(j)
      BY <3>1 DEF BusInv
    <3>4. Sending(d, j)'
      <4>1. [topic |-> t, from |-> c].from = c
        OBVIOUS
      <4> QED
        BY <1>10, <2>2, <3>3, <4>1 DEF Carries, Sending
    <3>5. FoundBefore(j)' /\ Requested(d, j)' /\ OnceEach(j)'
      BY <1>9, <1>16, <3>2, <3>3, FoundKept, RequestedKept, OnceEachKept
         DEF Carries, AskedGrow, SubscribersShrink
    <3> QED
      BY <3>2, <3>4, <3>5 DEF Carries, Requested, Sending, OnceEach, FoundBefore,
         Asked, HasAsked, ToVisit, NextIsLater, EntryIsNew, Ahead, Below, Found, Before
  <2> QED
    BY <2>1, <2>2
<1> QED
  BY <1>11, <1>12, <1>14, <1>17, <1>18 DEF BusInv

LEMMA BusEnqueue ==
  ASSUME TypeInv, TypeInv', BusInv, NEW c \in Connections, Enqueue(c)
  PROVE  BusInv'
<1>1. PICK here : here = call[Worker(c)]
  OBVIOUS
<1>2. PICK to, message :
        /\ to = here.entry.to
        /\ message = [msg |-> here.messageId, topic |-> here.topic,
                      id |-> here.entry.id, request |-> here.entry.request]
  OBVIOUS
<1>3. /\ here \in Calls /\ Worker(c) \in Threads /\ here.pc = "enqueue"
      /\ here.entry \in Nodes /\ to \in Connections /\ here.entry.request \in Nat
      /\ here.entry # Null
  BY <1>1, <1>2, Here, ProtocolAssumption DEF Enqueue, At, LocalOK, Nodes
<1>4. PICK k : k = [here EXCEPT !.pc = "nextEntry"]
  OBVIOUS
<1>5. /\ k.pc = "nextEntry" /\ k.map = here.map /\ k.topic = here.topic
      /\ k.todo = here.todo /\ k.messageId = here.messageId
      /\ k.entry = here.entry /\ k.next = here.next
  BY <1>3, <1>4 DEF Calls
<1>6. Moves(Worker(c)) /\ call'[Worker(c)] = k
  BY <1>1, <1>3, <1>4, Gone DEF Enqueue, Goto
<1>7. /\ UNCHANGED <<asked, published, clientSubscriptions, topicSubscriptions,
                     subscribers, messageCounter>>
      /\ inbox' = IF open[to] THEN [inbox EXCEPT ![to] = Append(@, message)] ELSE inbox
  BY <1>1, <1>2 DEF Enqueue, registryVars, topicTables, sessionVars
<1>8. Carries(c, here) /\ FoundBefore(here)
  BY <1>1 DEF BusInv
<1>9. /\ message.msg = here.messageId /\ message.request = here.entry.request
      /\ here.messageId \in DOMAIN published /\ published[here.messageId].from = c
      /\ here.entry \in Found(here) /\ Before(here.entry)
  BY <1>2, <1>3, <1>8 DEF Carries, Sending, FoundBefore, Found, SendLabels, WalkLabels
<1>10. \A d \in Connections : \A i \in DOMAIN inbox'[d] :
        \/ (i \in DOMAIN inbox[d] /\ inbox'[d][i] = inbox[d][i])
        \/ (d = to /\ inbox'[d][i] = message)
  <2>1. CASE ~open[to]
    BY <1>7, <2>1
  <2>2. CASE open[to]
    <3>1. ASSUME NEW d \in Connections, NEW i \in DOMAIN inbox'[d]
          PROVE  \/ (i \in DOMAIN inbox[d] /\ inbox'[d][i] = inbox[d][i])
                 \/ (d = to /\ inbox'[d][i] = message)
      <4>1. CASE d # to
        BY <1>3, <1>7, <2>2, <4>1, <3>1, TableFacts
      <4>2. CASE d = to
        <5>1. inbox'[d] = Append(inbox[d], message)
          BY <1>3, <1>7, <2>2, <4>2, TableFacts
        <5>2. inbox[d] \in Seq([msg : Nat, topic : Topics, id : SubIds, request : Nat])
          BY TableFacts
        <5> QED
          BY <3>1, <4>2, <5>1, <5>2
      <4> QED
        BY <4>1, <4>2
    <3> QED
      BY <3>1
  <2> QED
    BY <2>1, <2>2
<1>11. ASSUME NEW d \in Connections, NEW n, NEW r, Below(n, d, r),
              n = here.messageId /\ d = to => here.entry.request < r
       PROVE  Below(n, d, r)'
  BY <1>9, <1>10, <1>11 DEF Below
<1>12. Numbered'
  BY <1>7, <1>9, <1>10 DEF BusInv, Numbered
<1>13. OwnAsked'
  BY <1>7 DEF BusInv, OwnAsked, HasAsked, Subscription
<1>14. \A m \in Maps, u \in Topics : Serves(m, u)' => Serves(m, u)
  BY <1>1, <1>3, <1>5, <1>6, <1>7 DEF Moves, Serves, Holds, HoldLabels, WalkLabels
<1>15. OneTopic' /\ EntriesAsked'
  BY <1>7, <1>14, MapsKept DEF SubscribersShrink, AskedGrow
<1>16. RequestsGrow
  <2>1. \A d \in Connections : ~Begins(call[Worker(d)], call'[Worker(d)])
    BY <1>5, <1>6, ThreadFacts DEF Moves, Begins, SubscribingLabels
  <2> QED
    BY <1>7, <2>1, RequestsKept
<1>17. Earlier'
  <2>1. ASSUME NEW d \in Connections, NEW m \in Maps, subscribers'[m][d] # Null
        PROVE  Before(Node(d, subscribers[m][d]))'
    <3>1. PICK e : e = Node(d, subscribers[m][d])
      OBVIOUS
    <3>2. e.request \in Nat /\ e.to = d /\ e.request < Request(d)
      BY <1>7, <2>1, <3>1, EntryFacts DEF BusInv, Earlier, Before
    <3>3. e.request < Request(d)'
      BY <1>16, <3>2 DEF RequestsGrow
    <3> QED
      BY <1>7, <3>1, <3>2, <3>3 DEF Before, Node
  <2>2. ASSUME NEW d \in Connections, NEW i \in DOMAIN inbox'[d]
        PROVE  inbox'[d][i].request < Request(d)'
    <3>1. CASE i \in DOMAIN inbox[d] /\ inbox'[d][i] = inbox[d][i]
      <4>1. inbox[d][i].request \in Nat /\ inbox[d][i].request < Request(d)
        BY <3>1, InboxFacts DEF BusInv, Earlier
      <4> QED
        BY <1>16, <3>1, <4>1 DEF RequestsGrow
    <3>2. CASE d = to /\ inbox'[d][i] = message
      <4>1. here.entry.request < Request(to)
        BY <1>2, <1>9 DEF Before
      <4> QED
        BY <1>3, <1>9, <1>16, <3>2, <4>1 DEF RequestsGrow
    <3> QED
      BY <1>10, <2>2, <3>1, <3>2
  <2> QED
    BY <2>1, <2>2 DEF Earlier
<1>18. OnceEach(k)'
  <2>1. ToVisit(here) /\ NextIsLater(here)
    BY <1>3, <1>8 DEF Carries, OnceEach, WalkLabels
  <2>2. ToVisit(k)'
    <3>1. ASSUME NEW d \in k.todo, subscribers[k.map][d] # Null
          PROVE  Ahead(k, d, subscribers[k.map][d].request)'
      <4>1. PICK r : r = subscribers[k.map][d].request
        OBVIOUS
      <4>2. Ahead(here, d, r) /\ d \in Connections
        BY <1>1, <1>3, <1>5, <2>1, <3>1, <4>1, Here DEF ToVisit, LocalOK
      <4>3. d = to => here.entry.request < r
        BY <1>2, <1>9, <4>2 DEF Ahead
      <4>4. Below(k.messageId, d, r)'
        BY <1>5, <1>11, <4>2, <4>3 DEF Ahead
      <4>5. \A e \in Found(k) : e.to = d => e.request < r
        BY <1>5, <4>2 DEF Ahead, Found
      <4>6. Ahead(k, d, r)'
        BY <4>4, <4>5 DEF Ahead, Found
      <4> QED
        BY <1>7, <4>1, <4>6 DEF Ahead, Below, Found
    <3> QED
      BY <1>7, <3>1 DEF ToVisit
  <2>3. NextIsLater(k)'
    <3>1. CASE k.next = Null
      BY <3>1 DEF NextIsLater
    <3>2. CASE k.next # Null
      <4>1. k.next.to \in Connections
        BY <1>3, <1>5, <3>2, NodeFacts
      <4>2. /\ Below(here.messageId, k.next.to, k.next.request)
            /\ k.next.to = to => here.entry.request < k.next.request
        BY <1>2, <1>3, <1>5, <2>1, <3>2 DEF NextIsLater
      <4>3. Below(k.messageId, k.next.to, k.next.request)'
        BY <1>5, <1>11, <4>1, <4>2
      <4> QED
        BY <1>5, <2>1, <3>2, <4>3 DEF NextIsLater
    <3> QED
      BY <3>1, <3>2
  <2>4. EntryIsNew(k)'
    BY <1>5 DEF EntryIsNew
  <2> QED
    BY <1>5, <2>2, <2>3, <2>4 DEF OnceEach
<1>19. ASSUME NEW d \in Connections, d # c, NEW j, j = call[Worker(d)]
       PROVE  OnceEach(j)'
  <2>1. OnceEach(j) /\ Sending(d, j) /\ j \in Calls /\ LocalOK(j)
    BY <1>19, Here DEF BusInv, Carries
  <2>2. j.pc \in SendLabels => j.messageId # here.messageId
    BY <1>9, <1>19, <2>1 DEF Sending
  <2>3. j.pc \in WalkLabels =>
          \A o \in Connections : \A r : Below(j.messageId, o, r) => Below(j.messageId, o, r)'
    BY <1>11, <2>2 DEF SendLabels
  <2>4. j.pc \in WalkLabels => j.todo \subseteq Connections
    BY <2>1 DEF LocalOK, WalkLabels
  <2>5. \A e \in Found(j) : e.to \in Connections
    BY <2>1, NodeFacts
  <2>6. ASSUME j.pc \in WalkLabels PROVE ToVisit(j)'
    <3>1. ASSUME NEW o \in j.todo, subscribers[j.map][o] # Null
          PROVE  Ahead(j, o, subscribers[j.map][o].request)'
      <4>1. PICK r : r = subscribers[j.map][o].request
        OBVIOUS
      <4>2. Ahead(j, o, r)
        BY <2>1, <2>6, <3>1, <4>1 DEF OnceEach, ToVisit
      <4>3. Below(j.messageId, o, r)'
        BY <2>3, <2>4, <2>6, <4>2 DEF Ahead
      <4>4. Ahead(j, o, r)'
        BY <4>2, <4>3 DEF Ahead, Found
      <4> QED
        BY <1>7, <4>1, <4>4 DEF Ahead, Below, Found
    <3> QED
      BY <1>7, <3>1 DEF ToVisit
  <2>7. ASSUME j.pc \in WalkLabels PROVE NextIsLater(j)' /\ EntryIsNew(j)'
    BY <2>1, <2>3, <2>5, <2>7 DEF OnceEach, NextIsLater, EntryIsNew, Found
  <2>8. j.pc = "getSubscribers" =>
          \A o \in Connections : \A i \in DOMAIN inbox'[o] : inbox'[o][i].msg # j.messageId
    BY <1>9, <1>10, <2>1, <2>2 DEF OnceEach, SendLabels
  <2> QED
    BY <2>1, <2>6, <2>7, <2>8 DEF OnceEach, Found
<1>20. ASSUME NEW d \in Connections
       PROVE  (Carries(d, call[Worker(d)]) /\ FoundBefore(call[Worker(d)]))'
  <2>1. PICK j : j = call'[Worker(d)]
    OBVIOUS
  <2>2. Requested(d, j) /\ Sending(d, j) /\ FoundBefore(j) /\ j \in Calls
    <3>1. CASE d = c
      <4>1. j = k /\ Found(k) = Found(here)
        BY <1>5, <1>6, <2>1, <3>1 DEF Found
      <4>2. j \in Calls
        BY <2>1, ThreadFacts DEF TypeInv, CallOK
      <4> QED
        BY <1>3, <1>5, <1>8, <3>1, <4>1, <4>2 DEF Carries, Requested, Sending, FoundBefore,
           SubscribingLabels, SendLabels, WalkLabels
    <3>2. CASE d # c
      BY <1>6, <2>1, <3>2, ThreadFacts, Here DEF BusInv, Carries, Moves
    <3> QED
      BY <3>1, <3>2
  <2>3. OnceEach(j)'
    <3>1. CASE d = c
      BY <1>6, <1>18, <2>1, <3>1
    <3>2. CASE d # c
      BY <1>6, <1>19, <2>1, <3>2, ThreadFacts DEF Moves
    <3> QED
      BY <3>1, <3>2
  <2>4. FoundBefore(j)' /\ Requested(d, j)' /\ Sending(d, j)'
    <3>1. AskedGrow
      BY <1>7 DEF AskedGrow
    <3> QED
      BY <1>7, <1>16, <2>2, <3>1, FoundKept, RequestedKept DEF Sending
  <2> QED
    BY <2>1, <2>3, <2>4 DEF Carries, Requested, Sending, OnceEach, FoundBefore,
       Asked, HasAsked, ToVisit, NextIsLater, EntryIsNew, Ahead, Below, Found, Before
<1> QED
  BY <1>12, <1>13, <1>15, <1>17, <1>20 DEF BusInv

-----------------------------------------------------------------------------
LEMMA BusInit == Init => BusInv
<1> SUFFICES ASSUME Init PROVE BusInv
  OBVIOUS
<1>1. /\ topicSubscriptions = [t \in Topics |-> Null]
      /\ clientSubscriptions = [c \in Connections |-> [id \in SubIds |-> Null]]
      /\ call = [p \in Threads |-> Idle]
      /\ messageCounter = 0 /\ published = <<>>
      /\ subscribers = [m \in Maps |-> NoEntries]
      /\ inbox = [c \in Connections |-> <<>>]
  BY DEF Init, RegistryInit
<1>2. \A p \in Threads : call[p].pc \in PlainLabels
  BY <1>1, PlainFacts
<1>3. \A m \in Maps, t \in Topics : ~Serves(m, t)
  BY <1>1, <1>2, RegistryAssumption DEF Serves, Holds, PlainLabels
<1>4. OneTopic /\ EntriesAsked
  BY <1>3 DEF OneTopic, EntriesAsked
<1>5. Numbered /\ OwnAsked
  BY <1>1 DEF Numbered, OwnAsked
<1>6. \A c \in Connections : Carries(c, call[Worker(c)]) /\ FoundBefore(call[Worker(c)])
  BY <1>2, PlainCarries, ThreadFacts
<1>7. Earlier
  BY <1>1 DEF Earlier, NoEntries
<1> QED
  BY <1>4, <1>5, <1>6, <1>7 DEF BusInv

LEMMA BusNext == TypeInv /\ BusInv /\ [Next]_vars => BusInv'
<1> SUFFICES ASSUME TypeInv, BusInv, [Next]_vars PROVE BusInv'
  OBVIOUS
<1>1. TypeInv'
  BY TypeInvNext
<1>2. CASE UNCHANGED vars
  BY <1>2, BusSame DEF vars, registryVars, topicTables, sessionVars, messageVars
<1>3. CASE Accept
  BY <1>3, BusAccept
<1>4. ASSUME NEW c \in Connections, Close(c) PROVE BusInv'
  BY <1>1, <1>4, ClosePlain, BusPlain, ThreadFacts
<1>5. ASSUME NEW c \in Connections, NEW f \in Frames[c], Receive(c, f) PROVE BusInv'
  <2>1. CASE HandleSend(c, f)
    BY <1>1, <2>1, BusHandleSend, FrameFacts
  <2>2. CASE HandleSubscribe(c, f)
    BY <1>1, <2>2, BusHandleSubscribe, FrameFacts
  <2>3. CASE \/ HandleConnect(c, f) \/ HandleUnknown(c, f)
             \/ HandleUnsubscribe(c, f) \/ HandleDisconnect(c, f)
    BY <1>1, <2>3, ReceivePlain, BusPlain, ThreadFacts
  <2> QED
    BY <1>5, <2>1, <2>2, <2>3 DEF Receive
<1>6. ASSUME NEW c \in Connections, WorkerStep(c) PROVE BusInv'
  <2>1. CASE \/ SendError(c) \/ MarkForTermination(c) \/ SendReceiptIfRequested(c)
             \/ CheckUserActive(c) \/ AuthenticateUser(c)
    BY <1>1, <2>1, AnswersPlain, BusPlain, ThreadFacts
  <2>2. CASE \/ UnsubscribeNext(c) \/ ClearSubscriptions(c) \/ ContainsTopic(c)
             \/ RemoveOwnSubscription(c) \/ TestEmpty(c) \/ RemoveEmptyTopic(c)
    BY <1>1, <2>2, UnsubscribePlain, BusPlain, ThreadFacts
  <2>3. CASE GetTopic(c) \/ GetForRemove(c) \/ GetForEmpty(c)
    BY <1>1, <2>3, BusGet
  <2>4. CASE \/ GetSubscribers(c) \/ Advance(c) \/ NextEntry(c) \/ EndOfSend(c)
             \/ Lookup(c)
    BY <1>1, <2>4, BusGetSubscribers, BusAdvance, BusNextEntry, BusReturn, BusLookup
       DEF EndOfSend
  <2>5. CASE \/ PutTopic(c) \/ PutOwnSubscription(c) \/ NextMessageId(c) \/ Enqueue(c)
    BY <1>1, <2>5, BusPutTopic, BusPutOwnSubscription, BusNextMessageId, BusEnqueue
  <2> QED
    BY <1>6, <2>1, <2>2, <2>3, <2>4, <2>5 DEF WorkerStep
<1>7. ASSUME NEW p \in Threads, DisconnectStep(p) PROVE BusInv'
  BY <1>1, <1>7, DisconnectPlain, BusPlain
<1> QED
  BY <1>2, <1>3, <1>4, <1>5, <1>6, <1>7 DEF Next

(***************************************************************************)
(* What the handlers rely on without a lock holds in every state: an inner *)
(* map serves one topic for as long as a handler uses it, its entries were *)
(* asked for, and a handler still has to visit whoever has not received    *)
(* its message.                                                            *)
(***************************************************************************)
THEOREM BusInvariant == Spec => []BusInv
  BY TypeInvInit, TypeInvNext, BusInit, BusNext, PTL DEF Spec

-----------------------------------------------------------------------------
(* Each step is a step of the bus, or leaves what the clients see as it is. *)

LEMMA AskStep ==
  ASSUME TypeInv, NEW c \in Connections, NEW f \in FrameType, HandleSubscribe(c, f)
  PROVE  [Bus!Next]_(Bus!vars)
<1>1. UNCHANGED <<published, inbox>>
  BY DEF HandleSubscribe, Process, ProcessAs
<1>2. CASE UNCHANGED asked
  BY <1>1, <1>2 DEF Bus!vars
<1>3. CASE /\ f.destination # Null /\ f.id \notin {Null, BadId}
           /\ asked' = [asked EXCEPT ![c] =
                Append(@, [topic |-> f.destination, id |-> f.id])]
  <2>1. f.destination \in Topics /\ f.id \in SubIds
    BY <1>3 DEF FrameType
  <2> QED
    BY <1>1, <1>3, <2>1 DEF Bus!Ask, Bus!Next
<1> QED
  BY <1>2, <1>3 DEF HandleSubscribe

LEMMA PublishStep ==
  ASSUME TypeInv, BusInv, NEW c \in Connections, NextMessageId(c)
  PROVE  Bus!Next
<1>1. /\ published' = Append(published, [topic |-> call[Worker(c)].topic, from |-> c])
      /\ UNCHANGED <<asked, inbox>>
  BY DEF NextMessageId
<1>2. PICK id \in SubIds : HasAsked(c, call[Worker(c)].topic, id)
  BY DEF BusInv, Carries, Requested, NextMessageId, At
<1>3. PICK r \in DOMAIN asked[c] : asked[c][r] = Subscription(call[Worker(c)].topic, id)
  BY <1>2 DEF HasAsked
<1>4. asked[c][r].topic = call[Worker(c)].topic
  BY <1>3 DEF Subscription
<1>5. Bus!Publish(c)
  BY <1>1, <1>4 DEF Bus!Publish
<1> QED
  BY <1>5 DEF Bus!Next

LEMMA DeliverStep ==
  ASSUME TypeInv, BusInv, NEW c \in Connections, Enqueue(c)
  PROVE  [Bus!Next]_(Bus!vars)
<1>1. PICK here : here = call[Worker(c)]
  OBVIOUS
<1>2. PICK to, n, r : to = here.entry.to /\ n = here.messageId /\ r = here.entry.request
  OBVIOUS
<1>3. /\ here.pc = "enqueue" /\ to \in Connections /\ here.entry # Null /\ r \in Nat
  BY <1>1, <1>2, Here, ProtocolAssumption DEF Enqueue, At, LocalOK, Nodes
<1>4. /\ inbox' = IF open[to] THEN [inbox EXCEPT ![to] = Append(@,
                    [msg |-> n, topic |-> here.topic, id |-> here.entry.id,
                     request |-> r])] ELSE inbox
      /\ UNCHANGED <<asked, published>>
  BY <1>1, <1>2 DEF Enqueue
<1>5. Carries(c, here)
  BY <1>1 DEF BusInv
<1>6. /\ n \in DOMAIN published /\ published[n].topic = here.topic
      /\ published[n].from = c
      /\ \A m \in DOMAIN published : published[m].from = c => m <= n
  BY <1>2, <1>3, <1>5 DEF Carries, Sending, SendLabels, WalkLabels
<1>7. Below(n, to, r)
  BY <1>2, <1>3, <1>5 DEF Carries, OnceEach, EntryIsNew, WalkLabels
<1>8. /\ r \in DOMAIN asked[to]
      /\ asked[to][r] = Subscription(here.topic, here.entry.id)
  BY <1>2, <1>3, <1>5 DEF Carries, Requested, Asked, Found, WalkLabels
<1>9. CASE ~open[to]
  BY <1>4, <1>9 DEF Bus!vars
<1>10. CASE open[to]
  <2>1. Bus!Later(n, r, to)
    <3>1. ASSUME NEW i \in DOMAIN inbox[to], published[inbox[to][i].msg].from = c
          PROVE  \/ inbox[to][i].msg < n
                 \/ (inbox[to][i].msg = n /\ inbox[to][i].request < r)
      <4>1. inbox[to][i].msg \in DOMAIN published
        BY <1>3 DEF BusInv, Numbered
      <4>2. inbox[to][i].msg <= n
        <5>1. PICK j : j = inbox[to][i].msg
          OBVIOUS
        <5> QED
          BY <1>6, <3>1, <4>1, <5>1
      <4>3. inbox[to][i].msg \in Nat /\ n \in Nat
        <5>1. published \in Seq([topic : Topics, from : Connections])
          BY TableFacts
        <5>2. DOMAIN published = 1..Len(published) /\ Len(published) \in Nat
          BY <5>1, LenProperties
        <5> QED
          BY <1>6, <4>1, <5>2
      <4>4. inbox[to][i].msg = n => inbox[to][i].request < r
        BY <1>7 DEF Below
      <4> QED
        BY <4>2, <4>3, <4>4
    <3> QED
      BY <1>6, <3>1 DEF Bus!Later
  <2>2. PICK s : s = asked[to][r]
    OBVIOUS
  <2>3. s.topic = here.topic /\ s.id = here.entry.id
    BY <1>8, <2>2 DEF Subscription
  <2>4. Bus!Deliver(to)
    BY <1>4, <1>6, <1>8, <1>10, <2>1, <2>2, <2>3 DEF Bus!Deliver
  <2> QED
    BY <1>3, <2>4 DEF Bus!Next
<1> QED
  BY <1>9, <1>10

LEMMA BusStep ==
  ASSUME TypeInv, BusInv, [Next]_vars
  PROVE  [Bus!Next]_(Bus!vars)
<1>1. ASSUME NEW p, Plain(p) PROVE UNCHANGED <<asked, published, inbox>>
  BY <1>1 DEF Plain, Quiet
<1>2. CASE UNCHANGED <<asked, published, inbox>>
  BY <1>2 DEF Bus!vars
<1>3. CASE UNCHANGED vars \/ Accept
  BY <1>2, <1>3 DEF vars, messageVars, Accept
<1>4. ASSUME NEW c \in Connections, Close(c) PROVE [Bus!Next]_(Bus!vars)
  BY <1>1, <1>2, <1>4, ClosePlain
<1>5. ASSUME NEW c \in Connections, NEW f \in Frames[c], Receive(c, f)
      PROVE  [Bus!Next]_(Bus!vars)
  <2>1. CASE HandleSubscribe(c, f)
    BY <2>1, AskStep, FrameFacts
  <2>2. CASE Receive(c, f) /\ ~HandleSubscribe(c, f)
    <3>1. UNCHANGED <<asked, published, inbox>>
      BY <2>2 DEF Receive, HandleConnect, HandleUnknown, HandleUnsubscribe,
         HandleDisconnect, HandleSend, Process, ProcessAs
    <3> QED
      BY <1>2, <3>1
  <2> QED
    BY <1>5, <2>1, <2>2
<1>6. ASSUME NEW c \in Connections, WorkerStep(c) PROVE [Bus!Next]_(Bus!vars)
  <2>1. CASE \/ SendError(c) \/ MarkForTermination(c) \/ SendReceiptIfRequested(c)
             \/ CheckUserActive(c) \/ AuthenticateUser(c)
    BY <1>1, <1>2, <2>1, AnswersPlain
  <2>2. CASE \/ UnsubscribeNext(c) \/ ClearSubscriptions(c) \/ ContainsTopic(c)
             \/ RemoveOwnSubscription(c) \/ TestEmpty(c) \/ RemoveEmptyTopic(c)
    BY <1>1, <1>2, <2>2, UnsubscribePlain
  <2>3. CASE \/ GetTopic(c) \/ GetForRemove(c) \/ GetForEmpty(c)
             \/ GetSubscribers(c) \/ Advance(c) \/ NextEntry(c) \/ EndOfSend(c)
             \/ Lookup(c) \/ PutTopic(c) \/ PutOwnSubscription(c)
    <3>1. UNCHANGED <<asked, published, inbox>>
      BY <2>3 DEF GetTopic, GetForRemove, GetForEmpty, Get, GetSubscribers, Advance, NextEntry,
         EndOfSend, Lookup, PutTopic, PutOwnSubscription, OnlyCall, OnlyTables,
         messageVars
    <3> QED
      BY <1>2, <3>1
  <2>4. CASE NextMessageId(c) \/ Enqueue(c)
    BY <2>4, PublishStep, DeliverStep
  <2> QED
    BY <1>6, <2>1, <2>2, <2>3, <2>4 DEF WorkerStep
<1>7. ASSUME NEW p \in Threads, DisconnectStep(p) PROVE [Bus!Next]_(Bus!vars)
  BY <1>1, <1>2, <1>7, DisconnectPlain
<1> QED
  BY <1>3, <1>4, <1>5, <1>6, <1>7 DEF Next

(***************************************************************************)
(* The handlers implement the bus: every message has an id of its own, and *)
(* a client receives it at most once for each time it asked for the topic, *)
(* under the id it gave then, and after the earlier messages of the same   *)
(* sender, whatever the other threads do to the tables that the sender     *)
(* walks. A walk that comes back to a client finds a later request of it.  *)
(***************************************************************************)
THEOREM HandlersImplementBus == Spec => ImplementsBus
<1>1. Init => Bus!Init
  BY DEF Init, Bus!Init
<1>2. TypeInv /\ BusInv /\ [Next]_vars => [Bus!Next]_(Bus!vars)
  BY BusStep
<1> QED
  BY TypeInvInit, TypeInvNext, BusInit, BusNext, <1>1, <1>2, PTL
     DEF Spec, ImplementsBus, Bus!Spec

-----------------------------------------------------------------------------
(* What is listed in the shared table, and who can change it *)

Listed(c, t) ==
  /\ topicSubscriptions[t] # Null
  /\ subscribers[topicSubscriptions[t]][c] # Null

(* What belongs to client c alone changes with a step of its own worker. *)
OwnStep(c) ==
  \/ WorkerStep(c)
  \/ \E f \in Frames[c] : Receive(c, f)
  \/ DisconnectStep(Worker(c))

(* A put changes what the iterators of others will find, and nothing else of *)
(* the other threads.                                                        *)
Kept(k, l) ==
  /\ l.pc = k.pc /\ l.frame = k.frame /\ l.topic = k.topic /\ l.map = k.map
  /\ k.pc \notin WalkLabels => l = k

Leads(p) == \A q \in Threads : q # p => Kept(call[q], call'[q])

LEMMA MovesLeads ==
  ASSUME NEW p, Moves(p)
  PROVE  Leads(p)
  BY DEF Moves, Leads, Kept

LEMMA PutLeads ==
  ASSUME TypeInv, NEW c \in Connections, PutOwnSubscription(c)
  PROVE  Leads(Worker(c))
<1>1. PICK m, new : /\ m = call[Worker(c)].map
                    /\ new = [id |-> FrameOf(c).id, request |-> Len(asked[c])]
  OBVIOUS
<1>2. /\ call' \in [Threads -> Calls]
      /\ \A p \in Threads : p # Worker(c)
              => Overtaken(call[p], call'[p], c, m, subscribers[m][c], new)
  BY <1>1, PutFacts
<1> QED
  BY <1>2, OvertakenFacts DEF Leads, Kept, TypeInv, CallOK

LEMMA WorkerMoves ==
  ASSUME TypeInv, NEW c \in Connections, WorkerStep(c)
  PROVE  /\ Leads(Worker(c)) /\ UNCHANGED <<asked, open, late>>
         /\ \A d \in Connections :
              d # c => /\ clientSubscriptions'[d] = clientSubscriptions[d]
                       /\ shouldTerminate'[d] = shouldTerminate[d]
<1>1. CASE \/ SendError(c) \/ MarkForTermination(c) \/ SendReceiptIfRequested(c)
           \/ CheckUserActive(c) \/ AuthenticateUser(c)
  <2>1. Leads(Worker(c))
    BY <1>1, AnswersPlain, MovesLeads DEF Plain, Quiet
  <2>2. UNCHANGED <<asked, open, late, clientSubscriptions>>
    BY <1>1 DEF SendError, MarkForTermination, SendReceiptIfRequested, CheckUserActive,
       AuthenticateUser, LogIn, OnlyCall, OnlyTables, sessionVars, messageVars,
       TransportSame
  <2>3. \A d \in Connections : d # c => shouldTerminate'[d] = shouldTerminate[d]
    BY <1>1 DEF SendError, MarkForTermination, SendReceiptIfRequested, CheckUserActive,
       AuthenticateUser, LogIn, OnlyCall, OnlyTables, sessionVars, TypeInv, DataOK
  <2> QED
    BY <2>1, <2>2, <2>3
<1>2. CASE \/ UnsubscribeNext(c) \/ ClearSubscriptions(c) \/ ContainsTopic(c)
           \/ RemoveOwnSubscription(c) \/ TestEmpty(c) \/ RemoveEmptyTopic(c)
  <2>1. Leads(Worker(c))
    BY <1>2, UnsubscribePlain, MovesLeads DEF Plain, Quiet
  <2>2. UNCHANGED <<asked, open, late, shouldTerminate>>
    BY <1>2 DEF UnsubscribeNext, ClearSubscriptions, ContainsTopic,
       RemoveOwnSubscription, TestEmpty, RemoveEmptyTopic, OnlyCall, OnlyTables,
       sessionVars, messageVars, TransportSame
  <2>3. \A d \in Connections : d # c => clientSubscriptions'[d] = clientSubscriptions[d]
    BY <1>2, TableFacts DEF UnsubscribeNext, ClearSubscriptions, ContainsTopic,
       RemoveOwnSubscription, TestEmpty, RemoveEmptyTopic, OnlyCall, OnlyTables,
       sessionVars
  <2> QED
    BY <2>1, <2>2, <2>3
<1>3. CASE \/ GetTopic(c) \/ GetForRemove(c) \/ GetForEmpty(c)
           \/ GetSubscribers(c) \/ Advance(c) \/ NextEntry(c) \/ EndOfSend(c)
           \/ Lookup(c) \/ PutTopic(c) \/ PutOwnSubscription(c)
           \/ NextMessageId(c) \/ Enqueue(c)
  <2>1. Leads(Worker(c))
    <3>1. CASE GetTopic(c) \/ GetForRemove(c) \/ GetForEmpty(c) \/ GetSubscribers(c)
               \/ EndOfSend(c)
      <4>1. Moves(Worker(c))
        BY <3>1, TableFacts DEF GetTopic, GetForRemove, GetForEmpty, Get, GetSubscribers,
           EndOfSend, Return, Moves
      <4> QED
        BY <4>1, MovesLeads
    <3>2. CASE Advance(c) \/ NextEntry(c) \/ NextMessageId(c)
      <4>1. Moves(Worker(c))
        BY <3>2, TableFacts DEF Advance, NextEntry, NextMessageId, Goto, Moves
      <4> QED
        BY <4>1, MovesLeads
    <3>3. CASE Lookup(c) \/ PutTopic(c) \/ Enqueue(c)
      <4>1. Moves(Worker(c))
        BY <3>3, TableFacts DEF Lookup, PutTopic, Enqueue, Goto, Moves
      <4> QED
        BY <4>1, MovesLeads
    <3>4. CASE PutOwnSubscription(c)
      BY <3>4, PutLeads
    <3> QED
      BY <1>3, <3>1, <3>2, <3>3, <3>4
  <2>2. UNCHANGED <<asked, open, late, clientSubscriptions, shouldTerminate>>
    BY <1>3 DEF GetTopic, GetForRemove, GetForEmpty, Get, GetSubscribers, Advance,
       NextEntry, EndOfSend, Lookup, PutTopic, PutOwnSubscription, NextMessageId, Enqueue,
       OnlyCall, OnlyTables, sessionVars, messageVars, TransportSame
  <2> QED
    BY <2>1, <2>2
<1> QED
  BY <1>1, <1>2, <1>3 DEF WorkerStep

LEMMA ReceiveMoves ==
  ASSUME TypeInv, NEW c \in Connections, NEW f \in FrameType, Receive(c, f)
  PROVE  /\ Moves(Worker(c)) /\ UNCHANGED <<registryVars, open>>
         /\ At(Worker(c), "idle") /\ c \in 1..connectionCounter
         /\ late' = [late EXCEPT ![c] = @ \/ ~open[c]]
         /\ \A d \in Connections :
              d # c => /\ clientSubscriptions'[d] = clientSubscriptions[d]
                       /\ shouldTerminate'[d] = shouldTerminate[d]
                       /\ asked'[d] = asked[d]
<1>1. PICK label, topic, todo : ProcessAs(c, f, label, topic, todo)
  BY DEF Receive, HandleConnect, HandleSubscribe, HandleUnsubscribe, HandleSend,
     HandleDisconnect, HandleUnknown, Process
<1>2. Moves(Worker(c))
  BY <1>1, PlainProcess
<1>3. \A d \in Connections : d # c => clientSubscriptions'[d] = clientSubscriptions[d]
  <2>1. \/ UNCHANGED clientSubscriptions
        \/ \E id, t : clientSubscriptions' = [clientSubscriptions EXCEPT ![c][id] = t]
    BY DEF Receive, HandleConnect, HandleSubscribe, HandleUnsubscribe, HandleSend,
       HandleDisconnect, HandleUnknown, sessionVars
  <2> QED
    BY <2>1, TableFacts
<1>4. \A d \in Connections : d # c => shouldTerminate'[d] = shouldTerminate[d]
  <2>1. \/ UNCHANGED shouldTerminate
        \/ shouldTerminate' = [shouldTerminate EXCEPT ![c] = TRUE]
    BY DEF Receive, HandleConnect, HandleSubscribe, HandleUnsubscribe, HandleSend,
       HandleDisconnect, HandleUnknown, sessionVars
  <2> QED
    BY <2>1 DEF TypeInv, DataOK
<1>5. \A d \in Connections : d # c => asked'[d] = asked[d]
  <2>1. \/ UNCHANGED asked
        \/ \E S : asked' = [asked EXCEPT ![c] = S]
    BY DEF Receive, HandleConnect, HandleSubscribe, HandleUnsubscribe, HandleSend,
       HandleDisconnect, HandleUnknown, sessionVars
  <2> QED
    BY <2>1, TableFacts
<1> QED
  BY <1>1, <1>2, <1>3, <1>4, <1>5 DEF ProcessAs

LEMMA DisconnectMoves ==
  ASSUME TypeInv, NEW p \in Threads, DisconnectStep(p)
  PROVE  /\ Moves(p)
         /\ UNCHANGED <<asked, open, late, clientSubscriptions, shouldTerminate>>
<1>1. Moves(p)
  BY DisconnectPlain DEF Plain, Quiet
<1>2. UNCHANGED <<asked, open, late, clientSubscriptions, shouldTerminate>>
  BY DEF DisconnectStep, Disconnect, EnterMonitor, SweepNext, SweepOne, ExitMonitor,
     RemoveUser, OnlyCall, OnlyTables, sessionVars, messageVars, TransportSame
<1> QED
  BY <1>1, <1>2

LEMMA OwnKept ==
  ASSUME TypeInv, [Next]_vars, NEW c \in Connections, ~OwnStep(c)
  PROVE  /\ Kept(call[Worker(c)], call'[Worker(c)])
         /\ clientSubscriptions'[c] = clientSubscriptions[c]
         /\ shouldTerminate'[c] = shouldTerminate[c]
         /\ asked'[c] = asked[c]
<1>1. CASE UNCHANGED vars \/ Accept
  BY <1>1 DEF vars, sessionVars, messageVars, Accept, Kept
<1>2. ASSUME NEW d \in Connections, Close(d)
      PROVE  /\ Kept(call[Worker(c)], call'[Worker(c)])
             /\ UNCHANGED <<sessionVars, asked>>
  <2>1. Moves(Closer(d))
    BY <1>2, ClosePlain DEF Plain, Quiet
  <2> QED
    BY <1>2, <2>1, ThreadFacts DEF Close, Moves, Kept, messageVars
<1>3. CASE \E d \in Connections : Close(d)
  BY <1>2, <1>3 DEF sessionVars
<1>4. ASSUME NEW d \in Connections, WorkerStep(d)
      PROVE  /\ Kept(call[Worker(c)], call'[Worker(c)])
             /\ clientSubscriptions'[c] = clientSubscriptions[c]
             /\ shouldTerminate'[c] = shouldTerminate[c]
             /\ asked'[c] = asked[c]
  <2>1. d # c
    BY <1>4 DEF OwnStep
  <2> QED
    BY <1>4, <2>1, WorkerMoves, ThreadFacts DEF Leads
<1>5. ASSUME NEW d \in Connections, NEW f \in Frames[d], Receive(d, f)
      PROVE  /\ Kept(call[Worker(c)], call'[Worker(c)])
             /\ clientSubscriptions'[c] = clientSubscriptions[c]
             /\ shouldTerminate'[c] = shouldTerminate[c]
             /\ asked'[c] = asked[c]
  <2>1. d # c
    BY <1>5 DEF OwnStep
  <2> QED
    BY <1>5, <2>1, ReceiveMoves, FrameFacts, ThreadFacts DEF Moves, Kept
<1>6. ASSUME NEW p \in Threads, DisconnectStep(p)
      PROVE  /\ Kept(call[Worker(c)], call'[Worker(c)])
             /\ UNCHANGED <<clientSubscriptions, shouldTerminate, asked>>
  <2>1. p # Worker(c)
    BY <1>6 DEF OwnStep
  <2> QED
    BY <1>6, <2>1, DisconnectMoves, ThreadFacts DEF Moves, Kept
<1> QED
  BY <1>1, <1>3, <1>4, <1>5, <1>6 DEF Next

(* A client gets into the table by its own putSubscriber only. *)
LEMMA ListedBefore ==
  ASSUME TypeInv, [Next]_vars, NEW c \in Connections, NEW t \in Topics, Listed(c, t)'
  PROVE  /\ topicSubscriptions'[t] = topicSubscriptions[t]
         /\ \/ Listed(c, t)
            \/ PutOwnSubscription(c) /\ topicSubscriptions[t] = call[Worker(c)].map
<1>1. ASSUME SubscribersShrink, TopicsShrink
      PROVE  Listed(c, t) /\ topicSubscriptions'[t] = topicSubscriptions[t]
  BY <1>1, TableFacts DEF Listed, SubscribersShrink, TopicsShrink
<1>2. ASSUME UNCHANGED topicTables
      PROVE  Listed(c, t) /\ topicSubscriptions'[t] = topicSubscriptions[t]
  BY <1>2 DEF topicTables, Listed
<1>3. ASSUME NEW p, Plain(p)
      PROVE  Listed(c, t) /\ topicSubscriptions'[t] = topicSubscriptions[t]
  BY <1>1, <1>3 DEF Plain, Quiet, Shrinks
<1>4. CASE UNCHANGED vars \/ Accept
  BY <1>2, <1>4 DEF vars, registryVars, Accept, Register
<1>5. ASSUME NEW d \in Connections, Close(d)
      PROVE  Listed(c, t) /\ topicSubscriptions'[t] = topicSubscriptions[t]
  BY <1>2, <1>5 DEF Close, registryVars
<1>6. ASSUME NEW d \in Connections, NEW f \in Frames[d], Receive(d, f)
      PROVE  Listed(c, t) /\ topicSubscriptions'[t] = topicSubscriptions[t]
  <2>1. UNCHANGED topicTables
    BY <1>6, ReceiveMoves, FrameFacts DEF registryVars
  <2> QED
    BY <1>2, <2>1
<1>7. ASSUME NEW p \in Threads, DisconnectStep(p)
      PROVE  Listed(c, t) /\ topicSubscriptions'[t] = topicSubscriptions[t]
  BY <1>3, <1>7, DisconnectPlain
<1>8. ASSUME NEW d \in Connections, WorkerStep(d)
      PROVE  /\ topicSubscriptions'[t] = topicSubscriptions[t]
             /\ \/ Listed(c, t)
                \/ PutOwnSubscription(c) /\ topicSubscriptions[t] = call[Worker(c)].map
  <2>1. CASE \/ SendError(d) \/ MarkForTermination(d) \/ SendReceiptIfRequested(d)
             \/ CheckUserActive(d) \/ AuthenticateUser(d)
    BY <1>3, <2>1, AnswersPlain
  <2>2. CASE \/ UnsubscribeNext(d) \/ ClearSubscriptions(d) \/ ContainsTopic(d)
             \/ RemoveOwnSubscription(d) \/ TestEmpty(d) \/ RemoveEmptyTopic(d)
    BY <1>3, <2>2, UnsubscribePlain
  <2>3. CASE \/ GetTopic(d) \/ GetForRemove(d) \/ GetForEmpty(d)
             \/ GetSubscribers(d) \/ Advance(d) \/ NextEntry(d) \/ EndOfSend(d)
             \/ Lookup(d) \/ NextMessageId(d) \/ Enqueue(d)
    <3>1. UNCHANGED topicTables
      BY <2>3 DEF GetTopic, GetForRemove, GetForEmpty, Get, GetSubscribers, Advance,
         NextEntry, EndOfSend, Lookup, NextMessageId, GetNextMessageId, Enqueue, OnlyCall,
         registryVars
    <3> QED
      BY <1>2, <3>1
  <2>4. CASE PutTopic(d)
    <3>1. PICK m \in Maps : PutTopicIfAbsent(call[Worker(d)].topic, m) /\ m \notin Referenced
      BY <2>4 DEF PutTopic
    <3>2. call[Worker(d)].topic \in Topics
      BY <2>4, Here DEF PutTopic, At, LocalOK, TopicLabels
    <3>3. \A u \in Topics : topicSubscriptions[u] # m
      BY <3>1 DEF Referenced
    <3>4. CASE UNCHANGED topicTables
      BY <1>2, <3>4
    <3>5. CASE /\ topicSubscriptions' =
                    [topicSubscriptions EXCEPT ![call[Worker(d)].topic] = m]
               /\ subscribers' = [subscribers EXCEPT ![m] = NoEntries]
      <4>1. t # call[Worker(d)].topic
        BY <3>1, <3>2, <3>5, TableFacts DEF Listed, NoEntries
      <4> QED
        BY <3>1, <3>3, <3>5, <4>1, TableFacts DEF Listed
    <3> QED
      BY <3>1, <3>4, <3>5 DEF PutTopicIfAbsent
  <2>5. CASE PutOwnSubscription(d)
    <3>a. PICK m, new : /\ m = call[Worker(d)].map
                        /\ new = [id |-> FrameOf(d).id, request |-> Len(asked[d])]
      OBVIOUS
    <3>b. PutSubscriber(m, d, new)
      BY <2>5, <3>a, PutFacts
    <3>1. /\ UNCHANGED topicSubscriptions
          /\ subscribers' = [subscribers EXCEPT ![call[Worker(d)].map][d] = new]
      BY <3>a, <3>b DEF PutSubscriber
    <3>2. topicSubscriptions[t] \in Maps
      BY <3>1, TableFacts DEF Listed
    <3>3. CASE c = d /\ topicSubscriptions[t] = call[Worker(d)].map
      BY <2>5, <3>1, <3>3
    <3>4. CASE ~(c = d /\ topicSubscriptions[t] = call[Worker(d)].map)
      <4>1. subscribers'[topicSubscriptions[t]][c] = subscribers[topicSubscriptions[t]][c]
        BY <3>1, <3>2, <3>4, TableFacts
      <4> QED
        BY <3>1, <4>1 DEF Listed
    <3> QED
      BY <3>3, <3>4
  <2> QED
    BY <1>8, <2>1, <2>2, <2>3, <2>4, <2>5 DEF WorkerStep
<1> QED
  BY <1>4, <1>5, <1>6, <1>7, <1>8 DEF Next

-----------------------------------------------------------------------------
(***************************************************************************)
(* NotListedAfterUnsubscribe. Between the removal from clientSubscriptions *)
(* and the removal from the inner map the client is listed and does not    *)
(* have the topic; and the map that the handler got may not be the one in  *)
(* the table any more, but then the newer one never listed the client.     *)
(***************************************************************************)
OneTopicPerId(c) ==
  \A i, j \in DOMAIN asked[c] :
    asked[c][i].id = asked[c][j].id => asked[c][i] = asked[c][j]

Removing(c, t) ==
  /\ call[Worker(c)].pc \in {"containsTopic", "getForRemove", "removeSubscriber"}
  /\ call[Worker(c)].topic = t

SubscribedFirst(c) ==
  call[Worker(c)].pc \in SubscribingLabels
    => clientSubscriptions[c][FrameOf(c).id] = call[Worker(c)].topic

RemovesFromTable(c) ==
  call[Worker(c)].pc = "removeSubscriber" /\ Listed(c, call[Worker(c)].topic)
    => topicSubscriptions[call[Worker(c)].topic] = call[Worker(c)].map

Leaving(c) ==
  \/ call[Worker(c)].pc = "unsubscribeAll"
  \/ call[Worker(c)].pc \in RemovalLabels /\ FrameOf(c).command = "DISCONNECT"

ListedHasTopic(c) ==
  ~shouldTerminate[c] /\ OneTopicPerId(c)
    => \A t \in Topics : Listed(c, t) => SubscribedTo(c, t) \/ Removing(c, t)

ListedOK(c) ==
  /\ SubscribedFirst(c)
  /\ RemovesFromTable(c)
  /\ Leaving(c) => shouldTerminate[c]
  /\ ListedHasTopic(c)

ListInv == \A c \in Connections : ListedOK(c)

(* A step of somebody else *)
LEMMA ListedKept ==
  ASSUME TypeInv, [Next]_vars, NEW c \in Connections, ListedOK(c), ~OwnStep(c)
  PROVE  ListedOK(c)'
<1>1. /\ Kept(call[Worker(c)], call'[Worker(c)])
      /\ clientSubscriptions'[c] = clientSubscriptions[c]
      /\ shouldTerminate'[c] = shouldTerminate[c]
      /\ asked'[c] = asked[c]
  BY OwnKept
<1>2. ~PutOwnSubscription(c)
  BY DEF OwnStep, WorkerStep
<1>3. \A t \in Topics : Listed(c, t)'
        => Listed(c, t) /\ topicSubscriptions'[t] = topicSubscriptions[t]
  BY <1>2, ListedBefore
<1>4. SubscribedFirst(c)' /\ (Leaving(c) => shouldTerminate[c])'
  BY <1>1 DEF ListedOK, SubscribedFirst, Leaving, FrameOf, Kept
<1>5. RemovesFromTable(c)'
  <2>1. call[Worker(c)].pc = "removeSubscriber" => call[Worker(c)].topic \in Topics
    BY Here DEF LocalOK, TopicLabels, RemovalLabels
  <2> QED
    BY <1>1, <1>3, <2>1 DEF ListedOK, RemovesFromTable, Kept
<1>6. ListedHasTopic(c)'
  BY <1>1, <1>3 DEF ListedOK, ListedHasTopic, OneTopicPerId, SubscribedTo, Removing,
     Kept
<1> QED
  BY <1>4, <1>5, <1>6 DEF ListedOK

(* A step of its own that neither gives up a topic nor touches the table *)
LEMMA ListedStays ==
  ASSUME TypeInv, [Next]_vars, NEW c \in Connections, ListedOK(c),
         ~PutOwnSubscription(c),
         clientSubscriptions'[c] = clientSubscriptions[c], asked'[c] = asked[c],
         ~shouldTerminate'[c] => ~shouldTerminate[c],
         call[Worker(c)].pc \notin {"containsTopic", "getForRemove", "removeSubscriber"},
         call'[Worker(c)].pc # "removeSubscriber",
         SubscribedFirst(c)', (Leaving(c) => shouldTerminate[c])'
  PROVE  ListedOK(c)'
<1>1. \A t \in Topics : Listed(c, t)' => Listed(c, t)
  BY ListedBefore
<1>2. RemovesFromTable(c)'
  BY DEF RemovesFromTable
<1>3. ListedHasTopic(c)'
  BY <1>1 DEF ListedOK, ListedHasTopic, OneTopicPerId, SubscribedTo, Removing
<1> QED
  BY <1>2, <1>3 DEF ListedOK

LEMMA ListedReceive ==
  ASSUME TypeInv, BusInv, [Next]_vars, NEW c \in Connections, ListedOK(c),
         NEW f \in FrameType, Receive(c, f)
  PROVE  ListedOK(c)'
<1>1. call[Worker(c)].pc = "idle"
  BY ReceiveMoves DEF At
<1>2. ~PutOwnSubscription(c)
  BY <1>1 DEF PutOwnSubscription, At
<1>3. \A t \in Topics : Listed(c, t)' => Listed(c, t)
  BY <1>2, ListedBefore
<1>4. shouldTerminate \in [Connections -> BOOLEAN]
  BY DEF TypeInv, DataOK
<1> DEFINE Stays == /\ clientSubscriptions'[c] = clientSubscriptions[c]
                    /\ asked'[c] = asked[c]
                    /\ ~shouldTerminate'[c] => ~shouldTerminate[c]
<1>5. ASSUME Stays, NEW label, NEW topic, NEW todo, ProcessAs(c, f, label, topic, todo),
             \/ label \in {"sendError", "isUserActive", "nextMessageId"}
             \/ label = "unsubscribeAll" /\ shouldTerminate'[c]
      PROVE  ListedOK(c)'
  <2>1. call'[Worker(c)].pc = label
    BY <1>5, ProcessGoes
  <2>2. SubscribedFirst(c)' /\ (Leaving(c) => shouldTerminate[c])'
    BY <1>5, <2>1 DEF SubscribedFirst, Leaving, SubscribingLabels, RemovalLabels
  <2>3. label # "removeSubscriber"
    BY <1>5
  <2> QED
    BY <1>1, <1>2, <1>5, <2>1, <2>2, <2>3, ListedStays
<1>6. CASE HandleConnect(c, f) \/ HandleUnknown(c, f) \/ HandleSend(c, f)
  <2>1. Stays
    BY <1>6 DEF HandleConnect, HandleUnknown, HandleSend, sessionVars
  <2>2. PICK label, topic, todo :
          /\ ProcessAs(c, f, label, topic, todo)
          /\ label \in {"sendError", "isUserActive", "nextMessageId"}
    BY <1>6 DEF HandleConnect, HandleUnknown, HandleSend, Process
  <2> QED
    BY <1>5, <2>1, <2>2
<1>7. CASE HandleDisconnect(c, f)
  <2>1. Stays
    BY <1>4, <1>7 DEF HandleDisconnect, sessionVars
  <2>2. PICK label, topic, todo :
          /\ ProcessAs(c, f, label, topic, todo)
          /\ \/ label = "sendError"
             \/ label = "unsubscribeAll" /\ shouldTerminate'[c]
    BY <1>4, <1>7 DEF HandleDisconnect, Process
  <2> QED
    BY <1>5, <2>1, <2>2
<1>8. CASE HandleUnsubscribe(c, f)
  <2>1. CASE Process(c, f, "sendError") /\ UNCHANGED <<sessionVars, asked>>
    BY <1>5, <2>1 DEF Process, sessionVars
  <2>2. CASE /\ f.id \notin {Null, BadId}
             /\ ProcessAs(c, f, "containsTopic", clientSubscriptions[c][f.id], {})
             /\ clientSubscriptions' = [clientSubscriptions EXCEPT ![c][f.id] = Null]
             /\ UNCHANGED <<shouldTerminate, asked>>
    <3>1. PICK topic : topic = clientSubscriptions[c][f.id]
      OBVIOUS
    <3>2. /\ call'[Worker(c)].pc = "containsTopic" /\ call'[Worker(c)].topic = topic
          /\ call'[Worker(c)].frame = f
      BY <2>2, <3>1, ProcessGoes
    <3>3. SubscribedFirst(c)' /\ RemovesFromTable(c)'
      BY <3>2 DEF SubscribedFirst, RemovesFromTable, SubscribingLabels
    <3>4. f.command = "UNSUBSCRIBE"
      BY <1>8 DEF HandleUnsubscribe
    <3>5. ~Leaving(c)'
      BY <3>2, <3>4 DEF Leaving, FrameOf
    <3>6. \A t \in Topics : SubscribedTo(c, t) => SubscribedTo(c, t)' \/ t = topic
      BY <2>2, <3>1, TableFacts DEF SubscribedTo
    <3>7. \A t \in Topics : ~Removing(c, t)
      BY <1>1 DEF Removing
    <3>8. ListedHasTopic(c)'
      BY <1>3, <2>2, <3>2, <3>6, <3>7 DEF ListedOK, ListedHasTopic, OneTopicPerId, Removing
    <3> QED
      BY <3>3, <3>5, <3>8 DEF ListedOK
  <2> QED
    BY <1>8, <2>1, <2>2 DEF HandleUnsubscribe
<1>9. CASE HandleSubscribe(c, f)
  <2>1. CASE Process(c, f, "sendError") /\ UNCHANGED <<sessionVars, asked>>
    BY <1>5, <2>1 DEF Process, sessionVars
  <2>2. CASE /\ f.destination # Null /\ f.id \notin {Null, BadId}
             /\ ProcessAs(c, f, "putTopic", f.destination, {})
             /\ clientSubscriptions' =
                  [clientSubscriptions EXCEPT ![c][f.id] = f.destination]
             /\ asked' = [asked EXCEPT ![c] =
                  Append(@, [topic |-> f.destination, id |-> f.id])]
             /\ UNCHANGED shouldTerminate
    <3>1. f.destination \in Topics /\ f.id \in SubIds
      BY <2>2 DEF FrameType
    <3>2. /\ call'[Worker(c)].pc = "putTopic" /\ call'[Worker(c)].topic = f.destination
          /\ call'[Worker(c)].frame = f
      BY <2>2, ProcessGoes
    <3>3. /\ clientSubscriptions'[c][f.id] = f.destination
          /\ \A id \in SubIds :
               id # f.id => clientSubscriptions'[c][id] = clientSubscriptions[c][id]
      BY <2>2, <3>1, TableFacts
    <3>4. /\ SubscribedFirst(c)' /\ RemovesFromTable(c)' /\ ~Leaving(c)'
      BY <3>2, <3>3 DEF SubscribedFirst, RemovesFromTable, Leaving, FrameOf, RemovalLabels
    <3>5. /\ AskedGrow
          /\ Asked(c, f.destination, [id |-> f.id, request |-> Len(asked[c])])'
      BY <2>2, <3>1, AskedMore
    <3>6. ASSUME OneTopicPerId(c)'
          PROVE  /\ OneTopicPerId(c)
                 /\ clientSubscriptions[c][f.id] \in {Null, f.destination}
      <4>1. OneTopicPerId(c)
        BY <3>5, <3>6 DEF OneTopicPerId, AskedGrow
      <4>2. ASSUME clientSubscriptions[c][f.id] # Null
            PROVE  clientSubscriptions[c][f.id] = f.destination
        <5>1. PICK i \in DOMAIN asked[c] :
                asked[c][i] = Subscription(clientSubscriptions[c][f.id], f.id)
          BY <3>1, <4>2 DEF BusInv, OwnAsked, HasAsked
        <5>2. i \in DOMAIN asked'[c] /\ asked'[c][i] = asked[c][i]
          BY <3>5 DEF AskedGrow
        <5>3. PICK j : j = Len(asked'[c])
          OBVIOUS
        <5>4. j \in DOMAIN asked'[c] /\ asked'[c][j] = Subscription(f.destination, f.id)
          BY <3>5, <5>3 DEF Asked, Subscription
        <5>5. asked'[c][i] = asked'[c][j]
          BY <3>6, <5>1, <5>2, <5>4 DEF OneTopicPerId, Subscription
        <5>6. \A s, t : Subscription(s, f.id) = Subscription(t, f.id) => s = t
          BY DEF Subscription
        <5> QED
          BY <5>1, <5>2, <5>4, <5>5, <5>6
      <4> QED
        BY <4>1, <4>2
    <3>7. ASSUME OneTopicPerId(c)', NEW t \in Topics, SubscribedTo(c, t)
          PROVE  SubscribedTo(c, t)'
      <4>1. PICK id \in SubIds : clientSubscriptions[c][id] = t
        BY <3>7 DEF SubscribedTo
      <4>2. clientSubscriptions'[c][id] = t
        BY <3>3, <3>6, <3>7, <4>1, RegistryAssumption
      <4> QED
        BY <4>2 DEF SubscribedTo
    <3>8. \A t \in Topics : ~Removing(c, t)
      BY <1>1 DEF Removing
    <3>9. ListedHasTopic(c)'
      <4>1. ASSUME ~shouldTerminate'[c], OneTopicPerId(c)', NEW t \in Topics, Listed(c, t)'
            PROVE  SubscribedTo(c, t)'
        <5>1. ~shouldTerminate[c] /\ OneTopicPerId(c) /\ Listed(c, t)
          BY <1>3, <2>2, <3>6, <4>1
        <5>2. SubscribedTo(c, t)
          BY <3>8, <5>1 DEF ListedOK, ListedHasTopic
        <5> QED
          BY <3>7, <4>1, <5>2
      <4> QED
        BY <4>1 DEF ListedHasTopic
    <3> QED
      BY <3>4, <3>9 DEF ListedOK
  <2> QED
    BY <1>9, <2>1, <2>2 DEF HandleSubscribe
<1> QED
  BY <1>6, <1>7, <1>8, <1>9 DEF Receive

LEMMA ListedWorker ==
  ASSUME TypeInv, BusInv, [Next]_vars, NEW c \in Connections, ListedOK(c),
         WorkerStep(c)
  PROVE  ListedOK(c)'
<1> DEFINE here == call[Worker(c)]
           next == call'[Worker(c)]
           Stays == /\ clientSubscriptions'[c] = clientSubscriptions[c]
                    /\ ~shouldTerminate'[c] => ~shouldTerminate[c]
<1>1. here \in Calls /\ Worker(c) \in Threads /\ LocalOK(here) /\ UNCHANGED asked
  BY Here, WorkerMoves
<1>2. shouldTerminate \in [Connections -> BOOLEAN]
  BY DEF TypeInv, DataOK
<1>3. ASSUME Stays, ~PutOwnSubscription(c), next.pc # "removeSubscriber",
             here.pc \notin {"containsTopic", "getForRemove", "removeSubscriber"},
             next.pc \notin SubscribingLabels,
             \/ next.pc \notin RemovalLabels \cup {"unsubscribeAll"}
             \/ Leaving(c)' => Leaving(c) /\ UNCHANGED shouldTerminate
      PROVE  ListedOK(c)'
  <2>1. SubscribedFirst(c)'
    BY <1>3 DEF SubscribedFirst
  <2>2. (Leaving(c) => shouldTerminate[c])'
    BY <1>3 DEF Leaving, ListedOK
  <2> QED
    BY <1>1, <1>3, <2>1, <2>2, ListedStays
<1>4. CASE \/ SendError(c) \/ MarkForTermination(c) \/ SendReceiptIfRequested(c)
           \/ CheckUserActive(c) \/ AuthenticateUser(c)
  <2>1. here.pc \in {"sendError", "terminate", "receipt", "isUserActive", "authenticate"}
    BY <1>4 DEF SendError, MarkForTermination, SendReceiptIfRequested, CheckUserActive,
       AuthenticateUser, At
  <2>2. next.pc \in {"terminate", "idle", "disconnect", "sendError", "authenticate",
                     "receipt"}
    <3>1. \/ \E label \in {"terminate", "disconnect", "sendError", "authenticate",
                           "receipt"} : Goto(Worker(c), label)
          \/ Return(Worker(c))
      BY <1>4 DEF SendError, MarkForTermination, SendReceiptIfRequested,
         CheckUserActive, AuthenticateUser, LogIn
    <3>2. CASE Return(Worker(c))
      BY <1>1, <3>2, Gone, PlainFacts DEF Return
    <3> QED
      BY <1>1, <3>1, <3>2, PlainGoto
  <2>3. Stays
    BY <1>2, <1>4 DEF SendError, MarkForTermination, SendReceiptIfRequested,
       CheckUserActive, AuthenticateUser, LogIn, OnlyCall, OnlyTables, sessionVars
  <2>4. ~PutOwnSubscription(c)
    BY <2>1 DEF PutOwnSubscription, At
  <2> QED
    BY <1>3, <2>1, <2>2, <2>3, <2>4 DEF SubscribingLabels, RemovalLabels
<1>5. CASE PutTopic(c)
  <2>1. here.pc = "putTopic" /\ next = [here EXCEPT !.pc = "getTopic"]
    BY <1>1, <1>5, PlainGoto DEF PutTopic, At
  <2>2. next.pc = "getTopic" /\ next.topic = here.topic /\ next.frame = here.frame
    BY <1>1, <2>1 DEF Calls
  <2>3. Stays
    BY <1>5 DEF PutTopic, OnlyTables, sessionVars
  <2>4. SubscribedFirst(c)' /\ ~Leaving(c)'
    BY <2>1, <2>2, <2>3 DEF ListedOK, SubscribedFirst, SubscribingLabels, FrameOf,
       Leaving, RemovalLabels
  <2>5. ~PutOwnSubscription(c)
    BY <2>1 DEF PutOwnSubscription, At
  <2> QED
    BY <1>1, <2>1, <2>2, <2>3, <2>4, <2>5, ListedStays
<1>6. CASE GetTopic(c)
  <2>1. here.pc = "getTopic" /\ Stays /\ UNCHANGED shouldTerminate
    BY <1>6 DEF GetTopic, Get, At, OnlyCall, OnlyTables, sessionVars
  <2>2. ~PutOwnSubscription(c)
    BY <2>1 DEF PutOwnSubscription, At
  <2>3. CASE Return(Worker(c))
    <3>1. next.pc = "idle"
      BY <1>1, <2>3, Gone, PlainFacts DEF Return
    <3> QED
      BY <1>3, <2>1, <2>2, <3>1 DEF SubscribingLabels, RemovalLabels
  <2>4. CASE \E m : call' = [call EXCEPT ![Worker(c)].map = m,
                                         ![Worker(c)].pc = "putSubscriber"]
    <3>1. next.pc = "putSubscriber" /\ next.topic = here.topic /\ next.frame = here.frame
      BY <1>1, <2>4, TableFacts DEF Calls
    <3>2. SubscribedFirst(c)' /\ ~Leaving(c)'
      BY <2>1, <3>1 DEF ListedOK, SubscribedFirst, SubscribingLabels, FrameOf, Leaving,
         RemovalLabels
    <3> QED
      BY <1>1, <2>1, <2>2, <3>1, <3>2, ListedStays
  <2> QED
    BY <1>6, <2>3, <2>4 DEF GetTopic, Get
<1>7. CASE PutOwnSubscription(c)
  <2>1. /\ here.pc = "putSubscriber" /\ Stays
        /\ UNCHANGED <<shouldTerminate, topicSubscriptions>>
    BY <1>7 DEF PutOwnSubscription, PutSubscriber, At, OnlyTables, sessionVars
  <2>2. next.pc = "receipt"
    <3>1. next = [here EXCEPT !.pc = "receipt", !.map = Null]
      BY <1>7, PutFacts
    <3> QED
      BY <1>1, <3>1 DEF Calls
  <2>3. /\ here.topic \in Topics /\ here.map \in Maps /\ FrameOf(c).id \in SubIds
    BY <1>1, <2>1 DEF LocalOK, TopicLabels, MapLabels, FrameOf
  <2>4. SubscribedTo(c, here.topic)
    BY <2>1, <2>3 DEF ListedOK, SubscribedFirst, SubscribingLabels, SubscribedTo
  <2>5. \A t \in Topics : Listed(c, t)' => Listed(c, t) \/ t = here.topic
    <3>1. ASSUME NEW t \in Topics, topicSubscriptions[t] = here.map
          PROVE  t = here.topic
      <4>1. Serves(here.map, here.topic)
        BY <1>1, <2>1 DEF Serves, Holds, HoldLabels
      <4>2. Serves(here.map, t)
        BY <3>1 DEF Serves
      <4> QED
        BY <2>3, <4>1, <4>2 DEF BusInv, OneTopic
    <3> QED
      BY <3>1, ListedBefore
  <2>6. \A t \in Topics : ~Removing(c, t)
    BY <2>1 DEF Removing
  <2>7. ListedHasTopic(c)'
    BY <1>1, <2>1, <2>4, <2>5, <2>6 DEF ListedOK, ListedHasTopic, OneTopicPerId,
       SubscribedTo
  <2> QED
    BY <2>2, <2>7 DEF ListedOK, SubscribedFirst, RemovesFromTable, Leaving,
       SubscribingLabels, RemovalLabels
<1>8. CASE UnsubscribeNext(c)
  <2>1. here.pc = "unsubscribeAll" /\ Stays /\ UNCHANGED shouldTerminate
    BY <1>8 DEF UnsubscribeNext, At, OnlyCall, OnlyTables, sessionVars
  <2>2. next.pc = "containsTopic"
    <3>1. PICK id : call' = [call EXCEPT
              ![Worker(c)] = [here EXCEPT !.todo = @ \ {id},
                               !.topic = clientSubscriptions[c][id],
                               !.pc = "containsTopic"]]
      BY <1>1, <1>8, TableFacts DEF UnsubscribeNext
    <3> DEFINE k == [here EXCEPT !.todo = @ \ {id},
                      !.topic = clientSubscriptions[c][id], !.pc = "containsTopic"]
    <3>2. k.pc = "containsTopic"
      BY <1>1 DEF Calls
    <3>3. call' = [call EXCEPT ![Worker(c)] = k]
      BY <3>1
    <3> HIDE DEF k
    <3> QED
      BY <1>1, <3>2, <3>3, Gone
  <2>3. Leaving(c) /\ ~PutOwnSubscription(c)
    BY <2>1 DEF Leaving, PutOwnSubscription, At
  <2> QED
    BY <1>3, <2>1, <2>2, <2>3 DEF SubscribingLabels
<1>9. CASE ClearSubscriptions(c)
  <2>1. here.pc = "unsubscribeAll" /\ UNCHANGED shouldTerminate
    BY <1>9 DEF ClearSubscriptions, At
  <2>2. next.pc = "receipt"
    BY <1>1, <1>9, PlainGoto DEF ClearSubscriptions
  <2>3. shouldTerminate'[c]
    BY <2>1 DEF ListedOK, Leaving
  <2> QED
    BY <2>2, <2>3 DEF ListedOK, ListedHasTopic, SubscribedFirst, RemovesFromTable,
       SubscribingLabels
<1>10. CASE ContainsTopic(c) \/ GetForRemove(c) \/ RemoveOwnSubscription(c)
  <2>1. /\ Stays /\ UNCHANGED <<shouldTerminate, topicSubscriptions>>
        /\ here.pc \in {"containsTopic", "getForRemove", "removeSubscriber"}
    BY <1>10 DEF ContainsTopic, GetForRemove, Get, RemoveOwnSubscription,
       RemoveSubscriber, PutSubscriber, At, OnlyCall, OnlyTables, registryVars,
       topicTables, sessionVars
  <2>2. PICK topic : topic = here.topic
    OBVIOUS
  <2>3. topic \in Topics /\ ~PutOwnSubscription(c)
    BY <1>1, <2>1, <2>2 DEF LocalOK, TopicLabels, RemovalLabels, PutOwnSubscription, At
  <2>4. \A t \in Topics : Listed(c, t)' => Listed(c, t)
    BY <2>3, ListedBefore
  <2>5. ASSUME ~Listed(c, topic)', next.pc \notin SubscribingLabels,
               next.pc # "removeSubscriber", next.pc = "unsubscribeAll" => Leaving(c),
               next.pc \in RemovalLabels => next.frame = here.frame
        PROVE  ListedOK(c)'
    <3>1. Leaving(c)' => Leaving(c)
      BY <2>1, <2>5 DEF Leaving, FrameOf, RemovalLabels
    <3>2. ListedHasTopic(c)'
      BY <1>1, <2>1, <2>2, <2>4, <2>5 DEF ListedOK, ListedHasTopic, OneTopicPerId,
         SubscribedTo, Removing
    <3> QED
      BY <2>1, <2>5, <3>1, <3>2 DEF ListedOK, SubscribedFirst, RemovesFromTable
  <2>6. ASSUME next.pc \in {"getForRemove", "removeSubscriber"},
               next.topic = here.topic, next.frame = here.frame,
               next.pc = "removeSubscriber"
                 => next.map = topicSubscriptions[here.topic]
        PROVE  ListedOK(c)'
    <3>1. Leaving(c)' => Leaving(c)
      BY <2>1, <2>6 DEF Leaving, FrameOf, RemovalLabels
    <3>2. ListedHasTopic(c)'
      BY <1>1, <2>1, <2>4, <2>6 DEF ListedOK, ListedHasTopic, OneTopicPerId,
         SubscribedTo, Removing
    <3>3. SubscribedFirst(c)' /\ RemovesFromTable(c)'
      BY <2>1, <2>6 DEF SubscribedFirst, RemovesFromTable, SubscribingLabels
    <3> QED
      BY <2>1, <3>1, <3>2, <3>3 DEF ListedOK
  <2>7. CASE ContainsTopic(c)
    <3>1. CASE topicSubscriptions[here.topic] = Null
      <4>1. Removed(c) /\ here.pc = "containsTopic"
        BY <2>7, <3>1 DEF ContainsTopic, At
      <4>2. next.pc = IF here.frame.command = "DISCONNECT" THEN "unsubscribeAll"
                                                            ELSE "receipt"
        BY <1>1, <4>1, TableFacts DEF Removed, FrameOf, Calls
      <4>3. next.pc = "unsubscribeAll" => Leaving(c)
        BY <4>1, <4>2 DEF Leaving, FrameOf, RemovalLabels
      <4>4. ~Listed(c, topic)
        BY <2>2, <3>1 DEF Listed
      <4> QED
        BY <2>3, <2>4, <2>5, <4>2, <4>3, <4>4 DEF SubscribingLabels, RemovalLabels
    <3>2. CASE topicSubscriptions[here.topic] # Null
      <4>1. next = [here EXCEPT !.pc = "getForRemove"]
        BY <1>1, <2>7, <3>2, PlainGoto DEF ContainsTopic
      <4>2. next.pc = "getForRemove" /\ next.topic = here.topic /\ next.frame = here.frame
        BY <1>1, <4>1 DEF Calls
      <4> QED
        BY <2>6, <4>2
    <3> QED
      BY <3>1, <3>2
  <2>8. CASE GetForRemove(c)
    <3>1. CASE topicSubscriptions[here.topic] = Null
      <4>1. Return(Worker(c))
        BY <2>8, <3>1 DEF GetForRemove, Get
      <4>2. next.pc = "idle"
        BY <1>1, <4>1, Gone, PlainFacts DEF Return
      <4>3. ~Listed(c, topic)
        BY <2>2, <3>1 DEF Listed
      <4> QED
        BY <2>3, <2>4, <2>5, <4>2, <4>3 DEF SubscribingLabels, RemovalLabels
    <3>2. CASE topicSubscriptions[here.topic] # Null
      <4>1. PICK m : m = topicSubscriptions[here.topic]
        OBVIOUS
      <4>2. call' = [call EXCEPT ![Worker(c)].map = m, ![Worker(c)].pc = "removeSubscriber"]
        BY <2>8, <3>2, <4>1 DEF GetForRemove, Get
      <4>3. /\ next.pc = "removeSubscriber" /\ next.topic = here.topic
            /\ next.frame = here.frame /\ next.map = m
        BY <1>1, <4>2, TableFacts DEF Calls
      <4> QED
        BY <2>6, <4>1, <4>3
    <3> QED
      BY <3>1, <3>2
  <2>9. CASE RemoveOwnSubscription(c)
    <3>1. /\ here.pc = "removeSubscriber"
          /\ subscribers' = [subscribers EXCEPT ![here.map][c] = Null]
          /\ call' = [call EXCEPT ![Worker(c)].pc = "getForEmpty", ![Worker(c)].map = Null]
      BY <2>9 DEF RemoveOwnSubscription, RemoveSubscriber, PutSubscriber, At
    <3>2. next.pc = "getForEmpty" /\ next.frame = here.frame
      BY <1>1, <3>1, TableFacts DEF Calls
    <3>3. here.map \in Maps
      BY <1>1, <3>1 DEF LocalOK, MapLabels
    <3>4. ~Listed(c, topic)'
      <4>1. SUFFICES ASSUME Listed(c, topic)' PROVE FALSE
        OBVIOUS
      <4>2. Listed(c, topic)
        BY <2>3, <2>4, <4>1
      <4>3. topicSubscriptions[topic] = here.map
        BY <2>2, <3>1, <4>2 DEF ListedOK, RemovesFromTable
      <4>4. subscribers'[topicSubscriptions'[topic]][c] = Null
        BY <2>1, <3>1, <3>3, <4>3, TableFacts
      <4> QED
        BY <4>1, <4>4 DEF Listed
    <3> QED
      BY <2>5, <3>2, <3>4 DEF SubscribingLabels
  <2> QED
    BY <1>10, <2>7, <2>8, <2>9
<1>11. CASE GetForEmpty(c) \/ TestEmpty(c) \/ RemoveEmptyTopic(c)
  <2>1. /\ Stays /\ UNCHANGED shouldTerminate
        /\ here.pc \in {"getForEmpty", "isEmpty", "removeTopic"}
    BY <1>11 DEF GetForEmpty, Get, TestEmpty, RemoveEmptyTopic, At, OnlyCall,
       OnlyTables, sessionVars
  <2>2. \/ next.pc = "idle"
        \/ next.pc \in {"isEmpty", "removeTopic"} /\ next.frame = here.frame
        \/ next.pc = IF here.frame.command = "DISCONNECT" THEN "unsubscribeAll"
                                                          ELSE "receipt"
    <3>1. \/ Return(Worker(c))
          \/ \E m, label : /\ label \in {"isEmpty", "removeTopic"}
                           /\ \/ call' = [call EXCEPT ![Worker(c)].map = m,
                                                      ![Worker(c)].pc = label]
                              \/ call' = [call EXCEPT ![Worker(c)].pc = label,
                                                      ![Worker(c)].map = m]
          \/ Removed(c)
      BY <1>11 DEF GetForEmpty, Get, TestEmpty, RemoveEmptyTopic
    <3>2. CASE Return(Worker(c))
      BY <1>1, <3>2, Gone, PlainFacts DEF Return
    <3>3. CASE Removed(c)
      BY <1>1, <3>3, TableFacts DEF Removed, FrameOf, Calls
    <3>4. CASE ~Return(Worker(c)) /\ ~Removed(c)
      <4>1. PICK m, label : /\ label \in {"isEmpty", "removeTopic"}
                            /\ \/ call' = [call EXCEPT ![Worker(c)].map = m,
                                                       ![Worker(c)].pc = label]
                               \/ call' = [call EXCEPT ![Worker(c)].pc = label,
                                                       ![Worker(c)].map = m]
        BY <3>1, <3>4
      <4>2. call'[Worker(c)].pc = label /\ call'[Worker(c)].frame = here.frame
        <5>1. \/ next = [here EXCEPT !.map = m, !.pc = label]
              \/ next = [here EXCEPT !.pc = label, !.map = m]
          BY <1>1, <4>1, TableFacts
        <5>2. here \in Calls
          BY <1>1, TableFacts
        <5> QED
          BY <5>1, <5>2 DEF Calls
      <4> QED
        BY <1>1, <4>1, <4>2
    <3> QED
      BY <3>2, <3>3, <3>4
  <2>3. Leaving(c)' => Leaving(c)
    BY <2>1, <2>2 DEF Leaving, FrameOf, RemovalLabels
  <2>4. ~PutOwnSubscription(c)
    BY <2>1 DEF PutOwnSubscription, At
  <2> QED
    BY <1>3, <2>1, <2>2, <2>3, <2>4 DEF SubscribingLabels
<1>12. CASE \/ NextMessageId(c) \/ GetSubscribers(c) \/ Advance(c) \/ NextEntry(c)
            \/ EndOfSend(c) \/ Lookup(c) \/ Enqueue(c)
  <2>1. /\ Stays
        /\ here.pc \in {"nextMessageId", "getSubscribers", "advance", "nextEntry",
                        "lookup", "enqueue"}
    BY <1>12 DEF NextMessageId, GetSubscribers, Advance, NextEntry, EndOfSend, Lookup,
       Enqueue, At, OnlyCall, OnlyTables, sessionVars
  <2>2. next.pc \in {"idle", "getSubscribers", "advance", "nextEntry", "lookup", "enqueue"}
    <3>1. CASE NextMessageId(c) \/ NextEntry(c)
      BY <1>1, <3>1, TableFacts DEF NextMessageId, NextEntry, Calls
    <3>2. CASE Advance(c)
      <4>1. PICK label \in {"nextEntry", "lookup"} :
              \/ Goto(Worker(c), label)
              \/ \E d : \/ call' = [call EXCEPT ![Worker(c)] = [here EXCEPT !.todo = @ \ {d}]]
                        \/ \E e : call' = [call EXCEPT ![Worker(c)] =
                             [here EXCEPT !.todo = @ \ {d}, !.pc = label, !.next = e]]
        BY <3>2 DEF Advance
      <4>2. CASE Goto(Worker(c), label)
        BY <1>1, <4>2, PlainGoto
      <4>3. CASE \E d : call' = [call EXCEPT ![Worker(c)] = [here EXCEPT !.todo = @ \ {d}]]
        <5>1. here.pc = "advance"
          BY <3>2 DEF Advance, At
        <5> QED
          BY <1>1, <4>3, <5>1, TableFacts DEF Calls
      <4>4. CASE \E d, e : call' = [call EXCEPT ![Worker(c)] =
                   [here EXCEPT !.todo = @ \ {d}, !.pc = label, !.next = e]]
        BY <1>1, <4>4, TableFacts DEF Calls
      <4> QED
        BY <4>1, <4>2, <4>3, <4>4
    <3>3. CASE EndOfSend(c) \/ GetSubscribers(c)
      <4>1. CASE Return(Worker(c))
        BY <1>1, <4>1, Gone, PlainFacts DEF Return
      <4>2. CASE ~Return(Worker(c))
        BY <1>1, <3>3, <4>2, TableFacts DEF EndOfSend, GetSubscribers, Calls
      <4> QED
        BY <4>1, <4>2
    <3>4. CASE Lookup(c) \/ Enqueue(c)
      BY <1>1, <3>4, PlainGoto DEF Lookup, Enqueue
    <3> QED
      BY <1>12, <3>1, <3>2, <3>3, <3>4
  <2>3. ~PutOwnSubscription(c)
    BY <2>1 DEF PutOwnSubscription, At
  <2> QED
    BY <1>3, <2>1, <2>2, <2>3 DEF SubscribingLabels, RemovalLabels
<1> QED
  BY <1>4, <1>5, <1>6, <1>7, <1>8, <1>9, <1>10, <1>11, <1>12 DEF WorkerStep

LEMMA DisconnectAt ==
  ASSUME TypeInv, NEW p \in Threads, DisconnectStep(p)
  PROVE  /\ call[p].pc \in {"disconnect", "enter", "sweep", "sweepOne", "removeUser"}
         /\ call'[p].pc \in {"enter", "sweep", "sweepOne", "removeUser", "idle", "closed"}
<1>1. call[p] \in Calls
  BY ThreadHere
<1>2. CASE Disconnect(p) \/ ExitMonitor(p) \/ RemoveUser(p)
  <2>1. CASE Return(p)
    BY <1>2, <2>1, Gone, PlainFacts DEF Return, Disconnect, ExitMonitor, RemoveUser, At
  <2> QED
    BY <1>2, <2>1, PlainGoto DEF Disconnect, ExitMonitor, RemoveUser, At
<1>3. CASE EnterMonitor(p)
  BY <1>1, <1>3, TableFacts DEF EnterMonitor, At, Calls
<1>4. CASE SweepNext(p)
  <2>1. PICK t : call' = [call EXCEPT ![p] = [call[p] EXCEPT !.todo = @ \ {t},
            !.map = topicSubscriptions[t],
            !.pc = IF topicSubscriptions[t] = Null THEN "sweep" ELSE "sweepOne"]]
    BY <1>4, TableFacts DEF SweepNext
  <2> DEFINE k == [call[p] EXCEPT !.todo = @ \ {t}, !.map = topicSubscriptions[t],
            !.pc = IF topicSubscriptions[t] = Null THEN "sweep" ELSE "sweepOne"]
  <2>2. k.pc \in {"sweep", "sweepOne"}
    BY <1>1 DEF Calls
  <2>3. call' = [call EXCEPT ![p] = k]
    BY <2>1
  <2> HIDE DEF k
  <2> QED
    BY <1>4, <2>2, <2>3, Gone DEF SweepNext, At
<1>5. CASE SweepOne(p)
  BY <1>1, <1>5, TableFacts DEF SweepOne, At, Calls
<1> QED
  BY <1>2, <1>3, <1>4, <1>5 DEF DisconnectStep

LEMMA ListedDisconnect ==
  ASSUME TypeInv, [Next]_vars, NEW c \in Connections, ListedOK(c),
         DisconnectStep(Worker(c))
  PROVE  ListedOK(c)'
<1>1. /\ call[Worker(c)].pc
           \in {"disconnect", "enter", "sweep", "sweepOne", "removeUser"}
      /\ call'[Worker(c)].pc
           \in {"enter", "sweep", "sweepOne", "removeUser", "idle", "closed"}
  BY DisconnectAt, ThreadFacts
<1>2. UNCHANGED <<clientSubscriptions, asked, shouldTerminate>>
  BY DisconnectMoves, ThreadFacts
<1>3. ~PutOwnSubscription(c)
  BY <1>1 DEF PutOwnSubscription, At
<1>4. SubscribedFirst(c)' /\ ~Leaving(c)'
  BY <1>1 DEF SubscribedFirst, Leaving, SubscribingLabels, RemovalLabels
<1> QED
  BY <1>1, <1>2, <1>3, <1>4, ListedStays

LEMMA ListInvInit == Init => ListInv
<1> SUFFICES ASSUME Init, NEW c \in Connections PROVE ListedOK(c)
  BY DEF ListInv
<1>1. call[Worker(c)].pc = "idle" /\ \A t \in Topics : ~Listed(c, t)
  BY PlainFacts, ThreadFacts DEF Init, RegistryInit, Listed
<1> QED
  BY <1>1 DEF ListedOK, SubscribedFirst, RemovesFromTable, Leaving, ListedHasTopic,
     SubscribingLabels, RemovalLabels

LEMMA ListInvNext == TypeInv /\ BusInv /\ ListInv /\ [Next]_vars => ListInv'
<1> SUFFICES ASSUME TypeInv, BusInv, ListInv, [Next]_vars, NEW c \in Connections
             PROVE  ListedOK(c)'
  BY DEF ListInv
<1>1. ListedOK(c)
  BY DEF ListInv
<1>2. CASE ~OwnStep(c)
  BY <1>1, <1>2, ListedKept
<1>3. CASE WorkerStep(c)
  BY <1>1, <1>3, ListedWorker
<1>4. CASE \E f \in Frames[c] : Receive(c, f)
  BY <1>1, <1>4, ListedReceive, FrameFacts
<1>5. CASE DisconnectStep(Worker(c))
  BY <1>1, <1>5, ListedDisconnect
<1> QED
  BY <1>2, <1>3, <1>4, <1>5 DEF OwnStep

(***************************************************************************)
(* Between two frames a client that never gave one id to two topics is not *)
(* listed for a topic it does not have, however its UNSUBSCRIBEs race with *)
(* other clients that remove and create the inner map of the topic.        *)
(***************************************************************************)
THEOREM NoLeftover == Spec => []NotListedAfterUnsubscribe
<1>1. TypeInv /\ ListInv => NotListedAfterUnsubscribe
  BY DEF ListInv, ListedOK, ListedHasTopic, OneTopicPerId, Listed, Removing,
     NotListedAfterUnsubscribe, Resting, At
<1> QED
  BY TypeInvInit, TypeInvNext, BusInit, BusNext, ListInvInit, ListInvNext, <1>1, PTL
     DEF Spec

-----------------------------------------------------------------------------
(***************************************************************************)
(* CleanClose. The closer sweeps the topics one by one while others change *)
(* the table. A topic it has swept stays clean, because a client gets into *)
(* the table by its own worker only, and that worker rests unless a frame  *)
(* came late.                                                              *)
(***************************************************************************)
CloserLabels ==
  {"idle", "disconnect", "enter", "sweep", "sweepOne", "removeUser", "closed"}

Unswept(k) ==
  IF k.pc \in {"sweep", "sweepOne"} THEN k.todo
  ELSE IF k.pc \in {"removeUser", "closed"} THEN {} ELSE Topics

Swept(c, k) ==
  \A t \in Topics \ Unswept(k) :
    Listed(c, t) => k.pc = "sweepOne" /\ topicSubscriptions[t] = k.map

ClosedOK(c, k) ==
  /\ k.pc \in CloserLabels
  /\ open[c] \/ k.pc # "idle" => c \in 1..connectionCounter
  /\ k.pc # "idle" => ~open[c]
  /\ k.pc \notin {"idle", "disconnect"} => c \notin activeConnections
  /\ k.pc # "idle" /\ ~late[c] => At(Worker(c), "idle") /\ Swept(c, k)
  /\ k.pc = "closed" /\ ~late[c] => activeUsers[c] = Null

CloseInv == \A c \in Connections : ClosedOK(c, call[Closer(c)])

CloserStep(c) == Close(c) \/ DisconnectStep(Closer(c))

(* What the other threads leave alone of the connection c *)
LEMMA CloserKept ==
  ASSUME TypeInv, [Next]_vars, NEW c \in Connections, ~CloserStep(c),
         call[Closer(c)].pc \notin WalkLabels
  PROVE  /\ call'[Closer(c)] = call[Closer(c)]
         /\ open[c] => open'[c]
         /\ open'[c] => open[c] \/ (connectionCounter' = c /\ Accept)
<1>1. CASE UNCHANGED vars
  BY <1>1 DEF vars
<1>2. CASE Accept
  BY <1>2 DEF Accept, Register, TypeInv, DataOK, RegistryTypeOK
<1>3. ASSUME NEW d \in Connections, Close(d)
      PROVE  call'[Closer(c)] = call[Closer(c)] /\ open'[c] = open[c]
  <2>1. d # c
    BY <1>3 DEF CloserStep
  <2>2. Moves(Closer(d)) /\ Closer(c) # Closer(d)
    BY <1>3, <2>1, ClosePlain DEF Plain, Quiet, Closer
  <2> QED
    BY <1>3, <2>1, <2>2, ThreadFacts DEF Close, Moves, TypeInv, DataOK
<1>4. ASSUME NEW d \in Connections, WorkerStep(d)
      PROVE  call'[Closer(c)] = call[Closer(c)] /\ open'[c] = open[c]
  BY <1>4, WorkerMoves, ThreadFacts DEF Leads, Kept
<1>5. ASSUME NEW d \in Connections, NEW f \in Frames[d], Receive(d, f)
      PROVE  call'[Closer(c)] = call[Closer(c)] /\ open'[c] = open[c]
  BY <1>5, ReceiveMoves, FrameFacts, ThreadFacts DEF Moves
<1>6. ASSUME NEW p \in Threads, DisconnectStep(p)
      PROVE  call'[Closer(c)] = call[Closer(c)] /\ open'[c] = open[c]
  <2>1. p # Closer(c)
    BY <1>6 DEF CloserStep
  <2> QED
    BY <1>6, <2>1, DisconnectMoves, ThreadFacts DEF Moves
<1> QED
  BY <1>1, <1>2, <1>3, <1>4, <1>5, <1>6 DEF Next

(* The entries of c in the tables of the connections and the users *)
LEMMA EntriesKept ==
  ASSUME TypeInv, [Next]_vars, NEW c \in Connections
  PROVE  /\ c \in 1..connectionCounter
              => /\ c \in 1..connectionCounter'
                 /\ c \notin activeConnections => c \notin activeConnections'
         /\ activeUsers[c] = Null /\ ~WorkerStep(c) => activeUsers'[c] = Null
<1> USE DEF registryVars, connectionTables, userTables
<1>1. CASE UNCHANGED <<connectionTables, userTables>>
  BY <1>1
<1>2. CASE UNCHANGED vars
  BY <1>1, <1>2 DEF vars
<1>3. CASE Accept
  <2>1. connectionCounter \in Nat
    BY RegistryAssumption DEF TypeInv, DataOK, RegistryTypeOK
  <2> QED
    BY <1>3, <2>1 DEF Accept, Register, Connections
<1>4. ASSUME NEW d \in Connections, Close(d)
      PROVE  UNCHANGED <<connectionTables, userTables>>
  BY <1>4 DEF Close
<1>5. ASSUME NEW d \in Connections, NEW f \in Frames[d], Receive(d, f)
      PROVE  UNCHANGED <<connectionTables, userTables>>
  BY <1>5, ReceiveMoves, FrameFacts
<1>6. ASSUME NEW d \in Connections, WorkerStep(d), ~AuthenticateUser(d)
      PROVE  UNCHANGED <<connectionTables, userTables>>
  <2>1. CASE SendError(d) \/ MarkForTermination(d) \/ SendReceiptIfRequested(d)
               \/ CheckUserActive(d) \/ ClearSubscriptions(d)
    BY <2>1 DEF SendError, MarkForTermination, SendReceiptIfRequested,
       CheckUserActive, ClearSubscriptions, OnlyCall
  <2>2. CASE PutTopic(d) \/ PutOwnSubscription(d) \/ RemoveOwnSubscription(d)
               \/ RemoveEmptyTopic(d)
    BY <2>2 DEF PutTopic, PutTopicIfAbsent, PutOwnSubscription, PutSubscriber,
       RemoveOwnSubscription, RemoveSubscriber, RemoveEmptyTopic, RemoveTopic
  <2>3. CASE GetTopic(d) \/ GetForRemove(d) \/ GetForEmpty(d) \/ ContainsTopic(d)
               \/ TestEmpty(d) \/ UnsubscribeNext(d)
    BY <2>3 DEF GetTopic, GetForRemove, GetForEmpty, Get, ContainsTopic, TestEmpty,
       UnsubscribeNext, OnlyCall
  <2>4. CASE NextMessageId(d) \/ GetSubscribers(d) \/ Advance(d) \/ NextEntry(d)
               \/ EndOfSend(d) \/ Lookup(d) \/ Enqueue(d)
    BY <2>4 DEF NextMessageId, GetNextMessageId, GetSubscribers, Advance, NextEntry,
       EndOfSend, Lookup, Enqueue, OnlyCall
  <2> QED
    BY <1>6, <2>1, <2>2, <2>3, <2>4 DEF WorkerStep
<1>7. ASSUME NEW d \in Connections, AuthenticateUser(d)
      PROVE  /\ UNCHANGED connectionTables
             /\ d # c => activeUsers'[c] = activeUsers[c]
             /\ WorkerStep(d)
  BY <1>7 DEF AuthenticateUser, RegisterUser, LogIn, TypeInv, DataOK, RegistryTypeOK,
     WorkerStep
<1>8. ASSUME NEW p \in Threads, DisconnectStep(p)
      PROVE  /\ UNCHANGED connectionCounter
             /\ activeConnections' \subseteq activeConnections
             /\ activeUsers[c] = Null => activeUsers'[c] = Null
  <2>1. CASE Disconnect(p)
    BY <2>1 DEF Disconnect, RemoveConnection
  <2>2. CASE RemoveUser(p)
    BY <2>2 DEF RemoveUser, RemoveActiveUser, TypeInv, DataOK, RegistryTypeOK
  <2>3. CASE EnterMonitor(p) \/ SweepNext(p) \/ SweepOne(p) \/ ExitMonitor(p)
    BY <2>3 DEF EnterMonitor, SweepNext, SweepOne, RemoveSubscriber, PutSubscriber,
       ExitMonitor, OnlyCall
  <2> QED
    BY <1>8, <2>1, <2>2, <2>3 DEF DisconnectStep
<1> QED
  BY <1>1, <1>2, <1>3, <1>4, <1>5, <1>6, <1>7, <1>8 DEF Next

(* A worker that rests takes a late frame, or goes on resting. *)
LEMMA RestsOn ==
  ASSUME TypeInv, [Next]_vars, NEW c \in Connections, ~Close(c), ~late'[c]
  PROVE  /\ ~late[c]
         /\ At(Worker(c), "idle") /\ ~open[c]
              => ~OwnStep(c) /\ call'[Worker(c)] = call[Worker(c)]
<1>1. late \in [Connections -> BOOLEAN] /\ open \in [Connections -> BOOLEAN]
  BY DEF TypeInv, DataOK
<1>2. ~late[c]
  <2>1. CASE UNCHANGED vars \/ Accept
    BY <2>1 DEF vars, Accept
  <2>2. ASSUME NEW d \in Connections, Close(d) PROVE ~late[c]
    BY <1>1, <2>2 DEF Close
  <2>3. ASSUME NEW d \in Connections, WorkerStep(d) PROVE ~late[c]
    BY <2>3, WorkerMoves
  <2>4. ASSUME NEW d \in Connections, NEW f \in Frames[d], Receive(d, f) PROVE ~late[c]
    BY <1>1, <2>4, ReceiveMoves, FrameFacts
  <2>5. ASSUME NEW p \in Threads, DisconnectStep(p) PROVE ~late[c]
    BY <2>5, DisconnectMoves
  <2> QED
    BY <2>1, <2>2, <2>3, <2>4, <2>5 DEF Next
<1>3. ASSUME At(Worker(c), "idle"), ~open[c]
      PROVE  ~OwnStep(c)
  <2>1. ~DisconnectStep(Worker(c))
    BY <1>3, DisconnectAt, ThreadFacts DEF At
  <2>2. ~WorkerStep(c)
    BY <1>3 DEF At, WorkerStep, SendError, MarkForTermination, SendReceiptIfRequested,
       CheckUserActive, AuthenticateUser, PutTopic, GetTopic, PutOwnSubscription,
       UnsubscribeNext, ClearSubscriptions, ContainsTopic, GetForRemove,
       RemoveOwnSubscription, GetForEmpty, Get, TestEmpty, RemoveEmptyTopic,
       NextMessageId, GetSubscribers, Advance, NextEntry, EndOfSend, Lookup, Enqueue
  <2>3. \A f \in Frames[c] : ~Receive(c, f)
    BY <1>1, <1>3, ReceiveMoves, FrameFacts
  <2> QED
    BY <2>1, <2>2, <2>3 DEF OwnStep
<1>4. ASSUME At(Worker(c), "idle"), ~open[c]
      PROVE  call'[Worker(c)] = call[Worker(c)]
  BY <1>3, <1>4, OwnKept DEF Kept, At, WalkLabels
<1> QED
  BY <1>2, <1>3, <1>4

LEMMA ClosedKept ==
  ASSUME TypeInv, [Next]_vars, NEW c \in Connections, ~CloserStep(c),
         NEW k, k = call[Closer(c)], ClosedOK(c, k)
  PROVE  call'[Closer(c)] = k /\ ClosedOK(c, k)'
<1>1. /\ call'[Closer(c)] = k
      /\ open'[c] => open[c] \/ (connectionCounter' = c /\ Accept)
  BY CloserKept DEF ClosedOK, CloserLabels, WalkLabels
<1>2. connectionCounter \in Nat /\ c \in Nat /\ 1 <= c
  BY RegistryAssumption DEF TypeInv, DataOK, RegistryTypeOK, Connections
<1>3. Accept => connectionCounter' = connectionCounter + 1
  BY DEF Accept, Register
<1>4. open'[c] \/ k.pc # "idle" => c \in 1..connectionCounter'
  BY <1>1, <1>2, EntriesKept DEF ClosedOK
<1>5. k.pc # "idle" => ~open'[c]
  BY <1>1, <1>2, <1>3 DEF ClosedOK
<1>6. k.pc \notin {"idle", "disconnect"} => c \notin activeConnections'
  BY EntriesKept DEF ClosedOK
<1>7. ASSUME k.pc # "idle", ~late'[c]
      PROVE  /\ At(Worker(c), "idle")'
             /\ Swept(c, k)'
             /\ k.pc = "closed" => activeUsers'[c] = Null
  <2>1. ~late[c] /\ At(Worker(c), "idle") /\ ~open[c] /\ Swept(c, k)
    BY <1>7, RestsOn DEF ClosedOK, CloserStep
  <2>2. ~OwnStep(c) /\ call'[Worker(c)] = call[Worker(c)]
    BY <1>7, <2>1, RestsOn DEF CloserStep
  <2>3. ~PutOwnSubscription(c) /\ ~WorkerStep(c)
    BY <2>2 DEF OwnStep, WorkerStep
  <2>4. Swept(c, k)'
    BY <2>1, <2>3, ListedBefore DEF Swept, Unswept
  <2>5. k.pc = "closed" => activeUsers'[c] = Null
    BY <2>1, <2>3, EntriesKept DEF ClosedOK
  <2> QED
    BY <2>1, <2>2, <2>4, <2>5 DEF At
<1> QED
  BY <1>1, <1>4, <1>5, <1>6, <1>7 DEF ClosedOK

LEMMA ClosedClose ==
  ASSUME TypeInv, [Next]_vars, NEW c \in Connections, Close(c),
         ClosedOK(c, call[Closer(c)])
  PROVE  ClosedOK(c, call[Closer(c)])'
<1>1. /\ open[c] /\ ~open'[c] /\ late'[c] = ~At(Worker(c), "idle")
      /\ UNCHANGED connectionCounter
  BY DEF Close, TypeInv, DataOK, registryVars, connectionTables
<1>2. call'[Closer(c)].pc = "disconnect" /\ call'[Worker(c)] = call[Worker(c)]
  <2>1. Goto(Closer(c), "disconnect") /\ Closer(c) \in Threads
    BY ThreadFacts DEF Close
  <2>2. Moves(Closer(c)) /\ call'[Closer(c)].pc = "disconnect"
    BY <2>1, PlainGoto
  <2> QED
    BY <2>2, ThreadFacts DEF Moves
<1>3. c \in 1..connectionCounter
  BY <1>1 DEF ClosedOK
<1>4. Swept(c, call[Closer(c)])'
  BY <1>2 DEF Swept, Unswept
<1> QED
  BY <1>1, <1>2, <1>3, <1>4 DEF ClosedOK, CloserLabels, At

LEMMA ClosedDisconnect ==
  ASSUME TypeInv, [Next]_vars, NEW c \in Connections, DisconnectStep(Closer(c)),
         ClosedOK(c, call[Closer(c)])
  PROVE  ClosedOK(c, call[Closer(c)])'
<1>1. PICK p \in Threads : p = Closer(c) /\ p[1] = c /\ p # Worker(c)
  BY ThreadFacts
<1>2. PICK k \in Calls : k = call[p]
  BY <1>1, ThreadHere
<1>3. PICK n : n = call'[p]
  OBVIOUS
<1>4. /\ k.pc \in {"disconnect", "enter", "sweep", "sweepOne", "removeUser"}
      /\ n.pc \in {"enter", "sweep", "sweepOne", "removeUser", "idle", "closed"}
  BY <1>1, <1>2, <1>3, DisconnectAt
<1>5. ClosedOK(c, k) /\ LocalOK(k)
  BY <1>1, <1>2, ThreadHere
<1>6. UNCHANGED <<open, late>> /\ ~Close(c)
  BY <1>1, <1>4, <1>5, DisconnectMoves DEF Close, ClosedOK
<1>7. /\ c \in 1..connectionCounter' /\ ~open'[c]
      /\ k.pc # "disconnect" => c \notin activeConnections'
  BY <1>4, <1>5, <1>6, EntriesKept DEF ClosedOK
<1>8. ASSUME ~late'[c]
      PROVE  /\ ~late[c] /\ At(Worker(c), "idle")' /\ Swept(c, k)
             /\ ~PutOwnSubscription(c)
  <2>1. ~late[c] /\ At(Worker(c), "idle") /\ ~open[c] /\ Swept(c, k)
    BY <1>4, <1>5, <1>6, <1>8 DEF ClosedOK
  <2>2. ~OwnStep(c) /\ call'[Worker(c)] = call[Worker(c)]
    BY <1>6, <1>8, <2>1, RestsOn
  <2> QED
    BY <2>1, <2>2 DEF At, OwnStep, WorkerStep
<1>9. ASSUME n.pc # "idle", n.pc # "enter" => k.pc # "disconnect",
             n.pc = "enter" => c \notin activeConnections',
             ~late'[c] => Swept(c, n)',
             n.pc = "closed" => activeUsers'[c] = Null
      PROVE  ClosedOK(c, call[Closer(c)])'
  <2>1. ClosedOK(c, n)'
    BY <1>4, <1>7, <1>8, <1>9 DEF ClosedOK, CloserLabels
  <2>2. call'[Closer(c)] = n
    BY <1>1, <1>3
  <2> QED
    BY <2>1, <2>2 DEF ClosedOK, Swept
<1>10. CASE Disconnect(p)
  <2>1. n.pc = "enter" /\ c \notin activeConnections'
    BY <1>1, <1>3, <1>10, PlainGoto DEF Disconnect, RemoveConnection
  <2>2. Swept(c, n)'
    BY <2>1 DEF Swept, Unswept
  <2> QED
    BY <1>9, <2>1, <2>2
<1>11. CASE EnterMonitor(p)
  <2>1. n.pc = "sweep" /\ n.todo = Topics /\ k.pc = "enter"
    BY <1>2, <1>3, <1>11, TableFacts DEF EnterMonitor, At, Calls
  <2>2. Swept(c, n)'
    BY <2>1 DEF Swept, Unswept
  <2> QED
    BY <1>9, <2>1, <2>2
<1>12. CASE SweepNext(p)
  <2>1. PICK t \in k.todo : call' = [call EXCEPT ![p].todo = @ \ {t},
            ![p].map = topicSubscriptions[t],
            ![p].pc = IF topicSubscriptions[t] = Null THEN "sweep" ELSE "sweepOne"]
    BY <1>2, <1>12 DEF SweepNext
  <2>2. PICK m, label : m = topicSubscriptions[t]
                        /\ label = IF m = Null THEN "sweep" ELSE "sweepOne"
    OBVIOUS
  <2>3. PICK j : j = [k EXCEPT !.todo = @ \ {t}, !.map = m, !.pc = label]
    OBVIOUS
  <2>4. n = j
    <3>1. call' = [call EXCEPT ![p].todo = @ \ {t}, ![p].map = m, ![p].pc = label]
      BY <2>1, <2>2
    <3>2. call \in [Threads -> Calls]
      BY TableFacts
    <3> HIDE <2>1
    <3> QED
      BY <1>2, <1>3, <2>3, <3>1, <3>2
  <2>5. /\ n.pc = IF m = Null THEN "sweep" ELSE "sweepOne"
        /\ n.map = m /\ n.todo = k.todo \ {t} /\ k.pc = "sweep"
    BY <1>2, <1>12, <2>2, <2>3, <2>4 DEF SweepNext, At, Calls
  <2>6. UNCHANGED topicTables
    BY <1>12 DEF SweepNext, OnlyCall, registryVars
  <2>7. ASSUME ~late'[c] PROVE Swept(c, n)'
    <3>1. Swept(c, k)
      BY <1>8, <2>7
    <3>2. ASSUME NEW u \in Topics, u \notin n.todo, Listed(c, u)'
          PROVE  n.pc = "sweepOne" /\ topicSubscriptions'[u] = n.map
      <4>1. Listed(c, u) /\ topicSubscriptions'[u] = topicSubscriptions[u]
        BY <2>6, <3>2 DEF Listed, topicTables
      <4>2. u \in k.todo
        BY <2>5, <3>1, <4>1 DEF Swept, Unswept
      <4>3. u = t
        BY <2>5, <3>2, <4>2
      <4> QED
        BY <2>2, <2>5, <4>1, <4>3 DEF Listed
    <3> QED
      BY <2>5, <3>2 DEF Swept, Unswept
  <2> QED
    BY <1>9, <2>5, <2>7
<1>13. CASE SweepOne(p)
  <2>1. /\ n.pc = "sweep" /\ n.todo = k.todo /\ k.pc = "sweepOne"
    BY <1>2, <1>3, <1>13, TableFacts DEF SweepOne, At, Calls
  <2>2. k.map \in Maps
    BY <1>5, <2>1 DEF LocalOK, MapLabels
  <2>3. subscribers'[k.map][c] = Null
    BY <1>1, <1>2, <1>13, <2>2, TableFacts DEF SweepOne, RemoveSubscriber, PutSubscriber
  <2>4. ASSUME ~late'[c] PROVE Swept(c, n)'
    <3>1. Swept(c, k) /\ ~PutOwnSubscription(c)
      BY <1>8, <2>4
    <3>2. ASSUME NEW u \in Topics, u \notin k.todo, Listed(c, u)'
          PROVE  FALSE
      <4>1. Listed(c, u) /\ topicSubscriptions'[u] = topicSubscriptions[u]
        BY <3>1, <3>2, ListedBefore
      <4>2. topicSubscriptions[u] = k.map
        BY <2>1, <3>1, <3>2, <4>1 DEF Swept, Unswept
      <4> QED
        BY <2>3, <3>2, <4>1, <4>2 DEF Listed
    <3> QED
      BY <2>1, <3>2 DEF Swept, Unswept
  <2> QED
    BY <1>9, <2>1, <2>4
<1>14. CASE ExitMonitor(p)
  <2>1. n.pc = "removeUser" /\ k.pc = "sweep" /\ k.todo = {}
    BY <1>2, <1>3, <1>14, PlainGoto DEF ExitMonitor, At
  <2>2. ASSUME ~late'[c] PROVE Swept(c, n)'
    <3>1. Swept(c, k) /\ ~PutOwnSubscription(c)
      BY <1>8, <2>2
    <3>2. \A u \in Topics : ~Listed(c, u)'
      BY <2>1, <3>1, ListedBefore DEF Swept, Unswept
    <3> QED
      BY <3>2 DEF Swept
  <2> QED
    BY <1>9, <2>1, <2>2
<1>15. CASE RemoveUser(p)
  <2>1. n.pc = "closed" /\ k.pc = "removeUser" /\ activeUsers'[c] = Null
    BY <1>1, <1>2, <1>3, <1>15, PlainGoto DEF RemoveUser, RemoveActiveUser, At,
       TypeInv, DataOK, RegistryTypeOK
  <2>2. ASSUME ~late'[c] PROVE Swept(c, n)'
    <3>1. Swept(c, k) /\ ~PutOwnSubscription(c)
      BY <1>8, <2>2
    <3>2. \A u \in Topics : ~Listed(c, u)'
      BY <2>1, <3>1, ListedBefore DEF Swept, Unswept
    <3> QED
      BY <3>2 DEF Swept
  <2> QED
    BY <1>9, <2>1, <2>2
<1> QED
  BY <1>1, <1>10, <1>11, <1>12, <1>13, <1>14, <1>15 DEF DisconnectStep

LEMMA CloseInvInit == Init => CloseInv
<1> SUFFICES ASSUME Init, NEW c \in Connections PROVE ClosedOK(c, call[Closer(c)])
  BY DEF CloseInv
<1>1. call[Closer(c)].pc = "idle" /\ ~open[c]
  BY PlainFacts, ThreadFacts DEF Init
<1> QED
  BY <1>1 DEF ClosedOK, CloserLabels

LEMMA CloseInvNext == TypeInv /\ CloseInv /\ [Next]_vars => CloseInv'
<1> SUFFICES ASSUME TypeInv, CloseInv, [Next]_vars, NEW c \in Connections
             PROVE  ClosedOK(c, call[Closer(c)])'
  BY DEF CloseInv
<1>1. ClosedOK(c, call[Closer(c)])
  BY DEF CloseInv
<1>2. CASE ~CloserStep(c)
  <2>1. PICK k : k = call[Closer(c)]
    OBVIOUS
  <2>2. call'[Closer(c)] = k /\ ClosedOK(c, k)'
    BY <1>1, <1>2, <2>1, ClosedKept
  <2> QED
    BY <2>2 DEF ClosedOK, Swept
<1>3. CASE CloserStep(c)
  BY <1>1, <1>3, ClosedClose, ClosedDisconnect DEF CloserStep
<1> QED
  BY <1>2, <1>3

(***************************************************************************)
(* When a channel is closed while its worker rests and no frame of it is   *)
(* processed later, disconnect leaves no entry of the connection in any    *)
(* table, whatever other workers do to the topics that it sweeps.          *)
(***************************************************************************)
THEOREM NothingRemains == Spec => []CleanClose
<1>1. CloseInv => CleanClose
  BY DEF CloseInv, ClosedOK, Swept, Unswept, Listed, CleanClose, Forgotten, At
<1> QED
  BY TypeInvInit, TypeInvNext, CloseInvInit, CloseInvNext, <1>1, PTL DEF Spec
=============================================================================
