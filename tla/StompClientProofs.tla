-------------------------- MODULE StompClientProofs --------------------------
(***************************************************************************)
(* Two threads of the client share their objects without a lock. What they *)
(* find there as long as the program has not run into undefined behaviour. *)
(***************************************************************************)
EXTENDS StompClient, SequenceTheorems, TLAPS

USE DEF pointers, network, server

Maps(S, T) == UNION {[D -> T] : D \in SUBSET S}

-----------------------------------------------------------------------------
(* Types, with what the program counters say about the locals *)

Awaited == {"SUBSCRIBE", "UNSUBSCRIBE", "DISCONNECT"}

(* A frame that the client sends, and what the main thread is to send *)
WellFormed(f) ==
  /\ f.command \in Commands \cup {"torn"}
  /\ f.command \in {"SUBSCRIBE", "UNSUBSCRIBE"} <=> f.id \in Count
  /\ f.command \in Awaited <=> f.receipt \in Count

Sent == {f \in ClientFrame : /\ WellFormed(f)
                             /\ f.command = "SUBSCRIBE" => f.channel \in Channels
                             /\ f.command = "DISCONNECT" => f.channel = None}

Answers ==
  {f \in ServerFrame :
     /\ f.command = "MESSAGE" => f.channel \in Channels
     /\ IF f.command = "RECEIPT" THEN f.receipt \in Count /\ f.request \in Request
                                 ELSE f.receipt = None}

Objects ==
  [connected : BOOLEAN, stopCommunication : BOOLEAN, errorOccured : BOOLEAN,
   idCounter : Count, receiptCounter : Count,
   eventSummary : [Channels -> Nat],
   receiptMap : Maps(Count, Request),
   subscriptionIds : Maps(Channels, Count)]

MainTypes ==
  [pc : {"prompt", "check", "store", "send", "summary", "newHandler",
         "newProtocol", "connect", "thread", "join"},
   command : Commands \cup {"summary", None}, channel : Channels \cup {None},
   id : Count \cup {None}, receipt : Count \cup {None}, left : 0..MaxEvents]

CommTypes ==
  [pc : {"none", "test", "enter", "read", "parse", "lost", "close",
         "nullHandler", "delete", "nullProtocol", "ended"},
   handler : 0..MaxLogins, frame : Answers \cup {None}, error : BOOLEAN]

LoggingIn == main.pc \in {"newHandler", "newProtocol", "connect", "thread"}

(* The command of the line that is being executed *)
Executes(commands) == main.pc \notin {"prompt", "join"} /\ main.command \in commands

MainInv ==
  /\ main \in MainTypes
  /\ LoggingIn => main.command = "CONNECT"
  /\ main.pc = "check" => main.id = None /\ main.receipt = None
  /\ Executes({"CONNECT"}) => main.id = None /\ main.receipt = None
  /\ Executes({"CONNECT"}) /\ main.pc \in {"check", "newHandler"} => logins < MaxLogins
  /\ Executes({"CONNECT", "DISCONNECT"}) => main.channel = None
  /\ Executes({"SUBSCRIBE", "UNSUBSCRIBE"}) => main.channel \in Channels
  /\ main.pc \in {"store", "send"} => WellFormed(main)
  /\ main.pc = "store" => main.command \in Awaited

CommInv ==
  /\ comm \in CommTypes
  /\ comm.pc = "parse" => comm.frame \in Answers
  /\ comm.pc # "parse" => comm.frame = None

(* A line that is being checked has not used up an id yet. *)
Numbers ==
  \A s \in Sessions :
    /\ object[s].idCounter <= typed /\ object[s].receiptCounter <= typed
    /\ main.pc = "check" => /\ object[s].idCounter < typed
                            /\ object[s].receiptCounter < typed

SharedInv ==
  /\ outcome \in {"running", "terminated", "undefined"}
  /\ typed \in Count /\ logins \in 0..MaxLogins
  /\ protocol \in 0..logins /\ connectionHandler \in 0..logins
  /\ protocols \subseteq 1..logins /\ handlers \subseteq 1..logins
  /\ object \in [Sessions -> Objects]

NetworkInv ==
  /\ link \in [Sessions -> {"none", "up", "down"}]
  /\ toServer \in [Sessions -> Seq(Sent)]
  /\ toClient \in [Sessions -> Seq(Answers)]
  /\ subscriptions \in [Sessions -> Maps(Count, Channels)]
  /\ messages \in [Sessions -> 0..MaxMessages]
  /\ dropped \in [Sessions -> SUBSET (Commands \cup {"torn"})]

TypeInv == MainInv /\ CommInv /\ SharedInv /\ Numbers /\ NetworkInv

LEMMA MapFacts ==
  ASSUME NEW S, NEW T, NEW f
  PROVE  f \in Maps(S, T) <=> PartialFunction(f, S, T)
BY DEF Maps, PartialFunction

LEMMA WithMap ==
  ASSUME NEW S, NEW T, NEW f \in Maps(S, T), NEW x \in S, NEW y \in T
  PROVE  With(f, x, y) \in Maps(S, T)
<1>1. DOMAIN f \subseteq S /\ f \in [DOMAIN f -> T]
  BY MapFacts DEF PartialFunction
<1> DEFINE D == DOMAIN f \cup {x}
<1>2. D \in SUBSET S /\ With(f, x, y) \in [D -> T]
  BY <1>1 DEF With
<1> QED
  BY <1>2 DEF Maps

LEMMA WithoutMap ==
  ASSUME NEW S, NEW T, NEW f \in Maps(S, T), NEW x
  PROVE  Without(f, x) \in Maps(S, T)
<1>1. DOMAIN f \subseteq S /\ f \in [DOMAIN f -> T]
  BY MapFacts DEF PartialFunction
<1> DEFINE D == DOMAIN f \ {x}
<1>2. D \in SUBSET S /\ Without(f, x) \in [D -> T]
  BY <1>1 DEF Without, Restrict
<1> QED
  BY <1>2 DEF Maps

LEMMA TypeOKFollows == TypeInv => TypeOK
<1> SUFFICES ASSUME TypeInv PROVE TypeOK
  OBVIOUS
<1>1. main \in MainTypes
  BY DEF TypeInv, MainInv
<1>2. comm \in [pc : {"none", "test", "enter", "read", "parse", "lost", "close",
                     "nullHandler", "delete", "nullProtocol", "ended"},
               handler : 0..MaxLogins, frame : ServerFrame \cup {None}, error : BOOLEAN]
  BY DEF TypeInv, CommInv, CommTypes, Answers
<1>3. /\ outcome \in {"running", "terminated", "undefined"}
      /\ typed \in Count /\ logins \in 0..MaxLogins
      /\ protocol \in 0..MaxLogins /\ connectionHandler \in 0..MaxLogins
      /\ protocols \subseteq Sessions /\ handlers \subseteq Sessions
  BY ClientAssumption DEF TypeInv, SharedInv, Sessions
<1>4. ASSUME NEW s \in Sessions
      PROVE  /\ object[s] \in
                  [connected : BOOLEAN, stopCommunication : BOOLEAN,
                   errorOccured : BOOLEAN, idCounter : Count, receiptCounter : Count,
                   eventSummary : [Channels -> Nat],
                   receiptMap : {object[s].receiptMap},
                   subscriptionIds : {object[s].subscriptionIds}]
             /\ PartialFunction(object[s].receiptMap, Count, Request)
             /\ PartialFunction(object[s].subscriptionIds, Channels, Count)
  <2>1. object[s] \in Objects
    BY DEF TypeInv, SharedInv
  <2>2. /\ object[s].receiptMap \in Maps(Count, Request)
        /\ object[s].subscriptionIds \in Maps(Channels, Count)
    BY <2>1 DEF Objects
  <2> QED
    BY <2>1, <2>2, MapFacts DEF Objects
<1>5. ASSUME NEW s \in Sessions
      PROVE  /\ link[s] \in {"none", "up", "down"}
             /\ toServer[s] \in Seq(ClientFrame)
             /\ toClient[s] \in Seq(ServerFrame)
             /\ PartialFunction(subscriptions[s], Count, Channels)
             /\ messages[s] \in 0..MaxMessages
             /\ dropped[s] \subseteq Commands \cup {"torn"}
  <2>1. /\ link[s] \in {"none", "up", "down"}
        /\ toServer[s] \in Seq(Sent)
        /\ toClient[s] \in Seq(Answers)
        /\ subscriptions[s] \in Maps(Count, Channels)
        /\ messages[s] \in 0..MaxMessages
        /\ dropped[s] \subseteq Commands \cup {"torn"}
    BY DEF TypeInv, NetworkInv
  <2>2. Sent \subseteq ClientFrame /\ Answers \subseteq ServerFrame
    BY DEF Sent, Answers
  <2> QED
    BY <2>1, <2>2, MapFacts, SeqMonotonic
<1> QED
  BY <1>1, <1>2, <1>3, <1>4, <1>5 DEF TypeOK, MainTypes

LEMMA TypeInit == Init => TypeInv
<1> SUFFICES ASSUME Init PROVE TypeInv
  OBVIOUS
<1>1. MainInv
  <2>1. AtPrompt \in MainTypes
    BY ClientAssumption DEF AtPrompt, MainTypes
  <2>2. main = AtPrompt /\ AtPrompt.pc = "prompt"
    BY DEF Init, AtPrompt
  <2> QED
    BY <2>1, <2>2 DEF MainInv, LoggingIn, Executes
<1>2. CommInv
  <2>1. nullptr \in 0..MaxLogins
    BY ClientAssumption DEF nullptr
  <2>2. NoThread \in CommTypes /\ NoThread.pc = "none" /\ NoThread.frame = None
    BY <2>1 DEF CommTypes, NoThread
  <2> QED
    BY <2>2 DEF Init, CommInv
<1>3. Empty \in Maps({}, {})
  BY DEF Empty, Maps
<1>4. Empty \in Maps(Count, Request) /\ Empty \in Maps(Channels, Count) /\ Empty \in Maps(Count, Channels)
  BY DEF Empty, Maps
<1>5. 0 \in Count
  BY ClientAssumption DEF Count
<1>6. NewProtocol \in Objects
  BY <1>4, <1>5 DEF NewProtocol, Objects
<1>7. SharedInv
  BY <1>5, <1>6, ClientAssumption DEF Init, SharedInv, nullptr
<1>8. Numbers
  <2> SUFFICES ASSUME NEW s \in Sessions
               PROVE object[s].idCounter <= typed /\ object[s].receiptCounter <= typed
    BY DEF Init, Numbers, AtPrompt
  <2> QED
    BY DEF Init, NewProtocol
<1>9. NetworkInv
  BY <1>4, ClientAssumption DEF Init, NetworkInv
<1> QED
  BY <1>1, <1>2, <1>7, <1>8, <1>9 DEF TypeInv

LEMMA PromptFields ==
  /\ AtPrompt \in MainTypes /\ AtPrompt.pc = "prompt"
  /\ AtPrompt.channel = None /\ AtPrompt.id = None /\ AtPrompt.receipt = None
BY ClientAssumption DEF AtPrompt, MainTypes

LEMMA PromptOK == main' = AtPrompt => MainInv'
BY PromptFields DEF MainInv, LoggingIn, Executes

(* A session that is used is one, and its object has its type. *)
LEMMA SessionFacts ==
  ASSUME TypeInv
  PROVE  /\ protocols \subseteq Sessions /\ handlers \subseteq Sessions
         /\ Sessions \subseteq 1..MaxLogins /\ logins \in 0..MaxLogins
         /\ MaxLogins \in Nat
         /\ \A s \in Sessions : object[s] \in Objects
BY ClientAssumption DEF TypeInv, SharedInv, Sessions

LEMMA NumbersKept ==
  ASSUME TypeInv, typed' = typed, main'.pc # "check" \/ main' = main,
         \A s \in Sessions : /\ object'[s].idCounter = object[s].idCounter
                             /\ object'[s].receiptCounter = object[s].receiptCounter
  PROVE  Numbers'
BY DEF TypeInv, Numbers

(* A step of the main thread alone *)
LEMMA MainMoves ==
  ASSUME TypeInv, OnlyMain, MainInv', main'.pc # "check"
  PROVE  TypeInv'
<1>1. CommInv' /\ NetworkInv'
  BY DEF TypeInv, CommInv, NetworkInv, OnlyMain, CommSame
<1>2. SharedInv'
  BY DEF TypeInv, SharedInv, OnlyMain, CommSame
<1>3. Numbers'
  BY NumbersKept DEF OnlyMain
<1> QED
  BY <1>1, <1>2, <1>3 DEF TypeInv

(* A step of the main thread on the object that it uses *)
LEMMA ObjectMoves ==
  ASSUME TypeInv, NEW changed \in Objects, Change(changed), MainInv',
         main'.pc # "check", protocol \in protocols,
         changed.idCounter <= typed, changed.receiptCounter <= typed
  PROVE  TypeInv'
<1>1. CommInv' /\ NetworkInv'
  BY DEF TypeInv, CommInv, NetworkInv, Change, CommSame
<1>2. SharedInv'
  BY DEF TypeInv, SharedInv, Change, CommSame
<1>3. Numbers'
  <2> SUFFICES ASSUME NEW s \in Sessions
               PROVE  object'[s].idCounter <= typed /\ object'[s].receiptCounter <= typed
    BY DEF Numbers, Change
  <2>1. object[s].idCounter \in Nat /\ object[s].receiptCounter \in Nat /\ typed \in Nat
    BY SessionFacts, ClientAssumption DEF Objects, Count, TypeInv, SharedInv
  <2>2. object[s].idCounter <= typed /\ object[s].receiptCounter <= typed
    BY <2>1 DEF TypeInv, Numbers
  <2>3. object'[s] = IF s = protocol THEN changed ELSE object[s]
    BY DEF Change, TypeInv, SharedInv
  <2> QED
    BY <2>2, <2>3
<1> QED
  BY <1>1, <1>2, <1>3 DEF TypeInv

LEMMA TypeReadCommand ==
  ASSUME TypeInv, NEW command, NEW channel, ReadCommand(command, channel),
         \/ command \in {"CONNECT", "DISCONNECT"} /\ channel = None
         \/ command \in {"SUBSCRIBE", "UNSUBSCRIBE", "SEND", "summary"} /\ channel \in Channels
  PROVE  TypeInv'
<1> DEFINE checking == [AtPrompt EXCEPT !.pc = "check", !.command = command,
                                        !.channel = channel]
           logging == [AtPrompt EXCEPT !.pc = "newHandler", !.command = command]
<1>1. CommInv' /\ NetworkInv'
  BY DEF TypeInv, CommInv, NetworkInv, ReadCommand, CommSame
<1>2. typed \in Nat /\ typed' = typed + 1 /\ typed' \in Count
  BY ClientAssumption DEF TypeInv, SharedInv, ReadCommand, Count
<1>3. SharedInv'
  BY <1>2 DEF TypeInv, SharedInv, ReadCommand, CommSame
<1>4. MainInv'
  <2>1. CASE main' = checking
    <3>1. command \in Commands \cup {"summary", None} /\ channel \in Channels \cup {None}
      BY DEF Commands
    <3>2. /\ checking \in MainTypes /\ checking.pc = "check" /\ checking.command = command
          /\ checking.channel = channel /\ checking.id = None /\ checking.receipt = None
      BY <3>1, PromptFields DEF MainTypes
    <3>3. command = "CONNECT" => logins' < MaxLogins
      BY DEF ReadCommand
    <3> QED
      BY <2>1, <3>1, <3>2, <3>3 DEF MainInv, LoggingIn, Executes
  <2>2. CASE main' = logging /\ command = "CONNECT"
    <3>1. command \in Commands \cup {"summary", None}
      BY DEF Commands
    <3>2. /\ logging \in MainTypes /\ logging.pc = "newHandler"
          /\ logging.command = "CONNECT" /\ logging.channel = None
          /\ logging.id = None /\ logging.receipt = None
      BY <2>2, <3>1, PromptFields DEF MainTypes
    <3>3. logins' < MaxLogins
      BY <2>2 DEF ReadCommand
    <3> QED
      BY <2>2, <3>1, <3>2, <3>3 DEF MainInv, LoggingIn, Executes
  <2>3. CASE main' = AtPrompt
    BY <2>3, PromptOK
  <2> QED
    BY <2>1, <2>2, <2>3 DEF ReadCommand
<1>5. Numbers'
  <2> SUFFICES ASSUME NEW s \in Sessions
               PROVE  object[s].idCounter <= typed /\ object[s].receiptCounter <= typed
    <3>1. ASSUME NEW s \in Sessions
          PROVE  object[s].idCounter \in Nat /\ object[s].receiptCounter \in Nat
      BY SessionFacts, ClientAssumption DEF Objects, Count
    <3> QED
      BY <1>2, <3>1 DEF Numbers, ReadCommand
  <2>1. main.pc # "check"
    BY DEF ReadCommand
  <2> QED
    BY <1>2, <2>1 DEF TypeInv, Numbers
<1> QED
  BY <1>1, <1>3, <1>4, <1>5 DEF TypeInv

LEMMA TypeBlankLine == TypeInv /\ ReadBlankLine => TypeInv'
<1> SUFFICES ASSUME TypeInv, ReadBlankLine PROVE TypeInv'
  OBVIOUS
<1>1. CommInv' /\ NetworkInv' /\ MainInv'
  BY DEF TypeInv, CommInv, NetworkInv, MainInv, LoggingIn, Executes, ReadBlankLine, CommSame
<1>2. typed \in Nat /\ typed' = typed + 1 /\ typed' \in Count
  BY ClientAssumption DEF TypeInv, SharedInv, ReadBlankLine, Count
<1>3. SharedInv'
  BY <1>2 DEF TypeInv, SharedInv, ReadBlankLine, CommSame
<1>4. Numbers'
  <2>1. ASSUME NEW s \in Sessions
        PROVE  object[s].idCounter \in Nat /\ object[s].receiptCounter \in Nat
    BY SessionFacts, ClientAssumption DEF Objects, Count
  <2>2. main.pc = "prompt"
    BY DEF ReadBlankLine
  <2> QED
    BY <1>2, <2>1, <2>2 DEF TypeInv, Numbers, ReadBlankLine
<1> QED
  BY <1>1, <1>3, <1>4 DEF TypeInv

(* Refuse, LoginAgain, Report, SummaryOf, Summarize *)
LEMMA TypeLookups ==
  TypeInv /\ (Refuse \/ LoginAgain \/ Report \/ SummaryOf \/ Summarize) => TypeInv'
<1> SUFFICES ASSUME TypeInv, Refuse \/ LoginAgain \/ Report \/ SummaryOf \/ Summarize
             PROVE  TypeInv'
  OBVIOUS
<1>1. main \in MainTypes /\ OnlyMain
  BY DEF TypeInv, MainInv, Refuse, LoginAgain, Report, SummaryOf, Summarize
<1>2. logins' = logins
  BY <1>1 DEF OnlyMain
<1>3. CASE main' = AtPrompt
  BY <1>1, <1>3, MainMoves, PromptOK, PromptFields
<1>4. CASE LoginAgain
  <2>1. /\ main' \in MainTypes /\ main'.pc = "newHandler" /\ main'.command = "CONNECT"
        /\ main'.channel = None /\ main'.id = main.id /\ main'.receipt = main.receipt
    BY <1>1, <1>4 DEF LoginAgain, Checks, MainTypes
  <2>2. main.id = None /\ main.receipt = None /\ logins < MaxLogins
    BY <1>4 DEF LoginAgain, Checks, TypeInv, MainInv, Executes
  <2>3. MainInv'
    BY <1>2, <2>1, <2>2 DEF MainInv, LoggingIn, Executes
  <2> QED
    BY <1>1, <2>1, <2>3, MainMoves
<1>5. ASSUME Report, NEW n \in 0..MaxEvents, n # 0,
             main' = [main EXCEPT !.pc = "send", !.left = n]
      PROVE  TypeInv'
  <2>1. /\ main' \in MainTypes /\ main'.pc = "send" /\ main'.command = "SEND"
        /\ main'.id = main.id /\ main'.receipt = main.receipt
    BY <1>1, <1>5 DEF Report, Checks, MainTypes
  <2>2. main.id = None /\ main.receipt = None
    BY <1>5 DEF Report, Checks, TypeInv, MainInv
  <2>3. None \notin Count
    BY ClientAssumption DEF Count
  <2>4. WellFormed(main)'
    BY <2>1, <2>2, <2>3 DEF WellFormed, Commands, Awaited
  <2>5. MainInv'
    BY <2>1, <2>4 DEF MainInv, LoggingIn, Executes
  <2> QED
    BY <1>1, <2>1, <2>5, MainMoves
<1>6. CASE SummaryOf
  <2>1. /\ main' \in MainTypes /\ main'.pc = "summary" /\ main'.command = "summary"
    BY <1>1, <1>6 DEF SummaryOf, Checks, MainTypes
  <2>2. MainInv'
    BY <2>1 DEF MainInv, LoggingIn, Executes
  <2> QED
    BY <1>1, <2>1, <2>2, MainMoves
<1> QED
  BY <1>3, <1>4, <1>5, <1>6 DEF Refuse, Report, Summarize

(* What a command that is checked stores to send later *)
LEMMA StoreOK ==
  ASSUME TypeInv, Checks(main.command), NEW id \in Count \cup {None}, NEW receipt \in Count,
         Store(id, receipt), main.command \in Awaited,
         id \in Count <=> main.command # "DISCONNECT"
  PROVE  MainInv' /\ main'.pc = "store"
<1>1. /\ main' \in MainTypes /\ main'.pc = "store" /\ main'.command = main.command
      /\ main'.id = id /\ main'.receipt = receipt /\ main'.channel = main.channel
  BY DEF Store, MainTypes, TypeInv, MainInv
<1>2. WellFormed(main)'
  BY <1>1 DEF WellFormed, Commands, Awaited
<1>3. /\ main.command = "DISCONNECT" => main.channel = None
      /\ main.command # "DISCONNECT" => main.channel \in Channels
  BY DEF TypeInv, MainInv, Executes, Checks, Awaited
<1>4. main'.command # "CONNECT"
  BY <1>1 DEF Awaited
<1> QED
  BY <1>1, <1>2, <1>3, <1>4 DEF MainInv, LoggingIn, Executes, Awaited

(* The numbers that a command may take *)
LEMMA NextNumbers ==
  ASSUME TypeInv, Checks(main.command)
  PROVE  LET p == object[protocol]
         IN  /\ protocol \in Sessions /\ p \in Objects
             /\ p.idCounter + 1 \in Count /\ p.receiptCounter + 1 \in Count
             /\ p.idCounter + 1 <= typed /\ p.receiptCounter + 1 <= typed
             /\ p.idCounter <= typed
<1>1. protocol \in Sessions /\ object[protocol] \in Objects
  BY SessionFacts DEF Checks
<1>2. /\ object[protocol].idCounter \in Nat /\ object[protocol].receiptCounter \in Nat
      /\ typed \in Nat /\ typed <= MaxCommands /\ MaxCommands \in Nat
  BY <1>1, ClientAssumption DEF Objects, Count, TypeInv, SharedInv
<1>3. object[protocol].idCounter < typed /\ object[protocol].receiptCounter < typed
  BY <1>1 DEF TypeInv, Numbers, Checks
<1> QED
  BY <1>1, <1>2, <1>3 DEF Count

LEMMA TypeJoin == TypeInv /\ Join => TypeInv'
<1> SUFFICES ASSUME TypeInv, Join PROVE TypeInv'
  OBVIOUS
<1> DEFINE p == object[protocol]
           joined == With(p.subscriptionIds, main.channel, p.idCounter)
           changed == [p EXCEPT !.idCounter = @ + 1, !.receiptCounter = @ + 1,
                                !.subscriptionIds = joined]
<1>1. Checks(main.command) /\ main.command = "SUBSCRIBE" /\ protocol \in protocols
  BY DEF Join, Checks
<1>2. CASE OnlyMain /\ main' = AtPrompt
  BY <1>2, MainMoves, PromptOK, PromptFields
<1>3. CASE Store(p.idCounter, p.receiptCounter) /\ Change(changed)
  <2>1. main.channel \in Channels
    BY <1>1 DEF TypeInv, MainInv, Executes, Checks
  <2>2. joined \in Maps(Channels, Count)
    BY <1>1, <2>1, NextNumbers, WithMap DEF Objects
  <2>3. /\ changed \in Objects /\ changed.idCounter = p.idCounter + 1
        /\ changed.receiptCounter = p.receiptCounter + 1
    <3> HIDE DEF joined
    <3> QED
      BY <1>1, <2>2, NextNumbers DEF Objects
  <2>4. p.idCounter \in Count /\ p.receiptCounter \in Count
    BY <1>1, NextNumbers DEF Objects
  <2>5. MainInv' /\ main'.pc = "store"
    BY <1>1, <1>3, <2>4, StoreOK DEF Awaited
  <2> HIDE DEF changed
  <2> QED
    BY <1>1, <1>3, <2>3, <2>5, NextNumbers, ObjectMoves
<1> QED
  BY <1>2, <1>3 DEF Join

LEMMA TypeExit == TypeInv /\ Exit => TypeInv'
<1> SUFFICES ASSUME TypeInv, Exit PROVE TypeInv'
  OBVIOUS
<1> DEFINE p == object[protocol]
           left == Without(p.subscriptionIds, main.channel)
           changed == [p EXCEPT !.receiptCounter = @ + 1, !.subscriptionIds = left]
           id == GetSubscriptionId(p, main.channel)
<1>1. Checks(main.command) /\ main.command = "UNSUBSCRIBE" /\ protocol \in protocols
  BY DEF Exit, Checks
<1>2. Change(changed)
  BY DEF Exit
<1>3. left \in Maps(Channels, Count)
  BY <1>1, NextNumbers, WithoutMap DEF Objects
<1>4. /\ changed \in Objects /\ changed.idCounter = p.idCounter
      /\ changed.receiptCounter = p.receiptCounter + 1
  <2> HIDE DEF left
  <2> QED
    BY <1>1, <1>3, NextNumbers DEF Objects
<1>5. MainInv' /\ main'.pc # "check"
  <2>1. CASE main' = AtPrompt
    BY <2>1, PromptOK, PromptFields
  <2>2. CASE id # -1 /\ Store(id, p.receiptCounter)
    <3>1. id \in Count
      <4>1. PartialFunction(p.subscriptionIds, Channels, Count)
        BY <1>1, NextNumbers, MapFacts DEF Objects
      <4> QED
        BY <2>2, <4>1 DEF GetSubscriptionId, PartialFunction
    <3>2. p.receiptCounter \in Count
      BY <1>1, NextNumbers DEF Objects
    <3> HIDE DEF id
    <3> QED
      BY <1>1, <2>2, <3>1, <3>2, StoreOK DEF Awaited
  <2> QED
    BY <2>1, <2>2 DEF Exit
<1> HIDE DEF changed
<1> QED
  BY <1>1, <1>2, <1>4, <1>5, NextNumbers, ObjectMoves

LEMMA TypeLogout == TypeInv /\ Logout => TypeInv'
<1> SUFFICES ASSUME TypeInv, Logout PROVE TypeInv'
  OBVIOUS
<1> DEFINE p == object[protocol]
           changed == [p EXCEPT !.receiptCounter = @ + 1]
<1>1. /\ Checks(main.command) /\ main.command = "DISCONNECT" /\ protocol \in protocols
      /\ Change(changed)
  BY DEF Logout, Checks
<1>2. /\ changed \in Objects /\ changed.idCounter = p.idCounter
      /\ changed.receiptCounter = p.receiptCounter + 1
  BY <1>1, NextNumbers DEF Objects
<1>3. MainInv' /\ main'.pc # "check"
  <2>1. p.receiptCounter \in Count
    BY <1>1, NextNumbers DEF Objects
  <2>2. None \notin Count
    BY ClientAssumption DEF Count
  <2> QED
    BY <1>1, <2>1, <2>2, StoreOK DEF Awaited, Logout
<1> HIDE DEF changed
<1> QED
  BY <1>1, <1>2, <1>3, NextNumbers, ObjectMoves

LEMMA TypeStoreReceipt == TypeInv /\ StoreReceipt => TypeInv'
<1> SUFFICES ASSUME TypeInv, StoreReceipt PROVE TypeInv'
  OBVIOUS
<1> DEFINE p == object[protocol]
           stored == With(p.receiptMap, main.receipt, RequestOf)
           changed == [p EXCEPT !.receiptMap = stored]
<1>1. main \in MainTypes /\ WellFormed(main) /\ main.command \in Awaited /\ main.pc = "store"
  BY DEF StoreReceipt, TypeInv, MainInv
<1>2. protocol \in Sessions /\ p \in Objects /\ protocol \in protocols
  BY SessionFacts DEF StoreReceipt
<1>3. RequestOf \in Request /\ main.receipt \in Count
  BY <1>1 DEF RequestOf, Request, WellFormed, Awaited, MainTypes
<1>4. stored \in Maps(Count, Request)
  <2> HIDE DEF RequestOf
  <2> QED
    BY <1>2, <1>3, WithMap DEF Objects
<1>5. /\ changed \in Objects /\ changed.idCounter = p.idCounter
      /\ changed.receiptCounter = p.receiptCounter
  <2> HIDE DEF stored
  <2> QED
    BY <1>2, <1>4 DEF Objects
<1>6. Change(changed)
  BY <1>2 DEF StoreReceipt, Change, TypeInv, SharedInv
<1>7. p.idCounter <= typed /\ p.receiptCounter <= typed
  BY <1>2 DEF TypeInv, Numbers
<1>8. MainInv' /\ main'.pc # "check"
  <2>1. main' = [main EXCEPT !.pc = "send"]
    BY DEF StoreReceipt
  <2>2. /\ main' \in MainTypes /\ main'.pc = "send" /\ main'.command = main.command
        /\ main'.id = main.id /\ main'.receipt = main.receipt
        /\ main'.channel = main.channel
    BY <1>1, <2>1 DEF MainTypes
  <2>3. WellFormed(main)'
    BY <1>1, <2>2 DEF WellFormed
  <2>4. /\ Executes({"CONNECT", "DISCONNECT"}) => main.channel = None
        /\ Executes({"SUBSCRIBE", "UNSUBSCRIBE"}) => main.channel \in Channels
    BY DEF TypeInv, MainInv
  <2>5. main.command # "CONNECT"
    BY <1>1 DEF Awaited
  <2> QED
    BY <1>1, <2>2, <2>3, <2>4, <2>5 DEF MainInv, LoggingIn, Executes
<1> HIDE DEF changed
<1> QED
  BY <1>2, <1>5, <1>6, <1>7, <1>8, ObjectMoves

LEMMA FrameSent ==
  ASSUME TypeInv, main.pc \in {"store", "send"}
  PROVE  /\ FrameOf \in Sent /\ FrameOf.receipt = main.receipt /\ FrameOf.id = main.id
         /\ FrameOf.command = main.command
<1>1. main \in MainTypes /\ WellFormed(main)
  BY DEF TypeInv, MainInv
<1>2. FrameOf \in ClientFrame
  BY <1>1 DEF FrameOf, ClientFrame, MainTypes, WellFormed
<1>3. /\ FrameOf.receipt = main.receipt /\ FrameOf.id = main.id
      /\ FrameOf.command = main.command
  BY DEF FrameOf
<1>4. WellFormed(FrameOf)
  BY <1>1, <1>3 DEF WellFormed
<1>5. /\ FrameOf.command = "SUBSCRIBE" => FrameOf.channel \in Channels
      /\ FrameOf.command = "DISCONNECT" => FrameOf.channel = None
  BY DEF FrameOf, TypeInv, MainInv, Executes
<1> QED
  BY <1>2, <1>3, <1>4, <1>5 DEF Sent

LEMMA TypeSend == TypeInv /\ Send => TypeInv'
<1> SUFFICES ASSUME TypeInv, Send PROVE TypeInv'
  OBVIOUS
<1>1. main \in MainTypes /\ WellFormed(main) /\ main.pc = "send"
  BY DEF Send, TypeInv, MainInv
<1>2. NetworkInv'
  <2>1. toServer' \in [Sessions -> Seq(Sent)]
    <3>1. toServer \in [Sessions -> Seq(Sent)] /\ FrameOf \in Sent
      BY <1>1, FrameSent DEF TypeInv, NetworkInv
    <3>2. toServer' = toServer \/ toServer' = [toServer EXCEPT ![protocol] = Append(@, FrameOf)]
      BY DEF Send, Transmit
    <3>3. \A q \in Seq(Sent) : Append(q, FrameOf) \in Seq(Sent)
      BY <3>1
    <3> HIDE DEF FrameOf
    <3> QED
      BY <3>1, <3>2, <3>3
  <2> QED
    BY <2>1 DEF TypeInv, NetworkInv, Send, CommSame
<1>3. CommInv' /\ SharedInv'
  BY DEF TypeInv, CommInv, SharedInv, Send, CommSame
<1>4. MainInv'
  <2>1. ASSUME main.command = "CONNECT", main' = [main EXCEPT !.pc = "thread"]
        PROVE  MainInv'
    <3>1. /\ main' \in MainTypes /\ main'.pc = "thread" /\ main'.command = "CONNECT"
          /\ main'.id = main.id /\ main'.receipt = main.receipt
          /\ main'.channel = main.channel
      BY <1>1, <2>1 DEF MainTypes
    <3>2. main.id = None /\ main.receipt = None /\ main.channel = None
      BY <1>1, <2>1 DEF TypeInv, MainInv, Executes
    <3> QED
      BY <3>1, <3>2 DEF MainInv, LoggingIn, Executes
  <2>2. ASSUME main' = [AtPrompt EXCEPT !.pc = "join"]
        PROVE  MainInv'
    <3>1. main' \in MainTypes /\ main'.pc = "join"
      BY <2>2, PromptFields DEF MainTypes
    <3> QED
      BY <3>1 DEF MainInv, LoggingIn, Executes
  <2>3. ASSUME main.command # "CONNECT", main.left > 1,
               main' = [main EXCEPT !.left = @ - 1]
        PROVE  MainInv'
    <3>1. main.left \in 0..MaxEvents /\ main.left - 1 \in 0..MaxEvents
      BY <1>1, <2>3, ClientAssumption DEF MainTypes
    <3>2. /\ main' \in MainTypes /\ main'.pc = "send" /\ main'.command = main.command
          /\ main'.id = main.id /\ main'.receipt = main.receipt
          /\ main'.channel = main.channel
      BY <1>1, <2>3, <3>1 DEF MainTypes
    <3>3. WellFormed(main)'
      BY <1>1, <3>2 DEF WellFormed
    <3>4. /\ Executes({"CONNECT", "DISCONNECT"}) => main.channel = None
          /\ Executes({"SUBSCRIBE", "UNSUBSCRIBE"}) => main.channel \in Channels
      BY DEF TypeInv, MainInv
    <3> QED
      BY <1>1, <2>3, <3>2, <3>3, <3>4 DEF MainInv, LoggingIn, Executes
  <2>4. CASE main' = AtPrompt
    BY <2>4, PromptOK
  <2> QED
    BY <2>1, <2>2, <2>3, <2>4 DEF Send
<1>5. Numbers'
  <2>1. main'.pc # "check"
    BY <1>1, PromptFields DEF Send, MainTypes
  <2> QED
    BY <2>1, NumbersKept DEF Send
<1> QED
  BY <1>2, <1>3, <1>4, <1>5 DEF TypeInv

LEMMA NoThreadOK == NoThread \in CommTypes /\ NoThread.pc = "none" /\ NoThread.frame = None
<1>1. nullptr \in 0..MaxLogins
  BY ClientAssumption DEF nullptr
<1> QED
  BY <1>1 DEF CommTypes, NoThread

LEMMA TypeJoinCommunicator == TypeInv /\ JoinCommunicator => TypeInv'
<1> SUFFICES ASSUME TypeInv, JoinCommunicator PROVE TypeInv'
  OBVIOUS
<1>1. MainInv' /\ main'.pc # "check"
  BY PromptOK, PromptFields DEF JoinCommunicator
<1>2. CommInv'
  BY NoThreadOK DEF JoinCommunicator, CommInv
<1>3. SharedInv' /\ NetworkInv'
  BY DEF JoinCommunicator, TypeInv, SharedInv, NetworkInv
<1>4. Numbers'
  BY <1>1, NumbersKept DEF JoinCommunicator
<1> QED
  BY <1>1, <1>2, <1>3, <1>4 DEF TypeInv

(* A login goes on. *)
LEMMA LoginMoves ==
  ASSUME TypeInv, LoggingIn, NEW pc \in {"newProtocol", "connect", "send", "thread"},
         main' = [main EXCEPT !.pc = pc]
  PROVE  MainInv' /\ main'.pc # "check"
<1>1. /\ main' \in MainTypes /\ main'.pc = pc /\ main'.command = main.command
      /\ main'.id = main.id /\ main'.receipt = main.receipt
      /\ main'.channel = main.channel
  BY DEF MainTypes, TypeInv, MainInv
<1>2. /\ main.command = "CONNECT" /\ main.id = None /\ main.receipt = None
      /\ main.channel = None
  BY DEF TypeInv, MainInv, LoggingIn, Executes
<1>3. None \notin Count
  BY ClientAssumption DEF Count
<1>4. WellFormed(main)'
  BY <1>1, <1>2, <1>3 DEF WellFormed, Commands, Awaited
<1> QED
  BY <1>1, <1>2, <1>4 DEF MainInv, LoggingIn, Executes

LEMMA TypeNewConnectionHandler == TypeInv /\ NewConnectionHandler => TypeInv'
<1> SUFFICES ASSUME TypeInv, NewConnectionHandler PROVE TypeInv'
  OBVIOUS
<1>1. MainInv' /\ main'.pc # "check"
  BY LoginMoves DEF NewConnectionHandler, LoggingIn
<1>2. CommInv' /\ NetworkInv'
  BY DEF NewConnectionHandler, CommSame, TypeInv, CommInv, NetworkInv
<1>3. SharedInv'
  <2>1. logins < MaxLogins /\ logins \in 0..MaxLogins /\ MaxLogins \in Nat
    BY ClientAssumption
    DEF NewConnectionHandler, TypeInv, SharedInv, MainInv, LoggingIn, Executes
  <2>2. /\ logins' = logins + 1 /\ logins' \in 0..MaxLogins
        /\ 0..logins \subseteq 0..logins' /\ 1..logins \subseteq 1..logins'
        /\ logins' \in 1..logins' /\ logins' \in 0..logins'
    BY <2>1 DEF NewConnectionHandler
  <2> QED
    BY <2>2 DEF NewConnectionHandler, TypeInv, SharedInv
<1>4. Numbers'
  BY <1>1, NumbersKept DEF NewConnectionHandler
<1> QED
  BY <1>1, <1>2, <1>3, <1>4 DEF TypeInv

LEMMA TypeNewStompProtocol == TypeInv /\ NewStompProtocol => TypeInv'
<1> SUFFICES ASSUME TypeInv, NewStompProtocol PROVE TypeInv'
  OBVIOUS
<1>1. MainInv' /\ main'.pc # "check"
  BY LoginMoves DEF NewStompProtocol, LoggingIn
<1>2. CommInv' /\ NetworkInv'
  BY DEF NewStompProtocol, CommSame, TypeInv, CommInv, NetworkInv
<1>3. SharedInv'
  <2>1. logins \in 1..logins /\ logins \in 0..logins
    BY DEF NewStompProtocol, TypeInv, SharedInv
  <2> QED
    BY <2>1 DEF NewStompProtocol, TypeInv, SharedInv
<1>4. Numbers'
  BY <1>1, NumbersKept DEF NewStompProtocol
<1> QED
  BY <1>1, <1>2, <1>3, <1>4 DEF TypeInv

LEMMA TypeConnect == TypeInv /\ (Connect \/ ConnectFails) => TypeInv'
<1> SUFFICES ASSUME TypeInv, Connect \/ ConnectFails PROVE TypeInv'
  OBVIOUS
<1>1. MainInv' /\ main'.pc # "check"
  BY LoginMoves, PromptOK, PromptFields DEF Connect, ConnectFails, LoggingIn
<1>2. CommInv' /\ NetworkInv'
  BY DEF Connect, ConnectFails, CommSame, TypeInv, CommInv, NetworkInv
<1>3. SharedInv'
  <2>1. nullptr \in 0..logins
    BY DEF nullptr, TypeInv, SharedInv
  <2> QED
    BY <2>1 DEF Connect, ConnectFails, CommSame, TypeInv, SharedInv
<1>4. Numbers'
  BY <1>1, NumbersKept DEF Connect, ConnectFails
<1> QED
  BY <1>1, <1>2, <1>3, <1>4 DEF TypeInv

LEMMA TypeStartCommunicator == TypeInv /\ StartCommunicator => TypeInv'
<1> SUFFICES ASSUME TypeInv, StartCommunicator PROVE TypeInv'
  OBVIOUS
<1>1. MainInv' /\ main'.pc # "check"
  <2>1. CASE main' = AtPrompt
    BY <2>1, PromptOK, PromptFields
  <2>2. CASE main' = main /\ logins' = logins
    BY <2>2 DEF TypeInv, MainInv, LoggingIn, Executes, StartCommunicator
  <2> QED
    BY <2>1, <2>2 DEF StartCommunicator
<1>2. CommInv'
  <2>1. [NoThread EXCEPT !.pc = "test"] \in CommTypes
        /\ [NoThread EXCEPT !.pc = "test"].frame = None
        /\ [NoThread EXCEPT !.pc = "test"].pc = "test"
    BY NoThreadOK DEF CommTypes
  <2> QED
    BY <2>1 DEF StartCommunicator, TypeInv, CommInv
<1>3. SharedInv' /\ NetworkInv'
  BY DEF StartCommunicator, TypeInv, SharedInv, NetworkInv
<1>4. Numbers'
  BY <1>1, NumbersKept DEF StartCommunicator
<1> QED
  BY <1>1, <1>2, <1>3, <1>4 DEF TypeInv

LEMMA MainKept == TypeInv /\ main' = main /\ logins' = logins => MainInv'
BY DEF TypeInv, MainInv, LoggingIn, Executes

LEMMA GotoOK ==
  ASSUME TypeInv, comm.pc # "parse", Goto("test") \/ Goto("enter") \/ Goto("lost")
           \/ Goto("close") \/ Goto("delete") \/ Goto("nullProtocol") \/ Goto("ended")
  PROVE  CommInv'
<1>1. comm \in CommTypes /\ comm.frame = None
  BY DEF TypeInv, CommInv
<1>2. ASSUME NEW pc \in {"test", "enter", "lost", "close", "delete", "nullProtocol", "ended"},
             Goto(pc)
      PROVE  CommInv'
  <2>1. comm' \in CommTypes /\ comm'.pc = pc /\ comm'.frame = None
    BY <1>1, <1>2 DEF Goto, CommTypes
  <2> QED
    BY <2>1 DEF CommInv
<1> QED
  BY <1>2

(* Steps of the communicator that change its place and the pointers only *)
LEMMA TypeCommunicator ==
  TypeInv /\ (TestStop \/ EnterRead \/ ReadFails \/ NullHandler \/ DeleteProtocol
                \/ EndCommunicate) => TypeInv'
<1> SUFFICES ASSUME TypeInv, TestStop \/ EnterRead \/ ReadFails \/ NullHandler
                               \/ DeleteProtocol \/ EndCommunicate
             PROVE  TypeInv'
  OBVIOUS
<1>1. UNCHANGED <<main, typed, logins, object, network, server>>
  BY DEF TestStop, EnterRead, ReadFails, NullHandler, DeleteProtocol, EndCommunicate, MainSame
<1>2. MainInv' /\ Numbers' /\ NetworkInv'
  BY <1>1, MainKept, NumbersKept DEF TypeInv, NetworkInv
<1>3. CommInv'
  <2>1. CASE EnterRead
    <3>1. comm \in CommTypes /\ comm.frame = None /\ connectionHandler \in 0..MaxLogins
      BY <2>1, SessionFacts DEF TypeInv, CommInv, EnterRead, At, SharedInv
    <3>2. /\ comm' \in CommTypes /\ comm'.pc = "read" /\ comm'.frame = None
      BY <2>1, <3>1 DEF EnterRead, CommTypes
    <3> QED
      BY <3>2 DEF CommInv
  <2>2. CASE ~EnterRead
    <3>1. comm.pc # "parse"
      BY <2>2 DEF TestStop, ReadFails, NullHandler, DeleteProtocol, EndCommunicate, At
    <3>2. Goto("test") \/ Goto("enter") \/ Goto("lost") \/ Goto("close")
            \/ Goto("delete") \/ Goto("nullProtocol") \/ Goto("ended")
      BY <2>2 DEF TestStop, ReadFails, NullHandler, DeleteProtocol, EndCommunicate
    <3> QED
      BY <3>1, <3>2, GotoOK
  <2> QED
    BY <2>1, <2>2
<1>4. SharedInv'
  <2>1. nullptr \in 0..logins
    BY DEF nullptr, TypeInv, SharedInv
  <2>2. /\ outcome' \in {"running", "terminated", "undefined"}
        /\ protocol' \in 0..logins /\ connectionHandler' \in 0..logins
        /\ protocols' \subseteq protocols /\ handlers' = handlers
    BY <2>1 DEF TestStop, EnterRead, ReadFails, NullHandler, DeleteProtocol, EndCommunicate,
       TypeInv, SharedInv
  <2> QED
    BY <1>1, <2>2 DEF TypeInv, SharedInv
<1> QED
  BY <1>2, <1>3, <1>4 DEF TypeInv

LEMMA TypeReadFrame == TypeInv /\ ReadFrame => TypeInv'
<1> SUFFICES ASSUME TypeInv, ReadFrame PROVE TypeInv'
  OBVIOUS
<1> DEFINE h == comm.handler
<1>1. /\ h \in Sessions /\ toClient[h] \in Seq(Answers) /\ toClient[h] # <<>>
      /\ comm \in CommTypes
  BY SessionFacts DEF ReadFrame, TypeInv, NetworkInv, CommInv
<1>2. Head(toClient[h]) \in Answers /\ Tail(toClient[h]) \in Seq(Answers)
  BY <1>1, HeadTailProperties
<1>3. CommInv'
  <2> DEFINE f == Head(toClient[h])
  <2>1. comm' = [comm EXCEPT !.pc = "parse", !.frame = f]
    BY DEF ReadFrame
  <2> HIDE DEF f
  <2>2. comm' \in CommTypes /\ comm'.pc = "parse" /\ comm'.frame \in Answers
    BY <1>1, <1>2, <2>1 DEF CommTypes, f
  <2> QED
    BY <2>2 DEF CommInv
<1>4. NetworkInv'
  BY <1>1, <1>2 DEF ReadFrame, MainSame, TypeInv, NetworkInv
<1>5. MainInv' /\ Numbers' /\ SharedInv'
  BY MainKept, NumbersKept DEF ReadFrame, MainSame, TypeInv, SharedInv
<1> QED
  BY <1>3, <1>4, <1>5 DEF TypeInv

(* A step of the communicator on the object of its session *)
LEMMA SharedObject ==
  ASSUME TypeInv, MainSame, UNCHANGED <<outcome, pointers, network>>,
         protocol \in protocols,
         NEW changed \in Objects, object' = [object EXCEPT ![protocol] = changed],
         changed.idCounter = object[protocol].idCounter,
         changed.receiptCounter = object[protocol].receiptCounter,
         CommInv'
  PROVE  TypeInv'
<1>1. protocol \in Sessions /\ object \in [Sessions -> Objects]
  BY SessionFacts DEF TypeInv, SharedInv
<1>2. MainInv' /\ NetworkInv'
  BY MainKept DEF MainSame, TypeInv, NetworkInv
<1>3. SharedInv'
  BY <1>1 DEF MainSame, TypeInv, SharedInv
<1>4. Numbers'
  <2>1. \A s \in Sessions : object'[s] = IF s = protocol THEN changed ELSE object[s]
    BY <1>1
  <2> QED
    BY <2>1, NumbersKept DEF MainSame
<1> QED
  BY <1>2, <1>3, <1>4 DEF TypeInv

LEMMA TypeLoseConnection == TypeInv /\ LoseConnection => TypeInv'
<1> SUFFICES ASSUME TypeInv, LoseConnection PROVE TypeInv'
  OBVIOUS
<1> DEFINE changed == [object[protocol] EXCEPT !.stopCommunication = TRUE]
<1>1. object[protocol] \in Objects /\ protocol \in Sessions /\ protocol \in protocols
  BY SessionFacts DEF LoseConnection
<1>2. /\ changed \in Objects
      /\ changed.idCounter = object[protocol].idCounter
      /\ changed.receiptCounter = object[protocol].receiptCounter
  BY <1>1 DEF Objects
<1>3. object' = [object EXCEPT ![protocol] = changed]
  BY <1>1 DEF LoseConnection, TypeInv, SharedInv
<1>4. CommInv'
  BY GotoOK DEF LoseConnection, At
<1> HIDE DEF changed
<1> QED
  BY <1>1, <1>2, <1>3, <1>4, SharedObject DEF LoseConnection

(* What parseFrame makes of the object *)
Parsed(p, frame) ==
  CASE frame.command = "CONNECTED" -> [p EXCEPT !.connected = TRUE]
    [] frame.command = "MESSAGE" -> [p EXCEPT !.eventSummary[frame.channel] = @ + 1]
    [] frame.command = "ERROR" -> [p EXCEPT !.stopCommunication = TRUE, !.errorOccured = TRUE]
    [] frame.command = "RECEIPT" -> HandleReceipt(p, frame.receipt)

LEMMA ParsedOK ==
  ASSUME NEW p \in Objects, NEW frame \in Answers
  PROVE  LET q == Parsed(p, frame)
         IN  /\ q \in Objects /\ q.idCounter = p.idCounter
             /\ q.receiptCounter = p.receiptCounter
             /\ q.subscriptionIds = p.subscriptionIds
             /\ p.connected => q.connected
             /\ \/ q.receiptMap = p.receiptMap
                \/ frame.command = "RECEIPT"
                     /\ q.receiptMap = Without(p.receiptMap, frame.receipt)
<1> DEFINE q == Parsed(p, frame)
<1>1. frame.command \in {"CONNECTED", "MESSAGE", "ERROR", "RECEIPT"}
  BY DEF Answers, ServerFrame
<1>2. CASE frame.command = "CONNECTED"
  <2>1. q = [p EXCEPT !.connected = TRUE]
    BY <1>2 DEF Parsed
  <2> HIDE DEF q
  <2> QED
    BY <2>1 DEF Objects, q
<1>3. CASE frame.command = "MESSAGE"
  <2> DEFINE e == [p.eventSummary EXCEPT ![frame.channel] = @ + 1]
  <2>1. p.eventSummary \in [Channels -> Nat] /\ frame.channel \in Channels
    BY <1>3 DEF Objects, Answers
  <2>2. e \in [Channels -> Nat]
    BY <2>1
  <2>3. q = [p EXCEPT !.eventSummary = e]
    BY <1>3 DEF Parsed, Objects
  <2> HIDE DEF q, e
  <2> QED
    BY <2>2, <2>3 DEF Objects, q
<1>4. CASE frame.command = "ERROR"
  <2>1. q = [p EXCEPT !.stopCommunication = TRUE, !.errorOccured = TRUE]
    BY <1>4 DEF Parsed
  <2> HIDE DEF q
  <2> QED
    BY <2>1 DEF Objects, q
<1>5. CASE frame.command = "RECEIPT"
  <2>1. q = HandleReceipt(p, frame.receipt)
    BY <1>5 DEF Parsed
  <2>2. CASE q = p
    BY <2>2
  <2>3. CASE frame.receipt \in DOMAIN p.receiptMap
    <3> DEFINE r == Without(p.receiptMap, frame.receipt)
    <3>1. r \in Maps(Count, Request)
      BY WithoutMap DEF Objects
    <3>2. PICK stop \in BOOLEAN : q = [p EXCEPT !.stopCommunication = stop, !.receiptMap = r]
      <4>1. q = [p EXCEPT !.stopCommunication =
                    @ \/ p.receiptMap[frame.receipt].command = "DISCONNECT", !.receiptMap = r]
        BY <2>1, <2>3 DEF HandleReceipt
      <4>2. (p.stopCommunication \/ p.receiptMap[frame.receipt].command = "DISCONNECT")
              \in BOOLEAN
        OBVIOUS
      <4> HIDE DEF r, q
      <4> QED
        BY <4>1, <4>2
    <3> HIDE DEF q, r
    <3>3. /\ q \in Objects /\ q.idCounter = p.idCounter
          /\ q.receiptCounter = p.receiptCounter
          /\ q.subscriptionIds = p.subscriptionIds
          /\ p.connected => q.connected
          /\ q.receiptMap = r
      BY <3>1, <3>2 DEF Objects
    <3> QED
      BY <1>5, <3>3 DEF q, r
  <2> QED
    BY <2>1, <2>2, <2>3 DEF HandleReceipt
<1> QED
  BY <1>1, <1>2, <1>3, <1>4, <1>5

LEMMA ParseFrameIs ==
  ASSUME TypeInv, ParseFrame
  PROVE  /\ protocol \in Sessions /\ protocol \in protocols /\ object[protocol] \in Objects
         /\ comm.frame \in Answers
         /\ object' = [object EXCEPT ![protocol] = Parsed(object[protocol], comm.frame)]
         /\ comm' = [comm EXCEPT !.pc = "test", !.frame = None, !.handler = nullptr]
         /\ MainSame /\ UNCHANGED <<outcome, pointers, network>>
BY SessionFacts DEF ParseFrame, At, TypeInv, CommInv, Parsed

LEMMA TypeParseFrame == TypeInv /\ ParseFrame => TypeInv'
<1> SUFFICES ASSUME TypeInv, ParseFrame PROVE TypeInv'
  OBVIOUS
<1> DEFINE changed == Parsed(object[protocol], comm.frame)
<1>1. CommInv'
  <2>1. nullptr \in 0..MaxLogins
    BY ClientAssumption DEF nullptr
  <2>2. comm' \in CommTypes /\ comm'.pc = "test" /\ comm'.frame = None
    BY <2>1, ParseFrameIs DEF CommTypes, TypeInv, CommInv
  <2> QED
    BY <2>2 DEF CommInv
<1>2. /\ changed \in Objects
      /\ changed.idCounter = object[protocol].idCounter
      /\ changed.receiptCounter = object[protocol].receiptCounter
  BY ParseFrameIs, ParsedOK
<1> HIDE DEF changed
<1>3. object' = [object EXCEPT ![protocol] = changed]
  BY ParseFrameIs DEF changed
<1> QED
  BY <1>1, <1>2, <1>3, ParseFrameIs, SharedObject

LEMMA TypeCloseHandler == TypeInv /\ CloseHandler => TypeInv'
<1> SUFFICES ASSUME TypeInv, CloseHandler PROVE TypeInv'
  OBVIOUS
<1>1. object[protocol] \in Objects /\ comm \in CommTypes /\ comm.frame = None
  BY SessionFacts DEF CloseHandler, At, TypeInv, CommInv
<1>2. CommInv'
  <2>1. nullptr \in 0..MaxLogins
    BY ClientAssumption DEF nullptr
  <2>2. PICK e \in BOOLEAN : comm' = [comm EXCEPT !.pc = "nullHandler", !.handler = nullptr,
                                                !.error = e]
    BY <1>1 DEF CloseHandler, Objects
  <2>3. comm' \in CommTypes /\ comm'.pc = "nullHandler" /\ comm'.frame = None
    BY <1>1, <2>1, <2>2 DEF CommTypes
  <2> QED
    BY <2>3 DEF CommInv
<1>3. MainInv' /\ Numbers'
  BY MainKept, NumbersKept DEF CloseHandler, MainSame
<1>4. SharedInv' /\ NetworkInv'
  BY DEF CloseHandler, MainSame, TypeInv, SharedInv, NetworkInv
<1> QED
  BY <1>2, <1>3, <1>4 DEF TypeInv

(* The server answers a frame with a frame, or with none. *)
LEMMA ServerMoves ==
  ASSUME TypeInv, NEW s \in Sessions, ServerSame,
         link' = link \/ link' = [link EXCEPT ![s] = "down"],
         NEW rest \in Seq(Sent), toServer' = [toServer EXCEPT ![s] = rest],
         NEW q \in Seq(Answers), toClient' = [toClient EXCEPT ![s] = q],
         NEW subs \in Maps(Count, Channels), subscriptions' = [subscriptions EXCEPT ![s] = subs],
         messages' \in [Sessions -> 0..MaxMessages],
         NEW gone \in SUBSET (Commands \cup {"torn"}),
         dropped' = [dropped EXCEPT ![s] = gone]
  PROVE  TypeInv'
<1>1. MainInv' /\ CommInv' /\ SharedInv' /\ Numbers'
  BY MainKept, NumbersKept DEF ServerSame, TypeInv, CommInv, SharedInv
<1>2. NetworkInv'
  BY DEF TypeInv, NetworkInv
<1> QED
  BY <1>1, <1>2 DEF TypeInv

LEMMA SubscribedOK ==
  ASSUME NEW subs \in Maps(Count, Channels), NEW f \in Sent
  PROVE  Subscribed(subs, f) \in Maps(Count, Channels)
<1>1. CASE f.command = "SUBSCRIBE"
  <2>1. f.id \in Count /\ f.channel \in Channels
    BY <1>1 DEF Sent, WellFormed
  <2>2. Subscribed(subs, f) = With(subs, f.id, f.channel)
    BY <1>1 DEF Subscribed
  <2> QED
    BY <2>1, <2>2, WithMap
<1>2. CASE f.command = "UNSUBSCRIBE"
  BY <1>2, WithoutMap DEF Subscribed
<1>3. CASE f.command = "DISCONNECT"
  <2>1. Empty \in Maps(Count, Channels)
    BY DEF Empty, Maps
  <2> QED
    BY <1>3, <2>1 DEF Subscribed
<1>4. CASE f.command \notin {"SUBSCRIBE", "UNSUBSCRIBE", "DISCONNECT"}
  BY <1>4 DEF Subscribed
<1> QED
  BY <1>1, <1>2, <1>3, <1>4

LEMMA AnswerForms ==
  /\ \A command \in {"CONNECTED", "ERROR"} : Reply(command, None) \in Answers
  /\ \A channel \in Channels : Reply("MESSAGE", channel) \in Answers
  /\ \A receipt \in Count, command \in Awaited, channel \in Channels \cup {None} :
       Receipt(receipt, command, channel) \in Answers
BY DEF Reply, Receipt, Answers, ServerFrame, Awaited, Request

(* The frame the server takes, and what it answers *)
LEMMA ReceiveFacts ==
  ASSUME TypeInv, NEW s \in Sessions, NEW command, Receive(s, command)
  PROVE  LET f == Head(toServer[s])
         IN  /\ f \in Sent /\ f.command = command /\ toServer[s] # <<>>
             /\ toServer[s] \in Seq(Sent) /\ toClient[s] \in Seq(Answers)
             /\ subscriptions[s] \in Maps(Count, Channels)
             /\ Subscribed(subscriptions[s], f) \in Maps(Count, Channels)
<1>1. /\ toServer[s] \in Seq(Sent) /\ toServer[s] # <<>> /\ toClient[s] \in Seq(Answers)
      /\ subscriptions[s] \in Maps(Count, Channels)
  BY DEF Receive, TypeInv, NetworkInv
<1>2. Head(toServer[s]) \in Sent
  BY <1>1, HeadTailProperties
<1> QED
  BY <1>1, <1>2, SubscribedOK DEF Receive

(* Whatever the server answers to a frame, it is an answer of its type. *)
Replies(s, frame) ==
  LET f == Head(toServer[s])
  IN  \/ f.command = "CONNECT" /\ frame \in {Reply("CONNECTED", None), Reply("ERROR", None)}
      \/ /\ f.command \in {"SUBSCRIBE", "DISCONNECT"}
         /\ frame = Receipt(f.receipt, f.command,
                            IF f.command = "SUBSCRIBE" THEN f.channel ELSE None)
      \/ /\ f.command = "UNSUBSCRIBE" /\ f.id \in DOMAIN subscriptions[s]
         /\ frame = Receipt(f.receipt, "UNSUBSCRIBE", subscriptions[s][f.id])
      \/ f.command \in {"UNSUBSCRIBE", "SEND", "torn"} /\ frame = Reply("ERROR", None)
      \/ /\ f.command = "SEND"
         /\ \E channel \in Range(subscriptions[s]) : frame = Reply("MESSAGE", channel)

LEMMA RepliesOK ==
  ASSUME TypeInv, NEW s \in Sessions, NEW command, Receive(s, command),
         NEW frame, Replies(s, frame)
  PROVE  frame \in Answers
<1> DEFINE f == Head(toServer[s])
<1>1. f \in Sent
  BY ReceiveFacts
<1>2. /\ f.command \in Awaited => f.receipt \in Count
      /\ f.command = "SUBSCRIBE" => f.channel \in Channels
  BY <1>1 DEF Sent, WellFormed
<1>3. /\ Range(subscriptions[s]) \subseteq Channels
      /\ \A i \in DOMAIN subscriptions[s] : subscriptions[s][i] \in Channels
  <2>1. PartialFunction(subscriptions[s], Count, Channels)
    BY ReceiveFacts, MapFacts
  <2> QED
    BY <2>1 DEF PartialFunction, Range
<1> HIDE DEF f
<1>4. CASE f.command = "CONNECT" /\ frame \in {Reply("CONNECTED", None), Reply("ERROR", None)}
  BY <1>4, AnswerForms
<1>5. CASE f.command = "SUBSCRIBE" /\ frame = Receipt(f.receipt, "SUBSCRIBE", f.channel)
  BY <1>2, <1>5, AnswerForms DEF Awaited
<1>6. CASE f.command = "DISCONNECT" /\ frame = Receipt(f.receipt, "DISCONNECT", None)
  BY <1>2, <1>6, AnswerForms DEF Awaited
<1>7. CASE /\ f.command = "UNSUBSCRIBE" /\ f.id \in DOMAIN subscriptions[s]
           /\ frame = Receipt(f.receipt, "UNSUBSCRIBE", subscriptions[s][f.id])
  BY <1>2, <1>3, <1>7, AnswerForms DEF Awaited
<1>8. CASE frame = Reply("ERROR", None)
  BY <1>8, AnswerForms
<1>9. CASE \E channel \in Range(subscriptions[s]) : frame = Reply("MESSAGE", channel)
  BY <1>3, <1>9, AnswerForms
<1> QED
  BY <1>4, <1>5, <1>6, <1>7, <1>8, <1>9 DEF Replies, f

(* A step of the server takes the first frame, and answers it or hangs up. *)
LEMMA ServeIs ==
  ASSUME NEW s \in Sessions, Serve(s)
  PROVE  \E command :
           /\ Receive(s, command)
           /\ \/ UNCHANGED link /\ \E frame : Replies(s, frame) /\ Answer(s, frame)
              \/ /\ UNCHANGED toClient
                 /\ UNCHANGED link \/ link' = [link EXCEPT ![s] = "down"]
<1>1. CASE ServeConnect(s)
  BY <1>1 DEF ServeConnect, Replies, Receive
<1>2. CASE ServeSubscribe(s)
  BY <1>2 DEF ServeSubscribe, Replies, Receive
<1>3. CASE ServeUnsubscribe(s)
  BY <1>3 DEF ServeUnsubscribe, Replies, Receive
<1>4. CASE ServeSend(s)
  BY <1>4 DEF ServeSend, Replies, Receive
<1>5. CASE ServeDisconnect(s)
  BY <1>5 DEF ServeDisconnect, Replies, Receive
<1>6. CASE ServeTorn(s)
  BY <1>6 DEF ServeTorn, Replies, Receive
<1> QED
  BY <1>1, <1>2, <1>3, <1>4, <1>5, <1>6 DEF Serve

LEMMA ServerStepSame ==
  ASSUME NEW s \in Sessions, ServerStep(s) \/ ServerPublishes(s) \/ LinkLost(s)
  PROVE  ServerSame
BY ServeIs DEF ServerStep, ServeFails, Receive, ServerPublishes, LinkLost

LEMMA TypeServe ==
  ASSUME TypeInv, NEW s \in Sessions, Serve(s)
  PROVE  TypeInv'
<1>1. PICK command :
        /\ Receive(s, command)
        /\ \/ UNCHANGED link /\ \E frame : Replies(s, frame) /\ Answer(s, frame)
           \/ /\ UNCHANGED toClient
              /\ UNCHANGED link \/ link' = [link EXCEPT ![s] = "down"]
  BY ServeIs
<1>2. \E q \in Seq(Answers) : toClient' = [toClient EXCEPT ![s] = q]
  <2>1. toClient[s] \in Seq(Answers) /\ toClient = [toClient EXCEPT ![s] = toClient[s]]
    BY <1>1, ReceiveFacts DEF TypeInv, NetworkInv
  <2>2. ASSUME NEW frame, Replies(s, frame), Answer(s, frame)
        PROVE  \E q \in Seq(Answers) : toClient' = [toClient EXCEPT ![s] = q]
    <3>1. frame \in Answers
      BY <1>1, <2>2, RepliesOK
    <3>2. Append(toClient[s], frame) \in Seq(Answers)
      BY <2>1, <3>1
    <3> QED
      BY <2>2, <3>2 DEF Answer
  <2> QED
    BY <1>1, <2>1, <2>2
<1>3. PICK q \in Seq(Answers) : toClient' = [toClient EXCEPT ![s] = q]
  BY <1>2
<1>4. PICK subs \in Maps(Count, Channels) : subscriptions' = [subscriptions EXCEPT ![s] = subs]
  BY <1>1, ReceiveFacts DEF Receive
<1>5. messages' \in [Sessions -> 0..MaxMessages]
  BY <1>1 DEF Receive, TypeInv, NetworkInv
<1>6. ServerSame /\ toServer[s] # <<>> /\ toServer' = [toServer EXCEPT ![s] = Tail(@)]
  BY <1>1 DEF Receive
<1>7. PICK rest \in Seq(Sent) : toServer' = [toServer EXCEPT ![s] = rest]
  <2>1. toServer[s] \in Seq(Sent)
    BY DEF TypeInv, NetworkInv
  <2>2. Tail(toServer[s]) \in Seq(Sent)
    BY <1>6, <2>1, HeadTailProperties
  <2> QED
    BY <1>6, <2>2
<1>8. PICK gone \in SUBSET (Commands \cup {"torn"}) : dropped' = [dropped EXCEPT ![s] = gone]
  BY <1>1 DEF Receive, TypeInv, NetworkInv
<1> QED
  BY <1>1, <1>3, <1>4, <1>5, <1>6, <1>7, <1>8, ServerMoves

(* What a failing handler leaves of the queue: the frames behind the n-th,  *)
(* or what follows the first bytes of the next one.                         *)
Remains(q, n, torn) ==
  LET rest == SubSeq(q, n + 1, Len(q))
  IN  IF torn THEN [rest EXCEPT ![1] = Torn] ELSE rest

LEMMA TornSent == Torn \in Sent /\ Torn.receipt = None /\ Torn.command = "torn"
<1>1. None \notin Count
  BY ClientAssumption DEF Count
<1> QED
  BY <1>1 DEF Torn, Sent, WellFormed, ClientFrame, Commands, Awaited

LEMMA RemainsOK ==
  ASSUME NEW q \in Seq(Sent), NEW n \in 1..Len(q), NEW torn \in BOOLEAN,
         torn => n < Len(q)
  PROVE  LET r == Remains(q, n, torn)
         IN  /\ r \in Seq(Sent) /\ DOMAIN r = 1..(Len(q) - n)
             /\ \A i \in 1..(Len(q) - n) :
                  /\ i + n \in 1..Len(q)
                  /\ r[i] = q[i + n] \/ (i = 1 /\ torn /\ r[i] = Torn)
<1> DEFINE rest == SubSeq(q, n + 1, Len(q))
           r == Remains(q, n, torn)
<1>1. PICK m \in Nat : m = Len(q) - n
  BY LenProperties
<1>2. Len(q) \in Nat /\ n \in Nat /\ n \in 1..Len(q) /\ Len(q) = n + m
  BY <1>1, LenProperties
<1>3. \A i \in 1..m : i + n \in 1..Len(q) /\ i + n = n + 1 + i - 1
  BY <1>2
<1>4. rest \in Seq(Sent) /\ Len(rest) = m /\ \A i \in 1..m : rest[i] = q[i + n]
  <2>1. \A i \in (n + 1)..Len(q) : q[i] \in Sent
    BY <1>2, ElementOfSeq, LenProperties
  <2>2. /\ n + 1 \in Int /\ Len(q) \in Int
        /\ IF n + 1 <= Len(q) + 1 THEN Len(q) - (n + 1) + 1 = m ELSE 0 = m
    BY <1>2
  <2> QED
    BY <1>2, <1>3, <2>1, <2>2, SubSeqProperties
<1>5. DOMAIN rest = 1..m
  BY <1>4, LenProperties
<1> HIDE DEF rest
<1>6. /\ r \in Seq(Sent) /\ DOMAIN r = 1..m
      /\ \A i \in 1..m : r[i] = rest[i] \/ (i = 1 /\ torn /\ r[i] = Torn)
  <2>1. CASE ~torn
    BY <1>4, <1>5, <2>1 DEF Remains, rest
  <2>2. CASE torn
    <3>1. r = [rest EXCEPT ![1] = Torn]
      BY <2>2 DEF Remains, rest
    <3>2. 1 \in 1..Len(rest)
      BY <1>2, <1>4, <2>2
    <3>3. [rest EXCEPT ![1] = Torn] \in Seq(Sent)
      BY <1>4, <3>2, TornSent, ExceptSeq
    <3>4. r \in Seq(Sent)
      BY <3>1, <3>3
    <3> QED
      BY <1>5, <2>2, <3>1, <3>4
  <2> QED
    BY <2>1, <2>2
<1> QED
  BY <1>1, <1>3, <1>4, <1>6

(* A handler that fails *)
LEMMA FailsIs ==
  ASSUME TypeInv, NEW s \in Sessions, ServeFails(s)
  PROVE  LET q == toServer[s]
             f == Head(q)
         IN  /\ ServerSame /\ UNCHANGED <<link, toClient, messages>> /\ link[s] = "up"
             /\ q \in Seq(Sent) /\ q # <<>> /\ f \in Sent
             /\ \E n \in 1..Len(q), torn \in BOOLEAN :
                  /\ torn => n < Len(q)
                  /\ toServer' = [toServer EXCEPT ![s] = Remains(q, n, torn)]
                  /\ dropped' = [dropped EXCEPT ![s] = @
                       \cup {q[k].command : k \in 2..(IF torn THEN n + 1 ELSE n)}
                       \cup ({f.command} \cap {"DISCONNECT"})]
             /\ \/ subscriptions' = subscriptions /\ f.command = "DISCONNECT"
                \/ /\ subscriptions' = [subscriptions EXCEPT ![s] = Subscribed(@, f)]
                   /\ f.command # "DISCONNECT"
<1>1. toServer[s] \in Seq(Sent) /\ toServer[s] # <<>>
  BY DEF ServeFails, TypeInv, NetworkInv
<1>2. Head(toServer[s]) \in Sent
  BY <1>1, HeadTailProperties
<1>3. subscriptions = [subscriptions EXCEPT ![s] = subscriptions[s]]
  BY DEF TypeInv, NetworkInv
<1> QED
  BY <1>1, <1>2, <1>3 DEF ServeFails, Remains

LEMMA TypeFails ==
  ASSUME TypeInv, NEW s \in Sessions, ServeFails(s)
  PROVE  TypeInv'
<1>1. PICK q, f : q = toServer[s] /\ f = Head(q)
  OBVIOUS
<1>2. /\ ServerSame /\ UNCHANGED <<link, toClient, messages>>
      /\ q \in Seq(Sent) /\ f \in Sent
      /\ \/ subscriptions' = subscriptions
         \/ subscriptions' = [subscriptions EXCEPT ![s] = Subscribed(@, f)]
  BY <1>1, FailsIs
<1>3. PICK n \in 1..Len(q), torn \in BOOLEAN :
        /\ torn => n < Len(q)
        /\ toServer' = [toServer EXCEPT ![s] = Remains(q, n, torn)]
        /\ dropped' = [dropped EXCEPT ![s] = @
             \cup {q[k].command : k \in 2..(IF torn THEN n + 1 ELSE n)}
             \cup ({f.command} \cap {"DISCONNECT"})]
  BY <1>1, FailsIs
<1>4. PICK rest \in Seq(Sent) : toServer' = [toServer EXCEPT ![s] = rest]
  BY <1>2, <1>3, RemainsOK
<1>5. /\ toClient[s] \in Seq(Answers) /\ toClient' = [toClient EXCEPT ![s] = toClient[s]]
      /\ subscriptions \in [Sessions -> Maps(Count, Channels)]
      /\ messages' \in [Sessions -> 0..MaxMessages]
      /\ dropped[s] \subseteq Commands \cup {"torn"}
  BY <1>2 DEF TypeInv, NetworkInv
<1>6. PICK subs \in Maps(Count, Channels) : subscriptions' = [subscriptions EXCEPT ![s] = subs]
  BY <1>2, <1>5, SubscribedOK
<1>7. PICK gone \in SUBSET (Commands \cup {"torn"}) : dropped' = [dropped EXCEPT ![s] = gone]
  <2>1. \A k \in 2..(IF torn THEN n + 1 ELSE n) : q[k].command \in Commands \cup {"torn"}
    <3>1. \A k \in 2..(IF torn THEN n + 1 ELSE n) : k \in 1..Len(q)
      BY <1>2, <1>3, LenProperties
    <3>2. \A k \in 1..Len(q) : q[k] \in Sent
      BY <1>2, ElementOfSeq, LenProperties
    <3> QED
      BY <3>1, <3>2 DEF Sent, WellFormed
  <2>2. {f.command} \cap {"DISCONNECT"} \subseteq Commands
    BY DEF Commands
  <2>3. PICK lost, left :
          /\ lost = {q[k].command : k \in 2..(IF torn THEN n + 1 ELSE n)}
          /\ left = {f.command} \cap {"DISCONNECT"}
    OBVIOUS
  <2>4. lost \subseteq Commands \cup {"torn"} /\ left \subseteq Commands
    BY <2>1, <2>2, <2>3
  <2>5. dropped' = [dropped EXCEPT ![s] = @ \cup lost \cup left]
    BY <1>3, <2>3
  <2>6. dropped[s] \cup lost \cup left \in SUBSET (Commands \cup {"torn"})
    BY <1>5, <2>4
  <2> QED
    BY <2>5, <2>6
<1> QED
  BY <1>2, <1>4, <1>5, <1>6, <1>7, ServerMoves

LEMMA TypeServerStep ==
  ASSUME TypeInv, NEW s \in Sessions, ServerStep(s)
  PROVE  TypeInv'
BY TypeServe, TypeFails DEF ServerStep

LEMMA SubSeqOK ==
  ASSUME NEW S, NEW q \in Seq(S), NEW n \in 0..Len(q)
  PROVE  /\ SubSeq(q, 1, n) \in Seq(S) /\ Len(SubSeq(q, 1, n)) = n
         /\ \A i \in 1..n : i \in 1..Len(q) /\ SubSeq(q, 1, n)[i] = q[i]
<1>1. \A i \in 1..n : i \in 1..Len(q) /\ q[i] \in S
  BY LenProperties, ElementOfSeq
<1>2. n \in Int /\ n - 1 + 1 = n /\ \A i \in 1..n : 1 + i - 1 = i
  BY LenProperties
<1> QED
  BY <1>1, <1>2, SubSeqProperties

LEMMA TypeOthers ==
  ASSUME TypeInv, NEW s \in Sessions, ServerPublishes(s) \/ LinkLost(s)
  PROVE  TypeInv'
<1>1. toClient[s] \in Seq(Answers) /\ subscriptions[s] \in Maps(Count, Channels)
  BY DEF TypeInv, NetworkInv
<1>2. \E q \in Seq(Answers) : toClient' = [toClient EXCEPT ![s] = q]
  <2>1. ASSUME NEW channel \in Range(subscriptions[s]), Answer(s, Reply("MESSAGE", channel))
        PROVE  \E q \in Seq(Answers) : toClient' = [toClient EXCEPT ![s] = q]
    <3>1. channel \in Channels
      BY <1>1, <2>1, MapFacts DEF PartialFunction, Range
    <3>2. Reply("MESSAGE", channel) \in Answers
      BY <3>1, AnswerForms
    <3>3. Append(toClient[s], Reply("MESSAGE", channel)) \in Seq(Answers)
      BY <1>1, <3>2
    <3> QED
      BY <2>1, <3>3 DEF Answer
  <2>2. ASSUME NEW n \in 0..Len(toClient[s]),
               toClient' = [toClient EXCEPT ![s] = SubSeq(@, 1, n)]
        PROVE  \E q \in Seq(Answers) : toClient' = [toClient EXCEPT ![s] = q]
    <3>1. SubSeq(toClient[s], 1, n) \in Seq(Answers)
      BY <1>1, SubSeqOK
    <3> QED
      BY <2>2, <3>1
  <2> QED
    BY <2>1, <2>2 DEF ServerPublishes, LinkLost
<1>3. PICK q \in Seq(Answers) : toClient' = [toClient EXCEPT ![s] = q]
  BY <1>2
<1>4. subscriptions' = [subscriptions EXCEPT ![s] = subscriptions[s]]
  BY DEF ServerPublishes, LinkLost, TypeInv, NetworkInv
<1>5. messages' \in [Sessions -> 0..MaxMessages]
  <2>1. messages \in [Sessions -> 0..MaxMessages]
    BY DEF TypeInv, NetworkInv
  <2>2. messages[s] < MaxMessages => messages[s] + 1 \in 0..MaxMessages
    BY <2>1, ClientAssumption
  <2> QED
    BY <2>1, <2>2 DEF ServerPublishes, LinkLost
<1>6. /\ ServerSame /\ toServer[s] \in Seq(Sent)
      /\ toServer' = [toServer EXCEPT ![s] = toServer[s]]
      /\ dropped[s] \in SUBSET (Commands \cup {"torn"})
      /\ dropped' = [dropped EXCEPT ![s] = dropped[s]]
      /\ link' = link \/ link' = [link EXCEPT ![s] = "down"]
  BY DEF ServerPublishes, LinkLost, TypeInv, NetworkInv
<1> QED
  BY <1>1, <1>3, <1>4, <1>5, <1>6, ServerMoves

LEMMA TypeNext == TypeInv /\ [Next]_vars => TypeInv'
<1> SUFFICES ASSUME TypeInv, [Next]_vars PROVE TypeInv'
  OBVIOUS
<1>1. CASE User
  BY <1>1, TypeReadCommand, TypeBlankLine DEF User
<1>2. CASE MainStep
  BY <1>2, TypeLookups, TypeJoin, TypeExit, TypeLogout, TypeStoreReceipt, TypeSend,
     TypeJoinCommunicator, TypeNewConnectionHandler, TypeNewStompProtocol, TypeConnect,
     TypeStartCommunicator DEF MainStep
<1>3. CASE CommunicatorStep
  BY <1>3, TypeCommunicator, TypeReadFrame, TypeLoseConnection, TypeParseFrame,
     TypeCloseHandler DEF CommunicatorStep
<1>4. CASE Undefined
  BY <1>4, MainKept, NumbersKept
  DEF Undefined, TypeInv, CommInv, SharedInv, NetworkInv
<1>5. CASE \E s \in Sessions : ServerStep(s) \/ ServerPublishes(s) \/ LinkLost(s)
  BY <1>5, TypeServerStep, TypeOthers
<1>6. CASE UNCHANGED vars
  BY <1>6, MainKept, NumbersKept DEF vars, TypeInv, CommInv, SharedInv, NetworkInv
<1> QED
  BY <1>1, <1>2, <1>3, <1>4, <1>5, <1>6 DEF Next

(***************************************************************************)
(* All that the client and its server hold has its type, for any number of *)
(* sessions, commands and channels: no counter of ids leaves its range, a  *)
(* frame on its way has the parts its receiver reads, and the communicator *)
(* parses only a frame that it has read.                                   *)
(***************************************************************************)
THEOREM ClientTypes == Spec => []TypeOK
<1>1. Init => TypeInv
  BY TypeInit
<1>2. TypeInv /\ [Next]_vars => TypeInv'
  BY TypeNext
<1>3. TypeInv => TypeOK
  BY TypeOKFollows
<1> QED
  BY <1>1, <1>2, <1>3, PTL DEF Spec

-----------------------------------------------------------------------------
(* Sessions *)

(* The communicator works for session s, and has deleted what it deletes. *)
Serves(s) ==
  /\ comm.handler \in {0, s}
  /\ comm.pc \in {"read", "parse", "lost"} => comm.handler = s
  /\ connectionHandler =
       IF comm.pc \in {"delete", "nullProtocol", "ended"} THEN 0 ELSE s
  /\ protocol = IF comm.pc = "ended" THEN 0 ELSE s
  /\ handlers = IF comm.pc \in {"nullHandler", "delete", "nullProtocol", "ended"}
                THEN {} ELSE {s}
  /\ protocols = IF comm.pc \in {"nullProtocol", "ended"} THEN {} ELSE {s}

Orderly == \E s \in 1..logins : Serves(s)

Forked == comm.pc # "none"

LoginAlone ==
  /\ main.pc \in {"prompt", "newHandler", "newProtocol", "connect", "send", "thread"}
  /\ comm = NoThread
  /\ main.pc = "send" => main.command = "CONNECT"
  /\ IF main.pc \in {"prompt", "newHandler"}
       THEN connectionHandler = nullptr /\ handlers = {}
       ELSE connectionHandler = logins /\ handlers = {logins}
  /\ IF main.pc \in {"prompt", "newHandler", "newProtocol"}
       THEN protocol = nullptr /\ protocols = {}
       ELSE protocol = logins /\ protocols = {logins}

(* A login beside a communicator that still runs. *)
LoginBeside ==
  CASE main.pc = "newHandler" -> Orderly \/ protocol \notin protocols
    [] main.pc = "newProtocol" ->
         /\ connectionHandler \in {0, logins}
         /\ protocol \in protocols => comm.handler \in {0, protocol, logins}
    [] main.pc \in {"connect", "send", "thread"} ->
         /\ connectionHandler \in {0, logins}
         /\ protocol \in {0, logins}
    [] OTHER -> FALSE

Using == ~LoggingIn /\ ~(main.pc = "send" /\ main.command = "CONNECT")

LifeInv ==
  Running =>
    IF ~Forked THEN LoginAlone
    ELSE IF Using
      THEN Orderly \/ (protocol \notin protocols /\ main.pc # "join")
      ELSE LoginBeside

LEMMA LifeInit == Init => LifeInv
BY DEF Init, LifeInv, Forked, NoThread, AtPrompt, LoginAlone

(* The communicator as it was, the main thread at its commands *)
LEMMA LifeUsing ==
  ASSUME LifeInv, Running, Forked, Using, UNCHANGED <<comm, pointers, logins>>,
         protocol \in protocols, Using' \/ main'.pc = "newHandler"
  PROVE  LifeInv'
<1>1. Orderly
  BY DEF LifeInv
<1>2. Orderly' /\ Forked'
  BY <1>1 DEF Orderly, Serves, Forked
<1>3. CASE Using'
  BY <1>2, <1>3 DEF LifeInv
<1>4. CASE main'.pc = "newHandler"
  <2>1. ~Using' /\ LoginBeside'
    BY <1>2, <1>4 DEF Using, LoggingIn, LoginBeside
  <2> QED
    BY <1>2, <2>1 DEF LifeInv
<1> QED
  BY <1>3, <1>4

(* A command that is executed has been read beside a communicator. *)
LEMMA CommandsForked ==
  ASSUME LifeInv, Running, Using, main.pc # "prompt"
  PROVE  Forked
BY DEF LifeInv, LoginAlone, Using, LoggingIn

LEMMA LifeReadCommand ==
  ASSUME TypeInv, LifeInv, NEW command, NEW channel, ReadCommand(command, channel)
  PROVE  LifeInv'
<1>1. /\ main.pc = "prompt" /\ Running /\ Using
      /\ UNCHANGED <<comm, pointers, logins, outcome>>
      /\ main' = IF protocol # nullptr
                 THEN [AtPrompt EXCEPT !.pc = "check", !.command = command,
                                       !.channel = channel]
                 ELSE IF command = "CONNECT"
                 THEN [AtPrompt EXCEPT !.pc = "newHandler", !.command = command]
                 ELSE AtPrompt
  BY DEF ReadCommand, CommSame, Using, LoggingIn
<1>2. main'.pc = IF protocol # nullptr THEN "check"
                 ELSE IF command = "CONNECT" THEN "newHandler" ELSE "prompt"
  BY <1>1, PromptFields DEF MainTypes
<1>3. CASE ~Forked
  <2>1. protocol = nullptr /\ LoginAlone /\ main'.pc \in {"newHandler", "prompt"}
    BY <1>1, <1>2, <1>3 DEF LifeInv, LoginAlone
  <2>2. LoginAlone' /\ ~Forked'
    BY <1>1, <1>3, <2>1 DEF LoginAlone, Forked
  <2> QED
    BY <2>2 DEF LifeInv
<1>4. CASE Forked
  <2>1. Orderly \/ protocol \notin protocols
    BY <1>1, <1>4 DEF LifeInv
  <2>2. Orderly' \/ protocol' \notin protocols'
    BY <1>1, <2>1 DEF Orderly, Serves
  <2>3. Forked' /\ main'.pc # "join"
    BY <1>1, <1>2, <1>4 DEF Forked
  <2>4. CASE main'.pc = "newHandler"
    <3>1. ~Using' /\ LoginBeside'
      BY <2>2, <2>4 DEF Using, LoggingIn, LoginBeside
    <3> QED
      BY <2>3, <3>1 DEF LifeInv
  <2>5. CASE main'.pc # "newHandler"
    <3>1. Using'
      BY <1>2, <2>5 DEF Using, LoggingIn
    <3> QED
      BY <2>2, <2>3, <3>1 DEF LifeInv
  <2> QED
    BY <2>4, <2>5
<1> QED
  BY <1>3, <1>4

(* The commands up to the frame that is to be sent *)
LEMMA LifeCommands ==
  ASSUME TypeInv, LifeInv,
         Refuse \/ LoginAgain \/ Report \/ SummaryOf \/ Summarize
           \/ Join \/ Exit \/ Logout \/ StoreReceipt
  PROVE  LifeInv'
<1>1. /\ Running /\ main.pc \in {"check", "summary", "store"} /\ protocol \in protocols
      /\ UNCHANGED <<comm, pointers, logins>>
  BY DEF Refuse, LoginAgain, Report, SummaryOf, Summarize, Join, Exit, Logout, StoreReceipt,
     Checks, OnlyMain, Change, CommSame
<1>2. Using /\ Forked
  BY <1>1, CommandsForked DEF Using, LoggingIn
<1>3. main \in MainTypes
  BY DEF TypeInv, MainInv
<1>4. Using' \/ main'.pc = "newHandler"
  <2>1. CASE main' = AtPrompt
    BY <2>1, PromptFields DEF Using, LoggingIn
  <2>2. CASE LoginAgain
    BY <1>3, <2>2 DEF LoginAgain, MainTypes
  <2>3. CASE StoreReceipt
    <3>1. main'.pc = "send" /\ main'.command = main.command /\ main.command # "CONNECT"
      BY <1>3, <2>3 DEF StoreReceipt, MainTypes, TypeInv, MainInv, Awaited
    <3> QED
      BY <3>1 DEF Using, LoggingIn
  <2>4. CASE Report \/ SummaryOf
    <3>1. \/ main'.pc \in {"prompt", "send", "summary"} /\ main'.command # "CONNECT"
          \/ main' = AtPrompt
      BY <1>3, <2>4 DEF Report, SummaryOf, Checks, MainTypes
    <3> QED
      BY <2>1, <3>1 DEF Using, LoggingIn
  <2>5. ASSUME NEW id, NEW receipt, Store(id, receipt) PROVE Using'
    <3>1. main'.pc = "store"
      BY <1>3, <2>5 DEF Store, MainTypes
    <3> QED
      BY <3>1 DEF Using, LoggingIn
  <2> QED
    BY <2>1, <2>2, <2>3, <2>4, <2>5 DEF Refuse, Summarize, Join, Exit, Logout
<1> QED
  BY <1>1, <1>2, <1>4, LifeUsing

LEMMA LifeSend == TypeInv /\ LifeInv /\ Send => LifeInv'
<1> SUFFICES ASSUME TypeInv, LifeInv, Send PROVE LifeInv'
  OBVIOUS
<1>1. /\ Running /\ main.pc = "send" /\ protocol \in protocols /\ main \in MainTypes
      /\ UNCHANGED <<comm, pointers, logins>>
  BY DEF Send, CommSame, TypeInv, MainInv
<1>2. CASE main.command = "CONNECT"
  <2>1. main'.pc = "thread" /\ ~Using /\ ~Using'
    BY <1>1, <1>2 DEF Send, MainTypes, Using, LoggingIn
  <2>2. CASE ~Forked
    BY <1>1, <2>1, <2>2 DEF LifeInv, LoginAlone, Forked
  <2>3. CASE Forked
    BY <1>1, <2>1, <2>3 DEF LifeInv, LoginBeside, Forked
  <2> QED
    BY <2>2, <2>3
<1>3. CASE main.command # "CONNECT"
  <2>1. Using /\ Forked
    BY <1>1, <1>3, CommandsForked DEF Using, LoggingIn
  <2>2. Using'
    <3>1. \/ main'.pc \in {"join", "prompt"}
          \/ main'.pc = "send" /\ main'.command = main.command
      BY <1>1, <1>3, PromptFields DEF Send, MainTypes
    <3> QED
      BY <1>3, <3>1 DEF Using, LoggingIn
  <2> QED
    BY <1>1, <2>1, <2>2, LifeUsing
<1> QED
  BY <1>2, <1>3

LEMMA LifeJoinCommunicator == TypeInv /\ LifeInv /\ JoinCommunicator => LifeInv'
<1> SUFFICES ASSUME TypeInv, LifeInv, JoinCommunicator PROVE LifeInv'
  OBVIOUS
<1>1. Running /\ main.pc = "join" /\ comm.pc = "ended" /\ Using /\ Forked
  BY DEF JoinCommunicator, Using, LoggingIn, Forked
<1>2. PICK s \in 1..logins : Serves(s)
  BY <1>1 DEF LifeInv, Orderly
<1>3. /\ protocol = nullptr /\ connectionHandler = nullptr
      /\ protocols = {} /\ handlers = {}
  BY <1>1, <1>2 DEF Serves, nullptr
<1>4. main'.pc = "prompt" /\ comm' = NoThread
  BY PromptFields DEF JoinCommunicator
<1>5. LoginAlone' /\ ~Forked'
  BY <1>3, <1>4, NoThreadOK DEF LoginAlone, Forked, JoinCommunicator
<1> QED
  BY <1>5 DEF LifeInv

LEMMA LifeLogin ==
  ASSUME TypeInv, LifeInv, NewConnectionHandler \/ NewStompProtocol \/ Connect \/ ConnectFails
  PROVE  LifeInv'
<1>1. /\ Running /\ ~Using /\ comm' = comm /\ main \in MainTypes
      /\ main.pc \in {"newHandler", "newProtocol", "connect"}
      /\ main.command = "CONNECT"
  BY DEF NewConnectionHandler, NewStompProtocol, Connect, ConnectFails, CommSame, TypeInv,
     MainInv, Using, LoggingIn
<1>2. /\ logins \in Nat /\ protocols \subseteq 1..logins /\ handlers \subseteq 1..logins
      /\ nullptr \notin protocols /\ protocol \in 0..logins
  BY DEF TypeInv, SharedInv, nullptr
<1>3. CASE NewConnectionHandler
  <2>1. main'.pc = "newProtocol" /\ ~Using'
    BY <1>1, <1>3 DEF NewConnectionHandler, MainTypes, Using, LoggingIn
  <2>2. /\ connectionHandler' = logins' /\ handlers' = handlers \cup {logins'}
        /\ UNCHANGED <<protocol, protocols>> /\ main.pc = "newHandler"
    BY <1>3 DEF NewConnectionHandler
  <2>3. CASE ~Forked
    <3>1. LoginAlone' /\ ~Forked'
      BY <1>1, <2>1, <2>2, <2>3 DEF LifeInv, LoginAlone, Forked
    <3> QED
      BY <3>1 DEF LifeInv
  <2>4. CASE Forked
    <3>1. protocol \in protocols => comm.handler \in {0, protocol}
      BY <1>1, <1>2, <2>2, <2>4
      DEF LifeInv, LoginBeside, Orderly, Serves, nullptr
    <3>2. LoginBeside' /\ Forked'
      BY <1>1, <2>1, <2>2, <2>4, <3>1 DEF LoginBeside, Forked
    <3> QED
      BY <2>1, <3>2 DEF LifeInv
  <2> QED
    BY <2>3, <2>4
<1>4. CASE NewStompProtocol \/ Connect
  <2>1. main'.pc \in {"connect", "send"} /\ main'.command = "CONNECT" /\ ~Using'
        /\ main.pc \in {"newProtocol", "connect"}
    BY <1>1, <1>4 DEF NewStompProtocol, Connect, MainTypes, Using, LoggingIn
  <2>2. /\ UNCHANGED <<connectionHandler, handlers, logins>>
        /\ \/ UNCHANGED <<protocol, protocols>> /\ main.pc = "connect"
           \/ protocol' = logins /\ protocols' = protocols \cup {logins}
                /\ main.pc = "newProtocol"
    BY <1>4 DEF NewStompProtocol, Connect
  <2>3. CASE ~Forked
    <3>1. LoginAlone' /\ ~Forked'
      BY <1>1, <2>1, <2>2, <2>3 DEF LifeInv, LoginAlone, Forked
    <3> QED
      BY <3>1 DEF LifeInv
  <2>4. CASE Forked
    <3>1. LoginBeside' /\ Forked'
      BY <1>1, <2>1, <2>2, <2>4 DEF LifeInv, LoginBeside, Forked
    <3> QED
      BY <2>1, <3>1 DEF LifeInv
  <2> QED
    BY <2>3, <2>4
<1>5. CASE ConnectFails
  <2>1. main'.pc = "prompt" /\ Using'
    BY <1>5, PromptFields DEF ConnectFails, Using, LoggingIn
  <2>2. /\ connectionHandler' = nullptr /\ protocol' = nullptr /\ main.pc = "connect"
        /\ handlers' = handlers \ {connectionHandler}
        /\ protocols' = protocols \ {protocol}
    BY <1>5 DEF ConnectFails
  <2>3. CASE ~Forked
    <3>1. LoginAlone' /\ ~Forked'
      BY <1>1, <2>1, <2>2, <2>3 DEF LifeInv, LoginAlone, Forked
    <3> QED
      BY <3>1 DEF LifeInv
  <2>4. CASE Forked
    <3>1. protocol' \notin protocols' /\ Forked'
      BY <1>1, <1>2, <2>2, <2>4 DEF Forked
    <3> QED
      BY <2>1, <3>1 DEF LifeInv
  <2> QED
    BY <2>3, <2>4
<1> QED
  BY <1>3, <1>4, <1>5

LEMMA LifeStartCommunicator == TypeInv /\ LifeInv /\ StartCommunicator => LifeInv'
<1> SUFFICES ASSUME TypeInv, LifeInv, StartCommunicator PROVE LifeInv'
  OBVIOUS
<1>1. CASE outcome' = "terminated"
  BY <1>1 DEF LifeInv, Running
<1>2. CASE comm.pc = "none" /\ comm' = [NoThread EXCEPT !.pc = "test"] /\ main' = AtPrompt
  <2>1. main'.pc = "prompt" /\ Using' /\ comm'.pc = "test" /\ comm'.handler = 0 /\ Forked'
    BY <1>2, PromptFields, NoThreadOK DEF Using, LoggingIn, Forked, NoThread, nullptr
  <2>2. LoginAlone
    BY <1>2 DEF LifeInv, StartCommunicator, Forked
  <2>3. /\ connectionHandler = logins /\ handlers = {logins}
        /\ protocol = logins /\ protocols = {logins} /\ logins \in 1..logins
    BY <2>2 DEF LoginAlone, StartCommunicator, TypeInv, SharedInv
  <2>4. UNCHANGED <<pointers, logins>>
    BY DEF StartCommunicator
  <2>5. Serves(logins)'
    BY <2>1, <2>3, <2>4 DEF Serves
  <2> QED
    BY <2>1, <2>3, <2>4, <2>5 DEF LifeInv, Orderly
<1> QED
  BY <1>1, <1>2 DEF StartCommunicator

(* What a step of the communicator does to what it shares *)
LEMMA CommunicatorMoves ==
  ASSUME TypeInv, CommunicatorStep
  PROVE  /\ Running /\ Forked /\ Forked' /\ UNCHANGED <<main, logins>>
         /\ protocols' \subseteq protocols /\ protocol' \in {protocol, 0}
         /\ connectionHandler' \in {connectionHandler, 0}
         /\ comm'.handler \in {comm.handler, connectionHandler, 0}
<1>1. comm \in CommTypes
  BY DEF TypeInv, CommInv
<1> USE DEF Forked, At, MainSame, Goto, nullptr
<1>2. CASE TestStop
  BY <1>1, <1>2 DEF TestStop, CommTypes
<1>3. CASE EnterRead
  BY <1>1, <1>3 DEF EnterRead, CommTypes
<1>4. CASE ReadFrame
  <2> DEFINE f == Head(toClient[comm.handler])
  <2>1. comm' = [comm EXCEPT !.pc = "parse", !.frame = f]
    BY <1>4 DEF ReadFrame
  <2> HIDE DEF f
  <2>2. comm'.pc = "parse" /\ comm'.handler = comm.handler
    BY <1>1, <2>1 DEF CommTypes
  <2> QED
    BY <1>4, <2>2 DEF ReadFrame
<1>5. CASE ReadFails \/ LoseConnection
  BY <1>1, <1>5 DEF ReadFails, LoseConnection, CommTypes
<1>6. CASE ParseFrame
  <2>1. comm'.pc = "test" /\ comm'.handler = 0
    BY <1>1, <1>6, ParseFrameIs DEF CommTypes
  <2> QED
    BY <1>6, <2>1 DEF ParseFrame
<1>7. CASE CloseHandler
  <2>1. comm'.pc = "nullHandler" /\ comm'.handler = 0
    BY <1>1, <1>7 DEF CloseHandler, CommTypes
  <2> QED
    BY <1>7, <2>1 DEF CloseHandler
<1>8. CASE NullHandler \/ DeleteProtocol \/ EndCommunicate
  BY <1>1, <1>8 DEF NullHandler, DeleteProtocol, EndCommunicate, CommTypes
<1> QED
  BY <1>2, <1>3, <1>4, <1>5, <1>6, <1>7, <1>8 DEF CommunicatorStep

LEMMA ServesKept ==
  ASSUME TypeInv, CommunicatorStep, NEW s \in 1..logins, Serves(s)
  PROVE  Serves(s)'
<1>1. comm \in CommTypes /\ s # 0
  BY DEF TypeInv, CommInv, SharedInv
<1> USE DEF At, MainSame, Goto, nullptr
<1>2. CASE TestStop
  <2>1. /\ comm.pc = "test" /\ comm'.pc \in {"close", "enter"} /\ comm'.handler = comm.handler
        /\ UNCHANGED pointers
    BY <1>1, <1>2 DEF TestStop, CommTypes
  <2> QED
    BY <2>1 DEF Serves
<1>3. CASE EnterRead
  <2>1. /\ comm.pc = "enter" /\ comm'.pc = "read" /\ comm'.handler = connectionHandler
        /\ UNCHANGED pointers
    BY <1>1, <1>3 DEF EnterRead, CommTypes
  <2> QED
    BY <2>1 DEF Serves
<1>4. CASE ReadFrame
  <2> DEFINE f == Head(toClient[comm.handler])
  <2>1. comm' = [comm EXCEPT !.pc = "parse", !.frame = f]
    BY <1>4 DEF ReadFrame
  <2> HIDE DEF f
  <2>2. comm.pc = "read" /\ comm'.pc = "parse" /\ comm'.handler = comm.handler
        /\ UNCHANGED pointers
    BY <1>1, <1>4, <2>1 DEF CommTypes, ReadFrame
  <2> QED
    BY <2>2 DEF Serves
<1>5. CASE ReadFails \/ LoseConnection
  <2>1. /\ comm.pc \in {"read", "lost"} /\ comm'.pc \in {"lost", "close"}
        /\ comm'.handler = comm.handler /\ UNCHANGED pointers
    BY <1>1, <1>5 DEF ReadFails, LoseConnection, CommTypes
  <2> QED
    BY <2>1 DEF Serves
<1>6. CASE ParseFrame
  <2>1. comm.pc = "parse" /\ comm'.pc = "test" /\ comm'.handler = 0 /\ UNCHANGED pointers
    BY <1>1, <1>6, ParseFrameIs DEF CommTypes, ParseFrame
  <2> QED
    BY <2>1 DEF Serves
<1>7. CASE CloseHandler
  <2>1. /\ comm.pc = "close" /\ comm'.pc = "nullHandler" /\ comm'.handler = 0
        /\ UNCHANGED <<protocol, connectionHandler, protocols>>
        /\ handlers' = handlers \ {connectionHandler}
    BY <1>1, <1>7 DEF CloseHandler, CommTypes
  <2> QED
    BY <2>1 DEF Serves
<1>8. CASE NullHandler
  <2>1. /\ comm.pc = "nullHandler" /\ comm'.pc = "delete" /\ comm'.handler = comm.handler
        /\ UNCHANGED <<protocol, protocols, handlers>> /\ connectionHandler' = 0
    BY <1>1, <1>8 DEF NullHandler, CommTypes
  <2> QED
    BY <2>1 DEF Serves
<1>9. CASE DeleteProtocol
  <2>1. /\ comm.pc = "delete" /\ comm'.pc = "nullProtocol" /\ comm'.handler = comm.handler
        /\ UNCHANGED <<protocol, connectionHandler, handlers>>
        /\ protocols' = protocols \ {protocol}
    BY <1>1, <1>9 DEF DeleteProtocol, CommTypes
  <2> QED
    BY <2>1 DEF Serves
<1>10. CASE EndCommunicate
  <2>1. /\ comm.pc = "nullProtocol" /\ comm'.pc = "ended" /\ comm'.handler = comm.handler
        /\ UNCHANGED <<connectionHandler, protocols, handlers>> /\ protocol' = 0
    BY <1>1, <1>10 DEF EndCommunicate, CommTypes
  <2> QED
    BY <2>1 DEF Serves
<1> QED
  BY <1>2, <1>3, <1>4, <1>5, <1>6, <1>7, <1>8, <1>9, <1>10 DEF CommunicatorStep

LEMMA LifeCommunicator == TypeInv /\ LifeInv /\ CommunicatorStep => LifeInv'
<1> SUFFICES ASSUME TypeInv, LifeInv, CommunicatorStep PROVE LifeInv'
  OBVIOUS
<1>1. /\ Running /\ Forked /\ Forked' /\ UNCHANGED <<main, logins>>
      /\ protocols' \subseteq protocols /\ protocol' \in {protocol, 0}
      /\ connectionHandler' \in {connectionHandler, 0}
      /\ comm'.handler \in {comm.handler, connectionHandler, 0}
  BY CommunicatorMoves
<1>2. Using' <=> Using
  BY <1>1 DEF Using, LoggingIn
<1>3. protocols \subseteq 1..logins /\ 0 \notin protocols
  BY DEF TypeInv, SharedInv
<1>4. Orderly => Orderly'
  BY <1>1, ServesKept DEF Orderly
<1>5. protocol \notin protocols => protocol' \notin protocols'
  BY <1>1, <1>3
<1>6. CASE Using
  BY <1>1, <1>2, <1>4, <1>5, <1>6 DEF LifeInv
<1>7. CASE ~Using
  <2>1. LoginBeside
    BY <1>1, <1>7 DEF LifeInv
  <2>2. LoginBeside'
    <3>1. CASE main.pc = "newHandler"
      BY <1>1, <1>4, <1>5, <2>1, <3>1 DEF LoginBeside
    <3>2. CASE main.pc = "newProtocol"
      <4>1. /\ connectionHandler \in {0, logins}
            /\ protocol \in protocols => comm.handler \in {0, protocol, logins}
        BY <2>1, <3>2 DEF LoginBeside
      <4>2. /\ connectionHandler' \in {0, logins'}
            /\ protocol' \in protocols' => comm'.handler \in {0, protocol', logins'}
        BY <1>1, <1>3, <4>1
      <4> QED
        BY <1>1, <3>2, <4>2 DEF LoginBeside
    <3>3. CASE main.pc \in {"connect", "send", "thread"}
      BY <1>1, <2>1, <3>3 DEF LoginBeside
    <3> QED
      BY <2>1, <3>1, <3>2, <3>3 DEF LoginBeside
  <2> QED
    BY <1>1, <1>2, <1>7, <2>2 DEF LifeInv
<1> QED
  BY <1>6, <1>7

LEMMA LifeNext == TypeInv /\ LifeInv /\ [Next]_vars => LifeInv'
<1> SUFFICES ASSUME TypeInv, LifeInv, [Next]_vars PROVE LifeInv'
  OBVIOUS
<1>1. CASE User
  <2>1. ReadBlankLine => LifeInv'
    BY DEF ReadBlankLine, LifeInv, Running
  <2> QED
    BY <1>1, <2>1, LifeReadCommand DEF User
<1>2. CASE MainStep
  BY <1>2, LifeCommands, LifeSend, LifeJoinCommunicator, LifeLogin, LifeStartCommunicator
  DEF MainStep
<1>3. CASE CommunicatorStep
  BY <1>3, LifeCommunicator
<1>4. CASE Undefined
  BY <1>4 DEF Undefined, LifeInv, Running
<1>5. ASSUME UNCHANGED <<outcome, main, comm, pointers, logins>> PROVE LifeInv'
  BY <1>5 DEF LifeInv, Running, Forked, Using, LoggingIn, LoginAlone, LoginBeside, Orderly, Serves
<1>6. CASE \E s \in Sessions : ServerStep(s) \/ ServerPublishes(s) \/ LinkLost(s)
  <2>1. ServerSame
    BY <1>6, ServerStepSame
  <2> QED
    BY <1>5, <2>1 DEF ServerSame
<1>7. CASE UNCHANGED vars
  BY <1>5, <1>7 DEF vars
<1> QED
  BY <1>1, <1>2, <1>3, <1>4, <1>6, <1>7 DEF Next

(***************************************************************************)
(* The inductive invariant of the client: the types with the numbers that  *)
(* bound them, and where the four shared pointers point for every pc of    *)
(* the two threads, as long as nothing undefined has happened. Its hard    *)
(* case is a login beside a communicator that still runs (LoginBeside).    *)
(***************************************************************************)
THEOREM ClientInvariant == Spec => [](TypeInv /\ LifeInv)
<1>1. Init => TypeInv /\ LifeInv
  BY TypeInit, LifeInit
<1>2. TypeInv /\ LifeInv /\ [Next]_vars => TypeInv' /\ LifeInv'
  BY TypeNext, LifeNext
<1> QED
  BY <1>1, <1>2, PTL DEF Spec

(***************************************************************************)
(* A session that has ended leaves no pointer and no object behind when    *)
(* its communicator has been joined, although login and the communicator   *)
(* allocate and delete them from two threads, whatever the user typed in   *)
(* between.                                                                *)
(***************************************************************************)
THEOREM SessionsLeaveNothing == Spec => []NothingLeft
<1>1. LifeInv => NothingLeft
  BY DEF LifeInv, NothingLeft, Forked, LoginAlone
<1> QED
  BY <1>1, ClientInvariant, PTL
=============================================================================
