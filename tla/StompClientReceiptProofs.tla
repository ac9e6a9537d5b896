---------------------- MODULE StompClientReceiptProofs ----------------------
(***************************************************************************)
(* Requests of the client and what is on its way because of them: a number *)
(* is given to each request, travels with its frame to the server and with *)
(* the RECEIPT back. None is overtaken, and each stays in receiptMap until *)
(* its RECEIPT has been read. So client and server agree, and a session is *)
(* ended by no RECEIPT but that of its DISCONNECT.                         *)
(***************************************************************************)
EXTENDS StompClientProofs

USE DEF pointers, network, server

(* The session that is only being set up: nothing has happened in it yet. *)
Unconnected(s) == s > logins \/ (s = logins /\ main.pc \in {"newProtocol", "connect"})

Unused(s) == s > logins \/ (s = logins /\ ~Using /\ main.pc # "newHandler")

Reads(s) == comm.handler = s /\ comm.pc = "parse"
Sends(s) == protocol = s /\ main.pc \in {"store", "send"} /\ main.command \in Awaited

Fresh(s) ==
  /\ Unconnected(s) => /\ link[s] # "up" /\ ~Reads(s)
                       /\ toServer[s] = <<>> /\ toClient[s] = <<>>
                       /\ DOMAIN subscriptions[s] = {}
  /\ Unused(s) => DOMAIN object[s].receiptMap = {} /\ DOMAIN object[s].subscriptionIds = {}

(* The numbers in a queue grow, from low up to high. *)
Within(q, low, high) ==
  /\ \A f \in Range(q) : f.receipt # None => low <= f.receipt /\ f.receipt < high
  /\ \A i, j \in DOMAIN q : i < j /\ q[i].receipt # None /\ q[j].receipt # None
       => q[i].receipt < q[j].receipt

(* Receipts that were read are below read, those answered below served, *)
(* those sent below sent.                                               *)
Ordered(s, read, served, sent) ==
  /\ read <= served /\ served <= sent /\ sent <= object[s].receiptCounter
  /\ Reads(s) /\ comm.frame.receipt # None => comm.frame.receipt < read
  /\ Within(toClient[s], read, served) /\ Within(toServer[s], served, sent)
  /\ Sends(s) => sent <= main.receipt /\ main.receipt < object[s].receiptCounter

Stored(s, receipt, request) ==
  /\ receipt \in DOMAIN object[s].receiptMap
  /\ object[s].receiptMap[receipt] = request

(* name is the channel that each id was given for. *)
Requested(f, name) ==
  [command |-> f.command,
   channel |-> IF f.command = "UNSUBSCRIBE" THEN name[f.id] ELSE f.channel]

Known(s, name) ==
  /\ \A f \in Range(toClient[s]) : f.receipt # None => Stored(s, f.receipt, f.request)
  /\ Reads(s) /\ comm.frame.receipt # None
       => Stored(s, comm.frame.receipt, comm.frame.request)
  /\ \A f \in Range(toServer[s]) :
       f.receipt # None => Stored(s, f.receipt, Requested(f, name))
  /\ Sends(s) /\ main.pc = "send" => Stored(s, main.receipt, RequestOf)

Named(s, name) ==
  LET mine == object[s].subscriptionIds
      subs == subscriptions[s]
      Names(i, channel) == i < object[s].idCounter /\ name[i] = channel
  IN  /\ \A channel \in DOMAIN mine : Names(mine[channel], channel)
      /\ \A i \in DOMAIN subs : Names(i, subs[i])
      /\ \A f \in Range(toServer[s]) :
           /\ f.command = "SUBSCRIBE" => Names(f.id, f.channel)
           /\ f.command = "UNSUBSCRIBE" => f.id < object[s].idCounter
      /\ Sends(s) /\ main.command # "DISCONNECT" => Names(main.id, main.channel)

Path(s) ==
  /\ \E read, served, sent \in Count : Ordered(s, read, served, sent)
  /\ \E name \in [Count -> Channels \cup {None}] : Known(s, name) /\ Named(s, name)

ReceiptInv == \A s \in Sessions : Fresh(s) /\ Path(s)

-----------------------------------------------------------------------------
(* Subscriptions *)

Pending(s) ==
  IF Sends(s) THEN Append(toServer[s], FrameOf) ELSE toServer[s]

Parting == main.pc = "join" \/ (main.command = "DISCONNECT" /\ main.pc \in {"store", "send"})

Agree(s) ==
  LET mine == object[s].subscriptionIds
  IN  \A i \in Count, channel \in Channels :
        WillHave(subscriptions[s], Pending(s), i, channel)
          <=> channel \in DOMAIN mine /\ mine[channel] = i

(* Only a client that was connected sends more than its CONNECT. *)
Connected ==
  main.pc \in {"store", "send"} /\ main.command # "CONNECT" /\ protocol \in protocols
    => object[protocol].connected

Agreed ==
  ~Parting => \A s \in protocols : link[s] = "up" /\ dropped[s] = {} => Agree(s)

-----------------------------------------------------------------------------
(* The end of a session *)

(* A session that no communicator has been started for *)
New(s) == s > logins \/ (Unused(s) /\ ~Forked)

(* Only the RECEIPT of the DISCONNECT that main waits for ends a session. *)
Stopping ==
  LET p == object[protocol]
  IN  /\ \A r \in DOMAIN p.receiptMap : p.receiptMap[r].command = "DISCONNECT" =>
           \/ main.pc = "join"
           \/ main.pc = "send" /\ main.command = "DISCONNECT" /\ main.receipt = r
      /\ p.stopCommunication =>
           main.pc = "join" \/ p.errorOccured \/ link[protocol] = "down"
      /\ comm.pc = "close" => p.stopCommunication
      /\ comm.pc = "lost" => link[protocol] = "down"

StopInv ==
  /\ Running /\ Using /\ protocol \in protocols => Stopping
  /\ \A s \in Sessions : New(s) => ~object[s].stopCommunication

-----------------------------------------------------------------------------
(* Sequences *)

LEMMA RangeIn ==
  ASSUME NEW S, NEW q \in Seq(S)
  PROVE  /\ Range(q) \subseteq S /\ DOMAIN q = 1..Len(q) /\ Len(q) \in Nat
         /\ \A f : f \in Range(q) <=> \E i \in 1..Len(q) : f = q[i]
<1>1. DOMAIN q = 1..Len(q) /\ Len(q) \in Nat
  BY LenProperties
<1>2. \A i \in 1..Len(q) : q[i] \in S
  BY <1>1, ElementOfSeq
<1> QED
  BY <1>1, <1>2 DEF Range

LEMMA AppendElements ==
  ASSUME NEW S, NEW q \in Seq(S), NEW x \in S
  PROVE  LET r == Append(q, x)
         IN  /\ r \in Seq(S) /\ Len(r) = Len(q) + 1 /\ DOMAIN r = 1..(Len(q) + 1)
             /\ \A i \in 1..Len(q) : r[i] = q[i]
             /\ r[Len(q) + 1] = x
             /\ Range(r) = Range(q) \cup {x}
<1> DEFINE r == Append(q, x)
<1>1. /\ r \in Seq(S) /\ Len(r) = Len(q) + 1 /\ Len(q) \in Nat
      /\ \A i \in 1..Len(q) : r[i] = q[i]
      /\ r[Len(q) + 1] = x
  BY AppendProperties, LenProperties
<1>2. DOMAIN r = 1..(Len(q) + 1) /\ DOMAIN q = 1..Len(q)
  BY <1>1, LenProperties
<1>3. 1..(Len(q) + 1) = 1..Len(q) \cup {Len(q) + 1}
  BY <1>1
<1> HIDE DEF r
<1>4. Range(r) = Range(q) \cup {x}
  BY <1>1, <1>2, <1>3 DEF Range
<1> QED
  BY <1>1, <1>2, <1>4 DEF r

LEMMA TailElements ==
  ASSUME NEW S, NEW q \in Seq(S), q # <<>>
  PROVE  LET r == Tail(q)
         IN  /\ r \in Seq(S) /\ Len(q) = Len(r) + 1 /\ Len(r) \in Nat /\ DOMAIN r = 1..Len(r)
             /\ \A i \in 1..Len(r) : i + 1 \in 1..Len(q) /\ r[i] = q[i + 1]
             /\ Head(q) = q[1] /\ 1 \in 1..Len(q) /\ Head(q) \in S
             /\ Range(q) = {Head(q)} \cup Range(r)
<1> DEFINE r == Tail(q)
<1>1. /\ r \in Seq(S) /\ Len(r) = Len(q) - 1 /\ Head(q) \in S /\ Len(q) \in Nat
      /\ \A i \in 1..Len(r) : r[i] = q[i + 1]
  BY HeadTailProperties, LenProperties
<1>2. Len(q) # 0
  BY EmptySeq
<1>3. /\ Len(q) = Len(r) + 1 /\ Len(r) \in Nat /\ 1 \in 1..Len(q)
      /\ \A i \in 1..Len(r) : i + 1 \in 1..Len(q)
  BY <1>1, <1>2
<1>4. Head(q) = q[1] /\ DOMAIN q = 1..Len(q) /\ DOMAIN r = 1..Len(r)
  BY <1>1, LenProperties
<1> HIDE DEF r
<1>5. \A i \in 1..Len(q) : i = 1 \/ \E j \in 1..Len(r) : i = j + 1
  <2> SUFFICES ASSUME NEW i \in 1..Len(q), i # 1
               PROVE  \E j \in 1..Len(r) : i = j + 1
    OBVIOUS
  <2>1. i - 1 \in 1..Len(r) /\ i = (i - 1) + 1
    BY <1>3
  <2> QED
    BY <2>1, Zenon
<1>6. Range(q) = {Head(q)} \cup Range(r)
  <2>1. ASSUME NEW f \in Range(q) PROVE f \in {Head(q)} \cup Range(r)
    <3>1. PICK i \in 1..Len(q) : f = q[i]
      BY <1>4 DEF Range
    <3>2. CASE i = 1
      BY <1>4, <3>1, <3>2
    <3>3. ASSUME NEW j \in 1..Len(r), i = j + 1 PROVE f \in Range(r)
      <4>1. f = r[j] /\ j \in DOMAIN r
        BY <1>1, <1>4, <3>1, <3>3
      <4> QED
        BY <4>1 DEF Range
    <3> QED
      BY <1>5, <3>2, <3>3
  <2>2. ASSUME NEW f \in {Head(q)} \cup Range(r) PROVE f \in Range(q)
    BY <1>1, <1>3, <1>4 DEF Range
  <2> QED
    BY <2>1, <2>2
<1> QED
  BY <1>1, <1>3, <1>4, <1>6 DEF r

LEMMA PrefixElements ==
  ASSUME NEW S, NEW q \in Seq(S), NEW n \in 0..Len(q)
  PROVE  LET r == SubSeq(q, 1, n)
         IN  /\ r \in Seq(S) /\ DOMAIN r = 1..n /\ Range(r) \subseteq Range(q)
             /\ \A i \in 1..n : i \in 1..Len(q) /\ r[i] = q[i]
<1> DEFINE r == SubSeq(q, 1, n)
<1>1. r \in Seq(S) /\ Len(r) = n /\ \A i \in 1..n : i \in 1..Len(q) /\ r[i] = q[i]
  BY SubSeqOK
<1>2. DOMAIN r = 1..n /\ DOMAIN q = 1..Len(q)
  BY <1>1, LenProperties
<1> HIDE DEF r
<1>3. Range(r) \subseteq Range(q)
  BY <1>1, <1>2 DEF Range
<1> QED
  BY <1>1, <1>2, <1>3 DEF r

-----------------------------------------------------------------------------
(* Numbers in queues *)

Numbered(S) == \A f \in S : f.receipt \in Nat \cup {None}

LEMMA CountIsNat == Count \subseteq Nat /\ None \notin Nat /\ 0 \in Count
BY ClientAssumption DEF Count

LEMMA NumberedFrames == Numbered(Sent) /\ Numbered(Answers)
BY CountIsNat DEF Numbered, Sent, Answers, ClientFrame, ServerFrame

LEMMA WithinNone ==
  ASSUME NEW low, NEW high
  PROVE  Within(<<>>, low, high)
BY DEF Within, Range

LEMMA WithinAppend ==
  ASSUME NEW S, Numbered(S), NEW q \in Seq(S), NEW x \in S,
         NEW low \in Nat, NEW middle \in Nat, NEW high \in Nat,
         Within(q, low, middle), low <= middle, middle <= high,
         x.receipt = None \/ (middle <= x.receipt /\ x.receipt < high)
  PROVE  Within(Append(q, x), low, high)
<1> DEFINE r == Append(q, x)
<1>1. /\ DOMAIN r = 1..(Len(q) + 1) /\ r[Len(q) + 1] = x /\ Range(r) = Range(q) \cup {x}
      /\ \A i \in 1..Len(q) : r[i] = q[i]
  BY AppendElements
<1>2. /\ Range(q) \subseteq S /\ DOMAIN q = 1..Len(q) /\ Len(q) \in Nat
      /\ \A i \in 1..Len(q) : q[i] \in Range(q)
  BY RangeIn
<1> HIDE DEF r
<1>3. \A f \in Range(r) : f.receipt # None => low <= f.receipt /\ f.receipt < high
  <2> SUFFICES ASSUME NEW f \in Range(r), f.receipt # None
               PROVE  low <= f.receipt /\ f.receipt < high
    OBVIOUS
  <2>1. f.receipt \in Nat
    BY <1>1, <1>2 DEF Numbered
  <2>2. f \in Range(q) => low <= f.receipt /\ f.receipt < middle
    BY DEF Within
  <2>3. f = x => middle <= f.receipt /\ f.receipt < high
    OBVIOUS
  <2> QED
    BY <1>1, <2>1, <2>2, <2>3
<1>4. ASSUME NEW i \in DOMAIN r, NEW j \in DOMAIN r, i < j, r[i].receipt # None,
             r[j].receipt # None
      PROVE  r[i].receipt < r[j].receipt
  <2>1. i \in 1..Len(q) /\ r[i] = q[i] /\ q[i] \in Range(q)
    BY <1>1, <1>2, <1>4
  <2>2. q[i].receipt < middle /\ q[i].receipt \in Nat
    BY <1>2, <1>4, <2>1 DEF Within, Numbered
  <2>3. CASE j = Len(q) + 1
    <3>1. r[j] = x /\ x.receipt \in Nat
      BY <1>1, <1>4, <2>3 DEF Numbered
    <3>2. middle <= x.receipt
      BY <1>4, <3>1
    <3> HIDE <1>1, <1>2, <1>4
    <3> QED
      BY <2>1, <2>2, <3>1, <3>2
  <2>4. CASE j # Len(q) + 1
    <3>1. j \in 1..Len(q) /\ r[j] = q[j]
      BY <1>1, <1>2, <2>4
    <3> QED
      BY <1>2, <1>4, <2>1, <3>1 DEF Within
  <2> QED
    BY <2>3, <2>4
<1> QED
  BY <1>3, <1>4 DEF Within, r

(* The first of a queue is below the rest of it. *)
LEMMA WithinTail ==
  ASSUME NEW S, Numbered(S), NEW q \in Seq(S), q # <<>>,
         NEW low \in Nat, NEW high \in Nat, Within(q, low, high)
  PROVE  LET first == Head(q).receipt
         IN  IF first = None THEN Within(Tail(q), low, high)
             ELSE /\ low <= first /\ first < high /\ first \in Nat
                  /\ Within(Tail(q), first + 1, high)
<1> DEFINE r == Tail(q)
           first == Head(q).receipt
<1>1. /\ DOMAIN r = 1..Len(r) /\ Range(q) = {Head(q)} \cup Range(r)
      /\ Len(q) = Len(r) + 1 /\ Len(r) \in Nat /\ r \in Seq(S)
      /\ \A i \in 1..Len(r) : i + 1 \in 1..Len(q) /\ r[i] = q[i + 1]
      /\ Head(q) = q[1] /\ 1 \in 1..Len(q)
  BY TailElements
<1>2. Range(q) \subseteq S /\ DOMAIN q = 1..Len(q)
  BY RangeIn
<1> HIDE DEF r
<1>3. \A f \in Range(r) : \E i \in 1..Len(r) : f = r[i]
  BY <1>1 DEF Range
<1>4. ASSUME NEW i \in 1..Len(r), NEW j \in 1..Len(r), i < j, r[i].receipt # None,
             r[j].receipt # None
      PROVE  r[i].receipt < r[j].receipt
  <2>1. i + 1 < j + 1 /\ i + 1 \in DOMAIN q /\ j + 1 \in DOMAIN q
    BY <1>1, <1>2, <1>4
  <2> QED
    BY <1>1, <1>4, <2>1 DEF Within
<1>5. first # None => low <= first /\ first < high /\ first \in Nat
  BY <1>1, <1>2 DEF Within, Numbered
<1>6. ASSUME NEW f \in Range(r), f.receipt # None
      PROVE  /\ low <= f.receipt /\ f.receipt < high
             /\ first # None => first + 1 <= f.receipt
  <2>1. low <= f.receipt /\ f.receipt < high /\ f.receipt \in Nat
    BY <1>1, <1>2, <1>6 DEF Within, Numbered
  <2>2. PICK i \in 1..Len(r) : f = r[i]
    BY <1>3
  <2>3. 1 < i + 1 /\ 1 \in DOMAIN q /\ i + 1 \in DOMAIN q /\ q[i + 1] = f
    BY <1>1, <1>2, <2>2
  <2>4. first # None => first < f.receipt
    BY <1>1, <1>6, <2>3 DEF Within
  <2> HIDE DEF first
  <2> QED
    BY <1>5, <2>1, <2>4
<1> QED
  BY <1>1, <1>4, <1>5, <1>6 DEF Within, r

LEMMA WithinPrefix ==
  ASSUME NEW S, NEW q \in Seq(S), NEW n \in 0..Len(q), NEW low, NEW high,
         Within(q, low, high)
  PROVE  Within(SubSeq(q, 1, n), low, high)
<1> DEFINE r == SubSeq(q, 1, n)
<1>1. /\ DOMAIN r = 1..n /\ Range(r) \subseteq Range(q)
      /\ \A i \in 1..n : i \in 1..Len(q) /\ r[i] = q[i]
  BY PrefixElements
<1>2. DOMAIN q = 1..Len(q)
  BY RangeIn
<1> HIDE DEF r
<1>3. Within(r, low, high)
  BY <1>1, <1>2 DEF Within
<1> QED
  BY <1>3 DEF r

(* Frames are taken from the front of a queue, and one may lose its number. *)
LEMMA WithinRest ==
  ASSUME NEW S, NEW q \in Seq(S), NEW r \in Seq(S), NEW n \in Nat, NEW low, NEW high,
         Within(q, low, high),
         \A i \in DOMAIN r :
           \/ r[i].receipt = None
           \/ i + n \in DOMAIN q /\ r[i] = q[i + n]
  PROVE  Within(r, low, high)
<1>1. DOMAIN r = 1..Len(r) /\ Len(r) \in Nat
  BY RangeIn
<1>2. ASSUME NEW f \in Range(r), f.receipt # None
      PROVE  low <= f.receipt /\ f.receipt < high
  <2>1. PICK i \in DOMAIN r : f = r[i]
    BY DEF Range
  <2>2. f \in Range(q)
    BY <1>2, <2>1 DEF Range
  <2> QED
    BY <1>2, <2>2 DEF Within
<1>3. ASSUME NEW i \in DOMAIN r, NEW j \in DOMAIN r, i < j, r[i].receipt # None,
             r[j].receipt # None
      PROVE  r[i].receipt < r[j].receipt
  <2>1. /\ i + n \in DOMAIN q /\ r[i] = q[i + n]
        /\ j + n \in DOMAIN q /\ r[j] = q[j + n]
    BY <1>3
  <2>2. i + n < j + n
    BY <1>1, <1>3
  <2> QED
    BY <1>3, <2>1, <2>2 DEF Within
<1> QED
  BY <1>2, <1>3 DEF Within

-----------------------------------------------------------------------------
(* A session that is being set up *)

LEMMA ReceiptInit == Init => ReceiptInv
<1> SUFFICES ASSUME Init, NEW s \in Sessions PROVE Fresh(s) /\ Path(s)
  BY DEF ReceiptInv
<1>1. /\ toServer[s] = <<>> /\ toClient[s] = <<>> /\ link[s] = "none"
      /\ subscriptions[s] = Empty /\ object[s] = NewProtocol
  BY DEF Init
<1>2. ~Reads(s) /\ ~Sends(s)
  BY DEF Init, Reads, Sends, NoThread, AtPrompt
<1>3. DOMAIN Empty = {} /\ Range(<<>>) = {}
  BY DEF Empty, Range
<1>4. /\ NewProtocol.receiptMap = Empty /\ NewProtocol.subscriptionIds = Empty
      /\ NewProtocol.receiptCounter = 0
  BY DEF NewProtocol
<1>5. Fresh(s)
  BY <1>1, <1>2, <1>3, <1>4 DEF Fresh
<1>6. Ordered(s, 0, 0, 0)
  BY <1>1, <1>2, <1>4, WithinNone DEF Ordered
<1>7. [i \in Count |-> None] \in [Count -> Channels \cup {None}]
  OBVIOUS
<1>8. \A name : Known(s, name) /\ Named(s, name)
  BY <1>1, <1>2, <1>3, <1>4 DEF Known, Named
<1> QED
  BY <1>5, <1>6, <1>7, <1>8, CountIsNat DEF Path

(* A session becomes unused only before its login begins. *)
LEMMA UnusedSince ==
  ASSUME TypeInv, [Next]_vars, NEW s \in Sessions
  PROVE  /\ Unconnected(s)' => Unconnected(s)
         /\ Unused(s)' => Unused(s)
<1> USE DEF Unconnected, Unused, Using, LoggingIn
<1>1. CASE UNCHANGED <<main, logins>>
  BY <1>1
<1>2. main \in MainTypes /\ logins \in Nat /\ s \in Nat
  BY ClientAssumption DEF TypeInv, MainInv, SharedInv, Sessions
<1>3. ASSUME logins' = logins, Using', main'.pc \notin {"newProtocol", "connect"}
      PROVE  /\ Unconnected(s)' => Unconnected(s)
             /\ Unused(s)' => Unused(s)
  BY <1>3
<1>4. CASE main' = AtPrompt /\ logins' = logins
  BY <1>3, <1>4, PromptFields
<1>5. CASE User
  <2>1. ASSUME NEW command, NEW channel, ReadCommand(command, channel)
        PROVE  logins' = logins /\ main'.pc \in {"prompt", "check", "newHandler"}
    BY <2>1, PromptFields DEF ReadCommand, MainTypes
  <2> QED
    BY <1>1, <1>5, <2>1 DEF User, ReadBlankLine
<1>6. CASE Refuse \/ Summarize \/ JoinCommunicator \/ ConnectFails
  BY <1>4, <1>6 DEF Refuse, Summarize, JoinCommunicator, ConnectFails, OnlyMain
<1>7. CASE LoginAgain
  BY <1>2, <1>7 DEF LoginAgain, OnlyMain, MainTypes
<1>8. CASE Join \/ Exit \/ Logout \/ Report \/ SummaryOf
  <2>1. logins' = logins /\ main.command # "CONNECT"
    BY <1>8 DEF Join, Exit, Logout, Report, SummaryOf, Checks, OnlyMain, Change
  <2>2. \/ main' = AtPrompt
        \/ main'.pc \in {"store", "send", "summary"} /\ main'.command = main.command
    BY <1>2, <1>8 DEF Join, Exit, Logout, Report, SummaryOf, Store, MainTypes
  <2> QED
    BY <1>3, <1>4, <2>1, <2>2
<1>9. CASE StoreReceipt
  <2>1. /\ logins' = logins /\ main'.pc = "send" /\ main'.command = main.command
        /\ main.command # "CONNECT"
    BY <1>2, <1>9 DEF StoreReceipt, MainTypes, TypeInv, MainInv, Awaited
  <2> QED
    BY <1>3, <2>1
<1>10. CASE Send
  <2>1. logins' = logins /\ main.pc = "send"
    BY <1>10 DEF Send
  <2>2. \/ main' = AtPrompt \/ main'.pc = "join"
        \/ main'.pc = "thread" /\ main.command = "CONNECT"
        \/ main'.pc = "send" /\ main'.command = main.command
    BY <1>2, <1>10, PromptFields DEF Send, MainTypes
  <2> QED
    BY <1>3, <1>4, <2>1, <2>2
<1>11. CASE NewConnectionHandler
  BY <1>2, <1>11 DEF NewConnectionHandler
<1>12. CASE NewStompProtocol \/ Connect
  BY <1>2, <1>12 DEF NewStompProtocol, Connect, MainTypes
<1>13. CASE StartCommunicator
  BY <1>1, <1>4, <1>13 DEF StartCommunicator
<1>14. CASE CommunicatorStep
  BY <1>1, <1>14 DEF CommunicatorStep, MainSame, TestStop, EnterRead, ReadFrame, ReadFails,
     LoseConnection, ParseFrame, CloseHandler, NullHandler, DeleteProtocol, EndCommunicate
<1>15. CASE Undefined \/ UNCHANGED vars
  BY <1>1, <1>15 DEF Undefined, vars
<1>16. CASE \E t \in Sessions : ServerStep(t) \/ ServerPublishes(t) \/ LinkLost(t)
  <2>1. ServerSame
    BY <1>16, ServerStepSame
  <2> QED
    BY <1>1, <2>1 DEF ServerSame
<1> QED
  BY <1>5, <1>6, <1>7, <1>8, <1>9, <1>10, <1>11, <1>12, <1>13, <1>14, <1>15, <1>16
  DEF Next, MainStep

(* What a step may do to the maps of an object *)
LEMMA ObjectSteps ==
  ASSUME TypeInv, [Next]_vars, NEW s \in Sessions
  PROVE  \/ object'[s] = object[s]
         \/ protocol = s /\ (Join \/ Exit \/ Logout \/ StoreReceipt)
         \/ protocol = s /\ (LoseConnection \/ ParseFrame)
<1>1. object \in [Sessions -> Objects] /\ protocols \subseteq Sessions
  BY SessionFacts DEF TypeInv, SharedInv
<1>2. CASE UNCHANGED object
  BY <1>2
<1>3. CASE Join \/ Exit \/ Logout
  <2>1. UNCHANGED object \/ \E changed : Change(changed)
    BY <1>3 DEF Join, Exit, Logout, OnlyMain
  <2>2. CASE UNCHANGED object
    BY <1>2, <2>2
  <2>3. ASSUME NEW changed, Change(changed)
        PROVE  object'[s] = object[s] \/ protocol = s
    BY <1>1, <2>3 DEF Change
  <2> QED
    BY <1>3, <2>1, <2>2, <2>3
<1>4. CASE StoreReceipt \/ LoseConnection \/ ParseFrame
  BY <1>1, <1>4 DEF StoreReceipt, LoseConnection, ParseFrame
<1>5. CASE User
  BY <1>2, <1>5 DEF User, ReadCommand, ReadBlankLine
<1>6. CASE \/ Refuse \/ LoginAgain \/ Report \/ SummaryOf \/ Summarize \/ Send
           \/ JoinCommunicator \/ NewConnectionHandler \/ NewStompProtocol \/ Connect
           \/ ConnectFails \/ StartCommunicator
  BY <1>2, <1>6 DEF Refuse, LoginAgain, Report, SummaryOf, Summarize, Send, OnlyMain,
     JoinCommunicator, NewConnectionHandler, NewStompProtocol, Connect, ConnectFails,
     StartCommunicator
<1>7. CASE \/ TestStop \/ EnterRead \/ ReadFrame \/ ReadFails \/ CloseHandler \/ NullHandler
           \/ DeleteProtocol \/ EndCommunicate
  BY <1>2, <1>7 DEF TestStop, EnterRead, ReadFrame, ReadFails, CloseHandler, NullHandler,
     DeleteProtocol, EndCommunicate
<1>8. CASE Undefined \/ UNCHANGED vars
  BY <1>2, <1>8 DEF Undefined, vars
<1>9. CASE \E t \in Sessions : ServerStep(t) \/ ServerPublishes(t) \/ LinkLost(t)
  <2>1. ServerSame
    BY <1>9, ServerStepSame
  <2> QED
    BY <1>2, <2>1 DEF ServerSame
<1> QED
  BY <1>3, <1>4, <1>5, <1>6, <1>7, <1>8, <1>9 DEF Next, MainStep, CommunicatorStep

(* What a step may do to the connection of a session *)
LEMMA ConnectionSteps ==
  ASSUME TypeInv, [Next]_vars, NEW s \in Sessions
  PROVE  \/ /\ toServer'[s] = toServer[s] /\ toClient'[s] = toClient[s]
            /\ subscriptions'[s] = subscriptions[s]
            /\ link'[s] = "up" => link[s] = "up"
            /\ Reads(s)' => Reads(s) /\ comm' = comm
         \/ Send /\ protocol = s /\ link[s] = "up"
         \/ Connect /\ connectionHandler = s
         \/ ReadFrame /\ comm.handler = s
         \/ link[s] = "up" /\ (ServerStep(s) \/ ServerPublishes(s) \/ LinkLost(s))
<1> USE DEF Reads
<1>1. /\ link \in [Sessions -> {"none", "up", "down"}]
      /\ toServer \in [Sessions -> Seq(Sent)] /\ toClient \in [Sessions -> Seq(Answers)]
      /\ subscriptions \in [Sessions -> Maps(Count, Channels)]
      /\ comm \in CommTypes
  BY DEF TypeInv, NetworkInv, CommInv
<1>2. CASE UNCHANGED <<comm, network, subscriptions>>
  BY <1>2
<1>3. CASE User \/ Undefined \/ UNCHANGED vars
  BY <1>2, <1>3 DEF User, ReadCommand, ReadBlankLine, Undefined, vars, CommSame
<1>4. CASE \/ Join \/ Exit \/ Logout \/ StoreReceipt
           \/ Refuse \/ LoginAgain \/ Report \/ SummaryOf \/ Summarize
           \/ NewConnectionHandler \/ NewStompProtocol \/ ConnectFails
  BY <1>2, <1>4 DEF Refuse, LoginAgain, Report, SummaryOf, Summarize, OnlyMain, CommSame,
     Join, Exit, Logout, Change, StoreReceipt, NewConnectionHandler, NewStompProtocol,
     ConnectFails
<1>5. CASE Send
  BY <1>1, <1>5 DEF Send, Transmit, CommSame
<1>6. CASE Connect
  BY <1>1, <1>6 DEF Connect, CommSame
<1>7. CASE JoinCommunicator \/ StartCommunicator
  BY <1>1, <1>7 DEF JoinCommunicator, StartCommunicator, NoThread
<1>8. ASSUME UNCHANGED <<network, subscriptions>>, comm'.pc # "parse"
      PROVE  UNCHANGED <<toServer, toClient, subscriptions, link>> /\ ~Reads(s)'
  BY <1>8
<1>9. CASE TestStop \/ ReadFails \/ LoseConnection \/ NullHandler \/ DeleteProtocol
           \/ EndCommunicate \/ EnterRead \/ ParseFrame
  <2>1. UNCHANGED <<network, subscriptions>> /\ comm'.pc # "parse"
    BY <1>1, <1>9 DEF TestStop, ReadFails, LoseConnection, NullHandler, DeleteProtocol,
       EndCommunicate, EnterRead, ParseFrame, Goto, MainSame, CommTypes
  <2> QED
    BY <1>8, <2>1
<1>10. CASE ReadFrame
  BY <1>1, <1>10 DEF ReadFrame, MainSame, CommTypes
<1>11. CASE CloseHandler
  BY <1>1, <1>11 DEF CloseHandler, MainSame, CommTypes
<1>12. ASSUME NEW t \in Sessions, ServerStep(t)
       PROVE  /\ link[t] = "up" /\ UNCHANGED comm
              /\ s # t => UNCHANGED <<toServer[s], toClient[s], subscriptions[s], link[s]>>
  <2>1. CASE Serve(t)
    <3>1. PICK command :
            /\ Receive(t, command)
            /\ \/ UNCHANGED link /\ \E frame : Replies(t, frame) /\ Answer(t, frame)
               \/ /\ UNCHANGED toClient
                  /\ UNCHANGED link \/ link' = [link EXCEPT ![t] = "down"]
      BY <2>1, ServeIs
    <3> QED
      BY <1>1, <3>1 DEF Receive, ServerSame, Answer
  <2>2. CASE ServeFails(t)
    BY <1>1, <2>2 DEF ServeFails, ServerSame
  <2> QED
    BY <1>12, <2>1, <2>2 DEF ServerStep
<1>13. ASSUME NEW t \in Sessions, ServerPublishes(t) \/ LinkLost(t)
       PROVE  /\ link[t] = "up" /\ UNCHANGED comm
              /\ s # t => UNCHANGED <<toServer[s], toClient[s], subscriptions[s], link[s]>>
  BY <1>1, <1>13 DEF ServerPublishes, LinkLost, ServerSame, Answer
<1>14. CASE \E t \in Sessions : ServerStep(t) \/ ServerPublishes(t) \/ LinkLost(t)
  <2>1. PICK t \in Sessions : ServerStep(t) \/ ServerPublishes(t) \/ LinkLost(t)
    BY <1>14
  <2>2. CASE s = t
    BY <1>12, <1>13, <2>1, <2>2
  <2>3. CASE s # t
    BY <1>12, <1>13, <2>1, <2>3
  <2> QED
    BY <2>2, <2>3
<1> QED
  BY <1>3, <1>4, <1>5, <1>6, <1>7, <1>9, <1>10, <1>11, <1>14
  DEF Next, MainStep, CommunicatorStep

(* The other fields of the object, when the communicator changes it *)
LEMMA CommunicatorObject ==
  ASSUME TypeInv, LoseConnection \/ ParseFrame
  PROVE  LET p == object[protocol]
             q == object'[protocol]
         IN  /\ protocol \in Sessions /\ p \in Objects
             /\ q.idCounter = p.idCounter /\ q.receiptCounter = p.receiptCounter
             /\ q.subscriptionIds = p.subscriptionIds /\ (p.connected => q.connected)
             /\ \/ q.receiptMap = p.receiptMap
                \/ /\ ParseFrame /\ comm.frame.command = "RECEIPT"
                   /\ q.receiptMap = Without(p.receiptMap, comm.frame.receipt)
             /\ \A s \in Sessions : s # protocol => object'[s] = object[s]
<1>1. object \in [Sessions -> Objects] /\ protocol \in Sessions
  BY SessionFacts DEF TypeInv, SharedInv, LoseConnection, ParseFrame
<1>2. CASE LoseConnection
  BY <1>1, <1>2 DEF LoseConnection, Objects
<1>3. CASE ParseFrame
  BY <1>1, <1>3, ParseFrameIs, ParsedOK
<1> QED
  BY <1>2, <1>3

LEMMA FreshNext ==
  ASSUME TypeInv, [Next]_vars, NEW s \in Sessions, Fresh(s)
  PROVE  Fresh(s)'
<1>1. /\ Unconnected(s)' => Unconnected(s)
      /\ Unused(s)' => Unused(s)
  BY UnusedSince
<1>2. /\ protocol <= logins /\ connectionHandler <= logins
      /\ s \in Nat /\ logins \in Nat /\ protocol \in Nat /\ connectionHandler \in Nat
      /\ main \in MainTypes
  BY ClientAssumption DEF TypeInv, MainInv, SharedInv, Sessions
<1>3. ASSUME Unconnected(s)'
      PROVE  /\ link'[s] # "up" /\ ~Reads(s)'
             /\ toServer'[s] = <<>> /\ toClient'[s] = <<>>
             /\ DOMAIN subscriptions'[s] = {}
  <2>1. /\ link[s] # "up" /\ ~Reads(s)
        /\ toServer[s] = <<>> /\ toClient[s] = <<>>
        /\ DOMAIN subscriptions[s] = {}
    BY <1>1, <1>3 DEF Fresh
  <2>2. ~(Connect /\ connectionHandler = s)
    BY <1>2, <1>3 DEF Connect, Unconnected, MainTypes
  <2>3. ~(ReadFrame /\ comm.handler = s)
    BY <2>1 DEF ReadFrame
  <2> QED
    BY <2>1, <2>2, <2>3, ConnectionSteps
<1>4. ASSUME Unused(s)'
      PROVE  DOMAIN object'[s].receiptMap = {} /\ DOMAIN object'[s].subscriptionIds = {}
  <2>1. DOMAIN object[s].receiptMap = {} /\ DOMAIN object[s].subscriptionIds = {}
    BY <1>1, <1>4 DEF Fresh
  <2>2. ~(protocol = s /\ (Join \/ Exit \/ Logout \/ StoreReceipt))
    BY <1>1, <1>2, <1>4
    DEF Join, Exit, Logout, StoreReceipt, Checks, Unused, Using, LoggingIn
  <2>3. CASE object'[s] = object[s]
    BY <2>1, <2>3
  <2>4. CASE protocol = s /\ (LoseConnection \/ ParseFrame)
    <3>1. /\ object'[s].subscriptionIds = object[s].subscriptionIds
          /\ \/ object'[s].receiptMap = object[s].receiptMap
             \/ object'[s].receiptMap = Without(object[s].receiptMap, comm.frame.receipt)
      BY <2>4, CommunicatorObject
    <3> QED
      BY <2>1, <3>1 DEF Without, Restrict
  <2> QED
    BY <2>2, <2>3, <2>4, ObjectSteps
<1> QED
  BY <1>3, <1>4 DEF Fresh

-----------------------------------------------------------------------------
(* Requests on their way *)

(* A step that has nothing to do with the requests of a session *)
Same(s) ==
  /\ object'[s].idCounter = object[s].idCounter
  /\ object'[s].receiptCounter = object[s].receiptCounter
  /\ object'[s].receiptMap = object[s].receiptMap
  /\ object'[s].subscriptionIds = object[s].subscriptionIds
  /\ toServer'[s] = toServer[s] /\ toClient'[s] = toClient[s]
  /\ subscriptions'[s] = subscriptions[s]
  /\ Reads(s)' => Reads(s) /\ comm' = comm
  /\ Sends(s)' => Sends(s) /\ main' = main

(* Only a report sends more than one frame. *)
Single ==
  main.pc = "check" \/ (main.pc \in {"store", "send"} /\ main.command \in Awaited)
    => main.left = 0

LEMMA SingleNext ==
  ASSUME TypeInv, Single, [Next]_vars
  PROVE  Single'
<1>1. /\ main \in MainTypes /\ "CONNECT" \notin Awaited /\ "SEND" \notin Awaited
      /\ "summary" \notin Awaited
  BY DEF TypeInv, MainInv, Awaited
<1>2. CASE UNCHANGED main
  BY <1>2 DEF Single
<1>3. ASSUME main'.left = 0 PROVE Single'
  BY <1>3 DEF Single
<1>4. AtPrompt.left = 0
  BY DEF AtPrompt
<1>5. CASE main' = AtPrompt
  BY <1>3, <1>4, <1>5
<1>6. CASE User
  <2>1. ASSUME NEW command, NEW channel, ReadCommand(command, channel) PROVE main'.left = 0
    BY <1>4, <2>1, PromptFields DEF ReadCommand, MainTypes
  <2> QED
    BY <1>2, <1>3, <1>6, <2>1 DEF User, ReadBlankLine
<1>7. CASE Refuse \/ Summarize \/ JoinCommunicator \/ ConnectFails
  BY <1>5, <1>7 DEF Refuse, Summarize, JoinCommunicator, ConnectFails
<1>8. CASE LoginAgain \/ SummaryOf \/ NewConnectionHandler \/ NewStompProtocol
  <2>1. main'.pc \notin {"check", "store", "send"}
    BY <1>1, <1>8 DEF LoginAgain, SummaryOf, NewConnectionHandler, NewStompProtocol, MainTypes
  <2> QED
    BY <2>1 DEF Single
<1>9. CASE Report \/ Connect
  <2>1. main' = AtPrompt \/ (main'.pc = "send" /\ main'.command \notin Awaited)
    BY <1>1, <1>9 DEF Report, Connect, Checks, MainTypes, TypeInv, MainInv, LoggingIn
  <2>2. CASE main'.pc = "send" /\ main'.command \notin Awaited
    BY <2>2 DEF Single
  <2> QED
    BY <1>5, <2>1, <2>2
<1>10. CASE Join \/ Exit \/ Logout \/ StoreReceipt
  <2>1. main' = AtPrompt \/ main'.left = main.left
    BY <1>1, <1>10 DEF Join, Exit, Logout, StoreReceipt, Store, MainTypes
  <2>2. main.left = 0
    BY <1>10 DEF Join, Exit, Logout, StoreReceipt, Checks, Single, TypeInv, MainInv
  <2> QED
    BY <1>3, <1>5, <2>1, <2>2
<1>11. CASE Send
  <2>1. CASE main' = [AtPrompt EXCEPT !.pc = "join"]
    BY <1>3, <1>4, <2>1, PromptFields DEF MainTypes
  <2>2. CASE main' = [main EXCEPT !.pc = "thread"]
    BY <1>1, <2>2 DEF Single, MainTypes
  <2>3. CASE main.left > 1 /\ main' = [main EXCEPT !.left = @ - 1]
    <3>1. main.command \notin Awaited
      BY <1>11, <2>3 DEF Send, Single
    <3>2. main'.pc = "send" /\ main'.command = main.command
      BY <1>1, <1>11, <2>3 DEF Send, MainTypes
    <3> QED
      BY <3>1, <3>2 DEF Single
  <2> QED
    BY <1>5, <1>11, <2>1, <2>2, <2>3 DEF Send
<1>12. CASE StartCommunicator
  BY <1>2, <1>5, <1>12 DEF StartCommunicator
<1>13. CASE CommunicatorStep
  BY <1>2, <1>13 DEF CommunicatorStep, MainSame, TestStop, EnterRead, ReadFrame, ReadFails,
     LoseConnection, ParseFrame, CloseHandler, NullHandler, DeleteProtocol, EndCommunicate
<1>14. CASE Undefined \/ UNCHANGED vars
  BY <1>2, <1>14 DEF Undefined, vars
<1>15. CASE \E t \in Sessions : ServerStep(t) \/ ServerPublishes(t) \/ LinkLost(t)
  <2>1. ServerSame
    BY <1>15, ServerStepSame
  <2> QED
    BY <1>2, <2>1 DEF ServerSame
<1> QED
  BY <1>6, <1>7, <1>8, <1>9, <1>10, <1>11, <1>12, <1>13, <1>14, <1>15 DEF Next, MainStep

(* Only three commands have a frame with a receipt. *)
LEMMA SendsSteps ==
  ASSUME TypeInv, Single, [Next]_vars, NEW s \in Sessions, Sends(s)'
  PROVE  \/ Sends(s) /\ main' = main
         \/ protocol = s /\ (Join \/ Exit \/ Logout \/ StoreReceipt)
<1>1. /\ main \in MainTypes /\ "CONNECT" \notin Awaited /\ "SEND" \notin Awaited
      /\ "summary" \notin Awaited /\ s # 0
  BY DEF TypeInv, MainInv, Awaited, Sessions
<1>2. CASE UNCHANGED <<main, protocol>>
  BY <1>2 DEF Sends
<1>3. ~(main' = AtPrompt) /\ main'.pc \in {"store", "send"} /\ main'.command \in Awaited
  BY PromptFields DEF Sends
<1>4. ASSUME User PROVE UNCHANGED <<main, protocol>>
  <2>1. ASSUME NEW command, NEW channel, ReadCommand(command, channel) PROVE FALSE
    <3>1. main'.pc \in {"check", "newHandler"}
      BY <1>3, <2>1, PromptFields DEF ReadCommand, MainTypes
    <3> QED
      BY <1>3, <3>1
  <2> QED
    BY <1>4, <2>1 DEF User, ReadBlankLine
<1>5. ~(Refuse \/ Summarize \/ JoinCommunicator \/ ConnectFails)
  BY <1>3 DEF Refuse, Summarize, JoinCommunicator, ConnectFails
<1>6. ~(LoginAgain \/ Report \/ SummaryOf)
  BY <1>1, <1>3 DEF LoginAgain, Report, SummaryOf, Checks, MainTypes
<1>7. CASE Join \/ Exit \/ Logout \/ StoreReceipt
  <2>1. protocol' = protocol
    BY <1>7 DEF Join, Exit, Logout, StoreReceipt, Change, OnlyMain
  <2> QED
    BY <1>7, <2>1 DEF Sends
<1>8. ~Send
  <2>1. ASSUME main' = [AtPrompt EXCEPT !.pc = "join"] PROVE FALSE
    BY <1>3, <2>1, PromptFields DEF MainTypes
  <2>2. ASSUME main' = [main EXCEPT !.pc = "thread"] PROVE FALSE
    BY <1>1, <1>3, <2>2 DEF MainTypes
  <2>3. ASSUME main' = [main EXCEPT !.left = @ - 1], main.left > 1, Send PROVE FALSE
    <3>1. main.pc = "send" /\ main.command \in Awaited
      BY <1>1, <1>3, <2>3 DEF Send, MainTypes
    <3>2. main.left = 0
      BY <3>1 DEF Single
    <3> QED
      BY <2>3, <3>2
  <2> QED
    BY <1>3, <2>1, <2>2, <2>3 DEF Send
<1>9. ~(NewConnectionHandler \/ NewStompProtocol)
  BY <1>1, <1>3 DEF NewConnectionHandler, NewStompProtocol, MainTypes
<1>10. ~Connect
  <2>1. ASSUME Connect PROVE main'.command = "CONNECT"
    BY <1>1, <2>1 DEF Connect, MainTypes, TypeInv, MainInv, LoggingIn
  <2> QED
    BY <1>1, <1>3, <2>1
<1>11. CASE StartCommunicator
  BY <1>2, <1>3, <1>11 DEF StartCommunicator
<1>12. ASSUME CommunicatorStep PROVE UNCHANGED <<main, protocol>>
  <2>1. ~EndCommunicate
    BY <1>1 DEF EndCommunicate, Sends, nullptr
  <2> QED
    BY <1>12, <2>1 DEF CommunicatorStep, MainSame, TestStop, EnterRead, ReadFrame, ReadFails,
       LoseConnection, ParseFrame, CloseHandler, NullHandler, DeleteProtocol
<1>13. CASE Undefined \/ UNCHANGED vars
  BY <1>2, <1>13 DEF Undefined, vars
<1>14. CASE \E t \in Sessions : ServerStep(t) \/ ServerPublishes(t) \/ LinkLost(t)
  <2>1. ServerSame
    BY <1>14, ServerStepSame
  <2> QED
    BY <1>2, <2>1 DEF ServerSame
<1> QED
  BY <1>2, <1>4, <1>5, <1>6, <1>7, <1>8, <1>9, <1>10, <1>11, <1>12, <1>13, <1>14
  DEF Next, MainStep

(* The steps that move the requests of a session *)
LEMMA PathSteps ==
  ASSUME TypeInv, Single, [Next]_vars, NEW s \in Sessions
  PROVE  \/ Same(s)
         \/ protocol = s /\ (Join \/ Exit \/ Logout \/ StoreReceipt \/ Send)
         \/ protocol = s /\ ParseFrame
         \/ ReadFrame /\ comm.handler = s
         \/ link[s] = "up" /\ (ServerStep(s) \/ ServerPublishes(s) \/ LinkLost(s))
<1> SUFFICES ASSUME ~(protocol = s /\ (Join \/ Exit \/ Logout \/ StoreReceipt \/ Send)),
                    ~(protocol = s /\ ParseFrame), ~(ReadFrame /\ comm.handler = s),
                    ~(link[s] = "up" /\ (ServerStep(s) \/ ServerPublishes(s) \/ LinkLost(s)))
             PROVE  Same(s)
  OBVIOUS
<1>1. /\ object'[s].idCounter = object[s].idCounter
      /\ object'[s].receiptCounter = object[s].receiptCounter
      /\ object'[s].receiptMap = object[s].receiptMap
      /\ object'[s].subscriptionIds = object[s].subscriptionIds
  <2>1. CASE object'[s] = object[s]
    BY <2>1
  <2>2. CASE protocol = s /\ LoseConnection
    BY <2>2, CommunicatorObject DEF LoseConnection, ParseFrame, At
  <2> QED
    BY <2>1, <2>2, ObjectSteps
<1>2. Sends(s)' => Sends(s) /\ main' = main
  BY SendsSteps
<1>3. /\ toServer'[s] = toServer[s] /\ toClient'[s] = toClient[s]
      /\ subscriptions'[s] = subscriptions[s]
      /\ Reads(s)' => Reads(s) /\ comm' = comm
  <2>1. CASE Connect
    BY <2>1 DEF Connect, CommSame, Reads
  <2> QED
    BY <2>1, ConnectionSteps
<1> QED
  BY <1>1, <1>2, <1>3 DEF Same

LEMMA PathSame ==
  ASSUME NEW s, Path(s), Same(s)
  PROVE  Path(s)'
<1>1. ASSUME NEW read, NEW served, NEW sent, Ordered(s, read, served, sent)
      PROVE  Ordered(s, read, served, sent)'
  BY <1>1 DEF Ordered, Same
<1>2. ASSUME NEW name, Known(s, name) PROVE Known(s, name)'
  BY <1>2 DEF Known, Stored, Requested, RequestOf, Same
<1>3. ASSUME NEW name, Named(s, name) PROVE Named(s, name)'
  BY <1>3 DEF Named, Same
<1> QED
  BY <1>1, <1>2, <1>3 DEF Path

(* What a path is made of has its type. *)
LEMMA PathTypes ==
  ASSUME TypeInv, NEW s \in Sessions
  PROVE  /\ object[s] \in Objects /\ object \in [Sessions -> Objects]
         /\ toServer \in [Sessions -> Seq(Sent)] /\ toServer[s] \in Seq(Sent)
         /\ toClient \in [Sessions -> Seq(Answers)] /\ toClient[s] \in Seq(Answers)
         /\ Range(toServer[s]) \subseteq Sent /\ Range(toClient[s]) \subseteq Answers
         /\ subscriptions \in [Sessions -> Maps(Count, Channels)]
         /\ subscriptions[s] \in Maps(Count, Channels)
         /\ object[s].receiptCounter \in Nat /\ object[s].idCounter \in Nat
         /\ main \in MainTypes
         /\ comm.pc = "parse" => comm.frame \in Answers
<1>1. /\ object[s] \in Objects /\ object \in [Sessions -> Objects]
      /\ toServer \in [Sessions -> Seq(Sent)] /\ toServer[s] \in Seq(Sent)
      /\ toClient \in [Sessions -> Seq(Answers)] /\ toClient[s] \in Seq(Answers)
      /\ subscriptions \in [Sessions -> Maps(Count, Channels)]
      /\ subscriptions[s] \in Maps(Count, Channels)
      /\ main \in MainTypes
      /\ comm.pc = "parse" => comm.frame \in Answers
  BY DEF TypeInv, MainInv, CommInv, SharedInv, NetworkInv
<1>2. object[s].receiptCounter \in Count /\ object[s].idCounter \in Count
  BY <1>1 DEF Objects
<1>3. Range(toServer[s]) \subseteq Sent /\ Range(toClient[s]) \subseteq Answers
  BY <1>1, RangeIn
<1> QED
  BY <1>1, <1>2, <1>3, CountIsNat

(* The client reads the first frame of the queue. *)
LEMMA PathRead ==
  ASSUME TypeInv, NEW s \in Sessions, Path(s), ReadFrame, comm.handler = s
  PROVE  Path(s)'
<1>0. PICK f, r : f = Head(toClient[s]) /\ r = Tail(toClient[s])
  OBVIOUS
<1>1. /\ ~Reads(s) /\ Reads(s)' /\ comm'.frame = f /\ toClient[s] # <<>>
      /\ toClient'[s] = r /\ toServer'[s] = toServer[s]
      /\ object' = object /\ subscriptions' = subscriptions
      /\ main' = main /\ (Sends(s)' <=> Sends(s))
  BY <1>0, PathTypes DEF ReadFrame, Reads, Sends, At, MainSame, TypeInv, CommInv, CommTypes
<1>2. Range(toClient[s]) = {f} \cup Range(r) /\ f \in Answers
  BY <1>0, <1>1, TailElements, PathTypes
<1>3. PICK read, served, sent \in Count : Ordered(s, read, served, sent)
  BY DEF Path
<1>4. /\ read \in Nat /\ served \in Nat /\ read <= served
      /\ Within(toClient[s], read, served)
  BY <1>3, CountIsNat DEF Ordered
<1>5. IF f.receipt = None THEN Within(r, read, served)
      ELSE /\ read <= f.receipt /\ f.receipt < served /\ f.receipt \in Nat
           /\ Within(r, f.receipt + 1, served)
  BY <1>0, <1>1, <1>4, PathTypes, WithinTail, NumberedFrames
<1>6. \E low, middle, high \in Count : Ordered(s, low, middle, high)'
  <2>1. CASE f.receipt = None
    <3>1. Ordered(s, read, served, sent)'
      BY <1>1, <1>3, <1>5, <2>1 DEF Ordered
    <3> QED
      BY <3>1
  <2>2. CASE f.receipt # None
    <3>1. PICK next \in Count : next = f.receipt + 1 /\ next <= served /\ f.receipt < next
      BY <1>4, <1>5, <2>2, ClientAssumption DEF Count
    <3>2. Ordered(s, next, served, sent)'
      BY <1>1, <1>3, <1>5, <2>2, <3>1 DEF Ordered
    <3> QED
      BY <3>1, <3>2
  <2> QED
    BY <2>1, <2>2
<1>7. PICK name \in [Count -> Channels \cup {None}] : Known(s, name) /\ Named(s, name)
  BY DEF Path
<1>8. Known(s, name)' /\ Named(s, name)'
  BY <1>1, <1>2, <1>7 DEF Known, Named, Stored, Requested, RequestOf
<1> QED
  BY <1>6, <1>7, <1>8 DEF Path

(* The communicator parses what it has read from some session's socket. *)
Reading == comm.pc = "parse" => comm.handler \in 1..logins

LEMMA ReadingNext ==
  ASSUME TypeInv, Reading, [Next]_vars
  PROVE  Reading'
<1>1. comm \in CommTypes /\ logins \in Nat /\ handlers \subseteq 1..logins
  BY ClientAssumption DEF TypeInv, CommInv, SharedInv
<1>2. CASE comm' = comm /\ logins' = logins
  BY <1>2 DEF Reading
<1>3. CASE comm'.pc # "parse"
  BY <1>3 DEF Reading
<1>4. CASE User \/ Undefined \/ UNCHANGED vars
  BY <1>2, <1>4 DEF User, ReadCommand, ReadBlankLine, Undefined, vars, CommSame
<1>5. CASE \/ Join \/ Exit \/ Logout \/ StoreReceipt \/ Send
           \/ Refuse \/ LoginAgain \/ Report \/ SummaryOf \/ Summarize
           \/ NewStompProtocol \/ Connect \/ ConnectFails
  BY <1>2, <1>5 DEF Refuse, LoginAgain, Report, SummaryOf, Summarize, OnlyMain, CommSame,
     Join, Exit, Logout, Change, StoreReceipt, Send, NewStompProtocol, Connect, ConnectFails
<1>6. CASE NewConnectionHandler
  <2>1. comm' = comm /\ logins' = logins + 1
    BY <1>6 DEF NewConnectionHandler, CommSame
  <2> QED
    BY <1>1, <2>1 DEF Reading
<1>7. CASE JoinCommunicator \/ StartCommunicator
  <2>1. (comm' = comm /\ logins' = logins) \/ comm'.pc \in {"none", "test"}
    BY <1>7 DEF JoinCommunicator, StartCommunicator, NoThread
  <2> QED
    BY <1>2, <1>3, <2>1
<1>8. CASE TestStop \/ ReadFails \/ LoseConnection \/ NullHandler \/ DeleteProtocol
           \/ EndCommunicate \/ EnterRead \/ ParseFrame \/ CloseHandler
  <2>1. comm'.pc # "parse"
    BY <1>1, <1>8 DEF TestStop, ReadFails, LoseConnection, NullHandler, DeleteProtocol,
       EndCommunicate, EnterRead, ParseFrame, CloseHandler, Goto, CommTypes
  <2> QED
    BY <1>3, <2>1
<1>9. CASE ReadFrame
  <2>1. comm'.handler = comm.handler /\ comm.handler \in handlers /\ logins' = logins
    BY <1>1, <1>9 DEF ReadFrame, MainSame, CommTypes
  <2> QED
    BY <1>1, <2>1 DEF Reading
<1>10. CASE \E t \in Sessions : ServerStep(t) \/ ServerPublishes(t) \/ LinkLost(t)
  <2>1. ServerSame
    BY <1>10, ServerStepSame
  <2> QED
    BY <1>2, <2>1 DEF ServerSame
<1> QED
  BY <1>4, <1>5, <1>6, <1>7, <1>8, <1>9, <1>10 DEF Next, MainStep, CommunicatorStep

(* A frame is given to the object of the session it was read from; or to    *)
(* one that has no requests yet, when a login has replaced the pointer.     *)
LEMMA ParsesOwn ==
  ASSUME TypeInv, LifeInv, Reading, ParseFrame, \A s \in Sessions : Fresh(s)
  PROVE  comm.handler = protocol \/ DOMAIN object[protocol].receiptMap = {}
<1>1. /\ Running /\ comm.pc = "parse" /\ protocol \in protocols /\ Forked
      /\ comm.handler \in 1..logins
  BY DEF ParseFrame, At, Forked, Reading
<1>2. /\ 1..logins \subseteq Sessions /\ protocols \subseteq 1..logins
      /\ logins \in Nat /\ 0 \notin protocols
  BY ClientAssumption DEF TypeInv, SharedInv, Sessions
<1>3. ASSUME Orderly PROVE comm.handler = protocol
  BY <1>1, <1>3 DEF Orderly, Serves
<1>4. CASE Using \/ main.pc = "newHandler"
  <2>1. Orderly
    BY <1>1, <1>4 DEF LifeInv, LoginBeside, Using, LoggingIn
  <2> QED
    BY <1>3, <2>1
<1>5. CASE main.pc = "newProtocol"
  <2>1. comm.handler \in {0, protocol, logins}
    BY <1>1, <1>5 DEF LifeInv, LoginBeside, Using, LoggingIn
  <2>2. comm.handler # logins
    <3> SUFFICES ASSUME comm.handler = logins PROVE FALSE
      OBVIOUS
    <3>1. logins \in Sessions /\ Unconnected(logins) /\ Reads(logins)
      BY <1>1, <1>2, <1>5 DEF Unconnected, Reads
    <3> QED
      BY <3>1 DEF Fresh
  <2> QED
    BY <1>1, <2>1, <2>2
<1>6. CASE ~Using /\ main.pc \in {"connect", "send", "thread"}
  <2>1. protocol = logins
    BY <1>1, <1>2, <1>6 DEF LifeInv, LoginBeside
  <2>2. logins \in Sessions /\ Unused(logins)
    BY <1>1, <1>2, <1>6, <2>1 DEF Unused
  <2> QED
    BY <2>1, <2>2 DEF Fresh
<1> QED
  BY <1>4, <1>5, <1>6 DEF Using, LoggingIn

LEMMA PathParse ==
  ASSUME TypeInv, NEW s \in Sessions, Path(s), ParseFrame, protocol = s,
         comm.handler = s \/ DOMAIN object[s].receiptMap = {}
  PROVE  Path(s)'
<1>1. /\ ~Reads(s)' /\ toClient' = toClient /\ toServer' = toServer
      /\ subscriptions' = subscriptions
      /\ main' = main /\ (Sends(s)' <=> Sends(s)) /\ (comm.handler = s => Reads(s))
  BY PathTypes, ParseFrameIs DEF ParseFrame, Reads, Sends, At, MainSame, TypeInv, CommInv,
     CommTypes
<1>2. /\ object'[s].idCounter = object[s].idCounter
      /\ object'[s].receiptCounter = object[s].receiptCounter
      /\ object'[s].subscriptionIds = object[s].subscriptionIds
      /\ \/ object'[s].receiptMap = object[s].receiptMap
         \/ /\ comm.frame.command = "RECEIPT"
            /\ object'[s].receiptMap = Without(object[s].receiptMap, comm.frame.receipt)
  BY CommunicatorObject
<1>3. PICK read, served, sent \in Count : Ordered(s, read, served, sent)
  BY DEF Path
<1>4. Ordered(s, read, served, sent)'
  BY <1>1, <1>2, <1>3 DEF Ordered
<1>5. PICK name \in [Count -> Channels \cup {None}] : Known(s, name) /\ Named(s, name)
  BY DEF Path
<1>6. Named(s, name)'
  BY <1>1, <1>2, <1>5 DEF Named
<1>7. Known(s, name)'
  <2>1. CASE object'[s].receiptMap = object[s].receiptMap
    BY <1>1, <1>5, <2>1 DEF Known, Stored, Requested, RequestOf
  <2>2. CASE DOMAIN object[s].receiptMap = {}
    BY <1>1, <1>5, <2>2 DEF Known, Stored
  <2>3. CASE /\ comm.handler = s /\ comm.frame.command = "RECEIPT"
             /\ object'[s].receiptMap = Without(object[s].receiptMap, comm.frame.receipt)
    <3>1. PICK n \in Nat : n = comm.frame.receipt
      BY <2>3, ParseFrameIs, CountIsNat DEF Answers
    <3>2. n < read /\ read \in Nat /\ served \in Nat /\ sent \in Nat
      BY <1>1, <1>3, <2>3, <3>1, CountIsNat DEF Ordered
    <3>3. ASSUME NEW m, NEW request, Stored(s, m, request), m # n
          PROVE  Stored(s, m, request)'
      BY <2>3, <3>1, <3>3 DEF Stored, Without, Restrict
    <3>4. /\ \A f \in Range(toClient[s]) : f.receipt # n
          /\ \A f \in Range(toServer[s]) : f.receipt # n
          /\ Sends(s) => main.receipt # n
      <4>1. ASSUME NEW m \in Nat, read <= m PROVE m # n
        BY <3>2, <4>1
      <4>2. n # None
        BY CountIsNat
      <4>3. ASSUME NEW f \in Range(toClient[s]) PROVE f.receipt # n
        BY <1>3, <3>2, <4>2, <4>3 DEF Ordered, Within
      <4>4. ASSUME NEW f \in Range(toServer[s]) PROVE f.receipt # n
        BY <1>3, <3>2, <4>2, <4>4 DEF Ordered, Within
      <4>5. Sends(s) => main.receipt # n
        BY <1>3, <3>2 DEF Ordered
      <4> QED
        BY <4>3, <4>4, <4>5
    <3> QED
      BY <1>1, <1>5, <3>3, <3>4 DEF Known, Requested, RequestOf
  <2> QED
    BY <1>2, <2>1, <2>2, <2>3
<1> QED
  BY <1>4, <1>6, <1>7 DEF Path

(* The main thread gives the next number to a request, or only skips it. *)
Issues(s) ==
  /\ protocol = s /\ main.pc = "check" /\ protocol' = protocol /\ comm' = comm
  /\ main'.pc \in {"store", "prompt"}
  /\ main'.pc = "store" => /\ main'.receipt = object[s].receiptCounter
                           /\ main'.command = main.command
                           /\ main'.channel = main.channel
  /\ object'[s].receiptCounter = object[s].receiptCounter + 1
  /\ object'[s].receiptMap = object[s].receiptMap
  /\ UNCHANGED <<toServer, toClient, subscriptions>>

LEMMA IssueSteps ==
  ASSUME TypeInv, NEW s \in Sessions, protocol = s, Join \/ Exit \/ Logout
  PROVE  LET p == object[s]
             mine == p.subscriptionIds
             id == GetSubscriptionId(p, main.channel)
         IN  \/ Same(s)
             \/ /\ Issues(s) /\ Join /\ main.command = "SUBSCRIBE"
                /\ main.channel \in Channels /\ main.channel \notin DOMAIN mine
                /\ main'.pc = "store" /\ main'.id = p.idCounter
                /\ object'[s].idCounter = p.idCounter + 1
                /\ object'[s].subscriptionIds = With(mine, main.channel, p.idCounter)
             \/ /\ Issues(s) /\ Exit /\ main.command = "UNSUBSCRIBE"
                /\ object'[s].idCounter = p.idCounter
                /\ object'[s].subscriptionIds = Without(mine, main.channel)
                /\ \/ main'.pc = "prompt" /\ main.channel \notin DOMAIN mine
                   \/ /\ main'.pc = "store" /\ main.channel \in DOMAIN mine
                      /\ main'.id = mine[main.channel]
             \/ /\ Issues(s) /\ Logout /\ main.command = "DISCONNECT"
                /\ object'[s].idCounter = p.idCounter
                /\ object'[s].subscriptionIds = mine
                /\ main'.pc = "store"
<1> DEFINE p == object[s]
           mine == p.subscriptionIds
<1>1. /\ main \in MainTypes /\ object \in [Sessions -> Objects] /\ p \in Objects
  BY PathTypes
<1>2. ASSUME NEW id, NEW receipt, Store(id, receipt)
      PROVE  /\ main'.pc = "store" /\ main'.id = id /\ main'.receipt = receipt
             /\ main'.command = main.command /\ main'.channel = main.channel
  BY <1>1, <1>2 DEF Store, MainTypes
<1>3. ASSUME NEW changed, Change(changed)
      PROVE  /\ object'[s] = changed /\ protocol' = protocol /\ comm' = comm
             /\ UNCHANGED <<toServer, toClient, subscriptions>>
  BY <1>1, <1>3 DEF Change, CommSame
<1>4. CASE Join
  <2>1. CASE main' = AtPrompt /\ OnlyMain
    BY <2>1, PromptFields DEF Same, Reads, Sends, OnlyMain, CommSame
  <2>2. CASE ~(main' = AtPrompt /\ OnlyMain)
    <3> DEFINE q == [p EXCEPT !.idCounter = @ + 1, !.receiptCounter = @ + 1,
                             !.subscriptionIds = With(@, main.channel, p.idCounter)]
    <3>1. /\ Store(p.idCounter, p.receiptCounter) /\ Change(q)
          /\ main.pc = "check" /\ main.command = "SUBSCRIBE"
          /\ main.channel \notin DOMAIN mine
      BY <1>4, <2>2 DEF Join, Checks
    <3>2. /\ q.idCounter = p.idCounter + 1 /\ q.receiptCounter = p.receiptCounter + 1
          /\ q.receiptMap = p.receiptMap
          /\ q.subscriptionIds = With(mine, main.channel, p.idCounter)
      BY <1>1 DEF Objects
    <3>3. main.channel \in Channels
      BY <3>1 DEF TypeInv, MainInv, Executes
    <3> HIDE DEF q
    <3>4. Issues(s)
      BY <1>2, <1>3, <3>1, <3>2 DEF Issues
    <3> QED
      BY <1>2, <1>3, <1>4, <3>1, <3>2, <3>3, <3>4
  <2> QED
    BY <2>1, <2>2
<1>5. CASE Exit
  <2> DEFINE q == [p EXCEPT !.receiptCounter = @ + 1,
                           !.subscriptionIds = Without(@, main.channel)]
             id == GetSubscriptionId(p, main.channel)
  <2>1. /\ Change(q) /\ main.pc = "check" /\ main.command = "UNSUBSCRIBE"
        /\ IF id = -1 THEN main' = AtPrompt ELSE Store(id, p.receiptCounter)
    BY <1>5 DEF Exit, Checks
  <2>2. /\ q.idCounter = p.idCounter /\ q.receiptCounter = p.receiptCounter + 1
        /\ q.receiptMap = p.receiptMap
        /\ q.subscriptionIds = Without(mine, main.channel)
    BY <1>1 DEF Objects
  <2>3. PartialFunction(mine, Channels, Count)
    BY <1>1, MapFacts DEF Objects
  <2>4. \/ id = -1 /\ main.channel \notin DOMAIN mine
        \/ id # -1 /\ main.channel \in DOMAIN mine /\ id = mine[main.channel]
    <3>1. main.channel \in DOMAIN mine => mine[main.channel] \in Nat
      BY <2>3, CountIsNat DEF PartialFunction
    <3>2. \A n \in Nat : n # -1
      OBVIOUS
    <3> HIDE DEF p
    <3> QED
      BY <3>1, <3>2 DEF GetSubscriptionId
  <2> HIDE DEF q, id
  <2>5. CASE id = -1
    <3>1. main'.pc = "prompt"
      BY <2>1, <2>5, PromptFields
    <3>2. Issues(s)
      BY <1>3, <2>1, <2>2, <3>1 DEF Issues
    <3> QED
      BY <1>3, <1>5, <2>1, <2>2, <2>4, <2>5, <3>1, <3>2
  <2>6. CASE id # -1
    <3>1. /\ main'.pc = "store" /\ main'.id = id /\ main'.receipt = p.receiptCounter
          /\ main'.command = main.command /\ main'.channel = main.channel
      BY <1>2, <2>1, <2>6
    <3>2. Issues(s)
      BY <1>3, <2>1, <2>2, <3>1 DEF Issues
    <3> QED
      BY <1>3, <1>5, <2>1, <2>2, <2>4, <2>6, <3>1, <3>2
  <2> QED
    BY <2>5, <2>6
<1>6. CASE Logout
  <2> DEFINE q == [p EXCEPT !.receiptCounter = @ + 1]
  <2>1. /\ Store(None, p.receiptCounter) /\ Change(q)
        /\ main.pc = "check" /\ main.command = "DISCONNECT"
    BY <1>6 DEF Logout, Checks
  <2>2. /\ q.idCounter = p.idCounter /\ q.receiptCounter = p.receiptCounter + 1
        /\ q.receiptMap = p.receiptMap /\ q.subscriptionIds = mine
    BY <1>1 DEF Objects
  <2> HIDE DEF q
  <2>3. Issues(s)
    BY <1>2, <1>3, <2>1, <2>2 DEF Issues
  <2> QED
    BY <1>2, <1>3, <1>6, <2>1, <2>2, <2>3
<1> QED
  BY <1>4, <1>5, <1>6

LEMMA OrderedIssue ==
  ASSUME TypeInv, NEW s \in Sessions, Issues(s),
         NEW read \in Count, NEW served \in Count, NEW sent \in Count,
         Ordered(s, read, served, sent)
  PROVE  Ordered(s, read, served, sent)'
<1>1. object[s].receiptCounter \in Nat /\ sent \in Nat
  BY PathTypes, CountIsNat
<1>2. PICK n \in Nat : n = object[s].receiptCounter
  BY <1>1
<1>3. sent <= n /\ sent <= n + 1 /\ n < n + 1
  BY <1>1, <1>2 DEF Ordered
<1>4. Sends(s)' => main'.receipt = n
  BY <1>2 DEF Sends, Issues
<1>5. object'[s].receiptCounter = n + 1 /\ (Reads(s)' <=> Reads(s))
  BY <1>2 DEF Issues, Reads
<1> QED
  BY <1>3, <1>4, <1>5 DEF Ordered, Issues

(* Names that are given stay, so what was requested stays known. *)
LEMMA KnownIssue ==
  ASSUME TypeInv, NEW s \in Sessions, Issues(s), NEW name, NEW newName,
         Known(s, name), Named(s, name),
         \A i \in Nat : i < object[s].idCounter => newName[i] = name[i],
         NEW next \in Nat, next = object'[s].idCounter, object[s].idCounter <= next
  PROVE  /\ Known(s, newName)'
         /\ \A f \in Range(toServer'[s]) :
              /\ f.command = "SUBSCRIBE" => f.id < next /\ newName[f.id] = f.channel
              /\ f.command = "UNSUBSCRIBE" => f.id < next
         /\ LET subs == subscriptions'[s]
            IN  \A i \in DOMAIN subs : i < next /\ newName[i] = subs[i]
         /\ LET mine == object[s].subscriptionIds
            IN  \A channel \in DOMAIN mine :
                  mine[channel] < next /\ newName[mine[channel]] = channel
<1>1. PICK n \in Nat : n = object[s].idCounter
  BY PathTypes
<1>2. ASSUME NEW i \in Nat, i < n PROVE i < next
  BY <1>1, <1>2
<1>3. ASSUME NEW f \in Range(toServer[s])
      PROVE  /\ f.command \in {"SUBSCRIBE", "UNSUBSCRIBE"} => f.id \in Nat /\ f.id < n
             /\ f.command = "SUBSCRIBE" => name[f.id] = f.channel
             /\ Requested(f, newName) = Requested(f, name)
  <2>1. f.command \in {"SUBSCRIBE", "UNSUBSCRIBE"} => f.id \in Nat /\ f.id < n
    BY <1>1, PathTypes, CountIsNat DEF Sent, WellFormed, Named
  <2>2. f.command = "SUBSCRIBE" => name[f.id] = f.channel
    BY DEF Named
  <2>3. f.command = "UNSUBSCRIBE" => newName[f.id] = name[f.id]
    BY <1>1, <2>1
  <2> QED
    BY <2>1, <2>2, <2>3 DEF Requested
<1>4. Known(s, newName)'
  BY <1>3, ZenonT(40) DEF Known, Stored, Requested, Issues, Reads, Sends
<1>5. ASSUME NEW i \in DOMAIN subscriptions[s]
      PROVE  i \in Nat /\ i < n /\ newName[i] = subscriptions[s][i]
  <2>1. i \in Nat
    BY PathTypes, MapFacts, CountIsNat DEF PartialFunction
  <2> QED
    BY <1>1, <2>1 DEF Named
<1>6. ASSUME NEW channel \in DOMAIN object[s].subscriptionIds
      PROVE  LET i == object[s].subscriptionIds[channel]
             IN  i \in Nat /\ i < n /\ newName[i] = channel
  <2>1. object[s].subscriptionIds[channel] \in Nat
    BY PathTypes, MapFacts, CountIsNat DEF PartialFunction, Objects
  <2> QED
    BY <1>1, <2>1 DEF Named
<1>7. toServer'[s] = toServer[s] /\ subscriptions'[s] = subscriptions[s]
  BY DEF Issues
<1> QED
  BY <1>1, <1>2, <1>3, <1>4, <1>5, <1>6, <1>7

LEMMA PathIssue ==
  ASSUME TypeInv, NEW s \in Sessions, Path(s), protocol = s, Join \/ Exit \/ Logout
  PROVE  Path(s)'
<1> DEFINE p == object[s]
           mine == p.subscriptionIds
<1>1. PICK name \in [Count -> Channels \cup {None}] : Known(s, name) /\ Named(s, name)
  BY DEF Path
<1>2. PICK read, served, sent \in Count : Ordered(s, read, served, sent)
  BY DEF Path
<1>3. Issues(s) => Ordered(s, read, served, sent)'
  BY <1>2, OrderedIssue
<1>4. PICK n \in Count : n = p.idCounter
  BY PathTypes DEF Objects
<1>5. n \in Nat /\ n + 1 \in Nat /\ n <= n + 1 /\ n <= n /\ n < n + 1
  BY CountIsNat
<1>6. PartialFunction(mine, Channels, Count)
  BY PathTypes, MapFacts DEF Objects
<1>7. CASE /\ Issues(s) /\ main.channel \in Channels /\ main'.pc = "store"
           /\ main'.id = p.idCounter /\ object'[s].idCounter = p.idCounter + 1
           /\ object'[s].subscriptionIds = With(mine, main.channel, p.idCounter)
  <2> DEFINE newName == [name EXCEPT ![n] = main.channel]
  <2>1. PICK r : r = newName
    OBVIOUS
  <2>2. /\ r \in [Count -> Channels \cup {None}] /\ r[n] = main.channel
        /\ \A i \in Nat : i < p.idCounter => r[i] = name[i]
    BY <1>1, <1>4, <1>5, <1>7, <2>1
  <2>3. /\ Known(s, r)'
        /\ \A f \in Range(toServer'[s]) :
              /\ f.command = "SUBSCRIBE" => f.id < n + 1 /\ r[f.id] = f.channel
              /\ f.command = "UNSUBSCRIBE" => f.id < n + 1
        /\ \A i \in DOMAIN subscriptions'[s] : i < n + 1 /\ r[i] = subscriptions'[s][i]
        /\ \A channel \in DOMAIN mine : mine[channel] < n + 1 /\ r[mine[channel]] = channel
    BY <1>1, <1>4, <1>5, <1>7, <2>2, KnownIssue
  <2>4. Sends(s)' => main'.id = n /\ main'.channel = main.channel
    BY <1>4, <1>7 DEF Issues
  <2>5. \A channel \in DOMAIN object'[s].subscriptionIds :
           /\ object'[s].subscriptionIds[channel] < n + 1
           /\ r[object'[s].subscriptionIds[channel]] = channel
    BY <1>4, <1>5, <1>7, <2>2, <2>3 DEF With
  <2>6. object'[s].idCounter = n + 1
    BY <1>4, <1>7
  <2>7. Named(s, r)'
    BY <1>5, <1>7, <2>2, <2>3, <2>4, <2>5, <2>6 DEF Named, Issues
  <2> QED
    BY <1>2, <1>3, <1>7, <2>2, <2>3, <2>7 DEF Path
<1>8. CASE /\ Issues(s) /\ object'[s].idCounter = p.idCounter
           /\ \/ object'[s].subscriptionIds = mine
              \/ object'[s].subscriptionIds = Without(mine, main.channel)
           /\ \/ main'.pc = "prompt" \/ main.command = "DISCONNECT"
              \/ main'.id = mine[main.channel] /\ main.channel \in DOMAIN mine
  <2>1. /\ Known(s, name)'
        /\ \A f \in Range(toServer'[s]) :
              /\ f.command = "SUBSCRIBE" => f.id < n /\ name[f.id] = f.channel
              /\ f.command = "UNSUBSCRIBE" => f.id < n
        /\ \A i \in DOMAIN subscriptions'[s] : i < n /\ name[i] = subscriptions'[s][i]
        /\ \A channel \in DOMAIN mine : mine[channel] < n /\ name[mine[channel]] = channel
    BY <1>1, <1>4, <1>5, <1>8, KnownIssue
  <2>2. \A channel \in DOMAIN object'[s].subscriptionIds :
           /\ object'[s].subscriptionIds[channel] < n
           /\ name[object'[s].subscriptionIds[channel]] = channel
    BY <1>8, <2>1 DEF Without, Restrict
  <2>3. Sends(s)' /\ main'.command # "DISCONNECT" =>
          main'.id < n /\ name[main'.id] = main'.channel
    BY <1>8, <2>1 DEF Issues, Sends
  <2>4. object'[s].idCounter = n
    BY <1>4, <1>8
  <2>5. Named(s, name)'
    BY <2>1, <2>2, <2>3, <2>4 DEF Named
  <2> QED
    BY <1>1, <1>2, <1>3, <1>8, <2>1, <2>5 DEF Path
<1>9. CASE Same(s)
  BY <1>9, PathSame
<1> QED
  BY <1>7, <1>8, <1>9, IssueSteps

(* The request is stored: no other one has its number. *)
LEMMA PathStore ==
  ASSUME TypeInv, NEW s \in Sessions, Path(s), protocol = s, StoreReceipt
  PROVE  Path(s)'
<1>1. /\ Sends(s) /\ toServer' = toServer /\ toClient' = toClient
      /\ subscriptions' = subscriptions /\ comm' = comm /\ (Reads(s)' <=> Reads(s))
  BY DEF StoreReceipt, Sends, Reads, CommSame, TypeInv, MainInv
<1>2. /\ object'[s].idCounter = object[s].idCounter
      /\ object'[s].receiptCounter = object[s].receiptCounter
      /\ object'[s].subscriptionIds = object[s].subscriptionIds
      /\ object'[s].receiptMap = With(object[s].receiptMap, main.receipt, RequestOf)
  BY PathTypes DEF StoreReceipt, Objects
<1>3. /\ main'.id = main.id /\ main'.receipt = main.receipt
      /\ main'.command = main.command /\ main'.channel = main.channel
  BY PathTypes DEF StoreReceipt, MainTypes
<1>4. PICK read, served, sent \in Count : Ordered(s, read, served, sent)
  BY DEF Path
<1>5. Ordered(s, read, served, sent)'
  BY <1>1, <1>2, <1>3, <1>4 DEF Ordered
<1>6. PICK name \in [Count -> Channels \cup {None}] : Known(s, name) /\ Named(s, name)
  BY DEF Path
<1>7. Named(s, name)'
  BY <1>1, <1>2, <1>3, <1>6 DEF Named
<1>8. Known(s, name)'
  <2>1. PICK n, request : n = main.receipt /\ request = RequestOf
    OBVIOUS
  <2>2. sent <= n /\ n \in Nat /\ read \in Nat /\ served \in Nat /\ sent \in Nat
    <3>1. main.receipt \in Count
      BY DEF StoreReceipt, TypeInv, MainInv, WellFormed
    <3> QED
      BY <1>1, <1>4, <2>1, <3>1, CountIsNat DEF Ordered
  <2>3. ASSUME NEW m, NEW r, Stored(s, m, r), m # n PROVE Stored(s, m, r)'
    BY <1>2, <2>1, <2>3 DEF Stored, With
  <2>4. \A m \in Nat : m < sent => m # n
    BY <2>2
  <2>5. \A m \in Nat : m < read \/ m < served => m < sent
    BY <1>4, <2>2 DEF Ordered
  <2>6. ASSUME NEW f \in Range(toClient[s]), f.receipt # None PROVE f.receipt # n
    <3>1. f.receipt \in Nat
      BY <2>6, PathTypes, NumberedFrames DEF Numbered
    <3> QED
      BY <1>4, <2>4, <2>5, <2>6, <3>1 DEF Ordered, Within
  <2>7. ASSUME NEW f \in Range(toServer[s]), f.receipt # None PROVE f.receipt # n
    <3>1. f.receipt \in Nat
      BY <2>7, PathTypes, NumberedFrames DEF Numbered
    <3> QED
      BY <1>4, <2>4, <2>7, <3>1 DEF Ordered, Within
  <2>8. ASSUME Reads(s), comm.frame.receipt # None PROVE comm.frame.receipt # n
    <3>1. comm.frame.receipt \in Nat
      BY <2>8, PathTypes, NumberedFrames DEF Numbered, Reads
    <3> QED
      BY <1>4, <2>4, <2>5, <2>8, <3>1 DEF Ordered
  <2>9. Stored(s, n, request)'
    BY <1>2, <2>1 DEF Stored, With
  <2>10. RequestOf' = request /\ main'.receipt = n
    BY <1>3, <2>1 DEF RequestOf
  <2> QED
    BY <1>1, <1>6, <2>3, <2>6, <2>7, <2>8, <2>9, <2>10 DEF Known, Requested
<1> QED
  BY <1>5, <1>6, <1>7, <1>8 DEF Path

(* A frame follows those that were sent before it. *)
LEMMA PathSend ==
  ASSUME TypeInv, Single, [Next]_vars, NEW s \in Sessions, Path(s), protocol = s, Send
  PROVE  Path(s)'
<1>1. /\ main.pc = "send" /\ object' = object /\ toClient' = toClient
      /\ subscriptions' = subscriptions /\ comm' = comm /\ (Reads(s)' <=> Reads(s))
  BY DEF Send, CommSame, Reads
<1>2. Sends(s)' => Sends(s) /\ main' = main
  BY <1>1, SendsSteps DEF Join, Exit, Logout, StoreReceipt, Checks
<1>3. CASE toServer'[s] = toServer[s]
  <2>1. Same(s)
    BY <1>1, <1>2, <1>3 DEF Same
  <2> QED
    BY <2>1, PathSame
<1>4. CASE toServer'[s] = Append(toServer[s], FrameOf)
  <2>1. PICK f \in Sent : /\ f = FrameOf /\ f.receipt = main.receipt /\ f.id = main.id
                          /\ f.command = main.command /\ WellFormed(f)
    BY <1>1, FrameSent DEF Sent
  <2>2. Range(toServer'[s]) = Range(toServer[s]) \cup {f}
    BY <1>4, <2>1, PathTypes, AppendElements
  <2>3. PICK read, served, sent \in Count : Ordered(s, read, served, sent)
    BY DEF Path
  <2>4. PICK name \in [Count -> Channels \cup {None}] : Known(s, name) /\ Named(s, name)
    BY DEF Path
  <2>5. served \in Nat /\ sent \in Nat /\ served <= sent /\ Within(toServer[s], served, sent)
    BY <2>3, CountIsNat DEF Ordered
  <2>6. CASE main.command \notin Awaited
    <3>1. ~Sends(s) /\ ~Sends(s)' /\ f.receipt = None
      BY <1>2, <2>1, <2>6 DEF Sends, WellFormed, Sent, ClientFrame
    <3>2. Within(toServer'[s], served, sent)
      BY <1>4, <2>1, <2>5, <3>1, PathTypes, NumberedFrames, WithinAppend
    <3>3. Ordered(s, read, served, sent)'
      BY <1>1, <2>3, <3>1, <3>2 DEF Ordered
    <3>4. Known(s, name)' /\ Named(s, name)'
      BY <1>1, <2>1, <2>2, <2>4, <2>6, <3>1
      DEF Known, Named, Stored, Requested, Awaited
    <3> QED
      BY <2>3, <2>4, <3>3, <3>4 DEF Path
  <2>7. CASE main.command \in Awaited
    <3>1. Sends(s) /\ f.receipt \in Count
      BY <1>1, <2>1, <2>7 DEF Sends, WellFormed
    <3>2. ~Sends(s)'
      <4>1. main.left = 0 /\ main.command # "CONNECT"
        BY <1>1, <2>7 DEF Single, Awaited
      <4>2. main' = AtPrompt \/ main' = [AtPrompt EXCEPT !.pc = "join"]
        BY <4>1 DEF Send
      <4>3. main'.pc \in {"prompt", "join"}
        BY <4>2, PromptFields DEF MainTypes
      <4> QED
        BY <4>3 DEF Sends
    <3>3. sent <= f.receipt /\ f.receipt < object[s].receiptCounter
      BY <2>1, <2>3, <3>1 DEF Ordered
    <3>4. object[s].receiptCounter \in Count
      BY PathTypes DEF Objects
    <3>5. PICK next \in Count : /\ next = f.receipt + 1 /\ sent <= next /\ f.receipt < next
                                /\ next <= object[s].receiptCounter /\ served <= next
      <4>1. f.receipt + 1 \in Count
        BY <3>1, <3>3, <3>4, ClientAssumption DEF Count
      <4>2. f.receipt \in Nat /\ object[s].receiptCounter \in Nat
        BY <3>1, <3>4, CountIsNat
      <4> QED
        BY <2>5, <3>3, <4>1, <4>2
    <3>6. Within(toServer'[s], served, next)
      <4>1. next \in Nat
        BY CountIsNat
      <4> QED
        BY <1>4, <2>1, <2>5, <3>3, <3>5, <4>1, PathTypes, NumberedFrames, WithinAppend
    <3>7. Ordered(s, read, served, next)'
      BY <1>1, <2>3, <3>2, <3>5, <3>6 DEF Ordered
    <3>8. Named(s, name)'
      <4>1. main.command # "DISCONNECT" =>
              main.id < object[s].idCounter /\ name[main.id] = main.channel
        BY <2>4, <3>1 DEF Named
      <4>2. f.command = "SUBSCRIBE" => f.channel = main.channel
        BY <2>1 DEF FrameOf
      <4> QED
        BY <1>1, <2>1, <2>2, <2>4, <3>2, <4>1, <4>2 DEF Named
    <3>9. Known(s, name)'
      <4>1. Stored(s, f.receipt, RequestOf)
        BY <1>1, <2>1, <2>4, <3>1 DEF Known
      <4>2. main.command # "DISCONNECT" => name[main.id] = main.channel
        BY <2>4, <3>1 DEF Named
      <4>3. Requested(f, name) = RequestOf
        BY <2>1, <4>2 DEF Requested, RequestOf, FrameOf
      <4> QED
        BY <1>1, <2>2, <2>4, <3>2, <4>1, <4>3 DEF Known, Stored, Requested
    <3> QED
      BY <2>3, <2>4, <3>5, <3>7, <3>8, <3>9 DEF Path
  <2> QED
    BY <2>6, <2>7
<1>5. toServer'[s] = toServer[s] \/ toServer'[s] = Append(toServer[s], FrameOf)
  BY PathTypes DEF Send, Transmit
<1> QED
  BY <1>3, <1>4, <1>5

(* The RECEIPT takes the number of the frame that it answers. *)
LEMMA RepliesFor ==
  ASSUME TypeInv, NEW s \in Sessions, NEW command, Receive(s, command),
         NEW frame, Replies(s, frame), NEW name, Named(s, name)
  PROVE  LET f == Head(toServer[s])
         IN  \/ frame.receipt = None
             \/ /\ frame.receipt = f.receipt /\ f.receipt # None
                /\ frame.request = Requested(f, name)
<1> DEFINE f == Head(toServer[s])
<1>1. f \in Sent /\ (f.command \in Awaited => f.receipt # None)
  BY ReceiveFacts, CountIsNat DEF Sent, WellFormed
<1>2. \A c, channel : Reply(c, channel).receipt = None
  BY DEF Reply
<1>3. \A n, c, channel : /\ Receipt(n, c, channel).receipt = n
                         /\ Receipt(n, c, channel).request = [command |-> c, channel |-> channel]
  BY DEF Receipt
<1> HIDE DEF f
<1>4. CASE /\ f.command \in {"SUBSCRIBE", "DISCONNECT"}
           /\ frame = Receipt(f.receipt, f.command,
                              IF f.command = "SUBSCRIBE" THEN f.channel ELSE None)
  <2>1. f.command = "DISCONNECT" => f.channel = None
    BY <1>1 DEF Sent
  <2>2. frame = Receipt(f.receipt, f.command, f.channel)
    BY <1>4, <2>1
  <2>3. f.command # "UNSUBSCRIBE" /\ f.receipt # None
    BY <1>1, <1>4 DEF Awaited
  <2> QED
    BY <1>3, <2>2, <2>3 DEF Requested, f
<1>5. CASE /\ f.command = "UNSUBSCRIBE" /\ f.id \in DOMAIN subscriptions[s]
           /\ frame = Receipt(f.receipt, "UNSUBSCRIBE", subscriptions[s][f.id])
  <2>1. name[f.id] = subscriptions[s][f.id] /\ f.receipt # None
    BY <1>1, <1>5 DEF Named, Awaited
  <2>2. PICK channel : channel = name[f.id]
    OBVIOUS
  <2>3. frame = Receipt(f.receipt, "UNSUBSCRIBE", channel)
    BY <1>5, <2>1, <2>2
  <2>4. Requested(f, name) = [command |-> "UNSUBSCRIBE", channel |-> channel]
    BY <1>5, <2>2 DEF Requested
  <2>5. /\ frame.receipt = f.receipt /\ f.receipt # None
        /\ frame.request = Requested(f, name)
    BY <1>3, <2>1, <2>3, <2>4
  <2> QED
    BY <2>5 DEF f
<1> QED
  BY <1>2, <1>4, <1>5 DEF Replies, f

(* Every subscription that the server then has was named for its channel. *)
SubscribedNamed(s, f, name) ==
  \A i \in DOMAIN Subscribed(subscriptions[s], f) :
    /\ i < object[s].idCounter
    /\ name[i] = Subscribed(subscriptions[s], f)[i]

LEMMA NamedSubscribed ==
  ASSUME NEW s, NEW name, Named(s, name), NEW f \in Sent, f \in Range(toServer[s])
  PROVE  SubscribedNamed(s, f, name)
<1>1. \A i \in DOMAIN subscriptions[s] :
        i < object[s].idCounter /\ name[i] = subscriptions[s][i]
  BY DEF Named
<1>2. f.command = "SUBSCRIBE" => f.id < object[s].idCounter /\ name[f.id] = f.channel
  BY DEF Named
<1>3. CASE f.command = "SUBSCRIBE"
  BY <1>1, <1>2, <1>3 DEF Subscribed, With, SubscribedNamed
<1>4. CASE f.command = "UNSUBSCRIBE"
  BY <1>1, <1>4 DEF Subscribed, Without, Restrict, SubscribedNamed
<1>5. CASE f.command = "DISCONNECT"
  BY <1>5 DEF Subscribed, Empty, SubscribedNamed
<1>6. CASE f.command \notin {"SUBSCRIBE", "UNSUBSCRIBE", "DISCONNECT"}
  BY <1>1, <1>6 DEF Subscribed, SubscribedNamed
<1> QED
  BY <1>3, <1>4, <1>5, <1>6

LEMMA PathServe ==
  ASSUME TypeInv, NEW s \in Sessions, Path(s), Serve(s)
  PROVE  Path(s)'
<1>1. PICK command :
        /\ Receive(s, command)
        /\ \/ UNCHANGED link /\ \E frame : Replies(s, frame) /\ Answer(s, frame)
           \/ /\ UNCHANGED toClient
              /\ UNCHANGED link \/ link' = [link EXCEPT ![s] = "down"]
  BY ServeIs
<1>2. PICK f, rest : f = Head(toServer[s]) /\ rest = Tail(toServer[s])
  OBVIOUS
<1>3. /\ f \in Sent /\ toServer[s] # <<>> /\ rest \in Seq(Sent)
      /\ Range(toServer[s]) = {f} \cup Range(rest)
  BY <1>1, <1>2, PathTypes, TailElements DEF Receive
<1>4. /\ toServer'[s] = rest /\ subscriptions'[s] = Subscribed(subscriptions[s], f)
      /\ object' = object /\ main' = main /\ comm' = comm
      /\ (Reads(s)' <=> Reads(s)) /\ (Sends(s)' <=> Sends(s))
  BY <1>1, <1>2, PathTypes DEF Receive, ServerSame, Reads, Sends
<1>5. PICK read, served, sent \in Count : Ordered(s, read, served, sent)
  BY DEF Path
<1>6. PICK name \in [Count -> Channels \cup {None}] : Known(s, name) /\ Named(s, name)
  BY DEF Path
<1>7. /\ read \in Nat /\ served \in Nat /\ sent \in Nat /\ read <= served
      /\ Within(toServer[s], served, sent) /\ Within(toClient[s], read, served)
  BY <1>5, CountIsNat DEF Ordered
<1>8. \/ toClient'[s] = toClient[s]
      \/ \E frame \in Answers :
           /\ toClient'[s] = Append(toClient[s], frame)
           /\ \/ frame.receipt = None
              \/ /\ frame.receipt = f.receipt /\ f.receipt # None
                 /\ frame.request = Requested(f, name)
  <2>1. CASE UNCHANGED toClient
    BY <2>1
  <2>2. ASSUME NEW frame, Replies(s, frame), Answer(s, frame)
        PROVE  /\ frame \in Answers /\ toClient'[s] = Append(toClient[s], frame)
               /\ \/ frame.receipt = None
                  \/ /\ frame.receipt = f.receipt /\ f.receipt # None
                     /\ frame.request = Requested(f, name)
    <3>1. frame \in Answers
      BY <1>1, <2>2, RepliesOK
    <3>2. toClient'[s] = Append(toClient[s], frame)
      BY <2>2, PathTypes DEF Answer
    <3> QED
      BY <1>1, <1>2, <1>6, <2>2, <3>1, <3>2, RepliesFor
  <2> QED
    BY <1>1, <2>1, <2>2
<1>9. IF f.receipt = None THEN Within(rest, served, sent)
      ELSE /\ served <= f.receipt /\ f.receipt < sent /\ f.receipt \in Nat
           /\ Within(rest, f.receipt + 1, sent)
  BY <1>2, <1>3, <1>7, PathTypes, WithinTail, NumberedFrames
<1>10. PICK next \in Count :
         /\ served <= next /\ next <= sent /\ Within(rest, next, sent)
         /\ f.receipt # None => served <= f.receipt /\ f.receipt < next
  <2>1. CASE f.receipt = None
    BY <1>5, <1>7, <1>9, <2>1 DEF Ordered
  <2>2. CASE f.receipt # None
    <3>1. /\ f.receipt + 1 \in Count /\ served <= f.receipt + 1 /\ f.receipt + 1 <= sent
          /\ f.receipt < f.receipt + 1
      BY <1>7, <1>9, <2>2, ClientAssumption DEF Count
    <3> QED
      BY <1>9, <2>2, <3>1
  <2> QED
    BY <2>1, <2>2
<1>11. next \in Nat /\ read <= next
  <2>1. \A a, b, c \in Nat : a <= b /\ b <= c => a <= c
    OBVIOUS
  <2>2. next \in Nat
    BY CountIsNat
  <2> QED
    BY <1>7, <1>10, <2>1, <2>2
<1>12. Within(toClient'[s], read, next)
  <2>1. CASE toClient'[s] = toClient[s]
    <3>1. \A x \in Nat : x < served => x < next
      BY <1>7, <1>10, <1>11
    <3> QED
      BY <1>7, <2>1, <3>1, PathTypes, NumberedFrames DEF Within, Numbered
  <2>2. ASSUME NEW frame \in Answers, toClient'[s] = Append(toClient[s], frame),
               frame.receipt = None \/ (frame.receipt = f.receipt /\ f.receipt # None)
        PROVE  Within(toClient'[s], read, next)
    <3>1. frame.receipt = None \/ (served <= frame.receipt /\ frame.receipt < next)
      BY <1>10, <2>2
    <3> QED
      BY <1>7, <1>10, <1>11, <2>2, <3>1, PathTypes, NumberedFrames, WithinAppend
  <2> QED
    BY <1>8, <2>1, <2>2
<1>13. Ordered(s, read, next, sent)'
  BY <1>4, <1>5, <1>10, <1>11, <1>12 DEF Ordered
<1>14. Known(s, name)'
  <2>1. ASSUME NEW g \in Range(toClient'[s]), g.receipt # None
        PROVE  Stored(s, g.receipt, g.request)
    <3>1. CASE g \in Range(toClient[s])
      BY <1>6, <2>1, <3>1 DEF Known
    <3>2. CASE g \notin Range(toClient[s])
      <4>1. PICK frame \in Answers :
              /\ toClient'[s] = Append(toClient[s], frame)
              /\ \/ frame.receipt = None
                 \/ /\ frame.receipt = f.receipt /\ f.receipt # None
                    /\ frame.request = Requested(f, name)
        BY <1>8, <2>1, <3>2
      <4>2. g = frame
        BY <2>1, <3>2, <4>1, PathTypes, AppendElements
      <4> QED
        BY <1>3, <1>6, <2>1, <4>1, <4>2 DEF Known
    <3> QED
      BY <3>1, <3>2
  <2> QED
    BY <1>3, <1>4, <1>6, <2>1 DEF Known, Stored, Requested, RequestOf
<1>15. Named(s, name)'
  <2>1. SubscribedNamed(s, f, name)
    BY <1>3, <1>6, NamedSubscribed
  <2> QED
    BY <1>3, <1>4, <1>6, <2>1 DEF Named, SubscribedNamed
<1> QED
  BY <1>6, <1>13, <1>14, <1>15 DEF Path

(* A handler fails: fewer numbers are on their way, and no other ones. *)
LEMMA PathFails ==
  ASSUME TypeInv, NEW s \in Sessions, Path(s), ServeFails(s)
  PROVE  Path(s)'
<1>1. PICK q, f : q = toServer[s] /\ f = Head(q)
  OBVIOUS
<1>2. /\ ServerSame /\ UNCHANGED <<link, toClient, messages>>
      /\ q \in Seq(Sent) /\ q # <<>> /\ f \in Sent
      /\ \/ subscriptions' = subscriptions
         \/ subscriptions' = [subscriptions EXCEPT ![s] = Subscribed(@, f)]
  BY <1>1, FailsIs
<1>3. PICK n \in 1..Len(q), torn \in BOOLEAN :
        /\ torn => n < Len(q)
        /\ toServer' = [toServer EXCEPT ![s] = Remains(q, n, torn)]
  BY <1>1, FailsIs
<1>4. PICK r : r = Remains(q, n, torn)
  OBVIOUS
<1>5. /\ r \in Seq(Sent) /\ DOMAIN r = 1..(Len(q) - n)
      /\ \A i \in 1..(Len(q) - n) :
           i + n \in 1..Len(q) /\ (r[i] = q[i + n] \/ r[i] = Torn)
  BY <1>2, <1>3, <1>4, RemainsOK
<1>6. /\ toServer'[s] = r
      /\ subscriptions'[s] \in {subscriptions[s], Subscribed(subscriptions[s], f)}
      /\ object' = object /\ main' = main /\ comm' = comm /\ toClient' = toClient
      /\ (Reads(s)' <=> Reads(s)) /\ (Sends(s)' <=> Sends(s))
  BY <1>2, <1>3, <1>4, PathTypes DEF ServerSame, Reads, Sends
<1>7. /\ DOMAIN q = 1..Len(q) /\ n \in Nat /\ f \in Range(q)
      /\ \A i \in 1..Len(q) : q[i] \in Range(q)
  <2>1. /\ DOMAIN q = 1..Len(q) /\ Len(q) \in Nat
        /\ \A g : g \in Range(q) <=> \E i \in 1..Len(q) : g = q[i]
    BY <1>2, RangeIn
  <2>2. Head(q) = q[1] /\ 1 \in 1..Len(q)
    BY <1>2, TailElements
  <2> QED
    BY <1>1, <1>3, <2>1, <2>2
<1>8. \A g \in Range(r) : g \in Range(q) \/ g = Torn
  <2>1. ASSUME NEW g \in Range(r) PROVE g \in Range(q) \/ g = Torn
    <3>1. PICK i \in 1..(Len(q) - n) : g = r[i]
      BY <1>5 DEF Range
    <3> QED
      BY <1>5, <1>7, <3>1
  <2> QED
    BY <2>1
<1>9. PICK read, served, sent \in Count : Ordered(s, read, served, sent)
  BY DEF Path
<1>10. Within(r, served, sent)
  <2>1. Within(q, served, sent)
    BY <1>1, <1>9 DEF Ordered
  <2>2. \A i \in DOMAIN r : r[i].receipt = None \/ (i + n \in DOMAIN q /\ r[i] = q[i + n])
    BY <1>5, <1>7, TornSent
  <2>3. q \in Seq(Sent) /\ r \in Seq(Sent) /\ n \in Nat
    BY <1>2, <1>5, <1>7
  <2> QED
    BY <2>1, <2>2, <2>3, WithinRest
<1>11. Ordered(s, read, served, sent)'
  BY <1>6, <1>9, <1>10 DEF Ordered
<1>12. PICK name \in [Count -> Channels \cup {None}] : Known(s, name) /\ Named(s, name)
  BY DEF Path
<1>13. Known(s, name)'
  <2>1. ASSUME NEW g \in Range(r), g.receipt # None
        PROVE  Stored(s, g.receipt, Requested(g, name))
    BY <1>1, <1>8, <1>12, <2>1, TornSent DEF Known
  <2> QED
    BY <1>6, <1>12, <2>1 DEF Known, Stored, Requested, RequestOf
<1>14. Named(s, name)'
  <2>1. SubscribedNamed(s, f, name)
    BY <1>1, <1>2, <1>7, <1>12, NamedSubscribed
  <2>2. ASSUME NEW i \in DOMAIN subscriptions'[s]
        PROVE  i < object[s].idCounter /\ name[i] = subscriptions'[s][i]
    BY <1>6, <1>12, <2>1, <2>2 DEF Named, SubscribedNamed
  <2>3. ASSUME NEW g \in Range(r)
        PROVE  /\ g.command = "SUBSCRIBE"
                    => g.id < object[s].idCounter /\ name[g.id] = g.channel
               /\ g.command = "UNSUBSCRIBE" => g.id < object[s].idCounter
    BY <1>1, <1>8, <1>12, <2>3, TornSent DEF Named
  <2> QED
    BY <1>6, <1>12, <2>2, <2>3 DEF Named
<1> QED
  BY <1>11, <1>12, <1>13, <1>14 DEF Path

LEMMA PathServed ==
  ASSUME TypeInv, NEW s \in Sessions, Path(s), ServerStep(s)
  PROVE  Path(s)'
BY PathServe, PathFails DEF ServerStep

LEMMA PathOthers ==
  ASSUME TypeInv, NEW s \in Sessions, Path(s), ServerPublishes(s) \/ LinkLost(s)
  PROVE  Path(s)'
<1>1. /\ toServer' = toServer /\ subscriptions' = subscriptions
      /\ object' = object /\ main' = main /\ comm' = comm
      /\ (Reads(s)' <=> Reads(s)) /\ (Sends(s)' <=> Sends(s))
  BY DEF ServerPublishes, LinkLost, ServerSame, Reads, Sends
<1>2. PICK read, served, sent \in Count : Ordered(s, read, served, sent)
  BY DEF Path
<1>3. PICK name \in [Count -> Channels \cup {None}] : Known(s, name) /\ Named(s, name)
  BY DEF Path
<1>4. /\ read \in Nat /\ served \in Nat /\ read <= served /\ served <= served
      /\ Within(toClient[s], read, served)
  BY <1>2, CountIsNat DEF Ordered
<1>5. /\ Within(toClient'[s], read, served)
      /\ \A f \in Range(toClient'[s]) : f.receipt # None => f \in Range(toClient[s])
  <2>1. ASSUME NEW n \in 0..Len(toClient[s]), toClient'[s] = SubSeq(toClient[s], 1, n)
        PROVE  Within(toClient'[s], read, served)
               /\ Range(toClient'[s]) \subseteq Range(toClient[s])
    BY <1>4, <2>1, PathTypes, WithinPrefix, PrefixElements
  <2>2. ASSUME NEW channel \in Range(subscriptions[s]),
               toClient'[s] = Append(toClient[s], Reply("MESSAGE", channel))
        PROVE  /\ Within(toClient'[s], read, served)
               /\ \A f \in Range(toClient'[s]) : f.receipt # None => f \in Range(toClient[s])
    <3>1. channel \in Channels
      BY PathTypes, MapFacts DEF PartialFunction, Range
    <3>2. PICK frame \in Answers : frame = Reply("MESSAGE", channel) /\ frame.receipt = None
      BY <3>1, AnswerForms DEF Reply
    <3>3. Range(toClient'[s]) = Range(toClient[s]) \cup {frame}
      BY <2>2, <3>2, PathTypes, AppendElements
    <3>4. Within(toClient'[s], read, served)
      BY <1>4, <2>2, <3>2, PathTypes, NumberedFrames, WithinAppend
    <3> QED
      BY <3>2, <3>3, <3>4
  <2>3. \/ \E n \in 0..Len(toClient[s]) : toClient'[s] = SubSeq(toClient[s], 1, n)
        \/ \E channel \in Range(subscriptions[s]) :
             toClient'[s] = Append(toClient[s], Reply("MESSAGE", channel))
    BY PathTypes DEF ServerPublishes, LinkLost, Answer
  <2> QED
    BY <2>1, <2>2, <2>3
<1>6. Ordered(s, read, served, sent)'
  BY <1>1, <1>2, <1>5 DEF Ordered
<1>7. Known(s, name)' /\ Named(s, name)'
  BY <1>1, <1>3, <1>5 DEF Known, Named, Stored, Requested, RequestOf
<1> QED
  BY <1>2, <1>3, <1>6, <1>7 DEF Path

LEMMA ReceiptNext ==
  ASSUME TypeInv, LifeInv, Single, Reading, ReceiptInv, [Next]_vars
  PROVE  ReceiptInv'
<1> SUFFICES ASSUME NEW s \in Sessions PROVE Fresh(s)' /\ Path(s)'
  BY DEF ReceiptInv, Sessions
<1>1. Fresh(s) /\ Path(s)
  BY DEF ReceiptInv
<1>2. Fresh(s)'
  BY <1>1, FreshNext
<1>3. ASSUME protocol = s, ParseFrame PROVE Path(s)'
  <2>1. comm.handler = s \/ DOMAIN object[s].receiptMap = {}
    BY <1>3, ParsesOwn DEF ReceiptInv
  <2> QED
    BY <1>1, <1>3, <2>1, PathParse
<1> QED
  BY <1>1, <1>2, <1>3, PathSteps, PathSame, PathIssue, PathStore, PathSend, PathRead,
     PathServed, PathOthers

(***************************************************************************)
(* A number is given to a request, then the request is stored, sent,       *)
(* answered and read, while the main thread already goes on: the inductive *)
(* invariant about all that is on its way between these steps.             *)
(***************************************************************************)
THEOREM RequestsOnTheWay == Spec => [](Single /\ Reading /\ ReceiptInv)
<1>1. Init => Single /\ Reading /\ ReceiptInv
  <2>1. Init => Single /\ Reading
    BY DEF Init, Single, Reading, AtPrompt, NoThread
  <2> QED
    BY <2>1, ReceiptInit
<1>2. /\ TypeInv /\ LifeInv
      /\ Single /\ Reading /\ ReceiptInv
      /\ [Next]_vars
      => Single' /\ Reading' /\ ReceiptInv'
  BY SingleNext, ReadingNext, ReceiptNext
<1> QED
  BY <1>1, <1>2, ClientInvariant, PTL DEF Spec

(***************************************************************************)
(* A RECEIPT that arrives finds its request in receiptMap, for any number  *)
(* of sessions, commands and channels and whatever the two threads do in   *)
(* between: its number was stored before the frame was sent, was given to  *)
(* no other request, and is erased only by this RECEIPT.                   *)
(***************************************************************************)
THEOREM ReceiptsFindTheirRequests == Spec => []ReceiptsMatch
<1>1. ASSUME TypeInv, ReceiptInv PROVE ReceiptsMatch
  <2> SUFFICES ASSUME NEW s \in protocols,
                      NEW f \in Range(toClient[s]) \cup
                        (IF comm.handler = s /\ comm.frame # None THEN {comm.frame} ELSE {}),
                      f.command = "RECEIPT"
               PROVE  /\ f.receipt \in DOMAIN object[s].receiptMap
                      /\ object[s].receiptMap[f.receipt] = f.request
    BY DEF ReceiptsMatch
  <2>1. s \in Sessions
    BY <1>1, SessionFacts
  <2>2. PICK name : Known(s, name)
    BY <1>1, <2>1 DEF ReceiptInv, Path
  <2>3. CASE f \in Range(toClient[s])
    <3>1. f.receipt # None
      BY <1>1, <2>1, <2>3, PathTypes, CountIsNat DEF Answers
    <3> QED
      BY <2>2, <2>3, <3>1 DEF Known, Stored
  <2>4. CASE comm.handler = s /\ comm.frame # None /\ f = comm.frame
    <3>1. Reads(s) /\ f \in Answers
      BY <1>1, <2>4 DEF TypeInv, CommInv, Reads
    <3>2. f.receipt # None
      BY <3>1, CountIsNat DEF Answers
    <3> QED
      BY <2>2, <2>4, <3>1, <3>2 DEF Known, Stored
  <2> QED
    BY <2>3, <2>4
<1> QED
  BY <1>1, ClientInvariant, RequestsOnTheWay, PTL

-----------------------------------------------------------------------------
(* What the server will have *)

(* No frame after the n-th is about id i. *)
Last(q, n, i) == \A k \in DOMAIN q : k > n => ~About(q[k], i)

Enters(f, i, channel) == f.command = "SUBSCRIBE" /\ f.id = i /\ f.channel = channel

Has(subs, i, channel) == i \in DOMAIN subs /\ subs[i] = channel

LEMMA WillHaveIs ==
  ASSUME NEW subs, NEW q, NEW i, NEW channel
  PROVE  WillHave(subs, q, i, channel) <=>
           \/ Has(subs, i, channel) /\ Last(q, 0, i)
           \/ \E n \in DOMAIN q : Enters(q[n], i, channel) /\ Last(q, n, i)
BY DEF WillHave, Last, Enters, Has

LEMMA WillHaveAppend ==
  ASSUME NEW subs, NEW q \in Seq(Sent), NEW f \in Sent, NEW i, NEW channel
  PROVE  WillHave(subs, Append(q, f), i, channel) <=>
           Enters(f, i, channel) \/ (~About(f, i) /\ WillHave(subs, q, i, channel))
<1> DEFINE r == Append(q, f)
<1>1. /\ DOMAIN r = 1..(Len(q) + 1) /\ r[Len(q) + 1] = f
      /\ \A k \in 1..Len(q) : r[k] = q[k]
  BY AppendElements
<1>2. DOMAIN q = 1..Len(q) /\ Len(q) \in Nat
  BY RangeIn
<1>3. PICK m \in Nat : m = Len(q)
  BY <1>2
<1> HIDE DEF r
<1>4. ASSUME NEW n \in Nat, n <= m
      PROVE  Last(r, n, i) <=> Last(q, n, i) /\ ~About(f, i)
  <2>1. ASSUME Last(r, n, i) PROVE Last(q, n, i) /\ ~About(f, i)
    <3>1. m + 1 > n /\ m + 1 \in DOMAIN r
      BY <1>1, <1>3, <1>4
    <3>2. \A k \in 1..m : k \in 1..(m + 1)
      BY <1>3
    <3> QED
      BY <1>1, <1>2, <1>3, <2>1, <3>1, <3>2 DEF Last
  <2>2. ASSUME Last(q, n, i), ~About(f, i), NEW k \in DOMAIN r, k > n
        PROVE  ~About(r[k], i)
    <3>1. k \in 1..m \/ k = m + 1
      BY <1>1, <1>3
    <3> QED
      BY <1>1, <1>2, <1>3, <2>2, <3>1 DEF Last
  <2> QED
    BY <2>1, <2>2 DEF Last
<1>5. Last(r, m + 1, i)
  <2>1. \A k \in 1..(m + 1) : ~(k > m + 1)
    BY <1>3
  <2> QED
    BY <1>1, <1>3, <2>1 DEF Last
<1>6. Enters(f, i, channel) => About(f, i)
  BY DEF Enters, About
<1>7. (\E n \in DOMAIN r : Enters(r[n], i, channel) /\ Last(r, n, i)) <=>
        \/ Enters(f, i, channel)
        \/ \E n \in DOMAIN q : Enters(q[n], i, channel) /\ Last(q, n, i) /\ ~About(f, i)
  <2>1. ASSUME NEW n \in DOMAIN r, Enters(r[n], i, channel), Last(r, n, i)
        PROVE  \/ Enters(f, i, channel)
               \/ \E k \in DOMAIN q : Enters(q[k], i, channel) /\ Last(q, k, i) /\ ~About(f, i)
    <3>1. n = m + 1 \/ (n \in 1..m /\ n \in Nat /\ n <= m)
      BY <1>1, <1>3
    <3> QED
      BY <1>1, <1>2, <1>3, <1>4, <2>1, <3>1
  <2>2. ASSUME Enters(f, i, channel)
        PROVE  \E n \in DOMAIN r : Enters(r[n], i, channel) /\ Last(r, n, i)
    <3>1. m + 1 \in DOMAIN r /\ r[m + 1] = f
      BY <1>1, <1>3
    <3> QED
      BY <1>5, <2>2, <3>1
  <2>3. ASSUME NEW n \in DOMAIN q, Enters(q[n], i, channel), Last(q, n, i), ~About(f, i)
        PROVE  \E k \in DOMAIN r : Enters(r[k], i, channel) /\ Last(r, k, i)
    <3>1. n \in Nat /\ n <= m /\ n \in DOMAIN r /\ r[n] = q[n]
      BY <1>1, <1>2, <1>3
    <3> QED
      BY <1>4, <2>3, <3>1
  <2> QED
    BY <2>1, <2>2, <2>3
<1>8. Last(r, 0, i) <=> Last(q, 0, i) /\ ~About(f, i)
  BY <1>3, <1>4
<1>9. WillHave(subs, r, i, channel) <=>
        Enters(f, i, channel) \/ (~About(f, i) /\ WillHave(subs, q, i, channel))
  BY <1>6, <1>7, <1>8, WillHaveIs
<1> QED
  BY <1>9 DEF r

(* When the first frame is served, what will be had stays the same. *)
LEMMA WillHaveServed ==
  ASSUME NEW subs \in Maps(Count, Channels), NEW q \in Seq(Sent), q # <<>>,
         NEW i, NEW channel
  PROVE  WillHave(subs, q, i, channel) <=>
           WillHave(Subscribed(subs, Head(q)), Tail(q), i, channel)
<1> DEFINE f == Head(q)
           r == Tail(q)
           new == Subscribed(subs, f)
<1>1. /\ DOMAIN r = 1..Len(r) /\ Len(q) = Len(r) + 1 /\ Len(r) \in Nat
      /\ \A k \in 1..Len(r) : k + 1 \in 1..Len(q) /\ r[k] = q[k + 1]
      /\ f = q[1] /\ 1 \in 1..Len(q)
  BY TailElements
<1>2. DOMAIN q = 1..Len(q) /\ f \in Sent
  BY RangeIn, TailElements
<1>3. PICK m \in Nat : m = Len(r) /\ m + 1 = Len(q)
  BY <1>1
<1> HIDE DEF r, f
<1>4. ASSUME NEW k \in DOMAIN q PROVE k = 1 \/ \E j \in DOMAIN r : k = j + 1 /\ q[k] = r[j]
  <2>1. CASE k # 1
    <3>1. k - 1 \in 1..m /\ k = (k - 1) + 1
      BY <1>2, <1>3, <2>1
    <3>2. PICK j \in 1..m : k = j + 1
      BY <3>1, Zenon
    <3> QED
      BY <1>1, <1>3, <3>2
  <2> QED
    BY <2>1
<1>5. ASSUME NEW n \in Nat PROVE Last(r, n, i) <=> Last(q, n + 1, i)
  <2>1. ASSUME Last(q, n + 1, i), NEW j \in DOMAIN r, j > n PROVE ~About(r[j], i)
    <3>1. j + 1 \in DOMAIN q /\ j + 1 > n + 1 /\ q[j + 1] = r[j]
      BY <1>1, <1>2, <2>1
    <3> QED
      BY <2>1, <3>1 DEF Last
  <2>2. ASSUME Last(r, n, i), NEW k \in DOMAIN q, k > n + 1 PROVE ~About(q[k], i)
    <3>1. PICK j \in DOMAIN r : k = j + 1 /\ q[k] = r[j]
      BY <1>4, <2>2
    <3>2. j > n
      BY <1>1, <2>2, <3>1
    <3> QED
      BY <2>2, <3>1, <3>2 DEF Last
  <2> QED
    BY <2>1, <2>2 DEF Last
<1>6. Last(r, 0, i) <=> Last(q, 1, i)
  BY <1>5
<1>7. Last(q, 0, i) <=> ~About(f, i) /\ Last(q, 1, i)
  <2>1. ASSUME Last(q, 0, i) PROVE ~About(f, i) /\ Last(q, 1, i)
    BY <1>1, <1>2, <2>1 DEF Last
  <2>2. ASSUME ~About(f, i), Last(q, 1, i), NEW k \in DOMAIN q PROVE ~About(q[k], i)
    <3>1. k = 1 \/ k > 1
      BY <1>2
    <3> QED
      BY <1>1, <2>2, <3>1 DEF Last
  <2> QED
    BY <2>1, <2>2 DEF Last
<1>8. (\E n \in DOMAIN q : Enters(q[n], i, channel) /\ Last(q, n, i)) <=>
        \/ Enters(f, i, channel) /\ Last(q, 1, i)
        \/ \E n \in DOMAIN r : Enters(r[n], i, channel) /\ Last(r, n, i)
  <2>1. ASSUME NEW n \in DOMAIN q, Enters(q[n], i, channel), Last(q, n, i)
        PROVE  \/ Enters(f, i, channel) /\ Last(q, 1, i)
               \/ \E j \in DOMAIN r : Enters(r[j], i, channel) /\ Last(r, j, i)
    <3>1. CASE n = 1
      BY <1>1, <2>1, <3>1
    <3>2. ASSUME NEW j \in DOMAIN r, n = j + 1, q[n] = r[j]
          PROVE  Enters(r[j], i, channel) /\ Last(r, j, i)
      <4>1. j \in Nat
        BY <1>1
      <4> QED
        BY <1>5, <2>1, <3>2, <4>1
    <3> QED
      BY <1>4, <3>1, <3>2
  <2>2. ASSUME NEW j \in DOMAIN r, Enters(r[j], i, channel), Last(r, j, i)
        PROVE  \E n \in DOMAIN q : Enters(q[n], i, channel) /\ Last(q, n, i)
    <3>1. j \in Nat /\ j + 1 \in DOMAIN q /\ q[j + 1] = r[j]
      BY <1>1, <1>2
    <3> QED
      BY <1>5, <2>2, <3>1
  <2>3. 1 \in DOMAIN q /\ q[1] = f
    BY <1>1, <1>2
  <2> QED
    BY <2>1, <2>2, <2>3
<1>9. Has(new, i, channel) <=> Enters(f, i, channel) \/ (~About(f, i) /\ Has(subs, i, channel))
  BY <1>2 DEF Subscribed, With, Without, Restrict, Empty, Has, Enters, About
<1> HIDE DEF new
<1>10. WillHave(subs, q, i, channel) <=> WillHave(new, r, i, channel)
  BY <1>6, <1>7, <1>8, <1>9, WillHaveIs
<1> QED
  BY <1>10 DEF new, f, r

-----------------------------------------------------------------------------
(* What the client takes for its subscriptions *)

LEMMA ConnectedNext ==
  ASSUME TypeInv, Connected, [Next]_vars
  PROVE  Connected'
<1> SUFFICES ASSUME main'.pc \in {"store", "send"}, main'.command # "CONNECT",
                    protocol' \in protocols'
             PROVE  object'[protocol'].connected
  BY DEF Connected
<1>1. /\ main \in MainTypes /\ protocols \subseteq Sessions /\ object \in [Sessions -> Objects]
      /\ (LoggingIn => main.command = "CONNECT") /\ 0 \notin protocols'
  <2>1. protocols' \subseteq 1..logins'
    BY TypeNext DEF TypeInv, SharedInv
  <2> QED
    BY <2>1, SessionFacts DEF TypeInv, MainInv, SharedInv
<1>2. ASSUME UNCHANGED <<main, object>>, protocol' \in {protocol, 0},
             protocols' \subseteq protocols
      PROVE  object'[protocol'].connected
  BY <1>1, <1>2 DEF Connected
<1>3. CASE User
  <2>1. ASSUME NEW command, NEW channel, ReadCommand(command, channel) PROVE FALSE
    <3>1. main'.pc \in {"prompt", "check", "newHandler"}
      BY <2>1, PromptFields DEF ReadCommand, MainTypes
    <3> QED
      BY <3>1
  <2> QED
    BY <1>2, <1>3, <2>1 DEF User, ReadBlankLine, CommSame
<1>4. main' # AtPrompt
  BY PromptFields
<1>5. ~(Refuse \/ Summarize \/ JoinCommunicator \/ ConnectFails)
  BY <1>4 DEF Refuse, Summarize, JoinCommunicator, ConnectFails
<1>6. ~(LoginAgain \/ SummaryOf \/ NewConnectionHandler \/ NewStompProtocol)
  BY <1>1 DEF LoginAgain, SummaryOf, NewConnectionHandler, NewStompProtocol, MainTypes
<1>7. ~Connect
  BY <1>1 DEF Connect, MainTypes, LoggingIn
<1>8. CASE Join \/ Exit \/ Logout
  <2>1. /\ protocol \in protocols /\ protocol' = protocol /\ object[protocol].connected
        /\ object[protocol] \in Objects
    BY <1>1, <1>8 DEF Join, Exit, Logout, Checks, Change, OnlyMain
  <2>2. object'[protocol].connected = object[protocol].connected
    <3>1. CASE Join
      BY <1>1, <2>1, <3>1 DEF Join, Change, OnlyMain, Objects
    <3>2. CASE Exit
      BY <1>1, <2>1, <3>2 DEF Exit, Change, OnlyMain, Objects
    <3>3. CASE Logout
      BY <1>1, <2>1, <3>3 DEF Logout, Change, OnlyMain, Objects
    <3> QED
      BY <1>8, <3>1, <3>2, <3>3
  <2> QED
    BY <2>1, <2>2
<1>9. CASE Report
  BY <1>9 DEF Report, Checks, OnlyMain
<1>10. CASE StoreReceipt
  <2>1. /\ main.pc = "store" /\ protocol \in protocols /\ protocol' = protocol
        /\ main.command = main'.command
    BY <1>1, <1>10 DEF StoreReceipt, MainTypes
  <2>2. object'[protocol].connected = object[protocol].connected
    BY <1>1, <1>10, <2>1 DEF StoreReceipt, Objects
  <2> QED
    BY <2>1, <2>2 DEF Connected
<1>11. CASE Send
  <2>1. /\ main.pc = "send" /\ protocol \in protocols /\ protocol' = protocol
        /\ object' = object
    BY <1>11 DEF Send
  <2>2. main.command # "CONNECT"
    BY <1>1, <1>11 DEF Send, MainTypes
  <2> QED
    BY <2>1, <2>2 DEF Connected
<1>12. CASE StartCommunicator
  BY <1>2, <1>4, <1>12 DEF StartCommunicator
<1>13. CASE CommunicatorStep
  <2>1. main' = main /\ protocols' \subseteq protocols /\ protocol' = protocol
    BY <1>1, <1>13, CommunicatorMoves
  <2>2. CASE UNCHANGED object
    BY <1>2, <2>1, <2>2
  <2>3. CASE LoseConnection \/ ParseFrame
    BY <2>1, <2>3, CommunicatorObject DEF Connected
  <2> QED
    BY <1>13, <2>2, <2>3 DEF CommunicatorStep, MainSame, TestStop, EnterRead, ReadFrame,
       ReadFails, CloseHandler, NullHandler, DeleteProtocol, EndCommunicate
<1>14. CASE Undefined \/ UNCHANGED vars
  BY <1>2, <1>14 DEF Undefined, vars
<1>15. CASE \E t \in Sessions : ServerStep(t) \/ ServerPublishes(t) \/ LinkLost(t)
  <2>1. ServerSame
    BY <1>15, ServerStepSame
  <2> QED
    BY <1>2, <2>1 DEF ServerSame
<1> QED
  BY <1>3, <1>5, <1>6, <1>7, <1>8, <1>9, <1>10, <1>11, <1>12, <1>13, <1>14, <1>15
  DEF Next, MainStep

(* A request that is to be sent is left only when it is stored or sent. *)
LEMMA SendsStays ==
  ASSUME TypeInv, LifeInv, [Next]_vars, NEW s \in protocols, Sends(s)
  PROVE  StoreReceipt \/ Send \/ UNCHANGED <<main, protocol>>
<1>1. /\ main \in MainTypes /\ "CONNECT" \notin Awaited /\ protocol = s
      /\ main.pc \in {"store", "send"} /\ main.command \in Awaited /\ Using
  BY DEF TypeInv, MainInv, Awaited, Sends, Using, LoggingIn
<1>2. CASE User
  BY <1>1, <1>2 DEF User, ReadCommand, ReadBlankLine
<1>3. CASE MainStep
  BY <1>1, <1>3 DEF MainStep, Refuse, LoginAgain, Join, Exit, Report, SummaryOf, Logout,
     Checks, Summarize, JoinCommunicator, NewConnectionHandler, NewStompProtocol, Connect,
     ConnectFails, StartCommunicator
<1>4. CASE CommunicatorStep
  <2>1. ~EndCommunicate
    <3>1. ASSUME EndCommunicate PROVE protocols = {} \/ protocol \notin protocols
      BY <1>1, <3>1 DEF EndCommunicate, At, LifeInv, Forked, Orderly, Serves
    <3> QED
      BY <1>1, <3>1
  <2> QED
    BY <1>4, <2>1 DEF CommunicatorStep, MainSame, TestStop, EnterRead, ReadFrame, ReadFails,
       LoseConnection, ParseFrame, CloseHandler, NullHandler, DeleteProtocol
<1>5. CASE Undefined \/ UNCHANGED vars
  BY <1>5 DEF Undefined, vars
<1>6. CASE \E t \in Sessions : ServerStep(t) \/ ServerPublishes(t) \/ LinkLost(t)
  <2>1. ServerSame
    BY <1>6, ServerStepSame
  <2> QED
    BY <2>1 DEF ServerSame
<1> QED
  BY <1>2, <1>3, <1>4, <1>5, <1>6 DEF Next

(* After a logout nothing is allocated when the user may type again. *)
LEMMA PartingSteps ==
  ASSUME TypeInv, LifeInv, [Next]_vars, Parting, ~Parting'
  PROVE  protocols' = {}
<1>1. main \in MainTypes
  BY DEF TypeInv, MainInv
<1>2. ASSUME UNCHANGED main PROVE FALSE
  BY <1>2 DEF Parting
<1>3. CASE User
  BY <1>2, <1>3 DEF User, ReadCommand, ReadBlankLine, Parting
<1>4. CASE JoinCommunicator
  <2>1. Running /\ main.pc = "join" /\ comm.pc = "ended" /\ protocols' = protocols
    BY <1>4 DEF JoinCommunicator
  <2>2. Orderly
    BY <2>1 DEF LifeInv, Forked, Using, LoggingIn
  <2> QED
    BY <2>1, <2>2 DEF Orderly, Serves
<1>5. ~StoreReceipt
  <2>1. ASSUME StoreReceipt PROVE main'.pc = "send" /\ main'.command = main.command
    BY <1>1, <2>1 DEF StoreReceipt, MainTypes
  <2> QED
    BY <2>1 DEF StoreReceipt, Parting
<1>6. ~Send
  <2>1. ASSUME Send PROVE main'.pc = "join"
    BY <2>1, PromptFields DEF Send, Parting, MainTypes
  <2> QED
    BY <2>1 DEF Parting
<1>7. CASE MainStep
  BY <1>4, <1>5, <1>6, <1>7 DEF MainStep, Parting, Refuse, LoginAgain, Join, Exit, Report,
     SummaryOf, Logout, Checks, Summarize, NewConnectionHandler, NewStompProtocol, Connect,
     ConnectFails, StartCommunicator
<1>8. ~CommunicatorStep
  BY <1>2, CommunicatorMoves
<1>9. ~(Undefined \/ UNCHANGED vars)
  BY <1>2 DEF Undefined, vars
<1>10. ~(\E t \in Sessions : ServerStep(t) \/ ServerPublishes(t) \/ LinkLost(t))
  <2>1. ASSUME NEW t \in Sessions, ServerStep(t) \/ ServerPublishes(t) \/ LinkLost(t)
        PROVE  ServerSame
    BY <2>1, ServerStepSame
  <2> QED
    BY <1>2, <2>1 DEF ServerSame
<1> QED
  BY <1>3, <1>4, <1>7, <1>8, <1>9, <1>10 DEF Next

(* A session begins to count when it is connected. *)
LEMMA AgreeBegins ==
  ASSUME TypeInv, LifeInv, [Next]_vars, NEW s \in Sessions, Fresh(s),
         s \notin protocols \/ link[s] # "up", s \in protocols', link'[s] = "up"
  PROVE  Agree(s)'
<1>1. /\ main \in MainTypes /\ comm \in CommTypes /\ s # 0
      /\ (LoggingIn => main.command = "CONNECT") /\ link \in [Sessions -> {"none", "up", "down"}]
      /\ protocol <= logins /\ logins \in Nat /\ protocol \in Nat
  BY ClientAssumption DEF TypeInv, MainInv, CommInv, SharedInv, NetworkInv, Sessions
<1>2. ASSUME NewStompProtocol, s = logins PROVE FALSE
  <2>1. Unconnected(s) /\ link' = link
    BY <1>2 DEF NewStompProtocol, Unconnected
  <2> QED
    BY <2>1 DEF Fresh
<1>3. s \in protocols \/ (NewStompProtocol /\ s = logins)
  <2>1. CASE NewStompProtocol
    BY <2>1 DEF NewStompProtocol
  <2>2. CASE CommunicatorStep
    BY <2>2, CommunicatorMoves
  <2>3. CASE \E t \in Sessions : ServerStep(t) \/ ServerPublishes(t) \/ LinkLost(t)
    <3>1. ServerSame
      BY <2>3, ServerStepSame
    <3> QED
      BY <3>1 DEF ServerSame
  <2>4. CASE MainStep /\ ~NewStompProtocol
    BY <2>4 DEF MainStep, OnlyMain, Change, CommSame, Refuse, LoginAgain, Join, Exit, Report,
       SummaryOf, Logout, Summarize, StoreReceipt, Send, JoinCommunicator,
       NewConnectionHandler, Connect, ConnectFails, StartCommunicator
  <2>5. CASE User \/ Undefined \/ UNCHANGED vars
    BY <2>5 DEF User, ReadCommand, ReadBlankLine, Undefined, vars
  <2> QED
    BY <2>1, <2>2, <2>3, <2>4, <2>5 DEF Next
<1>4. link[s] # "up"
  BY <1>2, <1>3
<1>5. Connect /\ connectionHandler = s
  BY <1>1, <1>4, ConnectionSteps DEF ReadFrame
<1>6. s = logins
  BY <1>1, <1>5 DEF Connect, LifeInv, LoginAlone, LoginBeside, Using, LoggingIn
<1>7. /\ toServer[s] = <<>> /\ DOMAIN subscriptions[s] = {}
      /\ DOMAIN object[s].subscriptionIds = {}
  BY <1>5, <1>6 DEF Connect, Fresh, Unconnected, Unused, Using, LoggingIn
<1>8. /\ toServer' = toServer /\ subscriptions' = subscriptions /\ object' = object
      /\ ~Sends(s)'
  <2>1. main'.command = "CONNECT"
    BY <1>1, <1>5 DEF Connect, MainTypes, LoggingIn
  <2> QED
    BY <1>5, <2>1 DEF Connect, CommSame, Sends, Awaited
<1>9. Pending(s)' = <<>> /\ DOMAIN <<>> = {}
  BY <1>7, <1>8 DEF Pending
<1> QED
  BY <1>7, <1>8, <1>9 DEF Agree, WillHave

LEMMA AgreeSame ==
  ASSUME NEW s, Agree(s), object'[s].subscriptionIds = object[s].subscriptionIds,
         subscriptions'[s] = subscriptions[s], Pending(s)' = Pending(s)
  PROVE  Agree(s)'
BY DEF Agree

LEMMA AgreeSend ==
  ASSUME TypeInv, Single, Connected, NEW s \in protocols, Agree(s), link[s] = "up",
         protocol = s, Send
  PROVE  Agree(s)'
<1>1. /\ main.pc = "send" /\ object' = object /\ subscriptions' = subscriptions
      /\ protocol' = protocol
  BY DEF Send, CommSame
<1>2. /\ s \in Sessions /\ main \in MainTypes
      /\ main.command \in Awaited \cup {"CONNECT", "SEND", "torn"}
      /\ (main.command # "CONNECT" => object[s].connected)
  <2>1. s \in Sessions
    BY SessionFacts
  <2>2. main \in MainTypes /\ WellFormed(main)
    BY <1>1 DEF TypeInv, MainInv
  <2>3. main.command # "CONNECT" => object[s].connected
    BY <1>1 DEF Connected
  <2> QED
    BY <2>1, <2>2, <2>3 DEF WellFormed, Commands, Awaited
<1>3. PICK f \in Sent : f = FrameOf /\ f.command = main.command
  BY <1>1, FrameSent
<1>4. toServer'[s] = Append(toServer[s], f)
  BY <1>2, <1>3, PathTypes DEF Send, Transmit
<1>5. CASE main.command \in Awaited
  <2>1. Sends(s)
    BY <1>1, <1>5 DEF Sends
  <2>2. ~Sends(s)'
    <3>1. main.left = 0 /\ main.command # "CONNECT"
      BY <1>1, <1>5 DEF Single, Awaited
    <3>2. main' = AtPrompt \/ main' = [AtPrompt EXCEPT !.pc = "join"]
      BY <3>1 DEF Send
    <3>3. main'.pc \in {"prompt", "join"}
      BY <3>2, PromptFields DEF MainTypes
    <3> QED
      BY <3>3 DEF Sends
  <2>3. Pending(s)' = Pending(s)
    BY <1>3, <1>4, <2>1, <2>2 DEF Pending
  <2> QED
    BY <1>1, <2>3, AgreeSame
<1>6. CASE main.command \in {"CONNECT", "SEND", "torn"}
  <2>1. ~Sends(s)
    BY <1>6 DEF Sends, Awaited
  <2>2. ~Sends(s)'
    <3>1. main'.pc = "send" => main'.command = main.command
      BY <1>2, PromptFields DEF Send, MainTypes
    <3>2. main'.pc # "store"
      BY <1>1, <1>2, PromptFields DEF Send, MainTypes
    <3> QED
      BY <1>6, <3>1, <3>2 DEF Sends, Awaited
  <2>3. Pending(s) = toServer[s] /\ Pending(s)' = Append(toServer[s], f)
    BY <1>4, <2>1, <2>2 DEF Pending
  <2>4. \A i, channel : ~Enters(f, i, channel) /\ ~About(f, i)
    BY <1>3, <1>6 DEF Enters, About
  <2>5. \A i, channel : WillHave(subscriptions[s], Append(toServer[s], f), i, channel)
                          <=> WillHave(subscriptions[s], toServer[s], i, channel)
    BY <1>2, <2>4, PathTypes, WillHaveAppend
  <2> QED
    BY <1>1, <2>3, <2>5 DEF Agree
<1> QED
  BY <1>2, <1>5, <1>6

LEMMA AgreeIssue ==
  ASSUME TypeInv, NEW s \in Sessions, Path(s), Agree(s), protocol = s,
         Join \/ Exit \/ Logout, ~Parting'
  PROVE  Agree(s)'
<1> DEFINE p == object[s]
           mine == p.subscriptionIds
           subs == subscriptions[s]
<1>1. main.pc = "check" /\ ~Sends(s) /\ main.receipt = None /\ main.id = None
  BY DEF Join, Exit, Logout, Checks, Sends, TypeInv, MainInv
<1>2. /\ PartialFunction(mine, Channels, Count) /\ p.idCounter \in Count
      /\ p.idCounter \in Nat /\ p.receiptCounter \in Count
  BY PathTypes, MapFacts DEF Objects
<1>3. PICK name : Named(s, name)
  BY DEF Path
<1>4. \A i \in Count, channel \in Channels :
        WillHave(subs, toServer[s], i, channel) <=> channel \in DOMAIN mine /\ mine[channel] = i
  BY <1>1 DEF Agree, Pending
<1>5. CASE Same(s)
  <2>1. ~Sends(s)'
    BY <1>1, <1>5 DEF Same
  <2> QED
    BY <1>1, <1>5, <2>1, AgreeSame DEF Same, Pending
<1>6. CASE ~Same(s) /\ Issues(s) /\ main'.pc = "store" /\ main'.command \in Awaited
  <2>1. Sends(s)' /\ toServer'[s] = toServer[s] /\ subscriptions'[s] = subs
    BY <1>6 DEF Issues, Sends
  <2>2. Pending(s)' = Append(toServer[s], FrameOf')
    BY <2>1 DEF Pending
  <2>3. ASSUME NEW f \in Sent, f = FrameOf', NEW i, NEW channel
        PROVE  WillHave(subs, Pending(s)', i, channel) <=>
                 Enters(f, i, channel) \/ (~About(f, i) /\ WillHave(subs, toServer[s], i, channel))
    BY <2>2, <2>3, PathTypes, WillHaveAppend
  <2>4. CASE /\ main.command = "SUBSCRIBE" /\ main.channel \in Channels
             /\ main.channel \notin DOMAIN mine /\ main'.id = p.idCounter
             /\ object'[s].subscriptionIds = With(mine, main.channel, p.idCounter)
    <3>1. PICK f \in Sent : /\ f = FrameOf' /\ f.command = "SUBSCRIBE"
                            /\ f.id = p.idCounter /\ f.channel = main.channel
      <4> DEFINE f == [command |-> "SUBSCRIBE", id |-> p.idCounter,
                       receipt |-> p.receiptCounter, channel |-> main.channel]
      <4>1. f = FrameOf'
        BY <1>6, <2>4 DEF FrameOf, Issues
      <4>2. f \in Sent
        BY <1>2, <2>4 DEF Sent, ClientFrame, WellFormed, Awaited, Commands
      <4> QED
        BY <4>1, <4>2
    <3>2. \A channel \in DOMAIN mine : mine[channel] # p.idCounter
      BY <1>2, <1>3 DEF Named
    <3>3. ASSUME NEW i \in Count, NEW channel \in Channels
          PROVE  WillHave(subs, Pending(s)', i, channel) <=>
                   /\ channel \in DOMAIN object'[s].subscriptionIds
                   /\ object'[s].subscriptionIds[channel] = i
      <4>1. WillHave(subs, Pending(s)', i, channel) <=>
              \/ p.idCounter = i /\ main.channel = channel
              \/ p.idCounter # i /\ channel \in DOMAIN mine /\ mine[channel] = i
        BY <1>4, <2>3, <3>1 DEF Enters, About
      <4> QED
        BY <2>4, <3>2, <4>1 DEF With
    <3> QED
      BY <2>1, <3>3 DEF Agree
  <2>5. CASE /\ main.command = "UNSUBSCRIBE" /\ main.channel \in DOMAIN mine
             /\ main'.id = mine[main.channel]
             /\ object'[s].subscriptionIds = Without(mine, main.channel)
    <3>1. PICK f \in Sent : /\ f = FrameOf' /\ f.command = "UNSUBSCRIBE"
                            /\ f.id = mine[main.channel]
      <4> DEFINE f == [command |-> "UNSUBSCRIBE", id |-> mine[main.channel],
                       receipt |-> p.receiptCounter, channel |-> None]
      <4>1. f = FrameOf'
        BY <1>6, <2>5 DEF FrameOf, Issues
      <4>2. mine[main.channel] \in Count
        BY <1>2, <2>5 DEF PartialFunction
      <4>3. f \in Sent
        BY <1>2, <4>2 DEF Sent, ClientFrame, WellFormed, Awaited, Commands
      <4> QED
        BY <4>1, <4>3
    <3>2. \A a, b \in DOMAIN mine : mine[a] = mine[b] => a = b
      BY <1>3 DEF Named
    <3>3. ASSUME NEW i \in Count, NEW channel \in Channels
          PROVE  WillHave(subs, Pending(s)', i, channel) <=>
                   /\ channel \in DOMAIN object'[s].subscriptionIds
                   /\ object'[s].subscriptionIds[channel] = i
      <4>1. WillHave(subs, Pending(s)', i, channel) <=>
              mine[main.channel] # i /\ channel \in DOMAIN mine /\ mine[channel] = i
        BY <1>4, <2>3, <3>1 DEF Enters, About
      <4> QED
        BY <2>5, <3>2, <4>1 DEF Without, Restrict
    <3> QED
      BY <2>1, <3>3 DEF Agree
  <2>6. main.command # "DISCONNECT"
    BY <1>6 DEF Issues, Parting
  <2> QED
    BY <1>6, <2>4, <2>5, <2>6, IssueSteps DEF Issues, Awaited
<1>7. CASE /\ Issues(s) /\ main'.pc = "prompt" /\ main.channel \notin DOMAIN mine
           /\ object'[s].subscriptionIds = Without(mine, main.channel)
  <2>1. ~Sends(s)' /\ toServer'[s] = toServer[s] /\ subscriptions'[s] = subs
    BY <1>7 DEF Issues, Sends
  <2>2. Pending(s)' = toServer[s]
    BY <2>1 DEF Pending
  <2>3. \A i, channel : channel \in DOMAIN object'[s].subscriptionIds
                          /\ object'[s].subscriptionIds[channel] = i
                        <=> channel \in DOMAIN mine /\ mine[channel] = i
    BY <1>7 DEF Without, Restrict
  <2> QED
    BY <1>4, <2>1, <2>2, <2>3 DEF Agree
<1> QED
  BY <1>5, <1>6, <1>7, IssueSteps DEF Issues, Awaited

LEMMA AgreeStore ==
  ASSUME TypeInv, NEW s \in Sessions, Agree(s), protocol = s, StoreReceipt
  PROVE  Agree(s)'
<1>1. /\ toServer' = toServer /\ subscriptions' = subscriptions /\ protocol' = protocol
      /\ main.pc = "store"
  BY DEF StoreReceipt, CommSame
<1>2. object'[s].subscriptionIds = object[s].subscriptionIds
  BY PathTypes DEF StoreReceipt, Objects
<1>3. /\ main'.pc = "send" /\ main'.command = main.command /\ main'.id = main.id
      /\ main'.receipt = main.receipt /\ main'.channel = main.channel
  BY PathTypes DEF StoreReceipt, MainTypes
<1>4. FrameOf' = FrameOf /\ (Sends(s)' <=> Sends(s))
  BY <1>1, <1>3 DEF FrameOf, Sends
<1> QED
  BY <1>1, <1>2, <1>4, AgreeSame DEF Pending

(* A handler fails, and no frame but its own is lost. *)
LEMMA FailsAlone ==
  ASSUME TypeInv, NEW s \in Sessions, ServeFails(s), dropped'[s] = {}
  PROVE  /\ toServer[s] # <<>> /\ toServer'[s] = Tail(toServer[s])
         /\ subscriptions'[s] = Subscribed(subscriptions[s], Head(toServer[s]))
         /\ object' = object /\ main' = main /\ protocol' = protocol
<1>1. PICK q, f : q = toServer[s] /\ f = Head(q)
  OBVIOUS
<1>2. /\ ServerSame /\ q \in Seq(Sent) /\ q # <<>>
      /\ \/ f.command = "DISCONNECT"
         \/ subscriptions' = [subscriptions EXCEPT ![s] = Subscribed(@, f)]
  BY <1>1, FailsIs
<1>3. PICK n \in 1..Len(q), torn \in BOOLEAN :
        /\ torn => n < Len(q)
        /\ toServer' = [toServer EXCEPT ![s] = Remains(q, n, torn)]
        /\ dropped' = [dropped EXCEPT ![s] = @
             \cup {q[k].command : k \in 2..(IF torn THEN n + 1 ELSE n)}
             \cup ({f.command} \cap {"DISCONNECT"})]
  BY <1>1, FailsIs
<1>4. dropped \in [Sessions -> SUBSET (Commands \cup {"torn"})]
  BY DEF TypeInv, NetworkInv
<1>5. /\ f.command # "DISCONNECT"
      /\ \A k \in 2..(IF torn THEN n + 1 ELSE n) : FALSE
  <2>1. PICK gone, left : /\ gone = {q[k].command : k \in 2..(IF torn THEN n + 1 ELSE n)}
                          /\ left = {f.command} \cap {"DISCONNECT"}
    OBVIOUS
  <2>2. dropped'[s] = dropped[s] \cup gone \cup left
    BY <1>3, <1>4, <2>1
  <2>3. gone = {} /\ left = {}
    BY <2>2
  <2> QED
    BY <2>1, <2>3
<1>6. ~torn /\ n = 1
  <2>1. n \in Nat /\ n >= 1
    BY <1>2, LenProperties
  <2>2. torn => 2 \in 2..(n + 1)
    BY <2>1
  <2>3. n # 1 => 2 \in 2..n
    BY <2>1
  <2> QED
    BY <1>5, <2>2, <2>3
<1>7. PICK r : r = Remains(q, n, torn)
  OBVIOUS
<1>8. toServer'[s] = r
  BY <1>3, <1>7, PathTypes
<1>9. r = Tail(q)
  <2>1. /\ r \in Seq(Sent) /\ DOMAIN r = 1..(Len(q) - n)
        /\ \A i \in 1..(Len(q) - n) : r[i] = q[i + n] \/ (i = 1 /\ torn /\ r[i] = Torn)
    BY <1>2, <1>3, <1>7, RemainsOK
  <2>2. /\ DOMAIN r = 1..(Len(q) - 1)
        /\ \A i \in 1..(Len(q) - 1) : r[i] = q[i + 1]
    BY <1>6, <2>1
  <2>3. /\ Tail(q) \in Seq(Sent) /\ Len(q) = Len(Tail(q)) + 1 /\ Len(Tail(q)) \in Nat
        /\ \A i \in 1..Len(Tail(q)) : Tail(q)[i] = q[i + 1]
    BY <1>2, TailElements
  <2>4. PICK m \in Nat : m = Len(Tail(q))
    BY <2>3
  <2>5. Len(q) - 1 = m /\ DOMAIN r = 1..m
    BY <2>2, <2>3, <2>4
  <2>6. Len(r) \in Nat /\ DOMAIN r = 1..Len(r)
    BY <2>1, LenProperties
  <2>7. Len(r) = m
    <3>1. \A j \in Nat : j \in 1..j \/ j = 0
      OBVIOUS
    <3> QED
      BY <2>5, <2>6, <3>1
  <2> QED
    BY <2>1, <2>2, <2>3, <2>4, <2>5, <2>7, SeqEqual
<1> QED
  BY <1>1, <1>2, <1>5, <1>8, <1>9, PathTypes DEF ServerSame

LEMMA AgreeServed ==
  ASSUME TypeInv, NEW s \in Sessions, Agree(s), ServerStep(s), dropped'[s] = {}
  PROVE  Agree(s)'
<1>1. /\ toServer[s] # <<>> /\ toServer'[s] = Tail(toServer[s])
      /\ subscriptions'[s] = Subscribed(subscriptions[s], Head(toServer[s]))
      /\ object' = object /\ main' = main /\ protocol' = protocol
  <2>1. CASE Serve(s)
    BY <2>1, ServeIs, PathTypes DEF Receive, ServerSame
  <2>2. CASE ServeFails(s)
    BY <2>2, FailsAlone
  <2> QED
    BY <2>1, <2>2 DEF ServerStep
<1>2. Sends(s)' <=> Sends(s)
  BY <1>1 DEF Sends
<1>3. /\ Pending(s) \in Seq(Sent) /\ Pending(s) # <<>>
      /\ Head(Pending(s)) = Head(toServer[s]) /\ Tail(Pending(s)) = Pending(s)'
  <2>1. CASE Sends(s)
    <3>1. FrameOf \in Sent /\ FrameOf' = FrameOf
      BY <1>1, <2>1, FrameSent DEF Sends, FrameOf
    <3>2. PICK f \in Sent : f = FrameOf /\ f = FrameOf'
      BY <3>1
    <3>3. Pending(s) = Append(toServer[s], f) /\ Pending(s)' = Append(Tail(toServer[s]), f)
      BY <1>1, <1>2, <2>1, <3>2 DEF Pending
    <3> QED
      BY <1>1, <3>3, PathTypes, AppendProperties, HeadTailAppend
  <2>2. CASE ~Sends(s)
    BY <1>1, <1>2, <2>2, PathTypes DEF Pending
  <2> QED
    BY <2>1, <2>2
<1>4. PICK subs \in Maps(Count, Channels), q \in Seq(Sent) :
        subs = subscriptions[s] /\ q = Pending(s)
  BY <1>3, PathTypes
<1>5. /\ q # <<>> /\ Pending(s)' = Tail(q)
      /\ subscriptions'[s] = Subscribed(subs, Head(q))
  BY <1>1, <1>3, <1>4
<1>6. \A i, channel : WillHave(subs, q, i, channel) <=>
                        WillHave(subscriptions'[s], Pending(s)', i, channel)
  BY <1>5, WillHaveServed
<1> QED
  BY <1>1, <1>4, <1>6 DEF Agree

(* What the server has thrown away does not come back. *)
LEMMA DroppedStays ==
  ASSUME TypeInv, [Next]_vars, NEW s \in Sessions, dropped'[s] = {}
  PROVE  dropped[s] = {}
<1>1. dropped \in [Sessions -> SUBSET (Commands \cup {"torn"})]
  BY DEF TypeInv, NetworkInv
<1>2. ASSUME NEW t \in Sessions, Serve(t) \/ ServerPublishes(t) \/ LinkLost(t)
      PROVE  UNCHANGED dropped
  BY <1>2, ServeIs DEF Receive, ServerPublishes, LinkLost
<1>3. ASSUME NEW t \in Sessions, ServeFails(t) PROVE dropped[s] = {}
  <2>1. PICK q, f : q = toServer[t] /\ f = Head(q)
    OBVIOUS
  <2>2. PICK n \in 1..Len(q), torn \in BOOLEAN :
          dropped' = [dropped EXCEPT ![t] = @
            \cup {q[k].command : k \in 2..(IF torn THEN n + 1 ELSE n)}
            \cup ({f.command} \cap {"DISCONNECT"})]
    BY <1>3, <2>1, FailsIs
  <2>3. PICK gone, left : /\ gone = {q[k].command : k \in 2..(IF torn THEN n + 1 ELSE n)}
                          /\ left = {f.command} \cap {"DISCONNECT"}
    OBVIOUS
  <2>4. dropped' = [dropped EXCEPT ![t] = @ \cup gone \cup left]
    BY <2>2, <2>3
  <2>5. dropped[s] \subseteq dropped'[s]
    BY <1>1, <2>4
  <2> QED
    BY <2>5
<1>4. CASE User \/ MainStep
  BY <1>4 DEF User, ReadCommand, ReadBlankLine, MainStep, OnlyMain, Change, CommSame, Refuse,
     LoginAgain, Join, Exit, Report, SummaryOf, Logout, Summarize, StoreReceipt, Send,
     JoinCommunicator, NewConnectionHandler, NewStompProtocol, Connect, ConnectFails,
     StartCommunicator
<1>5. CASE CommunicatorStep
  BY <1>5 DEF CommunicatorStep, MainSame, TestStop, EnterRead, ReadFrame, ReadFails,
     LoseConnection, ParseFrame, CloseHandler, NullHandler, DeleteProtocol, EndCommunicate
<1>6. CASE Undefined \/ UNCHANGED vars
  BY <1>6 DEF Undefined, vars
<1> QED
  BY <1>2, <1>3, <1>4, <1>5, <1>6 DEF Next, ServerStep

LEMMA AgreedNext ==
  ASSUME TypeInv, LifeInv, Single, ReceiptInv, Connected, Agreed, [Next]_vars
  PROVE  Agreed'
<1> SUFFICES ASSUME ~Parting', NEW s \in protocols', link'[s] = "up", dropped'[s] = {}
             PROVE  Agree(s)'
  BY DEF Agreed
<1>1. ~Parting
  BY PartingSteps
<1>2. s \in Sessions
  <2>1. protocols' \subseteq 1..logins' /\ logins' \in 0..MaxLogins
    BY TypeNext DEF TypeInv, SharedInv
  <2> QED
    BY <2>1, ClientAssumption DEF Sessions
<1>3. Fresh(s) /\ Path(s)
  BY <1>2 DEF ReceiptInv
<1>4. CASE s \notin protocols \/ link[s] # "up"
  BY <1>2, <1>3, <1>4, AgreeBegins
<1>5. CASE s \in protocols /\ link[s] = "up"
  <2>1. Agree(s)
    BY <1>1, <1>2, <1>5, DroppedStays DEF Agreed
  <2>2. CASE protocol = s /\ StoreReceipt
    BY <1>2, <2>1, <2>2, AgreeStore
  <2>3. CASE protocol = s /\ Send
    BY <1>5, <2>1, <2>3, AgreeSend
  <2>4. CASE protocol = s /\ (Join \/ Exit \/ Logout)
    BY <1>2, <1>3, <2>1, <2>4, AgreeIssue
  <2>5. CASE ServerStep(s)
    BY <1>2, <2>1, <2>5, AgreeServed
  <2>6. CASE Same(s) /\ ~(protocol = s /\ (StoreReceipt \/ Send))
    <3>1. Sends(s) => UNCHANGED <<main, protocol>>
      BY <1>5, <2>6, SendsStays DEF Sends
    <3>2. Sends(s)' => Sends(s) /\ main' = main
      BY <2>6 DEF Same
    <3>3. Pending(s)' = Pending(s)
      BY <2>6, <3>1, <3>2 DEF Pending, FrameOf, Sends, Same
    <3> QED
      BY <2>1, <2>6, <3>3, AgreeSame DEF Same
  <2>7. CASE ParseFrame \/ ReadFrame \/ ServerPublishes(s) \/ LinkLost(s)
    <3>1. object'[s].subscriptionIds = object[s].subscriptionIds
      <4>1. CASE ParseFrame
        BY <1>2, <4>1, CommunicatorObject
      <4> QED
        BY <2>7, <4>1 DEF ReadFrame, ServerPublishes, LinkLost, ServerSame
    <3>2. /\ toServer' = toServer /\ subscriptions' = subscriptions
          /\ main' = main /\ protocol' = protocol
      BY <2>7 DEF ParseFrame, ReadFrame, ServerPublishes, LinkLost, ServerSame, MainSame
    <3>3. Pending(s)' = Pending(s)
      BY <3>2 DEF Pending, FrameOf, Sends
    <3> QED
      BY <2>1, <3>1, <3>2, <3>3, AgreeSame
  <2> QED
    BY <1>2, <2>2, <2>3, <2>4, <2>5, <2>6, <2>7, PathSteps
<1> QED
  BY <1>4, <1>5

(***************************************************************************)
(* Whenever the user may type, what the client takes for its subscriptions *)
(* is what the server will have when it has served the frames that are on  *)
(* their way, for any number of sessions, commands and channels: a join or *)
(* an exit changes subscriptionIds before its frame is sent, and the id    *)
(* it uses is given to one channel only.                                   *)
(***************************************************************************)
THEOREM ClientAndServerAgree == Spec => []SubscriptionsAgree
<1>1. Init => Connected /\ Agreed
  BY DEF Init, Connected, Agreed, AtPrompt
<1>2. /\ TypeInv /\ LifeInv
      /\ Single /\ Reading /\ ReceiptInv
      /\ Connected /\ Agreed
      /\ [Next]_vars
      => Connected' /\ Agreed'
  BY ConnectedNext, AgreedNext
<1>3. Agreed => SubscriptionsAgree
  <2> SUFFICES ASSUME Agreed, main.pc = "prompt", NEW s \in protocols, link[s] = "up",
                      dropped[s] = {},
                      NEW i \in Count, NEW channel \in Channels
               PROVE  WillHave(subscriptions[s], toServer[s], i, channel) <=>
                        /\ channel \in DOMAIN object[s].subscriptionIds
                        /\ object[s].subscriptionIds[channel] = i
    BY DEF SubscriptionsAgree
  <2>1. ~Parting /\ Pending(s) = toServer[s]
    BY DEF Parting, Pending, Sends
  <2> QED
    BY <2>1 DEF Agreed, Agree
<1> QED
  BY <1>1, <1>2, <1>3, ClientInvariant, RequestsOnTheWay, PTL DEF Spec

-----------------------------------------------------------------------------
(* The end of a session *)

LEMMA NewNext ==
  ASSUME TypeInv, [Next]_vars, NEW s \in Sessions,
         New(s) => ~object[s].stopCommunication, New(s)'
  PROVE  ~object'[s].stopCommunication
<1>1. /\ protocol <= logins /\ protocol \in Nat /\ logins \in Nat /\ s \in Nat
      /\ object \in [Sessions -> Objects]
  BY ClientAssumption DEF TypeInv, SharedInv, Sessions
<1>2. Unused(s)' /\ Unused(s)
  BY UnusedSince DEF New, Unused
<1>3. New(s)
  <2>1. CASE s > logins
    BY <2>1 DEF New
  <2>2. CASE s = logins
    <3>1. ~Using /\ ~JoinCommunicator
      BY <1>1, <1>2, <2>2 DEF Unused, JoinCommunicator, Using, LoggingIn
    <3>2. ~(s > logins)'
      <4>1. logins' = logins \/ (NewConnectionHandler /\ logins' = logins + 1)
        <5>1. CASE CommunicatorStep
          BY <5>1, CommunicatorMoves
        <5>2. CASE \E t \in Sessions : ServerStep(t) \/ ServerPublishes(t) \/ LinkLost(t)
          <6>1. ServerSame
            BY <5>2, ServerStepSame
          <6> QED
            BY <6>1 DEF ServerSame
        <5>3. CASE User \/ MainStep \/ Undefined \/ UNCHANGED vars
          BY <5>3 DEF User, ReadCommand, ReadBlankLine, Undefined, vars, MainStep, OnlyMain,
             Change, CommSame, Refuse, LoginAgain, Join, Exit, Report, SummaryOf, Logout,
             Summarize, StoreReceipt, Send, JoinCommunicator, NewConnectionHandler,
             NewStompProtocol, Connect, ConnectFails, StartCommunicator
        <5> QED
          BY <5>1, <5>2, <5>3 DEF Next
      <4> QED
        BY <1>1, <2>2, <4>1
    <3>3. ~Forked'
      BY <3>2 DEF New
    <3>4. ~Forked
      <4>1. CASE CommunicatorStep
        BY <3>3, <4>1, CommunicatorMoves
      <4>2. CASE \E t \in Sessions : ServerStep(t) \/ ServerPublishes(t) \/ LinkLost(t)
        <5>1. ServerSame
          BY <4>2, ServerStepSame
        <5> QED
          BY <3>3, <5>1 DEF ServerSame, Forked
      <4>3. CASE StartCommunicator
        BY <3>3, <4>3 DEF StartCommunicator, Forked
      <4>4. CASE User \/ MainStep \/ Undefined \/ UNCHANGED vars
        BY <3>1, <3>3, <4>3, <4>4 DEF User, ReadCommand, ReadBlankLine, Undefined, vars,
           MainStep, OnlyMain, Change, CommSame, Refuse, LoginAgain, Join, Exit, Report,
           SummaryOf, Logout, Summarize, StoreReceipt, Send, NewConnectionHandler,
           NewStompProtocol, Connect, ConnectFails, Forked
      <4> QED
        BY <4>1, <4>2, <4>3, <4>4 DEF Next
    <3> QED
      BY <1>2, <3>4 DEF New
  <2> QED
    BY <1>2, <2>1, <2>2 DEF Unused
<1>4. ~(protocol = s /\ (Join \/ Exit \/ Logout \/ StoreReceipt))
  BY <1>1, <1>2 DEF Unused, Using, LoggingIn, Join, Exit, Logout, StoreReceipt, Checks
<1>5. ~(protocol = s /\ (LoseConnection \/ ParseFrame))
  <2>1. LoseConnection \/ ParseFrame => Forked
    BY DEF LoseConnection, ParseFrame, At, Forked
  <2> QED
    BY <1>1, <1>3, <2>1 DEF New
<1> QED
  BY <1>3, <1>4, <1>5, ObjectSteps

(* What is used was used before, but for the session that is just complete. *)
LEMMA UsingSteps ==
  ASSUME TypeInv, [Next]_vars, Running', Using', protocol' \in protocols'
  PROVE  \/ Running /\ StartCommunicator /\ comm.pc = "none"
         \/ Running /\ Using /\ protocol \in protocols /\ protocol' = protocol
<1>1. /\ main \in MainTypes /\ (LoggingIn => main.command = "CONNECT")
      /\ 0 \notin protocols' /\ protocol' \in Sessions
  <2>1. protocols' \subseteq 1..logins' /\ logins' \in 0..MaxLogins
    BY TypeNext DEF TypeInv, SharedInv
  <2> QED
    BY <2>1, ClientAssumption DEF TypeInv, MainInv, Sessions
<1> USE DEF Running, Using, LoggingIn
<1>2. CASE CommunicatorStep
  BY <1>1, <1>2, CommunicatorMoves
<1>3. CASE \E t \in Sessions : ServerStep(t) \/ ServerPublishes(t) \/ LinkLost(t)
  <2>1. ServerSame
    BY <1>3, ServerStepSame
  <2> QED
    BY <2>1 DEF ServerSame
<1>4. CASE StartCommunicator
  BY <1>1, <1>4 DEF StartCommunicator
<1>5. CASE NewConnectionHandler \/ NewStompProtocol \/ Connect
  BY <1>1, <1>5 DEF NewConnectionHandler, NewStompProtocol, Connect, MainTypes
<1>6. CASE ConnectFails
  BY <1>1, <1>6 DEF ConnectFails, nullptr
<1>7. CASE Send
  <2>1. main.command # "CONNECT"
    BY <1>1, <1>7 DEF Send, MainTypes
  <2> QED
    BY <1>7, <2>1 DEF Send
<1>8. CASE \/ Refuse \/ LoginAgain \/ Join \/ Exit \/ Report \/ SummaryOf \/ Logout
           \/ Summarize \/ StoreReceipt \/ JoinCommunicator
  <2>1. CASE Refuse \/ LoginAgain \/ Report \/ SummaryOf \/ Summarize
    BY <2>1 DEF OnlyMain, Refuse, LoginAgain, Report, SummaryOf, Checks, Summarize
  <2>2. CASE Join \/ Exit \/ Logout
    <3>1. main.pc = "check" /\ (OnlyMain \/ \E changed : Change(changed))
      BY <2>2 DEF Join, Exit, Logout, Checks
    <3> QED
      BY <3>1 DEF OnlyMain, Change
  <2>3. CASE StoreReceipt \/ JoinCommunicator
    BY <2>3 DEF StoreReceipt, JoinCommunicator
  <2> QED
    BY <1>8, <2>1, <2>2, <2>3
<1>9. CASE User
  <2>1. main.pc = "prompt" /\ Running /\ pointers' = pointers
    BY <1>9 DEF User, ReadCommand, ReadBlankLine
  <2> QED
    BY <2>1
<1>10. CASE Undefined \/ UNCHANGED vars
  BY <1>10 DEF Undefined, vars
<1> QED
  BY <1>2, <1>3, <1>4, <1>5, <1>6, <1>7, <1>8, <1>9, <1>10 DEF Next, MainStep

LEMMA StoppingKept ==
  ASSUME Stopping, protocol' = protocol,
         LET p == object[protocol]
             q == object'[protocol]
         IN  /\ q.receiptMap = p.receiptMap /\ q.stopCommunication = p.stopCommunication
             /\ q.errorOccured = p.errorOccured,
         link[protocol] = "down" => link'[protocol] = "down",
         comm'.pc \in {"close", "lost"} => comm'.pc = comm.pc,
         main' = main \/ main.pc \notin {"send", "join"}
  PROVE  Stopping'
BY DEF Stopping

(* Nobody uses a connection again that is down, but login. *)
LEMMA DownStays ==
  ASSUME TypeInv, [Next]_vars, Using, NEW s \in Sessions, link[s] = "down"
  PROVE  link'[s] = "down"
<1>1. link \in [Sessions -> {"none", "up", "down"}] /\ ~Connect
  BY DEF TypeInv, NetworkInv, Using, LoggingIn, Connect
<1>2. CASE User \/ Undefined \/ UNCHANGED vars
  BY <1>2 DEF User, ReadCommand, ReadBlankLine, Undefined, vars
<1>3. CASE MainStep
  BY <1>1, <1>3 DEF MainStep, OnlyMain, Change, Refuse, LoginAgain, Join, Exit, Report,
     SummaryOf, Logout, Summarize, StoreReceipt, Send, JoinCommunicator,
     NewConnectionHandler, NewStompProtocol, ConnectFails, StartCommunicator
<1>4. CASE CommunicatorStep
  BY <1>1, <1>4 DEF CommunicatorStep, TestStop, EnterRead, ReadFrame, ReadFails,
     LoseConnection, ParseFrame, CloseHandler, NullHandler, DeleteProtocol, EndCommunicate
<1>5. ASSUME NEW t \in Sessions, ServerStep(t) PROVE link'[s] = "down"
  <2>1. link' = link \/ link' = [link EXCEPT ![t] = "down"]
    BY <1>5, ServeIs DEF ServerStep, ServeFails
  <2> QED
    BY <1>1, <2>1
<1>6. ASSUME NEW t \in Sessions, ServerPublishes(t) \/ LinkLost(t) PROVE link'[s] = "down"
  BY <1>1, <1>6 DEF ServerPublishes, LinkLost
<1> QED
  BY <1>2, <1>3, <1>4, <1>5, <1>6 DEF Next

(* The communicator serves the session that is used. *)
LEMMA UsedServed ==
  ASSUME TypeInv, LifeInv, Running, Using, protocol \in protocols
  PROVE  /\ protocol \in Sessions /\ Forked /\ Serves(protocol)
         /\ comm.pc \notin {"nullProtocol", "ended"}
<1>1. protocol \in Sessions /\ protocol # 0
  BY SessionFacts DEF TypeInv, SharedInv, Sessions
<1>2. Forked
  <2> SUFFICES ASSUME ~Forked PROVE FALSE
    OBVIOUS
  <2>1. LoginAlone
    BY DEF LifeInv
  <2> QED
    BY <2>1 DEF LoginAlone, Using, LoggingIn
<1>3. PICK s \in 1..logins : Serves(s)
  BY <1>2 DEF LifeInv, Orderly
<1>4. s = protocol
  BY <1>1, <1>3 DEF Serves
<1> QED
  BY <1>1, <1>2, <1>3, <1>4 DEF Serves

LEMMA StoppingMain ==
  ASSUME TypeInv, LifeInv, Stopping, Running, Using, protocol \in protocols,
         User \/ MainStep, Running', Using', protocol' \in protocols',
         [Next]_vars
  PROVE  Stopping'
<1> DEFINE s == protocol
           p == object[s]
           q == object'[s]
<1>1. /\ s \in Sessions /\ main \in MainTypes /\ object \in [Sessions -> Objects]
      /\ p \in Objects /\ main.command \in Commands \cup {"summary", None}
      /\ comm.pc # "ended" /\ comm.pc # "none"
      /\ main.pc \notin {"newHandler", "newProtocol", "connect", "thread"}
      /\ ~(main.pc = "send" /\ main.command = "CONNECT")
  BY UsedServed DEF TypeInv, MainInv, SharedInv, MainTypes, Forked, Using, LoggingIn
<1>2. /\ link[s] = "down" => link'[s] = "down"
      /\ protocol' = protocol
  BY <1>1, DownStays, UsingSteps DEF Forked
<1>3. ASSUME main.pc \notin {"send", "join"}, UNCHANGED <<object, comm>>
      PROVE  Stopping'
  BY <1>2, <1>3, StoppingKept
<1>4. CASE User
  <2>1. main.pc = "prompt" /\ UNCHANGED <<object, comm>>
    BY <1>4 DEF User, ReadCommand, ReadBlankLine, CommSame
  <2> QED
    BY <1>3, <2>1
<1>5. CASE Refuse \/ LoginAgain \/ Report \/ SummaryOf \/ Summarize
  <2>1. main.pc \in {"check", "summary"} /\ UNCHANGED <<object, comm>>
    BY <1>5 DEF OnlyMain, CommSame, Refuse, LoginAgain, Report, SummaryOf, Checks, Summarize
  <2> QED
    BY <1>3, <2>1
<1>6. CASE Join \/ Exit \/ Logout
  <2>1. CASE OnlyMain
    BY <1>3, <1>6, <2>1 DEF OnlyMain, CommSame, Join, Exit, Logout, Checks
  <2>2. CASE ~OnlyMain
    <3> DEFINE Kept(r) == /\ r.receiptMap = p.receiptMap
                          /\ r.stopCommunication = p.stopCommunication
                          /\ r.errorOccured = p.errorOccured
               joined == [p EXCEPT !.idCounter = @ + 1, !.receiptCounter = @ + 1,
                            !.subscriptionIds = With(@, main.channel, p.idCounter)]
               left == [p EXCEPT !.receiptCounter = @ + 1,
                          !.subscriptionIds = Without(@, main.channel)]
               gone == [p EXCEPT !.receiptCounter = @ + 1]
    <3>1. PICK changed \in {joined, left, gone} : Change(changed)
      BY <1>6, <2>2 DEF Join, Exit, Logout
    <3>2. Kept(joined) /\ Kept(left) /\ Kept(gone)
      BY <1>1 DEF Objects
    <3> HIDE DEF joined, left, gone
    <3>3. Kept(changed)
      BY <3>2
    <3>4. object'[s] = changed /\ comm' = comm
      BY <1>1, <3>1 DEF Change, CommSame
    <3>5. /\ q.receiptMap = p.receiptMap /\ q.stopCommunication = p.stopCommunication
          /\ q.errorOccured = p.errorOccured /\ comm' = comm
      BY <3>3, <3>4
    <3>6. main.pc = "check"
      BY <1>6 DEF Join, Exit, Logout, Checks
    <3> QED
      BY <1>2, <3>5, <3>6, StoppingKept
  <2> QED
    BY <2>1, <2>2
<1>7. CASE StoreReceipt
  <2>1. /\ main.pc = "store" /\ comm' = comm /\ main'.pc = "send"
        /\ main'.command = main.command /\ main'.receipt = main.receipt
    BY <1>1, <1>7 DEF StoreReceipt, MainTypes, CommSame
  <2>2. /\ q.receiptMap = With(p.receiptMap, main.receipt, RequestOf)
        /\ q.stopCommunication = p.stopCommunication /\ q.errorOccured = p.errorOccured
    BY <1>1, <1>7 DEF StoreReceipt, Objects
  <2>3. ASSUME NEW r \in DOMAIN q.receiptMap, q.receiptMap[r].command = "DISCONNECT"
        PROVE  main.command = "DISCONNECT" /\ main.receipt = r
    <3>1. CASE r = main.receipt
      BY <2>2, <2>3, <3>1 DEF With, RequestOf
    <3>2. CASE r # main.receipt
      BY <2>1, <2>2, <2>3, <3>2 DEF With, Stopping
    <3> QED
      BY <3>1, <3>2
  <2> QED
    BY <1>2, <2>1, <2>2, <2>3 DEF Stopping
<1>8. CASE Send
  <2>1. main.pc = "send" /\ main.command # "CONNECT" /\ UNCHANGED <<object, comm>>
    BY <1>1, <1>8 DEF Send, CommSame
  <2>2. CASE main.command = "DISCONNECT"
    BY <1>2, <1>8, <2>1, <2>2 DEF Stopping, Send
  <2>3. CASE main.command # "DISCONNECT"
    BY <1>2, <2>1, <2>3 DEF Stopping
  <2> QED
    BY <2>2, <2>3
<1>9. ~( \/ JoinCommunicator \/ NewConnectionHandler \/ NewStompProtocol \/ Connect
         \/ ConnectFails \/ StartCommunicator )
  BY <1>1 DEF JoinCommunicator, NewConnectionHandler, NewStompProtocol, Connect,
     ConnectFails, StartCommunicator
<1> QED
  BY <1>4, <1>5, <1>6, <1>7, <1>8, <1>9 DEF MainStep

(* The RECEIPT that is read was asked for before what main is sending now. *)
LEMMA ReadBefore ==
  ASSUME TypeInv, NEW s \in Sessions, Path(s), Reads(s), comm.frame.receipt \in Nat,
         Sends(s)
  PROVE  main.receipt # comm.frame.receipt
<1>1. PICK read, served, sent \in Count : Ordered(s, read, served, sent)
  BY DEF Path
<1>2. PICK n \in Nat : n = comm.frame.receipt
  OBVIOUS
<1>3. \A a, b, c, d, m \in Nat : a < b /\ b <= c /\ c <= d /\ d <= m => m # a
  OBVIOUS
<1>4. n < read /\ read <= served /\ served <= sent /\ sent <= main.receipt
  BY <1>1, <1>2, CountIsNat DEF Ordered
<1>5. read \in Nat /\ served \in Nat /\ sent \in Nat
  BY CountIsNat
<1>6. main.receipt \in Nat
  BY CountIsNat DEF Sends, TypeInv, MainInv, WellFormed
<1> QED
  BY <1>2, <1>3, <1>4, <1>5, <1>6

LEMMA StoppingParse ==
  ASSUME TypeInv, LifeInv, Reading, ReceiptInv, Stopping, Running, Using,
         protocol \in protocols, ParseFrame
  PROVE  Stopping'
<1> DEFINE s == protocol
           p == object[s]
           q == object'[s]
           f == comm.frame
<1>1. /\ s \in Sessions /\ Reads(s) /\ f \in Answers /\ p \in Objects
      /\ object' = [object EXCEPT ![s] = Parsed(p, f)]
      /\ object \in [Sessions -> Objects]
      /\ main' = main /\ link' = link /\ protocol' = protocol
      /\ comm'.pc = "test"
  BY UsedServed, ParseFrameIs DEF ParseFrame, At, Reads, Serves, MainSame, TypeInv,
     CommInv, CommTypes, SharedInv
<1>2. q = Parsed(p, f)
  BY <1>1
<1>3. f.command \in {"CONNECTED", "MESSAGE", "ERROR", "RECEIPT"}
  BY <1>1 DEF Answers, ServerFrame
<1>4. ASSUME q.receiptMap = p.receiptMap, q.stopCommunication = p.stopCommunication,
             q.errorOccured = p.errorOccured
      PROVE  Stopping'
  BY <1>1, <1>4, StoppingKept
<1>5. CASE f.command \in {"CONNECTED", "MESSAGE"}
  <2>1. /\ q.receiptMap = p.receiptMap /\ q.stopCommunication = p.stopCommunication
        /\ q.errorOccured = p.errorOccured
    BY <1>1, <1>2, <1>5 DEF Parsed, Objects
  <2> QED
    BY <1>4, <2>1
<1>6. CASE f.command = "ERROR"
  <2>1. q.errorOccured /\ q.receiptMap = p.receiptMap
    BY <1>1, <1>2, <1>6 DEF Parsed, Objects
  <2> QED
    BY <1>1, <2>1 DEF Stopping
<1>7. CASE f.command = "RECEIPT" /\ f.receipt \in DOMAIN p.receiptMap
  <2> DEFINE last == p.receiptMap[f.receipt].command = "DISCONNECT"
  <2>1. /\ q.receiptMap = Without(p.receiptMap, f.receipt)
        /\ q.errorOccured = p.errorOccured
        /\ q.stopCommunication <=> (p.stopCommunication \/ last)
    BY <1>1, <1>2, <1>7 DEF Parsed, HandleReceipt, Objects
  <2>2. last => main.pc = "join"
    <3> SUFFICES ASSUME last, main.pc = "send", main.command = "DISCONNECT",
                        main.receipt = f.receipt
                 PROVE  FALSE
      BY <1>7 DEF Stopping
    <3>1. Sends(s) /\ f.receipt \in Nat /\ Path(s)
      BY <1>1, <1>7, CountIsNat DEF Sends, Awaited, Answers, ReceiptInv
    <3> QED
      BY <1>1, <3>1, ReadBefore
  <2>3. \A r \in DOMAIN q.receiptMap : /\ r \in DOMAIN p.receiptMap
                                       /\ q.receiptMap[r] = p.receiptMap[r]
    BY <2>1 DEF Without, Restrict
  <2> QED
    BY <1>1, <2>1, <2>2, <2>3 DEF Stopping
<1>8. CASE f.command = "RECEIPT" /\ f.receipt \notin DOMAIN p.receiptMap
  BY <1>1, <1>2, <1>4, <1>8 DEF Parsed, HandleReceipt
<1> QED
  BY <1>3, <1>5, <1>6, <1>7, <1>8

LEMMA StoppingCommunicator ==
  ASSUME TypeInv, LifeInv, Reading, ReceiptInv, Stopping, Running, Using,
         protocol \in protocols, CommunicatorStep, protocol' \in protocols', [Next]_vars
  PROVE  Stopping'
<1> DEFINE s == protocol
<1>1. /\ s \in Sessions /\ Serves(s) /\ comm \in CommTypes
      /\ object \in [Sessions -> Objects] /\ object[s] \in Objects
      /\ comm.pc # "nullProtocol"
  BY UsedServed DEF TypeInv, CommInv, SharedInv
<1>2. main' = main /\ (link[s] = "down" => link'[s] = "down")
  BY <1>1, DownStays, CommunicatorMoves
<1>3. CASE TestStop
  BY <1>1, <1>2, <1>3 DEF TestStop, Goto, CommTypes, Stopping
<1>4. CASE EnterRead \/ ReadFrame \/ CloseHandler \/ NullHandler \/ DeleteProtocol
  <2>1. /\ comm'.pc \notin {"close", "lost"} /\ object' = object
        /\ protocol' = protocol
    BY <1>1, <1>4 DEF EnterRead, ReadFrame, CloseHandler, NullHandler, DeleteProtocol, Goto,
       CommTypes
  <2> QED
    BY <1>2, <2>1, StoppingKept
<1>5. CASE ReadFails
  <2>1. /\ comm'.pc = "lost" /\ object' = object /\ protocol' = protocol
        /\ link[s] = "down" /\ link' = link
    BY <1>1, <1>5 DEF ReadFails, At, Goto, CommTypes, Serves
  <2> QED
    BY <1>2, <2>1 DEF Stopping
<1>6. CASE LoseConnection
  <2>1. /\ comm.pc = "lost" /\ comm'.pc = "close" /\ protocol' = protocol
        /\ object'[s].stopCommunication
        /\ object'[s].receiptMap = object[s].receiptMap
    BY <1>1, <1>6 DEF LoseConnection, At, Goto, CommTypes, Objects
  <2> QED
    BY <1>2, <2>1 DEF Stopping
<1>7. CASE ParseFrame
  BY <1>7, StoppingParse
<1>8. ~EndCommunicate
  BY <1>1 DEF EndCommunicate, At
<1> QED
  BY <1>3, <1>4, <1>5, <1>6, <1>7, <1>8 DEF CommunicatorStep

LEMMA StopNext ==
  ASSUME TypeInv, LifeInv, Reading, ReceiptInv, StopInv, [Next]_vars
  PROVE  StopInv'
<1>1. \A s \in Sessions : New(s)' => ~object'[s].stopCommunication
  BY NewNext DEF StopInv
<1>2. ASSUME Running', Using', protocol' \in protocols' PROVE Stopping'
  <2>1. CASE StartCommunicator /\ comm.pc = "none" /\ Running
    <3>1. LoginAlone /\ main.pc = "thread"
      BY <2>1 DEF LifeInv, Forked, StartCommunicator
    <3>2. /\ protocol = logins /\ protocol \in protocols /\ protocol' = protocol
          /\ object' = object /\ comm'.pc = "test"
      BY <2>1, <3>1 DEF LoginAlone, StartCommunicator, NoThread
    <3>3. protocol \in Sessions /\ Unused(protocol) /\ New(protocol)
      BY <2>1, <3>1, <3>2, SessionFacts DEF Unused, New, Using, LoggingIn, Forked
    <3>4. /\ DOMAIN object[protocol].receiptMap = {}
          /\ ~object[protocol].stopCommunication
      BY <3>3 DEF ReceiptInv, Fresh, StopInv
    <3> QED
      BY <3>2, <3>4 DEF Stopping
  <2>2. CASE Running /\ Using /\ protocol \in protocols /\ protocol' = protocol
    <3>1. Stopping /\ protocol \in Sessions
      BY <2>2, UsedServed DEF StopInv
    <3>2. CASE User \/ MainStep
      BY <1>2, <2>2, <3>1, <3>2, StoppingMain
    <3>3. CASE CommunicatorStep
      BY <1>2, <2>2, <3>1, <3>3, StoppingCommunicator
    <3>4. CASE \E t \in Sessions : ServerStep(t) \/ ServerPublishes(t) \/ LinkLost(t)
      <4>1. ServerSame
        BY <3>4, ServerStepSame
      <4> QED
        BY <2>2, <3>1, <4>1, DownStays, StoppingKept DEF ServerSame
    <3>5. CASE Undefined \/ UNCHANGED vars
      BY <2>2, <3>1, <3>5, StoppingKept DEF Undefined, vars
    <3> QED
      BY <3>2, <3>3, <3>4, <3>5 DEF Next
  <2> QED
    BY <1>2, <2>1, <2>2, UsingSteps
<1> QED
  BY <1>1, <1>2 DEF StopInv

(* The communicator begins to delete what main uses only while main waits   *)
(* in join for the RECEIPT of its DISCONNECT, after an ERROR, or when the   *)
(* connection is lost: no other RECEIPT ends the session of a user.         *)
THEOREM SessionsEndForAReason == Spec => []EndsForAReason
<1>1. Init => StopInv
  <2> SUFFICES ASSUME Init PROVE StopInv
    OBVIOUS
  <2>1. protocols = {} /\ \A s \in Sessions : object[s] = NewProtocol
    BY DEF Init
  <2> QED
    BY <2>1 DEF StopInv, NewProtocol
<1>2. TypeInv /\ LifeInv /\ Reading /\ ReceiptInv /\ StopInv /\ [Next]_vars => StopInv'
  BY StopNext
<1>3. TypeInv /\ LifeInv /\ StopInv => EndsForAReason
  <2> SUFFICES ASSUME TypeInv, LifeInv, StopInv, Running, comm.pc = "close",
                      protocol \in protocols, main.command # "CONNECT"
               PROVE  \/ main.pc = "join" \/ object[protocol].errorOccured
                      \/ link[protocol] = "down"
    BY DEF EndsForAReason
  <2>1. Using
    BY DEF Using, TypeInv, MainInv
  <2> QED
    BY <2>1 DEF StopInv, Stopping
<1> QED
  BY <1>1, <1>2, <1>3, ClientInvariant, RequestsOnTheWay, PTL DEF Spec
=============================================================================
