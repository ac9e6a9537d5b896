------------------------ MODULE BlockingServerProofs ------------------------
(***************************************************************************)
(* The frames of the thread-per-client server are decoded as they were     *)
(* sent and handled as they were written, and what a client keeps of the   *)
(* channel was reported and is in order, whatever the users report, the    *)
(* size of the buffers and the order in which the threads run.             *)
(***************************************************************************)
EXTENDS BlockingServer, StompFrameProofs

-----------------------------------------------------------------------------
(* The frames *)

ClientCommands == {<<"CONNECT">>, <<"SUBSCRIBE">>, <<"SEND">>, <<"DISCONNECT">>}
ServerCommands == {<<"CONNECTED">>, <<"RECEIPT">>, <<"MESSAGE">>, <<"ERROR">>}
WithReceipt == {<<"SUBSCRIBE">>, <<"DISCONNECT">>}

(* the body of a report of an event in some file *)
IsReportBody(b) ==
  \E u \in Users : \E c \in Clients : \E i \in 1..Len(u[c].file) :
    b = reportBody(<<c>>, u[c].file[i])

IsClientFrame(f) ==
  /\ IsSendable(f) /\ f.command \in ClientCommands
  /\ f.command \in WithReceipt => <<"receipt">> \in DOMAIN f.headers
  /\ f.command = <<"SEND">> => IsReportBody(f.body)

(* Only the body of an ERROR has a terminator of its own. *)
IsServerFrame(f) ==
  /\ IsWritable(f) /\ f.command \in ServerCommands
  /\ Has(f.body, NUL) => Is(f, "ERROR")
  /\ f.command = <<"MESSAGE">> => IsReportBody(f.body)

Maps == UNION {[K -> Text] : K \in SUBSET Text}
Frames == [command : Text, headers : Maps, body : Text]
ClientFrames == {f \in Frames : IsClientFrame(f)}
ServerFrames == {f \in Frames : IsServerFrame(f)}

LEMMA WritableFrame ==
  ASSUME NEW f, IsWritable(f)
  PROVE  f \in Frames
<1> DEFINE m == f.headers  K == DOMAIN m
<1>1. /\ f = [command |-> f.command, headers |-> m, body |-> f.body]
      /\ f.command \in Text /\ f.body \in Text /\ IsHeaders(m)
  BY DEF IsWritable, IsLine
<1>2. m = [k \in K |-> m[k]] /\ \A k \in K : k \in Text /\ m[k] \in Text
  BY <1>1 DEF IsHeaders, PlainMap, IsPlain
<1> HIDE DEF m, K
<1>3. K \in SUBSET Text /\ m \in [K -> Text]
  BY <1>2
<1>4. m \in Maps
  BY <1>3 DEF Maps
<1> QED
  BY <1>1, <1>4 DEF Frames

LEMMA WordText ==
  ASSUME NEW w \in Words
  PROVE  /\ w \in Symbol /\ <<w>> \in Text /\ IsLine(<<w>>) /\ IsPlain(<<w>>)
         /\ ~Has(<<w>>, Colon) /\ ~Has(<<w>>, NL) /\ ~Has(<<w>>, NUL)
<1>1. w \in Symbol /\ w # NL /\ w # NUL /\ w # Colon
  BY WordsAssumption DEF Symbol
<1>2. <<w>> \in Text /\ Len(<<w>>) = 1
  BY <1>1, OneText
<1>3. <<w>> # <<>>
  BY <1>2, EmptyText
<1>4. ~Has(<<w>>, Colon) /\ ~Has(<<w>>, NL) /\ ~Has(<<w>>, NUL)
  BY <1>1, HasOne
<1> QED
  BY <1>1, <1>2, <1>3, <1>4 DEF IsLine, IsPlain

LEMMA OneHeader ==
  ASSUME NEW k \in Words, NEW v, IsPlain(v)
  PROVE  IsHeaders(Header(k, v)) /\ <<k>> \in DOMAIN Header(k, v)
<1>1. IsPlain(<<k>>) /\ ~Has(<<k>>, Colon)
  BY WordText
<1>2. IsFiniteSet({<<k>>})
  BY FS_Singleton
<1> QED
  BY <1>1, <1>2 DEF IsHeaders, PlainMap, Header

LEMMA MadeFrame ==
  ASSUME NEW command \in Words, NEW headers, IsHeaders(headers), NEW body \in Text
  PROVE  IsWritable(Frame(command, headers, body))
BY WordText DEF IsWritable, Frame

LEMMA ClientFrameFacts ==
  ASSUME NEW c \in Clients
  PROVE  /\ IsClientFrame(ConnectFrame(c)) /\ IsClientFrame(SubscribeFrame)
         /\ IsClientFrame(DisconnectFrame) /\ IsHeaders(Destination)
<1>1. /\ "CONNECT" \in Words /\ "SUBSCRIBE" \in Words /\ "DISCONNECT" \in Words
      /\ "login" \in Words /\ "channel" \in Words /\ "destination" \in Words
      /\ "receipt" \in Words /\ "Joined" \in Words /\ "Logout" \in Words /\ c \in Words
  BY FrameWordsAssumption
<1>2. /\ IsPlain(<<c>>) /\ IsPlain(<<"channel">>) /\ IsPlain(<<"Joined">>)
      /\ IsPlain(<<"Logout">>)
  BY <1>1, WordText
<1>3. IsHeaders(Header("login", <<c>>))
  BY <1>1, <1>2, OneHeader
<1>4. IsHeaders(Destination)
  BY <1>1, <1>2, OneHeader DEF Destination, Channel
<1>5. /\ IsHeaders(Header("receipt", <<"Logout">>))
      /\ <<"receipt">> \in DOMAIN Header("receipt", <<"Logout">>)
  BY <1>1, <1>2, OneHeader
<1> DEFINE K == {<<"destination">>, <<"receipt">>}
           m == [k \in K |-> IF k = <<"receipt">> THEN <<"Joined">> ELSE Channel]
<1>6. IsHeaders(m) /\ <<"receipt">> \in DOMAIN m
  <2>1. IsFiniteSet(K)
    <3>1. IsFiniteSet({<<"destination">>}) /\ IsFiniteSet({<<"receipt">>})
      BY FS_Singleton
    <3>2. K = {<<"destination">>} \cup {<<"receipt">>}
      OBVIOUS
    <3> QED
      BY <3>1, <3>2, FS_Union
  <2>2. \A k \in K : IsPlain(k) /\ ~Has(k, Colon)
    BY <1>1, WordText
  <2>3. \A k \in K : IsPlain(m[k])
    BY <1>2 DEF Channel
  <2> QED
    BY <2>1, <2>2, <2>3 DEF IsHeaders, PlainMap
<1>7. IsSendable(ConnectFrame(c))
  BY <1>1, <1>3, MadeFrame, EmptyText DEF IsSendable, ConnectFrame, Frame
<1>8. IsSendable(SubscribeFrame)
  BY <1>1, <1>6, MadeFrame, EmptyText DEF IsSendable, SubscribeFrame, Frame
<1>9. IsSendable(DisconnectFrame)
  BY <1>1, <1>5, MadeFrame, EmptyText DEF IsSendable, DisconnectFrame, Frame
<1>10. IsClientFrame(ConnectFrame(c))
  BY <1>7 DEF IsClientFrame, ConnectFrame, Frame, ClientCommands, WithReceipt
<1>11. IsClientFrame(SubscribeFrame)
  BY <1>6, <1>8 DEF IsClientFrame, SubscribeFrame, Frame, ClientCommands
<1>12. IsClientFrame(DisconnectFrame)
  BY <1>5, <1>9 DEF IsClientFrame, DisconnectFrame, Frame, ClientCommands
<1> QED
  BY <1>4, <1>10, <1>11, <1>12

-----------------------------------------------------------------------------
(* The body of a report *)

IsClean(t) == t \in Text /\ ~Has(t, NUL)

LEMMA CatClean ==
  ASSUME NEW s, NEW t, IsClean(s), IsClean(t)
  PROVE  IsClean(s \o t)
BY CatText, HasCat DEF IsClean

LEMMA WordClean ==
  ASSUME NEW w \in Words
  PROVE  IsClean(<<w>>)
BY WordText DEF IsClean

LEMMA SeparatorClean == IsClean(<<>>) /\ IsClean(<<NL>>) /\ IsClean(<<Colon>>)
BY EmptyText, OneText, HasOne, SymbolFacts DEF IsClean

LEMMA LineClean ==
  ASSUME NEW k, NEW v, IsClean(k), IsClean(v)
  PROVE  IsClean(Line(k, v))
<1>1. IsClean(k \o <<Colon>>)
  BY CatClean, SeparatorClean
<1>2. IsClean((k \o <<Colon>>) \o v)
  BY <1>1, CatClean
<1>3. IsClean(((k \o <<Colon>>) \o v) \o <<NL>>)
  BY <1>2, CatClean, SeparatorClean
<1> QED
  BY <1>3 DEF Line

IsCleanMap(map) ==
  IsFiniteSet(DOMAIN map) /\ \A k \in DOMAIN map : IsClean(k) /\ IsClean(map[k])

LEMMA LinesClean ==
  ASSUME NEW indent, NEW map, IsClean(indent), IsCleanMap(map)
  PROVE  IsClean(Lines(indent, map))
<1>1. IsMap(map) /\ indent \in Text
  BY DEF IsCleanMap, IsMap, IsClean
<1> DEFINE D == SUBSET (DOMAIN map)
<1>2. PICK it \in [D -> Text] :
        /\ it[{}] = <<>> /\ it[DOMAIN map] = Lines(indent, map)
        /\ \A S \in D : S # {} =>
             \E k \in S : it[S] = it[S \ {k}] \o (indent \o Line(k, map[k]))
  BY <1>1, LinesFold
<1> DEFINE size == [S \in D |-> Cardinality(S)]
           P == {S \in D : IsClean(it[S])}
<1>3. \A S \in D : IsFiniteSet(S) /\ Cardinality(S) \in Nat
  BY <1>1, FS_Subset, FS_CardinalityType DEF IsMap
<1>4. ASSUME NEW S \in D, \A U \in D : size[U] < size[S] => U \in P PROVE S \in P
  <2>1. CASE S = {}
    BY <1>2, <2>1, SeparatorClean
  <2>2. CASE S # {}
    <3>1. PICK k \in S : it[S] = it[S \ {k}] \o (indent \o Line(k, map[k]))
      BY <1>2, <2>2
    <3> DEFINE U == S \ {k}
    <3>2. U \in D /\ k \in DOMAIN map
      OBVIOUS
    <3>3. size[U] < size[S]
      <4>1. Cardinality(U) = Cardinality(S) - 1
        BY <1>3, FS_RemoveElement
      <4>2. Cardinality(S) \in Nat
        BY <1>3
      <4> HIDE DEF U
      <4>3. size[U] = Cardinality(U) /\ size[S] = Cardinality(S)
        BY <3>2
      <4> QED
        BY <4>1, <4>2, <4>3
    <3>4. IsClean(it[U])
      BY <1>4, <3>2, <3>3
    <3>5. IsClean(k) /\ IsClean(map[k])
      BY <3>2 DEF IsCleanMap
    <3>6. IsClean(indent \o Line(k, map[k]))
      BY <3>5, LineClean, CatClean
    <3>7. IsClean(it[U] \o (indent \o Line(k, map[k])))
      BY <3>4, <3>6, CatClean
    <3>8. IsClean(it[S])
      BY <3>1, <3>7
    <3> QED
      BY <3>8
  <2> QED
    BY <2>1, <2>2
<1>5. P = D
  <2>1. size \in [D -> Nat]
    BY <1>3
  <2> HIDE DEF P, size
  <2>2. P \in SUBSET D
    BY DEF P
  <2>3. IsInductive(P, D, size)
    BY <1>4 DEF IsInductive
  <2> HIDE DEF D
  <2> QED
    BY <2>1, <2>2, <2>3, SizeInduction
<1> QED
  BY <1>2, <1>5

LEMMA TwoSymbols ==
  ASSUME NEW a \in Symbol, NEW b \in Symbol
  PROVE  <<a>> \o <<b>> = <<a, b>>
<1>1. <<a>> \in Text /\ <<b>> \in Text /\ Len(<<a>>) = 1 /\ Len(<<b>>) = 1
  BY OneText
<1>2. <<a, b>> \in Text /\ Len(<<a, b>>) = 2
  BY DEF Text
<1> DEFINE s == <<a>> \o <<b>>
<1>3. s \in Text /\ Len(s) = 2 /\ s[1] = a /\ s[2] = b
  <2>1. /\ s \in Text /\ Len(s) = 2
        /\ \A i \in 1..2 : s[i] = IF i <= 1 THEN <<a>>[i] ELSE <<b>>[i - 1]
    BY <1>1, CatText
  <2>2. 1 \in 1..2 /\ 2 \in 1..2 /\ ~(2 <= 1) /\ 2 - 1 = 1
    OBVIOUS
  <2> QED
    BY <2>1, <2>2
<1> HIDE DEF s
<1>4. \A i \in 1..2 : i = 1 \/ i = 2
  OBVIOUS
<1>5. s = <<a, b>>
  BY <1>2, <1>3, <1>4, SameText
<1> QED
  BY <1>5 DEF s

LEMMA Tuples ==
  ASSUME NEW S, NEW a \in S, NEW b \in S, NEW c \in S, NEW d \in S, NEW e \in S,
         NEW f \in S, NEW g \in S
  PROVE  <<a, b, c, d, e>> \in Seq(S) /\ <<a, b, c, d, e, f, g>> \in Seq(S)
OBVIOUS

LEMMA BodyClean ==
  ASSUME NEW u, NEW e, IsClean(u), IsClean(e.city), IsClean(e.name), e.date \in Dates,
         IsClean(e.description), IsCleanMap(e.info)
  PROVE  IsClean(reportBody(u, e))
<1>1. \A w \in {" ", "user", "city", "event name", "date time", "general information",
                "d", "escription"} : w \in Words
  BY EventAssumption
<1>2. /\ IsClean(<<" ">>) /\ IsClean(<<"user">>) /\ IsClean(<<"city">>)
      /\ IsClean(<<"event name">>) /\ IsClean(<<"date time">>)
      /\ IsClean(<<"general information">>) /\ IsClean(<<"d">>) /\ IsClean(<<"escription">>)
  BY <1>1, WordClean
<1>3. IsClean(to_string(e.date))
  BY EventAssumption, WordClean DEF to_string
<1>4. IsClean(DescriptionKey)
  <2>1. IsClean(<<"d">> \o <<"escription">>)
    BY <1>2, CatClean
  <2>2. <<"d">> \o <<"escription">> = <<"d", "escription">>
    BY <1>1, WordText, TwoSymbols
  <2> QED
    BY <2>1, <2>2 DEF DescriptionKey
<1> DEFINE a == Line(<<"user">>, u)  b == Line(<<"city">>, e.city)
           c == Line(<<"event name">>, e.name)  d == Line(<<"date time">>, to_string(e.date))
           g == Line(<<"general information">>, <<>>)  i == Lines(<<" ">>, e.info)
           h == Line(DescriptionKey, <<>>)  t == e.description
<1>5. /\ IsClean(a) /\ IsClean(b) /\ IsClean(c) /\ IsClean(d) /\ IsClean(g)
      /\ IsClean(i) /\ IsClean(h) /\ IsClean(t) /\ IsClean(<<NL>>)
  BY <1>2, <1>3, <1>4, LineClean, LinesClean, SeparatorClean
<1>6. reportBody(u, e) = a \o b \o c \o d \o g \o i \o h \o t \o <<NL>>
  BY DEF reportBody, reportLines
<1> HIDE DEF a, b, c, d, g, i, h, t
<1>7. IsClean((((a \o b) \o c) \o d) \o g)
  BY <1>5, CatClean
<1>8. IsClean((((((a \o b) \o c) \o d) \o g) \o i) \o h)
  BY <1>5, <1>7, CatClean
<1>9. IsClean((((((((a \o b) \o c) \o d) \o g) \o i) \o h) \o t) \o <<NL>>)
  BY <1>5, <1>8, CatClean
<1> QED
  BY <1>6, <1>9

LEMMA ReportIsClientFrame ==
  ASSUME NEW u \in Users, NEW c \in Clients, NEW i \in 1..Len(u[c].file)
  PROVE  IsClientFrame(ReportFrame(c, u[c].file[i]))
<1> DEFINE e == u[c].file[i]
<1>1. /\ e.date \in Dates /\ IsFiniteSet(DOMAIN e.info)
      /\ \A t \in {e.city, e.name, e.description} \cup DOMAIN e.info \cup Range(e.info) :
           IsClean(t)
  BY FilesAssumption DEF IsClean
<1>2. IsClean(e.city) /\ IsClean(e.name) /\ IsClean(e.description)
  BY <1>1
<1>3. IsCleanMap(e.info)
  BY <1>1 DEF IsCleanMap, Range
<1>4. c \in Words /\ "SEND" \in Words
  BY FrameWordsAssumption
<1>5. IsClean(reportBody(<<c>>, e))
  <2> HIDE DEF e
  <2> QED
    BY <1>1, <1>2, <1>3, <1>4, WordClean, BodyClean
<1>6. IsSendable(ReportFrame(c, e))
  BY <1>4, <1>5, ClientFrameFacts, MadeFrame DEF IsClean, IsSendable, ReportFrame, Frame
<1>7. ReportFrame(c, e).command = <<"SEND">>
  BY DEF ReportFrame, Frame
<1>8. IsReportBody(ReportFrame(c, e).body)
  BY DEF ReportFrame, Frame, IsReportBody
<1> HIDE DEF e
<1> QED
  BY <1>6, <1>7, <1>8 DEF IsClientFrame, ClientCommands, WithReceipt, e

-----------------------------------------------------------------------------
(* The answers *)

MayAnswer(msg, f) ==
  /\ msg \in {"CONNECTED", "RECEIPT", "MESSAGE", "ERROR"}
  /\ msg = "RECEIPT" => f.command \in WithReceipt
  /\ msg = "MESSAGE" => f.command = <<"SEND">>

(* Every frame the server makes of a frame of a client can be read again. *)
LEMMA AnswerIsServerFrame ==
  ASSUME NEW f, IsClientFrame(f), NEW msg, MayAnswer(msg, f), NEW c \in Clients
  PROVE  IsServerFrame(Answer(msg, f))
<1>1. /\ "CONNECTED" \in Words /\ "RECEIPT" \in Words /\ "MESSAGE" \in Words
      /\ "ERROR" \in Words /\ "version" \in Words /\ "1.2" \in Words
      /\ "receipt-id" \in Words /\ "message" \in Words /\ "reason" \in Words
      /\ "The message" \in Words /\ "-----" \in Words /\ "Reason" \in Words /\ " " \in Words
  BY FrameWordsAssumption, EventAssumption
<1>2. IsSendable(f) /\ IsWritable(f) /\ f.body \in Text /\ ~Has(f.body, NUL)
  BY DEF IsClientFrame, IsSendable, IsWritable
<1>3. CASE msg = "CONNECTED"
  <2>1. IsHeaders(Header("version", <<"1.2">>))
    BY <1>1, WordText, OneHeader
  <2>2. IsWritable(Frame("CONNECTED", Header("version", <<"1.2">>), <<>>))
    BY <1>1, <2>1, EmptyText, MadeFrame
  <2> QED
    BY <1>3, <2>2, EmptyText DEF IsServerFrame, ServerCommands, Answer, Frame
<1>4. CASE msg = "RECEIPT"
  <2>1. IsPlain(f.headers[<<"receipt">>])
    BY <1>2, <1>4 DEF MayAnswer, IsClientFrame, IsWritable, IsHeaders, PlainMap
  <2> DEFINE m == Header("receipt-id", f.headers[<<"receipt">>])
  <2>2. IsHeaders(m)
    BY <1>1, <2>1, OneHeader
  <2> HIDE DEF m
  <2>3. IsWritable(Frame("RECEIPT", m, <<>>))
    BY <1>1, <2>2, EmptyText, MadeFrame
  <2> QED
    BY <1>4, <2>3, EmptyText DEF IsServerFrame, ServerCommands, Answer, Frame, m
<1>5. CASE msg = "MESSAGE"
  <2>1. IsWritable(Frame("MESSAGE", Destination, f.body))
    BY <1>1, <1>2, ClientFrameFacts, MadeFrame
  <2> QED
    BY <1>2, <1>5, <2>1 DEF IsServerFrame, ServerCommands, Answer, Frame, IsClientFrame, MayAnswer
<1>6. CASE msg = "ERROR"
  <2> DEFINE x == <<"The message", Colon, NL, "-----", NL>>
             y == <<NL, "-----", NL, "Reason", Colon, " ", "reason">>
             v == <<" ", "reason">>
  <2>1. /\ "The message" \in Symbol /\ "-----" \in Symbol /\ "Reason" \in Symbol
        /\ "reason" \in Symbol /\ " " \in Symbol
    BY <1>1 DEF Symbol
  <2>2. x \in Text /\ y \in Text
    BY <2>1, SymbolFacts, Tuples DEF Text
  <2>3. toString(f) \in Text
    <3>1. toString(f) \o <<>> \in Text
      BY <1>2, EmptyText, ParsedToString
    <3>2. toString(f) = FrameLines(f) \o BodyLine(f) \o <<NUL>>
      BY DEF toString, BodyLine
    <3>3. FrameLines(f) \in Text /\ BodyLine(f) \in Text /\ <<NUL>> \in Text
      BY <1>2, LinesHaveNoNUL, BodyLineText, OneText, SymbolFacts
    <3> DEFINE p == FrameLines(f)  q == BodyLine(f)  z == <<NUL>>
    <3>4. p \in Text /\ q \in Text /\ z \in Text
      BY <3>3
    <3> HIDE DEF p, q, z
    <3>5. (p \o q) \o z \in Text
      BY <3>4, CatText
    <3> QED
      BY <3>2, <3>5 DEF p, q, z
  <2>4. (x \o toString(f)) \o y \in Text
    <3> HIDE DEF x, y
    <3> DEFINE s == toString(f)
    <3>1. s \in Text
      BY <2>3
    <3> HIDE DEF s
    <3>2. (x \o s) \o y \in Text
      BY <2>2, <3>1, CatText
    <3> QED
      BY <3>2 DEF s
  <2>5. IsPlain(v)
    <3>1. IsPlain(<<" ">>) /\ IsPlain(<<"reason">>)
      BY <1>1, WordText
    <3>2. v = <<" ">> \o <<"reason">>
      BY <2>1, TwoSymbols
    <3> DEFINE p == <<" ">>  q == <<"reason">>
    <3>3. IsPlain(p) /\ IsPlain(q)
      BY <3>1
    <3> HIDE DEF p, q
    <3>4. IsPlain(p \o q)
      BY <3>3, CatText, HasCat DEF IsPlain
    <3> QED
      BY <3>2, <3>4 DEF p, q
  <2> HIDE DEF x, y, v
  <2>6. IsHeaders(Header("message", v))
    BY <1>1, <2>5, OneHeader
  <2> DEFINE b == (x \o toString(f)) \o y  m == Header("message", v)
  <2>7. b \in Text /\ IsHeaders(m)
    BY <2>4, <2>6
  <2>8. Answer(msg, f) = Frame("ERROR", m, b)
    BY <1>6 DEF Answer, x, y, v
  <2> HIDE DEF b, m
  <2>9. IsWritable(Frame("ERROR", m, b))
    BY <1>1, <2>7, MadeFrame
  <2> QED
    BY <2>8, <2>9 DEF IsServerFrame, ServerCommands, Frame, Is
<1> QED
  BY <1>3, <1>4, <1>5, <1>6 DEF MayAnswer

-----------------------------------------------------------------------------
(* The streams *)

asSent == [f \in ClientFrames |-> serialize(f)]
asWritten == [f \in ServerFrames |-> toString(f)]

CarriesSent(t, fs) == Carries(t, fs, asSent, ClientFrames)
CarriesWritten(t, fs) == Carries(t, fs, asWritten, ServerFrames)

LEMMA FrameTexts ==
  /\ \A f \in ClientFrames : /\ asSent[f] = serialize(f) /\ asSent[f] \in Text
                             /\ IsClientFrame(f) /\ IsSendable(f)
  /\ \A f \in ServerFrames : /\ asWritten[f] = toString(f) /\ asWritten[f] \in Text
                             /\ IsServerFrame(f) /\ IsWritable(f)
<1>1. ASSUME NEW f, IsWritable(f) PROVE serialize(f) \in Text /\ toString(f) \in Text
  <2> DEFINE p == FrameLines(f)  q == BodyLine(f)  z == <<NUL>>  b == f.body
  <2>1. p \in Text /\ q \in Text /\ z \in Text /\ b \in Text
    BY <1>1, LinesHaveNoNUL, BodyLineText, OneText, SymbolFacts DEF IsWritable
  <2>2. serialize(f) = (p \o b) \o z /\ toString(f) = (p \o q) \o z
    BY DEF serialize, toString, BodyLine
  <2> HIDE DEF p, q, z, b
  <2>3. (p \o b) \o z \in Text /\ (p \o q) \o z \in Text
    BY <2>1, CatText
  <2> QED
    BY <2>2, <2>3
<1>2. \A f \in ClientFrames : IsClientFrame(f) /\ IsSendable(f) /\ IsWritable(f)
  BY DEF ClientFrames, IsClientFrame, IsSendable
<1>3. \A f \in ServerFrames : IsServerFrame(f) /\ IsWritable(f)
  BY DEF ServerFrames, IsServerFrame
<1> QED
  BY <1>1, <1>2, <1>3 DEF asSent, asWritten

LEMMA NothingCarried == CarriesSent(<<>>, <<>>) /\ CarriesWritten(<<>>, <<>>)
BY FrameTexts, CarriesNothing DEF CarriesSent, CarriesWritten

LEMMA MoreSent ==
  ASSUME NEW t, NEW fs, CarriesSent(t, fs), NEW f, IsClientFrame(f)
  PROVE  CarriesSent(t \o serialize(f), Append(fs, f))
<1>1. f \in ClientFrames
  BY WritableFrame DEF ClientFrames, IsClientFrame, IsSendable
<1>2. asSent[f] = serialize(f)
  BY <1>1, FrameTexts
<1>3. Carries(t \o asSent[f], Append(fs, f), asSent, ClientFrames)
  BY <1>1, CarriesMore DEF CarriesSent
<1> QED
  BY <1>2, <1>3 DEF CarriesSent

LEMMA MoreWritten ==
  ASSUME NEW t, NEW fs, CarriesWritten(t, fs), NEW f, IsServerFrame(f)
  PROVE  CarriesWritten(t \o toString(f), Append(fs, f))
<1>1. f \in ServerFrames
  BY WritableFrame DEF ServerFrames, IsServerFrame
<1>2. asWritten[f] = toString(f)
  BY <1>1, FrameTexts
<1>3. Carries(t \o asWritten[f], Append(fs, f), asWritten, ServerFrames)
  BY <1>1, CarriesMore DEF CarriesWritten
<1> QED
  BY <1>2, <1>3 DEF CarriesWritten

(* what the decoder makes of the stream of a client *)
LEMMA FirstSent ==
  ASSUME NEW t, NEW fs, CarriesSent(t, fs), FrameReady(t), NEW d, IsReady(d)
  PROVE  LET result == decodeMessage(d, getFrameAscii(t))
         IN  /\ fs # <<>> /\ result.frame = Head(fs) /\ IsClientFrame(Head(fs))
             /\ IsReady(result.decoder) /\ CarriesSent(AfterFrame(t), Tail(fs))
<1>1. fs # <<>>
  BY CarriesHead, EmptyText DEF CarriesSent, FrameReady
<1> DEFINE f == Head(fs)
<1>2. f \in ClientFrames /\ \E r \in Text : t = asSent[f] \o r /\ CarriesSent(r, Tail(fs))
  BY <1>1, CarriesHead DEF CarriesSent
<1> HIDE DEF f
<1>3. PICK r \in Text : t = asSent[f] \o r /\ CarriesSent(r, Tail(fs))
  BY <1>2
<1>4. IsClientFrame(f) /\ IsSendable(f) /\ t = serialize(f) \o r
  BY <1>2, <1>3, FrameTexts
<1>5. /\ AfterFrame(t) = r
      /\ decodeMessage(d, getFrameAscii(t)).frame = f
      /\ IsReady(decodeMessage(d, getFrameAscii(t)).decoder)
  BY <1>3, <1>4, DecodedSerialized
<1> QED
  BY <1>1, <1>3, <1>4, <1>5 DEF f

(* What a client makes of its stream: o is what the server has buffered. *)
LEMMA FirstWritten ==
  ASSUME NEW t \in Text, NEW o \in Text, NEW fs, CarriesWritten(t \o o, fs), FrameReady(t)
  PROVE  /\ fs # <<>> /\ IsServerFrame(Head(fs)) /\ AfterFrame(t) \in Text
         /\ parseFrame[getFrameAscii(t)] = [Head(fs) EXCEPT !.body = BodyRead(Head(fs))]
         /\ ~Has(Head(fs).body, NUL) => CarriesWritten(AfterFrame(t) \o o, Tail(fs))
<1> DEFINE x == t \o o  w == Head(fs)
<1>1. /\ Has(x, NUL) /\ getFrameAscii(t) = getFrameAscii(x)
      /\ AfterFrame(x) = AfterFrame(t) \o o
  BY CutOfMore, SymbolFacts DEF FrameReady, getFrameAscii, AfterFrame
<1>2. AfterFrame(t) \in Text
  BY CutText DEF FrameReady, AfterFrame
<1> HIDE DEF x
<1>3. CarriesWritten(x, fs)
  BY DEF x
<1>4. fs # <<>>
  BY <1>1, <1>3, CarriesHead, EmptyText DEF CarriesWritten
<1>5. w \in ServerFrames /\ \E r \in Text : x = asWritten[w] \o r /\ CarriesWritten(r, Tail(fs))
  BY <1>3, <1>4, CarriesHead DEF CarriesWritten
<1> HIDE DEF w
<1>6. PICK r \in Text : x = asWritten[w] \o r /\ CarriesWritten(r, Tail(fs))
  BY <1>5
<1>7. IsServerFrame(w) /\ IsWritable(w) /\ x = toString(w) \o r
  BY <1>5, <1>6, FrameTexts
<1>8. /\ parseFrame[getFrameAscii(x)] = [w EXCEPT !.body = BodyRead(w)]
      /\ ~Has(w.body, NUL) => AfterFrame(x) = r
  BY <1>6, <1>7, ParsedToString
<1>9. ~Has(w.body, NUL) => CarriesWritten(AfterFrame(t) \o o, Tail(fs))
  BY <1>1, <1>6, <1>8
<1> QED
  BY <1>1, <1>2, <1>4, <1>7, <1>8, <1>9 DEF w

-----------------------------------------------------------------------------
(* The invariant *)

PCs == {"none", "run", "nextEntry", "write", "flush", "terminate", "disconnect", "ended"}
Msgs == {"none", "CONNECTED", "RECEIPT", "MESSAGE", "ERROR"}
Threads == [pc : PCs, frame : Frames, msg : Msgs, to : Clients \cup {"nobody"},
            visited : SUBSET Clients]

(* What a thread is about to send answers the frame it has decoded. *)
ThreadOK(t) ==
  /\ t.pc \in {"write", "flush"} =>
       IsClientFrame(t.frame) /\ MayAnswer(t.msg, t.frame) /\ t.to \in Clients
  /\ t.pc = "nextEntry" => IsClientFrame(t.frame) /\ t.frame.command = <<"SEND">>
AllThreads(th) == th \in [Clients -> Threads] /\ \A c \in Clients : ThreadOK(th[c])

ClientTypes ==
  /\ user \in Users
  /\ link \in [Clients -> {"none", "up", "left"}]
  /\ main \in [Clients -> {"start", "prompt", "logout"}]
  /\ isConnected \in [Clients -> BOOLEAN] /\ hasSubscription \in [Clients -> BOOLEAN]
  /\ handled \in [Clients -> Frames]
  /\ reported \in [Clients -> Nat] /\ \A c \in Clients : reported[c] <= Len(user[c].file)

ServerTypes ==
  /\ decoder \in [Clients -> {d \in Decoders : IsReady(d)}]
  /\ connected \in [Clients -> BOOLEAN] /\ closed \in [Clients -> BOOLEAN]
  /\ protocol \in [Clients -> [connected : BOOLEAN, subscribed : BOOLEAN,
                               shouldTerminate : BOOLEAN]]
  /\ activeConnections \subseteq Clients /\ subscribers \subseteq Clients

(* The bytes on their way to the server are the frames that were sent; the    *)
(* bytes for a client, on their way or buffered, are those that were written. *)
Streams ==
  /\ toServer \in [Clients -> Text] /\ toClient \in [Clients -> Text]
  /\ out \in [Clients -> Text]
  /\ sent \in [Clients -> Seq(ClientFrames)] /\ written \in [Clients -> Seq(ServerFrames)]
  /\ \A c \in Clients : CarriesSent(toServer[c], sent[c])
  /\ \A c \in Clients : link[c] # "left" => CarriesWritten(toClient[c] \o out[c], written[c])

IInv == ClientTypes /\ ServerTypes /\ AllThreads(thread) /\ Streams

-----------------------------------------------------------------------------
(* Threads *)

LEMMA NoFrameIsFrame == NoFrame \in Frames
<1>1. "none" \in Words
  BY FrameWordsAssumption
<1>2. <<"none">> \in Text
  BY <1>1, WordText
<1>3. NoHeaders \in [{} -> Text] /\ {} \in SUBSET Text
  BY DEF NoHeaders
<1>4. NoHeaders \in Maps
  BY <1>3 DEF Maps
<1> QED
  BY <1>2, <1>4, EmptyText DEF NoFrame, Frame, Frames

LEMMA ClientFrameType ==
  ASSUME NEW f, IsClientFrame(f)
  PROVE  f \in Frames
BY WritableFrame DEF IsClientFrame, IsSendable

LEMMA NewThread ==
  ASSUME NEW th, AllThreads(th), NEW c \in Clients, NEW t \in Threads, ThreadOK(t)
  PROVE  AllThreads([th EXCEPT ![c] = t])
<1> DEFINE g == [th EXCEPT ![c] = t]
<1>1. th \in [Clients -> Threads] /\ \A d \in Clients : ThreadOK(th[d])
  BY DEF AllThreads
<1>2. g \in [Clients -> Threads] /\ \A d \in Clients : g[d] = IF d = c THEN t ELSE th[d]
  BY <1>1
<1> HIDE DEF g
<1>3. \A d \in Clients : ThreadOK(g[d])
  BY <1>1, <1>2
<1> QED
  BY <1>2, <1>3 DEF AllThreads, g

LEMMA GotoThread ==
  ASSUME NEW th, AllThreads(th), NEW c \in Clients,
         NEW pc \in {"run", "terminate", "disconnect", "ended"}
  PROVE  AllThreads([th EXCEPT ![c].pc = pc])
<1> DEFINE t == [th[c] EXCEPT !.pc = pc]
<1>1. th[c] \in Threads /\ th \in [Clients -> Threads]
  BY DEF AllThreads
<1>2. t \in Threads /\ t.pc = pc
  BY <1>1 DEF Threads, PCs
<1>3. [th EXCEPT ![c].pc = pc] = [th EXCEPT ![c] = t]
  BY <1>1
<1> HIDE DEF t
<1>4. ThreadOK(t)
  BY <1>2 DEF ThreadOK
<1>5. AllThreads([th EXCEPT ![c] = t])
  BY <1>2, <1>4, NewThread
<1> QED
  BY <1>3, <1>5

LEMMA AfterSendPC ==
  ASSUME NEW f, NEW msg, MayAnswer(msg, f)
  PROVE  /\ AfterSend(f, msg) \in {"nextEntry", "run", "terminate", "disconnect"}
         /\ AfterSend(f, msg) = "nextEntry" => f.command = <<"SEND">>
<1>1. msg \in {"CONNECTED", "RECEIPT", "MESSAGE", "ERROR"}
      /\ (msg = "MESSAGE" => f.command = <<"SEND">>)
  BY DEF MayAnswer
<1>2. CASE msg = "MESSAGE"
  <2>1. f.command = <<"SEND">> /\ ~Is(f, "DISCONNECT") /\ msg # "ERROR"
    BY <1>1, <1>2 DEF Is
  <2> QED
    BY <1>2, <2>1 DEF AfterSend
<1>3. CASE msg # "MESSAGE"
  BY <1>3 DEF AfterSend
<1> QED
  BY <1>2, <1>3

LEMMA SendToThread ==
  ASSUME AllThreads(thread), NEW c \in Clients, NEW f, IsClientFrame(f), NEW msg,
         MayAnswer(msg, f), NEW to \in Clients, NEW visited \in SUBSET Clients,
         SendTo(c, f, to, msg, visited)
  PROVE  AllThreads(thread') /\ thread'[c].frame = f
<1> DEFINE pc == IF to \in activeConnections THEN "write" ELSE AfterSend(f, msg)
           t == [pc |-> pc, frame |-> f, msg |-> msg, to |-> to, visited |-> visited]
<1>1. thread' = [thread EXCEPT ![c] = t]
  BY DEF SendTo
<1>2. pc \in PCs /\ (pc = "nextEntry" => f.command = <<"SEND">>)
  BY AfterSendPC DEF PCs
<1>3. msg \in Msgs /\ f \in Frames
  BY ClientFrameType DEF MayAnswer, Msgs
<1> HIDE DEF pc
<1>4. t \in Threads
  BY <1>2, <1>3 DEF Threads
<1>5. ThreadOK(t)
  BY <1>2 DEF ThreadOK
<1>6. t.frame = f
  OBVIOUS
<1> HIDE DEF t
<1>7. AllThreads([thread EXCEPT ![c] = t])
  BY <1>4, <1>5, NewThread
<1>8. [thread EXCEPT ![c] = t][c] = t
  BY DEF AllThreads
<1> QED
  BY <1>1, <1>6, <1>7, <1>8

LEMMA ReturnThread ==
  ASSUME AllThreads(thread), NEW c \in Clients, At(c, "write") \/ At(c, "flush"), Return(c)
  PROVE  AllThreads(thread')
<1> DEFINE s == thread[c]  pc == AfterSend(s.frame, s.msg)  t == [s EXCEPT !.pc = pc]
<1>1. s \in Threads /\ ThreadOK(s) /\ s.pc \in {"write", "flush"} /\ thread \in [Clients -> Threads]
  BY DEF AllThreads, At
<1>2. IsClientFrame(s.frame) /\ MayAnswer(s.msg, s.frame)
  BY <1>1 DEF ThreadOK
<1>3. thread' = [thread EXCEPT ![c] = t]
  BY <1>1 DEF Return, Goto
<1> HIDE DEF s
<1>4. /\ pc \in {"nextEntry", "run", "terminate", "disconnect"}
      /\ pc = "nextEntry" => s.frame.command = <<"SEND">>
  BY <1>2, AfterSendPC
<1> HIDE DEF pc
<1>5. t \in Threads /\ t.pc = pc /\ t.frame = s.frame
  BY <1>1, <1>4 DEF Threads, PCs
<1> HIDE DEF t
<1>6. ThreadOK(t)
  BY <1>2, <1>4, <1>5 DEF ThreadOK
<1> QED
  BY <1>3, <1>5, <1>6, NewThread

-----------------------------------------------------------------------------
(* The clients *)

(* A link that is left stays left. *)
NeverBack == \A c \in Clients : link'[c] # "left" => link[c] # "left"

LEMMA StreamsSame ==
  ASSUME Streams, NeverBack, UNCHANGED <<toServer, toClient, out, sent, written>>
  PROVE  Streams'
BY DEF Streams, NeverBack

LEMMA SendStreams ==
  ASSUME Streams, NeverBack, NEW c \in Clients, NEW f, IsClientFrame(f), Send(c, f)
  PROVE  Streams'
<1>1. /\ toServer \in [Clients -> Text] /\ toClient \in [Clients -> Text]
      /\ out \in [Clients -> Text]
      /\ sent \in [Clients -> Seq(ClientFrames)] /\ written \in [Clients -> Seq(ServerFrames)]
      /\ \A d \in Clients : CarriesSent(toServer[d], sent[d])
      /\ \A d \in Clients :
           link[d] # "left" => CarriesWritten(toClient[d] \o out[d], written[d])
  BY DEF Streams
<1> DEFINE t == toServer[c] \o serialize(f)  fs == Append(sent[c], f)
<1>2. /\ toServer' = [toServer EXCEPT ![c] = t] /\ sent' = [sent EXCEPT ![c] = fs]
      /\ toClient' = toClient /\ out' = out /\ written' = written
  BY DEF Send, serverVars, handlerVars
<1>3. CarriesSent(t, fs)
  BY <1>1, MoreSent
<1>4. t \in Text /\ fs \in Seq(ClientFrames)
  BY <1>3 DEF CarriesSent, Carries
<1> HIDE DEF t, fs
<1>5. toServer' \in [Clients -> Text] /\ sent' \in [Clients -> Seq(ClientFrames)]
  BY <1>1, <1>2, <1>4
<1>6. \A d \in Clients : CarriesSent(toServer'[d], sent'[d])
  BY <1>1, <1>2, <1>3
<1>7. \A d \in Clients :
        link'[d] # "left" => CarriesWritten(toClient'[d] \o out'[d], written'[d])
  BY <1>1, <1>2 DEF NeverBack
<1> QED
  BY <1>1, <1>2, <1>5, <1>6, <1>7 DEF Streams

LEMMA SendStep ==
  ASSUME IInv, NeverBack, NEW c \in Clients, NEW f, IsClientFrame(f), Send(c, f), ClientTypes'
  PROVE  IInv'
<1>1. /\ UNCHANGED <<thread, decoder, connected, closed, protocol, activeConnections, subscribers>>
      /\ ServerTypes /\ AllThreads(thread) /\ Streams
  BY DEF Send, serverVars, handlerVars, IInv
<1>2. Streams'
  BY <1>1, SendStreams
<1>3. ServerTypes'
  BY <1>1 DEF ServerTypes
<1>4. AllThreads(thread')
  BY <1>1
<1> QED
  BY <1>2, <1>3, <1>4 DEF IInv

LEMMA LoginStep ==
  ASSUME IInv, NEW c \in Clients, Login(c)
  PROVE  IInv'
<1>1. NeverBack
  BY DEF IInv, ClientTypes, Login, NeverBack
<1>2. ClientTypes'
  BY DEF IInv, ClientTypes, Login, Send
<1>3. Send(c, ConnectFrame(c)) /\ IsClientFrame(ConnectFrame(c))
  BY ClientFrameFacts DEF Login
<1> QED
  BY <1>1, <1>2, <1>3, SendStep

LEMMA JoinStep ==
  ASSUME IInv, NEW c \in Clients, Join(c)
  PROVE  IInv'
<1>1. NeverBack
  BY DEF Join, NeverBack
<1>2. ClientTypes'
  BY DEF IInv, ClientTypes, Join, Send
<1>3. Send(c, SubscribeFrame) /\ IsClientFrame(SubscribeFrame)
  BY ClientFrameFacts DEF Join
<1> QED
  BY <1>1, <1>2, <1>3, SendStep

LEMMA LogoutStep ==
  ASSUME IInv, NEW c \in Clients, Logout(c)
  PROVE  IInv'
<1>1. NeverBack
  BY DEF Logout, NeverBack
<1>2. ClientTypes'
  BY DEF IInv, ClientTypes, Logout, Send
<1>3. Send(c, DisconnectFrame) /\ IsClientFrame(DisconnectFrame)
  BY ClientFrameFacts DEF Logout
<1> QED
  BY <1>1, <1>2, <1>3, SendStep

LEMMA FileLength ==
  ASSUME NEW u \in Users, NEW c \in Clients
  PROVE  Len(u[c].file) \in Nat
BY BlockingAssumption

LEMMA ReportStep ==
  ASSUME IInv, NEW c \in Clients, Report(c)
  PROVE  IInv'
<1>1. NeverBack
  BY DEF Report, NeverBack
<1> DEFINE i == reported[c] + 1
<1>2. /\ user \in Users /\ user' = user /\ reported \in [Clients -> Nat]
      /\ reported[c] < Len(user[c].file)
      /\ reported' = [reported EXCEPT ![c] = i]
      /\ \A d \in Clients : reported[d] <= Len(user[d].file)
  BY DEF IInv, ClientTypes, Report, Send
<1>3. Len(user[c].file) \in Nat
  BY <1>2, FileLength
<1>4. i \in 1..Len(user[c].file) /\ i \in Nat
  BY <1>2, <1>3
<1>5. reported' \in [Clients -> Nat] /\ \A d \in Clients : reported'[d] <= Len(user'[d].file)
  BY <1>2, <1>4
<1>6. ClientTypes'
  BY <1>2, <1>5 DEF IInv, ClientTypes, Report, Send
<1>7. Send(c, ReportFrame(c, user[c].file[i])) /\ IsClientFrame(ReportFrame(c, user[c].file[i]))
  BY <1>2, <1>4, ReportIsClientFrame DEF Report
<1> QED
  BY <1>1, <1>6, <1>7, SendStep

LEMMA LinkLostStep ==
  ASSUME IInv, NEW c \in Clients, LinkLost(c)
  PROVE  IInv'
<1>1. /\ link' = [link EXCEPT ![c] = "left"]
      /\ UNCHANGED <<thread, decoder, connected, closed, out, protocol, activeConnections,
                     subscribers, user, main, isConnected, hasSubscription, handled,
                     toServer, toClient, reported, sent, written>>
  BY DEF LinkLost, serverVars, handlerVars
<1>2. ClientTypes'
  BY <1>1 DEF IInv, ClientTypes
<1>3. NeverBack
  BY <1>1 DEF NeverBack, IInv, ClientTypes
<1>4. Streams'
  BY <1>1, <1>3, StreamsSame DEF IInv
<1>5. ServerTypes' /\ AllThreads(thread')
  BY <1>1 DEF IInv, ServerTypes
<1> QED
  BY <1>2, <1>4, <1>5 DEF IInv

(* The frame that a client receives, and what is left of its stream. *)
LEMMA ReceiveFacts ==
  ASSUME IInv, NEW c \in Clients, ReceiveFrame(c)
  PROVE  /\ written[c] # <<>> /\ IsServerFrame(Head(written[c]))
         /\ handled'[c] = [Head(written[c]) EXCEPT !.body = BodyRead(Head(written[c]))]
         /\ handled' \in [Clients -> Frames] /\ AfterFrame(toClient[c]) \in Text
         /\ ~Has(Head(written[c]).body, NUL) =>
              CarriesWritten(AfterFrame(toClient[c]) \o out[c], Tail(written[c]))
<1> DEFINE t == toClient[c]  o == out[c]  fs == written[c]  w == Head(fs)
           f == parseFrame[getFrameAscii(t)]
<1>1. /\ link[c] = "up" /\ FrameReady(t)
      /\ t \in Text /\ o \in Text /\ (link[c] # "left" => CarriesWritten(t \o o, fs))
  BY DEF IInv, Streams, ReceiveFrame, TakeFrame
<1>2. handled \in [Clients -> Frames]
  BY DEF IInv, ClientTypes
<1>3. handled' = [handled EXCEPT ![c] = f]
  BY DEF ReceiveFrame
<1> HIDE DEF t, o, fs
<1>4. /\ fs # <<>> /\ IsServerFrame(w) /\ AfterFrame(t) \in Text
      /\ f = [w EXCEPT !.body = BodyRead(w)]
      /\ ~Has(w.body, NUL) => CarriesWritten(AfterFrame(t) \o o, Tail(fs))
  BY <1>1, FirstWritten
<1> HIDE DEF f, w
<1>5. f \in Frames
  <2>1. w \in Frames /\ IsWritable(w)
    BY <1>4, WritableFrame DEF IsServerFrame
  <2>2. BodyLine(w) \in Text
    BY <2>1, BodyLineText DEF IsWritable
  <2>3. BodyRead(w) \in Text
    BY <2>2, CutText DEF BodyRead, getFrameAscii
  <2> QED
    BY <1>4, <2>1, <2>3 DEF Frames
<1>6. handled'[c] = f /\ handled' \in [Clients -> Frames]
  BY <1>2, <1>3, <1>5
<1> QED
  BY <1>4, <1>6 DEF t, o, fs, w

LEMMA ReceiveFrameStep ==
  ASSUME IInv, NEW c \in Clients, ReceiveFrame(c)
  PROVE  IInv'
<1> DEFINE f == parseFrame[getFrameAscii(toClient[c])]  a == AfterFrame(toClient[c])
           w == Head(written[c])
<1>1. /\ toClient' = [toClient EXCEPT ![c] = a]
      /\ written' = [written EXCEPT ![c] = Rest(@)]
      /\ handled' = [handled EXCEPT ![c] = f]
      /\ isConnected' = [isConnected EXCEPT ![c] = @ \/ Is(f, "CONNECTED")]
      /\ link' = [link EXCEPT ![c] = IF Stops(f) THEN "left" ELSE @]
      /\ UNCHANGED <<thread, decoder, connected, closed, out, protocol, activeConnections,
                     subscribers, user, main, hasSubscription, toServer, reported, sent>>
  BY DEF ReceiveFrame, TakeFrame, serverVars, handlerVars
<1>2. ClientTypes /\ ServerTypes /\ AllThreads(thread) /\ Streams
  BY DEF IInv
<1>3. /\ written[c] # <<>> /\ IsServerFrame(w) /\ a \in Text
      /\ handled'[c] = [w EXCEPT !.body = BodyRead(w)] /\ handled' \in [Clients -> Frames]
      /\ ~Has(w.body, NUL) => CarriesWritten(a \o out[c], Tail(written[c]))
  BY ReceiveFacts
<1>4. f.command = w.command
  <2>1. handled'[c] = f
    BY <1>1, <1>2 DEF ClientTypes
  <2>2. handled'[c] = [w EXCEPT !.body = BodyRead(w)]
    BY <1>3
  <2>3. [w EXCEPT !.body = BodyRead(w)].command = w.command
    BY <1>3 DEF IsServerFrame, IsWritable
  <2> QED
    BY <2>1, <2>2, <2>3
<1>5. Has(w.body, NUL) => link'[c] = "left"
  BY <1>1, <1>2, <1>3, <1>4 DEF IsServerFrame, Is, Stops, ClientTypes
<1> HIDE DEF f, a
<1>6. NeverBack
  BY <1>1, <1>2 DEF NeverBack, ClientTypes
<1>7. ClientTypes'
  BY <1>1, <1>2, <1>3 DEF ClientTypes, Is
<1>8. ServerTypes' /\ AllThreads(thread')
  BY <1>1, <1>2 DEF ServerTypes
<1>9. Rest(written[c]) = Tail(written[c]) /\ Tail(written[c]) \in Seq(ServerFrames)
  BY <1>2, <1>3, HeadTailProperties DEF Rest, Streams
<1>10. /\ toClient' \in [Clients -> Text] /\ written' \in [Clients -> Seq(ServerFrames)]
       /\ toClient'[c] = a /\ written'[c] = Tail(written[c])
       /\ \A d \in Clients \ {c} : toClient'[d] = toClient[d] /\ written'[d] = written[d]
  BY <1>1, <1>2, <1>3, <1>9 DEF Streams
<1>11. ASSUME NEW d \in Clients, link'[d] # "left"
       PROVE  CarriesWritten(toClient'[d] \o out'[d], written'[d])
  <2>1. link[d] # "left"
    BY <1>6, <1>11 DEF NeverBack
  <2>2. CASE d = c
    BY <1>1, <1>3, <1>5, <1>10, <1>11, <2>2
  <2>3. CASE d # c
    BY <1>1, <1>2, <1>10, <2>1, <2>3 DEF Streams
  <2> QED
    BY <2>2, <2>3
<1>12. Streams'
  BY <1>1, <1>2, <1>10, <1>11 DEF Streams
<1> QED
  BY <1>7, <1>8, <1>12 DEF IInv

-----------------------------------------------------------------------------
(* The server *)

LEMMA SameClients ==
  ASSUME IInv, UNCHANGED <<clientVars, reported>>
  PROVE  ClientTypes' /\ NeverBack
BY DEF IInv, ClientTypes, clientVars, NeverBack

(* a step of a thread that leaves the streams alone *)
LEMMA InnerStep ==
  ASSUME IInv, ClientsSame, UNCHANGED <<written, toServer, toClient, out>>,
         ServerTypes', AllThreads(thread')
  PROVE  IInv'
<1>1. ClientTypes' /\ NeverBack
  BY SameClients DEF ClientsSame
<1>2. Streams'
  BY <1>1, StreamsSame DEF IInv, ClientsSame
<1> QED
  BY <1>1, <1>2 DEF IInv

LEMMA AcceptStep ==
  ASSUME IInv, NEW c \in Clients, Accept(c)
  PROVE  IInv'
<1>1. ServerTypes'
  BY DEF IInv, ServerTypes, Accept, HandlerSame
<1>2. AllThreads(thread')
  BY GotoThread DEF IInv, Accept, Goto
<1> QED
  BY <1>1, <1>2, InnerStep DEF Accept, HandlerSame

LEMMA EndRunStep ==
  ASSUME IInv, NEW c \in Clients, EndRun(c)
  PROVE  IInv'
<1>1. ServerTypes'
  BY DEF IInv, ServerTypes, EndRun
<1>2. AllThreads(thread')
  BY GotoThread DEF IInv, EndRun, Goto
<1> QED
  BY <1>1, <1>2, InnerStep DEF EndRun

LEMMA MarkForTerminationStep ==
  ASSUME IInv, NEW c \in Clients, MarkForTermination(c)
  PROVE  IInv'
<1>1. ServerTypes'
  BY DEF IInv, ServerTypes, MarkForTermination, HandlerSame
<1>2. AllThreads(thread')
  BY GotoThread DEF IInv, MarkForTermination, Goto
<1> QED
  BY <1>1, <1>2, InnerStep DEF MarkForTermination, HandlerSame

LEMMA DisconnectStep ==
  ASSUME IInv, NEW c \in Clients, Disconnect(c)
  PROVE  IInv'
<1>1. ServerTypes'
  BY DEF IInv, ServerTypes, Disconnect, HandlerSame
<1>2. AllThreads(thread')
  BY GotoThread DEF IInv, Disconnect, Goto
<1> QED
  BY <1>1, <1>2, InnerStep DEF Disconnect, HandlerSame

LEMMA NextEntryStep ==
  ASSUME IInv, NEW c \in Clients, NextEntry(c)
  PROVE  IInv'
<1>1. ServerTypes'
  BY DEF IInv, ServerTypes, NextEntry, HandlerSame
<1> DEFINE f == thread[c].frame
<1>2. AllThreads(thread) /\ subscribers \subseteq Clients
  BY DEF IInv, ServerTypes
<1>3. IsClientFrame(f) /\ f.command = <<"SEND">> /\ thread[c].visited \in SUBSET Clients
  BY <1>2 DEF AllThreads, ThreadOK, NextEntry, At, Threads
<1>4. MayAnswer("MESSAGE", f)
  BY <1>3 DEF MayAnswer
<1>5. CASE \E d \in subscribers \ thread[c].visited :
             SendTo(c, f, d, "MESSAGE", thread[c].visited \cup {d})
  <2>1. PICK d \in subscribers : SendTo(c, f, d, "MESSAGE", thread[c].visited \cup {d})
    BY <1>5
  <2> DEFINE v == thread[c].visited \cup {d}
  <2>2. d \in Clients /\ v \in SUBSET Clients
    BY <1>2, <1>3, <2>1
  <2>3. SendTo(c, f, d, "MESSAGE", v)
    BY <2>1
  <2> HIDE DEF f, v
  <2>4. AllThreads(thread')
    BY <1>2, <1>3, <1>4, <2>2, <2>3, SendToThread
  <2> QED
    BY <1>1, <2>4, InnerStep DEF NextEntry, HandlerSame
<1>6. CASE Goto(c, "run")
  <2>1. AllThreads(thread')
    BY <1>2, <1>6, GotoThread DEF Goto
  <2> QED
    BY <1>1, <2>1, InnerStep DEF NextEntry, HandlerSame
<1> QED
  BY <1>5, <1>6 DEF NextEntry

LEMMA WriteStep ==
  ASSUME IInv, NEW c \in Clients, Write(c)
  PROVE  IInv'
<1> DEFINE to == thread[c].to
<1>1. /\ At(c, "write") /\ ClientsSame
      /\ UNCHANGED <<decoder, connected, closed, protocol, activeConnections,
                     subscribers, toServer, toClient>>
  BY DEF Write
<1>2. ClientTypes /\ ServerTypes /\ AllThreads(thread) /\ Streams
  BY DEF IInv
<1>3. ServerTypes'
  BY <1>1, <1>2 DEF ServerTypes
<1>4. ClientTypes' /\ NeverBack
  BY <1>1, SameClients DEF ClientsSame
<1>5. CASE Return(c) /\ UNCHANGED <<out, written>>
  <2>1. AllThreads(thread')
    BY <1>1, <1>2, <1>5, ReturnThread
  <2> QED
    BY <1>1, <1>3, <1>5, <2>1, InnerStep
<1>6. CASE /\ Goto(c, "flush")
           /\ \E frame \in {Answer(thread[c].msg, thread[c].frame)} :
                /\ out' = [out EXCEPT ![to] = @ \o toString(frame)]
                /\ written' = [written EXCEPT ![to] = Append(@, frame)]
  <2>1. /\ thread[c] \in Threads /\ ThreadOK(thread[c]) /\ thread[c].pc = "write"
        /\ thread \in [Clients -> Threads]
    BY <1>1, <1>2 DEF AllThreads, At
  <2>2. IsClientFrame(thread[c].frame) /\ MayAnswer(thread[c].msg, thread[c].frame) /\ to \in Clients
    BY <2>1 DEF ThreadOK
  <2> DEFINE w == Answer(thread[c].msg, thread[c].frame)
  <2>3. IsServerFrame(w)
    BY <2>2, AnswerIsServerFrame
  <2>4. /\ out' = [out EXCEPT ![to] = @ \o toString(w)]
        /\ written' = [written EXCEPT ![to] = Append(@, w)]
    BY <1>6
  <2>5. AllThreads(thread')
    <3> DEFINE t == [thread[c] EXCEPT !.pc = "flush"]
    <3>1. t \in Threads /\ ThreadOK(t)
      BY <2>1, <2>2 DEF Threads, PCs, ThreadOK
    <3>2. thread' = [thread EXCEPT ![c] = t]
      BY <1>6, <2>1 DEF Goto
    <3> HIDE DEF t
    <3> QED
      BY <1>2, <3>1, <3>2, NewThread
  <2> HIDE DEF w, to
  <2>6. w \in ServerFrames /\ toString(w) \in Text
    <3>1. w \in ServerFrames
      BY <2>3, WritableFrame DEF ServerFrames, IsServerFrame
    <3> QED
      BY <3>1, FrameTexts
  <2> DEFINE o == out[to] \o toString(w)  fs == Append(written[to], w)
  <2>7. o \in Text /\ fs \in Seq(ServerFrames)
    BY <1>2, <2>2, <2>6, CatText, AppendProperties DEF Streams
  <2>8. link[to] # "left" => CarriesWritten(toClient[to] \o o, fs)
    <3> SUFFICES ASSUME link[to] # "left" PROVE CarriesWritten(toClient[to] \o o, fs)
      OBVIOUS
    <3> DEFINE t == toClient[to]  b == out[to]  s == toString(w)
    <3>1. t \in Text /\ b \in Text /\ s \in Text /\ CarriesWritten(t \o b, written[to])
      BY <1>2, <2>2, <2>6 DEF Streams
    <3> HIDE DEF t, b
    <3>2. CarriesWritten((t \o b) \o toString(w), fs)
      BY <2>3, <3>1, MoreWritten
    <3> HIDE DEF s
    <3>3. Associates(t, b, s)
      BY <3>1, Associative
    <3> QED
      BY <3>2, <3>3 DEF Associates, t, b, s
  <2> HIDE DEF o, fs
  <2>9. out' = [out EXCEPT ![to] = o] /\ written' = [written EXCEPT ![to] = fs]
    BY <1>2, <2>4 DEF Streams, o, fs
  <2>10. /\ toServer' = toServer /\ toClient' = toClient /\ sent' = sent /\ link' = link
    BY <1>1 DEF ClientsSame, clientVars
  <2>11. Streams'
    BY <1>2, <2>2, <2>7, <2>8, <2>9, <2>10 DEF Streams
  <2> QED
    BY <1>3, <1>4, <2>5, <2>11 DEF IInv
<1> QED
  BY <1>5, <1>6 DEF Write

LEMMA FlushStep ==
  ASSUME IInv, NEW c \in Clients, Flush(c)
  PROVE  IInv'
<1> DEFINE to == thread[c].to
<1>1. /\ At(c, "flush") /\ ClientsSame /\ Return(c)
      /\ UNCHANGED <<decoder, connected, closed, protocol, activeConnections,
                     subscribers, written, toServer>>
      /\ toClient' = [toClient EXCEPT ![to] = IF link[to] = "left" THEN @ ELSE @ \o out[to]]
      /\ out' = [out EXCEPT ![to] = <<>>]
  BY DEF Flush
<1>2. ClientTypes /\ ServerTypes /\ AllThreads(thread) /\ Streams
  BY DEF IInv
<1>3. ServerTypes'
  BY <1>1, <1>2 DEF ServerTypes
<1>4. ClientTypes' /\ NeverBack
  BY <1>1, SameClients DEF ClientsSame
<1>5. AllThreads(thread')
  BY <1>1, <1>2, ReturnThread
<1>6. to \in Clients
  BY <1>1, <1>2 DEF AllThreads, ThreadOK, At
<1> HIDE DEF to
<1> DEFINE t == toClient[to]  o == out[to]  n == IF link[to] = "left" THEN t ELSE t \o o
<1>7. t \in Text /\ o \in Text /\ n \in Text /\ t \o o \in Text
  <2>1. t \in Text /\ o \in Text
    BY <1>2, <1>6 DEF Streams
  <2> HIDE DEF t, o
  <2> QED
    BY <2>1, CatText
<1>8. toClient' = [toClient EXCEPT ![to] = n]
  BY <1>1, <1>2 DEF Streams
<1>9. link[to] # "left" => CarriesWritten(n \o <<>>, written[to])
  <2>1. link[to] # "left" => n = t \o o /\ CarriesWritten(t \o o, written[to])
    BY <1>2, <1>6 DEF Streams
  <2> HIDE DEF n
  <2>2. n \o <<>> = n
    BY <1>7, EmptyText
  <2> QED
    BY <2>1, <2>2
<1> HIDE DEF n, t, o
<1>10. sent' = sent /\ link' = link /\ toServer' = toServer /\ written' = written
  BY <1>1 DEF ClientsSame, clientVars
<1>11. Streams'
  BY <1>1, <1>2, <1>6, <1>7, <1>8, <1>9, <1>10, EmptyText DEF Streams
<1> QED
  BY <1>3, <1>4, <1>5, <1>11 DEF IInv

LEMMA FlushFailsStep ==
  ASSUME IInv, NEW c \in Clients, FlushFails(c)
  PROVE  IInv'
<1>1. ServerTypes'
  BY DEF IInv, ServerTypes, FlushFails
<1>2. AllThreads(thread')
  BY ReturnThread DEF IInv, FlushFails
<1> QED
  BY <1>1, <1>2, InnerStep DEF FlushFails

(* The frame that a thread decodes is the first of those that were sent. *)
LEMMA ReadFacts ==
  ASSUME IInv, NEW c \in Clients, ReadFrame(c)
  PROVE  /\ sent[c] # <<>> /\ IsClientFrame(Head(sent[c]))
         /\ \E d : /\ d.frame = Head(sent[c]) /\ IsReady(d.decoder)
                   /\ decoder' = [decoder EXCEPT ![c] = d.decoder]
                   /\ \/ ServeConnect(c, d.frame) \/ ServeSubscribe(c, d.frame)
                      \/ ServeSend(c, d.frame) \/ ServeDisconnect(c, d.frame)
                      \/ Refuse(c, d.frame)
         /\ CarriesSent(AfterFrame(toServer[c]), Tail(sent[c]))
<1> DEFINE t == toServer[c]  fs == sent[c]  e == decoder[c]
           d == decodeMessage(e, getFrameAscii(t))
<1>1. FrameReady(t) /\ CarriesSent(t, fs) /\ IsReady(e)
  BY DEF IInv, Streams, ServerTypes, ReadFrame, ReadBytes
<1>2. /\ decoder' = [decoder EXCEPT ![c] = d.decoder]
      /\ \/ ServeConnect(c, d.frame) \/ ServeSubscribe(c, d.frame)
         \/ ServeSend(c, d.frame) \/ ServeDisconnect(c, d.frame)
         \/ Refuse(c, d.frame)
  BY DEF ReadFrame
<1> HIDE DEF t, fs, e
<1>3. /\ fs # <<>> /\ d.frame = Head(fs) /\ IsClientFrame(Head(fs))
      /\ IsReady(d.decoder) /\ CarriesSent(AfterFrame(t), Tail(fs))
  BY <1>1, FirstSent
<1> HIDE DEF d
<1> QED
  BY <1>2, <1>3 DEF t, fs

LEMMA AcceptedBy ==
  ASSUME ServerTypes, AllThreads(thread), NEW c \in Clients, NEW f, IsClientFrame(f),
         \/ ServeConnect(c, f) \/ ServeSubscribe(c, f) \/ ServeSend(c, f)
         \/ ServeDisconnect(c, f) \/ Refuse(c, f)
  PROVE  AllThreads(thread') /\ thread'[c].frame = f
<1>1. {} \in SUBSET Clients
  OBVIOUS
<1>2. CASE ServeConnect(c, f)
  <2>1. MayAnswer("CONNECTED", f) /\ SendTo(c, f, c, "CONNECTED", {})
    BY <1>2 DEF ServeConnect, MayAnswer
  <2> QED
    BY <1>1, <2>1, SendToThread
<1>3. CASE ServeSubscribe(c, f)
  <2>1. MayAnswer("RECEIPT", f) /\ SendTo(c, f, c, "RECEIPT", {})
    BY <1>3 DEF ServeSubscribe, Is, MayAnswer, WithReceipt
  <2> QED
    BY <1>1, <2>1, SendToThread
<1>4. CASE ServeDisconnect(c, f)
  <2>1. MayAnswer("RECEIPT", f) /\ SendTo(c, f, c, "RECEIPT", {})
    BY <1>4 DEF ServeDisconnect, Is, MayAnswer, WithReceipt
  <2> QED
    BY <1>1, <2>1, SendToThread
<1>5. CASE Refuse(c, f)
  <2>1. MayAnswer("ERROR", f) /\ SendTo(c, f, c, "ERROR", {})
    BY <1>5 DEF Refuse, SendError, MayAnswer
  <2> QED
    BY <1>1, <2>1, SendToThread
<1>6. CASE ServeSend(c, f)
  <2> DEFINE t == [Idle EXCEPT !.pc = "nextEntry", !.frame = f]
  <2>1. thread' = [thread EXCEPT ![c] = t] /\ f.command = <<"SEND">>
    BY <1>6 DEF ServeSend, Forwards, Is
  <2>2. f \in Frames
    BY ClientFrameType
  <2>3. t \in Threads /\ t.pc = "nextEntry" /\ t.frame = f
    BY <2>2 DEF Idle, Threads, PCs, Msgs
  <2> HIDE DEF t
  <2>4. ThreadOK(t)
    BY <2>1, <2>3 DEF ThreadOK
  <2>5. AllThreads([thread EXCEPT ![c] = t])
    BY <2>3, <2>4, NewThread
  <2>6. thread'[c] = t
    BY <2>1 DEF AllThreads
  <2> QED
    BY <2>1, <2>3, <2>5, <2>6
<1> QED
  BY <1>2, <1>3, <1>4, <1>5, <1>6

LEMMA ReadFrameStep ==
  ASSUME IInv, NEW c \in Clients, ReadFrame(c)
  PROVE  IInv' /\ sent[c] # <<>> /\ thread'[c].frame = Head(sent[c])
<1>1. /\ toServer' = [toServer EXCEPT ![c] = AfterFrame(@)]
      /\ UNCHANGED <<clientVars, reported, connected, closed, out, activeConnections,
                     written, toClient>>
      /\ sent' = [sent EXCEPT ![c] = Rest(@)]
  BY DEF ReadFrame, ReadBytes
<1>2. ClientTypes /\ ServerTypes /\ AllThreads(thread) /\ Streams
  BY DEF IInv
<1> DEFINE f == Head(sent[c])  a == AfterFrame(toServer[c])  fs == Tail(sent[c])
<1>3. /\ sent[c] # <<>> /\ IsClientFrame(f) /\ CarriesSent(a, fs)
      /\ \E d : /\ d.frame = f /\ IsReady(d.decoder)
                /\ decoder' = [decoder EXCEPT ![c] = d.decoder]
                /\ \/ ServeConnect(c, d.frame) \/ ServeSubscribe(c, d.frame)
                   \/ ServeSend(c, d.frame) \/ ServeDisconnect(c, d.frame)
                   \/ Refuse(c, d.frame)
  BY ReadFacts
<1> HIDE DEF f
<1>4. PICK e : /\ IsReady(e) /\ decoder' = [decoder EXCEPT ![c] = e]
               /\ \/ ServeConnect(c, f) \/ ServeSubscribe(c, f) \/ ServeSend(c, f)
                  \/ ServeDisconnect(c, f) \/ Refuse(c, f)
  BY <1>3
<1>5. AllThreads(thread') /\ thread'[c].frame = f
  BY <1>2, <1>3, <1>4, AcceptedBy
<1>6. ClientTypes' /\ NeverBack
  BY <1>1, SameClients
<1>7. decoder' \in [Clients -> {d \in Decoders : IsReady(d)}]
  BY <1>2, <1>4 DEF ServerTypes, IsReady
<1> DEFINE P == [connected : BOOLEAN, subscribed : BOOLEAN, shouldTerminate : BOOLEAN]
<1>8. protocol' \in [Clients -> P] /\ subscribers' \subseteq Clients
  <2>1. protocol \in [Clients -> P] /\ subscribers \subseteq Clients /\ protocol[c] \in P
    BY <1>2 DEF ServerTypes
  <2>2. CASE ServeConnect(c, f)
    BY <2>1, <2>2 DEF ServeConnect
  <2>3. CASE ServeSubscribe(c, f)
    BY <2>1, <2>3 DEF ServeSubscribe
  <2>4. CASE ServeSend(c, f)
    BY <2>1, <2>4 DEF ServeSend
  <2>5. CASE ServeDisconnect(c, f)
    <3> DEFINE p == [protocol[c] EXCEPT !.shouldTerminate = TRUE, !.subscribed = FALSE]
    <3>1. protocol' = [protocol EXCEPT ![c] = p] /\ subscribers' \subseteq Clients
      BY <2>1, <2>5 DEF ServeDisconnect
    <3>2. p \in P
      BY <2>1
    <3> HIDE DEF p, P
    <3> QED
      BY <2>1, <3>1, <3>2
  <2>6. CASE Refuse(c, f)
    BY <2>1, <2>6 DEF Refuse, SendError
  <2> QED
    BY <1>4, <2>2, <2>3, <2>4, <2>5, <2>6
<1>9. ServerTypes'
  BY <1>1, <1>2, <1>7, <1>8 DEF ServerTypes
<1>10. a \in Text /\ fs \in Seq(ClientFrames)
  BY <1>3 DEF CarriesSent, Carries
<1> HIDE DEF a, fs
<1>11. toServer' = [toServer EXCEPT ![c] = a] /\ sent' = [sent EXCEPT ![c] = fs]
  BY <1>1, <1>2, <1>3 DEF Streams, Rest, a, fs
<1>12. link' = link /\ toClient' = toClient /\ out' = out /\ written' = written
  BY <1>1 DEF clientVars
<1>13. Streams'
  BY <1>2, <1>3, <1>10, <1>11, <1>12 DEF Streams
<1> QED
  BY <1>3, <1>5, <1>6, <1>9, <1>13 DEF IInv, f

-----------------------------------------------------------------------------
(* The theorems *)

LEMMA InitIInv ==
  ASSUME Init
  PROVE  IInv
<1>1. ClientTypes
  <2>1. \A c \in Clients : 0 <= Len(user[c].file)
    BY FileLength DEF Init
  <2> QED
    BY <2>1, NoFrameIsFrame DEF Init, ClientTypes
<1>2. ServerTypes
  <2> DEFINE d == NewDecoder(Capacity)
  <2>1. Capacity \in Nat /\ Capacity # 0
    BY BlockingAssumption
  <2>2. [i \in 1..Capacity |-> NUL] \in [1..Capacity -> Symbol]
    BY SymbolFacts
  <2>3. d.bytes \in Text /\ Len(d.bytes) = Capacity /\ d.len = 0
    BY <2>1, <2>2, ArrayIsText DEF NewDecoder
  <2>4. d = [bytes |-> d.bytes, len |-> d.len]
    BY DEF NewDecoder
  <2> HIDE DEF d
  <2>5. d \in Decoders /\ IsReady(d)
    BY <2>1, <2>3, <2>4 DEF Decoders, IsReady
  <2>6. decoder = [c \in Clients |-> d]
    BY DEF Init, d
  <2> QED
    BY <2>5, <2>6 DEF Init, ServerTypes
<1>3. AllThreads(thread)
  <2>1. Idle \in Threads /\ Idle.pc = "none"
    BY NoFrameIsFrame DEF Idle, Threads, PCs, Msgs
  <2>2. ThreadOK(Idle)
    BY <2>1 DEF ThreadOK
  <2>3. thread = [c \in Clients |-> Idle]
    BY DEF Init
  <2> QED
    BY <2>1, <2>2, <2>3 DEF AllThreads
<1>4. Streams
  <2>1. /\ CarriesSent(<<>>, <<>>) /\ CarriesWritten(<<>>, <<>>)
        /\ <<>> \in Text /\ <<>> \o <<>> = <<>>
    BY NothingCarried, EmptyText
  <2>2. <<>> \in Seq(ClientFrames) /\ <<>> \in Seq(ServerFrames)
    OBVIOUS
  <2> QED
    BY <2>1, <2>2 DEF Init, Streams
<1> QED
  BY <1>1, <1>2, <1>3, <1>4 DEF IInv

LEMMA NextIInv ==
  ASSUME IInv, [Next]_vars
  PROVE  IInv'
<1>1. CASE UNCHANGED vars
  BY <1>1, InnerStep DEF vars, clientVars, serverVars, handlerVars, IInv, ServerTypes, ClientsSame
<1>2. ASSUME NEW c \in Clients, Command(c)
      PROVE  IInv'
  BY <1>2, LoginStep, JoinStep, ReportStep, LogoutStep, LinkLostStep DEF Command, Leave
<1>3. ASSUME NEW c \in Clients, Communicator(c)
      PROVE  IInv'
  BY <1>3, ReceiveFrameStep, LinkLostStep DEF Communicator, LoseConnection
<1>4. ASSUME NEW c \in Clients, Handler(c)
      PROVE  IInv'
  BY <1>4, ReadFrameStep, AcceptStep, EndRunStep, NextEntryStep, WriteStep, FlushStep,
     FlushFailsStep, MarkForTerminationStep, DisconnectStep DEF Handler, Proceed
<1> QED
  BY <1>1, <1>2, <1>3, <1>4 DEF Next

LEMMA AlwaysIInv == Spec => []IInv
<1>1. Init => IInv
  BY InitIInv
<1>2. IInv /\ [Next]_vars => IInv'
  BY NextIInv
<1> QED
  BY <1>1, <1>2, PTL DEF Spec

(***************************************************************************)
(* The server decodes the frames that a client sent, all of them, in their *)
(* order and with their headers and bodies: whatever the size of the       *)
(* buffer, however often it has grown, and whatever is in the files.       *)
(***************************************************************************)
THEOREM SpecDecodedAsSent == Spec => DecodedAsSent
<1>1. ASSUME IInv, [Next]_vars
      PROVE  \A c \in Clients : ReadFrame(c)
               => sent[c] # <<>> /\ thread'[c].frame = Head(sent[c])
  BY <1>1, ReadFrameStep
<1>2. IInv /\ [Next]_vars
        => [\A c \in Clients : ReadFrame(c)
              => sent[c] # <<>> /\ thread'[c].frame = Head(sent[c])]_vars
  BY <1>1
<1> QED
  BY <1>2, AlwaysIInv, PTL DEF Spec, DecodedAsSent

LEMMA ReadAsIs ==
  ASSUME NEW w
  PROVE  ReadAs(w) = [w EXCEPT !.body = BodyRead(w)]
BY DEF ReadAs, BodyRead, BodyLine

(***************************************************************************)
(* The threads of all clients write to one socket, and still a client      *)
(* handles whole frames, those that were written to it and in that order:  *)
(* no frame is mixed with another, and what an ERROR leaves behind its     *)
(* inner terminator is never taken for a frame.                            *)
(***************************************************************************)
THEOREM SpecHandledAsWritten == Spec => HandledAsWritten
<1>1. ASSUME IInv, [Next]_vars
      PROVE  \A c \in Clients : ReceiveFrame(c)
               => written[c] # <<>> /\ handled'[c] = ReadAs(Head(written[c]))
  BY <1>1, ReceiveFacts, ReadAsIs
<1>2. IInv /\ [Next]_vars
        => [\A c \in Clients : ReceiveFrame(c)
              => written[c] # <<>> /\ handled'[c] = ReadAs(Head(written[c]))]_vars
  BY <1>1
<1> QED
  BY <1>2, AlwaysIInv, PTL DEF Spec, HandledAsWritten

-----------------------------------------------------------------------------
(* Events *)

(* the texts, one after the other *)
IsSum(g, seqs) ==
  /\ g \in [Nat -> Text] /\ g[0] = <<>>
  /\ \A i \in Nat : i < Len(seqs) => g[i + 1] = g[i] \o seqs[i + 1]

LEMMA SumExists ==
  ASSUME NEW seqs \in Seq(Text)
  PROVE  \E g : IsSum(g, seqs)
<1> DEFINE n == Len(seqs)
           step == [i \in Nat |-> [t \in Text |-> IF i < n THEN t \o seqs[i + 1] ELSE t]]
<1>1. n \in Nat /\ \A i \in 1..n : seqs[i] \in Text
  BY LenProperties, ElementOfSeq
<1> HIDE DEF n
<1>2. step \in [Nat -> [Text -> Text]]
  <2> SUFFICES ASSUME NEW i \in Nat, NEW t \in Text, i < n PROVE t \o seqs[i + 1] \in Text
    OBVIOUS
  <2>1. i + 1 \in 1..n
    BY <1>1
  <2>2. seqs[i + 1] \in Text
    BY <1>1, <2>1
  <2> QED
    BY <2>2, CatText
<1>3. \A i \in Nat : \A t \in Text : step[i][t] = IF i < n THEN t \o seqs[i + 1] ELSE t
  OBVIOUS
<1> HIDE DEF step
<1>4. PICK f \in [Nat -> Text] : IsIteration(f, <<>>, step)
  BY <1>2, EmptyText, Iterate
<1>5. f[0] = <<>> /\ \A i \in Nat : f[i + 1] = step[i][f[i]]
  BY <1>4 DEF IsIteration
<1>6. ASSUME NEW i \in Nat, i < n PROVE f[i + 1] = f[i] \o seqs[i + 1]
  BY <1>3, <1>4, <1>5, <1>6
<1> QED
  BY <1>4, <1>5, <1>6 DEF IsSum, n

LEMMA FlattenSum ==
  ASSUME NEW seqs \in Seq(Text), NEW f, IsSum(f, seqs)
  PROVE  FlattenSeq(seqs) = f[Len(seqs)] /\ FlattenSeq(seqs) \in Text
<1> DEFINE n == Len(seqs)
           body(g, i) == IF i = 1 THEN seqs[i] ELSE g[i - 1] \o seqs[i]
           flatten == CHOOSE g : g = [i \in 1..n |-> body(g, i)]
<1>1. n \in Nat /\ \A i \in 1..n : seqs[i] \in Text
  BY LenProperties, ElementOfSeq
<1>2. /\ f \in [Nat -> Text] /\ f[0] = <<>>
      /\ \A i \in Nat : i < n => f[i + 1] = f[i] \o seqs[i + 1]
  BY DEF IsSum
<1>3. CASE n = 0
  <2>1. seqs = <<>>
    BY <1>3, EmptySeq
  <2> QED
    BY <1>2, <1>3, <2>1, EmptyText DEF FlattenSeq
<1>4. CASE n # 0
  <2> HIDE DEF n
  <2>1. ASSUME NEW i \in 1..n PROVE f[i] = body(f, i)
    <3>1. i - 1 \in Nat /\ (i - 1) + 1 = i /\ i - 1 < n
      BY <1>1
    <3>2. f[(i - 1) + 1] = f[i - 1] \o seqs[(i - 1) + 1]
      BY <1>2, <3>1
    <3>3. f[i] = f[i - 1] \o seqs[i]
      BY <3>1, <3>2
    <3>4. CASE i = 1
      <4>1. f[i - 1] = <<>> /\ seqs[i] \in Text
        BY <1>1, <1>2, <3>4
      <4>2. <<>> \o seqs[i] = seqs[i]
        BY <4>1, EmptyText
      <4> QED
        BY <3>3, <3>4, <4>1, <4>2
    <3>5. CASE i # 1
      BY <3>3, <3>5
    <3> QED
      BY <3>4, <3>5
  <2> DEFINE g == [i \in 1..n |-> f[i]]
  <2>2. \A i \in 1..n : g[i] = body(g, i)
    <3> SUFFICES ASSUME NEW i \in 1..n PROVE g[i] = body(g, i)
      OBVIOUS
    <3>1. i # 1 => i - 1 \in 1..n
      BY <1>1
    <3> QED
      BY <2>1, <3>1
  <2>3. g = [i \in 1..n |-> g[i]]
    OBVIOUS
  <2> HIDE DEF g
  <2>4. g = [i \in 1..n |-> body(g, i)]
    BY <2>2, <2>3
  <2>5. flatten = [i \in 1..n |-> body(flatten, i)]
    BY <2>4
  <2> HIDE DEF flatten
  <2> DEFINE S == {i \in Nat : i + 1 <= n => flatten[i + 1] = f[i + 1]}
  <2>6. 0 \in S
    <3>1. 1 \in 1..n /\ 0 + 1 = 1
      BY <1>1, <1>4
    <3>2. flatten[1] = seqs[1] /\ f[1] = seqs[1]
      BY <2>1, <2>5, <3>1
    <3> QED
      BY <3>1, <3>2
  <2>7. ASSUME NEW i \in S PROVE i + 1 \in S
    <3> SUFFICES ASSUME (i + 1) + 1 <= n PROVE flatten[(i + 1) + 1] = f[(i + 1) + 1]
      OBVIOUS
    <3>1. i \in Nat /\ i + 1 <= n /\ (i + 1) + 1 \in 1..n /\ (i + 1) + 1 # 1
          /\ ((i + 1) + 1) - 1 = i + 1
      BY <1>1
    <3>2. flatten[(i + 1) + 1] = flatten[i + 1] \o seqs[(i + 1) + 1]
      BY <2>5, <3>1
    <3>3. f[(i + 1) + 1] = f[i + 1] \o seqs[(i + 1) + 1]
      BY <2>1, <3>1
    <3>4. flatten[i + 1] = f[i + 1]
      BY <3>1
    <3> QED
      BY <3>2, <3>3, <3>4
  <2>8. S = Nat
    <3>1. S \in SUBSET Nat
      OBVIOUS
    <3> HIDE DEF S
    <3> QED
      BY <2>6, <2>7, <3>1, Induction
  <2>9. n - 1 \in Nat /\ (n - 1) + 1 = n /\ n <= n
    BY <1>1, <1>4
  <2>10. flatten[n] = f[n]
    BY <2>8, <2>9
  <2>11. FlattenSeq(seqs) = flatten[n]
    BY <1>4 DEF FlattenSeq, flatten, n
  <2> QED
    BY <1>1, <1>2, <2>10, <2>11 DEF n
<1> QED
  BY <1>3, <1>4

LEMMA FlattenText ==
  ASSUME NEW seqs \in Seq(Text)
  PROVE  FlattenSeq(seqs) \in Text
BY SumExists, FlattenSum

LEMMA FlattenMore ==
  ASSUME NEW x \in Text, NEW s \in Seq(Text), NEW t, t = <<x>> \o s
  PROVE  t \in Seq(Text) /\ FlattenSeq(t) = x \o FlattenSeq(s)
<1>1. <<x>> \in Seq(Text) /\ Len(<<x>>) = 1 /\ <<x>>[1] = x
  BY OneElement
<1> DEFINE n == Len(s)
<1>2. n \in Nat /\ \A i \in 1..n : s[i] \in Text
  BY LenProperties, ElementOfSeq
<1>3. /\ t \in Seq(Text) /\ Len(t) = 1 + n
      /\ \A i \in 1..1 + n : t[i] = IF i <= 1 THEN <<x>>[i] ELSE s[i - 1]
  BY <1>1, ConcatProperties
<1>4. PICK g : IsSum(g, t)
  BY <1>3, SumExists
<1>5. PICK h : IsSum(h, s)
  BY SumExists
<1>6. FlattenSeq(t) = g[1 + n] /\ FlattenSeq(s) = h[n]
  BY <1>3, <1>4, <1>5, FlattenSum
<1>7. /\ g \in [Nat -> Text] /\ g[0] = <<>>
      /\ \A i \in Nat : i < 1 + n => g[i + 1] = g[i] \o t[i + 1]
  BY <1>3, <1>4 DEF IsSum
<1>8. /\ h \in [Nat -> Text] /\ h[0] = <<>>
      /\ \A i \in Nat : i < n => h[i + 1] = h[i] \o s[i + 1]
  BY <1>5 DEF IsSum
<1> HIDE DEF n
<1> DEFINE S == {i \in Nat : i <= n => g[i + 1] = x \o h[i]}
<1>9. 0 \in S
  <2>1. 0 < 1 + n /\ 0 + 1 = 1 /\ 1 \in 1..1 + n /\ 0 \in Nat
    BY <1>2
  <2>a. t[1] = IF 1 <= 1 THEN <<x>>[1] ELSE s[1 - 1]
    BY <1>3, <2>1
  <2>b. g[0 + 1] = g[0] \o t[0 + 1]
    BY <1>7, <2>1
  <2>2. t[1] = x /\ g[0 + 1] = g[0] \o t[0 + 1]
    BY <1>1, <2>a, <2>b
  <2>3. g[0 + 1] = <<>> \o x
    BY <1>7, <2>1, <2>2
  <2>4. <<>> \o x = x /\ x \o <<>> = x
    BY EmptyText
  <2> QED
    BY <1>8, <2>1, <2>3, <2>4
<1>10. ASSUME NEW i \in S PROVE i + 1 \in S
  <2> SUFFICES ASSUME i + 1 <= n PROVE g[(i + 1) + 1] = x \o h[i + 1]
    OBVIOUS
  <2>1. /\ i \in Nat /\ i <= n /\ i < n /\ i + 1 \in Nat /\ i + 1 < 1 + n /\ i + 1 \in 1..n
        /\ (i + 1) + 1 \in 1..1 + n /\ ~((i + 1) + 1 <= 1) /\ ((i + 1) + 1) - 1 = i + 1
    BY <1>2
  <2>2. g[(i + 1) + 1] = g[i + 1] \o t[(i + 1) + 1] /\ t[(i + 1) + 1] = s[i + 1]
    BY <1>3, <1>7, <2>1
  <2>3. g[i + 1] = x \o h[i] /\ h[i + 1] = h[i] \o s[i + 1]
    BY <1>8, <2>1
  <2>4. h[i] \in Text /\ s[i + 1] \in Text
    BY <1>2, <1>8, <2>1
  <2>5. (x \o h[i]) \o s[i + 1] = x \o (h[i] \o s[i + 1])
    BY <2>4, CatAssociative
  <2> QED
    BY <2>2, <2>3, <2>5
<1>11. S = Nat
  <2>1. S \in SUBSET Nat
    OBVIOUS
  <2> HIDE DEF S
  <2> QED
    BY <1>9, <1>10, <2>1, Induction
<1>12. g[n + 1] = x \o h[n]
  <2>1. n \in Nat /\ n <= n
    BY <1>2
  <2> HIDE DEF S
  <2>2. n \in S
    BY <1>11, <2>1
  <2> QED
    BY <2>1, <2>2 DEF S
<1>13. n + 1 = 1 + n
  BY <1>2
<1> QED
  BY <1>3, <1>6, <1>12, <1>13

(* the lines, each with its newline again *)
Ended(q) == [i \in 1..Len(q) |-> Append(q[i], NL)]

LEMMA EndedMore ==
  ASSUME NEW b \in Text, NEW q \in Seq(Text)
  PROVE  /\ Ended(q) \in Seq(Text) /\ Append(b, NL) \in Text
         /\ Ended(<<b>> \o q) = <<Append(b, NL)>> \o Ended(q)
<1>1. ASSUME NEW t \in Text PROVE Append(t, NL) \in Text
  BY SymbolFacts, AppendProperties DEF Text
<1> DEFINE n == Len(q)  e == Ended(q)  p == <<b>> \o q  y == Append(b, NL)
           l == Ended(p)  r == <<y>> \o e
<1>2. n \in Nat /\ \A i \in 1..n : q[i] \in Text
  BY LenProperties, ElementOfSeq
<1>3. e \in [1..n -> Text] /\ \A i \in 1..n : e[i] = Append(q[i], NL)
  BY <1>1, <1>2 DEF Ended
<1>4. <<b>> \in Seq(Text) /\ Len(<<b>>) = 1 /\ <<b>>[1] = b
  BY OneElement
<1>5. /\ p \in Seq(Text) /\ Len(p) = 1 + n
      /\ \A i \in 1..1 + n : p[i] = IF i <= 1 THEN <<b>>[i] ELSE q[i - 1]
  BY <1>4, ConcatProperties
<1>6. l = [i \in 1..Len(p) |-> Append(p[i], NL)]
  BY DEF Ended
<1> HIDE DEF n, e, p, l
<1>7. e \in Seq(Text) /\ Len(e) = n
  BY <1>2, <1>3, IsASeq, LenProperties
<1>8. l = [i \in 1..1 + n |-> Append(p[i], NL)]
  BY <1>5, <1>6
<1>9. y \in Text
  BY <1>1
<1> HIDE DEF y
<1>10. <<y>> \in Seq(Text) /\ Len(<<y>>) = 1 /\ <<y>>[1] = y
  BY <1>9, OneElement
<1>11. /\ r \in Seq(Text) /\ Len(r) = 1 + n
       /\ \A i \in 1..1 + n : r[i] = IF i <= 1 THEN <<y>>[i] ELSE e[i - 1]
  BY <1>7, <1>10, ConcatProperties
<1> HIDE DEF r
<1>12. ASSUME NEW i \in 1..1 + n PROVE l[i] = r[i]
  <2>1. l[i] = Append(p[i], NL)
    BY <1>8
  <2>2. CASE i <= 1
    <3>1. i = 1
      BY <1>2, <2>2
    <3>2. p[i] = b /\ r[i] = y
      BY <1>4, <1>5, <1>10, <1>11, <2>2, <3>1
    <3> QED
      BY <2>1, <3>2 DEF y
  <2>3. CASE ~(i <= 1)
    <3>1. i - 1 \in 1..n
      BY <1>2, <2>3
    <3>2. p[i] = q[i - 1] /\ r[i] = e[i - 1] /\ e[i - 1] = Append(q[i - 1], NL)
      BY <1>3, <1>5, <1>11, <2>3, <3>1
    <3> QED
      BY <2>1, <3>2
  <2> QED
    BY <2>2, <2>3
<1>13. DOMAIN r = 1..1 + n /\ r = [i \in DOMAIN r |-> r[i]]
  BY <1>11, LenProperties
<1>14. l = r
  BY <1>8, <1>12, <1>13
<1> QED
  BY <1>7, <1>9, <1>14 DEF e, l, p, r, y

(* What the loop of getline puts together again is the text and a newline. *)
LEMMA JoinLines ==
  ASSUME NEW t \in Text
  PROVE  FlattenSeq(Ended(Split(NL)[t])) = t \o <<NL>>
<1> DEFINE size == [x \in Text |-> Len(x)]
           P == {x \in Text : FlattenSeq(Ended(Split(NL)[x])) = x \o <<NL>>}
<1>1. size \in [Text -> Nat]
  BY TextFacts
<1>2. ASSUME NEW x \in Text, \A y \in Text : size[y] < size[x] => y \in P
      PROVE  x \in P
  <2>1. CASE ~Has(x, NL)
    <3> DEFINE l == Append(x, NL)
    <3>1. Split(NL)[x] = <<x>>
      BY <2>1, SplitOne
    <3>2. <<>> \in Seq(Text) /\ <<x>> \in Seq(Text) /\ <<x>> \o <<>> = <<x>>
      BY OneElement, ConcatEmptySeq
    <3>3. Ended(<<>>) = <<>>
      BY DEF Ended
    <3>4. l \in Text /\ Ended(<<x>> \o <<>>) = <<l>> \o Ended(<<>>)
      BY <3>2, EndedMore
    <3>5. l = x \o <<NL>>
      BY SymbolFacts, AppendIsConcat DEF Text
    <3> HIDE DEF l
    <3>6. FlattenSeq(<<l>> \o <<>>) = l \o FlattenSeq(<<>>)
      BY <3>2, <3>4, FlattenMore
    <3>7. FlattenSeq(<<>>) = <<>>
      BY DEF FlattenSeq
    <3>8. l \o <<>> = l
      BY <3>4, EmptyText
    <3> QED
      BY <3>1, <3>2, <3>3, <3>4, <3>5, <3>6, <3>7, <3>8
  <2>2. CASE Has(x, NL)
    <3> DEFINE b == Before(x, First(x, NL))  a == After(x, First(x, NL))
               q == Split(NL)[a]  l == Append(b, NL)
    <3>1. /\ b \in Text /\ ~Has(b, NL) /\ a \in Text
          /\ x = b \o <<NL>> \o a /\ Len(a) = Len(x) - First(x, NL)
      BY <2>2, CutText
    <3>2. First(x, NL) \in 1..Len(x) /\ Len(x) \in Nat
      BY <2>2, FirstOf, TextFacts
    <3> HIDE DEF b, a
    <3>3. Split(NL)[x] = <<b>> \o q /\ q \in Seq(Text)
      BY <3>1, SymbolFacts, SplitCat, SplitRecursion
    <3>4. size[a] < size[x]
      BY <3>1, <3>2
    <3>5. FlattenSeq(Ended(q)) = a \o <<NL>>
      BY <1>2, <3>1, <3>4
    <3> HIDE DEF q
    <3>6. Ended(q) \in Seq(Text) /\ l \in Text /\ Ended(<<b>> \o q) = <<l>> \o Ended(q)
      BY <3>1, <3>3, EndedMore
    <3>7. l = b \o <<NL>>
      BY <3>1, SymbolFacts, AppendIsConcat DEF Text
    <3> HIDE DEF l
    <3>8. FlattenSeq(<<l>> \o Ended(q)) = l \o FlattenSeq(Ended(q))
      BY <3>6, FlattenMore
    <3>9. l \o (a \o <<NL>>) = (l \o a) \o <<NL>>
      <4> DEFINE end == <<NL>>
      <4>1. end \in Text
        BY OneText, SymbolFacts
      <4>2. l \in Text /\ a \in Text
        BY <3>1, <3>6
      <4> HIDE DEF end
      <4>3. Associates(l, a, end)
        BY <4>1, <4>2, Associative
      <4> QED
        BY <4>3 DEF Associates, end
    <3>10. FlattenSeq(Ended(Split(NL)[x])) = (l \o a) \o <<NL>>
      BY <3>3, <3>5, <3>6, <3>8, <3>9
    <3> QED
      BY <3>1, <3>7, <3>10
  <2> QED
    BY <2>1, <2>2
<1>3. IsInductive(P, Text, size)
  BY <1>2 DEF IsInductive
<1>4. P \in SUBSET Text
  OBVIOUS
<1> HIDE DEF P, size
<1>5. P = Text
  BY <1>1, <1>3, <1>4, SizeInduction
<1> QED
  BY <1>5 DEF P

LEMMA ValueType ==
  ASSUME NEW line \in Text
  PROVE  ValueOf[line] \in Text
<1> DEFINE pieces == Split(Colon)[line]  S == split_str(pieces)
<1>1. pieces \in Seq(Text)
  BY SplitRecursion
<1>2. ValueOf[line] = IF Cardinality(S) = 2 THEN pieces[Max(S)] ELSE <<>>
  BY DEF ValueOf
<1>3. S = {i \in DOMAIN pieces : pieces[i] # <<>>}
  BY DEF split_str
<1> HIDE DEF pieces, S
<1>4. Len(pieces) \in Nat /\ DOMAIN pieces = 1..Len(pieces)
  BY <1>1, LenProperties
<1>5. CASE Cardinality(S) = 2
  <2>1. S # {}
    BY <1>5, FS_EmptySet
  <2>2. S \in SUBSET (0..Len(pieces))
    BY <1>3, <1>4
  <2>3. Max(S) \in S
    BY <1>4, <2>1, <2>2, MaxOf
  <2>4. pieces[Max(S)] \in Text
    BY <1>1, <1>3, <1>4, <2>3, ElementOfSeq
  <2> QED
    BY <1>2, <1>5, <2>4
<1> QED
  BY <1>2, <1>5, EmptyText

(* The key of a line is what stands before its first colon. *)
LEMMA KeyIsFirst ==
  ASSUME NEW p \in Text, p # <<>>, ~Has(p, Colon), NEW r \in Text,
         NEW line, line = p \o <<Colon>> \o r
  PROVE  line \in Text /\ KeyOf[line] = p
<1>1. line \in Text /\ Has(line, Colon)
  BY CutThere, SymbolFacts
<1> DEFINE rest == Split(Colon)[r]  pieces == Split(Colon)[line]  S == split_str(pieces)
<1>2. pieces = <<p>> \o rest /\ rest \in Seq(Text)
  BY SplitCat, SplitRecursion, SymbolFacts
<1>3. KeyOf[line] = pieces[Min(S)]
  BY <1>1 DEF KeyOf
<1>4. S = {i \in DOMAIN pieces : pieces[i] # <<>>}
  BY DEF split_str
<1> HIDE DEF pieces, S, rest
<1>5. <<p>> \in Seq(Text) /\ Len(<<p>>) = 1 /\ <<p>>[1] = p
  BY OneElement
<1>6. /\ pieces \in Seq(Text) /\ Len(pieces) = 1 + Len(rest)
      /\ \A i \in 1..1 + Len(rest) : pieces[i] = IF i <= 1 THEN <<p>>[i] ELSE rest[i - 1]
  BY <1>2, <1>5, ConcatProperties
<1>7. Len(rest) \in Nat /\ DOMAIN pieces = 1..Len(pieces) /\ Len(pieces) \in Nat
  BY <1>2, <1>6, LenProperties
<1>8. 1 \in DOMAIN pieces /\ pieces[1] = p
  BY <1>5, <1>6, <1>7
<1>9. S \in SUBSET Nat /\ 1 \in S /\ 0 \notin S
  BY <1>4, <1>7, <1>8
<1>10. Min(S) \in S /\ Min(S) <= 1
  BY <1>9, MinOf
<1> DEFINE m == Min(S)
<1> HIDE DEF m
<1>11. m \in Nat /\ m # 0 /\ m <= 1
  BY <1>9, <1>10 DEF m
<1>12. m = 1
  BY <1>11
<1> QED
  BY <1>1, <1>3, <1>8, <1>12 DEF m

LEMMA OneIndex == \A i \in 1..1 : i = 1
OBVIOUS

LEMMA KeptWhole ==
  ASSUME NEW v \in Text, ~Has(v, Colon)
  PROVE  Kept(v) = v
<1> DEFINE q == Split(Colon)[v]  T == split_str(q)
<1>1. q = <<v>> /\ Len(<<v>>) = 1 /\ <<v>>[1] = v /\ <<v>> \in Seq(Text)
  BY SplitOne, OneElement
<1>2. DOMAIN q = 1..1
  BY <1>1, LenProperties
<1>3. T = {i \in DOMAIN q : q[i] # <<>>}
  BY DEF split_str
<1>4. Kept(v) = IF \E i \in T : T = {i} THEN q[Max(T)] ELSE <<>>
  BY DEF Kept
<1> HIDE DEF q, T
<1>5. \A i \in T : i = 1
  BY <1>2, <1>3, OneIndex
<1>6. 1 \in DOMAIN q /\ q[1] = v
  BY <1>1, <1>2
<1>7. CASE v = <<>>
  <2>1. T = {}
    BY <1>3, <1>5, <1>6, <1>7
  <2> QED
    BY <1>4, <1>7, <2>1
<1>8. CASE v # <<>>
  <2>1. 1 \in T /\ T = {1}
    BY <1>3, <1>5, <1>6, <1>8
  <2>2. T \in SUBSET (0..1) /\ T # {}
    BY <2>1
  <2>3. Max(T) \in T
    BY <2>2, MaxOf
  <2>4. Max(T) = 1
    BY <1>5, <2>3
  <2> QED
    BY <1>4, <1>6, <2>1, <2>4
<1> QED
  BY <1>7, <1>8

(* Of a line, what is kept of its value is read. *)
LEMMA ValueIsKept ==
  ASSUME NEW p \in Text, p # <<>>, ~Has(p, Colon), NEW v \in Text,
         NEW line, line = p \o <<Colon>> \o v
  PROVE  ValueOf[line] = Kept(v)
<1>1. line \in Text
  BY CutThere, SymbolFacts
<1> DEFINE q == Split(Colon)[v]  pieces == Split(Colon)[line]
           T == split_str(q)  S == split_str(pieces)  n == Len(q)
<1>2. pieces = <<p>> \o q /\ q \in Seq(Text)
  BY SplitCat, SplitRecursion, SymbolFacts
<1>3. ValueOf[line] = IF Cardinality(S) = 2 THEN pieces[Max(S)] ELSE <<>>
  BY <1>1 DEF ValueOf
<1>4. Kept(v) = IF \E i \in T : T = {i} THEN q[Max(T)] ELSE <<>>
  BY DEF Kept
<1>5. S = {i \in DOMAIN pieces : pieces[i] # <<>>} /\ T = {i \in DOMAIN q : q[i] # <<>>}
  BY DEF split_str
<1> HIDE DEF q, pieces, S, T
<1>6. <<p>> \in Seq(Text) /\ Len(<<p>>) = 1 /\ <<p>>[1] = p
  BY OneElement
<1>7. /\ pieces \in Seq(Text) /\ Len(pieces) = 1 + n
      /\ \A i \in 1..1 + n : pieces[i] = IF i <= 1 THEN <<p>>[i] ELSE q[i - 1]
  BY <1>2, <1>6, ConcatProperties
<1>8. n \in Nat /\ DOMAIN q = 1..n /\ DOMAIN pieces = 1..1 + n
  BY <1>2, <1>7, LenProperties
<1> HIDE DEF n
<1>9. 1 \in S
  <2>1. 1 \in 1..1 + n
    BY <1>8
  <2> QED
    BY <1>5, <1>6, <1>7, <1>8, <2>1
<1>10. ASSUME NEW i \in T PROVE i \in Nat /\ i + 1 \in S /\ i + 1 # 1 /\ pieces[i + 1] = q[i]
  <2>1. i \in 1..n /\ q[i] # <<>>
    BY <1>5, <1>8
  <2>2. i + 1 \in 1..1 + n /\ ~(i + 1 <= 1) /\ (i + 1) - 1 = i /\ i \in Nat /\ i + 1 # 1
    BY <1>8, <2>1
  <2>3. pieces[i + 1] = q[i]
    BY <1>7, <2>2
  <2> QED
    BY <1>5, <1>8, <2>1, <2>2, <2>3
<1>11. ASSUME NEW j \in S PROVE j \in Nat /\ j \in 0..1 + n /\ (j # 1 => j - 1 \in T)
  <2>1. j \in 1..1 + n /\ pieces[j] # <<>>
    BY <1>5, <1>8
  <2>2. j \in Nat /\ j \in 0..1 + n
    BY <1>8, <2>1
  <2>3. j # 1 => j - 1 \in 1..n /\ ~(j <= 1)
    BY <1>8, <2>1
  <2>4. j # 1 => pieces[j] = q[j - 1]
    BY <1>7, <2>1, <2>3
  <2> QED
    BY <1>5, <1>8, <2>1, <2>2, <2>3, <2>4
<1>12. CASE \E i \in T : T = {i}
  <2>1. PICK i \in T : T = {i}
    BY <1>12
  <2>2. i \in Nat /\ i + 1 \in S /\ i + 1 # 1 /\ pieces[i + 1] = q[i]
    BY <1>10
  <2>3. S = {1} \cup {i + 1}
    <3>1. ASSUME NEW j \in S PROVE j = 1 \/ j = i + 1
      BY <1>11, <2>1, <2>2
    <3> QED
      BY <1>9, <2>2, <3>1
  <2>4. Cardinality(S) = 2
    <3>1. IsFiniteSet({1}) /\ Cardinality({1}) = 1
      BY FS_Singleton
    <3>2. i + 1 \notin {1}
      BY <2>2
    <3> DEFINE one == {1}  next == i + 1
    <3> HIDE DEF one, next
    <3>3. Cardinality(one \cup {next}) = Cardinality(one) + 1
      BY <3>1, <3>2, FS_AddElement DEF one, next
    <3>4. S = one \cup {next}
      BY <2>3 DEF one, next
    <3>5. Cardinality(S) = 1 + 1
      BY <3>1, <3>3, <3>4 DEF one
    <3> QED
      BY <3>5
  <2>5. S \in SUBSET (0..1 + n) /\ S # {} /\ 1 + n \in Nat
    BY <1>8, <1>9, <1>11
  <2>6. Max(S) \in S /\ i + 1 <= Max(S)
    BY <2>2, <2>5, MaxOf
  <2>7. Max(S) = i + 1
    <3>1. Max(S) = 1 \/ Max(S) = i + 1
      BY <2>3, <2>6
    <3> QED
      BY <2>2, <2>6, <3>1
  <2>8. Max(T) = i
    <3>1. T \in SUBSET (0..i) /\ T # {}
      BY <2>1, <2>2
    <3>2. Max(T) \in T
      BY <2>2, <3>1, MaxOf
    <3> QED
      BY <2>1, <3>2
  <2> QED
    BY <1>3, <1>4, <1>12, <2>2, <2>4, <2>7, <2>8
<1>13. CASE ~\E i \in T : T = {i}
  <2>1. ASSUME Cardinality(S) = 2 PROVE FALSE
    <3>1. S \in SUBSET (0..1 + n) /\ 0 \in Int /\ 1 + n \in Int
      BY <1>8, <1>11
    <3>2. IsFiniteSet(S)
      BY <3>1, FS_Interval, FS_Subset
    <3> DEFINE R == S \ {1}
    <3>3. IsFiniteSet(R) /\ Cardinality(R) = 1
      <4>1. IsFiniteSet(R) /\ Cardinality(R) = Cardinality(S) - 1
        BY <1>9, <3>2, FS_RemoveElement
      <4> QED
        BY <2>1, <4>1
    <3>4. PICK x : R = {x}
      BY <3>3, FS_Singleton
    <3>5. x \in S /\ x # 1
      BY <3>4
    <3>6. x - 1 \in T /\ x \in Nat
      BY <1>11, <3>5
    <3>7. ASSUME NEW i \in T PROVE i = x - 1
      <4>1. i \in Nat /\ i + 1 \in S /\ i + 1 # 1
        BY <1>10
      <4>2. i + 1 = x
        BY <3>4, <4>1
      <4> QED
        BY <3>6, <4>1, <4>2
    <3>8. T = {x - 1}
      BY <3>6, <3>7
    <3> QED
      BY <1>13, <3>6, <3>8
  <2> QED
    BY <1>3, <1>4, <1>13, <2>1
<1> QED
  BY <1>12, <1>13

LEMMA StartsAs ==
  ASSUME NEW x \in Text, x # <<>>, NEW y \in Text
  PROVE  x \o y # <<>> /\ (x \o y)[1] = x[1]
<1> DEFINE z == x \o y
<1>1. /\ z \in Text /\ Len(z) = Len(x) + Len(y)
      /\ \A i \in 1..Len(x) + Len(y) : z[i] = IF i <= Len(x) THEN x[i] ELSE y[i - Len(x)]
  BY CatText
<1>2. Len(x) \in Nat /\ Len(y) \in Nat /\ Len(x) # 0
  BY TextFacts, EmptyText
<1> HIDE DEF z
<1>3. 1 \in 1..Len(x) + Len(y) /\ 1 <= Len(x) /\ Len(z) # 0
  BY <1>1, <1>2
<1>4. z[1] = x[1] /\ z # <<>>
  BY <1>1, <1>3, EmptyText
<1> QED
  BY <1>4 DEF z

(* The key of a line that starts with something is not empty. *)
LEMMA KeyStarts ==
  ASSUME NEW e \in Text, Has(e, Colon), e[1] # Colon
  PROVE  KeyOf[e] \in Text /\ KeyOf[e][1] = e[1]
<1> DEFINE n == First(e, Colon)  p == Before(e, n)  r == After(e, n)
<1>1. /\ p \in Text /\ ~Has(p, Colon) /\ r \in Text /\ Len(p) = n - 1
      /\ e = p \o <<Colon>> \o r
  BY CutText
<1>2. n \in 1..Len(e) /\ e[n] = Colon /\ Len(e) \in Nat
  BY FirstOf, TextFacts
<1> HIDE DEF n, p, r
<1>3. n # 1
  BY <1>2
<1>4. Len(p) \in Nat /\ 1 <= Len(p)
  BY <1>1, <1>2, <1>3
<1>5. p # <<>>
  BY <1>1, <1>4, EmptyText
<1>6. KeyOf[e] = p
  BY <1>1, <1>5, KeyIsFirst
<1>7. <<Colon>> \in Text
  BY SymbolFacts, OneText
<1> DEFINE q == p \o <<Colon>>
<1>8. q \in Text /\ q # <<>> /\ q[1] = p[1]
  BY <1>1, <1>5, <1>7, CatText, StartsAs
<1>9. e = q \o r
  BY <1>1
<1> HIDE DEF q
<1>10. e[1] = q[1]
  BY <1>1, <1>8, <1>9, StartsAs
<1> QED
  BY <1>1, <1>6, <1>8, <1>10

(* a line of a report: it has a key, and a date that stoi can convert *)
IsEventLine(l) ==
  /\ l \in Text /\ KeyOf[l] \in Text
  /\ KeyOf[l] = <<"date time">> => \E n \in Dates : ValueOf[l] = to_string(n)
EventLines(x, ls) == WholeLines(x, ls) /\ \A i \in 1..Len(ls) : IsEventLine(ls[i])

LEMMA MoreEventLines ==
  ASSUME NEW x, NEW y, NEW ls, NEW ms, EventLines(x, ls), EventLines(y, ms)
  PROVE  EventLines(x \o y, ls \o ms)
<1>1. WholeLines(x \o y, ls \o ms)
  BY MoreLines DEF EventLines
<1>2. ls \in Seq(Text) /\ ms \in Seq(Text)
  BY DEF EventLines, WholeLines
<1>3. Len(ls) \in Nat /\ Len(ms) \in Nat
  BY <1>2, LenProperties
<1>4. /\ Len(ls \o ms) = Len(ls) + Len(ms)
      /\ \A i \in 1..Len(ls) + Len(ms) :
           (ls \o ms)[i] = IF i <= Len(ls) THEN ls[i] ELSE ms[i - Len(ls)]
  BY <1>2, ConcatProperties
<1>5. /\ \A i \in 1..Len(ls) : IsEventLine(ls[i])
      /\ \A i \in 1..Len(ms) : IsEventLine(ms[i])
  BY DEF EventLines
<1> DEFINE all == ls \o ms
<1>6. Len(all) = Len(ls) + Len(ms)
  BY <1>4
<1>7. \A i \in 1..Len(ls) + Len(ms) :
           all[i] = IF i <= Len(ls) THEN ls[i] ELSE ms[i - Len(ls)]
  BY <1>4
<1> HIDE DEF all
<1>8. ASSUME NEW i \in 1..Len(all) PROVE IsEventLine(all[i])
  <2>1. i <= Len(ls) => i \in 1..Len(ls)
    BY <1>3, <1>6
  <2>2. ~(i <= Len(ls)) => i - Len(ls) \in 1..Len(ms)
    BY <1>3, <1>6
  <2>3. all[i] = IF i <= Len(ls) THEN ls[i] ELSE ms[i - Len(ls)]
    BY <1>6, <1>7
  <2> QED
    BY <1>5, <2>1, <2>2, <2>3
<1> QED
  BY <1>1, <1>8 DEF EventLines, all

(* the values of the lines that have a key *)
ValuesOf(ls, k) == {ValueOf[ls[i]] : i \in {j \in 1..Len(ls) : KeyOf[ls[j]] = k}}

AddUp(ls, ms, k) ==
  /\ ls \o ms \in Seq(Text)
  /\ ValuesOf(ls \o ms, k) = ValuesOf(ls, k) \cup ValuesOf(ms, k)

LEMMA ValuesOfMore ==
  ASSUME NEW ls \in Seq(Text), NEW ms \in Seq(Text), NEW k
  PROVE  AddUp(ls, ms, k)
<1> DEFINE all == ls \o ms  m == Len(ls)  n == Len(ms)
<1>1. m \in Nat /\ n \in Nat
  BY LenProperties
<1>2. /\ all \in Seq(Text) /\ Len(all) = m + n
      /\ \A i \in 1..m + n : all[i] = IF i <= m THEN ls[i] ELSE ms[i - m]
  BY ConcatProperties
<1> HIDE DEF all, m, n
<1>3. ASSUME NEW i \in 1..m + n
      PROVE  \/ i \in 1..m /\ all[i] = ls[i]
             \/ i - m \in 1..n /\ all[i] = ms[i - m]
  <2>1. i <= m => i \in 1..m
    BY <1>1
  <2>2. ~(i <= m) => i - m \in 1..n
    BY <1>1
  <2> QED
    BY <1>2, <2>1, <2>2
<1>4. ASSUME NEW i \in 1..m PROVE i \in 1..m + n /\ all[i] = ls[i]
  <2>1. i \in 1..m + n /\ i <= m
    BY <1>1
  <2> QED
    BY <1>2, <2>1
<1>5. ASSUME NEW i \in 1..n PROVE i + m \in 1..m + n /\ all[i + m] = ms[i]
  <2>1. i + m \in 1..m + n /\ ~(i + m <= m) /\ (i + m) - m = i
    BY <1>1
  <2> QED
    BY <1>2, <2>1
<1>6. ASSUME NEW v \in ValuesOf(all, k) PROVE v \in ValuesOf(ls, k) \cup ValuesOf(ms, k)
  <2>1. PICK i \in 1..m + n : KeyOf[all[i]] = k /\ v = ValueOf[all[i]]
    BY <1>2 DEF ValuesOf
  <2> QED
    BY <1>3, <2>1 DEF ValuesOf, m, n
<1>7. ASSUME NEW v \in ValuesOf(ls, k) PROVE v \in ValuesOf(all, k)
  <2>1. PICK i \in 1..m : KeyOf[ls[i]] = k /\ v = ValueOf[ls[i]]
    BY DEF ValuesOf, m
  <2> QED
    BY <1>2, <1>4, <2>1 DEF ValuesOf
<1>8. ASSUME NEW v \in ValuesOf(ms, k) PROVE v \in ValuesOf(all, k)
  <2>1. PICK i \in 1..n : KeyOf[ms[i]] = k /\ v = ValueOf[ms[i]]
    BY DEF ValuesOf, n
  <2> QED
    BY <1>2, <1>5, <2>1 DEF ValuesOf
<1> QED
  BY <1>2, <1>6, <1>7, <1>8 DEF AddUp, all

LEMMA ValuesOfOne ==
  ASSUME NEW l \in Text, NEW k
  PROVE  ValuesOf(<<l>>, k) = IF KeyOf[l] = k THEN {ValueOf[l]} ELSE {}
<1> DEFINE ls == <<l>>
<1>1. Len(ls) = 1 /\ ls[1] = l
  BY OneElement
<1> HIDE DEF ls
<1>2. \A i \in 1..Len(ls) : i = 1
  BY <1>1, OneIndex
<1>3. 1 \in 1..Len(ls)
  BY <1>1
<1>4. ValuesOf(ls, k) = IF KeyOf[l] = k THEN {ValueOf[l]} ELSE {}
  BY <1>1, <1>2, <1>3 DEF ValuesOf
<1> QED
  BY <1>4 DEF ls

LEMMA KeyLine ==
  ASSUME NEW k, IsPlain(k), k # <<>>, ~Has(k, Colon), NEW v, IsPlain(v),
         k = <<"date time">> =>
           v # <<>> /\ ~Has(v, Colon) /\ \E n \in Dates : v = to_string(n)
  PROVE  \E l \in Text : /\ EventLines(Line(k, v), <<l>>)
                       /\ KeyOf[l] = k /\ ValueOf[l] = Kept(v)
<1> DEFINE e == Entry(<<>>, k, v)
<1>1. k \in Text /\ v \in Text /\ <<>> \o k = k /\ IsPlain(<<>>)
  BY EmptyText DEF IsPlain
<1>2. e = k \o <<Colon>> \o v
  BY <1>1 DEF Entry
<1>3. Line(k, v) = e \o <<NL>>
  <2>1. <<>> \o Line(k, v) = e \o <<NL>>
    <3>1. <<>> \in Text
      BY EmptyText
    <3> DEFINE blank == <<>>
    <3> HIDE DEF blank
    <3>2. blank \o Line(k, v) = Entry(blank, k, v) \o <<NL>>
      BY <1>1, <3>1, EntryLine DEF blank
    <3> QED
      BY <3>2 DEF blank
  <2>2. Line(k, v) \in Text
    BY <1>1, LineText
  <2> QED
    BY <2>1, <2>2, EmptyText
<1>4. WholeLines(e \o <<NL>>, <<e>>)
  BY <1>1, EntryIsLine, OneLine
<1> HIDE DEF e
<1>5. e \in Text /\ KeyOf[e] = k
  BY <1>1, <1>2, KeyIsFirst
<1>6. ValueOf[e] = Kept(v)
  BY <1>1, <1>2, ValueIsKept
<1>7. IsEventLine(e)
  BY <1>1, <1>5, <1>6, KeptWhole DEF IsEventLine
<1>8. Len(<<e>>) = 1 /\ <<e>>[1] = e
  BY <1>5, OneElement
<1>9. \A i \in 1..1 : i = 1
  BY OneIndex
<1>10. \A i \in 1..Len(<<e>>) : IsEventLine(<<e>>[i])
  BY <1>7, <1>8, <1>9
<1>11. EventLines(Line(k, v), <<e>>)
  BY <1>3, <1>4, <1>10 DEF EventLines
<1> QED
  BY <1>5, <1>6, <1>11

(* the keys of the lines of a report, those of general information apart *)
ReportKeys == {<<"user">>, <<"city">>, <<"event name">>, <<"date time">>, DescriptionKey}

LEMMA ReportKeysFacts ==
  \A k \in ReportKeys : k[1] # " "
<1>1. /\ <<"user">>[1] = "user" /\ <<"city">>[1] = "city" /\ <<"event name">>[1] = "event name"
      /\ <<"date time">>[1] = "date time" /\ <<"d", "escription">>[1] = "d"
  OBVIOUS
<1>2. "user" # " " /\ "city" # " " /\ "event name" # " " /\ "date time" # " " /\ "d" # " "
  OBVIOUS
<1> QED
  BY <1>1, <1>2 DEF ReportKeys, DescriptionKey

LEMMA InfoLines ==
  ASSUME NEW map, PlainMap(map)
  PROVE  \E ls : /\ EventLines(Lines(<<" ">>, map), ls)
                 /\ \A k \in ReportKeys : ValuesOf(ls, k) = {}
<1>1. " " \in Words
  BY EventAssumption
<1>2. IsPlain(<<" ">>) /\ <<" ">> \in Text /\ " " # Colon /\ Len(<<" ">>) = 1 /\ <<" ">>[1] = " "
  BY <1>1, WordText, WordsAssumption
<1>3. PICK ls : /\ WholeLines(Lines(<<" ">>, map), ls)
                /\ EntriesOf(ls, <<" ">>, map, DOMAIN map)
  BY <1>2, LinesWhole
<1>4. ASSUME NEW i \in 1..Len(ls) PROVE IsEventLine(ls[i]) /\ KeyOf[ls[i]][1] = " "
  <2>1. PICK k \in DOMAIN map : ls[i] = Entry(<<" ">>, k, map[k])
    BY <1>3 DEF EntriesOf
  <2>2. k \in Text /\ map[k] \in Text
    BY DEF PlainMap, IsPlain
  <2> DEFINE e == Entry(<<" ">>, k, map[k])  v == map[k]  s == <<" ">> \o k  q == s \o <<Colon>>
  <2>3. e \in Text
    BY <1>2, <2>2, EntryLine
  <2>4. e = q \o v /\ v \in Text /\ <<Colon>> \in Text /\ <<" ">> # <<>>
    BY <1>2, <2>2, SymbolFacts, OneText, EmptyText DEF Entry
  <2>5. s \in Text /\ s # <<>> /\ s[1] = " "
    BY <1>2, <2>2, <2>4, CatText, StartsAs
  <2> HIDE DEF e, v, s
  <2>6. Has(q, Colon)
    BY <2>4, <2>5, HasCat, HasOne, SymbolFacts
  <2>7. q \in Text /\ q # <<>> /\ q[1] = s[1]
    BY <2>4, <2>5, CatText, StartsAs
  <2> HIDE DEF q
  <2>8. (q \o v)[1] = q[1] /\ Has(q \o v, Colon)
    BY <2>4, <2>6, <2>7, StartsAs, HasCat
  <2>9. e[1] = " "
    BY <2>4, <2>5, <2>7, <2>8
  <2>10. Has(e, Colon)
    BY <2>4, <2>8
  <2>11. KeyOf[e] \in Text /\ KeyOf[e][1] = " "
    BY <1>2, <2>3, <2>9, <2>10, KeyStarts
  <2>12. KeyOf[e] # <<"date time">>
    <3>1. <<"date time">>[1] = "date time" /\ "date time" # " "
      OBVIOUS
    <3> QED
      BY <2>11, <3>1
  <2>13. IsEventLine(e)
    BY <2>3, <2>11, <2>12 DEF IsEventLine
  <2> QED
    BY <2>1, <2>11, <2>13 DEF e
<1>5. ASSUME NEW k \in ReportKeys PROVE ValuesOf(ls, k) = {}
  BY <1>4, ReportKeysFacts DEF ValuesOf
<1> QED
  BY <1>3, <1>4, <1>5 DEF EventLines

(* the values of the lines of a report of e by u, without the description *)
LinesTell(ls, u, e) ==
  /\ ValuesOf(ls, <<"user">>) = {Kept(u)}
  /\ ValuesOf(ls, <<"city">>) = {Kept(e.city)}
  /\ ValuesOf(ls, <<"event name">>) = {Kept(e.name)}
  /\ ValuesOf(ls, <<"date time">>) = {to_string(e.date)}
  /\ ValuesOf(ls, DescriptionKey) = {}

(* The body of a report is its lines up to the one that starts the           *)
(* description, and the description.                                         *)
LEMMA BodyLines ==
  ASSUME NEW u, IsPlain(u), NEW e, IsPlain(e.city), IsPlain(e.name), e.date \in Dates,
         PlainMap(e.info), e.description \in Text
  PROVE  \E H, ls, l : /\ reportBody(u, e) = H \o (e.description \o <<NL>>)
                       /\ EventLines(H, ls \o <<l>>) /\ ls \in Seq(Text) /\ l \in Text
                       /\ KeyOf[l] = DescriptionKey /\ LinesTell(ls, u, e)
<1>1. \A w \in {" ", "user", "city", "event name", "date time", "general information",
                "d", "escription"} : w \in Words
  BY EventAssumption
<1> DEFINE Key(k) == IsPlain(k) /\ k # <<>> /\ ~Has(k, Colon)
<1>2. \A w \in Words : Key(<<w>>)
  BY WordText DEF IsLine
<1>3. /\ Key(<<"user">>) /\ Key(<<"city">>) /\ Key(<<"event name">>)
      /\ Key(<<"date time">>) /\ Key(<<"general information">>)
  BY <1>1, <1>2
<1>4. Key(DescriptionKey)
  <2>1. Key(<<"d">>) /\ Key(<<"escription">>)
    BY <1>1, <1>2
  <2>2. <<"d">> \o <<"escription">> = DescriptionKey
    BY <1>1, WordText, TwoSymbols DEF DescriptionKey
  <2> QED
    BY <2>1, <2>2, CatText, StartsAs, HasCat DEF IsPlain
<1>5. /\ <<"user">> # <<"date time">> /\ <<"city">> # <<"date time">>
      /\ <<"event name">> # <<"date time">> /\ <<"general information">> # <<"date time">>
      /\ DescriptionKey # <<"date time">>
  BY DEF DescriptionKey
<1>6. IsPlain(<<>>)
  BY EmptyText DEF IsPlain
<1> DEFINE a == Line(<<"user">>, u)  b == Line(<<"city">>, e.city)
           c == Line(<<"event name">>, e.name)  d == Line(<<"date time">>, to_string(e.date))
           g == Line(<<"general information">>, <<>>)  i == Lines(<<" ">>, e.info)
           h == Line(DescriptionKey, <<>>)  t == e.description
<1>7. PICK la \in Text : /\ EventLines(a, <<la>>)
                      /\ KeyOf[la] = <<"user">> /\ ValueOf[la] = Kept(u)
  BY <1>3, <1>5, KeyLine
<1>8. PICK lb \in Text : /\ EventLines(b, <<lb>>)
                      /\ KeyOf[lb] = <<"city">> /\ ValueOf[lb] = Kept(e.city)
  BY <1>3, <1>5, KeyLine
<1>9. PICK lc \in Text : /\ EventLines(c, <<lc>>)
                      /\ KeyOf[lc] = <<"event name">> /\ ValueOf[lc] = Kept(e.name)
  BY <1>3, <1>5, KeyLine
<1>10. PICK ld \in Text : /\ EventLines(d, <<ld>>) /\ KeyOf[ld] = <<"date time">>
                       /\ ValueOf[ld] = to_string(e.date)
  <2> DEFINE v == to_string(e.date)
  <2>1. v = <<ToString(e.date)>> /\ ToString(e.date) \in Words
    BY EventAssumption DEF to_string
  <2>2. IsPlain(v) /\ v # <<>> /\ ~Has(v, Colon)
    BY <1>2, <2>1
  <2>3. \E n \in Dates : v = to_string(n)
    OBVIOUS
  <2> HIDE DEF v
  <2> QED
    <3>1. PICK l \in Text : /\ EventLines(Line(<<"date time">>, v), <<l>>)
                            /\ KeyOf[l] = <<"date time">> /\ ValueOf[l] = Kept(v)
      BY <1>3, <2>2, <2>3, KeyLine
    <3>2. v \in Text
      BY <2>2 DEF IsPlain
    <3>3. Kept(v) = v
      BY <2>2, <3>2, KeptWhole
    <3> QED
      BY <3>1, <3>3 DEF v
<1>11. PICK lg \in Text : EventLines(g, <<lg>>) /\ KeyOf[lg] = <<"general information">>
  BY <1>3, <1>5, <1>6, KeyLine
<1>12. PICK li : EventLines(i, li) /\ \A k \in ReportKeys : ValuesOf(li, k) = {}
  BY InfoLines
<1>13. PICK lh \in Text : EventLines(h, <<lh>>) /\ KeyOf[lh] = DescriptionKey
  BY <1>4, <1>5, <1>6, KeyLine
<1>14. reportBody(u, e) = a \o b \o c \o d \o g \o i \o h \o t \o <<NL>>
  BY DEF reportBody, reportLines
<1> HIDE DEF a, b, c, d, g, i, h, t, Key
<1> DEFINE H == a \o b \o c \o d \o g \o i \o h
           m == <<la>> \o <<lb>> \o <<lc>> \o <<ld>> \o <<lg>> \o li
<1>15. EventLines(a \o b \o c \o d, <<la>> \o <<lb>> \o <<lc>> \o <<ld>>)
  BY <1>7, <1>8, <1>9, <1>10, MoreEventLines
<1>16. EventLines(a \o b \o c \o d \o g \o i, m)
  BY <1>11, <1>12, <1>15, MoreEventLines
<1> HIDE DEF m
<1>17. EventLines(H, m \o <<lh>>)
  BY <1>13, <1>16, MoreEventLines
<1>18. reportBody(u, e) = (H \o t) \o <<NL>>
  BY <1>14
<1> HIDE DEF H
<1>19. (H \o t) \o <<NL>> = H \o (t \o <<NL>>)
  <2>1. H \in Text /\ t \in Text /\ <<NL>> \in Text
    BY <1>17, OneText, SymbolFacts DEF EventLines, WholeLines, t
  <2>2. Associates(H, t, <<NL>>)
    BY <2>1, Associative
  <2> QED
    BY <2>2 DEF Associates
<1>20. /\ <<la>> \in Seq(Text) /\ <<lb>> \in Seq(Text) /\ <<lc>> \in Seq(Text)
       /\ <<ld>> \in Seq(Text) /\ <<lg>> \in Seq(Text) /\ li \in Seq(Text)
  BY <1>12, OneElement DEF EventLines, WholeLines
<1>21. ASSUME NEW k
       PROVE  ValuesOf(m, k) = ValuesOf(<<la>>, k) \cup ValuesOf(<<lb>>, k) \cup ValuesOf(<<lc>>, k)
                \cup ValuesOf(<<ld>>, k) \cup ValuesOf(<<lg>>, k) \cup ValuesOf(li, k)
  <2> DEFINE pa == <<la>>  pb == <<lb>>  pc == <<lc>>  pd == <<ld>>  pg == <<lg>>
             w == pa \o pb  x == w \o pc  y == x \o pd  z == y \o pg
  <2>1. m = z \o li
    BY DEF m
  <2>2. /\ pa \in Seq(Text) /\ pb \in Seq(Text) /\ pc \in Seq(Text) /\ pd \in Seq(Text)
        /\ pg \in Seq(Text)
    BY <1>20
  <2> HIDE DEF pa, pb, pc, pd, pg
  <2>3. AddUp(pa, pb, k)
    BY <2>2, ValuesOfMore
  <2>4. w \in Seq(Text)
    BY <2>3 DEF AddUp
  <2> HIDE DEF w
  <2>5. AddUp(w, pc, k)
    BY <2>2, <2>4, ValuesOfMore
  <2>6. x \in Seq(Text)
    BY <2>5 DEF AddUp
  <2> HIDE DEF x
  <2>7. AddUp(x, pd, k)
    BY <2>2, <2>6, ValuesOfMore
  <2>8. y \in Seq(Text)
    BY <2>7 DEF AddUp
  <2> HIDE DEF y
  <2>9. AddUp(y, pg, k)
    BY <2>2, <2>8, ValuesOfMore
  <2>10. z \in Seq(Text)
    BY <2>9 DEF AddUp
  <2> HIDE DEF z
  <2>11. AddUp(z, li, k)
    BY <1>20, <2>10, ValuesOfMore
  <2>12. /\ ValuesOf(w, k) = ValuesOf(pa, k) \cup ValuesOf(pb, k)
         /\ ValuesOf(x, k) = ValuesOf(w, k) \cup ValuesOf(pc, k)
         /\ ValuesOf(y, k) = ValuesOf(x, k) \cup ValuesOf(pd, k)
         /\ ValuesOf(z, k) = ValuesOf(y, k) \cup ValuesOf(pg, k)
         /\ ValuesOf(m, k) = ValuesOf(z, k) \cup ValuesOf(li, k)
    BY <2>1, <2>3, <2>5, <2>7, <2>9, <2>11 DEF AddUp, w, x, y, z
  <2> QED
    BY <2>12 DEF pa, pb, pc, pd, pg
<1>22. /\ \A k : ValuesOf(<<la>>, k) = IF k = <<"user">> THEN {Kept(u)} ELSE {}
       /\ \A k : ValuesOf(<<lb>>, k) = IF k = <<"city">> THEN {Kept(e.city)} ELSE {}
       /\ \A k : ValuesOf(<<lc>>, k) = IF k = <<"event name">> THEN {Kept(e.name)} ELSE {}
       /\ \A k : ValuesOf(<<ld>>, k) = IF k = <<"date time">> THEN {to_string(e.date)} ELSE {}
       /\ \A k : k # <<"general information">> => ValuesOf(<<lg>>, k) = {}
       /\ \A k \in ReportKeys : ValuesOf(li, k) = {}
  <2>1. /\ \A k : ValuesOf(<<la>>, k) = IF KeyOf[la] = k THEN {ValueOf[la]} ELSE {}
        /\ \A k : ValuesOf(<<lb>>, k) = IF KeyOf[lb] = k THEN {ValueOf[lb]} ELSE {}
        /\ \A k : ValuesOf(<<lc>>, k) = IF KeyOf[lc] = k THEN {ValueOf[lc]} ELSE {}
        /\ \A k : ValuesOf(<<ld>>, k) = IF KeyOf[ld] = k THEN {ValueOf[ld]} ELSE {}
        /\ \A k : ValuesOf(<<lg>>, k) = IF KeyOf[lg] = k THEN {ValueOf[lg]} ELSE {}
    BY ValuesOfOne
  <2> QED
    BY <1>7, <1>8, <1>9, <1>10, <1>11, <1>12, <2>1
<1>23. /\ <<"user">> # <<"city">> /\ <<"user">> # <<"event name">>
       /\ <<"city">> # <<"event name">> /\ <<"user">> # <<"general information">>
       /\ <<"city">> # <<"general information">>
       /\ <<"event name">> # <<"general information">>
       /\ DescriptionKey # <<"user">> /\ DescriptionKey # <<"city">>
       /\ DescriptionKey # <<"event name">> /\ DescriptionKey # <<"general information">>
  BY DEF DescriptionKey
<1>24. LinesTell(m, u, e)
  <2> HIDE DEF m
  <2>1. ValuesOf(m, <<"user">>) = {Kept(u)}
    <3> DEFINE k == <<"user">>
    <3>1. /\ ValuesOf(<<la>>, k) = {Kept(u)} /\ ValuesOf(<<lb>>, k) = {}
          /\ ValuesOf(<<lc>>, k) = {} /\ ValuesOf(<<ld>>, k) = {}
      BY <1>5, <1>22, <1>23
    <3>2. ValuesOf(<<lg>>, k) = {} /\ ValuesOf(li, k) = {}
      BY <1>5, <1>22, <1>23 DEF ReportKeys
    <3>3. ValuesOf(m, k) = ValuesOf(<<la>>, k) \cup ValuesOf(<<lb>>, k) \cup ValuesOf(<<lc>>, k)
                \cup ValuesOf(<<ld>>, k) \cup ValuesOf(<<lg>>, k) \cup ValuesOf(li, k)
      BY <1>21
    <3> HIDE DEF k
    <3>4. ValuesOf(m, k) = {Kept(u)}
      BY <3>1, <3>2, <3>3
    <3> QED
      BY <3>4 DEF k
  <2>2. ValuesOf(m, <<"city">>) = {Kept(e.city)}
    <3> DEFINE k == <<"city">>
    <3>1. /\ ValuesOf(<<la>>, k) = {} /\ ValuesOf(<<lb>>, k) = {Kept(e.city)}
          /\ ValuesOf(<<lc>>, k) = {} /\ ValuesOf(<<ld>>, k) = {}
      BY <1>5, <1>22, <1>23
    <3>2. ValuesOf(<<lg>>, k) = {} /\ ValuesOf(li, k) = {}
      BY <1>5, <1>22, <1>23 DEF ReportKeys
    <3>3. ValuesOf(m, k) = ValuesOf(<<la>>, k) \cup ValuesOf(<<lb>>, k) \cup ValuesOf(<<lc>>, k)
                \cup ValuesOf(<<ld>>, k) \cup ValuesOf(<<lg>>, k) \cup ValuesOf(li, k)
      BY <1>21
    <3> HIDE DEF k
    <3>4. ValuesOf(m, k) = {Kept(e.city)}
      BY <3>1, <3>2, <3>3
    <3> QED
      BY <3>4 DEF k
  <2>3. ValuesOf(m, <<"event name">>) = {Kept(e.name)}
    <3> DEFINE k == <<"event name">>
    <3>1. /\ ValuesOf(<<la>>, k) = {} /\ ValuesOf(<<lb>>, k) = {}
          /\ ValuesOf(<<lc>>, k) = {Kept(e.name)} /\ ValuesOf(<<ld>>, k) = {}
      BY <1>5, <1>22, <1>23
    <3>2. ValuesOf(<<lg>>, k) = {} /\ ValuesOf(li, k) = {}
      BY <1>5, <1>22, <1>23 DEF ReportKeys
    <3>3. ValuesOf(m, k) = ValuesOf(<<la>>, k) \cup ValuesOf(<<lb>>, k) \cup ValuesOf(<<lc>>, k)
                \cup ValuesOf(<<ld>>, k) \cup ValuesOf(<<lg>>, k) \cup ValuesOf(li, k)
      BY <1>21
    <3> HIDE DEF k
    <3>4. ValuesOf(m, k) = {Kept(e.name)}
      BY <3>1, <3>2, <3>3
    <3> QED
      BY <3>4 DEF k
  <2>4. ValuesOf(m, <<"date time">>) = {to_string(e.date)}
    <3> DEFINE k == <<"date time">>
    <3>1. /\ ValuesOf(<<la>>, k) = {} /\ ValuesOf(<<lb>>, k) = {}
          /\ ValuesOf(<<lc>>, k) = {} /\ ValuesOf(<<ld>>, k) = {to_string(e.date)}
      BY <1>5, <1>22, <1>23
    <3>2. ValuesOf(<<lg>>, k) = {} /\ ValuesOf(li, k) = {}
      BY <1>5, <1>22, <1>23 DEF ReportKeys
    <3>3. ValuesOf(m, k) = ValuesOf(<<la>>, k) \cup ValuesOf(<<lb>>, k) \cup ValuesOf(<<lc>>, k)
                \cup ValuesOf(<<ld>>, k) \cup ValuesOf(<<lg>>, k) \cup ValuesOf(li, k)
      BY <1>21
    <3> HIDE DEF k
    <3>4. ValuesOf(m, k) = {to_string(e.date)}
      BY <3>1, <3>2, <3>3
    <3> QED
      BY <3>4 DEF k
  <2>5. ValuesOf(m, DescriptionKey) = {}
    <3> DEFINE k == DescriptionKey
    <3>1. /\ ValuesOf(<<la>>, k) = {} /\ ValuesOf(<<lb>>, k) = {}
          /\ ValuesOf(<<lc>>, k) = {} /\ ValuesOf(<<ld>>, k) = {}
      BY <1>5, <1>22, <1>23
    <3>2. ValuesOf(<<lg>>, k) = {} /\ ValuesOf(li, k) = {}
      BY <1>5, <1>22, <1>23 DEF ReportKeys
    <3>3. ValuesOf(m, k) = ValuesOf(<<la>>, k) \cup ValuesOf(<<lb>>, k) \cup ValuesOf(<<lc>>, k)
                \cup ValuesOf(<<ld>>, k) \cup ValuesOf(<<lg>>, k) \cup ValuesOf(li, k)
      BY <1>21
    <3> HIDE DEF k
    <3>4. ValuesOf(m, k) = {}
      BY <3>1, <3>2, <3>3
    <3> QED
      BY <3>4 DEF k
  <2> QED
    BY <2>1, <2>2, <2>3, <2>4, <2>5 DEF LinesTell
<1>25. m \in Seq(Text)
  BY <1>16 DEF EventLines, WholeLines
<1> QED
  BY <1>13, <1>17, <1>18, <1>19, <1>24, <1>25 DEF t

(* The loop of getline over a text of whole lines and what comes after them. *)
LEMMA GetLines ==
  ASSUME NEW H, NEW ls, WholeLines(H, ls), NEW t \in Text
  PROVE  H \o (t \o <<NL>>) \in Text /\ getLines[H \o (t \o <<NL>>)] = ls \o Split(NL)[t]
<1>1. H \in Text /\ ls \in Seq(Text) /\ <<NL>> \in Text
  BY SymbolFacts, OneText DEF WholeLines
<1> DEFINE x == H \o (t \o <<NL>>)  q == Split(NL)[t]  all == Split(NL)[x]
<1>2. t \o <<NL>> \in Text /\ x \in Text
  BY <1>1, CatText
<1>3. all = ls \o Split(NL)[t \o <<NL>>]
  BY <1>2 DEF WholeLines
<1>4. Split(NL)[t \o <<NL>>] = q \o << <<>> >> /\ q \in Seq(Text)
  BY SymbolFacts, SplitEnd, SplitRecursion
<1>5. getLines[x] = IF Last(all) = <<>> THEN Front(all) ELSE all
  BY <1>2 DEF getLines
<1> HIDE DEF q, all, x
<1>6. <<>> \in Text /\ << <<>> >> \in Seq(Text) /\ Len(<< <<>> >>) = 1 /\ << <<>> >>[1] = <<>>
  BY EmptyText, OneElement
<1>7. all = (ls \o q) \o << <<>> >> /\ ls \o q \in Seq(Text)
  BY <1>1, <1>3, <1>4, <1>6, PiecesAssociative, ConcatProperties
<1> DEFINE m == ls \o q
<1> HIDE DEF m
<1>8. Len(m) \in Nat /\ m \in Seq(Text)
  BY <1>7, LenProperties DEF m
<1>9. /\ Len(all) = Len(m) + 1 /\ all \in Seq(Text)
      /\ \A j \in 1..Len(m) + 1 : all[j] = IF j <= Len(m) THEN m[j] ELSE << <<>> >>[j - Len(m)]
  BY <1>6, <1>7, <1>8, ConcatProperties DEF m
<1>10. Last(all) = <<>>
  <2>1. Len(m) + 1 \in 1..Len(m) + 1 /\ ~(Len(m) + 1 <= Len(m)) /\ (Len(m) + 1) - Len(m) = 1
    BY <1>8
  <2> QED
    BY <1>6, <1>9, <2>1 DEF Last
<1>11. Front(all) = m
  <2>1. Len(all) - 1 = Len(m) /\ 1 \in Int /\ Len(m) \in Int
    BY <1>8, <1>9
  <2>2. Front(all) = SubSeq(all, 1, Len(m))
    BY <2>1 DEF Front
  <2>3. \A j \in 1..Len(m) : j \in 1..Len(m) + 1 /\ j <= Len(m)
    BY <1>8
  <2>4. \A j \in 1..Len(m) : all[j] = m[j] /\ m[j] \in Text
    BY <1>8, <1>9, <2>3, ElementOfSeq
  <2> DEFINE f == SubSeq(all, 1, Len(m))
  <2>5. /\ f \in Seq(Text) /\ Len(f) = IF 1 <= Len(m) THEN Len(m) - 1 + 1 ELSE 0
        /\ \A j \in 1..Len(m) - 1 + 1 : f[j] = all[1 + j - 1]
    BY <2>1, <2>4, SubSeqProperties
  <2> HIDE DEF f
  <2>6. Len(f) = Len(m)
    BY <1>8, <2>5
  <2>7. \A j \in 1..Len(m) : f[j] = m[j]
    <3> SUFFICES ASSUME NEW j \in 1..Len(m) PROVE f[j] = m[j]
      OBVIOUS
    <3>1. j \in 1..Len(m) - 1 + 1 /\ 1 + j - 1 = j
      BY <1>8
    <3> QED
      BY <2>4, <2>5, <3>1
  <2>8. f = m
    BY <1>8, <2>5, <2>6, <2>7, SeqEqual
  <2> QED
    BY <2>2, <2>8 DEF f
<1> QED
  BY <1>2, <1>5, <1>10, <1>11 DEF m, q, x

Events == [user : Text, city : Text, name : Text, date : Dates \cup {0}, info : Maps,
           description : Text]

LEMMA EventType ==
  ASSUME NEW lines \in Seq(Text), NEW n \in 1..Len(lines), KeyOf[lines[n]] = DescriptionKey,
         \A i \in 1..n : IsEventLine(lines[i])
  PROVE  EventOfLines[lines] \in Events
<1> DEFINE keys == [i \in DOMAIN lines |-> KeyOf[lines[i]]]
           firstOf(key) == Min({i \in DOMAIN lines : keys[i] = key} \cup {Len(lines) + 1})
           start == firstOf(DescriptionKey)
           general == firstOf(<<"general information">>)
           lineOf(key) == Max({i \in 1..start - 1 : keys[i] = key} \cup {0})
           valueOf(key) == IF lineOf(key) = 0 THEN <<>> ELSE ValueOf[lines[lineOf(key)]]
           inGeneral == {i \in general + 1..start \cap DOMAIN lines :
                           keys[i] \notin {<<>>, <<"general information">>}}
           last(key) == Max({i \in inGeneral : Tail(keys[i]) = key})
           date == IF lineOf(<<"date time">>) = 0 THEN 0 ELSE stoi(valueOf(<<"date time">>))
           info == [key \in {Tail(keys[i]) : i \in inGeneral} |-> ValueOf[lines[last(key)]]]
           description == FlattenSeq([i \in 1..Len(lines) - start |-> Append(lines[start + i], NL)])
<1>1. EventOfLines[lines] =
        [user |-> valueOf(<<"user">>), city |-> valueOf(<<"city">>),
         name |-> valueOf(<<"event name">>), date |-> date, info |-> info,
         description |-> description]
  BY DEF EventOfLines
<1>2. Len(lines) \in Nat /\ DOMAIN lines = 1..Len(lines) /\ n \in Nat
  BY LenProperties
<1>3. \A i \in DOMAIN lines : lines[i] \in Text /\ ValueOf[lines[i]] \in Text
  BY <1>2, ElementOfSeq, ValueType
<1>a. \A i \in DOMAIN lines : keys[i] = KeyOf[lines[i]]
  OBVIOUS
<1> HIDE DEF keys
<1>4. \A i \in 1..n : i \in DOMAIN lines /\ keys[i] = KeyOf[lines[i]] /\ keys[i] \in Text
  <2> SUFFICES ASSUME NEW i \in 1..n
               PROVE  i \in DOMAIN lines /\ keys[i] = KeyOf[lines[i]] /\ keys[i] \in Text
    OBVIOUS
  <2>1. i \in DOMAIN lines
    BY <1>2
  <2>2. KeyOf[lines[i]] \in Text
    BY DEF IsEventLine
  <2> QED
    BY <1>a, <2>1, <2>2
<1>5. ASSUME NEW key PROVE firstOf(key) \in Nat
  <2> DEFINE S == {i \in DOMAIN lines : keys[i] = key} \cup {Len(lines) + 1}
  <2>1. S \in SUBSET Nat /\ S # {}
    <3>1. Len(lines) + 1 \in Nat /\ \A i \in DOMAIN lines : i \in Nat
      BY <1>2
    <3> QED
      BY <3>1
  <2> HIDE DEF S
  <2>2. Min(S) \in S
    BY <2>1, MinOf
  <2> QED
    BY <2>1, <2>2 DEF S
<1>6. start \in Nat /\ start <= n
  <2> DEFINE S == {i \in DOMAIN lines : keys[i] = DescriptionKey} \cup {Len(lines) + 1}
  <2>1. S \in SUBSET Nat /\ n \in S
    <3>1. Len(lines) + 1 \in Nat /\ \A i \in DOMAIN lines : i \in Nat
      BY <1>2
    <3>2. n \in DOMAIN lines /\ keys[n] = DescriptionKey
      BY <1>2, <1>a
    <3> QED
      BY <3>1, <3>2
  <2>2. start = Min(S)
    OBVIOUS
  <2> HIDE DEF S, start
  <2>3. Min(S) \in S /\ Min(S) <= n
    BY <2>1, MinOf
  <2> QED
    BY <2>1, <2>2, <2>3
<1>7. general \in Nat
  BY <1>5
<1> HIDE DEF start, general
<1>8. ASSUME NEW key
      PROVE  /\ lineOf(key) \in 0..start
             /\ lineOf(key) # 0 => lineOf(key) \in 1..start - 1 /\ keys[lineOf(key)] = key
  <2> DEFINE S == {i \in 1..start - 1 : keys[i] = key} \cup {0}
  <2>1. S \in SUBSET (0..start) /\ S # {}
    BY <1>6
  <2>2. lineOf(key) = Max(S)
    OBVIOUS
  <2> HIDE DEF S, lineOf
  <2>3. Max(S) \in S
    BY <1>6, <2>1, MaxOf
  <2> QED
    BY <2>1, <2>2, <2>3 DEF S
<1> HIDE DEF lineOf
<1>9. \A key : lineOf(key) # 0 => lineOf(key) \in 1..n /\ lineOf(key) \in DOMAIN lines
  BY <1>2, <1>6, <1>8
<1>10. \A key : valueOf(key) \in Text
  BY <1>3, <1>9, EmptyText
<1>11. date \in Dates \cup {0}
  <2> DEFINE i == lineOf(<<"date time">>)
  <2>1. CASE i = 0
    BY <2>1
  <2>2. CASE i # 0
    <3>1. i \in 1..n /\ keys[i] = <<"date time">>
      BY <1>8, <1>9, <2>2
    <3>2. KeyOf[lines[i]] = <<"date time">>
      BY <1>4, <3>1
    <3>3. PICK m \in Dates : ValueOf[lines[i]] = to_string(m)
      BY <3>1, <3>2 DEF IsEventLine
    <3>4. valueOf(<<"date time">>) = ValueOf[lines[i]]
      BY <2>2
    <3> HIDE DEF valueOf
    <3>5. stoi(valueOf(<<"date time">>)) \in Dates
      BY <3>3, <3>4 DEF stoi
    <3> QED
      BY <2>2, <3>5
  <2> QED
    BY <2>1, <2>2
<1>12. info \in Maps
  <2>1. ASSUME NEW i \in inGeneral
        PROVE  i \in 1..n /\ i \in DOMAIN lines /\ keys[i] # <<>>
    <3>1. i \in general + 1..start /\ i \in DOMAIN lines /\ keys[i] # <<>>
      OBVIOUS
    <3> HIDE DEF inGeneral
    <3>2. i \in Int /\ general + 1 <= i /\ i <= start
      BY <1>6, <1>7, <3>1
    <3>3. i \in 1..n
      BY <1>2, <1>6, <1>7, <3>2
    <3> QED
      BY <3>1, <3>3
  <2>2. ASSUME NEW i \in inGeneral PROVE Tail(keys[i]) \in Text
    <3>1. keys[i] \in Seq(Symbol) /\ keys[i] # <<>>
      BY <1>4, <2>1 DEF Text
    <3> QED
      BY <3>1, HeadTailProperties DEF Text
  <2> DEFINE K == {Tail(keys[i]) : i \in inGeneral}
  <2>a. \A i \in inGeneral : i \in 1..n
    BY <2>1
  <2> HIDE DEF inGeneral
  <2>3. inGeneral \in SUBSET (0..n)
    <3>1. \A i \in 1..n : i \in 0..n
      BY <1>2
    <3> QED
      BY <2>a, <3>1
  <2>4. ASSUME NEW key \in K PROVE ValueOf[lines[last(key)]] \in Text
    <3> DEFINE S == {i \in inGeneral : Tail(keys[i]) = key}
    <3>1. S \in SUBSET (0..n) /\ S # {}
      BY <2>3
    <3>2. last(key) = Max(S)
      OBVIOUS
    <3> HIDE DEF S, last
    <3>3. Max(S) \in S
      BY <1>2, <3>1, MaxOf
    <3>4. last(key) \in inGeneral
      BY <3>2, <3>3 DEF S
    <3> QED
      BY <1>3, <2>1, <3>4
  <2>5. K \in SUBSET Text
    BY <2>2
  <2>6. info = [key \in K |-> ValueOf[lines[last(key)]]]
    OBVIOUS
  <2> HIDE DEF K, last, info
  <2>7. info \in [K -> Text]
    BY <2>4, <2>6
  <2> QED
    BY <2>5, <2>7 DEF Maps
<1>13. description \in Text
  <2> DEFINE k == Len(lines) - start
             s == [i \in 1..k |-> Append(lines[start + i], NL)]
  <2>1. k \in Nat
    BY <1>2, <1>6
  <2>2. ASSUME NEW i \in 1..k PROVE Append(lines[start + i], NL) \in Text
    <3>1. start + i \in DOMAIN lines
      BY <1>2, <1>6
    <3>2. lines[start + i] \in Seq(Symbol) /\ NL \in Symbol
      BY <1>3, <3>1, SymbolFacts DEF Text
    <3> QED
      BY <3>2, AppendProperties DEF Text
  <2>3. description = FlattenSeq(s)
    OBVIOUS
  <2> HIDE DEF k
  <2>4. s \in [1..k -> Text]
    BY <2>2
  <2> HIDE DEF s, description
  <2>5. s \in Seq(Text)
    BY <2>1, <2>4, IsASeq
  <2> QED
    BY <2>3, <2>5, FlattenText
<1> DEFINE u == valueOf(<<"user">>)  c == valueOf(<<"city">>)  m == valueOf(<<"event name">>)
<1>14. u \in Text /\ c \in Text /\ m \in Text
  BY <1>10
<1>15. EventOfLines[lines] = [user |-> u, city |-> c, name |-> m, date |-> date, info |-> info,
                             description |-> description]
  BY <1>1
<1> HIDE DEF u, c, m, date, info, description
<1> QED
  BY <1>11, <1>12, <1>13, <1>14, <1>15 DEF Events

(* What Event makes of lines ls, none of which starts the description, the   *)
(* one that does, and the rest.                                              *)
ReadsEvent(v, u, e, rest) ==
  /\ v.user = Kept(u) /\ v.city = Kept(e.city) /\ v.name = Kept(e.name)
  /\ v.date = e.date /\ v.description = FlattenSeq(Ended(rest))

LEMMA EventRead ==
  ASSUME NEW ls \in Seq(Text), NEW rest \in Seq(Text), NEW u, NEW e, e.date \in Dates,
         LinesTell(ls, u, e), NEW lines \in Seq(Text),
         Len(lines) = (Len(ls) + 1) + Len(rest),
         \A i \in 1..Len(ls) : lines[i] = ls[i],
         KeyOf[lines[Len(ls) + 1]] = DescriptionKey,
         \A i \in 1..Len(rest) : lines[(Len(ls) + 1) + i] = rest[i]
  PROVE  ReadsEvent(EventOfLines[lines], u, e, rest)
<1> DEFINE m == Len(ls)
           keys == [i \in DOMAIN lines |-> KeyOf[lines[i]]]
           firstOf(key) == Min({i \in DOMAIN lines : keys[i] = key} \cup {Len(lines) + 1})
           start == firstOf(DescriptionKey)
           general == firstOf(<<"general information">>)
           lineOf(key) == Max({i \in 1..start - 1 : keys[i] = key} \cup {0})
           valueOf(key) == IF lineOf(key) = 0 THEN <<>> ELSE ValueOf[lines[lineOf(key)]]
           inGeneral == {i \in general + 1..start \cap DOMAIN lines :
                           keys[i] \notin {<<>>, <<"general information">>}}
           last(key) == Max({i \in inGeneral : Tail(keys[i]) = key})
           date == IF lineOf(<<"date time">>) = 0 THEN 0 ELSE stoi(valueOf(<<"date time">>))
           info == [key \in {Tail(keys[i]) : i \in inGeneral} |-> ValueOf[lines[last(key)]]]
           description == FlattenSeq([i \in 1..Len(lines) - start |-> Append(lines[start + i], NL)])
<1>1. EventOfLines[lines] =
        [user |-> valueOf(<<"user">>), city |-> valueOf(<<"city">>),
         name |-> valueOf(<<"event name">>), date |-> date, info |-> info,
         description |-> description]
  BY DEF EventOfLines
<1>2. Len(lines) \in Nat /\ DOMAIN lines = 1..Len(lines) /\ m \in Nat /\ Len(rest) \in Nat
  BY LenProperties
<1>3. \A i \in DOMAIN lines : keys[i] = KeyOf[lines[i]]
  OBVIOUS
<1> HIDE DEF keys
<1>4. /\ Len(lines) = (m + 1) + Len(rest) /\ KeyOf[lines[m + 1]] = DescriptionKey
      /\ \A i \in 1..m : lines[i] = ls[i]
      /\ \A i \in 1..Len(rest) : lines[(m + 1) + i] = rest[i]
  OBVIOUS
<1>5. \A i \in 1..m + 1 : i \in DOMAIN lines
  BY <1>2, <1>4
<1>6. ASSUME NEW i \in 1..m, NEW key, keys[i] = key PROVE ValueOf[lines[i]] \in ValuesOf(ls, key)
  <2>1. i \in 1..m + 1
    BY <1>2
  <2>2. KeyOf[ls[i]] = key /\ lines[i] = ls[i]
    BY <1>3, <1>4, <1>5, <1>6, <2>1
  <2> QED
    BY <2>2 DEF ValuesOf
<1>7. start = m + 1
  <2> DEFINE S == {i \in DOMAIN lines : keys[i] = DescriptionKey} \cup {Len(lines) + 1}
  <2>1. S \in SUBSET Nat
    <3>1. Len(lines) + 1 \in Nat /\ \A i \in DOMAIN lines : i \in Nat
      BY <1>2
    <3> QED
      BY <3>1
  <2>2. m + 1 \in S
    <3>1. m + 1 \in 1..m + 1
      BY <1>2
    <3>2. m + 1 \in DOMAIN lines
      BY <1>5, <3>1
    <3>3. keys[m + 1] = DescriptionKey
      BY <1>3, <1>4, <3>2
    <3> QED
      BY <3>2, <3>3
  <2>3. ASSUME NEW i \in S PROVE ~(i <= m)
    <3> SUFFICES ASSUME i <= m PROVE FALSE
      OBVIOUS
    <3>1. i # Len(lines) + 1
      BY <1>2, <1>4
    <3>2. i \in DOMAIN lines /\ keys[i] = DescriptionKey
      BY <3>1
    <3>3. i \in 1..m
      BY <1>2, <3>2
    <3> QED
      BY <1>6, <3>2, <3>3 DEF LinesTell
  <2>4. start = Min(S)
    OBVIOUS
  <2> HIDE DEF S, start
  <2>5. Min(S) \in S /\ Min(S) <= m + 1
    BY <2>1, <2>2, MinOf
  <2>6. Min(S) \in Nat /\ ~(Min(S) <= m)
    BY <2>1, <2>3, <2>5
  <2> QED
    BY <1>2, <2>4, <2>5, <2>6
<1> HIDE DEF start, general
<1>8. ASSUME NEW key, NEW v, ValuesOf(ls, key) = {v}
      PROVE  lineOf(key) # 0 /\ valueOf(key) = v
  <2> DEFINE S == {i \in 1..start - 1 : keys[i] = key} \cup {0}
  <2>1. start - 1 = m
    BY <1>2, <1>7
  <2>2. S \in SUBSET (0..m) /\ 0 \in S
    BY <1>2, <2>1
  <2>3. PICK j \in 1..m : KeyOf[ls[j]] = key
    BY <1>8 DEF ValuesOf
  <2>4. j \in S
    <3>1. j \in 1..m + 1
      BY <1>2
    <3>2. keys[j] = key
      BY <1>3, <1>4, <1>5, <2>3, <3>1
    <3> QED
      BY <2>1, <3>2
  <2>5. lineOf(key) = Max(S)
    OBVIOUS
  <2>6. \A i \in S : i = 0 \/ (i \in 1..m /\ keys[i] = key)
    BY <2>1
  <2> HIDE DEF S, lineOf
  <2>7. Max(S) \in S /\ j <= Max(S)
    BY <1>2, <2>2, <2>4, MaxOf
  <2>8. lineOf(key) # 0
    BY <2>5, <2>7
  <2>9. lineOf(key) \in 1..m /\ keys[lineOf(key)] = key
    BY <2>5, <2>6, <2>7, <2>8
  <2> DEFINE n == lineOf(key)
  <2> HIDE DEF n
  <2>10. n \in 1..m /\ keys[n] = key
    BY <2>9 DEF n
  <2>11. ValueOf[lines[n]] \in ValuesOf(ls, key)
    BY <1>6, <2>10
  <2> QED
    BY <1>8, <2>8, <2>11 DEF n
<1> HIDE DEF lineOf
<1>9. /\ valueOf(<<"user">>) = Kept(u) /\ valueOf(<<"city">>) = Kept(e.city)
      /\ valueOf(<<"event name">>) = Kept(e.name)
      /\ lineOf(<<"date time">>) # 0 /\ valueOf(<<"date time">>) = to_string(e.date)
  BY <1>8 DEF LinesTell
<1>10. date = e.date
  <2>1. date = stoi(to_string(e.date))
    BY <1>9
  <2>2. \A n \in Dates : to_string(n) = to_string(e.date) => n = e.date
    <3>1. \A n \in Dates : ToString(n) = ToString(e.date) => n = e.date
      BY EventAssumption
    <3>2. ASSUME NEW n \in Dates, <<ToString(n)>> = <<ToString(e.date)>>
          PROVE  ToString(n) = ToString(e.date)
      BY <3>2
    <3> QED
      BY <3>1, <3>2 DEF to_string
  <2>3. stoi(to_string(e.date)) = e.date
    BY <2>2 DEF stoi
  <2> QED
    BY <2>1, <2>3
<1>11. description = FlattenSeq(Ended(rest))
  <2>1. Len(lines) - start = Len(rest)
    BY <1>2, <1>4, <1>7
  <2>2. \A i \in 1..Len(rest) : lines[start + i] = rest[i]
    BY <1>4, <1>7
  <2>3. [i \in 1..Len(lines) - start |-> Append(lines[start + i], NL)] = Ended(rest)
    BY <2>1, <2>2 DEF Ended
  <2> QED
    BY <2>3
<1> DEFINE a == valueOf(<<"user">>)  b == valueOf(<<"city">>)  c == valueOf(<<"event name">>)
           v == [user |-> a, city |-> b, name |-> c, date |-> date, info |-> info,
                 description |-> description]
<1>12. EventOfLines[lines] = v
  BY <1>1
<1>13. a = Kept(u) /\ b = Kept(e.city) /\ c = Kept(e.name)
  BY <1>9
<1> HIDE DEF a, b, c, date, info, description
<1>14. /\ v.user = a /\ v.city = b /\ v.name = c /\ v.date = date
       /\ v.description = description
  OBVIOUS
<1> QED
  BY <1>10, <1>11, <1>12, <1>13, <1>14 DEF ReadsEvent

(***************************************************************************)
(* The body of a report has no terminator, and what a client makes of it,  *)
(* ended by toString, is an event: the report, but for the colons of its   *)
(* city and name and two newlines at the end of the description.           *)
(***************************************************************************)
THEOREM ReportMakesEvent ==
  ASSUME NEW us \in Users, NEW c \in Clients, NEW k \in 1..Len(us[c].file)
  PROVE  LET b == reportBody(<<c>>, us[c].file[k])
             v == EventOf[b \o <<NL>>]
         IN  IsClean(b) /\ b # <<>> /\ v \in Events /\ IsRead(v, c, us[c].file[k])
<1> DEFINE e == us[c].file[k]  b == reportBody(<<c>>, e)
<1>1. /\ e.date \in Dates /\ IsFiniteSet(DOMAIN e.info)
      /\ \A t \in {e.city, e.name, e.description} \cup DOMAIN e.info \cup Range(e.info) :
           IsClean(t)
  BY FilesAssumption DEF IsClean
<1>2. \A t \in {e.city, e.name} \cup DOMAIN e.info \cup Range(e.info) : ~Has(t, NL)
  BY LinesAssumption
<1>3. IsPlain(e.city) /\ IsPlain(e.name) /\ e.description \in Text
  BY <1>1, <1>2 DEF IsClean, IsPlain
<1>4. PlainMap(e.info)
  BY <1>1, <1>2 DEF IsClean, IsPlain, PlainMap, Range
<1>5. IsPlain(<<c>>) /\ Kept(<<c>>) = <<c>>
  <2>1. c \in Words
    BY FrameWordsAssumption
  <2>2. IsPlain(<<c>>) /\ <<c>> \in Text /\ <<c>> # <<>> /\ ~Has(<<c>>, Colon)
    BY <2>1, WordText DEF IsLine, IsPlain
  <2> QED
    BY <2>2, KeptWhole
<1>6. IsClean(b)
  <2>1. IsClientFrame(ReportFrame(c, e))
    BY ReportIsClientFrame
  <2>2. ReportFrame(c, e).body = b
    BY DEF ReportFrame, Frame
  <2> HIDE DEF b, e
  <2> QED
    BY <2>1, <2>2 DEF IsClientFrame, IsSendable, IsWritable, IsClean
<1> HIDE DEF e
<1>7. PICK H, ls, l : /\ b = H \o (e.description \o <<NL>>)
                      /\ EventLines(H, ls \o <<l>>) /\ ls \in Seq(Text) /\ l \in Text
                      /\ KeyOf[l] = DescriptionKey /\ LinesTell(ls, <<c>>, e)
  BY <1>1, <1>3, <1>4, <1>5, BodyLines
<1> HIDE DEF b
<1> DEFINE d == e.description  t == d \o <<NL>>  p == <<l>>  q == ls \o p
           rest == Split(NL)[t]  lines == q \o rest
<1>8. /\ d \in Text /\ t \in Text /\ t # <<>> /\ H \in Text /\ WholeLines(H, q)
      /\ q \in Seq(Text) /\ <<NL>> \in Text
  <2>1. <<NL>> \in Text /\ Has(<<NL>>, NL)
    BY SymbolFacts, OneText, HasOne
  <2>2. t \in Text /\ Has(t, NL)
    BY <1>3, <2>1, CatText, HasCat
  <2> QED
    BY <1>3, <1>7, <2>1, <2>2, EmptyText DEF EventLines, WholeLines
<1>9. b = H \o t
  BY <1>7
<1> HIDE DEF t, d
<1>10. b # <<>>
  <2>1. Len(b) = Len(H) + Len(t) /\ Len(H) \in Nat /\ Len(t) \in Nat /\ Len(t) # 0
    BY <1>8, <1>9, CatText, TextFacts, EmptyText
  <2> QED
    BY <2>1, EmptyText
<1>11. b \o <<NL>> = H \o (t \o <<NL>>)
  BY <1>8, <1>9, CatAssociative
<1> HIDE DEF q
<1>12. b \o <<NL>> \in Text /\ getLines[b \o <<NL>>] = lines
  <2>1. H \o (t \o <<NL>>) \in Text /\ getLines[H \o (t \o <<NL>>)] = q \o Split(NL)[t]
    BY <1>8, GetLines
  <2> HIDE DEF b
  <2> QED
    BY <1>11, <2>1
<1>13. rest \in Seq(Text)
  BY <1>8, SplitRecursion
<1> HIDE DEF rest
<1>14. /\ p \in Seq(Text) /\ Len(p) = 1 /\ p[1] = l /\ Len(ls) \in Nat /\ Len(rest) \in Nat
  BY <1>7, <1>13, OneElement, LenProperties
<1> HIDE DEF p
<1>15. /\ Len(q) = Len(ls) + 1
       /\ \A j \in 1..Len(ls) + 1 : q[j] = IF j <= Len(ls) THEN ls[j] ELSE p[j - Len(ls)]
  <2>1. /\ Len(ls \o p) = Len(ls) + Len(p)
        /\ \A j \in 1..Len(ls) + Len(p) :
             (ls \o p)[j] = IF j <= Len(ls) THEN ls[j] ELSE p[j - Len(ls)]
    BY <1>7, <1>14, ConcatProperties
  <2> QED
    BY <1>14, <2>1 DEF q
<1>16. /\ lines \in Seq(Text) /\ Len(lines) = Len(q) + Len(rest)
       /\ \A j \in 1..Len(q) + Len(rest) :
            lines[j] = IF j <= Len(q) THEN q[j] ELSE rest[j - Len(q)]
  BY <1>8, <1>13, ConcatProperties
<1> HIDE DEF lines
<1>17. \A j \in 1..Len(ls) + 1 : lines[j] = q[j] /\ IsEventLine(lines[j])
  <2> SUFFICES ASSUME NEW j \in 1..Len(ls) + 1
               PROVE  lines[j] = q[j] /\ IsEventLine(lines[j])
    OBVIOUS
  <2>1. j \in 1..Len(q) + Len(rest) /\ j <= Len(q)
    BY <1>14, <1>15
  <2>2. j \in 1..Len(q)
    BY <1>15
  <2>3. IsEventLine(q[j])
    BY <1>7, <2>2 DEF EventLines, q, p
  <2> QED
    BY <1>16, <2>1, <2>3
<1>18. \A j \in 1..Len(ls) : lines[j] = ls[j]
  <2> SUFFICES ASSUME NEW j \in 1..Len(ls) PROVE lines[j] = ls[j]
    OBVIOUS
  <2>1. j \in 1..Len(ls) + 1 /\ j <= Len(ls)
    BY <1>14
  <2> QED
    BY <1>15, <1>17, <2>1
<1>19. lines[Len(ls) + 1] = l
  <2>1. Len(ls) + 1 \in 1..Len(ls) + 1 /\ ~(Len(ls) + 1 <= Len(ls)) /\ (Len(ls) + 1) - Len(ls) = 1
    BY <1>14
  <2> QED
    BY <1>14, <1>15, <1>17, <2>1
<1>20. \A j \in 1..Len(rest) : lines[(Len(ls) + 1) + j] = rest[j]
  <2> SUFFICES ASSUME NEW j \in 1..Len(rest) PROVE lines[(Len(ls) + 1) + j] = rest[j]
    OBVIOUS
  <2> DEFINE i == (Len(ls) + 1) + j
  <2>1. i \in 1..Len(q) + Len(rest) /\ ~(i <= Len(q)) /\ i - Len(q) = j
    BY <1>14, <1>15
  <2> HIDE DEF i
  <2>2. lines[i] = rest[i - Len(q)]
    BY <1>16, <2>1
  <2> QED
    BY <2>1, <2>2 DEF i
<1>21. KeyOf[lines[Len(ls) + 1]] = DescriptionKey
  BY <1>7, <1>19
<1>22. Len(lines) = (Len(ls) + 1) + Len(rest)
  BY <1>15, <1>16
<1>23. EventOfLines[lines] \in Events
  <2> DEFINE n == Len(ls) + 1
  <2>1. n \in 1..Len(lines)
    BY <1>14, <1>22
  <2>2. KeyOf[lines[n]] = DescriptionKey /\ \A j \in 1..n : IsEventLine(lines[j])
    BY <1>17, <1>21
  <2> HIDE DEF n
  <2> QED
    BY <1>16, <2>1, <2>2, EventType
<1>24. ReadsEvent(EventOfLines[lines], <<c>>, e, rest)
  BY <1>1, <1>7, <1>13, <1>16, <1>18, <1>20, <1>21, <1>22, EventRead
<1>25. FlattenSeq(Ended(rest)) = t \o <<NL>>
  BY <1>8, JoinLines DEF rest
<1>26. t \o <<NL>> = d \o <<NL, NL>>
  <2>1. (d \o <<NL>>) \o <<NL>> = d \o (<<NL>> \o <<NL>>)
    BY <1>8, CatAssociative
  <2>2. <<NL>> \o <<NL>> = <<NL, NL>>
    BY SymbolFacts, TwoSymbols
  <2> QED
    BY <2>1, <2>2 DEF t
<1>27. EventOf[b \o <<NL>>] = EventOfLines[lines]
  BY <1>12 DEF EventOf
<1>28. IsRead(EventOf[b \o <<NL>>], c, e)
  <2> DEFINE v == EventOfLines[lines]
  <2>1. ReadsEvent(v, <<c>>, e, rest)
    BY <1>24
  <2> HIDE DEF v
  <2>2. v.description = d \o <<NL, NL>>
    BY <1>25, <1>26, <2>1 DEF ReadsEvent
  <2>3. IsRead(v, c, e)
    BY <1>5, <2>1, <2>2 DEF ReadsEvent, IsRead, d
  <2> QED
    BY <1>27, <2>3 DEF v
<1> QED
  BY <1>6, <1>10, <1>23, <1>27, <1>28 DEF b, e

(* What a client keeps of the channel are events: no other frame but the     *)
(* MESSAGE of a report adds to it, and stoi always finds its number.         *)
EventsKept == eventSummary \in [Clients -> Seq(Events)]

LEMMA ReceiveEvents ==
  ASSUME IInv, EventsKept, NEW c \in Clients, ReceiveFrame(c)
  PROVE  EventsKept'
<1> DEFINE h == Head(written[c])
<1>1. /\ IsServerFrame(h) /\ handled'[c] = [h EXCEPT !.body = BodyRead(h)]
      /\ handled \in [Clients -> Frames]
  BY ReceiveFacts DEF IInv, ClientTypes
<1>2. PICK f \in {parseFrame[getFrameAscii(toClient[c])]} :
        /\ handled' = [handled EXCEPT ![c] = f]
        /\ eventSummary' = [eventSummary EXCEPT ![c] =
             IF Is(f, "MESSAGE") THEN Append(@, EventOf[f.body]) ELSE @]
  BY DEF ReceiveFrame
<1>3. f = [h EXCEPT !.body = BodyRead(h)]
  BY <1>1, <1>2
<1>4. h \in Frames
  BY <1>1, WritableFrame DEF IsServerFrame
<1> HIDE DEF h
<1>5. f.command = h.command /\ f.body = BodyRead(h)
  BY <1>3, <1>4 DEF Frames
<1>6. CASE Is(f, "MESSAGE")
  <2>1. IsReportBody(h.body)
    BY <1>1, <1>5, <1>6 DEF IsServerFrame, Is
  <2>2. IsClean(h.body) /\ h.body # <<>> /\ EventOf[h.body \o <<NL>>] \in Events
    <3>1. PICK us \in Users, u \in Clients : \E k \in 1..Len(us[u].file) :
            h.body = reportBody(<<u>>, us[u].file[k])
      BY <2>1 DEF IsReportBody
    <3>2. PICK k \in 1..Len(us[u].file) : h.body = reportBody(<<u>>, us[u].file[k])
      BY <3>1
    <3> QED
      BY <3>2, ReportMakesEvent
  <2>3. BodyLine(h) = h.body \o <<NL>> /\ ~Has(BodyLine(h), NUL)
    BY <2>2, BodyLineText DEF BodyLine, IsClean
  <2>4. EventOf[f.body] \in Events
    BY <1>5, <2>2, <2>3 DEF BodyRead
  <2>5. Append(eventSummary[c], EventOf[f.body]) \in Seq(Events)
    BY <2>4, AppendProperties DEF EventsKept
  <2>6. eventSummary' = [eventSummary EXCEPT ![c] = Append(eventSummary[c], EventOf[f.body])]
    BY <1>2, <1>6 DEF EventsKept
  <2> QED
    BY <2>5, <2>6 DEF EventsKept
<1>7. CASE ~Is(f, "MESSAGE")
  BY <1>2, <1>7 DEF EventsKept
<1> QED
  BY <1>6, <1>7

LEMMA NextEvents ==
  ASSUME IInv, EventsKept, [Next]_vars
  PROVE  EventsKept'
<1>1. CASE \E c \in Clients : ReceiveFrame(c)
  BY <1>1, ReceiveEvents
<1>2. CASE ~\E c \in Clients : ReceiveFrame(c)
  <2>1. UNCHANGED vars => UNCHANGED eventSummary
    BY DEF vars, clientVars
  <2>2. ASSUME NEW c \in Clients, Command(c) PROVE UNCHANGED eventSummary
    BY <2>2 DEF Command, Login, Join, Report, Logout, Leave, LinkLost, Send
  <2>3. ASSUME NEW c \in Clients, Communicator(c) PROVE UNCHANGED eventSummary
    BY <1>2, <2>3 DEF Communicator, LoseConnection, LinkLost
  <2>4. ASSUME NEW c \in Clients, Handler(c) PROVE UNCHANGED clientVars
    BY <2>4 DEF Handler, Proceed, ReadFrame, Accept, EndRun, NextEntry, Write, Flush,
       FlushFails, MarkForTermination, Disconnect, ClientsSame
  <2>5. UNCHANGED eventSummary
    BY <2>1, <2>2, <2>3, <2>4 DEF Next, clientVars
  <2> QED
    BY <2>5 DEF EventsKept
<1> QED
  BY <1>1, <1>2

LEMMA FrameType ==
  ASSUME NEW f \in Frames
  PROVE  IsFrame(f)
<1>1. f.headers \in Maps
  BY DEF Frames
<1>2. PICK K \in SUBSET Text : f.headers \in [K -> Text]
  BY <1>1 DEF Maps
<1>3. \A k \in DOMAIN f.headers : k \in Text /\ f.headers[k] \in Text
  BY <1>2
<1>4. /\ f.command \in Text /\ f.body \in Text
      /\ DOMAIN f = {"command", "headers", "body"}
  BY DEF Frames
<1> QED
  BY <1>3, <1>4 DEF IsFrame

LEMMA EventFields ==
  ASSUME NEW e \in Events
  PROVE  IsEvent(e)
<1>1. e.info \in Maps
  BY DEF Events
<1>2. PICK K \in SUBSET Text : e.info \in [K -> Text]
  BY <1>1 DEF Maps
<1>3. \A k \in DOMAIN e.info : k \in Text /\ e.info[k] \in Text
  BY <1>2
<1>4. /\ e.user \in Text /\ e.city \in Text /\ e.name \in Text /\ e.description \in Text
      /\ e.date \in Dates \cup {0}
      /\ DOMAIN e = {"user", "city", "name", "date", "info", "description"}
  BY DEF Events
<1> QED
  BY <1>3, <1>4 DEF IsEvent

LEMMA IInvTypes ==
  ASSUME IInv, EventsKept
  PROVE  TypeOK
<1>1. ClientTypes /\ ServerTypes /\ AllThreads(thread) /\ Streams
  BY DEF IInv
<1>2. AllFrames(sent) /\ AllFrames(written)
  <2>1. ASSUME NEW fs, NEW S \in SUBSET Frames, fs \in [Clients -> Seq(S)]
        PROVE  AllFrames(fs)
    <3> SUFFICES ASSUME NEW c \in Clients, NEW i \in DOMAIN fs[c] PROVE IsFrame(fs[c][i])
      BY DEF AllFrames
    <3>1. fs[c] \in Seq(S)
      BY <2>1
    <3>2. i \in 1..Len(fs[c])
      BY <3>1, LenProperties
    <3>3. fs[c][i] \in S
      BY <3>1, <3>2, ElementOfSeq
    <3> QED
      BY <3>3, FrameType
  <2>2. ClientFrames \in SUBSET Frames /\ ServerFrames \in SUBSET Frames
    BY DEF ClientFrames, ServerFrames
  <2> QED
    BY <1>1, <2>1, <2>2 DEF Streams
<1>3. ASSUME NEW c \in Clients
      PROVE  /\ thread[c].pc \in PCs /\ IsFrame(thread[c].frame) /\ IsFrame(handled[c])
             /\ thread[c].msg \in Msgs /\ thread[c].to \in Clients \cup {"nobody"}
             /\ thread[c].visited \subseteq Clients
  <2>1. thread[c] \in Threads /\ handled[c] \in Frames
    BY <1>1 DEF AllThreads, ClientTypes
  <2>2. /\ thread[c].pc \in PCs /\ thread[c].frame \in Frames /\ thread[c].msg \in Msgs
        /\ thread[c].to \in Clients \cup {"nobody"} /\ thread[c].visited \in SUBSET Clients
    BY <2>1 DEF Threads
  <2> QED
    BY <2>1, <2>2, FrameType
<1>4. ASSUME NEW c \in Clients
      PROVE  /\ decoder[c].bytes \in Text /\ decoder[c].len \in 0..Len(decoder[c].bytes)
             /\ out[c] \in Text /\ toServer[c] \in Text /\ toClient[c] \in Text
             /\ reported[c] \in 0..Len(user[c].file)
  <2>1. decoder[c] \in Decoders /\ IsReady(decoder[c])
    BY <1>1 DEF ServerTypes
  <2>2. decoder[c].bytes \in Text /\ decoder[c].len = 0 /\ Len(decoder[c].bytes) \in Nat
    BY <2>1, TextFacts DEF IsReady, Decoders
  <2>3. Len(user[c].file) \in Nat /\ reported[c] \in Nat /\ reported[c] <= Len(user[c].file)
    BY <1>1, FileLength DEF ClientTypes
  <2>4. out[c] \in Text /\ toServer[c] \in Text /\ toClient[c] \in Text
    BY <1>1 DEF Streams
  <2> QED
    BY <2>2, <2>3, <2>4
<1>5. ASSUME NEW c \in Clients, NEW i \in DOMAIN eventSummary[c]
      PROVE  IsEvent(eventSummary[c][i])
  <2>1. eventSummary[c] \in Seq(Events)
    BY DEF EventsKept
  <2>2. i \in 1..Len(eventSummary[c])
    BY <2>1, LenProperties
  <2>3. eventSummary[c][i] \in Events
    BY <2>1, <2>2, ElementOfSeq
  <2> QED
    BY <2>3, EventFields
<1>6. /\ link \in [Clients -> {"none", "up", "left"}]
      /\ main \in [Clients -> {"start", "prompt", "logout"}]
      /\ isConnected \in [Clients -> BOOLEAN] /\ hasSubscription \in [Clients -> BOOLEAN]
      /\ connected \in [Clients -> BOOLEAN] /\ closed \in [Clients -> BOOLEAN]
      /\ protocol \in [Clients -> [connected : BOOLEAN, subscribed : BOOLEAN,
                                   shouldTerminate : BOOLEAN]]
      /\ activeConnections \subseteq Clients /\ subscribers \subseteq Clients
  BY <1>1 DEF ClientTypes, ServerTypes
<1> QED
  BY <1>2, <1>3, <1>4, <1>5, <1>6 DEF TypeOK, PCs, Msgs

(***************************************************************************)
(* Every variable holds values of its type. Only frames are decoded and    *)
(* handled, and only events are made of the bodies of the channel: a client *)
(* never meets a line without a key or a date that is no number.           *)
(***************************************************************************)
THEOREM SpecTypeOK == Spec => []TypeOK
<1>1. Init => EventsKept
  <2>1. <<>> \in Seq(Events)
    OBVIOUS
  <2> QED
    BY <2>1 DEF Init, EventsKept
<1>2. IInv /\ EventsKept /\ [Next]_vars => EventsKept'
  BY NextEvents
<1>3. IInv /\ EventsKept => TypeOK
  BY IInvTypes
<1> QED
  BY <1>1, <1>2, <1>3, AlwaysIInv, PTL DEF Spec

-----------------------------------------------------------------------------
(* Nothing is made up: what is on its way to the server, in process there,   *)
(* on its way to a client or kept by it comes from a report that was made.   *)

(* with files us, of which user u has reported the first rep[u] events *)
IsReported(b, us, rep) ==
  \E u \in Clients : \E k \in 1..rep[u] : b = reportBody(<<u>>, us[u].file[k])
IsRemembered(v, us, rep) ==
  \E u \in Clients : \E k \in 1..rep[u] : IsRead(v, u, us[u].file[k])
AllReported(fs, command, us, rep) ==
  \A i \in 1..Len(fs) : Is(fs[i], command) => IsReported(fs[i].body, us, rep)

SentReported == \A c \in Clients : AllReported(sent[c], "SEND", user, reported)
ServedReported ==
  \A c \in Clients : Is(thread[c].frame, "SEND") => IsReported(thread[c].frame.body, user, reported)
WrittenReported == \A c \in Clients : AllReported(written[c], "MESSAGE", user, reported)
KeptReported ==
  \A c \in Clients : \A i \in 1..Len(eventSummary[c]) :
    IsRemembered(eventSummary[c][i], user, reported)

OfReports ==
  EventsKept /\ SentReported /\ ServedReported /\ WrittenReported /\ KeptReported

(* Reports are added, never taken back. *)
NeverFewer ==
  /\ user' = user /\ reported \in [Clients -> Nat] /\ reported' \in [Clients -> Nat]
  /\ \A u \in Clients : reported[u] <= reported'[u]

LEMMA MoreReports ==
  ASSUME IInv, [Next]_vars
  PROVE  NeverFewer
<1>1. reported \in [Clients -> Nat] /\ reported' \in [Clients -> Nat]
  BY NextIInv DEF IInv, ClientTypes
<1>2. UNCHANGED vars => UNCHANGED <<user, reported>>
  BY DEF vars, clientVars
<1>3. ASSUME NEW c \in Clients, Command(c), ~Report(c) PROVE UNCHANGED <<user, reported>>
  BY <1>3 DEF Command, Login, Join, Logout, Leave, LinkLost, Send
<1>4. ASSUME NEW c \in Clients, Report(c)
      PROVE  user' = user /\ \A u \in Clients : reported[u] <= reported'[u]
  <2>1. user' = user /\ reported' = [reported EXCEPT ![c] = @ + 1]
    BY <1>4 DEF Report, Send
  <2>2. \A n \in Nat : n <= n /\ n <= n + 1
    OBVIOUS
  <2> QED
    BY <1>1, <2>1, <2>2
<1>5. ASSUME NEW c \in Clients, Communicator(c) PROVE UNCHANGED <<user, reported>>
  BY <1>5 DEF Communicator, ReceiveFrame, LoseConnection, LinkLost
<1>6. ASSUME NEW c \in Clients, Handler(c) PROVE UNCHANGED <<user, reported>>
  BY <1>6 DEF Handler, Proceed, ReadFrame, Accept, EndRun, NextEntry, Write, Flush,
     FlushFails, MarkForTermination, Disconnect, ClientsSame, clientVars
<1>7. \A n \in Nat : n <= n
  OBVIOUS
<1>8. UNCHANGED <<user, reported>> \/ \E c \in Clients : Report(c)
  BY <1>2, <1>3, <1>5, <1>6 DEF Next
<1> QED
  BY <1>1, <1>4, <1>7, <1>8 DEF NeverFewer

LEMMA StillReported ==
  ASSUME NEW us, NEW rep \in [Clients -> Nat], NEW new \in [Clients -> Nat],
         \A u \in Clients : rep[u] <= new[u]
  PROVE  /\ \A b : IsReported(b, us, rep) => IsReported(b, us, new)
         /\ \A v : IsRemembered(v, us, rep) => IsRemembered(v, us, new)
         /\ \A fs, command : AllReported(fs, command, us, rep) => AllReported(fs, command, us, new)
<1>1. ASSUME NEW u \in Clients, NEW k \in 1..rep[u] PROVE k \in 1..new[u]
  <2>1. rep[u] \in Nat /\ new[u] \in Nat /\ rep[u] <= new[u]
    OBVIOUS
  <2> QED
    BY <2>1
<1>2. \A b : IsReported(b, us, rep) => IsReported(b, us, new)
  BY <1>1 DEF IsReported
<1>3. \A v : IsRemembered(v, us, rep) => IsRemembered(v, us, new)
  BY <1>1 DEF IsRemembered
<1>4. \A fs, command : AllReported(fs, command, us, rep) => AllReported(fs, command, us, new)
  BY <1>2 DEF AllReported
<1> QED
  BY <1>2, <1>3, <1>4

LEMMA AppendReported ==
  ASSUME NEW S, NEW fs \in Seq(S), NEW f \in S, NEW command, NEW us, NEW rep,
         AllReported(fs, command, us, rep), Is(f, command) => IsReported(f.body, us, rep)
  PROVE  AllReported(Append(fs, f), command, us, rep)
<1> DEFINE all == Append(fs, f)
<1>1. /\ Len(fs) \in Nat /\ Len(all) = Len(fs) + 1
      /\ \A i \in 1..Len(fs) : all[i] = fs[i]
      /\ all[Len(fs) + 1] = f
  BY AppendProperties, LenProperties
<1> HIDE DEF all
<1> SUFFICES ASSUME NEW i \in 1..Len(all), Is(all[i], command)
             PROVE  IsReported(all[i].body, us, rep)
  BY DEF AllReported, all
<1>2. i \in 1..Len(fs) \/ i = Len(fs) + 1
  BY <1>1
<1> QED
  BY <1>1, <1>2 DEF AllReported

LEMMA RestReported ==
  ASSUME NEW S, NEW fs \in Seq(S), NEW command, NEW us, NEW rep,
         AllReported(fs, command, us, rep)
  PROVE  AllReported(Rest(fs), command, us, rep)
<1>1. CASE fs = <<>>
  BY <1>1 DEF Rest
<1>2. CASE fs # <<>>
  <2> DEFINE t == Tail(fs)
  <2>1. /\ Len(fs) \in Nat /\ Len(fs) # 0 /\ Len(t) = Len(fs) - 1
        /\ \A i \in 1..Len(t) : t[i] = fs[i + 1]
    BY <1>2, HeadTailProperties, LenProperties, EmptySeq
  <2> HIDE DEF t
  <2> SUFFICES ASSUME NEW i \in 1..Len(t), Is(t[i], command)
               PROVE  IsReported(t[i].body, us, rep)
    BY <1>2 DEF AllReported, Rest, t
  <2>2. i + 1 \in 1..Len(fs)
    BY <2>1
  <2> QED
    BY <2>1, <2>2 DEF AllReported
<1> QED
  BY <1>1, <1>2

(* what a step does to the frames that were sent *)
LEMMA NextSent ==
  ASSUME IInv, SentReported, [Next]_vars
  PROVE  SentReported'
<1>1. NeverFewer
  BY MoreReports
<1>2. \A c \in Clients : AllReported(sent[c], "SEND", user, reported')
  BY <1>1, StillReported DEF NeverFewer, SentReported
<1>3. /\ sent \in [Clients -> Seq(ClientFrames)] /\ user \in Users
      /\ \A c \in Clients : reported[c] <= Len(user[c].file)
  BY DEF IInv, Streams, ClientTypes
<1>4. SUFFICES \A c \in Clients : AllReported(sent'[c], "SEND", user, reported')
  BY <1>1 DEF NeverFewer, SentReported
<1>5. ASSUME UNCHANGED sent
      PROVE  \A c \in Clients : AllReported(sent'[c], "SEND", user, reported')
  BY <1>2, <1>5
<1>6. ASSUME NEW c \in Clients, NEW f \in ClientFrames, Send(c, f),
             Is(f, "SEND") => IsReported(f.body, user, reported')
      PROVE  \A d \in Clients : AllReported(sent'[d], "SEND", user, reported')
  <2>1. AllReported(Append(sent[c], f), "SEND", user, reported')
    BY <1>2, <1>3, <1>6, AppendReported
  <2>2. sent' = [sent EXCEPT ![c] = Append(sent[c], f)]
    BY <1>6 DEF Send
  <2> QED
    BY <1>2, <1>3, <2>1, <2>2
<1>7. ASSUME NEW c \in Clients, ReadFrame(c)
      PROVE  \A d \in Clients : AllReported(sent'[d], "SEND", user, reported')
  <2>1. AllReported(Rest(sent[c]), "SEND", user, reported')
    BY <1>2, <1>3, RestReported
  <2>2. sent' = [sent EXCEPT ![c] = Rest(sent[c])]
    BY <1>7 DEF ReadFrame
  <2> QED
    BY <1>2, <1>3, <2>1, <2>2
<1>8. ASSUME NEW c \in Clients, Report(c)
      PROVE  \A d \in Clients : AllReported(sent'[d], "SEND", user, reported')
  <2> DEFINE k == reported[c] + 1  f == ReportFrame(c, user[c].file[k])
  <2>1. Send(c, f) /\ reported[c] < Len(user[c].file) /\ reported' = [reported EXCEPT ![c] = k]
    BY <1>8 DEF Report
  <2>2. reported[c] \in Nat /\ reported'[c] = k
    BY <1>1, <2>1 DEF NeverFewer
  <2>3. k \in 1..reported'[c] /\ k \in 1..Len(user[c].file)
    <3>1. Len(user[c].file) \in Nat
      BY <1>3, FileLength
    <3> QED
      BY <2>1, <2>2, <3>1
  <2>4. f.body = reportBody(<<c>>, user[c].file[k])
    BY DEF ReportFrame, Frame
  <2>5. IsClientFrame(f)
    BY <1>3, <2>3, ReportIsClientFrame
  <2> HIDE DEF k, f
  <2>6. f \in ClientFrames
    BY <2>5, WritableFrame DEF ClientFrames, IsClientFrame, IsSendable
  <2>7. IsReported(f.body, user, reported')
    BY <2>3, <2>4 DEF IsReported
  <2> QED
    BY <1>6, <2>1, <2>6, <2>7
<1>9. ASSUME NEW c \in Clients, NEW f \in {ConnectFrame(c), SubscribeFrame, DisconnectFrame},
             Send(c, f)
      PROVE  \A d \in Clients : AllReported(sent'[d], "SEND", user, reported')
  <2>1. ~Is(f, "SEND")
    BY DEF Is, Frame, ConnectFrame, SubscribeFrame, DisconnectFrame
  <2>2. IsClientFrame(f)
    BY ClientFrameFacts
  <2>3. f \in ClientFrames
    BY <2>2, WritableFrame DEF ClientFrames, IsClientFrame, IsSendable
  <2> QED
    BY <1>6, <1>9, <2>1, <2>3
<1>10. CASE UNCHANGED vars
  BY <1>5, <1>10 DEF vars
<1>11. ASSUME NEW c \in Clients, Command(c)
       PROVE  \A d \in Clients : AllReported(sent'[d], "SEND", user, reported')
  <2>1. CASE Login(c)
    BY <1>9, <2>1 DEF Login
  <2>2. CASE Join(c)
    BY <1>9, <2>2 DEF Join
  <2>3. CASE Logout(c)
    BY <1>9, <2>3 DEF Logout
  <2>4. CASE Leave(c)
    BY <1>5, <2>4 DEF Leave, LinkLost
  <2> QED
    BY <1>8, <1>11, <2>1, <2>2, <2>3, <2>4 DEF Command
<1>12. ASSUME NEW c \in Clients, Communicator(c)
       PROVE  \A d \in Clients : AllReported(sent'[d], "SEND", user, reported')
  BY <1>5, <1>12 DEF Communicator, ReceiveFrame, LoseConnection, LinkLost
<1>13. ASSUME NEW c \in Clients, Proceed(c)
       PROVE  \A d \in Clients : AllReported(sent'[d], "SEND", user, reported')
  BY <1>5, <1>13 DEF Proceed, Accept, EndRun, NextEntry, Write, Flush, FlushFails,
     MarkForTermination, Disconnect, ClientsSame
<1> QED
  BY <1>7, <1>10, <1>11, <1>12, <1>13 DEF Next, Handler

(* A thread goes on with its frame, or takes the first that was sent. *)
LEMMA NextFrame ==
  ASSUME IInv, [Next]_vars, NEW c \in Clients
  PROVE  \/ thread'[c].frame = thread[c].frame
         \/ ReadFrame(c) /\ sent[c] # <<>> /\ thread'[c].frame = Head(sent[c])
<1>1. thread \in [Clients -> Threads]
  BY DEF IInv, AllThreads
<1>2. ASSUME NEW d \in Clients, NEW pc, Goto(d, pc) PROVE thread'[c].frame = thread[c].frame
  <2> DEFINE t == [thread[d] EXCEPT !.pc = pc]
  <2>1. thread' = [thread EXCEPT ![d] = t]
    BY <1>2 DEF Goto
  <2>2. thread[d] \in Threads
    BY <1>1
  <2>3. t.frame = thread[d].frame
    BY <2>2 DEF Threads
  <2> HIDE DEF t
  <2> QED
    BY <1>1, <2>1, <2>3
<1>3. ASSUME NEW d \in Clients, NEW to, NEW msg, NEW visited,
             SendTo(d, thread[d].frame, to, msg, visited)
      PROVE  thread'[c].frame = thread[c].frame
  BY <1>1, <1>3 DEF SendTo
<1>4. ASSUME NEW d \in Clients, ReadFrame(d), d # c PROVE thread'[c] = thread[c]
  BY <1>1, <1>4 DEF ReadFrame, ServeConnect, ServeSubscribe, ServeSend, ServeDisconnect,
     Refuse, SendError, SendTo
<1>5. ASSUME ReadFrame(c) PROVE sent[c] # <<>> /\ thread'[c].frame = Head(sent[c])
  BY <1>5, ReadFrameStep
<1>6. CASE UNCHANGED vars
  BY <1>6 DEF vars, serverVars, handlerVars
<1>7. ASSUME NEW d \in Clients, Command(d) \/ Communicator(d)
      PROVE  thread' = thread
  BY <1>7 DEF Command, Login, Join, Report, Logout, Leave, LinkLost, Send, Communicator,
     ReceiveFrame, LoseConnection, serverVars, handlerVars
<1>8. ASSUME NEW d \in Clients, NextEntry(d) PROVE thread'[c].frame = thread[c].frame
  BY <1>2, <1>3, <1>8 DEF NextEntry
<1>9. ASSUME NEW d \in Clients, Proceed(d), ~NextEntry(d)
      PROVE  thread'[c].frame = thread[c].frame
  BY <1>2, <1>9 DEF Proceed, Accept, EndRun, Write, Flush, FlushFails,
     MarkForTermination, Disconnect, Return
<1> QED
  BY <1>4, <1>5, <1>6, <1>7, <1>8, <1>9 DEF Next, Handler

LEMMA NextServed ==
  ASSUME IInv, SentReported, ServedReported, [Next]_vars
  PROVE  ServedReported'
<1>1. NeverFewer
  BY MoreReports
<1>2. \A b : IsReported(b, user, reported) => IsReported(b, user, reported')
  BY <1>1, StillReported DEF NeverFewer
<1> SUFFICES ASSUME NEW c \in Clients, Is(thread'[c].frame, "SEND")
             PROVE  IsReported(thread'[c].frame.body, user, reported)
  BY <1>1, <1>2 DEF NeverFewer, ServedReported
<1>3. CASE thread'[c].frame = thread[c].frame
  BY <1>3 DEF ServedReported
<1>4. CASE sent[c] # <<>> /\ thread'[c].frame = Head(sent[c])
  <2>1. sent[c] \in Seq(ClientFrames)
    BY DEF IInv, Streams
  <2>2. 1 \in 1..Len(sent[c]) /\ Head(sent[c]) = sent[c][1]
    BY <1>4, <2>1, EmptySeq, LenProperties, HeadTailProperties
  <2> QED
    BY <1>4, <2>2 DEF SentReported, AllReported
<1> QED
  BY <1>3, <1>4, NextFrame

LEMMA NextWritten ==
  ASSUME IInv, ServedReported, WrittenReported, [Next]_vars
  PROVE  WrittenReported'
<1>1. NeverFewer
  BY MoreReports
<1>2. \A c \in Clients : AllReported(written[c], "MESSAGE", user, reported)
  BY DEF WrittenReported
<1>3. written \in [Clients -> Seq(ServerFrames)] /\ AllThreads(thread)
  BY DEF IInv, Streams
<1>4. SUFFICES \A c \in Clients : AllReported(written'[c], "MESSAGE", user, reported)
  BY <1>1, StillReported DEF NeverFewer, WrittenReported
<1>5. ASSUME UNCHANGED written
      PROVE  \A c \in Clients : AllReported(written'[c], "MESSAGE", user, reported)
  BY <1>2, <1>5
<1>6. ASSUME NEW c \in Clients, ReceiveFrame(c)
      PROVE  \A d \in Clients : AllReported(written'[d], "MESSAGE", user, reported)
  <2>1. AllReported(Rest(written[c]), "MESSAGE", user, reported)
    BY <1>2, <1>3, RestReported
  <2>2. written' = [written EXCEPT ![c] = Rest(written[c])]
    BY <1>6 DEF ReceiveFrame
  <2> QED
    BY <1>2, <1>3, <2>1, <2>2
<1>7. ASSUME NEW c \in Clients, Write(c)
      PROVE  \A d \in Clients : AllReported(written'[d], "MESSAGE", user, reported)
  <2> DEFINE to == thread[c].to  g == thread[c].frame  msg == thread[c].msg  f == Answer(msg, g)
  <2>1. At(c, "write") /\ (UNCHANGED written \/ written' = [written EXCEPT ![to] = Append(@, f)])
    BY <1>7 DEF Write
  <2>2. IsClientFrame(g) /\ MayAnswer(msg, g) /\ to \in Clients
    BY <1>3, <2>1 DEF AllThreads, ThreadOK, At
  <2>3. IsServerFrame(f)
    BY <2>2, AnswerIsServerFrame
  <2>4. f \in ServerFrames
    <3> HIDE DEF f
    <3> QED
      BY <2>3, WritableFrame DEF ServerFrames, IsServerFrame
  <2>5. Is(f, "MESSAGE") => msg = "MESSAGE"
    BY <2>2 DEF MayAnswer, Answer, Frame, Is
  <2>6. msg = "MESSAGE" => f.body = g.body /\ Is(g, "SEND")
    BY <2>2 DEF MayAnswer, Answer, Frame, Is
  <2>7. Is(f, "MESSAGE") => IsReported(f.body, user, reported)
    BY <2>5, <2>6 DEF ServedReported
  <2> HIDE DEF f, g, msg, to
  <2>8. AllReported(Append(written[to], f), "MESSAGE", user, reported)
    BY <1>2, <1>3, <2>2, <2>4, <2>7, AppendReported
  <2> QED
    BY <1>2, <1>3, <1>5, <2>1, <2>2, <2>8
<1>8. CASE UNCHANGED vars
  BY <1>5, <1>8 DEF vars
<1>9. ASSUME NEW c \in Clients, Command(c) PROVE UNCHANGED written
  BY <1>9 DEF Command, Login, Join, Report, Logout, Leave, LinkLost, Send
<1>10. ASSUME NEW c \in Clients, LoseConnection(c) PROVE UNCHANGED written
  BY <1>10 DEF LoseConnection, LinkLost
<1>11. ASSUME NEW c \in Clients, Handler(c), ~Write(c) PROVE UNCHANGED written
  BY <1>11 DEF Handler, Proceed, ReadFrame, Accept, EndRun, NextEntry, Flush, FlushFails,
     MarkForTermination, Disconnect
<1> QED
  BY <1>5, <1>6, <1>7, <1>8, <1>9, <1>10, <1>11 DEF Next, Communicator

LEMMA NextKept ==
  ASSUME IInv, EventsKept, WrittenReported, KeptReported, [Next]_vars
  PROVE  KeptReported'
<1>1. NeverFewer
  BY MoreReports
<1>2. \A v : IsRemembered(v, user, reported) => IsRemembered(v, user, reported')
  BY <1>1, StillReported DEF NeverFewer
<1>3. SUFFICES \A c \in Clients : \A i \in 1..Len(eventSummary'[c]) :
                 IsRemembered(eventSummary'[c][i], user, reported)
  BY <1>1, <1>2 DEF NeverFewer, KeptReported
<1>4. ASSUME UNCHANGED eventSummary
      PROVE  \A c \in Clients : \A i \in 1..Len(eventSummary'[c]) :
               IsRemembered(eventSummary'[c][i], user, reported)
  BY <1>4 DEF KeptReported
<1>5. ASSUME NEW c \in Clients, ReceiveFrame(c)
      PROVE  \A d \in Clients : \A i \in 1..Len(eventSummary'[d]) :
               IsRemembered(eventSummary'[d][i], user, reported)
  <2> DEFINE h == Head(written[c])
  <2>1. /\ written[c] # <<>> /\ IsServerFrame(h)
        /\ handled'[c] = [h EXCEPT !.body = BodyRead(h)] /\ handled \in [Clients -> Frames]
    BY <1>5, ReceiveFacts DEF IInv, ClientTypes
  <2>2. PICK f \in {parseFrame[getFrameAscii(toClient[c])]} :
          /\ handled' = [handled EXCEPT ![c] = f]
          /\ eventSummary' = [eventSummary EXCEPT ![c] =
               IF Is(f, "MESSAGE") THEN Append(@, EventOf[f.body]) ELSE @]
    BY <1>5 DEF ReceiveFrame
  <2>3. f = [h EXCEPT !.body = BodyRead(h)]
    BY <2>1, <2>2
  <2>4. h \in Frames
    BY <2>1, WritableFrame DEF IsServerFrame
  <2>5. Is(h, "MESSAGE") => IsReported(h.body, user, reported)
    <3>1. written[c] \in Seq(ServerFrames)
      BY DEF IInv, Streams
    <3>2. 1 \in 1..Len(written[c]) /\ h = written[c][1]
      BY <2>1, <3>1, EmptySeq, LenProperties, HeadTailProperties
    <3> QED
      BY <3>2 DEF WrittenReported, AllReported
  <2> HIDE DEF h
  <2>6. f.command = h.command /\ f.body = BodyRead(h)
    BY <2>3, <2>4 DEF Frames
  <2>7. CASE Is(f, "MESSAGE")
    <3>1. Is(h, "MESSAGE")
      BY <2>6, <2>7 DEF Is
    <3>2. PICK u \in Clients : \E k \in 1..reported[u] : h.body = reportBody(<<u>>, user[u].file[k])
      BY <2>5, <3>1 DEF IsReported
    <3>3. PICK k \in 1..reported[u] : h.body = reportBody(<<u>>, user[u].file[k])
      BY <3>2
    <3> DEFINE v == EventOf[h.body \o <<NL>>]
    <3>4. k \in 1..Len(user[u].file) /\ user \in Users
      <4>1. user \in Users /\ reported[u] \in Nat /\ reported[u] <= Len(user[u].file)
        BY DEF IInv, ClientTypes
      <4>2. Len(user[u].file) \in Nat
        BY <4>1, FileLength
      <4> QED
        BY <4>1, <4>2
    <3>5. IsClean(h.body) /\ h.body # <<>> /\ v \in Events /\ IsRead(v, u, user[u].file[k])
      BY <3>3, <3>4, ReportMakesEvent
    <3>6. IsRemembered(v, user, reported)
      BY <3>5 DEF IsRemembered
    <3>7. BodyLine(h) = h.body \o <<NL>> /\ ~Has(BodyLine(h), NUL)
      BY <3>5, BodyLineText DEF BodyLine, IsClean
    <3>8. EventOf[f.body] = v
      BY <2>6, <3>5, <3>7 DEF BodyRead
    <3> HIDE DEF v
    <3> DEFINE kept == eventSummary[c]  all == Append(kept, v)
    <3>9. kept \in Seq(Events) /\ v \in Events
      BY <3>5 DEF EventsKept
    <3> HIDE DEF kept
    <3>10. /\ Len(kept) \in Nat /\ Len(all) = Len(kept) + 1
           /\ \A i \in 1..Len(kept) : all[i] = kept[i]
           /\ all[Len(kept) + 1] = v
      BY <3>9, AppendProperties, LenProperties
    <3> HIDE DEF all
    <3>11. ASSUME NEW i \in 1..Len(all) PROVE IsRemembered(all[i], user, reported)
      <4>1. i \in 1..Len(kept) \/ i = Len(kept) + 1
        BY <3>10
      <4> QED
        BY <3>6, <3>10, <4>1 DEF KeptReported, kept
    <3>12. eventSummary' = [eventSummary EXCEPT ![c] = all]
      BY <2>2, <2>7, <3>8 DEF all, kept, EventsKept
    <3> QED
      BY <3>11, <3>12 DEF KeptReported, EventsKept
  <2>8. CASE ~Is(f, "MESSAGE")
    <3>1. UNCHANGED eventSummary
      BY <2>2, <2>8 DEF EventsKept
    <3> QED
      BY <1>4, <3>1
  <2> QED
    BY <2>7, <2>8
<1>6. CASE UNCHANGED vars
  BY <1>4, <1>6 DEF vars, clientVars
<1>7. ASSUME NEW c \in Clients, Command(c) PROVE UNCHANGED eventSummary
  BY <1>7 DEF Command, Login, Join, Report, Logout, Leave, LinkLost, Send
<1>8. ASSUME NEW c \in Clients, LoseConnection(c) PROVE UNCHANGED eventSummary
  BY <1>8 DEF LoseConnection, LinkLost
<1>9. ASSUME NEW c \in Clients, Handler(c) PROVE UNCHANGED clientVars
  BY <1>9 DEF Handler, Proceed, ReadFrame, Accept, EndRun, NextEntry, Write, Flush,
     FlushFails, MarkForTermination, Disconnect, ClientsSame
<1> QED
  BY <1>4, <1>5, <1>6, <1>7, <1>8, <1>9 DEF Next, Communicator, clientVars

LEMMA InitOfReports == Init => OfReports
<1> SUFFICES ASSUME Init PROVE OfReports
  OBVIOUS
<1>1. <<>> \in Seq(Events) /\ Len(<<>>) = 0 /\ \A i \in 1..0 : FALSE
  OBVIOUS
<1>2. EventsKept
  BY <1>1 DEF Init, EventsKept
<1>3. SentReported /\ WrittenReported /\ KeptReported
  BY <1>1 DEF Init, SentReported, WrittenReported, KeptReported, AllReported
<1>4. ServedReported
  BY DEF Init, ServedReported, Idle, NoFrame, Frame, Is
<1> QED
  BY <1>2, <1>3, <1>4 DEF OfReports

(***************************************************************************)
(* Nothing that a client keeps of the channel is made up: whatever the     *)
(* threads do to the order of the frames, it is a report that was made     *)
(* before, of the user it names, with its date, its city and name as far   *)
(* as an event can keep them, and its whole description.                   *)
(***************************************************************************)
THEOREM SpecKeptAsReported == Spec => []KeptAsReported
<1>1. Init => OfReports
  BY InitOfReports
<1>2. IInv /\ OfReports /\ [Next]_vars => OfReports'
  BY NextEvents, NextSent, NextServed, NextWritten, NextKept DEF OfReports
<1>3. OfReports => KeptAsReported
  <2> SUFFICES ASSUME OfReports, NEW c \in Clients, NEW i \in DOMAIN eventSummary[c]
               PROVE  \E u \in Clients : \E k \in 1..reported[u] :
                        IsRead(eventSummary[c][i], u, user[u].file[k])
    BY DEF KeptAsReported
  <2>1. eventSummary[c] \in Seq(Events)
    BY DEF OfReports, EventsKept
  <2>2. i \in 1..Len(eventSummary[c])
    BY <2>1, LenProperties
  <2> QED
    BY <2>2 DEF OfReports, KeptReported, IsRemembered
<1> QED
  BY <1>1, <1>2, <1>3, AlwaysIInv, PTL DEF Spec

-----------------------------------------------------------------------------
(* Order: what is on its way from one user to one client is numbered, and   *)
(* the numbers follow each other.                                            *)

(* Of fs, those that are mine are numbered from a + 1 to b, in their order. *)
Chain(mine, num, fs, a, b) ==
  \E g \in [0..Len(fs) -> Nat] :
    /\ g[0] = a /\ g[Len(fs)] = b
    /\ \A i \in 1..Len(fs) :
         /\ fs[i] \in mine => g[i] = g[i - 1] + 1 /\ <<fs[i], g[i]>> \in num
         /\ fs[i] \notin mine => g[i] = g[i - 1]
None(mine, fs) == \A i \in 1..Len(fs) : fs[i] \notin mine

LEMMA ChainOfNone ==
  ASSUME NEW S, NEW fs \in Seq(S), NEW mine, NEW num, None(mine, fs), NEW a \in Nat
  PROVE  Chain(mine, num, fs, a, a)
<1> DEFINE n == Len(fs)  g == [i \in 0..n |-> a]
<1>1. n \in Nat
  BY LenProperties
<1>2. 0 \in 0..n /\ n \in 0..n /\ \A i \in 1..n : i \in 0..n /\ i - 1 \in 0..n
  BY <1>1
<1>3. g \in [0..n -> Nat] /\ g[0] = a /\ g[n] = a
  BY <1>2
<1>4. \A i \in 1..n : g[i] = g[i - 1]
  BY <1>2
<1> HIDE DEF g
<1> QED
  BY <1>3, <1>4 DEF Chain, None

LEMMA ChainMore ==
  ASSUME NEW S, NEW fs \in Seq(S), NEW f \in S, NEW mine, NEW num, NEW a, NEW b,
         Chain(mine, num, fs, a, b)
  PROVE  /\ f \notin mine => Chain(mine, num, Append(fs, f), a, b)
         /\ f \in mine /\ <<f, b + 1>> \in num => Chain(mine, num, Append(fs, f), a, b + 1)
<1> DEFINE n == Len(fs)  all == Append(fs, f)
<1>1. n \in Nat
  BY LenProperties
<1>2. Len(all) = n + 1 /\ all[n + 1] = f /\ \A i \in 1..n : all[i] = fs[i]
  BY AppendProperties
<1>3. PICK g \in [0..n -> Nat] :
        /\ g[0] = a /\ g[n] = b
        /\ \A i \in 1..n :
             /\ fs[i] \in mine => g[i] = g[i - 1] + 1 /\ <<fs[i], g[i]>> \in num
             /\ fs[i] \notin mine => g[i] = g[i - 1]
  BY DEF Chain
<1> HIDE DEF n, all
<1>4. b \in Nat /\ n \in 0..n
  BY <1>1, <1>3
<1>5. ASSUME NEW d \in Nat,
             f \in mine => d = b + 1 /\ <<f, d>> \in num,
             f \notin mine => d = b
      PROVE  Chain(mine, num, all, a, d)
  <2> DEFINE h == [i \in 0..n + 1 |-> IF i = n + 1 THEN d ELSE g[i]]
  <2>1. \A i \in 0..n : i \in 0..n + 1 /\ i # n + 1
    BY <1>1
  <2>2. \A i \in 0..n : h[i] = g[i]
    BY <2>1
  <2>3. \A i \in 1..n : i \in 0..n /\ i - 1 \in 0..n
    BY <1>1
  <2>4. \A i \in 0..n + 1 : i = n + 1 \/ i \in 0..n
    BY <1>1
  <2>5. h[n + 1] = d /\ h[(n + 1) - 1] = b /\ h[0] = a
    <3>1. n + 1 \in 0..n + 1 /\ (n + 1) - 1 = n /\ 0 \in 0..n
      BY <1>1
    <3> QED
      BY <1>3, <1>4, <2>2, <3>1
  <2>6. h \in [0..n + 1 -> Nat]
    BY <1>3, <1>5, <2>4
  <2> HIDE DEF h
  <2>7. ASSUME NEW i \in 1..n + 1
        PROVE  /\ all[i] \in mine => h[i] = h[i - 1] + 1 /\ <<all[i], h[i]>> \in num
               /\ all[i] \notin mine => h[i] = h[i - 1]
    <3>1. i = n + 1 \/ i \in 1..n
      BY <1>1
    <3>2. CASE i = n + 1
      BY <1>2, <1>5, <2>5, <3>2
    <3>3. CASE i \in 1..n
      <4>1. h[i] = g[i] /\ h[i - 1] = g[i - 1] /\ all[i] = fs[i]
        BY <1>2, <2>2, <2>3, <3>3
      <4> QED
        BY <1>3, <3>3, <4>1
    <3> QED
      BY <3>1, <3>2, <3>3
  <2> QED
    BY <1>2, <2>5, <2>6, <2>7 DEF Chain
<1>6. b + 1 \in Nat
  BY <1>4
<1> QED
  BY <1>4, <1>5, <1>6 DEF all

LEMMA ChainTail ==
  ASSUME NEW S, NEW fs \in Seq(S), fs # <<>>, NEW mine, NEW num, NEW a, NEW b,
         Chain(mine, num, fs, a, b)
  PROVE  /\ Head(fs) \notin mine => Chain(mine, num, Tail(fs), a, b)
         /\ Head(fs) \in mine => /\ a + 1 \in Nat /\ <<Head(fs), a + 1>> \in num
                                 /\ Chain(mine, num, Tail(fs), a + 1, b)
<1> DEFINE n == Len(fs)  t == Tail(fs)  m == Len(t)  f == Head(fs)
<1>1. n \in Nat \ {0} /\ f = fs[1] /\ \A i \in 1..m : t[i] = fs[i + 1]
  BY EmptySeq, HeadTailProperties
<1>2. m = n - 1
  BY HeadTailProperties
<1>3. PICK g \in [0..n -> Nat] :
        /\ g[0] = a /\ g[n] = b
        /\ \A i \in 1..n :
             /\ fs[i] \in mine => g[i] = g[i - 1] + 1 /\ <<fs[i], g[i]>> \in num
             /\ fs[i] \notin mine => g[i] = g[i - 1]
  BY DEF Chain
<1> HIDE DEF n, t, f
<1> DEFINE h == [i \in 0..m |-> g[i + 1]]
<1>4. m \in Nat /\ 1 \in 0..n /\ 1 \in 1..n /\ 1 - 1 = 0
  BY <1>1, <1>2
<1>5. \A i \in 0..m : i + 1 \in 0..n
  BY <1>1, <1>2
<1>6. h \in [0..m -> Nat]
  BY <1>3, <1>5
<1>7. h[0] = g[1] /\ h[m] = b
  <2>1. 0 \in 0..m /\ 0 + 1 = 1 /\ m \in 0..m /\ m + 1 = n
    BY <1>1, <1>2, <1>4
  <2> QED
    BY <1>3, <2>1
<1>8. ASSUME NEW i \in 1..m
      PROVE  /\ t[i] \in mine => h[i] = h[i - 1] + 1 /\ <<t[i], h[i]>> \in num
             /\ t[i] \notin mine => h[i] = h[i - 1]
  <2>1. i + 1 \in 1..n /\ (i + 1) - 1 = i /\ i \in 0..m /\ i - 1 \in 0..m /\ (i - 1) + 1 = i
    BY <1>1, <1>2
  <2>2. h[i] = g[i + 1] /\ h[i - 1] = g[i] /\ t[i] = fs[i + 1]
    BY <1>1, <2>1
  <2> QED
    BY <1>3, <2>1, <2>2
<1> HIDE DEF h, m
<1>9. Chain(mine, num, t, g[1], b)
  BY <1>6, <1>7, <1>8 DEF Chain, m
<1>10. /\ f \in mine => g[1] = a + 1 /\ <<f, g[1]>> \in num
       /\ f \notin mine => g[1] = a
       /\ g[1] \in Nat
  BY <1>1, <1>3, <1>4
<1> QED
  BY <1>9, <1>10 DEF f, t

LEMMA ChainGrows ==
  ASSUME NEW S, NEW fs \in Seq(S), NEW mine, NEW num, NEW a, NEW b,
         Chain(mine, num, fs, a, b)
  PROVE  a \in Nat /\ b \in Nat /\ a <= b
<1> DEFINE n == Len(fs)
<1>1. n \in Nat
  BY LenProperties
<1>2. PICK g \in [0..n -> Nat] :
        /\ g[0] = a /\ g[n] = b
        /\ \A i \in 1..n :
             /\ fs[i] \in mine => g[i] = g[i - 1] + 1 /\ <<fs[i], g[i]>> \in num
             /\ fs[i] \notin mine => g[i] = g[i - 1]
  BY DEF Chain
<1> HIDE DEF n
<1> DEFINE P == {i \in Nat : i \in 0..n => a <= g[i]}
<1>3. a \in Nat /\ b \in Nat /\ 0 \in 0..n /\ n \in 0..n
  BY <1>1, <1>2
<1>4. 0 \in P
  BY <1>2, <1>3
<1>5. ASSUME NEW i \in P PROVE i + 1 \in P
  <2> SUFFICES ASSUME i + 1 \in 0..n PROVE a <= g[i + 1]
    OBVIOUS
  <2>1. i \in 0..n /\ i + 1 \in 1..n /\ (i + 1) - 1 = i
    BY <1>1, <1>5
  <2>2. a <= g[i] /\ g[i] \in Nat /\ (g[i + 1] = g[i] \/ g[i + 1] = g[i] + 1)
    BY <1>2, <1>5, <2>1
  <2> QED
    BY <1>3, <2>2
<1> HIDE DEF P
<1>6. P = Nat
  <2>1. P \in SUBSET Nat
    BY DEF P
  <2> QED
    BY <1>4, <1>5, <2>1, Induction
<1> QED
  BY <1>1, <1>2, <1>3, <1>6 DEF P

LEMMA NoneMore ==
  ASSUME NEW S, NEW fs \in Seq(S), NEW f \in S, NEW mine, None(mine, fs), f \notin mine
  PROVE  None(mine, Append(fs, f))
<1> DEFINE n == Len(fs)  all == Append(fs, f)
<1>1. n \in Nat
  BY LenProperties
<1>2. Len(all) = n + 1 /\ all[n + 1] = f /\ \A i \in 1..n : all[i] = fs[i]
  BY AppendProperties
<1>3. \A i \in 1..n : fs[i] \notin mine
  BY DEF None
<1> HIDE DEF n, all
<1>4. \A i \in 1..n + 1 : i = n + 1 \/ i \in 1..n
  BY <1>1
<1>5. \A i \in 1..Len(all) : all[i] \notin mine
  BY <1>2, <1>3, <1>4
<1> QED
  BY <1>5 DEF None, all

LEMMA NoneTail ==
  ASSUME NEW S, NEW fs \in Seq(S), fs # <<>>, NEW mine, None(mine, fs)
  PROVE  None(mine, Tail(fs)) /\ Head(fs) \notin mine
<1> DEFINE n == Len(fs)  t == Tail(fs)  m == Len(t)  f == Head(fs)
<1>1. n \in Nat \ {0} /\ f = fs[1] /\ \A i \in 1..m : t[i] = fs[i + 1]
  BY EmptySeq, HeadTailProperties
<1>2. m = n - 1
  BY HeadTailProperties
<1>3. \A i \in 1..n : fs[i] \notin mine
  BY DEF None
<1> HIDE DEF n, t, f
<1>4. 1 \in 1..n /\ \A i \in 1..m : i + 1 \in 1..n
  BY <1>1, <1>2
<1>5. f \notin mine /\ \A i \in 1..m : t[i] \notin mine
  BY <1>1, <1>3, <1>4
<1> QED
  BY <1>5 DEF None, f, t

-----------------------------------------------------------------------------
(* What a step does to the tables and to the thread of a client *)

(* c is no subscriber and never will be one again. *)
Over(c) == c \notin subscribers /\ (~connected[c] \/ protocol[c].shouldTerminate)

Forwarding(c) ==
  thread[c].pc = "nextEntry" \/ (thread[c].pc \in {"write", "flush"} /\ thread[c].msg = "MESSAGE")

SameWork(c) ==
  /\ thread'[c].frame = thread[c].frame /\ thread'[c].msg = thread[c].msg
  /\ thread'[c].to = thread[c].to /\ thread'[c].visited = thread[c].visited

Registers(c) ==
  /\ thread[c].pc = "none" /\ thread'[c].pc = "run" /\ SameWork(c)
  /\ c \in activeConnections' /\ protocol' = protocol
Rests(c) ==
  /\ thread[c].pc \in {"run", "terminate", "disconnect"} /\ thread'[c].pc \in {"run", "ended"}
  /\ SameWork(c) /\ protocol'[c].subscribed = protocol[c].subscribed
Finds(c) ==
  \E d \in subscribers \ thread[c].visited :
    /\ thread[c].pc = "nextEntry"
    /\ thread'[c].pc = IF d \in activeConnections THEN "write" ELSE "nextEntry"
    /\ thread'[c].frame = thread[c].frame /\ thread'[c].msg = "MESSAGE" /\ thread'[c].to = d
    /\ thread'[c].visited = thread[c].visited \cup {d}
    /\ subscribers' = subscribers /\ protocol' = protocol
Finishes(c) ==
  /\ thread[c].pc = "nextEntry" /\ thread'[c].pc = "run" /\ SameWork(c)
  /\ subscribers \subseteq thread[c].visited /\ subscribers' = subscribers /\ protocol' = protocol
Writes(c) ==
  /\ Write(c) /\ thread[c].pc = "write" /\ thread'[c].pc = "flush" /\ SameWork(c)
  /\ connected[thread[c].to] /\ subscribers' = subscribers /\ protocol' = protocol
Returns(c) ==
  /\ thread[c].pc \in {"write", "flush"} /\ SameWork(c) /\ protocol' = protocol
  /\ thread'[c].pc = AfterSend(thread[c].frame, thread[c].msg)
  /\ thread[c].pc = "write" => ~connected[thread[c].to]
Begins(c) ==
  /\ ReadFrame(c) /\ thread[c].pc = "run" /\ thread'[c].pc = "nextEntry" /\ Is(thread'[c].frame, "SEND")
  /\ thread'[c].visited = {} /\ protocol[c].subscribed
  /\ subscribers' = subscribers /\ protocol' = protocol
Answers(c) ==
  /\ ReadFrame(c) /\ thread[c].pc = "run" /\ thread'[c].pc \in {"write", "run", "terminate", "disconnect"}
  /\ thread'[c].msg \in {"CONNECTED", "RECEIPT", "ERROR"}
  /\ Is(thread'[c].frame, "SEND") => ~protocol[c].subscribed /\ protocol' = protocol
  /\ Is(thread'[c].frame, "DISCONNECT") => protocol'[c].shouldTerminate
  /\ thread'[c].pc = "disconnect" => protocol'[c].shouldTerminate
  /\ ~protocol[c].shouldTerminate
  /\ protocol'[c].subscribed \/ protocol'[c].shouldTerminate \/ ~protocol[c].subscribed

OwnStep(c) ==
  \/ Registers(c) \/ Rests(c) \/ Finds(c) \/ Finishes(c) \/ Writes(c) \/ Returns(c)
  \/ Begins(c) \/ Answers(c)

LEMMA GotoFields ==
  ASSUME thread \in [Clients -> Threads], NEW c \in Clients, NEW pc, Goto(c, pc)
  PROVE  thread'[c].pc = pc /\ SameWork(c)
<1> DEFINE t == thread[c]  s == [t EXCEPT !.pc = pc]
<1>1. thread' = [thread EXCEPT ![c] = s] /\ t \in Threads
  BY DEF Goto
<1> HIDE DEF t
<1>2. s.pc = pc /\ s.frame = t.frame /\ s.msg = t.msg /\ s.to = t.to /\ s.visited = t.visited
  BY <1>1 DEF Threads
<1> HIDE DEF s
<1>3. thread'[c] = s
  BY <1>1
<1> QED
  BY <1>2, <1>3 DEF SameWork, t

LEMMA SendToFields ==
  ASSUME thread \in [Clients -> Threads], NEW c \in Clients, NEW f, NEW to, NEW msg, NEW visited,
         SendTo(c, f, to, msg, visited)
  PROVE  /\ thread'[c].pc = IF to \in activeConnections THEN "write" ELSE AfterSend(f, msg)
         /\ thread'[c].frame = f /\ thread'[c].msg = msg /\ thread'[c].to = to
         /\ thread'[c].visited = visited
BY DEF SendTo

LEMMA Serves ==
  ASSUME IInv, NEW c \in Clients, ReadFrame(c)
  PROVE  Begins(c) \/ Answers(c)
<1>1. /\ thread \in [Clients -> Threads] /\ ThreadOK(thread[c])
      /\ protocol \in [Clients -> [connected : BOOLEAN, subscribed : BOOLEAN,
                                   shouldTerminate : BOOLEAN]]
  BY DEF IInv, AllThreads, ServerTypes
<1> DEFINE f == Head(sent[c])
<1>2. ServeConnect(c, f) \/ ServeSubscribe(c, f) \/ ServeSend(c, f)
        \/ ServeDisconnect(c, f) \/ Refuse(c, f)
  BY ReadFacts
<1>3. thread[c].pc = "run" /\ ~protocol[c].shouldTerminate
  BY DEF ReadFrame, ReadBytes, At, Runs
<1> HIDE DEF f
<1>4. \A a, b : Is(f, a) /\ Is(f, b) => a = b
  BY DEF Is
<1> DEFINE p == protocol[c]
<1>5. p \in [connected : BOOLEAN, subscribed : BOOLEAN, shouldTerminate : BOOLEAN]
  BY <1>1
<1>6. CASE ServeConnect(c, f)
  <2>1. Is(f, "CONNECT") /\ SendTo(c, f, c, "CONNECTED", {})
    BY <1>6 DEF ServeConnect
  <2>2. ~Is(f, "SEND") /\ ~Is(f, "DISCONNECT")
    BY <1>4, <2>1
  <2>3. AfterSend(f, "CONNECTED") = "run"
    BY <2>2 DEF AfterSend
  <2>4. protocol'[c].subscribed = p.subscribed
    BY <1>1, <1>5, <1>6 DEF ServeConnect
  <2> QED
    BY <1>1, <1>3, <1>5, <2>1, <2>2, <2>3, <2>4, SendToFields DEF Answers
<1>7. CASE ServeSubscribe(c, f)
  <2>1. Is(f, "SUBSCRIBE") /\ SendTo(c, f, c, "RECEIPT", {})
    BY <1>7 DEF ServeSubscribe
  <2>2. ~Is(f, "SEND") /\ ~Is(f, "DISCONNECT")
    BY <1>4, <2>1
  <2>3. AfterSend(f, "RECEIPT") = "run"
    BY <2>2 DEF AfterSend
  <2>4. protocol'[c].subscribed
    BY <1>1, <1>5, <1>7 DEF ServeSubscribe
  <2> QED
    BY <1>1, <1>3, <2>1, <2>2, <2>3, <2>4, SendToFields DEF Answers
<1>8. CASE ServeDisconnect(c, f)
  <2>1. Is(f, "DISCONNECT") /\ SendTo(c, f, c, "RECEIPT", {})
    BY <1>8 DEF ServeDisconnect
  <2>2. ~Is(f, "SEND")
    BY <1>4, <2>1
  <2>3. AfterSend(f, "RECEIPT") = "disconnect"
    BY <2>1 DEF AfterSend
  <2>4. protocol'[c].shouldTerminate
    <3>1. protocol' = [protocol EXCEPT ![c] = [p EXCEPT !.shouldTerminate = TRUE, !.subscribed = FALSE]]
      BY <1>8 DEF ServeDisconnect
    <3>2. [p EXCEPT !.shouldTerminate = TRUE, !.subscribed = FALSE].shouldTerminate
      BY <1>5
    <3> QED
      BY <1>1, <3>1, <3>2
  <2> QED
    BY <1>1, <1>3, <2>1, <2>2, <2>3, <2>4, SendToFields DEF Answers
<1>9. CASE ServeSend(c, f)
  <2>1. /\ Is(f, "SEND") /\ protocol[c].subscribed /\ UNCHANGED <<protocol, subscribers>>
        /\ thread' = [thread EXCEPT ![c] = [Idle EXCEPT !.pc = "nextEntry", !.frame = f]]
    BY <1>9 DEF ServeSend, Forwards
  <2>2. /\ thread'[c].pc = "nextEntry" /\ thread'[c].frame = f /\ thread'[c].visited = {}
    BY <1>1, <2>1 DEF Idle
  <2> QED
    BY <1>3, <2>1, <2>2 DEF Begins
<1>10. CASE Refuse(c, f)
  <2>1. /\ ~Is(f, "DISCONNECT") /\ (Is(f, "SEND") => ~protocol[c].subscribed)
        /\ SendTo(c, f, c, "ERROR", {}) /\ protocol' = protocol
    BY <1>10 DEF Refuse, SendError, Forwards
  <2>2. AfterSend(f, "ERROR") = "terminate"
    BY <2>1 DEF AfterSend
  <2> QED
    BY <1>1, <1>3, <1>5, <2>1, <2>2, SendToFields DEF Answers
<1> QED
  BY <1>2, <1>6, <1>7, <1>8, <1>9, <1>10

LEMMA Acts ==
  ASSUME IInv, NEW c \in Clients, Handler(c)
  PROVE  OwnStep(c)
<1>1. /\ thread \in [Clients -> Threads] /\ ThreadOK(thread[c])
      /\ protocol \in [Clients -> [connected : BOOLEAN, subscribed : BOOLEAN,
                                   shouldTerminate : BOOLEAN]]
  BY DEF IInv, AllThreads, ServerTypes
<1>2. CASE Accept(c)
  BY <1>1, <1>2, GotoFields DEF Accept, At, OwnStep, Registers
<1>3. CASE EndRun(c)
  BY <1>1, <1>3, GotoFields DEF EndRun, At, OwnStep, Rests
<1>4. CASE NextEntry(c)
  <2>1. CASE \E d \in subscribers \ thread[c].visited :
               SendTo(c, thread[c].frame, d, "MESSAGE", thread[c].visited \cup {d})
    <3>1. PICK d \in subscribers \ thread[c].visited :
            SendTo(c, thread[c].frame, d, "MESSAGE", thread[c].visited \cup {d})
      BY <2>1
    <3>2. AfterSend(thread[c].frame, "MESSAGE") = "nextEntry"
      <4>1. ~Is(thread[c].frame, "DISCONNECT")
        BY <1>1, <1>4 DEF NextEntry, At, ThreadOK, Is
      <4> QED
        BY <4>1 DEF AfterSend
    <3>3. thread[c].pc = "nextEntry" /\ subscribers' = subscribers /\ protocol' = protocol
      BY <1>4 DEF NextEntry, At
    <3>4. Finds(c)
      BY <1>1, <3>1, <3>2, <3>3, SendToFields DEF Finds
    <3> QED
      BY <3>4 DEF OwnStep
  <2>2. CASE subscribers \subseteq thread[c].visited /\ Goto(c, "run")
    BY <1>1, <1>4, <2>2, GotoFields DEF NextEntry, At, OwnStep, Finishes
  <2> QED
    BY <1>4, <2>1, <2>2 DEF NextEntry
<1>5. CASE Write(c)
  <2>1. thread[c].pc = "write" /\ subscribers' = subscribers /\ protocol' = protocol
    BY <1>5 DEF Write, At
  <2>2. CASE connected[thread[c].to] /\ Goto(c, "flush")
    BY <1>1, <1>5, <2>1, <2>2, GotoFields DEF OwnStep, Writes
  <2>3. CASE ~connected[thread[c].to] /\ Return(c)
    BY <1>1, <2>1, <2>3, GotoFields DEF OwnStep, Returns, Return
  <2> QED
    BY <1>5, <2>2, <2>3 DEF Write
<1>6. CASE Flush(c) \/ FlushFails(c)
  <2>1. thread[c].pc = "flush" /\ Return(c) /\ protocol' = protocol
    BY <1>6 DEF Flush, FlushFails, At
  <2> QED
    BY <1>1, <2>1, GotoFields DEF OwnStep, Returns, Return
<1>7. CASE MarkForTermination(c)
  <2>1. thread[c].pc = "terminate" /\ Goto(c, "run")
    BY <1>7 DEF MarkForTermination, At
  <2>2. protocol'[c].subscribed = protocol[c].subscribed
    BY <1>1, <1>7 DEF MarkForTermination
  <2> QED
    BY <1>1, <2>1, <2>2, GotoFields DEF OwnStep, Rests
<1>8. CASE Disconnect(c)
  BY <1>1, <1>8, GotoFields DEF Disconnect, At, OwnStep, Rests
<1>9. CASE ReadFrame(c)
  BY <1>9, Serves DEF OwnStep
<1> QED
  BY <1>2, <1>3, <1>4, <1>5, <1>6, <1>7, <1>8, <1>9 DEF Handler, Proceed

(* The thread of c, or nobody, changes the thread and the protocol object of c. *)
LEMMA Others ==
  ASSUME IInv, [Next]_vars, NEW c \in Clients
  PROVE  OwnStep(c) \/ (thread'[c] = thread[c] /\ protocol'[c] = protocol[c])
<1>1. /\ thread \in [Clients -> Threads]
      /\ protocol \in [Clients -> [connected : BOOLEAN, subscribed : BOOLEAN,
                                   shouldTerminate : BOOLEAN]]
  BY DEF IInv, AllThreads, ServerTypes
<1>2. ASSUME NEW d \in Clients, d # c, Proceed(d)
      PROVE  thread'[c] = thread[c] /\ protocol'[c] = protocol[c]
  BY <1>1, <1>2 DEF Proceed, Accept, EndRun, NextEntry, SendTo, Write, Flush, FlushFails, Return,
     MarkForTermination, Disconnect, Goto
<1>3. ASSUME NEW d \in Clients, d # c, ReadFrame(d)
      PROVE  thread'[c] = thread[c] /\ protocol'[c] = protocol[c]
  BY <1>1, <1>3 DEF ReadFrame, ServeConnect, ServeSubscribe, ServeSend, ServeDisconnect, Refuse,
     SendError, SendTo
<1>4. ASSUME NEW d \in Clients, Command(d) \/ Communicator(d)
      PROVE  thread' = thread /\ protocol' = protocol
  BY <1>4 DEF Command, Login, Join, Report, Logout, Leave, LinkLost, Send, Communicator,
     ReceiveFrame, LoseConnection, serverVars, handlerVars
<1>5. CASE UNCHANGED vars
  BY <1>5 DEF vars, serverVars, handlerVars
<1> QED
  BY <1>2, <1>3, <1>4, <1>5, Acts DEF Next, Handler

(* what a step does to the places of c in the tables *)
Tables(c) ==
  /\ connected'[c] => connected[c]
  /\ protocol[c].shouldTerminate => protocol'[c].shouldTerminate
  /\ c \in activeConnections \ activeConnections' => ~connected'[c] \/ protocol[c].shouldTerminate
  /\ c \in subscribers \ subscribers' => ~connected'[c] \/ protocol'[c].shouldTerminate
  /\ c \in subscribers' =>
       /\ c \in activeConnections => c \in activeConnections'
       /\ connected[c] => connected'[c]
  /\ c \in subscribers' \ subscribers =>
       thread[c].pc = "run" /\ connected[c] /\ ~protocol[c].shouldTerminate

(* A connection whose thread is about to disconnect will not go on. *)
Leaves(c) == thread[c].pc = "disconnect" => protocol[c].shouldTerminate

LEMMA TableStep ==
  ASSUME IInv, \A d \in Clients : Leaves(d), [Next]_vars, NEW c \in Clients
  PROVE  Tables(c)
<1> DEFINE P == [connected : BOOLEAN, subscribed : BOOLEAN, shouldTerminate : BOOLEAN]
<1>1. /\ protocol \in [Clients -> P] /\ connected \in [Clients -> BOOLEAN]
      /\ thread \in [Clients -> Threads] /\ \A d \in Clients : ThreadOK(thread[d])
  BY DEF IInv, AllThreads, ServerTypes
<1>2. CASE UNCHANGED <<protocol, connected, activeConnections, subscribers>>
  BY <1>1, <1>2 DEF Tables
<1>3. ASSUME NEW d \in Clients, Command(d) \/ Communicator(d)
      PROVE  UNCHANGED <<protocol, connected, activeConnections, subscribers>>
  BY <1>3 DEF Command, Login, Join, Report, Logout, Leave, LinkLost, Send, Communicator,
     ReceiveFrame, LoseConnection, serverVars, handlerVars
<1>4. ASSUME NEW d \in Clients, EndRun(d) \/ NextEntry(d) \/ Write(d) \/ Flush(d)
      PROVE  UNCHANGED <<protocol, connected, activeConnections, subscribers>>
  BY <1>4 DEF EndRun, NextEntry, Write, Flush, HandlerSame
<1>5. ASSUME NEW d \in Clients, Accept(d) PROVE Tables(c)
  BY <1>1, <1>5 DEF Accept, HandlerSame, Tables
<1>6. ASSUME NEW d \in Clients, FlushFails(d) PROVE Tables(c)
  <2>1. thread[d].to \in Clients
    BY <1>1, <1>6 DEF FlushFails, At, ThreadOK
  <2> DEFINE to == thread[d].to
  <2>2. /\ connected' = [connected EXCEPT ![to] = FALSE] /\ protocol' = protocol
        /\ activeConnections' = activeConnections \ {to} /\ subscribers' = subscribers \ {to}
    BY <1>6 DEF FlushFails
  <2> HIDE DEF to
  <2> QED
    BY <1>1, <2>2 DEF Tables
<1>7. ASSUME NEW d \in Clients, MarkForTermination(d) PROVE Tables(c)
  <2> DEFINE p == [protocol[d] EXCEPT !.shouldTerminate = TRUE]
  <2>1. protocol' = [protocol EXCEPT ![d] = p] /\ protocol[d] \in P
        /\ UNCHANGED <<connected, activeConnections, subscribers>>
    BY <1>1, <1>7 DEF MarkForTermination, HandlerSame
  <2>2. p.shouldTerminate
    BY <2>1
  <2> HIDE DEF p, P
  <2>3. protocol[c].shouldTerminate => protocol'[c].shouldTerminate
    BY <1>1, <2>1, <2>2
  <2> QED
    BY <1>1, <2>1, <2>3 DEF Tables
<1>8. ASSUME NEW d \in Clients, Disconnect(d) PROVE Tables(c)
  <2>1. protocol[d].shouldTerminate
    BY <1>8 DEF Leaves, Disconnect, At
  <2> QED
    BY <1>1, <1>8, <2>1 DEF Disconnect, HandlerSame, Tables
<1>9. ASSUME NEW d \in Clients, ReadFrame(d) PROVE Tables(c)
  <2> DEFINE f == Head(sent[d])
  <2>1. ServeConnect(d, f) \/ ServeSubscribe(d, f) \/ ServeSend(d, f)
          \/ ServeDisconnect(d, f) \/ Refuse(d, f)
    BY <1>9, ReadFacts
  <2>2. /\ thread[d].pc = "run" /\ ~protocol[d].shouldTerminate /\ connected[d]
        /\ UNCHANGED <<connected, activeConnections>>
    BY <1>9 DEF ReadFrame, ReadBytes, At, Runs
  <2> HIDE DEF f
  <2>3. protocol[d] \in P
    BY <1>1
  <2>4. CASE ServeConnect(d, f)
    <3> DEFINE p == [protocol[d] EXCEPT !.connected = TRUE]
    <3>1. protocol' = [protocol EXCEPT ![d] = p] /\ subscribers' = subscribers
      BY <2>4 DEF ServeConnect
    <3>2. p.shouldTerminate = protocol[d].shouldTerminate
      BY <2>3
    <3> HIDE DEF p, P
    <3>3. protocol[c].shouldTerminate => protocol'[c].shouldTerminate
      BY <1>1, <3>1, <3>2
    <3> QED
      BY <2>2, <3>1, <3>3 DEF Tables
  <2>5. CASE ServeSubscribe(d, f)
    <3> DEFINE p == [protocol[d] EXCEPT !.subscribed = TRUE]
    <3>1. protocol' = [protocol EXCEPT ![d] = p] /\ subscribers' = subscribers \cup {d}
      BY <2>5 DEF ServeSubscribe
    <3>2. p.shouldTerminate = protocol[d].shouldTerminate
      BY <2>3
    <3> HIDE DEF p, P
    <3>3. protocol[c].shouldTerminate => protocol'[c].shouldTerminate
      BY <1>1, <3>1, <3>2
    <3> QED
      BY <2>2, <3>1, <3>3 DEF Tables
  <2>6. CASE ServeDisconnect(d, f)
    <3> DEFINE p == [protocol[d] EXCEPT !.shouldTerminate = TRUE, !.subscribed = FALSE]
    <3>1. protocol' = [protocol EXCEPT ![d] = p] /\ subscribers' = subscribers \ {d}
      BY <2>6 DEF ServeDisconnect
    <3>2. p.shouldTerminate
      BY <2>3
    <3> HIDE DEF p, P
    <3>3. /\ protocol[c].shouldTerminate => protocol'[c].shouldTerminate
          /\ c = d => protocol'[c].shouldTerminate
      BY <1>1, <3>1, <3>2
    <3> QED
      BY <2>2, <3>1, <3>3 DEF Tables
  <2>7. CASE ServeSend(d, f) \/ Refuse(d, f)
    BY <1>2, <2>2, <2>7 DEF ServeSend, Refuse, SendError
  <2> QED
    BY <2>1, <2>4, <2>5, <2>6, <2>7
<1>10. CASE UNCHANGED vars
  BY <1>2, <1>10 DEF vars, serverVars, handlerVars
<1> QED
  BY <1>2, <1>3, <1>4, <1>5, <1>6, <1>7, <1>8, <1>9, <1>10 DEF Next, Handler, Proceed

LEMMA AfterSendIs ==
  ASSUME NEW f, NEW msg
  PROVE  /\ AfterSend(f, msg) \in {"nextEntry", "terminate", "disconnect", "run"}
         /\ AfterSend(f, msg) = "disconnect" => Is(f, "DISCONNECT")
         /\ AfterSend(f, msg) = "nextEntry" => msg = "MESSAGE"
         /\ msg = "MESSAGE" /\ ~Is(f, "DISCONNECT") => AfterSend(f, msg) = "nextEntry"
<1>1. CASE msg = "MESSAGE" /\ ~Is(f, "DISCONNECT")
  BY <1>1 DEF AfterSend
<1>2. CASE msg = "MESSAGE" /\ Is(f, "DISCONNECT")
  BY <1>2 DEF AfterSend
<1>3. CASE msg # "MESSAGE" /\ msg = "ERROR"
  BY <1>3 DEF AfterSend
<1>4. CASE msg # "MESSAGE" /\ msg # "ERROR" /\ Is(f, "DISCONNECT")
  BY <1>4 DEF AfterSend
<1>5. CASE msg # "MESSAGE" /\ msg # "ERROR" /\ ~Is(f, "DISCONNECT")
  BY <1>5 DEF AfterSend
<1> QED
  BY <1>1, <1>2, <1>3, <1>4, <1>5

-----------------------------------------------------------------------------
(* Whoever is listed can be reached *)

(* who subscribes is registered and has a handler that sends *)
Present(c) == c \in subscribers => c \in activeConnections /\ connected[c]
Registered(c) ==
  thread[c].pc # "none" /\ connected[c] /\ ~protocol[c].shouldTerminate => c \in activeConnections
(* An answer to DISCONNECT is the last one. *)
Parting(c) ==
  thread[c].pc \in {"write", "flush"} /\ Is(thread[c].frame, "DISCONNECT") => protocol[c].shouldTerminate
(* Whom a message is sent to was found in the table, and is there or over. *)
Addressed(c) ==
  thread[c].pc \in {"write", "flush"} /\ thread[c].msg = "MESSAGE" =>
    \E d \in Clients : /\ thread[c].to = d /\ d \in thread[c].visited
                       /\ d \in subscribers \/ Over(d)
MayForward(c) == Forwarding(c) => protocol[c].subscribed

Presence ==
  \A c \in Clients : /\ Leaves(c) /\ Present(c) /\ Registered(c) /\ Parting(c)
                     /\ Addressed(c) /\ MayForward(c)

LEMMA StaysOver ==
  ASSUME IInv, Presence, [Next]_vars, NEW c \in Clients
  PROVE  /\ Tables(c)
         /\ Over(c) => Over(c)'
         /\ c \in subscribers \/ Over(c) => c \in subscribers' \/ Over(c)'
         /\ c \in subscribers' /\ Over(c) => FALSE
<1>1. /\ connected \in [Clients -> BOOLEAN] /\ connected' \in [Clients -> BOOLEAN]
      /\ protocol \in [Clients -> [connected : BOOLEAN, subscribed : BOOLEAN,
                                   shouldTerminate : BOOLEAN]]
      /\ protocol' \in [Clients -> [connected : BOOLEAN, subscribed : BOOLEAN,
                                    shouldTerminate : BOOLEAN]]
  BY NextIInv DEF IInv, ServerTypes
<1>2. Tables(c)
  BY TableStep DEF Presence
<1> QED
  BY <1>1, <1>2 DEF Tables, Over

LEMMA NextPresence ==
  ASSUME IInv, Presence, [Next]_vars
  PROVE  Presence'
<1> SUFFICES ASSUME NEW c \in Clients
             PROVE  /\ Leaves(c)' /\ Present(c)' /\ Registered(c)' /\ Parting(c)'
                    /\ Addressed(c)' /\ MayForward(c)'
  BY DEF Presence
<1> DEFINE P == [connected : BOOLEAN, subscribed : BOOLEAN, shouldTerminate : BOOLEAN]
<1>1. /\ connected \in [Clients -> BOOLEAN] /\ connected' \in [Clients -> BOOLEAN]
      /\ protocol \in [Clients -> P] /\ protocol' \in [Clients -> P]
      /\ thread \in [Clients -> Threads] /\ thread' \in [Clients -> Threads]
      /\ ThreadOK(thread[c]) /\ ThreadOK(thread'[c]) /\ subscribers \subseteq Clients
  BY NextIInv DEF IInv, ServerTypes, AllThreads
<1>2. /\ Leaves(c) /\ Present(c) /\ Registered(c) /\ Parting(c) /\ Addressed(c) /\ MayForward(c)
  BY DEF Presence
<1>3. Tables(c)
  BY StaysOver
<1>4. OwnStep(c) \/ (thread'[c] = thread[c] /\ protocol'[c] = protocol[c])
  BY Others
<1>5. /\ AfterSend(thread[c].frame, thread[c].msg) \in {"nextEntry", "terminate", "disconnect", "run"}
      /\ AfterSend(thread[c].frame, thread[c].msg) = "disconnect" => Is(thread[c].frame, "DISCONNECT")
      /\ AfterSend(thread[c].frame, thread[c].msg) = "nextEntry" => thread[c].msg = "MESSAGE"
  BY AfterSendIs
<1> HIDE DEF P
<1>6. Leaves(c)'
  BY <1>2, <1>3, <1>4, <1>5 DEF Leaves, Parting, Tables, OwnStep, Registers, Rests, Finds, Finishes,
     Writes, Returns, Begins, Answers
<1>7. Present(c)'
  BY <1>2, <1>3 DEF Present, Registered, Tables
<1>8. Registered(c)'
  BY <1>1, <1>2, <1>3, <1>4 DEF Registered, Tables, OwnStep, Registers, Rests, Finds, Finishes,
     Writes, Returns, Begins, Answers
<1>9. Parting(c)'
  BY <1>1, <1>2, <1>3, <1>4, <1>5 DEF Parting, Tables, ThreadOK, OwnStep, Registers, Rests, Finds,
     Finishes, Writes, Returns, Begins, Answers, SameWork, Is
<1>10. Addressed(c)'
  <2> SUFFICES ASSUME thread'[c].pc \in {"write", "flush"}, thread'[c].msg = "MESSAGE"
               PROVE  \E d \in Clients : /\ thread'[c].to = d /\ d \in thread'[c].visited
                                         /\ d \in subscribers' \/ Over(d)'
    BY DEF Addressed
  <2>1. \A d \in Clients : d \in subscribers \/ Over(d) => d \in subscribers' \/ Over(d)'
    BY StaysOver
  <2>2. CASE thread'[c] = thread[c]
    <3>1. PICK d \in Clients : /\ thread[c].to = d /\ d \in thread[c].visited
                               /\ d \in subscribers \/ Over(d)
      BY <1>2, <2>2 DEF Addressed
    <3> QED
      BY <2>1, <2>2, <3>1
  <2>3. CASE Finds(c)
    BY <1>1, <2>1, <2>3 DEF Finds
  <2>4. CASE Writes(c)
    <3>1. PICK d \in Clients : /\ thread[c].to = d /\ d \in thread[c].visited
                               /\ d \in subscribers \/ Over(d)
      BY <1>2, <2>4 DEF Writes, SameWork, Addressed
    <3> QED
      BY <2>1, <2>4, <3>1 DEF Writes, SameWork
  <2>5. ~Registers(c) /\ ~Rests(c) /\ ~Finishes(c) /\ ~Returns(c) /\ ~Begins(c) /\ ~Answers(c)
    BY <1>5 DEF Registers, Rests, Finishes, Returns, Begins, Answers
  <2> QED
    BY <1>4, <2>2, <2>3, <2>4, <2>5 DEF OwnStep
<1>11. MayForward(c)'
  <2> SUFFICES ASSUME Forwarding(c)' PROVE protocol'[c].subscribed
    BY DEF MayForward
  <2>1. CASE thread'[c] = thread[c] /\ protocol'[c] = protocol[c]
    BY <1>2, <2>1 DEF MayForward, Forwarding
  <2>2. CASE OwnStep(c)
    BY <1>2, <1>5, <2>2 DEF MayForward, Forwarding, OwnStep, Registers, Rests, Finds, Finishes,
       Writes, Returns, Begins, Answers, SameWork
  <2> QED
    BY <1>4, <2>1, <2>2
<1> QED
  BY <1>6, <1>7, <1>8, <1>9, <1>10, <1>11

LEMMA InitPresence == Init => Presence
BY DEF Init, Presence, Leaves, Present, Registered, Parting, Addressed, MayForward, Forwarding, Idle

-----------------------------------------------------------------------------
(* The numbers of the reports of one user *)

Sends == {f \in Frames : Is(f, "SEND")}
Messages(u) == {f \in Frames : Is(f, "MESSAGE") /\ EventOf[f.body \o <<NL>>].user = <<u>>}
EventsBy(u) == {e \in Events : e.user = <<u>>}

(* frame or event p[1] is of the p[2]-th event in the file of u *)
FrameNumbers(us, u) ==
  {p \in Frames \X Nat : /\ p[2] \in 1..Len(us[u].file)
                         /\ IsRead(EventOf[p[1].body \o <<NL>>], u, us[u].file[p[2]])}
EventNumbers(us, u) ==
  {p \in Events \X Nat : p[2] \in 1..Len(us[u].file) /\ IsRead(p[1], u, us[u].file[p[2]])}

(* Of the reports of u, the server has read the first n. *)
Served(u, n) ==
  /\ Chain(Sends, FrameNumbers(user, u), sent[u], n, reported[u])
  /\ Is(thread[u].frame, "SEND") => <<thread[u].frame, n>> \in FrameNumbers(user, u)

Turn(u, n, m) ==
  m = IF ReadFrame(u) /\ Is(thread'[u].frame, "SEND") THEN n + 1 ELSE n

LEMMA ReportNumber ==
  ASSUME NEW us \in Users, NEW u \in Clients, NEW k \in 1..Len(us[u].file)
  PROVE  LET f == ReportFrame(u, us[u].file[k])
         IN  f \in ClientFrames /\ Is(f, "SEND") /\ <<f, k>> \in FrameNumbers(us, u)
<1> DEFINE e == us[u].file[k]  f == ReportFrame(u, e)
<1>1. IsClientFrame(f)
  BY ReportIsClientFrame
<1>2. Is(f, "SEND") /\ f.body = reportBody(<<u>>, e)
  BY DEF ReportFrame, Frame, Is
<1>3. IsRead(EventOf[reportBody(<<u>>, e) \o <<NL>>], u, e)
  BY ReportMakesEvent
<1>4. k \in Nat
  <2>1. Len(us[u].file) \in Nat
    BY FileLength
  <2> QED
    BY <2>1
<1> HIDE DEF f
<1>5. f \in ClientFrames /\ f \in Frames
  BY <1>1, WritableFrame DEF ClientFrames, IsClientFrame, IsSendable
<1>6. <<f, k>> \in FrameNumbers(us, u)
  <2>1. <<f, k>> \in Frames \X Nat /\ <<f, k>>[1] = f /\ <<f, k>>[2] = k
    BY <1>4, <1>5
  <2>2. IsRead(EventOf[f.body \o <<NL>>], u, e)
    BY <1>2, <1>3
  <2> QED
    BY <2>1, <2>2 DEF FrameNumbers
<1> QED
  BY <1>2, <1>5, <1>6 DEF f

(* what a step does to the frames that u has sent *)
SentSame(u) == sent'[u] = sent[u] /\ reported'[u] = reported[u]
SentMore(u) ==
  \E f \in ClientFrames :
    /\ sent'[u] = Append(sent[u], f)
    /\ IF Is(f, "SEND")
       THEN /\ reported'[u] = reported[u] + 1
            /\ <<f, reported[u] + 1>> \in FrameNumbers(user, u)
       ELSE reported'[u] = reported[u]
SentRead(u) ==
  /\ ReadFrame(u) /\ sent[u] # <<>> /\ sent'[u] = Tail(sent[u]) /\ reported'[u] = reported[u]
  /\ thread'[u].frame = Head(sent[u])

LEMMA SentStep ==
  ASSUME IInv, [Next]_vars, NEW u \in Clients
  PROVE  \/ SentRead(u)
         \/ ~ReadFrame(u) /\ (SentSame(u) \/ SentMore(u))
<1>1. /\ sent \in [Clients -> Seq(ClientFrames)] /\ user \in Users
      /\ reported \in [Clients -> Nat] /\ \A c \in Clients : reported[c] <= Len(user[c].file)
  BY DEF IInv, Streams, ClientTypes
<1>2. CASE ReadFrame(u)
  <2>1. sent[u] # <<>> /\ thread'[u].frame = Head(sent[u])
    BY <1>2, ReadFrameStep
  <2>2. sent'[u] = Tail(sent[u]) /\ reported'[u] = reported[u]
    BY <1>1, <1>2, <2>1 DEF ReadFrame, Rest
  <2> QED
    BY <1>2, <2>1, <2>2 DEF SentRead
<1>3. CASE ~ReadFrame(u)
  <2>1. ASSUME NEW c \in Clients, c # u, Command(c) PROVE SentSame(u)
    BY <1>1, <2>1 DEF Command, Login, Join, Report, Logout, Leave, LinkLost, Send, SentSame
  <2>2. ASSUME NEW c \in Clients, c # u, ReadFrame(c) PROVE SentSame(u)
    BY <1>1, <2>2 DEF ReadFrame, SentSame
  <2>3. ASSUME NEW c \in Clients, Communicator(c) PROVE SentSame(u)
    BY <2>3 DEF Communicator, ReceiveFrame, LoseConnection, LinkLost, SentSame
  <2>4. ASSUME NEW c \in Clients, Proceed(c) PROVE SentSame(u)
    BY <2>4 DEF Proceed, Accept, EndRun, NextEntry, Write, Flush, FlushFails,
       MarkForTermination, Disconnect, ClientsSame, SentSame
  <2>5. ASSUME UNCHANGED vars PROVE SentSame(u)
    BY <2>5 DEF vars, SentSame
  <2>6. ASSUME NEW f \in {ConnectFrame(u), SubscribeFrame, DisconnectFrame}, Send(u, f),
               UNCHANGED reported
        PROVE  SentMore(u)
    <3>1. ~Is(f, "SEND")
      BY <2>6 DEF Is, Frame, ConnectFrame, SubscribeFrame, DisconnectFrame
    <3>2. IsClientFrame(f)
      BY <2>6, ClientFrameFacts
    <3>3. f \in ClientFrames
      BY <3>2, WritableFrame DEF ClientFrames, IsClientFrame, IsSendable
    <3>4. sent'[u] = Append(sent[u], f)
      BY <1>1, <2>6 DEF Send
    <3> QED
      BY <2>6, <3>1, <3>3, <3>4 DEF SentMore
  <2>7. ASSUME Report(u) PROVE SentMore(u)
    <3> DEFINE k == reported[u] + 1  f == ReportFrame(u, user[u].file[k])
    <3>1. Send(u, f) /\ reported[u] < Len(user[u].file) /\ reported' = [reported EXCEPT ![u] = k]
      BY <2>7 DEF Report
    <3>2. k \in 1..Len(user[u].file)
      <4>1. Len(user[u].file) \in Nat /\ reported[u] \in Nat
        BY <1>1, FileLength
      <4> QED
        BY <3>1, <4>1
    <3>3. f \in ClientFrames /\ Is(f, "SEND") /\ <<f, k>> \in FrameNumbers(user, u)
      BY <1>1, <3>2, ReportNumber
    <3> HIDE DEF f
    <3>4. sent'[u] = Append(sent[u], f) /\ reported'[u] = k
      BY <1>1, <3>1 DEF Send
    <3> QED
      BY <3>3, <3>4 DEF SentMore
  <2>8. ASSUME Command(u) PROVE SentSame(u) \/ SentMore(u)
    <3>1. ASSUME Leave(u) PROVE SentSame(u)
      BY <3>1 DEF Leave, LinkLost, SentSame
    <3>2. ASSUME Login(u) PROVE SentMore(u)
      BY <2>6, <3>2 DEF Login
    <3>3. ASSUME Join(u) PROVE SentMore(u)
      BY <2>6, <3>3 DEF Join
    <3>4. ASSUME Logout(u) PROVE SentMore(u)
      BY <2>6, <3>4 DEF Logout
    <3> QED
      BY <2>7, <2>8, <3>1, <3>2, <3>3, <3>4 DEF Command
  <2> QED
    BY <1>3, <2>1, <2>2, <2>3, <2>4, <2>5, <2>8 DEF Next, Handler
<1> QED
  BY <1>2, <1>3

LEMMA NextTurn ==
  ASSUME IInv, [Next]_vars, NEW u \in Clients, NEW n, Served(u, n)
  PROVE  \E m \in Nat : Turn(u, n, m) /\ Served(u, m)'
<1> DEFINE num == FrameNumbers(user, u)  r == reported[u]
<1>1. /\ sent[u] \in Seq(ClientFrames) /\ user' = user /\ sent'[u] \in Seq(ClientFrames)
      /\ thread'[u].frame \in Frames
  BY NextIInv, MoreReports DEF IInv, Streams, NeverFewer, AllThreads, Threads
<1>2. Chain(Sends, num, sent[u], n, r) /\ (Is(thread[u].frame, "SEND") => <<thread[u].frame, n>> \in num)
  BY DEF Served
<1>3. n \in Nat
  BY <1>1, <1>2, ChainGrows
<1>4. \A f \in ClientFrames : f \in Frames /\ (f \in Sends <=> Is(f, "SEND"))
  BY DEF ClientFrames, Sends
<1>5. CASE SentRead(u)
  <2> DEFINE f == Head(sent[u])
  <2>1. ReadFrame(u) /\ sent[u] # <<>> /\ sent'[u] = Tail(sent[u]) /\ reported'[u] = r
        /\ thread'[u].frame = f
    BY <1>5 DEF SentRead
  <2>2. f \in ClientFrames
    BY <1>1, <2>1, HeadTailProperties
  <2>3. /\ f \notin Sends => Chain(Sends, num, Tail(sent[u]), n, r)
        /\ f \in Sends => n + 1 \in Nat /\ <<f, n + 1>> \in num /\ Chain(Sends, num, Tail(sent[u]), n + 1, r)
    BY <1>1, <1>2, <2>1, ChainTail
  <2> HIDE DEF f, num, r
  <2>4. CASE Is(f, "SEND")
    <3>1. Turn(u, n, n + 1) /\ n + 1 \in Nat
      BY <1>3, <2>1, <2>4 DEF Turn
    <3>2. Chain(Sends, num, sent'[u], n + 1, reported'[u]) /\ <<thread'[u].frame, n + 1>> \in num
      BY <1>4, <2>1, <2>2, <2>3, <2>4
    <3>3. Served(u, n + 1)'
      BY <1>1, <3>2 DEF Served, num
    <3> QED
      BY <3>1, <3>3
  <2>5. CASE ~Is(f, "SEND")
    <3>1. Turn(u, n, n)
      BY <2>1, <2>5 DEF Turn
    <3>2. Chain(Sends, num, sent'[u], n, reported'[u]) /\ ~Is(thread'[u].frame, "SEND")
      BY <1>4, <2>1, <2>2, <2>3, <2>5
    <3>3. Served(u, n)'
      BY <1>1, <3>2 DEF Served, num
    <3> QED
      BY <1>3, <3>1, <3>3
  <2> QED
    BY <2>4, <2>5
<1>6. CASE ~ReadFrame(u) /\ (SentSame(u) \/ SentMore(u))
  <2>1. Turn(u, n, n) /\ thread'[u].frame = thread[u].frame
    BY <1>6, NextFrame DEF Turn
  <2>2. Chain(Sends, num, sent'[u], n, reported'[u])
    <3>1. CASE SentSame(u)
      BY <1>2, <3>1 DEF SentSame
    <3>2. CASE SentMore(u)
      <4>1. PICK f \in ClientFrames :
              /\ sent'[u] = Append(sent[u], f)
              /\ IF Is(f, "SEND") THEN reported'[u] = r + 1 /\ <<f, r + 1>> \in num
                                  ELSE reported'[u] = r
        BY <3>2 DEF SentMore
      <4> HIDE DEF num, r
      <4>2. /\ f \notin Sends => Chain(Sends, num, Append(sent[u], f), n, r)
            /\ f \in Sends /\ <<f, r + 1>> \in num => Chain(Sends, num, Append(sent[u], f), n, r + 1)
        BY <1>1, <1>2, ChainMore
      <4> QED
        BY <1>4, <4>1, <4>2
    <3> QED
      BY <1>6, <3>1, <3>2
  <2>3. Served(u, n)'
    BY <1>1, <1>2, <2>1, <2>2 DEF Served
  <2> QED
    BY <1>3, <2>1, <2>3
<1> QED
  BY <1>5, <1>6, SentStep

-----------------------------------------------------------------------------
(* What is kept by c and what is on its way to c *)

Untouched(c, u) == None(Messages(u), written[c]) /\ None(EventsBy(u), eventSummary[c])

(* The reports of u up to number b have been written to c, or never will be. *)
Delivered(c, u, b) ==
  \E s, a : /\ Chain(EventsBy(u), EventNumbers(user, u), eventSummary[c], s, a)
            /\ Chain(Messages(u), FrameNumbers(user, u), written[c], a, b)

(* u is about to write a report to c *)
Posted(c, u) ==
  Write(u) /\ thread[u].msg = "MESSAGE" /\ thread[u].to = c /\ connected[thread[u].to]

(* what a step does to the frames written to c and the events it has *)
WaySame(c) == written'[c] = written[c] /\ eventSummary'[c] = eventSummary[c]
WayRead(c) ==
  /\ written[c] # <<>> /\ written'[c] = Tail(written[c])
  /\ \/ /\ ~Is(Head(written[c]), "MESSAGE")
        /\ eventSummary'[c] = eventSummary[c]
     \/ \E v \in Events : /\ Is(Head(written[c]), "MESSAGE")
                          /\ v = EventOf[Head(written[c]).body \o <<NL>>]
                          /\ eventSummary'[c] = Append(eventSummary[c], v)
WayMore(c, w) ==
  /\ Write(w) /\ thread[w].pc = "write" /\ thread[w].to = c /\ connected[c]
  /\ \E f \in ServerFrames :
       /\ f = Answer(thread[w].msg, thread[w].frame)
       /\ written'[c] = Append(written[c], f) /\ eventSummary'[c] = eventSummary[c]

LEMMA WayReceived ==
  ASSUME IInv, EventsKept, NEW c \in Clients, ReceiveFrame(c)
  PROVE  WayRead(c)
<1> DEFINE h == Head(written[c])
<1>1. /\ written[c] # <<>> /\ IsServerFrame(h)
      /\ handled'[c] = [h EXCEPT !.body = BodyRead(h)] /\ handled \in [Clients -> Frames]
      /\ written \in [Clients -> Seq(ServerFrames)]
  BY ReceiveFacts DEF IInv, ClientTypes, Streams
<1>2. PICK f \in {parseFrame[getFrameAscii(toClient[c])]} :
        /\ handled' = [handled EXCEPT ![c] = f]
        /\ eventSummary' = [eventSummary EXCEPT ![c] =
             IF Is(f, "MESSAGE") THEN Append(@, EventOf[f.body]) ELSE @]
  BY DEF ReceiveFrame
<1>3. f = [h EXCEPT !.body = BodyRead(h)]
  BY <1>1, <1>2
<1>4. h \in Frames
  BY <1>1, WritableFrame DEF IsServerFrame
<1>5. written'[c] = Tail(written[c])
  BY <1>1 DEF ReceiveFrame, Rest
<1> HIDE DEF h
<1>6. f.command = h.command /\ f.body = BodyRead(h)
  BY <1>3, <1>4 DEF Frames
<1>7. CASE Is(f, "MESSAGE")
  <2>1. IsReportBody(h.body) /\ Is(h, "MESSAGE")
    BY <1>1, <1>6, <1>7 DEF IsServerFrame, Is
  <2>2. IsClean(h.body) /\ h.body # <<>> /\ EventOf[h.body \o <<NL>>] \in Events
    <3>1. PICK us \in Users, u \in Clients : \E k \in 1..Len(us[u].file) :
            h.body = reportBody(<<u>>, us[u].file[k])
      BY <2>1 DEF IsReportBody
    <3>2. PICK k \in 1..Len(us[u].file) : h.body = reportBody(<<u>>, us[u].file[k])
      BY <3>1
    <3> QED
      BY <3>2, ReportMakesEvent
  <2>3. BodyLine(h) = h.body \o <<NL>> /\ ~Has(BodyLine(h), NUL)
    BY <2>2, BodyLineText DEF BodyLine, IsClean
  <2>4. EventOf[f.body] = EventOf[h.body \o <<NL>>]
    BY <1>6, <2>2, <2>3 DEF BodyRead
  <2>5. eventSummary'[c] = Append(eventSummary[c], EventOf[f.body])
    BY <1>2, <1>7 DEF EventsKept
  <2> QED
    BY <1>1, <1>5, <2>1, <2>2, <2>4, <2>5 DEF WayRead, h
<1>8. CASE ~Is(f, "MESSAGE")
  <2>1. ~Is(h, "MESSAGE")
    BY <1>6, <1>8 DEF Is
  <2>2. eventSummary'[c] = eventSummary[c]
    BY <1>2, <1>8 DEF EventsKept
  <2> QED
    BY <1>1, <1>5, <2>1, <2>2 DEF WayRead, h
<1> QED
  BY <1>7, <1>8

LEMMA WayStep ==
  ASSUME IInv, EventsKept, [Next]_vars, NEW c \in Clients
  PROVE  \/ WaySame(c) \/ WayRead(c)
         \/ \E w \in Clients : WayMore(c, w)
<1>1. /\ written \in [Clients -> Seq(ServerFrames)] /\ AllThreads(thread)
      /\ eventSummary \in [Clients -> Seq(Events)]
  BY DEF IInv, Streams, EventsKept
<1>2. ASSUME NEW w \in Clients, ReceiveFrame(w) PROVE WaySame(c) \/ WayRead(c)
  <2>1. CASE w = c
    BY <1>2, <2>1, WayReceived
  <2>2. CASE w # c
    <3>1. written'[c] = written[c]
      BY <1>1, <1>2, <2>2 DEF ReceiveFrame
    <3>2. eventSummary'[c] = eventSummary[c]
      BY <1>1, <1>2, <2>2 DEF ReceiveFrame
    <3> QED
      BY <3>1, <3>2 DEF WaySame
  <2> QED
    BY <2>1, <2>2
<1>3. ASSUME NEW w \in Clients, Write(w) PROVE WaySame(c) \/ WayMore(c, w)
  <2> DEFINE to == thread[w].to  g == thread[w].frame  msg == thread[w].msg  f == Answer(msg, g)
  <2>1. /\ At(w, "write") /\ eventSummary' = eventSummary
        /\ \/ UNCHANGED written
           \/ written' = [written EXCEPT ![to] = Append(@, f)] /\ connected[to]
    BY <1>3 DEF Write, ClientsSame, clientVars
  <2>2. IsClientFrame(g) /\ MayAnswer(msg, g) /\ to \in Clients
    BY <1>1, <2>1 DEF AllThreads, ThreadOK, At
  <2>3. IsServerFrame(f)
    BY <2>2, AnswerIsServerFrame
  <2>4. f \in ServerFrames
    <3> HIDE DEF f
    <3> QED
      BY <2>3, WritableFrame DEF ServerFrames, IsServerFrame
  <2> HIDE DEF f, to
  <2>5. CASE UNCHANGED written \/ to # c
    BY <1>1, <2>1, <2>2, <2>5 DEF WaySame
  <2>6. CASE written' = [written EXCEPT ![to] = Append(@, f)] /\ connected[to] /\ to = c
    <3>1. written'[c] = Append(written[c], f) /\ eventSummary'[c] = eventSummary[c]
      BY <1>1, <2>1, <2>6
    <3> QED
      BY <1>3, <2>1, <2>4, <2>6, <3>1 DEF WayMore, At, f, to
  <2> QED
    BY <2>1, <2>5, <2>6
<1>4. ASSUME NEW w \in Clients, Command(w) \/ LoseConnection(w) PROVE WaySame(c)
  BY <1>4 DEF Command, Login, Join, Report, Logout, Leave, LinkLost, Send, LoseConnection, WaySame
<1>5. ASSUME NEW w \in Clients, Handler(w), ~Write(w) PROVE WaySame(c)
  BY <1>5 DEF Handler, Proceed, ReadFrame, Accept, EndRun, NextEntry, Flush, FlushFails,
     MarkForTermination, Disconnect, ClientsSame, clientVars, WaySame
<1>6. CASE UNCHANGED vars
  BY <1>6 DEF vars, clientVars, WaySame
<1> QED
  BY <1>2, <1>3, <1>4, <1>5, <1>6 DEF Next, Communicator

(* The messages with reports of u are those that the thread of u writes. *)
LEMMA MessageOf ==
  ASSUME IInv, NEW u \in Clients, NEW w \in Clients, NEW k, Served(w, k), thread[w].pc = "write",
         NEW f \in ServerFrames, f = Answer(thread[w].msg, thread[w].frame)
  PROVE  /\ f \in Messages(u) =>
              w = u /\ thread[w].msg = "MESSAGE" /\ <<f, k>> \in FrameNumbers(user, u)
         /\ w = u /\ thread[w].msg = "MESSAGE" => f \in Messages(u)
<1> DEFINE g == thread[w].frame  msg == thread[w].msg  e == EventOf[g.body \o <<NL>>]
<1>1. IsClientFrame(g) /\ MayAnswer(msg, g)
  BY DEF IInv, AllThreads, ThreadOK
<1>2. msg # "MESSAGE" => ~Is(f, "MESSAGE")
  BY <1>1 DEF MayAnswer, Answer, Frame, Is
<1>3. CASE msg = "MESSAGE"
  <2>1. f.body = g.body /\ Is(g, "SEND") /\ Is(f, "MESSAGE") /\ f \in Frames
    BY <1>1, <1>3 DEF MayAnswer, Answer, Frame, Is, ServerFrames
  <2>2. <<g, k>> \in FrameNumbers(user, w)
    BY <2>1 DEF Served
  <2>3. /\ <<g, k>> \in Frames \X Nat /\ <<g, k>>[2] \in 1..Len(user[w].file)
        /\ IsRead(EventOf[<<g, k>>[1].body \o <<NL>>], w, user[w].file[<<g, k>>[2]])
    BY <2>2 DEF FrameNumbers
  <2>4. k \in Nat /\ k \in 1..Len(user[w].file) /\ IsRead(e, w, user[w].file[k])
    BY <2>3
  <2>5. EventOf[f.body \o <<NL>>] = e
    BY <2>1
  <2>6. e.user = <<w>>
    BY <2>4 DEF IsRead
  <2> HIDE DEF e, g, msg
  <2>7. f \in Messages(u) <=> <<w>> = <<u>>
    BY <2>1, <2>5, <2>6 DEF Messages
  <2>8. <<w>> = <<u>> <=> w = u
    BY Tuples
  <2>9. <<f, k>> \in FrameNumbers(user, w)
    <3>1. <<f, k>> \in Frames \X Nat /\ <<f, k>>[1] = f /\ <<f, k>>[2] = k
      BY <2>1, <2>4
    <3> QED
      BY <2>4, <2>5, <3>1 DEF FrameNumbers
  <2> QED
    BY <1>3, <2>7, <2>8, <2>9 DEF msg
<1>4. CASE msg # "MESSAGE"
  BY <1>2, <1>4 DEF Messages
<1> QED
  BY <1>3, <1>4

(* the event a client makes of a message *)
LEMMA EventNumber ==
  ASSUME NEW us, NEW u \in Clients, NEW h \in Frames, NEW v \in Events,
         v = EventOf[h.body \o <<NL>>], Is(h, "MESSAGE")
  PROVE  /\ h \in Messages(u) <=> v \in EventsBy(u)
         /\ \A k \in Nat : <<h, k>> \in FrameNumbers(us, u) => <<v, k>> \in EventNumbers(us, u)
<1>1. h \in Messages(u) <=> v \in EventsBy(u)
  BY DEF Messages, EventsBy
<1>2. ASSUME NEW k \in Nat, <<h, k>> \in FrameNumbers(us, u)
      PROVE  <<v, k>> \in EventNumbers(us, u)
  <2>1. /\ <<h, k>>[2] \in 1..Len(us[u].file)
        /\ IsRead(EventOf[<<h, k>>[1].body \o <<NL>>], u, us[u].file[<<h, k>>[2]])
    BY <1>2 DEF FrameNumbers
  <2>2. k \in 1..Len(us[u].file) /\ IsRead(v, u, us[u].file[k])
    BY <2>1
  <2>3. <<v, k>> \in Events \X Nat /\ <<v, k>>[1] = v /\ <<v, k>>[2] = k
    OBVIOUS
  <2> QED
    BY <2>2, <2>3 DEF EventNumbers
<1> QED
  BY <1>1, <1>2

(* Reading what was written leaves the numbers as they are. *)
LEMMA StillDelivered ==
  ASSUME IInv, EventsKept, [Next]_vars, NEW c \in Clients, NEW u \in Clients,
         WaySame(c) \/ WayRead(c)
  PROVE  /\ Untouched(c, u) => Untouched(c, u)'
         /\ \A b : Delivered(c, u, b) => Delivered(c, u, b)'
<1> DEFINE M == Messages(u)  E == EventsBy(u)  fn == FrameNumbers(user, u)
           en == EventNumbers(user, u)
<1>1. user' = user /\ written[c] \in Seq(ServerFrames) /\ eventSummary[c] \in Seq(Events)
  BY MoreReports DEF NeverFewer, IInv, Streams, EventsKept
<1>2. CASE WaySame(c)
  BY <1>1, <1>2 DEF WaySame, Untouched, Delivered
<1>3. CASE WayRead(c)
  <2> DEFINE h == Head(written[c])
  <2>1. written[c] # <<>> /\ written'[c] = Tail(written[c]) /\ h \in ServerFrames
    BY <1>1, <1>3, HeadTailProperties DEF WayRead
  <2>2. h \in Frames
    BY <2>1 DEF ServerFrames
  <2>3. CASE ~Is(h, "MESSAGE") /\ eventSummary'[c] = eventSummary[c]
    <3>1. h \notin M
      BY <2>3 DEF Messages
    <3> HIDE DEF h, M, E, fn, en
    <3>2. ASSUME None(M, written[c]) PROVE None(M, written'[c])
      BY <1>1, <2>1, <3>2, NoneTail DEF h
    <3>3. ASSUME NEW a, NEW b, Chain(M, fn, written[c], a, b) PROVE Chain(M, fn, written'[c], a, b)
      BY <1>1, <2>1, <3>1, <3>3, ChainTail DEF h
    <3> QED
      BY <1>1, <2>3, <3>2, <3>3 DEF Untouched, Delivered, M, E, fn, en
  <2>4. ASSUME NEW v \in Events, Is(h, "MESSAGE"), v = EventOf[h.body \o <<NL>>],
               eventSummary'[c] = Append(eventSummary[c], v)
        PROVE  /\ Untouched(c, u) => Untouched(c, u)'
               /\ \A b : Delivered(c, u, b) => Delivered(c, u, b)'
    <3>1. /\ h \in M <=> v \in E
          /\ \A k \in Nat : <<h, k>> \in fn => <<v, k>> \in en
      BY <2>2, <2>4, EventNumber
    <3> HIDE DEF h, M, E, fn, en
    <3>2. ASSUME None(M, written[c]), None(E, eventSummary[c])
          PROVE  None(M, written'[c]) /\ None(E, eventSummary'[c])
      <4>1. None(M, Tail(written[c])) /\ h \notin M
        BY <1>1, <2>1, <3>2, NoneTail DEF h
      <4>2. None(E, Append(eventSummary[c], v))
        BY <1>1, <3>1, <3>2, <4>1, NoneMore
      <4> QED
        BY <2>1, <2>4, <4>1, <4>2
    <3>3. ASSUME NEW s, NEW a, NEW b, Chain(E, en, eventSummary[c], s, a), Chain(M, fn, written[c], a, b)
          PROVE  \E d : Chain(E, en, eventSummary'[c], s, d) /\ Chain(M, fn, written'[c], d, b)
      <4>1. /\ h \notin M => Chain(M, fn, Tail(written[c]), a, b)
            /\ h \in M => a + 1 \in Nat /\ <<h, a + 1>> \in fn /\ Chain(M, fn, Tail(written[c]), a + 1, b)
        BY <1>1, <2>1, <3>3, ChainTail DEF h
      <4>2. /\ v \notin E => Chain(E, en, Append(eventSummary[c], v), s, a)
            /\ v \in E /\ <<v, a + 1>> \in en => Chain(E, en, Append(eventSummary[c], v), s, a + 1)
        BY <1>1, <3>3, ChainMore
      <4> QED
        BY <2>1, <2>4, <3>1, <4>1, <4>2
    <3> QED
      BY <1>1, <3>2, <3>3 DEF Untouched, Delivered, M, E, fn, en
  <2> QED
    BY <1>3, <2>3, <2>4 DEF WayRead
<1> QED
  BY <1>2, <1>3

(* What other threads write, or this one to others, is no report of u to c. *)
LEMMA OthersWrite ==
  ASSUME IInv, EventsKept, [Next]_vars, NEW c \in Clients, NEW u \in Clients, ~Posted(c, u),
         \A w \in Clients : \E k : Served(w, k)
  PROVE  /\ Untouched(c, u) => Untouched(c, u)'
         /\ \A b : Delivered(c, u, b) => Delivered(c, u, b)'
<1> DEFINE M == Messages(u)  E == EventsBy(u)  fn == FrameNumbers(user, u)
           en == EventNumbers(user, u)
<1>1. user' = user /\ written[c] \in Seq(ServerFrames)
  BY MoreReports DEF NeverFewer, IInv, Streams
<1>2. ASSUME NEW w \in Clients, WayMore(c, w)
      PROVE  /\ Untouched(c, u) => Untouched(c, u)'
             /\ \A b : Delivered(c, u, b) => Delivered(c, u, b)'
  <2>1. /\ Write(w) /\ thread[w].pc = "write" /\ thread[w].to = c /\ connected[c]
        /\ eventSummary'[c] = eventSummary[c]
    BY <1>2 DEF WayMore
  <2>2. PICK f \in ServerFrames : /\ f = Answer(thread[w].msg, thread[w].frame)
                                  /\ written'[c] = Append(written[c], f)
    BY <1>2 DEF WayMore
  <2>3. PICK k : Served(w, k)
    OBVIOUS
  <2>4. f \notin M
    <3>1. thread[w].pc = "write" /\ f = Answer(thread[w].msg, thread[w].frame)
      BY <2>1, <2>2
    <3>2. /\ f \in Messages(u) =>
               w = u /\ thread[w].msg = "MESSAGE" /\ <<f, k>> \in FrameNumbers(user, u)
          /\ w = u /\ thread[w].msg = "MESSAGE" => f \in Messages(u)
      BY <2>3, <3>1, MessageOf
    <3> QED
      BY <2>1, <3>2 DEF Posted
  <2> HIDE DEF M, E, fn, en
  <2>5. None(M, written[c]) => None(M, written'[c])
    BY <1>1, <2>2, <2>4, NoneMore
  <2>6. \A a, b : Chain(M, fn, written[c], a, b) => Chain(M, fn, written'[c], a, b)
    BY <1>1, <2>2, <2>4, ChainMore
  <2> QED
    BY <1>1, <2>1, <2>5, <2>6 DEF Untouched, Delivered, M, E, fn, en
<1> QED
  BY <1>2, StillDelivered, WayStep

(* Writing report n of u to c: the first of u, or the one after the last. *)
LEMMA PostedNext ==
  ASSUME IInv, EventsKept, [Next]_vars, NEW c \in Clients, NEW u \in Clients, Posted(c, u),
         NEW n, Served(u, n), Untouched(c, u) \/ \E b : b + 1 = n /\ Delivered(c, u, b)
  PROVE  Delivered(c, u, n)'
<1> DEFINE M == Messages(u)  E == EventsBy(u)  fn == FrameNumbers(user, u)
           en == EventNumbers(user, u)  f == Answer(thread[u].msg, thread[u].frame)
<1>1. /\ user' = user /\ written \in [Clients -> Seq(ServerFrames)] /\ AllThreads(thread)
      /\ eventSummary[c] \in Seq(Events) /\ sent[u] \in Seq(ClientFrames)
  BY MoreReports DEF NeverFewer, IInv, Streams, EventsKept
<1>2. /\ At(u, "write") /\ eventSummary' = eventSummary
      /\ written' = [written EXCEPT ![c] = Append(@, f)]
  BY DEF Posted, Write, ClientsSame, clientVars
<1>3. written'[c] = Append(written[c], f)
  BY <1>1, <1>2
<1>4. IsServerFrame(f)
  BY <1>1, <1>2, AnswerIsServerFrame DEF AllThreads, ThreadOK, At
<1>5. f \in ServerFrames
  <2> HIDE DEF f
  <2> QED
    BY <1>4, WritableFrame DEF ServerFrames, IsServerFrame
<1>6. thread[u].msg = "MESSAGE" /\ thread[u].pc = "write"
  BY <1>2 DEF Posted, At
<1>7. f \in M /\ <<f, n>> \in fn
  BY <1>5, <1>6, MessageOf
<1>8. n \in Nat \ {0}
  <2>1. n \in Nat /\ <<f, n>>[2] \in 1..Len(user[u].file)
    BY <1>7 DEF FrameNumbers
  <2>2. n \in 1..Len(user[u].file) /\ Len(user[u].file) \in Nat
    BY <2>1, FileLength DEF IInv, ClientTypes
  <2> QED
    BY <2>1, <2>2
<1>9. \E b, s, a : /\ b + 1 = n /\ Chain(E, en, eventSummary[c], s, a)
                   /\ Chain(M, fn, written[c], a, b)
  <2>1. CASE Untouched(c, u)
    <3> DEFINE b == n - 1
    <3>1. b \in Nat /\ b + 1 = n
      BY <1>8
    <3>2. None(M, written[c]) /\ None(E, eventSummary[c])
      BY <2>1 DEF Untouched
    <3> HIDE DEF b, M, E, fn, en
    <3>3. Chain(E, en, eventSummary[c], b, b) /\ Chain(M, fn, written[c], b, b)
      BY <1>1, <3>1, <3>2, ChainOfNone
    <3> QED
      BY <3>1, <3>3
  <2>2. CASE \E b : b + 1 = n /\ Delivered(c, u, b)
    BY <2>2 DEF Delivered
  <2> QED
    BY <2>1, <2>2
<1> HIDE DEF f, M, E, fn, en
<1>10. PICK b, s, a : /\ b + 1 = n /\ Chain(E, en, eventSummary[c], s, a)
                      /\ Chain(M, fn, written[c], a, b)
  BY <1>9
<1>11. Chain(M, fn, written'[c], a, n)
  BY <1>1, <1>3, <1>5, <1>7, <1>10, ChainMore
<1>12. Chain(E, en, eventSummary'[c], s, a)
  BY <1>2, <1>10
<1> QED
  BY <1>1, <1>11, <1>12 DEF Delivered, M, E, fn, en

-----------------------------------------------------------------------------
(* Where the loop of u over the entries stands *)

(* c is still to get the report that u forwards. *)
Awaits(c, u) ==
  /\ Forwarding(u)
  /\ \/ thread[u].pc = "write" /\ thread[u].to = c
     \/ c \in subscribers /\ c \notin thread[u].visited

(* b is the last report of u that c got, n the last the server has read. *)
Position(c, u, b, n) ==
  /\ c \in subscribers \/ Over(c)
  /\ protocol[u].subscribed \/ protocol[u].shouldTerminate
  /\ Awaits(c, u) => b + 1 = n
  /\ ~Awaits(c, u) => b = n \/ Over(c)

LEMMA LocatedStays ==
  ASSUME IInv, Presence, [Next]_vars, NEW c \in Clients, c \in subscribers \/ Over(c)
  PROVE  /\ c \in subscribers' \/ Over(c)'
         /\ c \in subscribers' => c \in subscribers
         /\ Over(c) => Over(c)'
         /\ c \in subscribers => c \in activeConnections /\ connected[c]
BY StaysOver DEF Presence, Present

LEMMA StillAwaits ==
  ASSUME IInv, Presence, [Next]_vars, NEW c \in Clients, NEW u \in Clients, ~ReadFrame(u),
         c \in subscribers \/ Over(c)
  PROVE  /\ Awaits(c, u)' => Awaits(c, u)
         /\ Awaits(c, u) => Awaits(c, u)' \/ Over(c)' \/ Posted(c, u)
<1>1. /\ c \in subscribers' \/ Over(c)'
      /\ c \in subscribers' => c \in subscribers
      /\ Over(c) => Over(c)'
      /\ c \in subscribers => c \in activeConnections /\ connected[c]
  BY LocatedStays
<1>2. /\ Forwarding(u)' <=> \/ thread'[u].pc = "nextEntry"
                            \/ thread'[u].pc \in {"write", "flush"} /\ thread'[u].msg = "MESSAGE"
      /\ Awaits(c, u)' <=> /\ Forwarding(u)'
                           /\ \/ thread'[u].pc = "write" /\ thread'[u].to = c
                              \/ c \in subscribers' /\ c \notin thread'[u].visited
  BY DEF Forwarding, Awaits
<1>3. CASE thread'[u] = thread[u]
  BY <1>1, <1>2, <1>3 DEF Awaits, Forwarding
<1>4. CASE Registers(u) \/ Rests(u)
  BY <1>2, <1>4 DEF Registers, Rests, Awaits, Forwarding
<1>5. CASE Finds(u)
  BY <1>1, <1>2, <1>5 DEF Finds, Awaits, Forwarding
<1>6. CASE Finishes(u)
  BY <1>2, <1>6 DEF Finishes, Awaits, Forwarding
<1>7. CASE Writes(u)
  BY <1>1, <1>2, <1>7 DEF Writes, SameWork, Posted, Awaits, Forwarding
<1>8. CASE Returns(u)
  <2>1. /\ thread[u].pc \in {"write", "flush"} /\ SameWork(u)
        /\ thread'[u].pc = AfterSend(thread[u].frame, thread[u].msg)
        /\ thread[u].pc = "write" => ~connected[thread[u].to]
    BY <1>8 DEF Returns
  <2>2. /\ thread'[u].pc \in {"nextEntry", "terminate", "disconnect", "run"}
        /\ thread'[u].pc = "nextEntry" => thread[u].msg = "MESSAGE"
    BY <2>1, AfterSendIs
  <2>3. thread[u].msg = "MESSAGE" => thread'[u].pc = "nextEntry"
    <3>1. thread[u].msg = "MESSAGE" => ~Is(thread[u].frame, "DISCONNECT")
      BY <2>1 DEF IInv, AllThreads, ThreadOK, MayAnswer, Is
    <3> QED
      BY <2>1, <3>1, AfterSendIs
  <2> QED
    BY <1>1, <1>2, <2>1, <2>2, <2>3 DEF SameWork, Awaits, Forwarding
<1>9. ~Begins(u) /\ ~Answers(u)
  BY DEF Begins, Answers
<1> QED
  BY <1>3, <1>4, <1>5, <1>6, <1>7, <1>8, <1>9, Others DEF OwnStep

(* c got none of the reports of u, or those up to where the loop of u stands. *)
Reaches(c, u, n) ==
  \/ Untouched(c, u)
  \/ \E b \in Nat : b <= n /\ Delivered(c, u, b) /\ Position(c, u, b, n)

LEMMA PositionPosted ==
  ASSUME IInv, Presence, [Next]_vars, NEW c \in Clients, NEW u \in Clients, Posted(c, u), NEW n
  PROVE  /\ ~ReadFrame(u) /\ Position(c, u, n, n)'
         /\ \A b : Position(c, u, b, n) => b + 1 = n
<1>1. /\ Write(u) /\ thread[u].pc = "write" /\ thread[u].msg = "MESSAGE" /\ thread[u].to = c
      /\ thread \in [Clients -> Threads] /\ protocol' = protocol /\ Goto(u, "flush")
  BY DEF Posted, Write, At, IInv, AllThreads
<1>2. thread'[u].pc = "flush" /\ SameWork(u)
  BY <1>1, GotoFields
<1>3. Forwarding(u) /\ Awaits(c, u)
  BY <1>1 DEF Forwarding, Awaits
<1>4. c \in thread[u].visited /\ (c \in subscribers \/ Over(c)) /\ protocol[u].subscribed
  BY <1>1, <1>3 DEF Presence, Addressed, MayForward
<1>5. c \in subscribers' \/ Over(c)'
  BY <1>4, LocatedStays
<1>6. ~Awaits(c, u)'
  BY <1>2, <1>4 DEF SameWork, Awaits
<1>7. Position(c, u, n, n)'
  BY <1>1, <1>4, <1>5, <1>6 DEF Position
<1>8. ~ReadFrame(u)
  BY <1>1 DEF ReadFrame, ReadBytes, At
<1> QED
  BY <1>3, <1>7, <1>8 DEF Position

LEMMA PositionRead ==
  ASSUME IInv, Presence, [Next]_vars, NEW c \in Clients, NEW u \in Clients, ReadFrame(u),
         NEW n \in Nat, NEW m \in Nat, Turn(u, n, m), NEW b \in Nat, b <= n, Position(c, u, b, n)
  PROVE  b <= m /\ Position(c, u, b, m)'
<1>1. Begins(u) \/ Answers(u)
  BY Serves
<1>2. /\ c \in subscribers' \/ Over(c)'
      /\ c \in subscribers' => c \in subscribers
      /\ Over(c) => Over(c)'
  BY LocatedStays DEF Position
<1>3. thread[u].pc = "run" /\ ~protocol[u].shouldTerminate
  BY DEF ReadFrame, ReadBytes, At, Runs
<1>4. ~Awaits(c, u) /\ (b = n \/ Over(c)) /\ protocol[u].subscribed
  BY <1>3 DEF Awaits, Forwarding, Position
<1>5. CASE Begins(u)
  <2>1. /\ thread'[u].pc = "nextEntry" /\ thread'[u].visited = {} /\ Is(thread'[u].frame, "SEND")
        /\ protocol' = protocol /\ subscribers' = subscribers
    BY <1>5 DEF Begins
  <2>2. m = n + 1
    BY <2>1 DEF Turn
  <2>3. Awaits(c, u)' <=> c \in subscribers
    BY <2>1 DEF Awaits, Forwarding
  <2>4. c \in subscribers => b = n
    BY <1>4 DEF Over
  <2>5. c \notin subscribers => Over(c)'
    BY <1>2, <2>1
  <2> QED
    BY <1>2, <1>4, <2>1, <2>2, <2>3, <2>4, <2>5 DEF Position
<1>6. CASE Answers(u)
  <2>1. /\ thread'[u].pc \in {"write", "run", "terminate", "disconnect"}
        /\ thread'[u].msg \in {"CONNECTED", "RECEIPT", "ERROR"}
        /\ ~Is(thread'[u].frame, "SEND")
        /\ protocol'[u].subscribed \/ protocol'[u].shouldTerminate
    BY <1>4, <1>6 DEF Answers
  <2>2. m = n
    BY <2>1 DEF Turn
  <2>3. ~Awaits(c, u)'
    BY <2>1 DEF Awaits, Forwarding
  <2> QED
    BY <1>2, <1>4, <2>1, <2>2, <2>3 DEF Position
<1> QED
  BY <1>1, <1>5, <1>6

LEMMA PositionStays ==
  ASSUME IInv, Presence, [Next]_vars, NEW c \in Clients, NEW u \in Clients, ~ReadFrame(u),
         ~Posted(c, u), NEW n \in Nat, NEW b \in Nat, Position(c, u, b, n)
  PROVE  Position(c, u, b, n)'
<1>1. c \in subscribers' \/ Over(c)'
  BY LocatedStays DEF Position
<1>2. Over(c) => Over(c)'
  BY LocatedStays DEF Position
<1>3. /\ Awaits(c, u)' => Awaits(c, u)
      /\ Awaits(c, u) => Awaits(c, u)' \/ Over(c)'
  BY StillAwaits DEF Position
<1>4. protocol'[u].subscribed \/ protocol'[u].shouldTerminate
  <2>1. protocol[u].shouldTerminate => protocol'[u].shouldTerminate
    BY StaysOver DEF Tables
  <2>2. ~Begins(u) /\ ~Answers(u)
    BY DEF Begins, Answers
  <2>3. protocol'[u].subscribed = protocol[u].subscribed
    BY <2>2, Others DEF OwnStep, Registers, Rests, Finds, Finishes, Writes, Returns
  <2> QED
    BY <2>1, <2>3 DEF Position
<1> QED
  BY <1>1, <1>2, <1>3, <1>4 DEF Position

LEMMA NextReaches ==
  ASSUME IInv, EventsKept, Presence, [Next]_vars, NEW c \in Clients, NEW u \in Clients,
         NEW n \in Nat, NEW m \in Nat, Served(u, n), Turn(u, n, m), Reaches(c, u, n),
         \A w \in Clients : \E k : Served(w, k)
  PROVE  Reaches(c, u, m)'
<1>1. ~ReadFrame(u) => m = n
  BY DEF Turn
<1>2. CASE Posted(c, u)
  <2>1. /\ ~ReadFrame(u) /\ Position(c, u, n, n)'
        /\ \A b : Position(c, u, b, n) => b + 1 = n
    BY <1>2, PositionPosted
  <2>2. Untouched(c, u) \/ \E b : b + 1 = n /\ Delivered(c, u, b)
    BY <2>1 DEF Reaches
  <2>3. Delivered(c, u, n)'
    BY <1>2, <2>2, PostedNext
  <2>4. n <= n
    OBVIOUS
  <2> QED
    BY <1>1, <2>1, <2>3, <2>4 DEF Reaches
<1>3. CASE ~Posted(c, u)
  <2>1. /\ Untouched(c, u) => Untouched(c, u)'
        /\ \A b : Delivered(c, u, b) => Delivered(c, u, b)'
    BY <1>3, OthersWrite
  <2>2. ASSUME NEW b \in Nat, b <= n, Delivered(c, u, b), Position(c, u, b, n)
        PROVE  b <= m /\ Position(c, u, b, m)'
    <3>1. CASE ReadFrame(u)
      BY <2>2, <3>1, PositionRead
    <3>2. CASE ~ReadFrame(u)
      BY <1>1, <1>3, <2>2, <3>2, PositionStays
    <3> QED
      BY <3>1, <3>2
  <2> QED
    BY <2>1, <2>2 DEF Reaches
<1> QED
  BY <1>2, <1>3

InOrder ==
  \A u \in Clients : \E n \in Nat : Served(u, n) /\ \A c \in Clients : Reaches(c, u, n)

LEMMA NextInOrder ==
  ASSUME IInv, EventsKept, Presence, InOrder, [Next]_vars
  PROVE  InOrder'
<1> SUFFICES ASSUME NEW u \in Clients
             PROVE  \E m \in Nat : Served(u, m)' /\ \A c \in Clients : Reaches(c, u, m)'
  BY DEF InOrder
<1>1. PICK n \in Nat : Served(u, n) /\ \A c \in Clients : Reaches(c, u, n)
  BY DEF InOrder
<1>2. PICK m \in Nat : Turn(u, n, m) /\ Served(u, m)'
  BY <1>1, NextTurn
<1>3. \A w \in Clients : \E k : Served(w, k)
  BY DEF InOrder
<1>4. ASSUME NEW c \in Clients PROVE Reaches(c, u, m)'
  BY <1>1, <1>2, <1>3, NextReaches
<1> QED
  BY <1>2, <1>4

LEMMA InitInOrder ==
  ASSUME Init
  PROVE  InOrder
<1> SUFFICES ASSUME NEW u \in Clients
             PROVE  Served(u, 0) /\ \A c \in Clients : Reaches(c, u, 0)
  BY DEF InOrder
<1>1. /\ sent[u] = <<>> /\ reported[u] = 0 /\ thread[u].frame = NoFrame
      /\ \A c \in Clients : written[c] = <<>> /\ eventSummary[c] = <<>>
  BY DEF Init, Idle
<1>2. ~Is(NoFrame, "SEND")
  BY DEF NoFrame, Frame, Is
<1>3. <<>> \in Seq({}) /\ \A mine : None(mine, <<>>)
  <2>1. <<>> \in Seq({}) /\ Len(<<>>) = 0
    OBVIOUS
  <2> QED
    BY <2>1 DEF None
<1>4. Chain(Sends, FrameNumbers(user, u), <<>>, 0, 0)
  BY <1>3, ChainOfNone
<1>5. Served(u, 0)
  BY <1>1, <1>2, <1>4 DEF Served
<1>6. \A c \in Clients : Reaches(c, u, 0)
  BY <1>1, <1>3 DEF Reaches, Untouched
<1> QED
  BY <1>5, <1>6

(* Element i of fs has the number of those of its kind up to it, after a. *)
Counted(num, fs, of, i, a, b) ==
  LET k == Cardinality({j \in of : j <= i})
  IN  k \in Nat /\ a + k <= b /\ <<fs[i], a + k>> \in num

LEMMA ChainCounts ==
  ASSUME NEW S, NEW fs \in Seq(S), NEW mine, NEW num, NEW a, NEW b,
         Chain(mine, num, fs, a, b), NEW of, of = {i \in 1..Len(fs) : fs[i] \in mine},
         NEW i \in of
  PROVE  Counted(num, fs, of, i, a, b)
<1> DEFINE n == Len(fs)  Up(m) == {j \in of : j <= m}
<1>1. n \in Nat
  BY LenProperties
<1>2. PICK g \in [0..n -> Nat] :
        /\ g[0] = a /\ g[n] = b
        /\ \A m \in 1..n :
             /\ fs[m] \in mine => g[m] = g[m - 1] + 1 /\ <<fs[m], g[m]>> \in num
             /\ fs[m] \notin mine => g[m] = g[m - 1]
  BY DEF Chain
<1>3. a \in Nat /\ b \in Nat /\ 0 \in 0..n /\ n \in 0..n
  BY <1>1, <1>2
<1>4. of \subseteq 1..n /\ \A m \in 1..n : m \in of <=> fs[m] \in mine
  OBVIOUS
<1> HIDE DEF n
<1> DEFINE P == {m \in Nat : m \in 0..n =>
                   IsFiniteSet(Up(m)) /\ Cardinality(Up(m)) \in Nat /\ g[m] = a + Cardinality(Up(m))}
<1>5. 0 \in P
  <2>1. Up(0) = {}
    BY <1>1, <1>4
  <2> HIDE DEF Up
  <2>2. IsFiniteSet(Up(0)) /\ Cardinality(Up(0)) = 0
    BY <2>1, FS_EmptySet
  <2> QED
    BY <1>2, <1>3, <2>2
<1>6. ASSUME NEW m \in P PROVE m + 1 \in P
  <2> SUFFICES ASSUME m + 1 \in 0..n
               PROVE  /\ IsFiniteSet(Up(m + 1)) /\ Cardinality(Up(m + 1)) \in Nat
                      /\ g[m + 1] = a + Cardinality(Up(m + 1))
    OBVIOUS
  <2>1. m \in 0..n /\ m + 1 \in 1..n /\ (m + 1) - 1 = m /\ m \in Nat
    BY <1>1
  <2>2. IsFiniteSet(Up(m)) /\ Cardinality(Up(m)) \in Nat /\ g[m] = a + Cardinality(Up(m))
    BY <2>1
  <2>3. CASE m + 1 \in of
    <3>1. Up(m + 1) = Up(m) \cup {m + 1} /\ m + 1 \notin Up(m)
      BY <1>1, <1>4, <2>1, <2>3
    <3> DEFINE k == Cardinality(Up(m))  l == Cardinality(Up(m + 1))
    <3> HIDE DEF Up, P
    <3>2. IsFiniteSet(Up(m + 1)) /\ l = k + 1
      BY <2>2, <3>1, FS_AddElement
    <3>3. g[m + 1] = g[m] + 1
      BY <1>2, <1>4, <2>1, <2>3
    <3>4. k \in Nat /\ g[m] = a + k
      BY <2>2
    <3> HIDE DEF k, l
    <3>5. l \in Nat /\ g[m + 1] = a + l
      BY <1>3, <3>2, <3>3, <3>4
    <3> QED
      BY <3>2, <3>5 DEF l
  <2>4. CASE m + 1 \notin of
    <3>1. Up(m + 1) = Up(m)
      BY <1>1, <1>4, <2>1, <2>4
    <3>2. g[m + 1] = g[m]
      BY <1>2, <1>4, <2>1, <2>4
    <3> HIDE DEF Up, P
    <3> QED
      BY <2>2, <3>1, <3>2
  <2> QED
    BY <2>3, <2>4
<1> DEFINE Q == {m \in Nat : m \in 0..n => \A j \in 0..m : g[j] <= g[m]}
<1>7. 0 \in Q
  BY <1>2, <1>3
<1>8. ASSUME NEW m \in Q PROVE m + 1 \in Q
  <2> SUFFICES ASSUME m + 1 \in 0..n, NEW j \in 0..m + 1 PROVE g[j] <= g[m + 1]
    OBVIOUS
  <2>1. m \in 0..n /\ m + 1 \in 1..n /\ (m + 1) - 1 = m /\ m \in Nat
    BY <1>1
  <2>2. g[m] \in Nat /\ g[m + 1] \in Nat /\ g[m] <= g[m + 1]
    <3>1. g[m] \in Nat /\ (g[m + 1] = g[m] \/ g[m + 1] = g[m] + 1)
      BY <1>2, <2>1
    <3> QED
      BY <3>1
  <2>3. CASE j = m + 1
    BY <2>2, <2>3
  <2>4. CASE j # m + 1
    <3>1. j \in 0..m /\ j \in 0..n
      BY <1>1, <2>1, <2>4
    <3>2. g[j] <= g[m] /\ g[j] \in Nat
      BY <1>2, <2>1, <3>1
    <3> QED
      BY <2>2, <3>2
  <2> QED
    BY <2>3, <2>4
<1> HIDE DEF P, Q, Up
<1>9. P = Nat /\ Q = Nat
  <2>1. P \in SUBSET Nat /\ Q \in SUBSET Nat
    BY DEF P, Q
  <2> QED
    BY <1>5, <1>6, <1>7, <1>8, <2>1, Induction
<1>10. i \in 1..n /\ i \in 0..n /\ i \in Nat
  BY <1>1, <1>4
<1>11. Cardinality(Up(i)) \in Nat /\ g[i] = a + Cardinality(Up(i))
  BY <1>9, <1>10 DEF P
<1>12. g[i] <= b
  BY <1>2, <1>3, <1>9, <1>10 DEF Q
<1>13. <<fs[i], g[i]>> \in num
  BY <1>2, <1>4, <1>10
<1> QED
  BY <1>11, <1>12, <1>13 DEF Up, Counted

LEMMA InOrderKept ==
  ASSUME IInv, EventsKept, InOrder
  PROVE  KeptInOrder
<1> SUFFICES ASSUME NEW c \in Clients, NEW u \in Clients
             PROVE  LET of == {i \in DOMAIN eventSummary[c] : eventSummary[c][i].user = <<u>>}
                        k(i) == Cardinality({j \in of : j <= i})
                    IN  \E before \in 0..reported[u] :
                          \A i \in of : /\ before + k(i) <= reported[u]
                                        /\ IsRead(eventSummary[c][i], u, user[u].file[before + k(i)])
  BY DEF KeptInOrder
<1> DEFINE fs == eventSummary[c]  r == reported[u]
           of == {i \in DOMAIN fs : fs[i].user = <<u>>}
           k(i) == Cardinality({j \in of : j <= i})
<1>1. fs \in Seq(Events) /\ r \in Nat /\ sent[u] \in Seq(ClientFrames) /\ written[c] \in Seq(ServerFrames)
  BY DEF EventsKept, IInv, ClientTypes, Streams
<1>2. PICK n \in Nat : Served(u, n) /\ \A d \in Clients : Reaches(d, u, n)
  BY DEF InOrder
<1>3. n <= r
  BY <1>1, <1>2, ChainGrows DEF Served
<1>4. of = {i \in 1..Len(fs) : fs[i] \in EventsBy(u)}
  <2>1. DOMAIN fs = 1..Len(fs)
    BY <1>1, LenProperties
  <2>2. \A i \in 1..Len(fs) : fs[i] \in Events
    BY <1>1, ElementOfSeq
  <2> HIDE DEF fs
  <2> QED
    BY <2>1, <2>2 DEF EventsBy
<1> HIDE DEF fs, r, of
<1>5. CASE Untouched(c, u)
  <2>1. of = {}
    BY <1>4, <1>5 DEF Untouched, None, fs
  <2>2. 0 \in 0..r
    BY <1>1
  <2> QED
    BY <2>1, <2>2 DEF of, r, fs
<1>6. CASE ~Untouched(c, u)
  <2>1. PICK b \in Nat : b <= n /\ Delivered(c, u, b)
    BY <1>2, <1>6 DEF Reaches
  <2>2. PICK s, a : /\ Chain(EventsBy(u), EventNumbers(user, u), fs, s, a)
                    /\ Chain(Messages(u), FrameNumbers(user, u), written[c], a, b)
    BY <2>1 DEF Delivered, fs
  <2>3. s \in Nat /\ a \in Nat /\ s <= a /\ a <= b
    BY <1>1, <2>2, ChainGrows
  <2>4. s \in 0..r /\ a <= r
    BY <1>1, <1>3, <2>1, <2>3
  <2>5. ASSUME NEW i \in of
        PROVE  s + k(i) <= r /\ IsRead(fs[i], u, user[u].file[s + k(i)])
    <3>1. Counted(EventNumbers(user, u), fs, of, i, s, a)
      BY <1>1, <1>4, <2>2, <2>5, ChainCounts
    <3>2. k(i) \in Nat /\ s + k(i) <= a /\ <<fs[i], s + k(i)>> \in EventNumbers(user, u)
      BY <3>1 DEF Counted
    <3> HIDE DEF k
    <3>3. s + k(i) <= r
      BY <1>1, <2>3, <2>4, <3>2
    <3>4. IsRead(<<fs[i], s + k(i)>>[1], u, user[u].file[<<fs[i], s + k(i)>>[2]])
      BY <3>2 DEF EventNumbers
    <3> QED
      BY <3>3, <3>4
  <2> QED
    BY <2>4, <2>5 DEF of, r, fs
<1> QED
  BY <1>5, <1>6

(***************************************************************************)
(* What a client keeps of one user are reports that follow each other in   *)
(* the user's file: the loops of the threads over the entries, which come  *)
(* and go meanwhile, leave none out, send none twice and let none overtake *)
(* another, in the server, in the buffer of a socket or on the way.        *)
(***************************************************************************)
THEOREM SpecKeptInOrder == Spec => []KeptInOrder
<1>1. Init => EventsKept /\ Presence /\ InOrder
  BY InitOfReports, InitPresence, InitInOrder DEF OfReports
<1>2. IInv /\ EventsKept /\ Presence /\ InOrder /\ [Next]_vars
        => EventsKept' /\ Presence' /\ InOrder'
  BY NextEvents, NextPresence, NextInOrder
<1>3. IInv /\ EventsKept /\ InOrder => KeptInOrder
  BY InOrderKept
<1> QED
  BY <1>1, <1>2, <1>3, AlwaysIInv, PTL DEF Spec
=============================================================================
