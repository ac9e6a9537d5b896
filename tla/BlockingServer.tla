--------------------------- MODULE BlockingServer ---------------------------
(***************************************************************************)
(* The thread-per-client server (BaseServer.java and                       *)
(* BlockingConnectionHandler.java) with clients that report events to one  *)
(* channel. Between a client and the server go bytes, two streams of       *)
(* them. The thread of a client reads its stream, decodes a frame and      *)
(* processes it, and writes itself to the sockets of all subscribers. At   *)
(* the other end the client makes events of the bodies it gets.            *)
(*                                                                         *)
(* The handlers of the protocol are the ones that reports need, and a      *)
(* table is changed in one step: StompMessagingProtocol has the others,    *)
(* with the steps of each. The threads of a client are in StompClient.     *)
(***************************************************************************)
EXTENDS Event

CONSTANTS
  Clients,      \* the users, named by words
  Users,        \* what the users may do: for every client, the events of the
                \* file it reports and which of "join", "logout" and "leave"
  Capacity,     \* the initial size of a decoder's buffer (1024)
  MaxReports,   \* bound: the events in a file
  WireCapacity  \* a writer waits while a socket holds more bytes than this

ASSUME BlockingAssumption ==
  /\ Capacity \in Nat \ {0} /\ WireCapacity \in Nat /\ MaxReports \in Nat
  /\ \A u \in Users : \A c \in Clients :
       /\ Len(u[c].file) <= MaxReports
       /\ u[c].commands \subseteq {"join", "logout", "leave"}

(* the words of the frames *)
ASSUME FrameWordsAssumption ==
  /\ Clients \subseteq Words
  /\ {"CONNECT", "SUBSCRIBE", "SEND", "DISCONNECT", "CONNECTED", "RECEIPT", "MESSAGE",
      "ERROR", "none", "login", "channel", "destination", "receipt", "Joined", "Logout",
      "version", "1.2", "receipt-id", "message", "reason", "The message", "-----",
      "Reason"} \subseteq Words

(* What is in a file can be put in a frame: it has no terminator of its own. *)
ASSUME FilesAssumption ==
  \A u \in Users : \A c \in Clients : \A i \in 1..Len(u[c].file) :
    LET e == u[c].file[i]
    IN  /\ e.date \in Dates /\ IsFiniteSet(DOMAIN e.info)
        /\ \A t \in {e.city, e.name, e.description} \cup DOMAIN e.info \cup Range(e.info) :
             t \in Text /\ ~Has(t, NUL)

(* What has a line of the body to itself has no newline of its own. *)
ASSUME LinesAssumption ==
  \A u \in Users : \A c \in Clients : \A i \in 1..Len(u[c].file) :
    LET e == u[c].file[i]
    IN  \A t \in {e.city, e.name} \cup DOMAIN e.info \cup Range(e.info) : ~Has(t, NL)

VARIABLES  \* the clients
  user,      \* user[c]: the file and the commands of the user at c
  link,      \* link[c]: "none", "up" or "left"
  main,      \* main[c]: "start", "prompt" or, waiting in join, "logout"
  isConnected, hasSubscription,   \* of the protocol object of the client
  eventSummary  \* eventSummary[c]: the events of the channel, as received

VARIABLES  \* the server
  thread,    \* thread[c]: pc and locals of the thread of c
  decoder, connected, closed,     \* of the handler; closed: its socket
  out,       \* out[c]: what the stream to c has buffered
  protocol,  \* protocol[c]: the fields of the protocol object
  activeConnections, subscribers  \* of ConnectionsImpl

VARIABLES
  toServer, toClient,  \* the bytes on their way
  reported,  \* reported[c]: how many events of its file c has reported
  \* histories
  sent,      \* sent[c]: the frames c sent and the server has not decoded
  written,   \* written[c]: the frames written to c that it has not handled
  handled    \* handled[c]: the frame it handled last

clientVars == <<user, link, main, isConnected, hasSubscription, eventSummary, handled>>
handlerVars == <<thread, decoder, connected, closed, out>>
serverVars == <<handlerVars, protocol, activeConnections, subscribers>>
vars == <<clientVars, serverVars, toServer, toClient, reported, sent, written>>

-----------------------------------------------------------------------------
(* Frames *)

Frame(command, headers, body) ==
  [command |-> <<command>>, headers |-> headers, body |-> body]
NoHeaders == [k \in {} |-> <<>>]
Is(f, command) == f.command = <<command>>

Channel == <<"channel">>
Header(key, value) == [k \in {<<key>>} |-> value]
Destination == Header("destination", Channel)

(* Headers nobody reads here are left out; a receipt id is named for the *)
(* request that receiptMap has under it.                                 *)
ConnectFrame(c) == Frame("CONNECT", Header("login", <<c>>), <<>>)
SubscribeFrame ==
  Frame("SUBSCRIBE", [k \in {<<"destination">>, <<"receipt">>} |->
                        IF k = <<"receipt">> THEN <<"Joined">> ELSE Channel], <<>>)
ReportFrame(c, e) == Frame("SEND", Destination, reportBody(<<c>>, e))
DisconnectFrame == Frame("DISCONNECT", Header("receipt", <<"Logout">>), <<>>)

(* the frames that the server makes of frame f *)
Answer(command, f) ==
  CASE command = "CONNECTED" -> Frame(command, Header("version", <<"1.2">>), <<>>)
    [] command = "RECEIPT" ->
         Frame(command, Header("receipt-id", f.headers[<<"receipt">>]), <<>>)
    [] command = "MESSAGE" -> Frame(command, Destination, f.body)
    [] command = "ERROR" ->
         Frame(command, Header("message", <<" ", "reason">>),
               <<"The message", Colon, NL, "-----", NL>> \o toString(f)
                 \o <<NL, "-----", NL, "Reason", Colon, " ", "reason">>)

NoFrame == Frame("none", NoHeaders, <<>>)

-----------------------------------------------------------------------------
(* frame: the frame in process; msg, to: the frame it is about to send *)
Idle == [pc |-> "none", frame |-> NoFrame, msg |-> "none", to |-> "nobody",
         visited |-> {}]

Init ==
  /\ user \in Users
  /\ link = [c \in Clients |-> "none"]
  /\ main = [c \in Clients |-> "start"]
  /\ isConnected = [c \in Clients |-> FALSE]
  /\ hasSubscription = [c \in Clients |-> FALSE]
  /\ eventSummary = [c \in Clients |-> <<>>]
  /\ thread = [c \in Clients |-> Idle]
  /\ decoder = [c \in Clients |-> NewDecoder(Capacity)]
  /\ connected = [c \in Clients |-> TRUE]
  /\ closed = [c \in Clients |-> FALSE]
  /\ out = [c \in Clients |-> <<>>]
  /\ protocol = [c \in Clients |->
       [connected |-> FALSE, subscribed |-> FALSE, shouldTerminate |-> FALSE]]
  /\ activeConnections = {} /\ subscribers = {}
  /\ toServer = [c \in Clients |-> <<>>] /\ toClient = [c \in Clients |-> <<>>]
  /\ reported = [c \in Clients |-> 0]
  /\ sent = [c \in Clients |-> <<>>] /\ written = [c \in Clients |-> <<>>]
  /\ handled = [c \in Clients |-> NoFrame]

-----------------------------------------------------------------------------
(* The commands of a user *)

Send(c, f) ==
  /\ toServer' = [toServer EXCEPT ![c] = @ \o serialize(f)]
  /\ sent' = [sent EXCEPT ![c] = Append(@, f)]
  /\ UNCHANGED <<serverVars, user, toClient, written, handled, eventSummary, isConnected>>

AtPrompt(c) == link[c] = "up" /\ main[c] = "prompt" /\ isConnected[c]

Login(c) ==
  /\ link[c] = "none"
  /\ link' = [link EXCEPT ![c] = "up"]
  /\ main' = [main EXCEPT ![c] = "prompt"]
  /\ Send(c, ConnectFrame(c))
  /\ UNCHANGED <<hasSubscription, reported>>

Join(c) ==
  /\ AtPrompt(c) /\ "join" \in user[c].commands /\ ~hasSubscription[c]
  /\ hasSubscription' = [hasSubscription EXCEPT ![c] = TRUE]
  /\ Send(c, SubscribeFrame)
  /\ UNCHANGED <<link, main, reported>>

(* Mutant: the iterator is advanced twice in a turn. *)
ReportSkipping(c) ==
  /\ AtPrompt(c) /\ reported[c] < Len(user[c].file)
  /\ reported' = [reported EXCEPT ![c] = @ + 2]
  /\ Send(c, ReportFrame(c, user[c].file[reported[c] + 1]))
  /\ UNCHANGED <<link, main, hasSubscription>>

(* one turn of the loop of report over the events of a file *)
Report(c) ==
  /\ AtPrompt(c) /\ reported[c] < Len(user[c].file)
  /\ reported' = [reported EXCEPT ![c] = @ + 1]
  /\ Send(c, ReportFrame(c, user[c].file[reported[c] + 1]))
  /\ UNCHANGED <<link, main, hasSubscription>>

Logout(c) ==
  /\ AtPrompt(c) /\ "logout" \in user[c].commands
  /\ main' = [main EXCEPT ![c] = "logout"]
  /\ Send(c, DisconnectFrame)
  /\ UNCHANGED <<link, hasSubscription, reported>>

LinkLost(c) ==
  /\ link[c] = "up"
  /\ link' = [link EXCEPT ![c] = "left"]
  /\ UNCHANGED <<serverVars, user, main, isConnected, hasSubscription, eventSummary,
                 handled, toServer, toClient, reported, sent, written>>

(* The client is killed, or its connection breaks. *)
Leave(c) == "leave" \in user[c].commands /\ LinkLost(c)

-----------------------------------------------------------------------------
(* The communicator of a client *)

(* Mutant: the loop does not stop at an ERROR. *)
StopsAtLogout(f) == Is(f, "RECEIPT") /\ f.headers[<<"receipt-id">>] = <<"Logout">>

(* signalStopCommunication: the loop ends and closes the connection *)
Stops(f) == Is(f, "ERROR") \/ (Is(f, "RECEIPT") /\ f.headers[<<"receipt-id">>] = <<"Logout">>)

(* what a history keeps when the first of it is done *)
Rest(frames) == IF frames = <<>> THEN <<>> ELSE Tail(frames)

TakeFrame(c) ==
  /\ link[c] = "up" /\ FrameReady(toClient[c])
  /\ toClient' = [toClient EXCEPT ![c] = AfterFrame(@)]

ReceiveFrame(c) ==
  /\ TakeFrame(c)
  /\ UNCHANGED <<serverVars, user, main, hasSubscription, toServer, reported, sent>>
  /\ written' = [written EXCEPT ![c] = Rest(@)]
  /\ \E f \in {parseFrame[getFrameAscii(toClient[c])]} :
       /\ handled' = [handled EXCEPT ![c] = f]
       /\ isConnected' = [isConnected EXCEPT ![c] = @ \/ Is(f, "CONNECTED")]
       /\ eventSummary' = [eventSummary EXCEPT ![c] =
            IF Is(f, "MESSAGE") THEN Append(@, EventOf[f.body]) ELSE @]
       /\ link' = [link EXCEPT ![c] = IF Stops(f) THEN "left" ELSE @]

(* The server has closed: what is left on the way may be lost. *)
LoseConnection(c) == closed[c] /\ LinkLost(c)

-----------------------------------------------------------------------------
(* The thread of a client in the server *)

At(c, pc) == thread[c].pc = pc
Goto(c, pc) == thread' = [thread EXCEPT ![c].pc = pc]
HandlerSame == UNCHANGED <<decoder, connected, closed, out>>
ClientsSame == UNCHANGED <<clientVars, reported, sent>>

(* serve: the connection is accepted, its handler registers and runs. *)
Accept(c) ==
  /\ At(c, "none") /\ link[c] # "none"
  /\ activeConnections' = activeConnections \cup {c}
  /\ Goto(c, "run")
  /\ HandlerSame /\ ClientsSame
  /\ UNCHANGED <<protocol, subscribers, written, toServer, toClient>>

(* Mutant: the loop over the entries is left after the first. *)
AfterSendLeave(f, msg) ==
  CASE msg = "ERROR" -> "terminate"
    [] Is(f, "DISCONNECT") -> "disconnect"
    [] OTHER -> "run"

(* where the handler goes on when connections.send has returned *)
AfterSend(f, msg) ==
  CASE msg = "MESSAGE" -> "nextEntry"
    [] msg = "ERROR" -> "terminate"
    [] Is(f, "DISCONNECT") -> "disconnect"
    [] OTHER -> "run"

(* connections.send(to, msg): there may be no handler under that id *)
SendTo(c, f, to, msg, visited) ==
  thread' = [thread EXCEPT ![c] =
    [pc |-> IF to \in activeConnections THEN "write" ELSE AfterSend(f, msg),
     frame |-> f, msg |-> msg, to |-> to, visited |-> visited]]

SendError(c, f) ==
  /\ SendTo(c, f, c, "ERROR", {})
  /\ UNCHANGED <<protocol, subscribers>>

ServeConnect(c, f) ==
  /\ Is(f, "CONNECT")
  /\ protocol' = [protocol EXCEPT ![c].connected = TRUE]
  /\ SendTo(c, f, c, "CONNECTED", {})
  /\ UNCHANGED subscribers

ServeSubscribe(c, f) ==
  /\ Is(f, "SUBSCRIBE")
  /\ protocol' = [protocol EXCEPT ![c].subscribed = TRUE]
  /\ subscribers' = subscribers \cup {c}
  /\ SendTo(c, f, c, "RECEIPT", {})

Forwards(c, f) == Is(f, "SEND") /\ protocol[c].subscribed

ServeSend(c, f) ==
  /\ Forwards(c, f)
  /\ thread' = [thread EXCEPT ![c] = [Idle EXCEPT !.pc = "nextEntry", !.frame = f]]
  /\ UNCHANGED <<protocol, subscribers>>

(* a SEND of a client that has not subscribed, or what is no command *)
Refuse(c, f) ==
  /\ ~Forwards(c, f) /\ ~Is(f, "CONNECT") /\ ~Is(f, "SUBSCRIBE") /\ ~Is(f, "DISCONNECT")
  /\ SendError(c, f)

ServeDisconnect(c, f) ==
  /\ Is(f, "DISCONNECT")
  /\ protocol' = [protocol EXCEPT ![c].shouldTerminate = TRUE, ![c].subscribed = FALSE]
  /\ subscribers' = subscribers \ {c}
  /\ SendTo(c, f, c, "RECEIPT", {})

Runs(c) == ~protocol[c].shouldTerminate /\ connected[c]

(***************************************************************************)
(* The loop of run up to the byte that completes a frame, and the private  *)
(* work of process that follows. Nobody else sees the bytes before it.     *)
(***************************************************************************)
ReadBytes(c) ==
  /\ At(c, "run") /\ Runs(c) /\ ~closed[c]
  /\ FrameReady(toServer[c])
  /\ toServer' = [toServer EXCEPT ![c] = AfterFrame(@)]

ReadFrame(c) ==
  /\ ReadBytes(c)
  /\ UNCHANGED <<clientVars, reported, connected, closed, out, activeConnections,
                 written, toClient>>
  /\ sent' = [sent EXCEPT ![c] = Rest(@)]
  /\ \E d \in {decodeMessage(decoder[c], getFrameAscii(toServer[c]))} :
       /\ decoder' = [decoder EXCEPT ![c] = d.decoder]
       /\ \/ ServeConnect(c, d.frame) \/ ServeSubscribe(c, d.frame)
          \/ ServeSend(c, d.frame) \/ ServeDisconnect(c, d.frame)
          \/ Refuse(c, d.frame)

(***************************************************************************)
(* The loop ends: it is told to, or the socket is closed, or read finds    *)
(* the end of the stream or an error, which a client that is gone may      *)
(* cause before all its bytes are read. The socket is closed, no more.     *)
(***************************************************************************)
EndRun(c) ==
  /\ At(c, "run")
  /\ ~Runs(c) \/ closed[c] \/ link[c] = "left"
  /\ closed' = [closed EXCEPT ![c] = TRUE]
  /\ Goto(c, "ended")
  /\ ClientsSame
  /\ UNCHANGED <<decoder, connected, out, protocol, activeConnections, subscribers,
                 written, toServer, toClient>>

(* Mutant: the iterator is not advanced. *)
NextEntryAgain(c) ==
  /\ At(c, "nextEntry")
  /\ \/ \E d \in subscribers \ thread[c].visited :
          SendTo(c, thread[c].frame, d, "MESSAGE", thread[c].visited)
     \/ /\ subscribers \subseteq thread[c].visited
        /\ Goto(c, "run")
  /\ HandlerSame /\ ClientsSame
  /\ UNCHANGED <<protocol, activeConnections, subscribers, written,
                 toServer, toClient>>

(* handleSend: the next entry of the map, as it is when it is looked for *)
NextEntry(c) ==
  /\ At(c, "nextEntry")
  /\ \/ \E d \in subscribers \ thread[c].visited :
          SendTo(c, thread[c].frame, d, "MESSAGE", thread[c].visited \cup {d})
     \/ /\ subscribers \subseteq thread[c].visited
        /\ Goto(c, "run")
  /\ HandlerSame /\ ClientsSame
  /\ UNCHANGED <<protocol, activeConnections, subscribers, written,
                 toServer, toClient>>

Return(c) == Goto(c, AfterSend(thread[c].frame, thread[c].msg))

(* send of the handler: nothing when it is not connected, else out.write ... *)
Write(c) ==
  LET to == thread[c].to
  IN  /\ At(c, "write")
      /\ ClientsSame
      /\ UNCHANGED <<decoder, connected, closed, protocol, activeConnections,
                     subscribers, toServer, toClient>>
      /\ \/ /\ ~connected[to]
            /\ Return(c)
            /\ UNCHANGED <<out, written>>
         \/ /\ connected[to]
            /\ Goto(c, "flush")
            /\ \E frame \in {Answer(thread[c].msg, thread[c].frame)} :
                 /\ out' = [out EXCEPT ![to] = @ \o toString(frame)]
                 /\ written' = [written EXCEPT ![to] = Append(@, frame)]

(* ... and out.flush. It waits while the socket is full; what is sent to a   *)
(* client that is gone is lost.                                              *)
Flush(c) ==
  LET to == thread[c].to
  IN  /\ At(c, "flush")
      /\ out[to] = <<>> \/ ~closed[to]
      /\ out[to] = <<>> \/ link[to] = "left" \/ Len(toClient[to]) <= WireCapacity
      /\ toClient' = [toClient EXCEPT ![to] = IF link[to] = "left" THEN @ ELSE @ \o out[to]]
      /\ out' = [out EXCEPT ![to] = <<>>]
      /\ Return(c)
      /\ ClientsSame
      /\ UNCHANGED <<decoder, connected, closed, protocol, activeConnections,
                     subscribers, written, toServer>>

(* Mutant: the exception is ignored. *)
FlushFailsAndGoOn(c) ==
  LET to == thread[c].to
  IN  /\ At(c, "flush") /\ out[to] # <<>>
      /\ closed[to] \/ link[to] = "left"
      /\ Return(c)
      /\ HandlerSame /\ ClientsSame
      /\ UNCHANGED <<protocol, activeConnections, subscribers, written, toServer, toClient>>

(* The exception of a socket that is closed, or whose client is gone: close *)
FlushFails(c) ==
  LET to == thread[c].to
  IN  /\ At(c, "flush") /\ out[to] # <<>>
      /\ closed[to] \/ link[to] = "left"
      /\ connected' = [connected EXCEPT ![to] = FALSE]
      /\ activeConnections' = activeConnections \ {to}
      /\ subscribers' = subscribers \ {to}
      /\ closed' = [closed EXCEPT ![to] = TRUE]
      /\ Return(c)
      /\ ClientsSame
      /\ UNCHANGED <<decoder, out, protocol, written, toServer, toClient>>

(* sendError, after the ERROR frame is sent *)
MarkForTermination(c) ==
  /\ At(c, "terminate")
  /\ protocol' = [protocol EXCEPT ![c].shouldTerminate = TRUE]
  /\ Goto(c, "run")
  /\ HandlerSame /\ ClientsSame
  /\ UNCHANGED <<activeConnections, subscribers, written, toServer, toClient>>

(* handleDisconnect, after the RECEIPT *)
Disconnect(c) ==
  /\ At(c, "disconnect")
  /\ activeConnections' = activeConnections \ {c}
  /\ subscribers' = subscribers \ {c}
  /\ Goto(c, "run")
  /\ HandlerSame /\ ClientsSame
  /\ UNCHANGED <<protocol, written, toServer, toClient>>

-----------------------------------------------------------------------------
Command(c) == Login(c) \/ Join(c) \/ Report(c) \/ Logout(c) \/ Leave(c)
Communicator(c) == ReceiveFrame(c) \/ LoseConnection(c)
Proceed(c) ==
  \/ Accept(c) \/ EndRun(c) \/ NextEntry(c) \/ Write(c) \/ Flush(c) \/ FlushFails(c)
  \/ MarkForTermination(c) \/ Disconnect(c)
Handler(c) == ReadFrame(c) \/ Proceed(c)
Next == \E c \in Clients : Command(c) \/ Communicator(c) \/ Handler(c)

(***************************************************************************)
(* The operating system runs every thread; users do as they like. A frame  *)
(* that can be taken from a stream is taken: what is then made of it is no *)
(* condition, so that fairness of TakeFrame and ReadBytes, which nothing   *)
(* else does, is fairness of ReceiveFrame and ReadFrame.                   *)
(***************************************************************************)
Fairness ==
  \A c \in Clients :
    /\ WF_toClient(TakeFrame(c)) /\ WF_vars(LoseConnection(c))
    /\ WF_toServer(ReadBytes(c)) /\ WF_vars(Proceed(c))

Spec == Init /\ [][Next]_vars
FairSpec == Spec /\ Fairness

-----------------------------------------------------------------------------
(* Properties *)

IsFrame(f) ==
  /\ DOMAIN f = {"command", "headers", "body"}
  /\ f.command \in Text /\ f.body \in Text
  /\ \A k \in DOMAIN f.headers : k \in Text /\ f.headers[k] \in Text
IsEvent(e) ==
  /\ DOMAIN e = {"user", "city", "name", "date", "info", "description"}
  /\ e.user \in Text /\ e.city \in Text /\ e.name \in Text /\ e.description \in Text
  /\ e.date \in Dates \cup {0}
  /\ \A k \in DOMAIN e.info : k \in Text /\ e.info[k] \in Text
AllFrames(f) == \A c \in Clients : \A i \in DOMAIN f[c] : IsFrame(f[c][i])

(* Every variable holds values of its type: what is decoded are frames, what *)
(* is kept of their bodies are events, and the buffer holds what is in use.  *)
TypeOK ==
  /\ link \in [Clients -> {"none", "up", "left"}]
  /\ main \in [Clients -> {"start", "prompt", "logout"}]
  /\ isConnected \in [Clients -> BOOLEAN] /\ hasSubscription \in [Clients -> BOOLEAN]
  /\ connected \in [Clients -> BOOLEAN] /\ closed \in [Clients -> BOOLEAN]
  /\ protocol \in [Clients -> [connected : BOOLEAN, subscribed : BOOLEAN,
                               shouldTerminate : BOOLEAN]]
  /\ activeConnections \subseteq Clients /\ subscribers \subseteq Clients
  /\ AllFrames(sent) /\ AllFrames(written)
  /\ \A c \in Clients :
       /\ thread[c].pc \in {"none", "run", "nextEntry", "write", "flush",
                            "terminate", "disconnect", "ended"}
       /\ IsFrame(thread[c].frame) /\ IsFrame(handled[c])
       /\ thread[c].msg \in {"none", "CONNECTED", "RECEIPT", "MESSAGE", "ERROR"}
       /\ thread[c].to \in Clients \cup {"nobody"} /\ thread[c].visited \subseteq Clients
       /\ decoder[c].bytes \in Text /\ decoder[c].len \in 0..Len(decoder[c].bytes)
       /\ out[c] \in Text /\ toServer[c] \in Text /\ toClient[c] \in Text
       /\ reported[c] \in 0..Len(user[c].file)
       /\ \A i \in DOMAIN eventSummary[c] : IsEvent(eventSummary[c][i])

(* The server decodes the frames that a client sent, in their order, with    *)
(* their headers and bodies: the buffer grows with a frame and is reused.    *)
DecodedAsSent ==
  [][\A c \in Clients : ReadFrame(c)
       => sent[c] # <<>> /\ thread'[c].frame = Head(sent[c])]_vars

(* A frame as the client is to read it: toString ends a body with a newline, *)
(* and the frame in the body of an ERROR has a terminator of its own.        *)
ReadAs(w) ==
  LET line == IF w.body = <<>> THEN <<>> ELSE w.body \o <<NL>>
  IN  [w EXCEPT !.body = IF Has(line, NUL) THEN getFrameAscii(line) ELSE line]

(* The threads of several clients write to one socket, and a client handles  *)
(* whole frames, those that were written and in that order. What an ERROR    *)
(* leaves behind its inner terminator is never taken for a frame.            *)
HandledAsWritten ==
  [][\A c \in Clients : ReceiveFrame(c)
       => written[c] # <<>> /\ handled'[c] = ReadAs(Head(written[c]))]_vars

(* What is kept of a value: the one piece between colons that is not empty.   *)
(* Of a value with a colon inside nothing is kept.                            *)
Kept(value) ==
  LET pieces == Split(Colon)[value]
      tokens == split_str(pieces)
  IN  IF \E i \in tokens : tokens = {i} THEN pieces[Max(tokens)] ELSE <<>>

(* What a client keeps of report r of u: the description has grown by a      *)
(* newline of report and one of toString.                                    *)
IsRead(e, u, r) ==
  /\ e.user = <<u>> /\ e.date = r.date
  /\ e.city = Kept(r.city) /\ e.name = Kept(r.name)
  /\ e.description = r.description \o <<NL, NL>>

(* Nothing that a client keeps of the channel is made up: it was reported    *)
(* before, by the user it names, on that date, of that city and with that    *)
(* description.                                                              *)
KeptAsReported ==
  \A c \in Clients : \A i \in DOMAIN eventSummary[c] :
    \E u \in Clients : \E k \in 1..reported[u] : IsRead(eventSummary[c][i], u, user[u].file[k])

(* What a client keeps of one user are reports that follow each other, from  *)
(* the first that reached it: none is left out, kept twice or overtaken by a *)
(* later one, whatever connections end or are refused meanwhile.             *)
KeptInOrder ==
  \A c, u \in Clients :
    LET of == {i \in DOMAIN eventSummary[c] : eventSummary[c][i].user = <<u>>}
        k(i) == Cardinality({j \in of : j <= i})
    IN  \E before \in 0..reported[u] :
          \A i \in of : /\ before + k(i) <= reported[u]
                       /\ IsRead(eventSummary[c][i], u, user[u].file[before + k(i)])

(* What a summary tells of one event e, in entry r: a summary without the     *)
(* mark of a cut withholds no more than the characters between the two        *)
(* lengths, less the two newlines added on the way.                           *)
Tells(r, e) ==
  LET marked == r.summary # <<>> /\ Last(r.summary) = "..."
      shown == IF marked THEN Front(r.summary) ELSE r.summary
  IN  /\ r.city = Kept(e.city) /\ r.name = Kept(e.name) /\ r.date = e.date
      /\ IsPrefix(shown, e.description \o <<NL, NL>>)
      /\ marked => Len(shown) = ShortLength /\ Len(shown) < Len(e.description)
      /\ ~marked => Len(e.description) - Len(shown) <= LongLength - ShortLength - 2

(* At any moment a summary tells of a run of the events that the user has    *)
(* reported, with none left out of it, none twice and none of another user,  *)
(* counts those that are active or have forces on their way, and lists them  *)
(* by date and, on one date, by name.                                        *)
SummaryTells ==
  \A c, u \in Clients : \A s \in Summaries(eventSummary[c], <<u>>) :
    /\ IsSorted(s.reports, LAMBDA a, b :
         a.date < b.date \/ (a.date = b.date /\ ~Less(b.name, a.name)))
    /\ \E first \in 1..reported[u] + 1 :
         LET mine == SubSeq(user[u].file, first, first + s.total - 1)
             count(key) == Len(SelectSeq(mine, LAMBDA e : Says(e, key)))
         IN  /\ first + s.total - 1 <= reported[u]
             /\ s.active = count(<<"active">>)
             /\ s.forces = count(<<"forces_arrival_at_scene">>)
             /\ \E p \in Permutations(DOMAIN mine) :
                  \A i \in DOMAIN mine : Tells(s.reports[i], mine[p[i]])

Gone(c) == link[c] = "left" \/ closed[c]

(* the k-th report of u is one that the server has not read yet *)
Reports == 1..MaxReports
OnItsWay(u, k) ==
  k \in reported[u] - Len(SelectSeq(sent[u], LAMBDA f : Is(f, "SEND"))) + 1..reported[u]
Hears(c, u, k) ==
  \E i \in DOMAIN eventSummary[c] :
    LET e == eventSummary[c][i]
    IN  e.user = <<u>> /\ e.date = user[u].file[k].date /\ e.name = Kept(user[u].file[k].name)

(* A report that is on its way reaches every subscriber, unless one of the   *)
(* two is gone: no writer waits for ever for a full socket, and what is      *)
(* buffered is flushed.                                                      *)
ReportsArrive ==
  \A u, c \in Clients : \A k \in Reports :
    (c \in subscribers /\ OnItsWay(u, k))
      ~> (Gone(u) \/ Gone(c) \/ (k <= reported[u] /\ Hears(c, u, k)))

(* run ends without disconnect. A connection that ended so is forgotten when *)
(* the next report is sent to it.                                            *)
DeadForgotten ==
  \A u, d \in Clients : \A k \in Reports :
    (closed[d] /\ d \in subscribers /\ OnItsWay(u, k))
      ~> (Gone(u) \/ d \notin subscribers \cup activeConnections)

=============================================================================
