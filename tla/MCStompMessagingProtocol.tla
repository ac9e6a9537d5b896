---------------------- MODULE MCStompMessagingProtocol ----------------------
EXTENDS StompMessagingProtocol, TLC

CONSTANTS t1, t2, u1, u2, p1, p2, i1, i2, m1, m2, m3

Frame(command) ==
  [command |-> command, login |-> Null, passcode |-> Null, destination |-> Null,
   id |-> Null, receipt |-> FALSE]

Connect(u, p) == [Frame("CONNECT") EXCEPT !.login = u, !.passcode = p]
Subscribe(t, i) == [Frame("SUBSCRIBE") EXCEPT !.destination = t, !.id = i]
Unsubscribe(i) == [Frame("UNSUBSCRIBE") EXCEPT !.id = i]
Send(t) == [Frame("SEND") EXCEPT !.destination = t]
Asking(f) == [f EXCEPT !.receipt = TRUE]

(* A publisher, and a subscriber that has time to leave and come back; their *)
(* ids share the one bin of the map, as 1 and 17 share one of 16.            *)
BusFrames ==
  <<{Connect(u1, p1), Subscribe(t1, i1), Send(t1)},
    {Connect(u2, p1), Subscribe(t1, i1), Unsubscribe(i1)}>>

(* One client sends frames of every kind, complete or not, and another races *)
(* it for its name with two passwords. Both channels may be closed: up to    *)
(* three disconnects compete for the monitor.                                *)
MonitorFrames ==
  <<{Connect(u1, p1), Connect(u1, Null), Subscribe(t1, i1), Subscribe(t1, BadId),
     Unsubscribe(i1), Send(t1), Send(Null), Frame("DISCONNECT"),
     Asking(Frame("unknown"))}, {Connect(u1, p1), Connect(u1, p2)}>>

(* one client subscribes, asking for a receipt, while the other leaves the topic *)
RaceFrames ==
  <<{Connect(u1, p1), Asking(Subscribe(t1, i1))},
    {Connect(u2, p1), Subscribe(t1, i1), Unsubscribe(i1)}>>

(* one client that subscribes to a topic under two ids *)
TwoIds == <<{Connect(u1, p1), Subscribe(t1, i1), Subscribe(t1, i2), Unsubscribe(i1)}>>

(* MaxFrames *)
ThreeEach == [c \in Connections |-> 3]
TwoEach == [c \in Connections |-> 2]
ThreeAndFour == <<3, 4>>
ThreeAndOne == <<3, 1>>

MapSymmetry == Permutations(Maps)
=============================================================================
