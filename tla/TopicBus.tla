------------------------------ MODULE TopicBus ------------------------------
(***************************************************************************)
(* What the server promises about messages, without threads and tables:    *)
(* every message has an id of its own; a client receives it only on a      *)
(* topic it asked for, under a subscription id it gave for that topic, and *)
(* at most once for each time it asked; and it receives the messages of    *)
(* one sender in the order of their sending. It may miss messages. That is *)
(* all a client can count on: who leaves a topic and subscribes again      *)
(* while a message is sent may receive that message twice.                 *)
(***************************************************************************)
EXTENDS Naturals, Sequences

CONSTANTS Connections, Topics, SubIds

VARIABLES
  asked,      \* asked[c]: the subscriptions c has asked for, one after the other
  published,  \* published[n]: the topic and the sender of message n
  inbox       \* inbox[c]: the messages c receives, in this order; request: the
              \* position in asked[c] of the subscription that it receives it for

vars == <<asked, published, inbox>>

Init ==
  /\ asked = [c \in Connections |-> <<>>]
  /\ published = <<>>
  /\ inbox = [c \in Connections |-> <<>>]

Ask(c) ==
  /\ \E t \in Topics, id \in SubIds :
       asked' = [asked EXCEPT ![c] = Append(@, [topic |-> t, id |-> id])]
  /\ UNCHANGED <<published, inbox>>

(* A client publishes on the topics it has subscribed to. *)
Publish(c) ==
  /\ \E k \in DOMAIN asked[c] :
       published' = Append(published, [topic |-> asked[c][k].topic, from |-> c])
  /\ UNCHANGED <<asked, inbox>>

(* Message n follows what d has of its sender; a copy is for a later request. *)
Later(n, k, d) ==
  \A i \in DOMAIN inbox[d] :
    published[inbox[d][i].msg].from = published[n].from =>
      \/ inbox[d][i].msg < n
      \/ inbox[d][i].msg = n /\ inbox[d][i].request < k

Deliver(d) ==
  /\ \E n \in DOMAIN published, k \in DOMAIN asked[d] :
       LET s == asked[d][k]
       IN  /\ s.topic = published[n].topic
           /\ Later(n, k, d)
           /\ inbox' = [inbox EXCEPT ![d] =
                Append(@, [msg |-> n, topic |-> s.topic, id |-> s.id, request |-> k])]
  /\ UNCHANGED <<asked, published>>

Next == \E c \in Connections : Ask(c) \/ Publish(c) \/ Deliver(c)

Spec == Init /\ [][Next]_vars
=============================================================================
