--------------------------- MODULE ConnectionsImpl ---------------------------
(***************************************************************************)
(* The tables all connections of the server share                          *)
(* (srv/ConnectionsImpl.java). Each of them is a ConcurrentHashMap, so one *)
(* access is one step, and what a method does between two accesses can be  *)
(* interleaved with every other thread. This module gives the single       *)
(* accesses; StompMessagingProtocol puts them in the order of the methods. *)
(***************************************************************************)
EXTENDS Naturals

CONSTANTS
  MaxConnections,  \* bound: the clients that connect
  Topics,
  Users,
  Passcodes,
  SubIds,          \* the subscription ids that Integer.parseInt accepts
  Maps,            \* identities of the inner maps of topicSubscriptions
  Bins,            \* the length of the hash table in an inner map: 16 in Java
  Null             \* Java's null: no entry, no value, a missing header

Connections == 1..MaxConnections

(* The hash code of an Integer is its value: ids 16 apart share a bin. *)
SameBin(c, d) == c % Bins = d % Bins

(* An entry of an inner map is a subscription id. request is a history: which *)
(* SUBSCRIBE of the client wrote it, counted from 1.                          *)
Entries == [id : SubIds, request : Nat]

ASSUME RegistryAssumption ==
  /\ MaxConnections \in Nat /\ Bins \in Nat \ {0}
  /\ Null \notin Connections \cup Topics \cup Users \cup Passcodes
             \cup SubIds \cup Maps
  /\ Null \notin Entries

VARIABLES
  connectionCounter,   \* the ids given so far, of the accepting loop
  activeConnections,   \* the ids whose handler send() can reach
  topicSubscriptions,  \* topicSubscriptions[t]: the inner map of t
  subscribers,         \* subscribers[m][c]: the entry of c in map m
  users,               \* users[u]: the password of u
  activeUsers,         \* activeUsers[c]: the user registered over c
  messageCounter

connectionTables == <<connectionCounter, activeConnections>>
topicTables == <<topicSubscriptions, subscribers>>
userTables == <<users, activeUsers>>
registryVars == <<connectionTables, topicTables, userTables, messageCounter>>

RegistryTypeOK ==
  /\ connectionCounter \in 0..MaxConnections
  /\ activeConnections \in SUBSET Connections
  /\ topicSubscriptions \in [Topics -> Maps \cup {Null}]
  /\ subscribers \in [Maps -> [Connections -> Entries \cup {Null}]]
  /\ users \in [Users -> Passcodes \cup {Null}]
  /\ activeUsers \in [Connections -> Users \cup {Null}]
  /\ messageCounter \in Nat

NoEntries == [c \in Connections |-> Null]

RegistryInit ==
  /\ connectionCounter = 0
  /\ activeConnections = {}
  /\ topicSubscriptions = [t \in Topics |-> Null]
  /\ subscribers = [m \in Maps |-> NoEntries]
  /\ users = [u \in Users |-> Null]
  /\ activeUsers = NoEntries
  /\ messageCounter = 0

-----------------------------------------------------------------------------
(* register, called for a new connection with the next id of the counter *)
Register ==
  /\ connectionCounter < MaxConnections
  /\ connectionCounter' = connectionCounter + 1
  /\ activeConnections' = activeConnections \cup {connectionCounter + 1}
  /\ UNCHANGED <<topicTables, userTables, messageCounter>>

(* disconnect, first line *)
RemoveConnection(c) ==
  /\ activeConnections' = activeConnections \ {c}
  /\ UNCHANGED <<connectionCounter, topicTables, userTables, messageCounter>>

(* disconnect, last line *)
RemoveActiveUser(c) ==
  /\ activeUsers' = [activeUsers EXCEPT ![c] = Null]
  /\ UNCHANGED <<connectionTables, topicTables, users, messageCounter>>

(***************************************************************************)
(* containsValue walks the table and is not atomic. A user enters          *)
(* activeUsers at most once, when it registers, so the walk answers as a   *)
(* read of the whole table at one moment during the walk would.            *)
(***************************************************************************)
IsUserActive(u) == \E c \in Connections : activeUsers[c] = u

(* the branch of authenticateUser, in the monitor of users, that registers *)
RegisterUser(c, u, password) ==
  /\ users' = [users EXCEPT ![u] = password]
  /\ activeUsers' = [activeUsers EXCEPT ![c] = u]
  /\ UNCHANGED <<connectionTables, topicTables, messageCounter>>

(* putIfAbsent(topic, new ConcurrentHashMap<>()): m is a new object *)
PutTopicIfAbsent(t, m) ==
  /\ \/ /\ topicSubscriptions[t] = Null
        /\ topicSubscriptions' = [topicSubscriptions EXCEPT ![t] = m]
        /\ subscribers' = [subscribers EXCEPT ![m] = NoEntries]
     \/ /\ topicSubscriptions[t] # Null
        /\ UNCHANGED topicTables
  /\ UNCHANGED <<connectionTables, userTables, messageCounter>>

PutSubscriber(m, c, entry) ==
  /\ subscribers' = [subscribers EXCEPT ![m][c] = entry]
  /\ UNCHANGED <<connectionTables, topicSubscriptions, userTables,
                 messageCounter>>

RemoveSubscriber(m, c) == PutSubscriber(m, c, Null)

RemoveTopic(t) ==
  /\ topicSubscriptions' = [topicSubscriptions EXCEPT ![t] = Null]
  /\ UNCHANGED <<connectionTables, subscribers, userTables, messageCounter>>

GetNextMessageId ==
  /\ messageCounter' = messageCounter + 1
  /\ UNCHANGED <<connectionTables, topicTables, userTables>>

(* The entries that the tables hold for c: none is left once c is gone. *)
Forgotten(c) ==
  /\ c \notin activeConnections
  /\ activeUsers[c] = Null
  /\ \A t \in Topics : topicSubscriptions[t] # Null
                         => subscribers[topicSubscriptions[t]][c] = Null
=============================================================================
