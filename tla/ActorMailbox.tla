---------------------------- MODULE ActorMailbox ----------------------------
(***************************************************************************)
(* What the thread pool of the reactor promises to the object that submits *)
(* work to it: every actor has a mailbox, its tasks are executed one at a  *)
(* time, each of them once and in the order in which they were posted.     *)
(* Threads, locks and the table of playing actors do not appear here.      *)
(***************************************************************************)
EXTENDS Naturals, Sequences

CONSTANTS
  Actors,    \* the objects that tasks are submitted for
  MaxTasks,  \* bound: the tasks submitted for one actor
  Nothing    \* the value of an actor that executes no task

VARIABLES
  submitted,  \* submitted[a]: how many tasks were posted for a; task n is the n-th
  mail,       \* mail[a]: the posted tasks that have not begun
  busy,       \* busy[a]: the task a executes, or Nothing
  executed,   \* executed[a]: the tasks of a that have ended, in that order
  stopped     \* the pool was shut down

vars == <<submitted, mail, busy, executed, stopped>>

Init ==
  /\ submitted = [a \in Actors |-> 0]
  /\ mail = [a \in Actors |-> <<>>]
  /\ busy = [a \in Actors |-> Nothing]
  /\ executed = [a \in Actors |-> <<>>]
  /\ stopped = FALSE

Post(a) ==
  /\ ~stopped
  /\ submitted[a] < MaxTasks
  /\ submitted' = [submitted EXCEPT ![a] = @ + 1]
  /\ mail' = [mail EXCEPT ![a] = Append(@, submitted[a] + 1)]
  /\ UNCHANGED <<busy, executed, stopped>>

Begin(a) ==
  /\ busy[a] = Nothing
  /\ mail[a] # <<>>
  /\ busy' = [busy EXCEPT ![a] = Head(mail[a])]
  /\ mail' = [mail EXCEPT ![a] = Tail(@)]
  /\ UNCHANGED <<submitted, executed, stopped>>

End(a) ==
  /\ busy[a] # Nothing
  /\ executed' = [executed EXCEPT ![a] = Append(@, busy[a])]
  /\ busy' = [busy EXCEPT ![a] = Nothing]
  /\ UNCHANGED <<submitted, mail, stopped>>

(* A shutdown forgets what has not begun; what is being executed still ends. *)
Stop ==
  /\ ~stopped
  /\ stopped' = TRUE
  /\ mail' = [a \in Actors |-> <<>>]
  /\ UNCHANGED <<submitted, busy, executed>>

Next ==
  \/ \E a \in Actors : Post(a) \/ Begin(a) \/ End(a)
  \/ Stop

Spec == Init /\ [][Next]_vars
=============================================================================
