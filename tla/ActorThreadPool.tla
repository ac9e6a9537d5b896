--------------------------- MODULE ActorThreadPool ---------------------------
(***************************************************************************)
(* The thread pool the reactor hands its protocol tasks to                 *)
(* (srv/ActorThreadPool.java). A task is submitted for an actor, here the  *)
(* connection handler. An actor that is playing has one task in the hands  *)
(* of the executor; its later tasks wait in a queue of their own. The      *)
(* bodies of submit and complete hold the actor's monitor and touch that   *)
(* actor's entries only, so each of them is one step.                      *)
(***************************************************************************)
EXTENDS Naturals, Sequences

CONSTANTS
  Actors,    \* the connection handlers
  Threads,   \* the threads of the executor: newFixedThreadPool(threads)
  MaxTasks,  \* bound: the tasks submitted for one actor
  Nothing    \* what an idle thread runs

ASSUME PoolAssumption ==
  /\ MaxTasks \in Nat
  /\ Nothing \notin [act : Actors, task : 1..MaxTasks]
  /\ Nothing \notin 1..MaxTasks

VARIABLES
  acts,        \* acts[a]: the waiting tasks of a; an absent entry is an empty queue
  playingNow,  \* the actors one of whose tasks was given to the executor
  handed,      \* the tasks given to the executor that no thread runs yet
  running,     \* running[t]: the task thread t runs
  submitted,   \* submitted[a]: the number of tasks submitted for a so far
  executed,    \* history: the tasks of a that have ended, in that order
  stopped      \* shutdown() was called

vars == <<acts, playingNow, handed, running, submitted, executed, stopped>>

Item(a, n) == [act |-> a, task |-> n]

Items == [act : Actors, task : 1..MaxTasks]

TypeOK ==
  /\ acts \in [Actors -> Seq(1..MaxTasks)]
  /\ playingNow \in SUBSET Actors
  /\ handed \in SUBSET Items
  /\ running \in [Threads -> Items \cup {Nothing}]
  /\ submitted \in [Actors -> 0..MaxTasks]
  /\ executed \in [Actors -> Seq(1..MaxTasks)]
  /\ stopped \in BOOLEAN

Init ==
  /\ acts = [a \in Actors |-> <<>>]
  /\ playingNow = {}
  /\ handed = {}
  /\ running = [t \in Threads |-> Nothing]
  /\ submitted = [a \in Actors |-> 0]
  /\ executed = [a \in Actors |-> <<>>]
  /\ stopped = FALSE

-----------------------------------------------------------------------------
(* submit(act, r), called by the selector thread only, which never calls it *)
(* again after it has shut the pool down.                                  *)

(* Mutant: the test of playingNow is dropped. *)
SubmitWithoutCheck(a) ==
  /\ ~stopped
  /\ submitted[a] < MaxTasks
  /\ submitted' = [submitted EXCEPT ![a] = @ + 1]
  /\ playingNow' = playingNow \cup {a}
  /\ handed' = handed \cup {Item(a, submitted[a] + 1)}
  /\ UNCHANGED <<acts, running, executed, stopped>>

Submit(a) ==
  /\ ~stopped
  /\ submitted[a] < MaxTasks
  /\ submitted' = [submitted EXCEPT ![a] = @ + 1]
  /\ \/ /\ a \notin playingNow
        /\ playingNow' = playingNow \cup {a}
        /\ handed' = handed \cup {Item(a, submitted[a] + 1)}
        /\ UNCHANGED acts
     \/ /\ a \in playingNow
        /\ acts' = [acts EXCEPT ![a] = Append(@, submitted[a] + 1)]
        /\ UNCHANGED <<playingNow, handed>>
  /\ UNCHANGED <<running, executed, stopped>>

(***************************************************************************)
(* An idle thread of the executor begins a task it was given. A thread that *)
(* was created for a task begins with that one, ahead of what waits in the  *)
(* executor's queue, so tasks of different actors may overtake each other.  *)
(***************************************************************************)
Take(t) ==
  /\ running[t] = Nothing
  /\ \E item \in handed :
       /\ running' = [running EXCEPT ![t] = item]
       /\ handed' = handed \ {item}
  /\ UNCHANGED <<acts, playingNow, submitted, executed, stopped>>

(* Mutant: the actor stops playing although tasks of it still wait. *)
CompleteAndForget(t) ==
  /\ running[t] # Nothing
  /\ LET a == running[t].act
     IN  /\ executed' = [executed EXCEPT ![a] = Append(@, running[t].task)]
         /\ playingNow' = playingNow \ {a}
  /\ running' = [running EXCEPT ![t] = Nothing]
  /\ UNCHANGED <<acts, handed, submitted, stopped>>

(* Mutant: the most recent of the waiting tasks is resumed first. *)
CompleteWithLatest(t) ==
  /\ running[t] # Nothing
  /\ LET a == running[t].act
         last == Len(acts[a])
     IN  /\ executed' = [executed EXCEPT ![a] = Append(@, running[t].task)]
         /\ \/ /\ acts[a] = <<>>
               /\ playingNow' = playingNow \ {a}
               /\ UNCHANGED <<acts, handed>>
            \/ /\ acts[a] # <<>>
               /\ acts' = [acts EXCEPT ![a] = SubSeq(@, 1, last - 1)]
               /\ handed' = IF stopped THEN handed
                            ELSE handed \cup {Item(a, acts[a][last])}
               /\ UNCHANGED playingNow
  /\ running' = [running EXCEPT ![t] = Nothing]
  /\ UNCHANGED <<submitted, stopped>>

(* Mutant: the test of pending.isEmpty() is dropped and poll() yields null. *)
CompleteWithoutEmptyTest(t) ==
  /\ running[t] # Nothing
  /\ LET a == running[t].act
     IN  /\ executed' = [executed EXCEPT ![a] = Append(@, running[t].task)]
         /\ acts' = [acts EXCEPT ![a] = IF @ = <<>> THEN @ ELSE Tail(@)]
         /\ handed' = IF stopped THEN handed
                      ELSE handed \cup
                        {Item(a, IF acts[a] = <<>> THEN Nothing
                                 ELSE Head(acts[a]))}
  /\ running' = [running EXCEPT ![t] = Nothing]
  /\ UNCHANGED <<playingNow, submitted, stopped>>

(***************************************************************************)
(* The run of a task ends, normally or with an exception, and the finally  *)
(* clause calls complete(act). Once the executor was shut down it rejects  *)
(* the next task: that task was already polled, and the actor stays in     *)
(* playingNow.                                                             *)
(***************************************************************************)
Complete(t) ==
  /\ running[t] # Nothing
  /\ LET a == running[t].act
     IN  /\ executed' = [executed EXCEPT ![a] = Append(@, running[t].task)]
         /\ \/ /\ acts[a] = <<>>
               /\ playingNow' = playingNow \ {a}
               /\ UNCHANGED <<acts, handed>>
            \/ /\ acts[a] # <<>>
               /\ acts' = [acts EXCEPT ![a] = Tail(@)]
               /\ handed' = IF stopped THEN handed
                            ELSE handed \cup {Item(a, Head(acts[a]))}
               /\ UNCHANGED playingNow
  /\ running' = [running EXCEPT ![t] = Nothing]
  /\ UNCHANGED <<submitted, stopped>>

(* Mutant: shutdown() in place of shutdownNow(): queued tasks are still run. *)
ShutdownKeepingQueue ==
  /\ ~stopped
  /\ stopped' = TRUE
  /\ UNCHANGED <<acts, playingNow, handed, running, submitted, executed>>

(* shutdown(): shutdownNow() drops the queue of the executor. *)
Shutdown ==
  /\ ~stopped
  /\ stopped' = TRUE
  /\ handed' = {}
  /\ UNCHANGED <<acts, playingNow, running, submitted, executed>>

Next ==
  \/ \E a \in Actors : Submit(a)
  \/ \E t \in Threads : Take(t) \/ Complete(t)
  \/ Shutdown

Spec == Init /\ [][Next]_vars

(* A thread of the executor that can take a task does so, and the tasks end: *)
(* the protocol never blocks inside process().                               *)
Fairness == \A t \in Threads : WF_vars(Take(t)) /\ WF_vars(Complete(t))

FairSpec == Spec /\ Fairness

-----------------------------------------------------------------------------
Queued(a) == {item \in handed : item.act = a}

Runners(a) == {t \in Threads : running[t] # Nothing /\ running[t].act = a}

(* The executor holds at most one task of an actor: never two queued, never *)
(* two running, never one of each. The tasks of a connection read and write *)
(* the decoder and the protocol object with no lock of their own, so two of *)
(* them at once would corrupt both.                                         *)
Exclusive ==
  \A a \in Actors :
    /\ \A i, j \in Queued(a) : i = j
    /\ \A t, u \in Runners(a) : t = u
    /\ Queued(a) = {} \/ Runners(a) = {}

(* A waiting task is never stranded: while the pool runs, an actor with     *)
(* waiting tasks is in playingNow and has a task in the executor, whose     *)
(* completion resumes the others.                                           *)
NoneStranded ==
  ~stopped => \A a \in Actors :
    /\ acts[a] # <<>> => a \in playingNow
    /\ a \in playingNow => Queued(a) # {} \/ Runners(a) # {}

(* The tasks of an actor end in the order of their submission and none is   *)
(* skipped or repeated: the bytes of a connection reach its decoder in the  *)
(* order in which the selector read them.                                   *)
InOrder ==
  \A a \in Actors : \A i \in 1..Len(executed[a]) : executed[a][i] = i

(* Every submitted task is executed, unless the pool is shut down first.    *)
EveryTaskRuns ==
  \A a \in Actors, n \in 1..MaxTasks :
    submitted[a] >= n ~> Len(executed[a]) >= n \/ stopped

-----------------------------------------------------------------------------
(* The pool implements a mailbox per actor. *)

MailOf(a) ==
  IF stopped THEN <<>>
  ELSE IF Queued(a) = {} THEN acts[a]
  ELSE <<(CHOOSE item \in Queued(a) : TRUE).task>> \o acts[a]

BusyOf(a) ==
  IF Runners(a) = {} THEN Nothing
  ELSE running[CHOOSE t \in Runners(a) : TRUE].task

Mailbox == INSTANCE ActorMailbox WITH
  mail <- [a \in Actors |-> MailOf(a)],
  busy <- [a \in Actors |-> BusyOf(a)]

(* Threads, monitors and the table of playing actors implement one mailbox  *)
(* per actor, whose tasks are executed one at a time and in order.          *)
ImplementsMailbox == Mailbox!Spec
=============================================================================
