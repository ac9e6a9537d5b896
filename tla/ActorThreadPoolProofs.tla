----------------------- MODULE ActorThreadPoolProofs -----------------------
(***************************************************************************)
(* The safety of the pool for any number of actors, threads and tasks, and *)
(* that it implements a mailbox per actor.                                 *)
(***************************************************************************)
EXTENDS ActorThreadPool, SequenceTheorems, TLAPS

(* The elements of s are the numbers that follow k, without a gap. *)
Follows(s, k) == \A i \in 1..Len(s) : s[i] = k + i

(***************************************************************************)
(* Exclusive, NoneStranded and InOrder are not inductive: what a thread    *)
(* completes is in order because what the executor holds is the next task  *)
(* of its actor, and what is resumed is the next one because the waiting   *)
(* tasks follow it without a gap.                                          *)
(***************************************************************************)
NextTask ==
  /\ \A item \in handed : item.task = Len(executed[item.act]) + 1
  /\ \A t \in Threads : running[t] # Nothing
       => running[t].task = Len(executed[running[t].act]) + 1

Waiting(a) ==
  /\ a \notin playingNow =>
       /\ acts[a] = <<>>
       /\ Queued(a) = {}
       /\ Runners(a) = {}
       /\ submitted[a] = Len(executed[a])
  /\ a \in playingNow =>
       /\ Queued(a) # {} \/ Runners(a) # {}
       /\ submitted[a] = Len(executed[a]) + 1 + Len(acts[a])
  /\ Follows(acts[a], Len(executed[a]) + 1)

PoolInv ==
  /\ TypeOK
  /\ Exclusive
  /\ InOrder
  /\ NextTask
  /\ stopped => handed = {}
  /\ ~stopped => \A a \in Actors : Waiting(a)

(* Appending the next number, and removing the first one. *)
LEMMA AppendFollows ==
  ASSUME NEW S, NEW s \in Seq(S), NEW k \in Nat, Follows(s, k),
         NEW e \in S, e = k + Len(s) + 1
  PROVE  /\ Append(s, e) \in Seq(S)
         /\ Len(Append(s, e)) = Len(s) + 1
         /\ Follows(Append(s, e), k)
<1>1. /\ Append(s, e) \in Seq(S)
      /\ Len(Append(s, e)) = Len(s) + 1
      /\ \A i \in 1..Len(s) : Append(s, e)[i] = s[i]
      /\ Append(s, e)[Len(s) + 1] = e
  BY AppendProperties
<1>2. Len(s) \in Nat
  BY LenProperties
<1>3. ASSUME NEW i \in 1..(Len(s) + 1) PROVE Append(s, e)[i] = k + i
  <2>1. CASE i \in 1..Len(s)
    BY <1>1, <2>1 DEF Follows
  <2>2. CASE i = Len(s) + 1
    BY <1>1, <1>2, <2>2
  <2> QED
    BY <1>2, <2>1, <2>2
<1> QED
  BY <1>1, <1>3 DEF Follows

LEMMA TailFollows ==
  ASSUME NEW S, NEW s \in Seq(S), NEW k \in Nat, Follows(s, k), s # <<>>
  PROVE  /\ Head(s) \in S /\ Head(s) = k + 1
         /\ Tail(s) \in Seq(S)
         /\ Len(Tail(s)) \in Nat
         /\ Len(s) = Len(Tail(s)) + 1
         /\ Follows(Tail(s), k + 1)
<1>1. /\ Head(s) \in S
      /\ Tail(s) \in Seq(S)
      /\ Len(Tail(s)) = Len(s) - 1
      /\ \A i \in 1..Len(Tail(s)) : Tail(s)[i] = s[i + 1]
  BY HeadTailProperties
<1>2. Len(s) \in Nat \ {0} /\ Head(s) = s[1]
  BY EmptySeq, LenProperties
<1>3. Head(s) = k + 1
  BY <1>2 DEF Follows
<1>4. ASSUME NEW i \in 1..Len(Tail(s)) PROVE Tail(s)[i] = k + 1 + i
  <2>1. i + 1 \in 1..Len(s) /\ Tail(s)[i] = s[i + 1]
    BY <1>1, <1>2
  <2>2. s[i + 1] = k + (i + 1)
    BY <2>1 DEF Follows
  <2> QED
    BY <2>1, <2>2
<1>5. Follows(Tail(s), k + 1)
  BY <1>4 DEF Follows
<1> QED
  BY <1>1, <1>2, <1>3, <1>5

LEMMA EmptyFollows == \A k : Follows(<<>>, k)
<1>1. Len(<<>>) = 0
  BY EmptySeq
<1> QED
  BY <1>1 DEF Follows

(* The invariant holds of the new pool. *)
LEMMA PoolInvInit == Init => PoolInv
<1> SUFFICES ASSUME Init PROVE PoolInv
  OBVIOUS
<1> USE DEF Init
<1>0. <<>> \in Seq(1..MaxTasks) /\ Len(<<>>) = 0
  BY EmptySeq
<1>1. TypeOK
  <2>1. /\ acts \in [Actors -> Seq(1..MaxTasks)]
        /\ executed \in [Actors -> Seq(1..MaxTasks)]
    BY <1>0
  <2>2. running \in [Threads -> Items \cup {Nothing}]
    OBVIOUS
  <2>3. submitted \in [Actors -> 0..MaxTasks]
    BY PoolAssumption
  <2> QED
    BY <2>1, <2>2, <2>3 DEF TypeOK
<1>2. \A a \in Actors : Queued(a) = {} /\ Runners(a) = {}
  BY DEF Queued, Runners
<1>3. Exclusive /\ InOrder /\ NextTask
  BY <1>0, <1>2 DEF Exclusive, InOrder, NextTask
<1>4. ASSUME NEW a \in Actors PROVE Waiting(a)
  <2>1. acts[a] = <<>> /\ executed[a] = <<>> /\ submitted[a] = 0 /\ a \notin playingNow
    OBVIOUS
  <2>2. Follows(acts[a], Len(executed[a]) + 1)
    BY <2>1, EmptyFollows
  <2> QED
    BY <1>0, <1>2, <2>1, <2>2 DEF Waiting
<1> QED
  BY <1>1, <1>3, <1>4 DEF PoolInv

(* Facts about the executor's tasks that only need the types. *)
LEMMA ItemFacts ==
  ASSUME NEW a \in Actors, NEW n \in 1..MaxTasks
  PROVE  /\ Item(a, n) \in Items
         /\ Item(a, n).act = a
         /\ Item(a, n).task = n
         /\ Item(a, n) # Nothing
  BY PoolAssumption DEF Item, Items

(* A submitted task is the next one, or waits behind the last one. *)
LEMMA PoolInvSubmit ==
  ASSUME PoolInv, NEW a \in Actors, Submit(a)
  PROVE PoolInv'
<1> DEFINE n == submitted[a] + 1
<1>0. /\ TypeOK /\ Exclusive /\ InOrder /\ NextTask
      /\ stopped => handed = {}
      /\ ~stopped => \A x \in Actors : Waiting(x)
  BY DEF PoolInv
<1>1. /\ ~stopped
      /\ submitted' = [submitted EXCEPT ![a] = n]
      /\ UNCHANGED <<running, executed, stopped>>
      /\ n \in 1..MaxTasks
  BY <1>0, PoolAssumption DEF Submit, TypeOK
<1>2. /\ submitted' \in [Actors -> 0..MaxTasks]
      /\ running' \in [Threads -> Items \cup {Nothing}]
      /\ executed' \in [Actors -> Seq(1..MaxTasks)]
      /\ stopped' \in BOOLEAN
  BY <1>0, <1>1 DEF TypeOK
<1>3. Waiting(a) /\ Len(executed[a]) \in Nat
  BY <1>0, <1>1, LenProperties DEF TypeOK
<1>4. \A b \in Actors : Runners(b)' = Runners(b)
  BY <1>1 DEF Runners
<1>5. InOrder'
  BY <1>0, <1>1 DEF InOrder
<1>6. CASE a \notin playingNow
  <2>1. /\ handed' = handed \cup {Item(a, n)}
        /\ playingNow' = playingNow \cup {a}
        /\ acts' = acts
    BY <1>6 DEF Submit
  <2>2. TypeOK'
    BY <1>0, <1>1, <1>2, <2>1, ItemFacts DEF TypeOK
  <2>3. /\ acts[a] = <<>> /\ Queued(a) = {} /\ Runners(a) = {}
        /\ submitted[a] = Len(executed[a])
    BY <1>3, <1>6 DEF Waiting
  <2>4. \A b \in Actors : Queued(b)' = IF b = a THEN {Item(a, n)} ELSE Queued(b)
    BY <1>1, <2>1, <2>3, ItemFacts DEF Queued
  <2>5. Exclusive'
    BY <1>0, <1>4, <2>3, <2>4 DEF Exclusive
  <2>6. NextTask'
    BY <1>0, <1>1, <2>1, <2>3, ItemFacts DEF NextTask
  <2>7. ASSUME NEW b \in Actors PROVE Waiting(b)'
    <3>1. CASE b = a
      <4>1. Len(acts[a]) = 0 /\ Follows(acts[a], Len(executed[a]) + 1)
        BY <2>3, EmptySeq, EmptyFollows
      <4>2. submitted'[a] = Len(executed[a]) + 1 + Len(acts[a])
        <5>1. submitted'[a] = Len(executed[a]) + 1
          BY <1>0, <1>1, <2>3 DEF TypeOK
        <5> QED
          BY <1>3, <4>1, <5>1
      <4>3. a \in playingNow' /\ Queued(a)' # {}
        BY <2>1, <2>4
      <4> QED
        BY <1>1, <2>1, <3>1, <4>1, <4>2, <4>3 DEF Waiting
    <3>2. CASE b # a
      BY <1>0, <1>1, <1>4, <2>1, <2>4, <3>2 DEF Waiting, TypeOK
    <3> QED
      BY <3>1, <3>2
  <2> QED
    BY <1>1, <1>5, <2>2, <2>5, <2>6, <2>7 DEF PoolInv
<1>7. CASE a \in playingNow
  <2>1. /\ acts' = [acts EXCEPT ![a] = Append(@, n)]
        /\ UNCHANGED <<handed, playingNow>>
    BY <1>7 DEF Submit
  <2>2. /\ acts[a] \in Seq(1..MaxTasks)
        /\ Len(acts[a]) \in Nat
        /\ submitted[a] = Len(executed[a]) + 1 + Len(acts[a])
        /\ Queued(a) # {} \/ Runners(a) # {}
    BY <1>0, <1>3, <1>7, LenProperties DEF Waiting, TypeOK
  <2>3. /\ acts'[a] \in Seq(1..MaxTasks)
        /\ Len(acts'[a]) = Len(acts[a]) + 1
        /\ Follows(acts'[a], Len(executed[a]) + 1)
        /\ \A b \in Actors : b # a => acts'[b] = acts[b]
    <3>1. acts'[a] = Append(acts[a], n)
      BY <1>0, <2>1 DEF TypeOK
    <3>2. n = (Len(executed[a]) + 1) + Len(acts[a]) + 1
      BY <1>3, <2>2
    <3>3. Follows(acts[a], Len(executed[a]) + 1) /\ Len(executed[a]) + 1 \in Nat
      BY <1>3 DEF Waiting
    <3>4. /\ Append(acts[a], n) \in Seq(1..MaxTasks)
          /\ Len(Append(acts[a], n)) = Len(acts[a]) + 1
          /\ Follows(Append(acts[a], n), Len(executed[a]) + 1)
      <4> HIDE DEF n
      <4> QED
        BY <1>1, <2>2, <3>2, <3>3, AppendFollows
    <3>5. \A b \in Actors : b # a => acts'[b] = acts[b]
      BY <1>0, <2>1 DEF TypeOK
    <3> QED
      BY <3>1, <3>4, <3>5
  <2>4. acts' \in [Actors -> Seq(1..MaxTasks)]
    BY <1>0, <2>1, <2>3 DEF TypeOK
  <2>5. TypeOK'
    BY <1>0, <1>2, <2>1, <2>4 DEF TypeOK
  <2>6. \A b \in Actors : Queued(b)' = Queued(b)
    BY <2>1 DEF Queued
  <2>7. Exclusive' /\ NextTask'
    BY <1>0, <1>1, <1>4, <2>1, <2>6 DEF Exclusive, NextTask
  <2>8. ASSUME NEW b \in Actors PROVE Waiting(b)'
    <3>1. CASE b = a
      <4>2. submitted'[a] = Len(executed[a]) + 1 + Len(acts'[a])
        <5> DEFINE e == Len(executed[a])
                   w == Len(acts[a])
                   v == Len(acts'[a])
                   x == submitted[a]
        <5>1. submitted'[a] = x + 1
          BY <1>0, <1>1 DEF TypeOK
        <5>2. e \in Nat /\ w \in Nat /\ v = w + 1 /\ x = e + 1 + w
          BY <1>3, <2>2, <2>3
        <5>3. x + 1 = e + 1 + v
          <6> HIDE DEF e, w, v, x
          <6> QED
            BY <5>2
        <5> QED
          BY <5>1, <5>3
      <4>3. /\ a \in playingNow' /\ executed'[a] = executed[a]
            /\ Queued(a)' # {} \/ Runners(a)' # {}
        BY <1>1, <1>4, <1>7, <2>1, <2>2, <2>6
      <4> QED
        BY <2>3, <3>1, <4>2, <4>3 DEF Waiting
    <3>2. CASE b # a
      BY <1>0, <1>1, <1>4, <2>1, <2>3, <2>6, <3>2 DEF Waiting, TypeOK
    <3> QED
      BY <3>1, <3>2
  <2> QED
    BY <1>1, <1>5, <2>5, <2>7, <2>8 DEF PoolInv
<1> QED
  BY <1>6, <1>7

(* A thread takes what the executor holds: the task keeps its place. *)
LEMMA PoolInvTake ==
  ASSUME PoolInv, NEW t \in Threads, Take(t)
  PROVE PoolInv'
<1>0. /\ TypeOK /\ Exclusive /\ InOrder /\ NextTask
      /\ stopped => handed = {}
      /\ ~stopped => \A x \in Actors : Waiting(x)
  BY DEF PoolInv
<1>1. PICK item \in handed : /\ running' = [running EXCEPT ![t] = item]
                             /\ handed' = handed \ {item}
  BY DEF Take
<1>2. /\ running[t] = Nothing
      /\ item \in Items /\ item # Nothing
      /\ item.act \in Actors
      /\ UNCHANGED <<acts, playingNow, submitted, executed, stopped>>
      /\ ~stopped
  BY <1>0, <1>1, PoolAssumption DEF Take, TypeOK, Items
<1>3. TypeOK'
  BY <1>0, <1>1, <1>2 DEF TypeOK
<1>4. Runners(item.act) = {} /\ Queued(item.act) = {item}
  BY <1>0, <1>1, <1>2 DEF Exclusive, Queued
<1>5. ASSUME NEW b \in Actors
      PROVE  /\ Queued(b)' = IF b = item.act THEN {} ELSE Queued(b)
             /\ Runners(b)' = IF b = item.act THEN {t} ELSE Runners(b)
  BY <1>0, <1>1, <1>2, <1>4 DEF Queued, Runners, TypeOK
<1>6. Exclusive'
  BY <1>0, <1>5 DEF Exclusive
<1>7. InOrder' /\ NextTask'
  BY <1>0, <1>1, <1>2 DEF InOrder, NextTask, TypeOK
<1>8. ASSUME NEW b \in Actors PROVE Waiting(b)'
  <2>1. Waiting(b) /\ (b = item.act => b \in playingNow)
    BY <1>0, <1>1, <1>2 DEF Waiting, Queued
  <2> QED
    BY <1>2, <1>5, <2>1 DEF Waiting
<1> QED
  BY <1>2, <1>3, <1>6, <1>7, <1>8 DEF PoolInv

(***************************************************************************)
(* The task that ends is the next one; the one that is resumed follows it. *)
(* After a shutdown only the order of what has ended matters.              *)
(***************************************************************************)
LEMMA PoolInvComplete ==
  ASSUME PoolInv, NEW t \in Threads, Complete(t)
  PROVE PoolInv'
<1>0. /\ TypeOK /\ Exclusive /\ InOrder /\ NextTask
      /\ stopped => handed = {}
      /\ ~stopped => \A x \in Actors : Waiting(x)
  BY DEF PoolInv
<1>a. running[t] \in Items
  BY <1>0 DEF Complete, TypeOK
<1>b. PICK a \in Actors, n \in 1..MaxTasks : running[t].act = a /\ running[t].task = n
  BY <1>a DEF Items
<1>1. /\ running[t] # Nothing
      /\ executed' = [executed EXCEPT ![a] = Append(@, n)]
      /\ running' = [running EXCEPT ![t] = Nothing]
      /\ UNCHANGED <<submitted, stopped>>
  BY <1>b DEF Complete
<1>2. /\ executed[a] \in Seq(1..MaxTasks)
      /\ Len(executed[a]) \in Nat
      /\ n = Len(executed[a]) + 1
      /\ acts[a] \in Seq(1..MaxTasks)
      /\ Len(acts[a]) \in Nat
  BY <1>0, <1>b, <1>1, LenProperties DEF TypeOK, NextTask
<1>3. /\ executed'[a] \in Seq(1..MaxTasks)
      /\ Len(executed'[a]) = n
      /\ \A i \in 1..Len(executed[a]) : executed'[a][i] = executed[a][i]
      /\ executed'[a][n] = n
      /\ \A b \in Actors : b # a => executed'[b] = executed[b]
  <2>1. executed'[a] = Append(executed[a], n)
    BY <1>0, <1>1 DEF TypeOK
  <2>2. /\ Append(executed[a], n) \in Seq(1..MaxTasks)
        /\ Len(Append(executed[a], n)) = Len(executed[a]) + 1
        /\ \A i \in 1..Len(executed[a]) : Append(executed[a], n)[i] = executed[a][i]
        /\ Append(executed[a], n)[Len(executed[a]) + 1] = n
    BY <1>1, <1>2, AppendProperties
  <2>3. \A b \in Actors : b # a => executed'[b] = executed[b]
    BY <1>0, <1>1 DEF TypeOK
  <2> QED
    BY <1>2, <2>1, <2>2, <2>3
<1>4. InOrder' /\ executed' \in [Actors -> Seq(1..MaxTasks)]
  <2>1. ASSUME NEW i \in 1..n PROVE executed'[a][i] = i
    <3>1. CASE i \in 1..Len(executed[a])
      BY <1>0, <1>1, <1>3, <3>1 DEF InOrder
    <3>2. CASE i = n
      BY <1>3, <3>2
    <3> QED
      BY <1>2, <3>1, <3>2
  <2>2. InOrder'
    BY <1>0, <1>3, <2>1 DEF InOrder
  <2> QED
    BY <1>0, <1>1, <1>3, <2>2 DEF TypeOK
<1>5. /\ Runners(a) = {t} /\ Queued(a) = {}
      /\ \A b \in Actors : Runners(b)' = IF b = a THEN {} ELSE Runners(b)
      /\ running' \in [Threads -> Items \cup {Nothing}]
  <2>1. Runners(a) = {t} /\ Queued(a) = {}
    BY <1>0, <1>b, <1>1 DEF Exclusive, Runners
  <2>2. running' \in [Threads -> Items \cup {Nothing}]
    BY <1>0, <1>1 DEF TypeOK
  <2>3. ASSUME NEW b \in Actors
        PROVE  Runners(b)' = IF b = a THEN {} ELSE Runners(b)
    BY <1>0, <1>b, <1>1, <2>1 DEF Runners, TypeOK
  <2> QED
    BY <2>1, <2>2, <2>3
<1>6. \A u \in Threads : running'[u] # Nothing
        => running'[u] = running[u] /\ running[u].act # a
  BY <1>0, <1>b, <1>1, <1>5 DEF Runners, TypeOK
<1>7. CASE acts[a] = <<>>
  <2>1. UNCHANGED <<acts, handed>> /\ playingNow' = playingNow \ {a}
    BY <1>b, <1>7 DEF Complete
  <2>2. \A b \in Actors : Queued(b)' = Queued(b)
    BY <2>1 DEF Queued
  <2>3. TypeOK'
    BY <1>0, <1>1, <1>4, <1>5, <2>1 DEF TypeOK
  <2>4. Exclusive'
    BY <1>0, <1>5, <2>2 DEF Exclusive
  <2>5. NextTask'
    <3>1. \A item \in handed : item.act # a /\ item.act \in Actors
      BY <1>0, <1>5 DEF Queued, TypeOK, Items
    <3> QED
      BY <1>0, <1>1, <1>3, <1>6, <2>1, <3>1 DEF NextTask, TypeOK, Items
  <2>6. ASSUME ~stopped, NEW b \in Actors PROVE Waiting(b)'
    <3>1. Waiting(b) /\ Waiting(a)
      BY <1>0, <1>1, <2>6
    <3>2. CASE b = a
      <4>1. a \in playingNow /\ Len(acts[a]) = 0
        BY <1>5, <1>7, <3>1, EmptySeq DEF Waiting
      <4>2. submitted[a] = n
        BY <1>2, <3>1, <4>1 DEF Waiting
      <4>3. Follows(acts'[a], Len(executed'[a]) + 1)
        BY <1>7, <2>1, EmptyFollows
      <4>4. a \notin playingNow' /\ acts'[a] = <<>>
        BY <1>7, <2>1
      <4>5. Queued(a)' = {} /\ Runners(a)' = {}
        BY <1>1, <1>5, <2>2
      <4>6. submitted'[a] = Len(executed'[a])
        BY <1>1, <1>3, <4>2
      <4> QED
        BY <3>2, <4>3, <4>4, <4>5, <4>6 DEF Waiting
    <3>3. CASE b # a
      BY <1>1, <1>3, <1>5, <2>1, <2>2, <3>1, <3>3 DEF Waiting
    <3> QED
      BY <3>2, <3>3
  <2> QED
    BY <1>0, <1>1, <1>4, <2>1, <2>3, <2>4, <2>5, <2>6 DEF PoolInv
<1>8. CASE acts[a] # <<>>
  <2> DEFINE next == Item(a, Head(acts[a]))
  <2>1. /\ acts' = [acts EXCEPT ![a] = Tail(@)]
        /\ handed' = IF stopped THEN handed ELSE handed \cup {next}
        /\ UNCHANGED playingNow
    BY <1>b, <1>8 DEF Complete
  <2>2. /\ Head(acts[a]) \in 1..MaxTasks
        /\ Tail(acts[a]) \in Seq(1..MaxTasks)
    BY <1>2, <1>8, HeadTailProperties
  <2>3. ASSUME ~stopped
        PROVE  /\ Head(acts[a]) = n + 1
               /\ Len(Tail(acts[a])) \in Nat
               /\ Len(acts[a]) = Len(Tail(acts[a])) + 1
               /\ Follows(Tail(acts[a]), n + 1)
    <3>1. Follows(acts[a], n)
      BY <1>0, <1>1, <1>2, <2>3 DEF Waiting
    <3> QED
      BY <1>1, <1>2, <1>8, <3>1, TailFollows
  <2>4. next \in Items /\ next.act = a /\ next.task = Head(acts[a])
    BY <1>1, <2>2, ItemFacts
  <2>5. /\ acts'[a] = Tail(acts[a])
        /\ \A b \in Actors : b # a => acts'[b] = acts[b]
    BY <1>0, <1>1, <2>1 DEF TypeOK
  <2>6. TypeOK'
    <3>1. acts' \in [Actors -> Seq(1..MaxTasks)]
      BY <1>0, <2>1, <2>2 DEF TypeOK
    <3>2. handed' \in SUBSET Items
      BY <1>0, <2>1, <2>4 DEF TypeOK
    <3> QED
      BY <1>0, <1>1, <1>4, <1>5, <2>1, <3>1, <3>2 DEF TypeOK
  <2>7. ASSUME NEW b \in Actors
        PROVE  Queued(b)' = IF b = a /\ ~stopped THEN {next} ELSE Queued(b)
    BY <1>5, <2>1, <2>4 DEF Queued
  <2>8. Exclusive'
    BY <1>0, <1>5, <2>7 DEF Exclusive
  <2>9. ~stopped => next.task = n + 1
    BY <2>3, <2>4
  <2>10. NextTask'
    <3>1. \A item \in handed : item.act # a /\ item.act \in Actors
      BY <1>0, <1>5 DEF Queued, TypeOK, Items
    <3>2. \A item \in handed' : item \in handed \/ (item = next /\ ~stopped)
      BY <2>1
    <3>3. \A item \in handed' : item.task = Len(executed'[item.act]) + 1
      <4>1. \A item \in handed : item.task = Len(executed'[item.act]) + 1
        BY <1>0, <1>3, <3>1 DEF NextTask
      <4>2. ~stopped => next.task = Len(executed'[next.act]) + 1
        BY <1>3, <2>4, <2>9
      <4> QED
        BY <3>2, <4>1, <4>2
    <3>4. \A u \in Threads : running'[u] # Nothing
            => running'[u].task = Len(executed'[running'[u].act]) + 1
      <4>1. \A u \in Threads : running[u] # Nothing => running[u].act \in Actors
        BY <1>0 DEF TypeOK, Items
      <4> QED
        BY <1>0, <1>3, <1>6, <4>1 DEF NextTask
    <3> QED
      BY <3>3, <3>4 DEF NextTask
  <2>11. ASSUME ~stopped, NEW b \in Actors PROVE Waiting(b)'
    <3>1. Waiting(b) /\ Waiting(a)
      BY <1>0, <1>1, <2>11
    <3>2. CASE b = a
      <4>1. a \in playingNow /\ submitted[a] = Len(executed[a]) + 1 + Len(acts[a])
        BY <1>8, <3>1 DEF Waiting
      <4>2. submitted[a] = n + 1 + Len(Tail(acts[a]))
        <5> DEFINE e == Len(executed[a])
                   w == Len(acts[a])
                   v == Len(Tail(acts[a]))
                   x == submitted[a]
        <5>1. w = v + 1 /\ v \in Nat
          BY <2>3, <2>11
        <5>2. e \in Nat /\ n = e + 1 /\ x = e + 1 + w
          BY <1>2, <4>1
        <5>3. x = n + 1 + v
          <6> HIDE DEF e, w, v, x
          <6> QED
            BY <5>1, <5>2
        <5> QED
          BY <5>3
      <4>3. Follows(acts'[a], Len(executed'[a]) + 1)
        BY <1>3, <2>3, <2>5, <2>11
      <4>4. a \in playingNow' /\ Queued(a)' # {}
        BY <1>1, <2>1, <2>7, <2>11, <4>1
      <4>5. submitted'[a] = Len(executed'[a]) + 1 + Len(acts'[a])
        BY <1>1, <1>3, <2>5, <4>2
      <4> QED
        BY <3>2, <4>3, <4>4, <4>5 DEF Waiting
    <3>3. CASE b # a
      BY <1>1, <1>3, <1>5, <2>1, <2>5, <2>7, <3>1, <3>3 DEF Waiting
    <3> QED
      BY <3>2, <3>3
  <2> QED
    BY <1>0, <1>1, <1>4, <2>1, <2>6, <2>8, <2>10, <2>11 DEF PoolInv
<1> QED
  BY <1>7, <1>8

(* A shutdown takes back what no thread has begun. *)
LEMMA PoolInvShutdown ==
  ASSUME PoolInv, Shutdown
  PROVE PoolInv'
<1>0. TypeOK /\ Exclusive /\ InOrder /\ NextTask
  BY DEF PoolInv
<1>1. TypeOK' /\ InOrder' /\ NextTask'
  BY <1>0 DEF Shutdown, TypeOK, InOrder, NextTask
<1>2. \A a \in Actors : Queued(a)' = {} /\ Runners(a)' = Runners(a)
  BY DEF Shutdown, Queued, Runners
<1>3. Exclusive'
  BY <1>0, <1>2 DEF Exclusive
<1> QED
  BY <1>1, <1>3 DEF PoolInv, Shutdown

(* Every step keeps the invariant. *)
LEMMA PoolInvNext == PoolInv /\ [Next]_vars => PoolInv'
<1> SUFFICES ASSUME PoolInv, [Next]_vars PROVE PoolInv'
  OBVIOUS
<1>1. ASSUME NEW a \in Actors, Submit(a) PROVE PoolInv'
  BY <1>1, PoolInvSubmit
<1>2. ASSUME NEW t \in Threads, Take(t) PROVE PoolInv'
  BY <1>2, PoolInvTake
<1>3. ASSUME NEW t \in Threads, Complete(t) PROVE PoolInv'
  BY <1>3, PoolInvComplete
<1>4. ASSUME Shutdown PROVE PoolInv'
  BY <1>4, PoolInvShutdown
<1>5. CASE UNCHANGED vars
  <2>1. \A a \in Actors : Queued(a)' = Queued(a) /\ Runners(a)' = Runners(a)
    BY <1>5 DEF vars, Queued, Runners
  <2>2. TypeOK' /\ InOrder' /\ NextTask'
    BY <1>5 DEF vars, PoolInv, TypeOK, InOrder, NextTask
  <2>3. Exclusive'
    BY <2>1 DEF PoolInv, Exclusive
  <2>4. \A a \in Actors : Waiting(a)' <=> Waiting(a)
    BY <1>5, <2>1 DEF vars, Waiting
  <2> QED
    BY <1>5, <2>2, <2>3, <2>4 DEF vars, PoolInv
<1> QED
  BY <1>1, <1>2, <1>3, <1>4, <1>5 DEF Next

(* What the other theorems about the pool rest on. *)
THEOREM PoolInvariant == Spec => []PoolInv
  BY PoolInvInit, PoolInvNext, PTL DEF Spec

(* The state has the types its declarations say. *)
THEOREM PoolTypes == Spec => []TypeOK
<1>1. PoolInv => TypeOK
  BY DEF PoolInv
<1> QED
  BY PoolInvariant, <1>1, PTL

(* However many threads the executor has, an actor has one task in it at   *)
(* most: two tasks of a connection never share its decoder.                *)
THEOREM PoolExclusive == Spec => []Exclusive
<1>1. PoolInv => Exclusive
  BY DEF PoolInv
<1> QED
  BY PoolInvariant, <1>1, PTL

(* Until the shutdown a waiting task has one of its actor before it in the *)
(* executor, whose end will resume it.                                     *)
THEOREM PoolStrandsNone == Spec => []NoneStranded
<1>1. PoolInv => NoneStranded
  BY DEF PoolInv, NoneStranded, Waiting
<1> QED
  BY PoolInvariant, <1>1, PTL

(* The tasks of an actor end in the order of their submission, none is     *)
(* skipped or repeated: submit and complete agree on who is playing.       *)
THEOREM PoolInOrder == Spec => []InOrder
<1>1. PoolInv => InOrder
  BY DEF PoolInv
<1> QED
  BY PoolInvariant, <1>1, PTL

-----------------------------------------------------------------------------
(* The mailbox: every step of the threads of the pool is a step of one       *)
(* mailbox, or none.                                                         *)

(* An element that is known to be the only one is the one that is chosen. *)
LEMMA ChooseOnly == \A x : (CHOOSE y \in {x} : TRUE) = x
  OBVIOUS

(* The sequence that begins with e and goes on with s. *)
LEMMA Prefixed ==
  ASSUME NEW S, NEW s \in Seq(S), NEW e \in S
  PROVE  /\ <<e>> \o s # <<>>
         /\ Head(<<e>> \o s) = e
         /\ Tail(<<e>> \o s) = s
         /\ <<e>> \o s \in Seq(S)
         /\ s # <<>> => <<Head(s)>> \o Tail(s) = s
<1>1. /\ <<e>> \in Seq(S) /\ Len(<<e>>) = 1 /\ <<e>>[1] = e
      /\ Len(s) \in Nat
  BY LenProperties
<1> DEFINE w == <<e>> \o s
<1>2. /\ w \in Seq(S) /\ Len(w) = 1 + Len(s)
      /\ w[1] = e
      /\ \A i \in 1..Len(s) : w[i + 1] = s[i]
  <2>1. /\ w \in Seq(S) /\ Len(w) = 1 + Len(s)
        /\ \A i \in 1..(1 + Len(s)) : w[i] = IF i <= 1 THEN <<e>>[i] ELSE s[i - 1]
    BY <1>1, ConcatProperties
  <2> HIDE DEF w
  <2>2. w[1] = e
    BY <1>1, <2>1
  <2>3. ASSUME NEW i \in 1..Len(s) PROVE w[i + 1] = s[i]
    <3>1. i + 1 \in 1..(1 + Len(s)) /\ ~(i + 1 <= 1) /\ (i + 1) - 1 = i
      BY <1>1
    <3> QED
      BY <2>1, <3>1
  <2> QED
    BY <2>1, <2>2, <2>3
<1>3. w # <<>>
  BY <1>1, <1>2, EmptySeq
<1>4. /\ Head(w) = e
      /\ Tail(w) \in Seq(S) /\ Len(Tail(w)) = Len(s)
      /\ \A i \in 1..Len(s) : Tail(w)[i] = s[i]
  <2> HIDE DEF w
  <2>1. /\ Head(w) = w[1]
        /\ Tail(w) \in Seq(S) /\ Len(Tail(w)) = Len(w) - 1
        /\ \A i \in 1..Len(Tail(w)) : Tail(w)[i] = w[i + 1]
    BY <1>2, <1>3, HeadTailProperties
  <2> QED
    BY <1>1, <1>2, <2>1
<1>5. Tail(w) = s
  BY <1>4, SeqEqual
<1>6. ASSUME s # <<>> PROVE <<Head(s)>> \o Tail(s) = s
  <2> DEFINE v == <<Head(s)>> \o Tail(s)
  <2>1. /\ Head(s) \in S /\ Head(s) = s[1]
        /\ Tail(s) \in Seq(S) /\ Len(Tail(s)) = Len(s) - 1
        /\ \A i \in 1..Len(Tail(s)) : Tail(s)[i] = s[i + 1]
    BY <1>6, HeadTailProperties
  <2>2. /\ <<Head(s)>> \in Seq(S) /\ Len(<<Head(s)>>) = 1
        /\ <<Head(s)>>[1] = Head(s)
    BY <2>1
  <2>3. /\ v \in Seq(S) /\ Len(v) = 1 + Len(Tail(s))
        /\ \A i \in 1..(1 + Len(Tail(s))) :
             v[i] = IF i <= 1 THEN <<Head(s)>>[i] ELSE Tail(s)[i - 1]
    BY <2>1, <2>2, ConcatProperties
  <2> HIDE DEF v
  <2>4. Len(v) = Len(s)
    BY <1>1, <2>1, <2>3
  <2>5. ASSUME NEW i \in 1..Len(v) PROVE v[i] = s[i]
    <3>1. CASE i = 1
      BY <2>1, <2>2, <2>3, <2>4, <3>1
    <3>2. CASE i # 1
      <4>1. i - 1 \in 1..Len(Tail(s)) /\ ~(i <= 1) /\ (i - 1) + 1 = i
        BY <1>1, <2>1, <2>4, <3>2
      <4>2. v[i] = Tail(s)[i - 1]
        BY <1>1, <2>1, <2>3, <2>4, <4>1
      <4> QED
        BY <2>1, <4>1, <4>2
    <3> QED
      BY <3>1, <3>2
  <2>6. v = s
    BY <2>3, <2>4, <2>5, SeqEqual
  <2> QED
    BY <2>6 DEF v
<1> QED
  BY <1>2, <1>3, <1>4, <1>5, <1>6

(* What the invariant says of one actor, its mail and its busy task. *)
LEMMA Abstracted ==
  ASSUME PoolInv, NEW a \in Actors
  PROVE  /\ acts[a] \in Seq(1..MaxTasks)
         /\ Runners(a) = {} => BusyOf(a) = Nothing
         /\ \A t : Runners(a) = {t} => BusyOf(a) = running[t].task
         /\ stopped => MailOf(a) = <<>>
         /\ ~stopped /\ Queued(a) = {} => MailOf(a) = acts[a]
         /\ \A item : ~stopped /\ Queued(a) = {item}
              => MailOf(a) = <<item.task>> \o acts[a]
<1>1. acts[a] \in Seq(1..MaxTasks)
  BY DEF PoolInv, TypeOK
<1>2. \A t : Runners(a) = {t} => BusyOf(a) = running[t].task
  BY ChooseOnly DEF BusyOf
<1>3. \A item : ~stopped /\ Queued(a) = {item}
        => MailOf(a) = <<item.task>> \o acts[a]
  BY ChooseOnly DEF MailOf
<1> QED
  BY <1>1, <1>2, <1>3 DEF MailOf, BusyOf

(* A new pool is a set of empty mailboxes. *)
LEMMA MailboxInit == Init => Mailbox!Init
<1> SUFFICES ASSUME Init PROVE Mailbox!Init
  OBVIOUS
<1>1. \A a \in Actors : Queued(a) = {} /\ Runners(a) = {}
  BY DEF Init, Queued, Runners
<1>2. ASSUME NEW a \in Actors PROVE MailOf(a) = <<>> /\ BusyOf(a) = Nothing
  BY <1>1 DEF Init, MailOf, BusyOf
<1>3. /\ [a \in Actors |-> MailOf(a)] = [a \in Actors |-> <<>>]
      /\ [a \in Actors |-> BusyOf(a)] = [a \in Actors |-> Nothing]
  BY <1>2
<1> QED
  BY <1>3 DEF Init, Mailbox!Init

(* What submit hands to the executor or lets wait is posted. *)
LEMMA MailboxPost ==
  ASSUME PoolInv, PoolInv', NEW a \in Actors, Submit(a)
  PROVE  Mailbox!Post(a)
<1> DEFINE n == submitted[a] + 1
<1>1. /\ ~stopped /\ submitted[a] < MaxTasks
      /\ submitted' = [submitted EXCEPT ![a] = @ + 1]
      /\ UNCHANGED <<running, executed, stopped>>
      /\ TypeOK /\ Waiting(a)
      /\ n \in 1..MaxTasks
  BY PoolAssumption DEF Submit, PoolInv, TypeOK
<1>2. ASSUME NEW b \in Actors PROVE BusyOf(b)' = BusyOf(b)
  BY <1>1 DEF BusyOf, Runners
<1>3. ASSUME NEW b \in Actors, b # a PROVE MailOf(b)' = MailOf(b)
  <2>1. acts'[b] = acts[b] /\ Queued(b)' = Queued(b)
    <3>1. CASE a \notin playingNow
      BY <1>1, <1>3, <3>1, ItemFacts DEF Submit, Queued
    <3>2. CASE a \in playingNow
      BY <1>1, <1>3, <3>2 DEF Submit, Queued, TypeOK
    <3> QED
      BY <3>1, <3>2
  <2> QED
    BY <1>1, <2>1 DEF MailOf
<1>4. MailOf(a)' = Append(MailOf(a), n)
  <2>1. CASE a \notin playingNow
    <3>1. /\ acts[a] = <<>> /\ Queued(a) = {}
          /\ acts' = acts /\ handed' = handed \cup {Item(a, n)}
      BY <1>1, <2>1 DEF Submit, Waiting
    <3>2. Queued(a)' = {Item(a, n)}
      BY <1>1, <3>1, ItemFacts DEF Queued
    <3>3. MailOf(a)' = <<n>> \o <<>>
      <4>1. acts'[a] = <<>> /\ ~stopped' /\ Item(a, n).task = n
        BY <1>1, <3>1, ItemFacts
      <4>2. MailOf(a)' = <<Item(a, n).task>> \o acts'[a]
        <5> HIDE DEF n
        <5> QED
          BY <3>2, <4>1, ChooseOnly DEF MailOf
      <4> QED
        BY <4>1, <4>2
    <3>4. MailOf(a) = <<>>
      BY <1>1, <3>1 DEF MailOf
    <3>5. <<n>> \o <<>> = Append(<<>>, n)
      OBVIOUS
    <3> QED
      BY <3>3, <3>4, <3>5
  <2>2. CASE a \in playingNow
    <3>1. /\ acts'[a] = Append(acts[a], n) /\ UNCHANGED handed
          /\ acts[a] \in Seq(1..MaxTasks)
      BY <1>1, <2>2 DEF Submit, TypeOK
    <3>2. Queued(a)' = Queued(a)
      BY <3>1 DEF Queued
    <3>3. CASE Queued(a) = {}
      BY <1>1, <3>1, <3>2, <3>3 DEF MailOf
    <3>4. CASE Queued(a) # {}
      <4>1. PICK item \in handed : Queued(a) = {item}
        BY <3>4 DEF PoolInv, Exclusive, Queued
      <4>2. item.task \in 1..MaxTasks
        BY <1>1 DEF TypeOK, Items
      <4>3. /\ MailOf(a) = <<item.task>> \o acts[a]
            /\ MailOf(a)' = <<item.task>> \o Append(acts[a], n)
        BY <1>1, <3>1, <3>2, <4>1, ChooseOnly DEF MailOf
      <4>4. <<item.task>> \in Seq(1..MaxTasks) /\ <<n>> \in Seq(1..MaxTasks)
        BY <1>1, <4>2
      <4>5. /\ <<item.task>> \o acts[a] \in Seq(1..MaxTasks)
            /\ Append(acts[a], n) = acts[a] \o <<n>>
        BY <1>1, <3>1, <4>4, AppendIsConcat, ConcatProperties
      <4>6. Append(<<item.task>> \o acts[a], n) = (<<item.task>> \o acts[a]) \o <<n>>
        BY <1>1, <4>5, AppendIsConcat
      <4>7. (<<item.task>> \o acts[a]) \o <<n>> = <<item.task>> \o (acts[a] \o <<n>>)
        <5> DEFINE x == <<item.task>>
                   y == acts[a]
                   z == <<n>>
        <5>1. /\ x \in Seq(1..MaxTasks)
              /\ y \in Seq(1..MaxTasks)
              /\ z \in Seq(1..MaxTasks)
          BY <3>1, <4>4
        <5> HIDE DEF x, y, z
        <5>2. (x \o y) \o z = x \o (y \o z)
          BY <5>1, ConcatAssociative
        <5> QED
          BY <5>2 DEF x, y, z
      <4> QED
        BY <4>3, <4>5, <4>6, <4>7
    <3> QED
      BY <3>3, <3>4
  <2> QED
    BY <2>1, <2>2
<1>5. /\ [b \in Actors |-> MailOf(b)]'
           = [[b \in Actors |-> MailOf(b)] EXCEPT ![a] = Append(@, submitted[a] + 1)]
      /\ [b \in Actors |-> BusyOf(b)]' = [b \in Actors |-> BusyOf(b)]
  BY <1>2, <1>3, <1>4
<1> QED
  BY <1>1, <1>5 DEF Mailbox!Post

(* A thread that takes a task begins the first one of a mailbox. *)
LEMMA MailboxBegin ==
  ASSUME PoolInv, NEW t \in Threads, Take(t)
  PROVE  \E a \in Actors : Mailbox!Begin(a)
<1>1. PICK item \in handed : /\ running' = [running EXCEPT ![t] = item]
                             /\ handed' = handed \ {item}
  BY DEF Take
<1> DEFINE a == item.act
<1>2. /\ running[t] = Nothing
      /\ item \in Items /\ item # Nothing
      /\ a \in Actors /\ item.task \in 1..MaxTasks
      /\ UNCHANGED <<acts, playingNow, submitted, executed, stopped>>
      /\ ~stopped
      /\ TypeOK /\ Exclusive
  BY <1>1, PoolAssumption DEF Take, PoolInv, TypeOK, Items
<1>3. Runners(a) = {} /\ Queued(a) = {item}
  BY <1>1, <1>2 DEF Exclusive, Queued
<1>4. ASSUME NEW b \in Actors
      PROVE  /\ Queued(b)' = IF b = a THEN {} ELSE Queued(b)
             /\ Runners(b)' = IF b = a THEN {t} ELSE Runners(b)
             /\ \A u \in Runners(b) : running'[u] = running[u]
  BY <1>1, <1>2, <1>3 DEF Queued, Runners, TypeOK
<1>5. /\ BusyOf(a) = Nothing
      /\ MailOf(a) = <<item.task>> \o acts[a]
      /\ acts[a] \in Seq(1..MaxTasks)
  BY <1>2, <1>3, Abstracted
<1>6. /\ MailOf(a) # <<>> /\ Head(MailOf(a)) = item.task
      /\ Tail(MailOf(a)) = acts[a]
  BY <1>2, <1>5, Prefixed
<1>7. MailOf(a)' = acts[a] /\ BusyOf(a)' = item.task
  <2>1. MailOf(a)' = acts[a]
    BY <1>2, <1>4 DEF MailOf
  <2>2. Runners(a)' = {t} /\ running'[t] = item
    BY <1>1, <1>2, <1>4 DEF TypeOK
  <2> QED
    BY <2>1, <2>2, ChooseOnly DEF BusyOf
<1>8. ASSUME NEW b \in Actors, b # a
      PROVE  MailOf(b)' = MailOf(b) /\ BusyOf(b)' = BusyOf(b)
  <2>1. MailOf(b)' = MailOf(b)
    <3>1. Queued(b)' = Queued(b) /\ acts' = acts /\ stopped' = stopped
      BY <1>2, <1>4, <1>8
    <3> QED
      BY <3>1 DEF MailOf
  <2>2. Runners(b)' = Runners(b)
    BY <1>4, <1>8
  <2>3. CASE Runners(b) = {}
    BY <2>1, <2>2, <2>3 DEF BusyOf
  <2>4. CASE Runners(b) # {}
    <3>1. PICK u \in Threads : Runners(b) = {u}
      BY <1>2, <2>4 DEF Exclusive, Runners
    <3>2. running'[u] = running[u]
      BY <1>4, <3>1
    <3> QED
      BY <2>1, <2>2, <3>1, <3>2, ChooseOnly DEF BusyOf
  <2> QED
    BY <2>3, <2>4
<1>9. /\ [b \in Actors |-> MailOf(b)]'
           = [[b \in Actors |-> MailOf(b)] EXCEPT ![a] = Tail(@)]
      /\ [b \in Actors |-> BusyOf(b)]'
           = [[b \in Actors |-> BusyOf(b)] EXCEPT ![a] = Head(MailOf(a))]
  BY <1>2, <1>6, <1>7, <1>8
<1>10. Mailbox!Begin(a)
  BY <1>2, <1>5, <1>6, <1>9 DEF Mailbox!Begin
<1> QED
  BY <1>2, <1>10

(* A task that ends leaves the mailbox, but for what the actor had begun,  *)
(* as it was: the one that is resumed is the first of those that wait.     *)
LEMMA MailboxEnd ==
  ASSUME PoolInv, NEW t \in Threads, Complete(t)
  PROVE  \E a \in Actors : Mailbox!End(a)
<1>a. running[t] \in Items
  BY DEF PoolInv, Complete, TypeOK
<1>b. PICK a \in Actors, n \in 1..MaxTasks : running[t].act = a /\ running[t].task = n
  BY <1>a DEF Items
<1>1. /\ TypeOK /\ Exclusive
      /\ running[t] # Nothing /\ n # Nothing
      /\ executed' = [executed EXCEPT ![a] = Append(@, n)]
      /\ running' = [running EXCEPT ![t] = Nothing]
      /\ UNCHANGED <<submitted, stopped>>
  BY <1>b, PoolAssumption DEF PoolInv, Complete
<1>2. Runners(a) = {t} /\ Queued(a) = {}
  BY <1>b, <1>1 DEF Exclusive, Runners
<1>3. ASSUME NEW b \in Actors
      PROVE  /\ Runners(b)' = IF b = a THEN {} ELSE Runners(b)
             /\ \A u \in Runners(b) : b # a => running'[u] = running[u]
  BY <1>b, <1>1, <1>2 DEF Runners, TypeOK
<1>4. BusyOf(a) = n /\ BusyOf(a)' = Nothing
  BY <1>b, <1>1, <1>2, <1>3, Abstracted DEF BusyOf
<1>5. ASSUME NEW b \in Actors, b # a PROVE BusyOf(b)' = BusyOf(b)
  <2>1. Runners(b)' = Runners(b)
    BY <1>3, <1>5
  <2>2. CASE Runners(b) = {}
    BY <2>1, <2>2 DEF BusyOf
  <2>3. CASE Runners(b) # {}
    <3>1. PICK u \in Threads : Runners(b) = {u}
      BY <1>1, <2>3 DEF Exclusive, Runners
    <3>2. running'[u] = running[u]
      BY <1>3, <1>5, <3>1
    <3> QED
      BY <2>1, <3>1, <3>2, ChooseOnly DEF BusyOf
  <2> QED
    BY <2>2, <2>3
<1>6. ASSUME NEW b \in Actors PROVE MailOf(b)' = MailOf(b)
  <2>1. CASE stopped
    BY <1>1, <2>1 DEF MailOf
  <2>2. CASE ~stopped /\ b # a
    <3>1. acts'[b] = acts[b] /\ Queued(b)' = Queued(b)
      <4>1. CASE acts[a] = <<>>
        BY <1>b, <4>1 DEF Complete, Queued
      <4>2. CASE acts[a] # <<>>
        <5>1. /\ acts' = [acts EXCEPT ![a] = Tail(@)]
              /\ handed' = handed \cup {Item(a, Head(acts[a]))}
          BY <1>b, <2>2, <4>2 DEF Complete
        <5>2. Item(a, Head(acts[a])).act = a
          BY DEF Item
        <5> QED
          BY <1>1, <2>2, <5>1, <5>2 DEF Queued, TypeOK
      <4> QED
        BY <4>1, <4>2
    <3> QED
      BY <1>1, <3>1 DEF MailOf
  <2>3. CASE ~stopped /\ b = a
    <3>1. MailOf(a) = acts[a]
      BY <1>1, <1>2, <2>3, Abstracted
    <3>2. CASE acts[a] = <<>>
      <4>1. acts'[a] = acts[a] /\ Queued(a)' = {}
        BY <1>b, <1>2, <3>2 DEF Complete, Queued
      <4> QED
        BY <1>1, <2>3, <3>1, <4>1 DEF MailOf
    <3>3. CASE acts[a] # <<>>
      <4> DEFINE next == Item(a, Head(acts[a]))
      <4>1. /\ acts[a] \in Seq(1..MaxTasks)
            /\ Head(acts[a]) \in 1..MaxTasks
            /\ Tail(acts[a]) \in Seq(1..MaxTasks)
        BY <1>1, <3>3, HeadTailProperties DEF TypeOK
      <4>2. acts'[a] = Tail(acts[a]) /\ handed' = handed \cup {next}
        BY <1>b, <1>1, <2>3, <3>3 DEF Complete, TypeOK
      <4>3. next.act = a /\ next.task = Head(acts[a])
        BY DEF Item
      <4>4. Queued(a)' = {next}
        BY <1>2, <4>2, <4>3 DEF Queued
      <4>5. MailOf(a)' = <<Head(acts[a])>> \o Tail(acts[a])
        BY <1>1, <2>3, <4>2, <4>3, <4>4, ChooseOnly DEF MailOf
      <4>6. <<Head(acts[a])>> \o Tail(acts[a]) = acts[a]
        BY <3>3, <4>1, Prefixed
      <4> QED
        BY <2>3, <3>1, <4>5, <4>6
    <3> QED
      BY <3>2, <3>3
  <2> QED
    BY <2>1, <2>2, <2>3
<1>7. /\ [b \in Actors |-> MailOf(b)]' = [b \in Actors |-> MailOf(b)]
      /\ [b \in Actors |-> BusyOf(b)]'
           = [[b \in Actors |-> BusyOf(b)] EXCEPT ![a] = Nothing]
      /\ [b \in Actors |-> BusyOf(b)][a] = n
  BY <1>1, <1>4, <1>5, <1>6
<1>8. Mailbox!End(a)
  BY <1>1, <1>7 DEF Mailbox!End
<1> QED
  BY <1>1, <1>8

(* A shutdown empties every mailbox, and does not touch the busy actors. *)
LEMMA MailboxStop ==
  ASSUME PoolInv, Shutdown
  PROVE  Mailbox!Stop
<1>1. ASSUME NEW b \in Actors PROVE MailOf(b)' = <<>> /\ BusyOf(b)' = BusyOf(b)
  BY DEF Shutdown, MailOf, BusyOf, Runners
<1>2. /\ [b \in Actors |-> MailOf(b)]' = [b \in Actors |-> <<>>]
      /\ [b \in Actors |-> BusyOf(b)]' = [b \in Actors |-> BusyOf(b)]
  BY <1>1
<1> QED
  BY <1>2 DEF Shutdown, Mailbox!Stop

(***************************************************************************)
(* Threads, monitors and the table of playing actors implement one mailbox *)
(* per actor: this is what the reactor relies on when it submits a task.   *)
(***************************************************************************)
THEOREM PoolImplementsMailbox == Spec => ImplementsMailbox
<1>1. PoolInv /\ PoolInv' /\ [Next]_vars => [Mailbox!Next]_(Mailbox!vars)
  <2> SUFFICES ASSUME PoolInv, PoolInv', [Next]_vars
               PROVE  [Mailbox!Next]_(Mailbox!vars)
    OBVIOUS
  <2>1. ASSUME NEW a \in Actors, Submit(a) PROVE Mailbox!Next
    BY <2>1, MailboxPost DEF Mailbox!Next
  <2>2. ASSUME NEW t \in Threads, Take(t) PROVE Mailbox!Next
    BY <2>2, MailboxBegin DEF Mailbox!Next
  <2>3. ASSUME NEW t \in Threads, Complete(t) PROVE Mailbox!Next
    BY <2>3, MailboxEnd DEF Mailbox!Next
  <2>4. ASSUME Shutdown PROVE Mailbox!Next
    BY <2>4, MailboxStop DEF Mailbox!Next
  <2>5. CASE UNCHANGED vars
    <3>1. ASSUME NEW b \in Actors
          PROVE  MailOf(b)' = MailOf(b) /\ BusyOf(b)' = BusyOf(b)
      BY <2>5 DEF vars, MailOf, BusyOf, Queued, Runners
    <3>2. /\ [b \in Actors |-> MailOf(b)]' = [b \in Actors |-> MailOf(b)]
          /\ [b \in Actors |-> BusyOf(b)]' = [b \in Actors |-> BusyOf(b)]
      BY <3>1
    <3> QED
      BY <2>5, <3>2 DEF vars, Mailbox!vars
  <2> QED
    BY <2>1, <2>2, <2>3, <2>4, <2>5 DEF Next
<1> QED
  BY <1>1, MailboxInit, PoolInvariant, PTL DEF Spec, ImplementsMailbox, Mailbox!Spec
=============================================================================
