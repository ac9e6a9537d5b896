---------------------------- MODULE ReactorProofs ----------------------------
(***************************************************************************)
(* The safety of the non-blocking server for any number of connections,    *)
(* chunks and bytes: what reaches the protocol, that no wakeup is lost, and *)
(* what is written.                                                        *)
(***************************************************************************)
EXTENDS Reactor, SequenceTheorems, TLAPS

USE DEF peerVars, socketVars, selectorVars, bufferVars, poolVars, workerVars

(***************************************************************************)
(* Input. InputInOrder is not inductive: a task decodes its own chunk      *)
(* because the buffer it was leased is neither in the pool nor leased to   *)
(* another task until the task has ended, and still holds that chunk until *)
(* the task has begun.                                                     *)
(***************************************************************************)
InputVars == <<chunks, readCount, bufferVars, poolVars, lease, processed>>

InputTypes ==
  /\ chunks \in [Handlers -> Seq(UNION {Kinds[c] : c \in Handlers})]
  /\ readCount \in [Handlers -> 0..MaxChunks]
  /\ bufferPool \in Seq(DOMAIN buffers)
  /\ buffers \in Seq(FrameId \cup {Null})
  /\ lease \in [Handlers -> Seq(DOMAIN buffers)]
  /\ processed \in [Handlers -> Seq(FrameId)]
  /\ submitted \in [Handlers -> 0..MaxChunks]
  /\ mail \in [Handlers -> Seq(1..MaxChunks)]
  /\ busy \in [Handlers -> 1..MaxChunks \cup {Null}]
  /\ ~stopped

(* Every chunk that was read is begun or waits, in the order of reading. *)
Counted(c) ==
  /\ readCount[c] = submitted[c]
  /\ readCount[c] <= Len(chunks[c])
  /\ Len(lease[c]) = submitted[c]
  /\ submitted[c] = Len(processed[c]) + Len(mail[c])
  /\ \A i \in 1..Len(mail[c]) : mail[c][i] = Len(processed[c]) + i

(* What c executes is what it has begun last. *)
BusyWithLast(c) == busy[c] # Null => busy[c] = Len(processed[c])

(* The tasks of c that have not ended *)
Unfinished(c) == {n \in 1..Len(lease[c]) : n > Len(processed[c]) \/ n = busy[c]}

Leases ==
  /\ \A c, d \in Handlers : \A m \in Unfinished(c), n \in Unfinished(d) :
       lease[c][m] = lease[d][n] => c = d /\ m = n
  /\ \A c \in Handlers : \A n \in Unfinished(c), i \in 1..Len(bufferPool) :
       bufferPool[i] # lease[c][n]
  /\ \A i, j \in 1..Len(bufferPool) : bufferPool[i] = bufferPool[j] => i = j

Contents ==
  \A c \in Handlers : \A n \in 1..Len(lease[c]) :
    n > Len(processed[c]) => buffers[lease[c][n]] = <<c, n>>

InputInv ==
  /\ InputTypes
  /\ \A c \in Handlers : Counted(c) /\ BusyWithLast(c)
  /\ Leases
  /\ Contents
  /\ InputInOrder

(* Counters and lengths are numbers, and leases are places in buffers. *)
LEMMA InputFacts ==
  ASSUME InputInv, NEW c \in Handlers
  PROVE  /\ Len(processed[c]) \in Nat
         /\ Len(mail[c]) \in Nat
         /\ Len(chunks[c]) \in Nat
         /\ Len(lease[c]) \in 0..MaxChunks
         /\ MaxChunks \in Nat
         /\ \A n \in 1..Len(lease[c]) : lease[c][n] \in DOMAIN buffers
         /\ Unfinished(c) \subseteq 1..Len(lease[c])
         /\ busy[c] # Null => busy[c] \in Unfinished(c)
<1>1. InputTypes /\ Counted(c) /\ BusyWithLast(c)
  BY DEF InputInv
<1>2. /\ processed[c] \in Seq(FrameId) /\ mail[c] \in Seq(1..MaxChunks)
      /\ chunks[c] \in Seq(UNION {Kinds[d] : d \in Handlers})
      /\ lease[c] \in Seq(DOMAIN buffers)
      /\ submitted[c] \in 0..MaxChunks
      /\ busy[c] \in 1..MaxChunks \cup {Null}
  BY <1>1 DEF InputTypes
<1>3. /\ Len(processed[c]) \in Nat /\ Len(mail[c]) \in Nat /\ Len(chunks[c]) \in Nat
      /\ Len(lease[c]) \in 0..MaxChunks /\ MaxChunks \in Nat
  BY <1>1, <1>2, LenProperties, ReactorAssumption DEF Counted
<1>4. \A n \in 1..Len(lease[c]) : lease[c][n] \in DOMAIN buffers
  BY <1>2, ElementOfSeq
<1>5. ASSUME busy[c] # Null PROVE busy[c] \in 1..Len(lease[c])
  <2> DEFINE n == Len(processed[c])
             m == Len(mail[c])
             l == Len(lease[c])
  <2>1. busy[c] = n /\ n \in 1..MaxChunks /\ m \in Nat /\ l = n + m
    BY <1>1, <1>2, <1>3, <1>5 DEF Counted, BusyWithLast
  <2>2. n \in 1..l
    <3> HIDE DEF n, m, l
    <3> QED
      BY <1>3, <2>1
  <2> QED
    BY <2>1, <2>2
<1> QED
  BY <1>3, <1>4, <1>5 DEF Unfinished

(* A step that touches none of these variables keeps the invariant. *)
LEMMA InputSame == InputInv /\ UNCHANGED InputVars => InputInv'
<1> SUFFICES ASSUME InputInv, UNCHANGED InputVars PROVE InputInv'
  OBVIOUS
<1> USE DEF InputVars
<1>1. InputTypes' /\ InputInOrder' /\ Contents'
  BY DEF InputInv, InputTypes, InputInOrder, Contents
<1>2. \A c \in Handlers : Counted(c)' /\ BusyWithLast(c)'
  BY DEF InputInv, Counted, BusyWithLast
<1>3. \A c \in Handlers : Unfinished(c)' = Unfinished(c)
  BY DEF Unfinished
<1>4. Leases'
  BY <1>3 DEF InputInv, Leases
<1> QED
  BY <1>1, <1>2, <1>4 DEF InputInv

LEMMA InputInit == Init => InputInv
<1> SUFFICES ASSUME Init PROVE InputInv
  OBVIOUS
<1> USE DEF Init
<1>0. \A S : <<>> \in Seq(S) /\ Len(<<>>) = 0
  BY EmptySeq
<1>1. /\ submitted = [c \in Handlers |-> 0] /\ mail = [c \in Handlers |-> <<>>]
      /\ busy = [c \in Handlers |-> Null] /\ ~stopped
  BY DEF Pool!Init
<1>2. InputTypes
  BY <1>0, <1>1, ReactorAssumption DEF InputTypes
<1>3. ASSUME NEW c \in Handlers
      PROVE  Counted(c) /\ BusyWithLast(c) /\ Unfinished(c) = {}
  BY <1>0, <1>1 DEF Counted, BusyWithLast, Unfinished
<1>4. Leases
  BY <1>0, <1>3 DEF Leases
<1>5. Contents /\ InputInOrder
  BY <1>0 DEF Contents, InputInOrder
<1> QED
  BY <1>2, <1>3, <1>4, <1>5 DEF InputInv

(***************************************************************************)
(* leaseBuffer() and the write into the buffer: the buffer exists then,    *)
(* holds what was read, and was in nobody's hands; the others keep what    *)
(* they hold.                                                              *)
(***************************************************************************)
LEMMA FreshBuffer ==
  ASSUME InputInv, NEW content \in FrameId \cup {Null}, Fill(Leased, content)
  PROVE  /\ buffers' \in Seq(FrameId \cup {Null})
         /\ DOMAIN buffers \subseteq DOMAIN buffers'
         /\ Leased \in DOMAIN buffers'
         /\ buffers'[Leased] = content
         /\ \A b \in DOMAIN buffers : b # Leased => buffers'[b] = buffers[b]
<1> DEFINE S == FrameId \cup {Null}
<1>1. /\ bufferPool \in Seq(DOMAIN buffers) /\ buffers \in Seq(S)
      /\ Len(buffers) \in Nat /\ DOMAIN buffers = 1..Len(buffers)
  BY LenProperties DEF InputInv, InputTypes
<1>2. CASE bufferPool = <<>>
  <2>1. Leased = Len(buffers) + 1 /\ Leased \notin DOMAIN buffers
    BY <1>1, <1>2 DEF Leased
  <2>2. buffers' = Append(buffers, content)
    BY <2>1 DEF Fill
  <2>3. /\ buffers' \in Seq(S) /\ Len(buffers') = Len(buffers) + 1
        /\ \A i \in 1..Len(buffers) : buffers'[i] = buffers[i]
        /\ buffers'[Len(buffers) + 1] = content
    <3> HIDE DEF S
    <3> QED
      BY <1>1, <2>2, AppendProperties DEF S
  <2>4. DOMAIN buffers' = 1..(Len(buffers) + 1)
    BY <2>3, LenProperties
  <2> QED
    BY <1>1, <2>1, <2>3, <2>4
<1>3. CASE bufferPool # <<>>
  <2>1. Leased = Head(bufferPool) /\ Leased \in DOMAIN buffers
    <3>1. Head(bufferPool) \in DOMAIN buffers
      BY <1>1, <1>3, HeadTailProperties
    <3> QED
      BY <1>3, <3>1 DEF Leased
  <2>2. buffers' = [buffers EXCEPT ![Leased] = content]
    BY <2>1 DEF Fill
  <2>3. buffers' \in Seq(S) /\ Len(buffers') = Len(buffers)
    BY <1>1, <2>1, <2>2, ExceptSeq
  <2> QED
    BY <1>1, <2>1, <2>2, <2>3
<1> QED
  BY <1>2, <1>3

LEMMA FreshLease ==
  ASSUME InputInv
  PROVE  /\ Unleased \in Seq(DOMAIN buffers)
         /\ Len(Unleased) \in Nat
         /\ \A i \in 1..Len(Unleased) :
              /\ Unleased[i] \in DOMAIN buffers
              /\ Unleased[i] # Leased
              /\ \A c \in Handlers : \A n \in Unfinished(c) :
                   Unleased[i] # lease[c][n]
              /\ \A j \in 1..Len(Unleased) : Unleased[i] = Unleased[j] => i = j
         /\ \A c \in Handlers : \A n \in Unfinished(c) :
              lease[c][n] \in DOMAIN buffers /\ lease[c][n] # Leased
<1>1. /\ bufferPool \in Seq(DOMAIN buffers)
      /\ Len(buffers) \in Nat /\ DOMAIN buffers = 1..Len(buffers)
      /\ Leases
  BY LenProperties DEF InputInv, InputTypes
<1>2. \A c \in Handlers : \A n \in Unfinished(c) : lease[c][n] \in DOMAIN buffers
  BY InputFacts
<1>3. CASE bufferPool = <<>>
  <2>1. Leased \notin DOMAIN buffers /\ Unleased = <<>>
    BY <1>1, <1>3 DEF Leased, Unleased
  <2>2. Unleased \in Seq(DOMAIN buffers) /\ Len(Unleased) = 0
    BY <2>1, EmptySeq
  <2> QED
    BY <1>2, <2>1, <2>2
<1>4. CASE bufferPool # <<>>
  <2>1. /\ Leased = Head(bufferPool) /\ Unleased = Tail(bufferPool)
        /\ Len(bufferPool) \in Nat \ {0}
    BY <1>1, <1>4, EmptySeq, LenProperties DEF Leased, Unleased
  <2>2. /\ Leased = bufferPool[1]
        /\ Unleased \in Seq(DOMAIN buffers)
        /\ Len(Unleased) = Len(bufferPool) - 1
        /\ \A i \in 1..Len(Unleased) : Unleased[i] = bufferPool[i + 1]
    BY <1>1, <1>4, <2>1, HeadTailProperties
  <2>3. ASSUME NEW i \in 1..Len(Unleased)
        PROVE  i + 1 \in 1..Len(bufferPool) /\ i + 1 # 1
    BY <2>1, <2>2
  <2>4. 1 \in 1..Len(bufferPool)
    BY <2>1
  <2>5. ASSUME NEW i \in 1..Len(Unleased)
        PROVE  /\ Unleased[i] \in DOMAIN buffers
               /\ Unleased[i] # Leased
               /\ \A c \in Handlers : \A n \in Unfinished(c) :
                    Unleased[i] # lease[c][n]
               /\ \A j \in 1..Len(Unleased) : Unleased[i] = Unleased[j] => i = j
    <3>1. Unleased[i] \in DOMAIN buffers
      BY <2>2, ElementOfSeq
    <3>2. Unleased[i] # Leased
      BY <1>1, <2>2, <2>3, <2>4 DEF Leases
    <3>3. \A c \in Handlers : \A n \in Unfinished(c) : Unleased[i] # lease[c][n]
      BY <1>1, <2>2, <2>3 DEF Leases
    <3>4. ASSUME NEW j \in 1..Len(Unleased), Unleased[i] = Unleased[j] PROVE i = j
      <4>1. i + 1 = j + 1
        BY <1>1, <2>2, <2>3, <3>4 DEF Leases
      <4> QED
        BY <4>1
    <3> QED
      BY <3>1, <3>2, <3>3, <3>4
  <2>6. \A c \in Handlers : \A n \in Unfinished(c) : lease[c][n] # Leased
    BY <1>1, <2>2, <2>4 DEF Leases
  <2> QED
    BY <1>2, <2>1, <2>2, <2>5, <2>6
<1> QED
  BY <1>3, <1>4

(* A chunk that arrives changes nothing that was read. *)
LEMMA InputPeerSend ==
  ASSUME InputInv, NEW c \in Handlers, PeerSend(c)
  PROVE  InputInv'
<1>1. /\ InputTypes /\ Leases /\ Contents /\ InputInOrder
      /\ UNCHANGED <<readCount, bufferPool, buffers, lease, processed, submitted,
                     mail, busy, stopped>>
  BY DEF PeerSend, InputInv
<1>2. PICK kind \in Kinds[c] : chunks' = [chunks EXCEPT ![c] = Append(@, kind)]
  BY DEF PeerSend
<1> DEFINE S == UNION {Kinds[d] : d \in Handlers}
<1>3. /\ chunks \in [Handlers -> Seq(S)] /\ kind \in S
      /\ chunks[c] \in Seq(S) /\ chunks'[c] = Append(chunks[c], kind)
  BY <1>1, <1>2 DEF InputTypes
<1>4. Append(chunks[c], kind) \in Seq(S) /\ Len(Append(chunks[c], kind)) = Len(chunks[c]) + 1
  <2> HIDE DEF S
  <2> QED
    BY <1>3, AppendProperties
<1>5. chunks' \in [Handlers -> Seq(S)]
  <2> HIDE DEF S
  <2> QED
    BY <1>2, <1>3, <1>4
<1>6. InputTypes'
  BY <1>1, <1>5 DEF InputTypes
<1>7. ASSUME NEW d \in Handlers PROVE Counted(d)' /\ BusyWithLast(d)'
  <2>1. Counted(d) /\ BusyWithLast(d) /\ Len(chunks[d]) \in Nat /\ readCount[d] \in Nat
    BY <1>1, InputFacts DEF InputInv, InputTypes
  <2>a. readCount[d] <= Len(chunks[d])
    BY <2>1 DEF Counted
  <2>2. Len(chunks'[d]) >= Len(chunks[d])
    BY <1>2, <1>3, <1>4, <2>1
  <2>3. readCount[d] <= Len(chunks'[d])
    <3>1. Len(chunks'[d]) \in Nat
      <4> HIDE DEF S
      <4> QED
        BY <1>5, LenProperties
    <3> QED
      BY <2>1, <2>a, <2>2, <3>1
  <2> QED
    BY <1>1, <2>1, <2>3 DEF Counted, BusyWithLast
<1>8. Leases' /\ Contents' /\ InputInOrder'
  <2>1. \A d \in Handlers : Unfinished(d)' = Unfinished(d)
    BY <1>1 DEF Unfinished
  <2>2. Leases'
    BY <1>1, <2>1 DEF Leases
  <2>3. Contents' /\ InputInOrder'
    BY <1>1 DEF Contents, InputInOrder
  <2> QED
    BY <2>2, <2>3
<1> QED
  BY <1>6, <1>7, <1>8 DEF InputInv

(* The task of the chunk that was read is the last one, and its buffer is  *)
(* nobody else's.                                                          *)
LEMMA InputReadChunk ==
  ASSUME InputInv, NEW c \in Handlers, ReadChunk(c)
  PROVE  InputInv'
<1> DEFINE n == submitted[c] + 1
<1>1. /\ InputTypes /\ Counted(c) /\ Leases /\ Contents /\ InputInOrder
      /\ Len(processed[c]) \in Nat /\ Len(mail[c]) \in Nat
      /\ Len(chunks[c]) \in Nat
      /\ submitted[c] \in 0..MaxChunks /\ MaxChunks \in Nat
  BY InputFacts, ReactorAssumption DEF InputInv, InputTypes
<1>2. /\ submitted[c] < MaxChunks
      /\ readCount' = [readCount EXCEPT ![c] = @ + 1]
      /\ submitted' = [submitted EXCEPT ![c] = @ + 1]
      /\ mail' = [mail EXCEPT ![c] = Append(@, submitted[c] + 1)]
      /\ lease' = [lease EXCEPT ![c] = Append(@, Leased)]
      /\ bufferPool' = Unleased
      /\ UNCHANGED <<chunks, busy, executed, stopped, processed>>
      /\ readCount[c] < Len(chunks[c])
  BY DEF ReadChunk, Pool!Post, Unread
<1>3. readCount[c] = submitted[c] /\ n \in 1..MaxChunks /\ <<c, n>> \in FrameId
  <2>1. readCount[c] = submitted[c]
    BY <1>1 DEF Counted
  <2>2. n \in 1..MaxChunks
    BY <1>1, <1>2
  <2> QED
    BY <2>1, <2>2 DEF FrameId
<1>4. Fill(Leased, <<c, n>>)
  BY <1>3 DEF ReadChunk
<1>5. /\ buffers' \in Seq(FrameId \cup {Null})
      /\ DOMAIN buffers \subseteq DOMAIN buffers'
      /\ Leased \in DOMAIN buffers'
      /\ buffers'[Leased] = <<c, n>>
      /\ \A b \in DOMAIN buffers : b # Leased => buffers'[b] = buffers[b]
  <2> HIDE DEF n
  <2> QED
    BY <1>3, <1>4, FreshBuffer
<1> HIDE DEF n
<1>6. /\ lease[c] \in Seq(DOMAIN buffers) /\ Len(lease[c]) = submitted[c]
      /\ lease'[c] = Append(lease[c], Leased)
      /\ \A d \in Handlers : d # c => lease'[d] = lease[d]
  BY <1>1, <1>2 DEF InputTypes, Counted
<1>7. /\ lease'[c] \in Seq(DOMAIN buffers')
      /\ Len(lease'[c]) = n
      /\ \A i \in 1..submitted[c] : lease'[c][i] = lease[c][i]
      /\ lease'[c][n] = Leased
  <2>1. lease[c] \in Seq(DOMAIN buffers')
    BY <1>5, <1>6, SeqMonotonic
  <2> QED
    BY <1>5, <1>6, <2>1, AppendProperties DEF n
<1>8. /\ mail[c] \in Seq(1..MaxChunks)
      /\ mail'[c] = Append(mail[c], n)
      /\ \A d \in Handlers : d # c => mail'[d] = mail[d]
  BY <1>1, <1>2 DEF InputTypes, n
<1>9. /\ mail'[c] \in Seq(1..MaxChunks)
      /\ Len(mail'[c]) = Len(mail[c]) + 1
      /\ \A i \in 1..Len(mail[c]) : mail'[c][i] = mail[c][i]
      /\ mail'[c][Len(mail[c]) + 1] = n
  BY <1>3, <1>8, AppendProperties
<1>10. InputTypes'
  <2>1. /\ lease' \in [Handlers -> Seq(DOMAIN buffers')]
        /\ mail' \in [Handlers -> Seq(1..MaxChunks)]
    <3>1. \A d \in Handlers : lease[d] \in Seq(DOMAIN buffers')
      BY <1>1, <1>5, SeqMonotonic DEF InputTypes
    <3>2. \A d \in Handlers : lease'[d] \in Seq(DOMAIN buffers')
      BY <1>6, <1>7, <3>1
    <3> QED
      BY <1>1, <1>2, <1>9, <3>2 DEF InputTypes
  <2>2. bufferPool' \in Seq(DOMAIN buffers')
    BY <1>2, <1>5, FreshLease, SeqMonotonic
  <2>3. /\ readCount' \in [Handlers -> 0..MaxChunks]
        /\ submitted' \in [Handlers -> 0..MaxChunks]
    BY <1>1, <1>2, <1>3 DEF InputTypes
  <2> QED
    BY <1>1, <1>2, <1>5, <2>1, <2>2, <2>3 DEF InputTypes
<1>11. ASSUME NEW d \in Handlers PROVE Counted(d)' /\ BusyWithLast(d)'
  <2>1. CASE d = c
    <3>1. /\ readCount'[c] = n /\ submitted'[c] = n
          /\ n = submitted[c] + 1
          /\ busy'[c] = busy[c] /\ processed'[c] = processed[c]
          /\ chunks'[c] = chunks[c]
      BY <1>1, <1>2, <1>3 DEF InputTypes, n
    <3>2. submitted[c] = Len(processed[c]) + Len(mail[c])
      BY <1>1 DEF Counted
    <3>3. n = Len(processed[c]) + Len(mail'[c]) /\ n <= Len(chunks[c])
      <4> DEFINE p == Len(processed[c])
                 m == Len(mail[c])
                 w == Len(mail'[c])
                 k == Len(chunks[c])
                 x == submitted[c]
      <4>1. /\ p \in Nat /\ m \in Nat /\ k \in Nat /\ w = m + 1
            /\ x = p + m /\ x < k /\ n = x + 1
        BY <1>1, <1>2, <1>3, <1>9, <3>1, <3>2
      <4>2. n = p + w /\ n <= k
        <5> HIDE DEF p, m, w, k, x
        <5> QED
          BY <4>1
      <4> QED
        BY <4>2
    <3>4. ASSUME NEW i \in 1..Len(mail'[c])
          PROVE  mail'[c][i] = Len(processed[c]) + i
      <4>1. CASE i \in 1..Len(mail[c])
        BY <1>1, <1>9, <4>1 DEF Counted
      <4>2. CASE i = Len(mail[c]) + 1
        BY <1>9, <3>3, <4>2
      <4> QED
        BY <1>1, <1>9, <4>1, <4>2
    <3>5. BusyWithLast(c)'
      BY <3>1 DEF InputInv, BusyWithLast
    <3> QED
      BY <1>7, <2>1, <3>1, <3>3, <3>4, <3>5 DEF Counted
  <2>2. CASE d # c
    <3>1. Counted(d) /\ BusyWithLast(d)
      BY DEF InputInv
    <3>2. /\ readCount'[d] = readCount[d] /\ submitted'[d] = submitted[d]
          /\ lease'[d] = lease[d] /\ mail'[d] = mail[d]
      BY <1>1, <1>2, <1>6, <1>8, <2>2 DEF InputTypes
    <3> QED
      BY <1>2, <3>1, <3>2 DEF Counted, BusyWithLast
  <2> QED
    BY <2>1, <2>2
<1>12. ASSUME NEW d \in Handlers, NEW m \in Unfinished(d)'
       PROVE  \/ m \in Unfinished(d) /\ lease'[d][m] = lease[d][m]
              \/ d = c /\ m = n /\ lease'[d][m] = Leased
  <2>1. CASE d = c
    BY <1>1, <1>2, <1>3, <1>6, <1>7, <2>1 DEF Unfinished, n
  <2>2. CASE d # c
    BY <1>2, <1>6, <2>2 DEF Unfinished
  <2> QED
    BY <2>1, <2>2
<1>13. Leases'
  <2>1. ASSUME NEW d \in Handlers, NEW e \in Handlers,
               NEW m \in Unfinished(d)', NEW k \in Unfinished(e)',
               lease'[d][m] = lease'[e][k]
        PROVE  d = e /\ m = k
    BY <1>1, <1>12, <2>1, FreshLease DEF Leases
  <2>2. ASSUME NEW d \in Handlers, NEW m \in Unfinished(d)',
               NEW i \in 1..Len(bufferPool')
        PROVE  bufferPool'[i] # lease'[d][m]
    <3>1. /\ i \in 1..Len(Unleased) /\ bufferPool'[i] = Unleased[i]
          /\ Unleased[i] # Leased
      BY <1>2, FreshLease
    <3>2. CASE m \in Unfinished(d) /\ lease'[d][m] = lease[d][m]
      BY <3>1, <3>2, FreshLease
    <3> QED
      BY <1>12, <3>1, <3>2
  <2>3. \A i, j \in 1..Len(bufferPool') : bufferPool'[i] = bufferPool'[j] => i = j
    BY <1>2, FreshLease
  <2> QED
    BY <2>1, <2>2, <2>3 DEF Leases
<1>14. Contents'
  <2>1. ASSUME NEW d \in Handlers, NEW m \in 1..Len(lease'[d]),
               m > Len(processed'[d])
        PROVE  buffers'[lease'[d][m]] = <<d, m>>
    <3>1. m \in Unfinished(d)'
      BY <2>1 DEF Unfinished
    <3>2. CASE d = c /\ m = n /\ lease'[d][m] = Leased
      BY <1>5, <3>2
    <3>3. CASE m \in Unfinished(d) /\ lease'[d][m] = lease[d][m]
      <4>1. m \in 1..Len(lease[d]) /\ m > Len(processed[d])
        BY <1>2, <2>1, <3>3 DEF Unfinished
      <4>2. buffers[lease[d][m]] = <<d, m>>
        BY <1>1, <4>1 DEF Contents
      <4>3. lease[d][m] \in DOMAIN buffers /\ lease[d][m] # Leased
        BY <3>3, FreshLease
      <4> QED
        BY <1>5, <3>3, <4>2, <4>3
    <3> QED
      BY <1>12, <3>1, <3>2, <3>3
  <2> QED
    BY <2>1 DEF Contents
<1>15. InputInOrder'
  BY <1>1, <1>2 DEF InputInOrder
<1> QED
  BY <1>10, <1>11, <1>13, <1>14, <1>15 DEF InputInv

(* A handler that is closed while it reads returns the buffer at once. *)
LEMMA InputReadEnd ==
  ASSUME InputInv, NEW c \in Handlers, ReadEnd(c)
  PROVE  InputInv'
<1>1. /\ InputTypes /\ Leases /\ Contents /\ InputInOrder
      /\ bufferPool' = Append(Unleased, Leased)
      /\ UNCHANGED <<chunks, readCount, lease, processed, poolVars>>
      /\ IF bufferPool = <<>> THEN Fill(Leased, Null) ELSE UNCHANGED buffers
  BY DEF ReadEnd, InputInv
<1>2. /\ buffers' \in Seq(FrameId \cup {Null})
      /\ DOMAIN buffers \subseteq DOMAIN buffers'
      /\ Leased \in DOMAIN buffers'
      /\ \A b \in DOMAIN buffers : b # Leased => buffers'[b] = buffers[b]
  <2>1. CASE bufferPool = <<>>
    BY <1>1, <2>1, FreshBuffer
  <2>2. CASE bufferPool # <<>>
    <3>1. Leased \in DOMAIN buffers
      BY <1>1, <2>2, HeadTailProperties DEF Leased, InputTypes
    <3> QED
      BY <1>1, <2>2, <3>1 DEF InputTypes
  <2> QED
    BY <2>1, <2>2
<1>3. /\ Unleased \in Seq(DOMAIN buffers')
      /\ bufferPool' \in Seq(DOMAIN buffers')
      /\ Len(bufferPool') = Len(Unleased) + 1
      /\ \A i \in 1..Len(Unleased) : bufferPool'[i] = Unleased[i]
      /\ bufferPool'[Len(Unleased) + 1] = Leased
      /\ Len(Unleased) \in Nat
  <2>1. Unleased \in Seq(DOMAIN buffers') /\ Len(Unleased) \in Nat
    BY <1>2, FreshLease, SeqMonotonic
  <2> QED
    BY <1>1, <1>2, <2>1, AppendProperties
<1>4. InputTypes'
  <2>1. lease' \in [Handlers -> Seq(DOMAIN buffers')]
    BY <1>1, <1>2, SeqMonotonic DEF InputTypes
  <2> QED
    BY <1>1, <1>2, <1>3, <2>1 DEF InputTypes
<1>5. ASSUME NEW d \in Handlers
      PROVE  Counted(d)' /\ BusyWithLast(d)' /\ Unfinished(d)' = Unfinished(d)
  BY <1>1 DEF InputInv, Counted, BusyWithLast, Unfinished
<1>6. \A d \in Handlers : \A n \in Unfinished(d) :
        lease[d][n] \in DOMAIN buffers /\ lease[d][n] # Leased
  BY FreshLease
<1>7. ASSUME NEW i \in 1..Len(bufferPool')
      PROVE  \/ i \in 1..Len(Unleased) /\ bufferPool'[i] = Unleased[i]
             \/ i = Len(Unleased) + 1 /\ bufferPool'[i] = Leased
  BY <1>3
<1>8. Leases'
  <2>1. ASSUME NEW d \in Handlers, NEW e \in Handlers,
               NEW m \in Unfinished(d)', NEW k \in Unfinished(e)',
               lease'[d][m] = lease'[e][k]
        PROVE  d = e /\ m = k
    BY <1>1, <1>5, <2>1 DEF Leases
  <2>2. ASSUME NEW d \in Handlers, NEW m \in Unfinished(d)',
               NEW i \in 1..Len(bufferPool')
        PROVE  bufferPool'[i] # lease'[d][m]
    <3>1. m \in Unfinished(d) /\ lease'[d][m] = lease[d][m]
      BY <1>1, <1>5
    <3>2. CASE i \in 1..Len(Unleased) /\ bufferPool'[i] = Unleased[i]
      BY <3>1, <3>2, FreshLease
    <3>3. CASE bufferPool'[i] = Leased
      BY <1>6, <3>1, <3>3
    <3> QED
      BY <1>7, <3>2, <3>3
  <2>3. ASSUME NEW i \in 1..Len(bufferPool'), NEW j \in 1..Len(bufferPool'),
               bufferPool'[i] = bufferPool'[j]
        PROVE  i = j
    BY <1>7, <2>3, FreshLease
  <2> QED
    BY <2>1, <2>2, <2>3 DEF Leases
<1>9. Contents'
  <2>1. ASSUME NEW d \in Handlers, NEW m \in 1..Len(lease[d]),
               m > Len(processed[d])
        PROVE  buffers'[lease[d][m]] = <<d, m>>
    <3>1. m \in Unfinished(d) /\ buffers[lease[d][m]] = <<d, m>>
      BY <1>1, <2>1 DEF Contents, Unfinished
    <3> QED
      BY <1>2, <1>6, <3>1
  <2> QED
    BY <1>1, <2>1 DEF Contents
<1>10. InputInOrder'
  BY <1>1 DEF InputInOrder
<1> QED
  BY <1>4, <1>5, <1>8, <1>9, <1>10 DEF InputInv

(* A task begins: the next one, with its own chunk still in its buffer. *)
LEMMA BeginsNext ==
  ASSUME InputInv, NEW c \in Handlers, Pool!Begin(c)
  PROVE  /\ Head(mail[c]) = Len(processed[c]) + 1
         /\ Len(processed[c]) + 1 \in 1..Len(lease[c])
         /\ Len(processed[c]) + 1 \in 1..Len(chunks[c])
         /\ Len(processed[c]) + 1 \in 1..MaxChunks
         /\ buffers[lease[c][Head(mail[c])]] = <<c, Len(processed[c]) + 1>>
<1> DEFINE n == Len(processed[c]) + 1
<1>1. /\ Counted(c) /\ Contents
      /\ mail[c] \in Seq(1..MaxChunks) /\ mail[c] # <<>>
      /\ Len(processed[c]) \in Nat
      /\ Len(chunks[c]) \in Nat
      /\ Len(lease[c]) \in 0..MaxChunks /\ MaxChunks \in Nat
  <2>1. mail[c] # <<>>
    BY DEF Pool!Begin
  <2>2. Counted(c) /\ Contents /\ mail[c] \in Seq(1..MaxChunks)
    BY DEF InputInv, InputTypes
  <2> QED
    BY <2>1, <2>2, InputFacts
<1>2. Len(mail[c]) \in Nat \ {0} /\ Head(mail[c]) = mail[c][1]
  BY <1>1, EmptySeq, LenProperties
<1>3. Head(mail[c]) = n
  BY <1>1, <1>2 DEF Counted
<1>4. n \in 1..Len(lease[c]) /\ n \in 1..Len(chunks[c])
  <2> DEFINE p == Len(processed[c])
             m == Len(mail[c])
             k == Len(chunks[c])
             l == Len(lease[c])
  <2>1. /\ p \in Nat /\ m \in Nat \ {0} /\ k \in Nat /\ l = p + m
        /\ l <= k /\ n = p + 1
    BY <1>1, <1>2 DEF Counted
  <2>2. n \in 1..l /\ n \in 1..k
    <3> HIDE DEF p, m, k, l, n
    <3> QED
      BY <2>1
  <2> QED
    BY <2>2
<1>5. buffers[lease[c][n]] = <<c, n>>
  <2>1. n > Len(processed[c])
    BY <1>1
  <2> HIDE DEF n
  <2> QED
    BY <1>1, <1>4, <2>1 DEF Contents
<1> QED
  <2> HIDE DEF n
  <2>1. n \in 1..MaxChunks
    BY <1>1, <1>4
  <2> QED
    BY <1>3, <1>4, <1>5, <2>1 DEF n

LEMMA InputBegin ==
  ASSUME InputInv, NEW c \in Handlers, Begin(c)
  PROVE  InputInv'
<1> DEFINE n == Len(processed[c]) + 1
<1>1. /\ InputTypes /\ Counted(c) /\ Leases /\ Contents /\ InputInOrder
      /\ Len(processed[c]) \in Nat /\ Len(mail[c]) \in Nat
  BY InputFacts DEF InputInv
<1>2. /\ busy[c] = Null /\ mail[c] # <<>>
      /\ Head(mail[c]) = n /\ n \in 1..Len(lease[c]) /\ n \in 1..MaxChunks
      /\ buffers[lease[c][Head(mail[c])]] = <<c, n>>
  BY BeginsNext DEF Begin, Pool!Begin
<1>3. /\ busy' = [busy EXCEPT ![c] = n]
      /\ mail' = [mail EXCEPT ![c] = Tail(@)]
      /\ processed' = [processed EXCEPT ![c] = Append(@, <<c, n>>)]
      /\ UNCHANGED <<chunks, readCount, bufferPool, buffers, lease, submitted, stopped>>
  BY <1>2 DEF Begin, Pool!Begin, SelectorSame
<1> HIDE DEF n
<1>4. /\ processed[c] \in Seq(FrameId) /\ mail[c] \in Seq(1..MaxChunks)
      /\ <<c, n>> \in FrameId
      /\ processed'[c] = Append(processed[c], <<c, n>>)
      /\ mail'[c] = Tail(mail[c]) /\ busy'[c] = n
      /\ \A d \in Handlers : d # c => /\ processed'[d] = processed[d]
                                      /\ mail'[d] = mail[d]
                                      /\ busy'[d] = busy[d]
  BY <1>1, <1>2, <1>3 DEF InputTypes, FrameId
<1>5. /\ processed'[c] \in Seq(FrameId)
      /\ Len(processed'[c]) = n
      /\ \A i \in 1..Len(processed[c]) : processed'[c][i] = processed[c][i]
      /\ processed'[c][n] = <<c, n>>
  BY <1>4, AppendProperties DEF n
<1>6. /\ mail'[c] \in Seq(1..MaxChunks)
      /\ Len(mail'[c]) = Len(mail[c]) - 1 /\ Len(mail'[c]) \in Nat
      /\ \A i \in 1..Len(mail'[c]) : mail'[c][i] = mail[c][i + 1]
  <2>1. mail[c] \in Seq(1..MaxChunks) /\ mail[c] # <<>> /\ mail'[c] = Tail(mail[c])
    BY <1>2, <1>4
  <2>2. /\ Tail(mail[c]) \in Seq(1..MaxChunks)
        /\ Len(Tail(mail[c])) = Len(mail[c]) - 1
        /\ \A i \in 1..Len(Tail(mail[c])) : Tail(mail[c])[i] = mail[c][i + 1]
    BY <2>1, HeadTailProperties
  <2>3. Len(Tail(mail[c])) \in Nat
    BY <2>2, LenProperties
  <2> QED
    BY <2>1, <2>2, <2>3
<1>7. InputTypes'
  <2>1. /\ processed' \in [Handlers -> Seq(FrameId)]
        /\ mail' \in [Handlers -> Seq(1..MaxChunks)]
        /\ busy' \in [Handlers -> 1..MaxChunks \cup {Null}]
    BY <1>1, <1>2, <1>3, <1>4, <1>5, <1>6 DEF InputTypes
  <2> QED
    BY <1>1, <1>3, <2>1 DEF InputTypes
<1>8. ASSUME NEW d \in Handlers PROVE Counted(d)' /\ BusyWithLast(d)'
  <2>1. CASE d = c
    <3>1. submitted[c] = Len(processed'[c]) + Len(mail'[c])
      <4> DEFINE p == Len(processed[c])
                 m == Len(mail[c])
                 q == Len(processed'[c])
                 w == Len(mail'[c])
      <4>1. submitted[c] = p + m /\ p \in Nat /\ m \in Nat /\ q = p + 1 /\ w = m - 1
        BY <1>1, <1>5, <1>6 DEF Counted, n
      <4>2. submitted[c] = q + w
        <5> HIDE DEF p, m, q, w
        <5> QED
          BY <4>1
      <4> QED
        BY <4>2
    <3>2. ASSUME NEW i \in 1..Len(mail'[c]) PROVE mail'[c][i] = n + i
      <4>1. i + 1 \in 1..Len(mail[c])
        BY <1>1, <1>6
      <4>2. mail[c][i + 1] = Len(processed[c]) + (i + 1)
        BY <1>1, <4>1 DEF Counted
      <4>3. Len(processed[c]) + (i + 1) = n + i
        <5> DEFINE p == Len(processed[c])
        <5>1. i \in Nat /\ p \in Nat
          BY <1>1, <1>6
        <5> HIDE DEF p
        <5>2. p + (i + 1) = p + 1 + i
          BY <5>1
        <5> QED
          BY <5>2 DEF n, p
      <4> QED
        BY <1>6, <4>2, <4>3
    <3>3. /\ readCount[c] = submitted[c] /\ readCount[c] <= Len(chunks[c])
          /\ Len(lease[c]) = submitted[c]
      BY <1>1 DEF Counted
    <3>4. BusyWithLast(c)'
      BY <1>4, <1>5 DEF BusyWithLast
    <3> QED
      BY <1>3, <1>5, <2>1, <3>1, <3>2, <3>3, <3>4 DEF Counted
  <2>2. CASE d # c
    <3>1. Counted(d) /\ BusyWithLast(d)
      BY DEF InputInv
    <3>2. /\ processed'[d] = processed[d] /\ mail'[d] = mail[d] /\ busy'[d] = busy[d]
      BY <1>4, <2>2
    <3>3. Counted(d)'
      BY <1>3, <3>1, <3>2 DEF Counted
    <3>4. BusyWithLast(d)'
      BY <1>3, <3>1, <3>2 DEF BusyWithLast
    <3> QED
      BY <3>3, <3>4
  <2> QED
    BY <2>1, <2>2
<1>9. ASSUME NEW d \in Handlers PROVE Unfinished(d)' \subseteq Unfinished(d)
  <2>1. CASE d = c
    <3>1. ASSUME NEW m \in 1..Len(lease[c]), m > n \/ m = n
          PROVE  m > Len(processed[c])
      BY <1>1, <3>1 DEF n
    <3> QED
      BY <1>3, <1>4, <1>5, <2>1, <3>1 DEF Unfinished
  <2>2. CASE d # c
    BY <1>3, <1>4, <2>2 DEF Unfinished
  <2> QED
    BY <2>1, <2>2
<1>10. Leases'
  BY <1>1, <1>3, <1>9 DEF Leases
<1>11. Contents'
  <2>1. ASSUME NEW d \in Handlers, NEW m \in 1..Len(lease[d]),
               m > Len(processed'[d])
        PROVE  m > Len(processed[d])
    <3>1. CASE d = c
      BY <1>1, <1>5, <2>1, <3>1 DEF n
    <3>2. CASE d # c
      BY <1>4, <2>1, <3>2
    <3> QED
      BY <3>1, <3>2
  <2> QED
    BY <1>1, <1>3, <2>1 DEF Contents
<1>12. InputInOrder'
  <2>1. \A d \in Handlers : /\ DOMAIN processed[d] = 1..Len(processed[d])
                            /\ DOMAIN processed'[d] = 1..Len(processed'[d])
    BY <1>1, <1>7, LenProperties DEF InputTypes
  <2>2. ASSUME NEW i \in 1..n PROVE processed'[c][i] = <<c, i>>
    <3>1. CASE i \in 1..Len(processed[c])
      BY <1>1, <1>5, <2>1, <3>1 DEF InputInOrder
    <3>2. CASE i = n
      BY <1>5, <3>2
    <3> QED
      BY <1>1, <3>1, <3>2 DEF n
  <2> QED
    BY <1>1, <1>4, <1>5, <2>1, <2>2 DEF InputInOrder
<1> QED
  BY <1>7, <1>8, <1>10, <1>11, <1>12 DEF InputInv

(* A task that ends returns its buffer, which from then on is nobody's. *)
LEMMA InputEnd ==
  ASSUME InputInv, NEW c \in Handlers, End(c)
  PROVE  InputInv'
<1> DEFINE n == busy[c]
           b == lease[c][n]
<1>1. /\ InputTypes /\ Leases /\ Contents /\ InputInOrder
      /\ n # Null
      /\ busy' = [busy EXCEPT ![c] = Null]
      /\ bufferPool' = Append(bufferPool, lease[c][n])
      /\ UNCHANGED <<chunks, readCount, buffers, lease, processed, submitted, mail,
                     stopped>>
  BY DEF End, Pool!End, SelectorSame, InputInv
<1>2. n \in Unfinished(c) /\ b \in DOMAIN buffers
  BY <1>1, InputFacts
<1>3. bufferPool \in Seq(DOMAIN buffers) /\ Len(bufferPool) \in Nat
  BY <1>1, LenProperties DEF InputTypes
<1>4. /\ bufferPool' \in Seq(DOMAIN buffers)
      /\ Len(bufferPool') = Len(bufferPool) + 1
      /\ \A i \in 1..Len(bufferPool) : bufferPool'[i] = bufferPool[i]
      /\ bufferPool'[Len(bufferPool) + 1] = b
  <2> HIDE DEF n
  <2> QED
    BY <1>1, <1>2, <1>3, AppendProperties
<1>5. InputTypes'
  <2>1. busy' \in [Handlers -> 1..MaxChunks \cup {Null}]
    BY <1>1 DEF InputTypes
  <2> QED
    BY <1>1, <1>4, <2>1 DEF InputTypes
<1>6. ASSUME NEW d \in Handlers PROVE Counted(d)' /\ BusyWithLast(d)'
  <2>1. Counted(d) /\ BusyWithLast(d)
    BY DEF InputInv
  <2>2. Counted(d)'
    BY <1>1, <2>1 DEF Counted
  <2>3. busy'[d] = Null \/ busy'[d] = busy[d]
    BY <1>1 DEF InputTypes
  <2> QED
    BY <1>1, <2>1, <2>2, <2>3 DEF BusyWithLast
<1>7. ASSUME NEW d \in Handlers, NEW m \in Unfinished(d)'
      PROVE  m \in Unfinished(d) /\ ~(d = c /\ m = n)
  <2>1. CASE d # c
    <3>1. busy'[d] = busy[d]
      BY <1>1, <2>1 DEF InputTypes
    <3> QED
      BY <1>1, <2>1, <3>1 DEF Unfinished
  <2>2. CASE d = c
    <3>1. m \in 1..Len(lease[c]) /\ (m > Len(processed[c]) \/ m = busy'[c])
      BY <1>1, <2>2 DEF Unfinished
    <3>2. m \in 1..MaxChunks
      <4>1. Len(lease[c]) \in 0..MaxChunks /\ MaxChunks \in Nat
        BY InputFacts
      <4> QED
        BY <3>1, <4>1
    <3>3. busy'[c] = Null /\ m # Null
      BY <1>1, <3>2, ReactorAssumption DEF InputTypes
    <3>4. m > Len(processed[c])
      BY <3>1, <3>3
    <3>5. n = Len(processed[c]) /\ Len(processed[c]) \in Nat
      BY <1>1, InputFacts DEF InputInv, BusyWithLast
    <3>6. m # n
      BY <3>2, <3>4, <3>5
    <3> QED
      BY <2>2, <3>1, <3>4, <3>6 DEF Unfinished
  <2> QED
    BY <2>1, <2>2
<1>8. ASSUME NEW i \in 1..Len(bufferPool')
      PROVE  \/ i \in 1..Len(bufferPool) /\ bufferPool'[i] = bufferPool[i]
             \/ i = Len(bufferPool) + 1 /\ bufferPool'[i] = b
  <2> HIDE DEF b, n
  <2> QED
    BY <1>3, <1>4
<1>9. Leases'
  <2>1. ASSUME NEW d \in Handlers, NEW e \in Handlers,
               NEW m \in Unfinished(d)', NEW k \in Unfinished(e)',
               lease'[d][m] = lease'[e][k]
        PROVE  d = e /\ m = k
    BY <1>1, <1>7, <2>1 DEF Leases
  <2>2. ASSUME NEW d \in Handlers, NEW m \in Unfinished(d)',
               NEW i \in 1..Len(bufferPool')
        PROVE  bufferPool'[i] # lease'[d][m]
    <3>1. m \in Unfinished(d) /\ ~(d = c /\ m = n)
      BY <1>7
    <3>2. CASE i \in 1..Len(bufferPool) /\ bufferPool'[i] = bufferPool[i]
      BY <1>1, <3>1, <3>2 DEF Leases
    <3>3. CASE bufferPool'[i] = b
      BY <1>1, <1>2, <3>1, <3>3 DEF Leases
    <3> QED
      BY <1>8, <3>2, <3>3
  <2>3. ASSUME NEW i \in 1..Len(bufferPool'), NEW j \in 1..Len(bufferPool'),
               bufferPool'[i] = bufferPool'[j]
        PROVE  i = j
    <3>1. \A k \in 1..Len(bufferPool) : bufferPool[k] # b
      BY <1>1, <1>2 DEF Leases
    <3>2. \A k, l \in 1..Len(bufferPool) : bufferPool[k] = bufferPool[l] => k = l
      BY <1>1 DEF Leases
    <3> HIDE DEF b, n
    <3> QED
      BY <1>8, <2>3, <3>1, <3>2
  <2> QED
    BY <2>1, <2>2, <2>3 DEF Leases
<1>10. Contents' /\ InputInOrder'
  BY <1>1 DEF Contents, InputInOrder
<1> QED
  BY <1>5, <1>6, <1>9, <1>10 DEF InputInv

(* Every step keeps the invariant of the input. *)
LEMMA InputNext == InputInv /\ [Next]_vars => InputInv'
<1> SUFFICES ASSUME InputInv, [Next]_vars PROVE InputInv'
  OBVIOUS
<1>1. CASE SelectorStep
  <2>1. ASSUME NEW c \in Handlers, ReadChunk(c) PROVE InputInv'
    BY <2>1, InputReadChunk
  <2>2. ASSUME NEW c \in Handlers, ReadEnd(c) PROVE InputInv'
    BY <2>2, InputReadEnd
  <2>3. ASSUME NEW c \in Handlers, StartWrite(c) PROVE InputInv'
    BY <2>3, InputSame DEF StartWrite, InputVars
  <2>4. ASSUME Select \/ RunSelectionThreadTask \/ HandleAccept PROVE InputInv'
    BY <2>4, InputSame DEF Select, RunSelectionThreadTask, HandleAccept, InputVars
  <2>5. ASSUME WriteTop \/ WriteFails \/ QueueStillEmpty \/ TestTerminate PROVE InputInv'
    BY <2>5, InputSame DEF WriteTop, WriteFails, QueueStillEmpty, TestTerminate, InputVars
  <2> QED
    BY <1>1, <2>1, <2>2, <2>3, <2>4, <2>5 DEF SelectorStep
<1>2. ASSUME NEW c \in Handlers, WorkerStep(c) PROVE InputInv'
  <2>1. CASE Begin(c)
    BY <2>1, InputBegin
  <2>2. CASE SendNext(c) \/ Add(c) \/ AddInterest(c) \/ Wakeup(c)
    BY <2>2, InputSame DEF SendNext, Add, AddInterest, Wakeup, SelectorSame, InputVars
  <2>3. CASE SetTerminate(c) \/ Disconnect(c)
    BY <2>3, InputSame DEF SetTerminate, Disconnect, SelectorSame, InputVars
  <2>4. CASE End(c)
    BY <2>4, InputEnd
  <2> QED
    BY <1>2, <2>1, <2>2, <2>3, <2>4 DEF WorkerStep
<1>3. ASSUME NEW c \in Handlers,
             PeerConnect(c) \/ PeerSend(c) \/ PeerRead(c) \/ PeerLeave(c)
      PROVE  InputInv'
  <2>1. CASE PeerSend(c)
    BY <2>1, InputPeerSend
  <2>2. CASE PeerConnect(c) \/ PeerRead(c) \/ PeerLeave(c)
    BY <2>2, InputSame DEF PeerConnect, PeerRead, PeerLeave, InputVars
  <2> QED
    BY <1>3, <2>1, <2>2
<1>4. CASE UNCHANGED vars
  BY <1>4, InputSame DEF vars, InputVars
<1> QED
  BY <1>1, <1>2, <1>3, <1>4 DEF Next

THEOREM InputInvariant == Spec => []InputInv
  BY InputInit, InputNext, PTL DEF Spec

(***************************************************************************)
(* The chunks of a connection reach its protocol in the order in which     *)
(* they were sent, and as they were read, however many tasks share the     *)
(* buffers of the pool.                                                    *)
(***************************************************************************)
THEOREM ReactorInputInOrder == Spec => []InputInOrder
<1>1. InputInv => InputInOrder
  BY DEF InputInv
<1> QED
  BY InputInvariant, <1>1, PTL

-----------------------------------------------------------------------------
(***************************************************************************)
(* Control. Where the selector thread is tells that it holds a handler, or *)
(* that there is a task to run; a worker without a task has nothing to do, *)
(* and one that is about to add a frame knows to whom.                     *)
(***************************************************************************)
Flags ==
  /\ gone \subseteq Leavers
  /\ conn \in [Handlers -> {"new", "connecting", "open", "closed"}]
  /\ interest \in [Handlers -> SUBSET Ops]
  /\ wakeup \in BOOLEAN
  /\ active \subseteq Handlers
  /\ terminating \in [Handlers -> {"no", "racy", "seen"}]

Selectors ==
  [pc : {"select", "tasks", "keys", "write", "drained", "terminate", "ended"},
   at : Handlers \cup {Null}, selected : Selection, accept : BOOLEAN]

SelectorInv ==
  /\ selector \in Selectors
  /\ selectorTasks \in Seq(Handlers)
  /\ selector.pc \in {"write", "drained", "terminate"} => selector.at \in Handlers
  /\ selector.pc = "tasks" => selectorTasks # <<>>

Works == [ops : Seq(Operation), pc : {"next", "add", "interest", "wakeup"},
          to : Handlers \cup {Null}]

WorkInv ==
  /\ work \in [Handlers -> Works]
  /\ \A c \in Handlers : busy[c] = Null => work[c] = Resting
  /\ \A c \in Handlers : work[c].pc # "next" => work[c].to \in Handlers

LEMMA FlagsInit == Init => Flags
  BY DEF Init, Flags, Ops

(* At most one flag changes with a step, or a handler is opened or closed. *)
LEMMA FlagsNext == Flags /\ SelectorInv /\ [Next]_vars => Flags'
<1> SUFFICES ASSUME Flags, SelectorInv, [Next]_vars PROVE Flags'
  OBVIOUS
<1>1. CASE Select
  BY <1>1 DEF Flags, Select
<1>2. CASE RunSelectionThreadTask
  BY <1>2 DEF Flags, RunSelectionThreadTask
<1>3. CASE HandleAccept
  BY <1>3 DEF Flags, HandleAccept, Ops
<1>4. ASSUME NEW c \in Handlers, ReadChunk(c) \/ StartWrite(c) PROVE Flags'
  BY <1>4 DEF Flags, ReadChunk, StartWrite
<1>5. ASSUME NEW c \in Handlers, ReadEnd(c) PROVE Flags'
  BY <1>5 DEF Flags, ReadEnd, CloseHandler
<1>6. CASE WriteTop \/ QueueStillEmpty
  BY <1>6 DEF Flags, WriteTop, QueueStillEmpty
<1>7. CASE WriteFails
  BY <1>7 DEF Flags, WriteFails, CloseHandler
<1>8. CASE TestTerminate
  BY <1>8 DEF Flags, TestTerminate, CloseHandler, Ops
<1>9. ASSUME NEW c \in Handlers, WorkerStep(c) PROVE Flags'
  <2>1. CASE Begin(c) \/ SendNext(c)
    BY <2>1 DEF Flags, Begin, SendNext, SelectorSame
  <2>2. CASE Add(c) \/ AddInterest(c)
    BY <2>2 DEF Flags, Add, AddInterest, Publish, SelectorSame
  <2>3. CASE Wakeup(c)
    BY <2>3 DEF Flags, Wakeup, SelectorSame
  <2>4. CASE SetTerminate(c) \/ Disconnect(c) \/ End(c)
    BY <2>4 DEF Flags, SetTerminate, Disconnect, End, Publish, SelectorSame
  <2> QED
    BY <1>9, <2>1, <2>2, <2>3, <2>4 DEF WorkerStep
<1>10. ASSUME NEW c \in Handlers,
              PeerConnect(c) \/ PeerSend(c) \/ PeerRead(c) \/ PeerLeave(c)
       PROVE  Flags'
  BY <1>10 DEF Flags, PeerConnect, PeerSend, PeerRead, PeerLeave
<1>11. CASE UNCHANGED vars
  BY <1>11 DEF Flags, vars
<1> QED
  BY <1>1, <1>2, <1>3, <1>4, <1>5, <1>6, <1>7, <1>8, <1>9, <1>10, <1>11
     DEF Next, SelectorStep

LEMMA SelectorInit == Init => SelectorInv
<1>1. <<>> \in Seq(Handlers)
  OBVIOUS
<1> QED
  BY <1>1 DEF Init, SelectorInv, Selectors, NoneSelected, Selection

(* Where GoOn and ContinueWrite leave the selector *)
LEMMA GoOnSelector ==
  ASSUME NEW s \in Selection, NEW a \in BOOLEAN, GoOn(s, a)
  PROVE  selector' \in Selectors /\ selector'.pc \in {"keys", "select"}
  BY DEF GoOn, Selectors

LEMMA HandledSelector ==
  ASSUME SelectorInv, NEW c \in Handlers, Handled(c)
  PROVE  selector' \in Selectors /\ selector'.pc \in {"keys", "select"}
<1>1. /\ [selector.selected EXCEPT ![c] = {}] \in Selection
      /\ selector.accept \in BOOLEAN
  BY DEF SelectorInv, Selectors, Selection
<1> QED
  BY <1>1, GoOnSelector DEF Handled

LEMMA ContinueWriteSelector ==
  ASSUME SelectorInv, NEW c \in Handlers, ContinueWrite(c)
  PROVE  /\ selector' \in Selectors
         /\ selector'.pc \in {"write", "drained"} /\ selector'.at = c
  BY DEF SelectorInv, Selectors, ContinueWrite

LEMMA NextFrameSelector ==
  ASSUME SelectorInv, selector.pc = "write", NextFrame(selector.at)
  PROVE  /\ selector' \in Selectors
         /\ selector'.pc \in {"write", "drained"} /\ selector'.at \in Handlers
  BY DEF SelectorInv, Selectors, NextFrame

LEMMA SelectorNext == SelectorInv /\ WorkInv /\ [Next]_vars => SelectorInv'
<1> SUFFICES ASSUME SelectorInv, WorkInv, [Next]_vars PROVE SelectorInv'
  OBVIOUS
<1>0. selector \in Selectors /\ selectorTasks \in Seq(Handlers)
  BY DEF SelectorInv
<1>a. ASSUME selector' \in Selectors, UNCHANGED selectorTasks,
             \/ selector'.pc \in {"keys", "select"}
             \/ selector'.pc \in {"write", "drained", "terminate"} /\ selector'.at \in Handlers
      PROVE  SelectorInv'
  BY <1>a DEF SelectorInv
<1>b. ASSUME UNCHANGED selector, selectorTasks' \in Seq(Handlers),
             selectorTasks' # <<>> \/ UNCHANGED selectorTasks
      PROVE  SelectorInv'
  BY <1>b DEF SelectorInv
<1>1. CASE Select
  <2> DEFINE selected == [c \in Handlers |-> Ready(c)]
             accept == \E c \in Handlers : conn[c] = "connecting"
  <2>1. selected \in Selection /\ accept \in BOOLEAN
    BY DEF Selection, Ready, Ops
  <2>2. CASE GoOn(selected, accept)
    <3> HIDE DEF selected, accept
    <3> QED
      BY <1>1, <1>a, <2>1, <2>2, GoOnSelector DEF Select
  <2>3. CASE /\ selectorTasks # <<>>
             /\ selector' = [pc |-> "tasks", at |-> Null, selected |-> selected,
                            accept |-> accept]
    <3>1. selector' \in Selectors /\ selector'.pc = "tasks"
      <4> HIDE DEF selected, accept
      <4> QED
        BY <2>1, <2>3 DEF Selectors
    <3> QED
      BY <1>1, <2>3, <3>1 DEF Select, SelectorInv
  <2> QED
    BY <1>1, <2>2, <2>3 DEF Select
<1>2. CASE RunSelectionThreadTask
  <2>1. /\ selector.pc = "tasks" /\ selectorTasks # <<>>
        /\ selectorTasks' = Tail(selectorTasks)
    BY <1>2 DEF RunSelectionThreadTask, SelectorInv
  <2>2. /\ selectorTasks' \in Seq(Handlers)
        /\ Len(selectorTasks) \in Nat
        /\ Len(selectorTasks') = Len(selectorTasks) - 1
    BY <1>0, <2>1, HeadTailProperties, LenProperties
  <2>3. CASE Len(selectorTasks) = 1 /\ GoOn(selector.selected, selector.accept)
    <3>1. selector' \in Selectors /\ selector'.pc \in {"keys", "select"}
      BY <1>0, <2>3, GoOnSelector DEF Selectors
    <3> QED
      BY <2>2, <3>1 DEF SelectorInv
  <2>4. CASE Len(selectorTasks) # 1 /\ UNCHANGED selector
    <3>1. selectorTasks' # <<>>
      <4>1. Len(selectorTasks) # 0
        BY <1>0, <2>1, EmptySeq
      <4> QED
        BY <2>2, <2>4, <4>1, EmptySeq
    <3> QED
      BY <1>b, <2>2, <2>4, <3>1
  <2>5. CASE selector' = [selector EXCEPT !.pc = "ended"]
    BY <1>0, <2>2, <2>5 DEF SelectorInv, Selectors
  <2> QED
    BY <1>2, <2>3, <2>4, <2>5 DEF RunSelectionThreadTask
<1>3. CASE HandleAccept
  <2>1. selector.selected \in Selection /\ FALSE \in BOOLEAN
    BY <1>0 DEF Selectors
  <2> QED
    BY <1>3, <1>a, <2>1, GoOnSelector DEF HandleAccept
<1>4. ASSUME NEW c \in Handlers, ReadChunk(c) \/ ReadEnd(c) \/ StartWrite(c)
      PROVE  SelectorInv'
  <2>1. UNCHANGED selectorTasks /\ (Handled(c) \/ ContinueWrite(c))
    BY <1>4 DEF ReadChunk, ReadEnd, StartWrite
  <2> QED
    BY <1>a, <2>1, HandledSelector, ContinueWriteSelector
<1>5. CASE WriteTop
  <2>1. /\ selector.pc = "write" /\ selector.at \in Handlers
        /\ UNCHANGED selectorTasks
        /\ NextFrame(selector.at) \/ Handled(selector.at)
    BY <1>5 DEF WriteTop, SelectorInv
  <2> QED
    BY <1>a, <2>1, HandledSelector, NextFrameSelector
<1>6. CASE WriteFails
  BY <1>6 DEF WriteFails, SelectorInv
<1>7. CASE QueueStillEmpty
  <2>1. selector.at \in Handlers /\ UNCHANGED selectorTasks
    BY <1>7 DEF QueueStillEmpty, SelectorInv
  <2>2. CASE selector' = [selector EXCEPT !.pc = "terminate"]
    BY <1>0, <1>a, <2>1, <2>2 DEF Selectors
  <2>3. CASE Handled(selector.at)
    BY <1>a, <2>1, <2>3, HandledSelector
  <2> QED
    BY <1>7, <2>2, <2>3 DEF QueueStillEmpty
<1>8. CASE TestTerminate
  <2>1. selector.at \in Handlers /\ UNCHANGED selectorTasks /\ Handled(selector.at)
    BY <1>8 DEF TestTerminate, SelectorInv
  <2> QED
    BY <1>a, <2>1, HandledSelector
<1>9. ASSUME NEW c \in Handlers, WorkerStep(c) PROVE SelectorInv'
  <2>1. UNCHANGED selector
    BY <1>9 DEF WorkerStep, Begin, SendNext, Add, AddInterest, Wakeup, SetTerminate,
       Disconnect, End, SelectorSame
  <2>2. CASE AddInterest(c)
    <3>1. /\ selectorTasks' = Append(selectorTasks, work[c].to)
          /\ work[c].to \in Handlers
      BY <2>2 DEF AddInterest, WorkInv
    <3>2. selectorTasks' \in Seq(Handlers) /\ selectorTasks' # <<>>
      BY <1>0, <3>1, AppendProperties
    <3> QED
      BY <1>b, <2>1, <3>2
  <2>3. CASE ~AddInterest(c)
    <3>1. UNCHANGED selectorTasks
      BY <1>9, <2>3 DEF WorkerStep, Begin, SendNext, Add, Wakeup, SetTerminate,
         Disconnect, End
    <3> QED
      BY <1>0, <1>b, <2>1, <3>1
  <2> QED
    BY <2>2, <2>3
<1>10. ASSUME NEW c \in Handlers,
              PeerConnect(c) \/ PeerSend(c) \/ PeerRead(c) \/ PeerLeave(c)
       PROVE  SelectorInv'
  BY <1>0, <1>b, <1>10 DEF PeerConnect, PeerSend, PeerRead, PeerLeave
<1>11. CASE UNCHANGED vars
  BY <1>0, <1>b, <1>11 DEF vars
<1> QED
  BY <1>1, <1>2, <1>3, <1>4, <1>5, <1>6, <1>7, <1>8, <1>9, <1>10, <1>11
     DEF Next, SelectorStep

KindNames == {"answer", "publish", "error", "disconnect", "quit"}

(* What the protocol does with a frame is a few operations, of which one   *)
(* sends, so that nobody is sent the same frame twice.                     *)
LEMMA OperationsShape ==
  ASSUME NEW c \in Handlers, NEW kind \in KindNames
  PROVE  /\ Operations(c, kind) \in Seq(Operation)
         /\ \A i, j \in 1..Len(Operations(c, kind)) :
              i # j => Operations(c, kind)[i].to \cap Operations(c, kind)[j].to = {}
<1>1. /\ Send({c}) \in Operation /\ Send(Handlers) \in Operation
      /\ Terminate \in Operation /\ Forget \in Operation
      /\ Terminate.to = {} /\ Forget.to = {}
  BY DEF Send, Terminate, Forget, Operation
<1> HIDE DEF Terminate, Forget, Operation
<1>2. CASE kind = "answer"
  <2>1. Operations(c, kind) = <<Send({c})>>
    BY <1>2 DEF Operations
  <2> QED
    BY <1>1, <2>1
<1>3. CASE kind = "publish"
  <2>1. Operations(c, kind) = <<Send(Handlers)>>
    BY <1>3 DEF Operations
  <2> QED
    BY <1>1, <2>1
<1>4. CASE kind = "error"
  <2>1. Operations(c, kind) = <<Send({c}), Terminate>>
    BY <1>4 DEF Operations
  <2> QED
    BY <1>1, <2>1
<1>5. CASE kind = "disconnect"
  <2>1. Operations(c, kind) = <<Terminate, Send({c}), Forget>>
    BY <1>5 DEF Operations
  <2> QED
    BY <1>1, <2>1
<1>6. CASE kind = "quit"
  <2>1. Operations(c, kind) = <<Terminate, Forget>>
    BY <1>6 DEF Operations
  <2> QED
    BY <1>1, <2>1
<1> QED
  BY <1>2, <1>3, <1>4, <1>5, <1>6 DEF KindNames

(* The task of c that begins does what its own chunk asks for. *)
LEMMA BeginEffect ==
  ASSUME InputInv, NEW c \in Handlers, Begin(c)
  PROVE  /\ processed' = [processed EXCEPT ![c] =
              Append(@, <<c, Len(processed[c]) + 1>>)]
         /\ \E kind \in KindNames :
              work' = [work EXCEPT ![c].ops = Operations(c, kind)]
         /\ busy' = [busy EXCEPT ![c] = Len(processed[c]) + 1]
         /\ Len(processed[c]) + 1 \in 1..MaxChunks
<1> DEFINE n == Len(processed[c]) + 1
<1>1. /\ buffers[lease[c][Head(mail[c])]] = <<c, n>>
      /\ Head(mail[c]) = n /\ n \in 1..Len(chunks[c]) /\ n \in 1..MaxChunks
  BY BeginsNext DEF Begin
<1>2. chunks[c][n] \in UNION {Kinds[d] : d \in Handlers}
  <2>1. chunks[c] \in Seq(UNION {Kinds[d] : d \in Handlers})
    BY DEF InputInv, InputTypes
  <2> HIDE DEF n
  <2> QED
    BY <1>1, <2>1, ElementOfSeq
<1>3. chunks[c][n] \in KindNames
  BY <1>2, ReactorAssumption DEF KindNames
<1> HIDE DEF n
<1>4. /\ processed' = [processed EXCEPT ![c] = Append(@, <<c, n>>)]
      /\ busy' = [busy EXCEPT ![c] = n]
      /\ work' = [work EXCEPT ![c].ops = Operations(c, chunks[c][n])]
  <2> DEFINE frame == buffers[lease[c][Head(mail[c])]]
  <2>1. /\ processed' = [processed EXCEPT ![c] = Append(@, frame)]
        /\ work' = [work EXCEPT ![c].ops = Operations(c, chunks[frame[1]][frame[2]])]
        /\ busy' = [busy EXCEPT ![c] = Head(mail[c])]
    BY DEF Begin, Pool!Begin
  <2>2. frame = <<c, n>> /\ Head(mail[c]) = n
    BY <1>1
  <2> HIDE DEF frame
  <2>3. frame[1] = c /\ frame[2] = n
    BY <2>2
  <2> QED
    BY <2>1, <2>2, <2>3
<1> QED
  BY <1>1, <1>3, <1>4 DEF n

LEMMA WorkInit == Init => WorkInv
<1>1. Resting \in Works /\ Resting.pc = "next"
  BY DEF Resting, Works
<1> QED
  BY <1>1 DEF Init, WorkInv, Pool!Init

(* What is left of the operations once the head is done *)
LEMMA OpsLeft ==
  ASSUME WorkInv, NEW c \in Handlers, NEW op, Doing(c, op)
  PROVE  /\ work[c] \in Works
         /\ work[c].ops \in Seq(Operation) /\ work[c].ops # <<>>
         /\ Head(work[c].ops) \in Operation
         /\ Tail(work[c].ops) \in Seq(Operation)
         /\ Head(work[c].ops) = work[c].ops[1]
         /\ Len(work[c].ops) \in Nat \ {0}
         /\ Len(Tail(work[c].ops)) = Len(work[c].ops) - 1
         /\ \A i \in 1..Len(Tail(work[c].ops)) :
              Tail(work[c].ops)[i] = work[c].ops[i + 1]
<1>1. /\ work[c] \in Works /\ work[c].ops \in Seq(Operation)
      /\ work[c].ops # <<>>
  BY DEF WorkInv, Works, Doing
<1>2. Len(work[c].ops) \in Nat /\ Len(work[c].ops) # 0
  BY <1>1, EmptySeq, LenProperties
<1> QED
  BY <1>1, <1>2, HeadTailProperties

(* A send to d leaves the others, and then the operations after it. *)
SendsTo(c, d, left) ==
  LET to == Head(work[c].ops).to
  IN  /\ d \in to
      /\ left = IF to = {d} THEN Tail(work[c].ops)
                ELSE <<Send(to \ {d})>> \o Tail(work[c].ops)
      /\ work' = [work EXCEPT ![c] =
           IF d \in active /\ conn[d] = "open"
             THEN [ops |-> left, pc |-> "add", to |-> d]
             ELSE [ops |-> left, pc |-> "next", to |-> Null]]

LEMMA SendNextEffect ==
  ASSUME WorkInv, NEW c \in Handlers, SendNext(c)
  PROVE  \E d \in Handlers, left \in Seq(Operation) : SendsTo(c, d, left)
<1> DEFINE to == Head(work[c].ops).to
<1>1. /\ Head(work[c].ops) \in Operation /\ Tail(work[c].ops) \in Seq(Operation)
      /\ to \subseteq Handlers
  BY OpsLeft DEF SendNext, Operation
<1>2. PICK d \in to :
        LET left == IF to = {d} THEN Tail(work[c].ops)
                    ELSE <<Send(to \ {d})>> \o Tail(work[c].ops)
        IN  work' = [work EXCEPT ![c] =
              IF d \in active /\ conn[d] = "open"
                THEN [ops |-> left, pc |-> "add", to |-> d]
                ELSE [ops |-> left, pc |-> "next", to |-> Null]]
  BY DEF SendNext
<1> DEFINE left == IF to = {d} THEN Tail(work[c].ops)
                   ELSE <<Send(to \ {d})>> \o Tail(work[c].ops)
<1>3. left \in Seq(Operation)
  <2>1. Send(to \ {d}) \in Operation
    BY <1>1 DEF Send, Operation
  <2>2. <<Send(to \ {d})>> \in Seq(Operation)
    <3> HIDE DEF to
    <3> QED
      BY <2>1
  <2>3. <<Send(to \ {d})>> \o Tail(work[c].ops) \in Seq(Operation)
    <3> HIDE DEF to
    <3> QED
      BY <1>1, <2>2, ConcatProperties
  <2> QED
    BY <1>1, <2>3
<1>4. SendsTo(c, d, left)
  BY <1>2 DEF SendsTo
<1> QED
  BY <1>1, <1>3, <1>4

LEMMA WorkNext == InputInv /\ WorkInv /\ [Next]_vars => WorkInv'
<1> SUFFICES ASSUME InputInv, WorkInv, [Next]_vars PROVE WorkInv'
  OBVIOUS
<1>0. /\ work \in [Handlers -> Works]
      /\ busy \in [Handlers -> 1..MaxChunks \cup {Null}]
      /\ \A c \in Handlers : work[c] \in Works
  BY DEF InputInv, InputTypes, WorkInv
<1>1. ASSUME UNCHANGED <<work, busy>> PROVE WorkInv'
  BY <1>1 DEF WorkInv
<1>a. ASSUME NEW c \in Handlers, NEW w \in Works,
             work' = [work EXCEPT ![c] = w], UNCHANGED busy, busy[c] # Null,
             w.pc # "next" => w.to \in Handlers
      PROVE  WorkInv'
  BY <1>0, <1>a DEF WorkInv
<1>2. CASE SelectorStep
  BY <1>1, <1>2 DEF SelectorStep, Select, RunSelectionThreadTask, HandleAccept, ReadChunk,
     ReadEnd, StartWrite, WriteTop, WriteFails, QueueStillEmpty, TestTerminate, Pool!Post
<1>3. ASSUME NEW c \in Handlers,
             PeerConnect(c) \/ PeerSend(c) \/ PeerRead(c) \/ PeerLeave(c)
      PROVE  WorkInv'
  BY <1>1, <1>3 DEF PeerConnect, PeerSend, PeerRead, PeerLeave
<1>4. CASE UNCHANGED vars
  BY <1>1, <1>4 DEF vars
<1>5. ASSUME NEW c \in Handlers, WorkerStep(c) PROVE WorkInv'
  <2>0. work[c].pc # "next" => busy[c] # Null
    BY DEF WorkInv, Resting
  <2>1. CASE Begin(c)
    <3>1. PICK kind \in KindNames : work' = [work EXCEPT ![c].ops = Operations(c, kind)]
      BY <2>1, BeginEffect
    <3>2. work[c] = Resting
      BY <2>1 DEF Begin, Pool!Begin, WorkInv
    <3>3. /\ Operations(c, kind) \in Seq(Operation)
          /\ busy' = [busy EXCEPT ![c] = Len(processed[c]) + 1]
          /\ Len(processed[c]) + 1 \in 1..MaxChunks
      BY <2>1, BeginEffect, OperationsShape
    <3>4. Len(processed[c]) + 1 # Null
      BY <3>3, ReactorAssumption
    <3>5. [work[c] EXCEPT !.ops = Operations(c, kind)] \in Works
      BY <1>0, <3>3 DEF Works
    <3>6. work' \in [Handlers -> Works]
      BY <1>0, <3>1, <3>5
    <3>7. \A d \in Handlers : busy'[d] = Null => work'[d] = Resting
      BY <1>0, <3>1, <3>3, <3>4 DEF WorkInv
    <3>8. \A d \in Handlers : work'[d].pc # "next" => work'[d].to \in Handlers
      BY <1>0, <3>1, <3>2 DEF WorkInv, Works, Resting
    <3> QED
      BY <3>6, <3>7, <3>8 DEF WorkInv
  <2>2. CASE SendNext(c)
    <3>1. PICK d \in Handlers, left \in Seq(Operation) : SendsTo(c, d, left)
      BY <2>2, SendNextEffect
    <3>2. busy[c] # Null /\ UNCHANGED busy
      BY <2>2 DEF SendNext, Doing
    <3>3. CASE work' = [work EXCEPT ![c] = [ops |-> left, pc |-> "add", to |-> d]]
      <4>1. [ops |-> left, pc |-> "add", to |-> d] \in Works
        BY DEF Works
      <4> QED
        BY <1>a, <3>2, <3>3, <4>1
    <3>4. CASE work' = [work EXCEPT ![c] = [ops |-> left, pc |-> "next", to |-> Null]]
      <4>1. [ops |-> left, pc |-> "next", to |-> Null] \in Works
        BY DEF Works
      <4> QED
        BY <1>a, <3>2, <3>4, <4>1
    <3> QED
      BY <3>1, <3>3, <3>4 DEF SendsTo
  <2>3. CASE Add(c)
    <3>1. /\ busy[c] # Null /\ UNCHANGED busy /\ work[c].to \in Handlers
          /\ work' = [work EXCEPT ![c] = [work[c] EXCEPT !.pc = "interest"]]
      BY <2>0, <2>3 DEF Add, WorkInv
    <3>2. [work[c] EXCEPT !.pc = "interest"] \in Works
      BY <1>0 DEF Works
    <3>3. [work[c] EXCEPT !.pc = "interest"].to \in Handlers
      BY <1>0, <3>1 DEF Works
    <3> QED
      BY <1>a, <3>1, <3>2, <3>3
  <2>4. CASE AddInterest(c)
    <3>1. /\ busy[c] # Null /\ UNCHANGED busy /\ work[c].to \in Handlers
          /\ work' = [work EXCEPT ![c] = [work[c] EXCEPT !.pc = "wakeup"]]
      BY <2>0, <2>4 DEF AddInterest, WorkInv
    <3>2. [work[c] EXCEPT !.pc = "wakeup"] \in Works
      BY <1>0 DEF Works
    <3>3. [work[c] EXCEPT !.pc = "wakeup"].to \in Handlers
      BY <1>0, <3>1 DEF Works
    <3> QED
      BY <1>a, <3>1, <3>2, <3>3
  <2>5. CASE Wakeup(c)
    <3>1. /\ busy[c] # Null /\ UNCHANGED busy
          /\ work' = [work EXCEPT ![c] = [work[c] EXCEPT !.pc = "next", !.to = Null]]
      BY <2>0, <2>5 DEF Wakeup
    <3>2. /\ [work[c] EXCEPT !.pc = "next", !.to = Null] \in Works
          /\ [work[c] EXCEPT !.pc = "next", !.to = Null].pc = "next"
      BY <1>0 DEF Works
    <3> QED
      BY <1>a, <3>1, <3>2
  <2>6. CASE SetTerminate(c) \/ Disconnect(c)
    <3>1. PICK op : Doing(c, op) /\ Done(c) /\ UNCHANGED busy
      BY <2>6 DEF SetTerminate, Disconnect
    <3>2. /\ busy[c] # Null /\ work[c].pc = "next"
          /\ work' = [work EXCEPT ![c] = [work[c] EXCEPT !.ops = Tail(@)]]
      BY <3>1 DEF Doing, Done
    <3>3. /\ [work[c] EXCEPT !.ops = Tail(@)] \in Works
          /\ [work[c] EXCEPT !.ops = Tail(@)].pc = "next"
      BY <3>1, <3>2, OpsLeft DEF Works
    <3> QED
      BY <1>a, <3>1, <3>2, <3>3
  <2>7. CASE End(c)
    <3>1. busy' = [busy EXCEPT ![c] = Null] /\ UNCHANGED work /\ work[c] = Resting
      BY <2>7 DEF End, Pool!End
    <3> QED
      BY <1>0, <3>1 DEF WorkInv
  <2> QED
    BY <1>5, <2>1, <2>2, <2>3, <2>4, <2>5, <2>6, <2>7 DEF WorkerStep
<1> QED
  BY <1>2, <1>3, <1>4, <1>5 DEF Next

-----------------------------------------------------------------------------
(* What is written: the queues hold frames of which a part is left. *)
Entries == [frame : FrameId, left : 1..FrameSize]

OutputTypes ==
  /\ socket \in [Handlers -> 0..Capacity]
  /\ output \in [Handlers -> Seq(FrameId)]
  /\ writeQueue \in [Handlers -> Seq(Entries)]

(* What c writes of the frame e at the head of its queue, when the socket *)
(* takes n bytes of it.                                                   *)
Writes(c, e, n) ==
  /\ e = Head(writeQueue[c]) /\ writeQueue[c] # <<>>
  /\ n \in 0..e.left
  /\ socket' = [socket EXCEPT ![c] = @ + n]
  /\ output' = [output EXCEPT ![c] = @ \o Copies(e.frame, n)]
  /\ \/ /\ n = e.left
        /\ writeQueue' = [writeQueue EXCEPT ![c] = Tail(@)]
     \/ /\ n < e.left
        /\ writeQueue' = [writeQueue EXCEPT
             ![c] = [@ EXCEPT ![1] = [e EXCEPT !.left = e.left - n]]]

LEMMA WriteTopEffect ==
  ASSUME OutputTypes, SelectorInv, WriteTop
  PROVE  \E c \in Handlers, e \in Entries, n \in Nat :
           /\ c = selector.at /\ socket[c] + n \in 0..Capacity
           /\ Writes(c, e, n)
<1> DEFINE c == selector.at
           e == Head(writeQueue[c])
<1>1. /\ c \in Handlers /\ writeQueue[c] # <<>>
      /\ writeQueue[c] \in Seq(Entries) /\ socket[c] \in 0..Capacity
  BY DEF WriteTop, SelectorInv, OutputTypes
<1>2. e \in Entries /\ e = writeQueue[c][1] /\ e.left \in 1..FrameSize
  <2>1. e \in Entries
    BY <1>1, HeadTailProperties
  <2>2. e = writeQueue[c][1]
    BY <1>1
  <2> QED
    BY <2>1, <2>2 DEF Entries
<1>3. PICK n \in Written(c, e.left) :
        /\ WriteEffect(c, n)
        /\ \/ /\ n = e.left
              /\ writeQueue' = [writeQueue EXCEPT ![c] = Tail(@)]
           \/ /\ n < e.left
              /\ writeQueue' = [writeQueue EXCEPT ![c][1].left = e.left - n]
  BY DEF WriteTop
<1>4. n \in 0..e.left /\ socket[c] + n \in 0..Capacity
  <2> DEFINE l == e.left
             s == socket[c]
  <2>1. l \in 1..FrameSize /\ s \in 0..Capacity /\ FrameSize \in Nat /\ Capacity \in Nat
    BY <1>1, <1>2, ReactorAssumption
  <2>2. n \in (IF Least(l, Capacity - s) = 0 THEN {0} ELSE 1..Least(l, Capacity - s))
    BY DEF Written
  <2>3. n \in 0..l /\ s + n \in 0..Capacity
    <3> HIDE DEF l, s
    <3> QED
      BY <2>1, <2>2 DEF Least
  <2> QED
    BY <2>3
<1>5. n < e.left => writeQueue' = [writeQueue EXCEPT
                      ![c] = [@ EXCEPT ![1] = [e EXCEPT !.left = e.left - n]]]
  BY <1>2, <1>3, <1>4
<1>6. Writes(c, e, n)
  BY <1>1, <1>3, <1>4, <1>5 DEF Writes, WriteEffect
<1> QED
  BY <1>1, <1>2, <1>4, <1>6

(* A worker adds the frame it has decoded, whole, to the queue of another. *)
LEMMA AddEffect ==
  ASSUME InputInv, WorkInv, OutputTypes, NEW c \in Handlers, Add(c)
  PROVE  /\ work[c].to \in Handlers
         /\ Len(processed[c]) \in 1..MaxChunks
         /\ <<c, Len(processed[c])>> \in FrameId
         /\ [frame |-> <<c, Len(processed[c])>>, left |-> FrameSize] \in Entries
         /\ writeQueue' = [writeQueue EXCEPT ![work[c].to] =
              Append(@, [frame |-> <<c, Len(processed[c])>>, left |-> FrameSize])]
<1> DEFINE n == Len(processed[c])
<1>1. /\ work[c].to \in Handlers /\ busy[c] # Null
  BY DEF Add, WorkInv, Resting
<1>2. /\ busy[c] = n /\ busy[c] \in 1..MaxChunks
  BY <1>1 DEF InputInv, InputTypes, BusyWithLast
<1>3. Current(c) = <<c, n>>
  <2>1. DOMAIN processed[c] = 1..n
    BY LenProperties DEF InputInv, InputTypes
  <2>2. n \in DOMAIN processed[c]
    BY <1>2, <2>1
  <2> QED
    BY <2>2 DEF InputInv, InputInOrder, Current
<1>4. n \in 1..MaxChunks /\ <<c, n>> \in FrameId
  BY <1>2 DEF FrameId
<1>5. [frame |-> <<c, n>>, left |-> FrameSize] \in Entries
  <2> HIDE DEF n
  <2> QED
    BY <1>4, ReactorAssumption DEF Entries
<1> QED
  BY <1>1, <1>3, <1>4, <1>5 DEF Add

LEMMA CopiesFacts ==
  ASSUME NEW frame \in FrameId, NEW n \in Nat
  PROVE  /\ Copies(frame, n) \in Seq(FrameId) /\ Len(Copies(frame, n)) = n
         /\ \A i \in 1..n : Copies(frame, n)[i] = frame
<1>1. Copies(frame, n) \in [1..n -> FrameId]
  BY DEF Copies
<1>2. Copies(frame, n) \in Seq(FrameId)
  BY <1>1, IsASeq DEF Copies
<1>3. Len(Copies(frame, n)) = n
  BY <1>1, <1>2, LenProperties DEF Copies
<1> QED
  BY <1>2, <1>3 DEF Copies

LEMMA OutputTypesInit == Init => OutputTypes
<1>1. /\ <<>> \in Seq(FrameId) /\ <<>> \in Seq(Entries)
      /\ 0 \in 0..Capacity
  BY ReactorAssumption
<1> QED
  BY <1>1 DEF Init, OutputTypes

LEMMA OutputTypesNext ==
  InputInv /\ WorkInv /\ SelectorInv /\ OutputTypes /\ [Next]_vars => OutputTypes'
<1> SUFFICES ASSUME InputInv, WorkInv, SelectorInv, OutputTypes, [Next]_vars
             PROVE  OutputTypes'
  OBVIOUS
<1>0. ASSUME UNCHANGED <<socket, output, writeQueue>> PROVE OutputTypes'
  BY <1>0 DEF OutputTypes
<1>1. CASE WriteTop
  <2>1. PICK c \in Handlers, e \in Entries, n \in Nat :
          socket[c] + n \in 0..Capacity /\ Writes(c, e, n)
    BY <1>1, WriteTopEffect
  <2>2. socket' \in [Handlers -> 0..Capacity]
    BY <2>1 DEF Writes, OutputTypes
  <2>3. output' \in [Handlers -> Seq(FrameId)]
    <3>1. Copies(e.frame, n) \in Seq(FrameId)
      BY CopiesFacts DEF Entries
    <3>2. output[c] \o Copies(e.frame, n) \in Seq(FrameId)
      BY <3>1, ConcatProperties DEF OutputTypes
    <3> QED
      BY <2>1, <3>2 DEF Writes, OutputTypes
  <2>4. writeQueue' \in [Handlers -> Seq(Entries)]
    <3>1. writeQueue[c] \in Seq(Entries) /\ writeQueue[c] # <<>>
      BY <2>1 DEF Writes, OutputTypes
    <3>2. Tail(writeQueue[c]) \in Seq(Entries)
      BY <3>1, HeadTailProperties
    <3>3. CASE n = e.left /\ writeQueue' = [writeQueue EXCEPT ![c] = Tail(@)]
      BY <3>2, <3>3 DEF OutputTypes
    <3>4. CASE /\ n < e.left
               /\ writeQueue' = [writeQueue EXCEPT
                    ![c] = [@ EXCEPT ![1] = [e EXCEPT !.left = e.left - n]]]
      <4>1. [e EXCEPT !.left = e.left - n] \in Entries
        BY <3>4, ReactorAssumption DEF Entries
      <4>2. 1 \in 1..Len(writeQueue[c])
        BY <3>1, EmptySeq, LenProperties
      <4>3. [writeQueue[c] EXCEPT ![1] = [e EXCEPT !.left = e.left - n]] \in Seq(Entries)
        BY <3>1, <4>1, <4>2, ExceptSeq
      <4> QED
        BY <3>4, <4>3 DEF OutputTypes
    <3> QED
      BY <2>1, <3>3, <3>4 DEF Writes
  <2> QED
    BY <2>2, <2>3, <2>4 DEF OutputTypes
<1>2. CASE SelectorStep /\ ~WriteTop
  BY <1>0, <1>2 DEF SelectorStep, Select, RunSelectionThreadTask, HandleAccept, ReadChunk,
     ReadEnd, StartWrite, WriteFails, QueueStillEmpty, TestTerminate
<1>3. ASSUME NEW c \in Handlers, WorkerStep(c) PROVE OutputTypes'
  <2>1. CASE Add(c)
    <3> DEFINE entry == [frame |-> <<c, Len(processed[c])>>, left |-> FrameSize]
               d == work[c].to
    <3>1. /\ d \in Handlers /\ entry \in Entries
          /\ writeQueue' = [writeQueue EXCEPT ![d] = Append(@, entry)]
      BY <2>1, AddEffect
    <3> HIDE DEF entry, d
    <3>2. Append(writeQueue[d], entry) \in Seq(Entries)
      BY <3>1, AppendProperties DEF OutputTypes
    <3>3. UNCHANGED <<socket, output>>
      BY <2>1 DEF Add, SelectorSame
    <3> QED
      BY <3>1, <3>2, <3>3 DEF OutputTypes
  <2>2. CASE ~Add(c)
    BY <1>0, <1>3, <2>2 DEF WorkerStep, Begin, SendNext, AddInterest, Wakeup, SetTerminate,
       Disconnect, End, SelectorSame
  <2> QED
    BY <2>1, <2>2
<1>4. ASSUME NEW c \in Handlers, PeerRead(c) PROVE OutputTypes'
  BY <1>4, ReactorAssumption DEF PeerRead, OutputTypes
<1>5. ASSUME NEW c \in Handlers, PeerConnect(c) \/ PeerSend(c) \/ PeerLeave(c)
      PROVE  OutputTypes'
  BY <1>0, <1>5 DEF PeerConnect, PeerSend, PeerLeave
<1>6. CASE UNCHANGED vars
  BY <1>0, <1>6 DEF vars
<1> QED
  BY <1>1, <1>2, <1>3, <1>4, <1>5, <1>6 DEF Next

(* All that holds of the input, the threads and the types of the output *)
ReactorInv == InputInv /\ Flags /\ SelectorInv /\ WorkInv /\ OutputTypes

LEMMA ReactorInvNext == ReactorInv /\ [Next]_vars => ReactorInv'
  BY InputNext, FlagsNext, SelectorNext, WorkNext, OutputTypesNext DEF ReactorInv

THEOREM ReactorInvariant == Spec => []ReactorInv
<1>1. Init => ReactorInv
  BY InputInit, FlagsInit, SelectorInit, WorkInit, OutputTypesInit DEF ReactorInv
<1> QED
  BY <1>1, ReactorInvNext, PTL DEF Spec

(* The state of the reactor has the types its declarations say. *)
THEOREM ReactorTypes == Spec => []TypeOK
<1>1. ReactorInv => TypeOK
  BY DEF ReactorInv, InputInv, InputTypes, Flags, SelectorInv, Selectors, WorkInv, Works,
     OutputTypes, Entries, TypeOK
<1> QED
  BY <1>1, ReactorInvariant, PTL
-----------------------------------------------------------------------------
(***************************************************************************)
(* Wakeups. NoLostWakeup is not inductive: a handler that is not accepted  *)
(* has nothing to write, a frame whose handler the selector thread is about *)
(* to take OP_WRITE from is announced by a task or a worker, and a task     *)
(* comes with a wakeup wherever the selector thread is.                     *)
(***************************************************************************)
Quiet ==
  \A c \in Handlers : conn[c] \in {"new", "connecting"} =>
    writeQueue[c] = <<>> /\ \A d \in Handlers : work[d].to # c

Announced(c) ==
  InTasks(c) \/ \E d \in Handlers : work[d].pc = "interest" /\ work[d].to = c

Waits(c) ==
  conn[c] = "open" /\ writeQueue[c] # <<>> =>
    Announced(c) \/ ("W" \in interest[c] /\ ~(selector.pc = "terminate" /\ selector.at = c))

Heard ==
  selector.pc # "tasks" /\ selectorTasks # <<>> =>
    wakeup \/ \E d \in Handlers : work[d].pc = "wakeup"

WakeInv ==
  /\ Quiet
  /\ Serving => Heard /\ \A c \in Handlers : Waits(c)

LEMMA WakeInit == Init => WakeInv
<1> SUFFICES ASSUME Init PROVE WakeInv
  OBVIOUS
<1>1. Quiet
  BY ReactorAssumption DEF Init, Quiet, Resting
<1>2. Heard /\ \A c \in Handlers : Waits(c)
  BY DEF Init, Heard, Waits
<1> QED
  BY <1>1, <1>2 DEF WakeInv

(* A server that stopped serving never serves again. *)
LEMMA ServingBefore == ReactorInv /\ [Next]_vars /\ Serving' => Serving
<1> SUFFICES ASSUME ReactorInv, [Next]_vars, ~Serving PROVE ~Serving'
  OBVIOUS
<1>0. conn \in [Handlers -> {"new", "connecting", "open", "closed"}]
  BY DEF ReactorInv, Flags
<1>1. selector.pc \in {"ended", "write"} /\ (selector.pc = "write" => Spinning)
  BY DEF Serving, Spinning
<1>2. ASSUME UNCHANGED <<selector, conn>> PROVE ~Serving'
  BY <1>2 DEF Serving, Spinning
<1>3. CASE SelectorStep
  BY <1>1, <1>3 DEF Spinning, SelectorStep, Select, RunSelectionThreadTask, HandleAccept,
     ReadChunk, ReadEnd, StartWrite, WriteTop, WriteFails, QueueStillEmpty, TestTerminate
<1>4. ASSUME NEW c \in Handlers, WorkerStep(c) PROVE ~Serving'
  BY <1>2, <1>4 DEF WorkerStep, Begin, SendNext, Add, AddInterest, Wakeup, SetTerminate,
     Disconnect, End, SelectorSame
<1>5. ASSUME NEW c \in Handlers, PeerConnect(c) PROVE ~Serving'
  BY <1>0, <1>1, <1>5 DEF PeerConnect, Serving, Spinning
<1>6. ASSUME NEW c \in Handlers, PeerSend(c) \/ PeerRead(c) \/ PeerLeave(c)
      PROVE  ~Serving'
  BY <1>2, <1>6 DEF PeerSend, PeerRead, PeerLeave
<1>7. CASE UNCHANGED vars
  BY <1>2, <1>7 DEF vars
<1> QED
  BY <1>3, <1>4, <1>5, <1>6, <1>7 DEF Next

(* The worker of c goes to pc, on the way to the queue of "to". *)
Moves(c, pc, to) ==
  /\ work'[c].pc = pc /\ work'[c].to = to
  /\ \A b \in Handlers \ {c} : work'[b] = work[b]

LEMMA WorkerMoves ==
  ASSUME InputInv, WorkInv, NEW c \in Handlers
  PROVE  /\ SendNext(c) =>
              /\ work[c].pc = "next"
              /\ \/ Moves(c, "next", Null)
                 \/ \E d \in Handlers : conn[d] = "open" /\ Moves(c, "add", d)
         /\ Add(c) => work[c].pc = "add" /\ Moves(c, "interest", work[c].to)
         /\ AddInterest(c) => work[c].pc = "interest" /\ Moves(c, "wakeup", work[c].to)
         /\ Wakeup(c) => work[c].pc = "wakeup" /\ Moves(c, "next", Null)
         /\ Begin(c) \/ SetTerminate(c) \/ Disconnect(c) \/ End(c) =>
              Moves(c, work[c].pc, work[c].to)
<1>0. work \in [Handlers -> Works]
  BY DEF WorkInv
<1>a. ASSUME NEW ops, NEW pc, NEW to,
             work' = [work EXCEPT ![c] = [ops |-> ops, pc |-> pc, to |-> to]]
      PROVE  Moves(c, pc, to)
  BY <1>0, <1>a DEF Moves
<1>b. work[c] = [ops |-> work[c].ops, pc |-> work[c].pc, to |-> work[c].to]
  BY <1>0 DEF Works
<1>1. ASSUME SendNext(c)
      PROVE  /\ work[c].pc = "next"
             /\ \/ Moves(c, "next", Null)
                \/ \E d \in Handlers : conn[d] = "open" /\ Moves(c, "add", d)
  <2>1. PICK d \in Handlers, left \in Seq(Operation) : SendsTo(c, d, left)
    BY <1>1, SendNextEffect
  <2>2. work[c].pc = "next"
    BY <1>1 DEF SendNext, Doing
  <2> QED
    BY <1>a, <2>1, <2>2 DEF SendsTo
<1>2. ASSUME Add(c) PROVE work[c].pc = "add" /\ Moves(c, "interest", work[c].to)
  BY <1>0, <1>2 DEF Add, Moves, Works
<1>3. ASSUME AddInterest(c)
      PROVE  work[c].pc = "interest" /\ Moves(c, "wakeup", work[c].to)
  BY <1>0, <1>3 DEF AddInterest, Moves, Works
<1>4. ASSUME Wakeup(c) PROVE work[c].pc = "wakeup" /\ Moves(c, "next", Null)
  <2>1. work' = [work EXCEPT ![c] = [work[c] EXCEPT !.pc = "next", !.to = Null]]
    BY <1>4 DEF Wakeup
  <2> QED
    BY <1>0, <1>4, <2>1 DEF Wakeup, Moves, Works
<1>5. ASSUME Begin(c) PROVE Moves(c, work[c].pc, work[c].to)
  <2>1. PICK kind \in KindNames : work' = [work EXCEPT ![c].ops = Operations(c, kind)]
    BY <1>5, BeginEffect
  <2> QED
    BY <1>0, <2>1 DEF Moves, Works
<1>6. ASSUME SetTerminate(c) \/ Disconnect(c) PROVE Moves(c, work[c].pc, work[c].to)
  <2>1. work' = [work EXCEPT ![c] = [work[c] EXCEPT !.ops = Tail(@)]]
    BY <1>6 DEF SetTerminate, Disconnect, Done
  <2> QED
    BY <1>0, <2>1 DEF Moves, Works
<1>7. ASSUME End(c) PROVE Moves(c, work[c].pc, work[c].to)
  BY <1>7 DEF End, Moves
<1> QED
  BY <1>1, <1>2, <1>3, <1>4, <1>5, <1>6, <1>7

(* Nothing reaches a handler that is not accepted: sends test isClosed(). *)
LEMMA QuietNext == ReactorInv /\ Quiet /\ [Next]_vars => Quiet'
<1> SUFFICES ASSUME ReactorInv, Quiet, [Next]_vars PROVE Quiet'
  OBVIOUS
<1>0. /\ conn \in [Handlers -> {"new", "connecting", "open", "closed"}]
      /\ work \in [Handlers -> Works]
      /\ writeQueue \in [Handlers -> Seq(Entries)]
      /\ InputInv /\ WorkInv /\ OutputTypes /\ SelectorInv
  BY DEF ReactorInv, Flags, WorkInv, OutputTypes
<1>1. ASSUME UNCHANGED <<work, writeQueue>>,
             \A c \in Handlers : conn'[c] \in {"new", "connecting"} =>
               conn[c] \in {"new", "connecting"}
      PROVE  Quiet'
  BY <1>1 DEF Quiet
<1>2. CASE WriteTop
  <2>1. PICK c \in Handlers, e \in Entries, n \in Nat : Writes(c, e, n)
    BY <1>0, <1>2, WriteTopEffect
  <2>2. \A d \in Handlers : writeQueue[d] = <<>> => writeQueue'[d] = <<>>
    BY <1>0, <2>1 DEF Writes
  <2>3. UNCHANGED <<conn, work>>
    BY <1>2 DEF WriteTop
  <2> QED
    BY <2>2, <2>3 DEF Quiet
<1>3. CASE SelectorStep /\ ~WriteTop
  <2>1. UNCHANGED <<work, writeQueue>>
    BY <1>3 DEF SelectorStep, Select, RunSelectionThreadTask, HandleAccept, ReadChunk,
       ReadEnd, StartWrite, WriteFails, QueueStillEmpty, TestTerminate
  <2>2. \A c \in Handlers : conn'[c] \in {"new", "connecting"} =>
          conn[c] \in {"new", "connecting"}
    BY <1>0, <1>3 DEF SelectorStep, Select, RunSelectionThreadTask, HandleAccept,
       ReadChunk, ReadEnd, StartWrite, WriteFails, QueueStillEmpty, TestTerminate,
       CloseHandler
  <2> QED
    BY <1>1, <2>1, <2>2
<1>4. ASSUME NEW c \in Handlers, WorkerStep(c) PROVE Quiet'
  <2>1. UNCHANGED conn
    BY <1>4 DEF WorkerStep, Begin, SendNext, Add, AddInterest, Wakeup, SetTerminate,
       Disconnect, End, SelectorSame
  <2>2. \A b \in Handlers : \/ work'[b].to \in {work[b].to, Null}
                            \/ conn[work'[b].to] = "open"
    BY <1>0, <1>4, WorkerMoves DEF WorkerStep, Moves
  <2>3. CASE Add(c)
    <3>1. /\ work[c].to \in Handlers
          /\ \A d \in Handlers \ {work[c].to} : writeQueue'[d] = writeQueue[d]
      BY <1>0, <2>3, AddEffect
    <3> QED
      BY <2>1, <2>2, <3>1, ReactorAssumption DEF Quiet
  <2>4. CASE ~Add(c)
    <3>1. UNCHANGED writeQueue
      BY <1>4, <2>4 DEF WorkerStep, Begin, SendNext, AddInterest, Wakeup, SetTerminate,
         Disconnect, End
    <3> QED
      BY <2>1, <2>2, <3>1, ReactorAssumption DEF Quiet
  <2> QED
    BY <2>3, <2>4
<1>5. ASSUME NEW c \in Handlers, PeerConnect(c) PROVE Quiet'
  BY <1>0, <1>1, <1>5 DEF PeerConnect
<1>6. ASSUME NEW c \in Handlers, PeerSend(c) \/ PeerRead(c) \/ PeerLeave(c)
      PROVE  Quiet'
  BY <1>1, <1>6 DEF PeerSend, PeerRead, PeerLeave
<1>7. CASE UNCHANGED vars
  BY <1>1, <1>7 DEF vars
<1> QED
  BY <1>2, <1>3, <1>4, <1>5, <1>6, <1>7 DEF Next
(* A task for c, or a worker on its way to add one, stays until the selector *)
(* thread comes to it.                                                       *)
LEMMA AnnouncedAfterTask ==
  ASSUME ReactorInv, RunSelectionThreadTask,
         NEW c \in Handlers, c # Head(selectorTasks), Announced(c)
  PROVE  Announced(c)'
<1>1. /\ UNCHANGED work /\ selectorTasks' = Tail(selectorTasks)
      /\ selectorTasks # <<>> /\ selectorTasks \in Seq(Handlers)
  BY DEF RunSelectionThreadTask, ReactorInv, SelectorInv
<1>2. CASE InTasks(c)
  <2>1. PICK i \in 1..Len(selectorTasks) : selectorTasks[i] = c
    BY <1>1, <1>2, LenProperties DEF InTasks
  <2>2. i # 1
    BY <1>1, <2>1
  <2>3. /\ Len(Tail(selectorTasks)) = Len(selectorTasks) - 1
        /\ Len(selectorTasks) \in Nat
        /\ Tail(selectorTasks) \in Seq(Handlers)
        /\ \A j \in 1..Len(Tail(selectorTasks)) :
             Tail(selectorTasks)[j] = selectorTasks[j + 1]
    BY <1>1, HeadTailProperties, LenProperties
  <2>4. i - 1 \in 1..Len(Tail(selectorTasks)) /\ (i - 1) + 1 = i
    BY <2>1, <2>2, <2>3
  <2>5. Tail(selectorTasks)[i - 1] = c
    BY <2>1, <2>3, <2>4
  <2>6. i - 1 \in DOMAIN Tail(selectorTasks)
    BY <2>3, <2>4, LenProperties
  <2> QED
    BY <1>1, <2>5, <2>6 DEF Announced, InTasks
<1>3. CASE ~InTasks(c)
  BY <1>1, <1>3 DEF Announced
<1> QED
  BY <1>2, <1>3

LEMMA AnnouncedAfterWorker ==
  ASSUME ReactorInv, NEW d \in Handlers, WorkerStep(d), NEW c \in Handlers, Announced(c)
  PROVE  Announced(c)'
<1>0. InputInv /\ WorkInv /\ selectorTasks \in Seq(Handlers)
  BY DEF ReactorInv, SelectorInv
<1>1. CASE AddInterest(d)
  <2>1. /\ work[d].to \in Handlers /\ selectorTasks' = Append(selectorTasks, work[d].to)
        /\ Moves(d, "wakeup", work[d].to)
    BY <1>0, <1>1, WorkerMoves DEF AddInterest, WorkInv
  <2>2. /\ DOMAIN selectorTasks = 1..Len(selectorTasks)
        /\ DOMAIN selectorTasks' = 1..(Len(selectorTasks) + 1)
        /\ selectorTasks'[Len(selectorTasks) + 1] = work[d].to
        /\ \A i \in 1..Len(selectorTasks) : selectorTasks'[i] = selectorTasks[i]
        /\ Len(selectorTasks) \in Nat
    BY <1>0, <2>1, AppendProperties, LenProperties
  <2>3. InTasks(c) => InTasks(c)'
    BY <2>2 DEF InTasks
  <2>4. \E i \in DOMAIN selectorTasks' : selectorTasks'[i] = work[d].to
    BY <2>2
  <2>5. ASSUME NEW b \in Handlers, work[b].pc = "interest", work[b].to = c, b # d
        PROVE  work'[b].pc = "interest" /\ work'[b].to = c
    BY <2>1, <2>5 DEF Moves
  <2> QED
    BY <2>3, <2>4, <2>5 DEF Announced, InTasks
<1>2. CASE ~AddInterest(d)
  <2>1. UNCHANGED selectorTasks
    BY <1>2 DEF WorkerStep, Begin, SendNext, Add, Wakeup, SetTerminate, Disconnect, End
  <2>2. \A b \in Handlers : work[b].pc = "interest" =>
          work'[b].pc = "interest" /\ work'[b].to = work[b].to
    BY <1>0, <1>2, WorkerMoves DEF WorkerStep, Moves
  <2> QED
    BY <2>1, <2>2 DEF Announced, InTasks
<1> QED
  BY <1>1, <1>2

(* Where the selector thread has run all tasks, none waits unheard. *)
LEMMA HeardNext ==
  ASSUME ReactorInv, Heard, [Next]_vars, selector'.pc # "ended"
  PROVE  Heard'
<1>0. /\ InputInv /\ WorkInv /\ SelectorInv
      /\ selector \in Selectors /\ selectorTasks \in Seq(Handlers)
  BY DEF ReactorInv, SelectorInv
<1>1. ASSUME UNCHANGED <<selectorTasks, wakeup, work>>,
             selector.pc = "tasks" => selector'.pc = "tasks"
      PROVE  Heard'
  BY <1>1 DEF Heard
<1>2. CASE Select
  <2>1. PICK selected, accept :
          \/ selectorTasks = <<>>
          \/ selector' = [pc |-> "tasks", at |-> Null, selected |-> selected,
                          accept |-> accept]
    BY <1>2 DEF Select
  <2>2. UNCHANGED selectorTasks
    BY <1>2 DEF Select
  <2> QED
    BY <2>1, <2>2 DEF Heard
<1>3. CASE RunSelectionThreadTask
  <2>1. CASE Len(selectorTasks) = 1
    <3>1. selectorTasks' = <<>>
      <4>1. /\ selectorTasks # <<>> /\ selectorTasks' = Tail(selectorTasks)
        BY <1>3 DEF RunSelectionThreadTask, ReactorInv, SelectorInv
      <4>2. selectorTasks' \in Seq(Handlers) /\ Len(selectorTasks') = 0
        BY <1>0, <2>1, <4>1, HeadTailProperties
      <4> QED
        BY <4>2, EmptySeq
    <3> QED
      BY <3>1 DEF Heard
  <2>2. CASE Len(selectorTasks) # 1
    <3>1. selector' = [selector EXCEPT !.pc = "ended"] \/ UNCHANGED selector
      BY <1>3, <2>2 DEF RunSelectionThreadTask
    <3>2. selector.pc = "tasks" /\ UNCHANGED selector
      BY <1>0, <1>3, <3>1 DEF RunSelectionThreadTask, Selectors
    <3> QED
      BY <3>2 DEF Heard
  <2> QED
    BY <2>1, <2>2
<1>4. CASE SelectorStep /\ ~Select /\ ~RunSelectionThreadTask
  <2>1. UNCHANGED <<selectorTasks, wakeup, work>> /\ selector.pc # "tasks"
    BY <1>4 DEF SelectorStep, HandleAccept, ReadChunk, ReadEnd, StartWrite, WriteTop,
       WriteFails, QueueStillEmpty, TestTerminate
  <2> QED
    BY <1>1, <2>1
<1>5. ASSUME NEW d \in Handlers, WorkerStep(d) PROVE Heard'
  <2>0. UNCHANGED selector
    BY <1>5 DEF WorkerStep, Begin, SendNext, Add, AddInterest, Wakeup, SetTerminate,
       Disconnect, End, SelectorSame
  <2>1. CASE AddInterest(d)
    BY <1>0, <2>1, WorkerMoves DEF Moves, Heard
  <2>2. CASE Wakeup(d)
    BY <2>2 DEF Wakeup, Heard
  <2>3. CASE ~AddInterest(d) /\ ~Wakeup(d)
    <3>1. UNCHANGED <<selectorTasks, wakeup>>
      BY <1>5, <2>3 DEF WorkerStep, Begin, SendNext, Add, SetTerminate, Disconnect, End
    <3>2. \A b \in Handlers : work[b].pc = "wakeup" => work'[b].pc = "wakeup"
      BY <1>0, <1>5, <2>3, WorkerMoves DEF WorkerStep, Moves
    <3> QED
      BY <2>0, <3>1, <3>2 DEF Heard
  <2> QED
    BY <2>1, <2>2, <2>3
<1>6. ASSUME NEW d \in Handlers,
             PeerConnect(d) \/ PeerSend(d) \/ PeerRead(d) \/ PeerLeave(d)
      PROVE  Heard'
  BY <1>1, <1>6 DEF PeerConnect, PeerSend, PeerRead, PeerLeave
<1>7. CASE UNCHANGED vars
  BY <1>1, <1>7 DEF vars
<1> QED
  BY <1>2, <1>3, <1>4, <1>5, <1>6, <1>7 DEF Next

(***************************************************************************)
(* The race itself: TestTerminate drops OP_WRITE of a handler whose queue  *)
(* was empty a moment ago, and whoever added a frame since announces it.   *)
(***************************************************************************)
LEMMA WaitsNext ==
  ASSUME ReactorInv, Quiet, [Next]_vars, Serving', NEW c \in Handlers, Waits(c)
  PROVE  Waits(c)'
<1> SUFFICES ASSUME conn'[c] = "open", writeQueue'[c] # <<>>
             PROVE  \/ Announced(c)'
                    \/ /\ "W" \in interest'[c]
                       /\ ~(selector'.pc = "terminate" /\ selector'.at = c)
  BY DEF Waits
<1>0. /\ InputInv /\ WorkInv /\ SelectorInv /\ OutputTypes
      /\ selector \in Selectors /\ selectorTasks \in Seq(Handlers)
      /\ conn \in [Handlers -> {"new", "connecting", "open", "closed"}]
      /\ interest \in [Handlers -> SUBSET Ops]
      /\ work \in [Handlers -> Works]
      /\ writeQueue \in [Handlers -> Seq(Entries)]
  BY DEF ReactorInv, SelectorInv, WorkInv, OutputTypes, Flags
<1> DEFINE Keen == /\ "W" \in interest'[c]
                   /\ ~(selector'.pc = "terminate" /\ selector'.at = c)
<1>1. ASSUME conn[c] = "open", writeQueue[c] # <<>>, UNCHANGED interest,
             UNCHANGED <<selectorTasks, work>>,
             selector'.pc = "terminate" => UNCHANGED selector \/ selector'.at # c
      PROVE  Announced(c)' \/ Keen
  BY <1>1 DEF Waits, Announced, InTasks
<1>2. CASE RunSelectionThreadTask
  <2>1. /\ selector.pc = "tasks" /\ UNCHANGED <<conn, writeQueue>>
        /\ selector'.pc # "terminate"
    BY <1>0, <1>2, GoOnSelector DEF RunSelectionThreadTask, GoOn, Selectors
  <2>2. CASE c = Head(selectorTasks)
    BY <1>0, <1>2, <2>1, <2>2 DEF RunSelectionThreadTask, Ops
  <2>3. CASE c # Head(selectorTasks)
    <3>1. selector' # [selector EXCEPT !.pc = "ended"]
      BY <1>0 DEF Serving, Selectors
    <3>2. interest'[c] = interest[c]
      BY <1>0, <1>2, <2>3, <3>1 DEF RunSelectionThreadTask
    <3> QED
      BY <1>2, <2>1, <2>3, <3>2, AnnouncedAfterTask DEF Waits
  <2> QED
    BY <2>2, <2>3
<1>3. CASE HandleAccept
  <2>1. PICK d \in Handlers :
          /\ conn[d] = "connecting" /\ conn' = [conn EXCEPT ![d] = "open"]
          /\ interest' = [interest EXCEPT ![d] = {"R"}]
    BY <1>3 DEF HandleAccept
  <2>2. /\ selector.pc = "keys" /\ selector'.pc # "terminate"
        /\ UNCHANGED <<writeQueue, selectorTasks, work>>
    BY <1>3 DEF HandleAccept, GoOn
  <2>3. c # d
    BY <2>1, <2>2 DEF Quiet
  <2>4. conn[c] = "open" /\ interest'[c] = interest[c]
    BY <1>0, <2>1, <2>3
  <2> QED
    BY <2>2, <2>4 DEF Waits, Announced, InTasks
<1>4. ASSUME NEW d \in Handlers, ReadChunk(d) \/ ReadEnd(d) \/ StartWrite(d)
      PROVE  Announced(c)' \/ Keen
  <2>1. selector.pc = "keys" /\ UNCHANGED <<interest, writeQueue, selectorTasks, work>>
    BY <1>4 DEF ReadChunk, ReadEnd, StartWrite
  <2>2. selector'.pc # "terminate"
    BY <1>0, <1>4, HandledSelector, ContinueWriteSelector DEF ReadChunk, ReadEnd, StartWrite
  <2>3. conn[c] = "open"
    BY <1>0, <1>4 DEF ReadChunk, ReadEnd, StartWrite, CloseHandler
  <2> QED
    BY <1>1, <2>1, <2>2, <2>3
<1>5. CASE WriteTop
  <2>1. selector.pc = "write" /\ UNCHANGED <<interest, conn, selectorTasks, work>>
    BY <1>5 DEF WriteTop
  <2>2. selector'.pc # "terminate"
    BY <1>0, <1>5, HandledSelector, NextFrameSelector DEF WriteTop, SelectorInv
  <2>3. writeQueue[c] # <<>>
    <3>1. PICK d \in Handlers, e \in Entries, n \in Nat : Writes(d, e, n)
      BY <1>0, <1>5, WriteTopEffect
    <3> QED
      BY <1>0, <3>1 DEF Writes
  <2> QED
    BY <1>1, <2>1, <2>2, <2>3
<1>6. CASE WriteFails
  BY <1>0, <1>6 DEF WriteFails, Serving, Spinning, CloseHandler, SelectorInv
<1>7. CASE QueueStillEmpty
  <2>1. selector.pc = "drained" /\ UNCHANGED <<interest, conn, writeQueue, selectorTasks, work>>
    BY <1>7 DEF QueueStillEmpty
  <2>2. selector'.pc = "terminate" => selector'.at # c
    <3>1. CASE /\ writeQueue[selector.at] = <<>>
               /\ selector' = [selector EXCEPT !.pc = "terminate"]
      <4>1. selector'.at = selector.at
        BY <1>0, <3>1 DEF Selectors
      <4> QED
        BY <2>1, <3>1, <4>1
    <3>2. CASE Handled(selector.at)
      BY <1>0, <1>7, <3>2, HandledSelector DEF QueueStillEmpty, SelectorInv
    <3> QED
      BY <1>7, <3>1, <3>2 DEF QueueStillEmpty
  <2> QED
    BY <1>1, <2>1, <2>2
<1>8. CASE TestTerminate
  <2>1. /\ selector.pc = "terminate" /\ selector.at \in Handlers
        /\ Handled(selector.at) /\ UNCHANGED <<writeQueue, selectorTasks, work>>
    BY <1>0, <1>8 DEF TestTerminate, SelectorInv
  <2>2. selector'.pc # "terminate"
    BY <1>0, <2>1, HandledSelector
  <2>3. conn[c] = "open"
    BY <1>0, <1>8 DEF TestTerminate, CloseHandler
  <2>4. CASE c = selector.at
    BY <2>1, <2>3, <2>4 DEF Waits, Announced, InTasks
  <2>5. CASE c # selector.at
    <3>1. interest'[c] = interest[c]
      BY <1>0, <1>8, <2>5 DEF TestTerminate
    <3> QED
      BY <2>1, <2>2, <2>3, <3>1 DEF Waits, Announced, InTasks
  <2> QED
    BY <2>4, <2>5
<1>9. ASSUME NEW d \in Handlers, WorkerStep(d) PROVE Announced(c)' \/ Keen
  <2>1. UNCHANGED <<conn, interest, selector>>
    BY <1>9 DEF WorkerStep, Begin, SendNext, Add, AddInterest, Wakeup, SetTerminate,
       Disconnect, End, SelectorSame
  <2>2. CASE Add(d) /\ work[d].to = c
    BY <1>0, <2>2, WorkerMoves DEF Moves, Announced
  <2>3. CASE ~(Add(d) /\ work[d].to = c)
    <3>1. writeQueue'[c] = writeQueue[c]
      <4>1. CASE Add(d)
        BY <1>0, <2>3, <4>1, AddEffect
      <4>2. CASE ~Add(d)
        BY <1>9, <4>2 DEF WorkerStep, Begin, SendNext, AddInterest, Wakeup, SetTerminate,
           Disconnect, End
      <4> QED
        BY <4>1, <4>2
    <3> QED
      BY <1>9, <2>1, <3>1, AnnouncedAfterWorker DEF Waits
  <2> QED
    BY <2>2, <2>3
<1>10. ASSUME NEW d \in Handlers,
              PeerConnect(d) \/ PeerSend(d) \/ PeerRead(d) \/ PeerLeave(d)
       PROVE  Announced(c)' \/ Keen
  BY <1>0, <1>1, <1>10 DEF PeerConnect, PeerSend, PeerRead, PeerLeave
<1>11. CASE UNCHANGED vars
  BY <1>0, <1>1, <1>11 DEF vars
<1>12. CASE Select
  <2>1. /\ UNCHANGED <<conn, interest, writeQueue, selectorTasks, work>>
        /\ selector'.pc # "terminate"
    BY <1>12 DEF Select, GoOn
  <2> QED
    BY <1>1, <2>1
<1> QED
  BY <1>2, <1>3, <1>4, <1>5, <1>6, <1>7, <1>8, <1>9, <1>10, <1>11, <1>12
     DEF Next, SelectorStep

LEMMA WakeNext == ReactorInv /\ WakeInv /\ [Next]_vars => WakeInv'
<1> SUFFICES ASSUME ReactorInv, WakeInv, [Next]_vars PROVE WakeInv'
  OBVIOUS
<1>1. Quiet'
  BY QuietNext DEF WakeInv
<1>2. ASSUME Serving' PROVE Heard' /\ \A c \in Handlers : Waits(c)'
  <2>1. Serving /\ selector'.pc # "ended"
    BY <1>2, ServingBefore DEF Serving
  <2> QED
    BY <1>2, <2>1, HeardNext, WaitsNext DEF WakeInv
<1> QED
  BY <1>1, <1>2 DEF WakeInv

(***************************************************************************)
(* While the selector thread serves, every frame that waits in the queue   *)
(* of an open handler has the thread's interest or is announced to it, and *)
(* every announcement comes with a wakeup.                                 *)
(***************************************************************************)
THEOREM ReactorWakes == Spec => []NoLostWakeup
<1>1. WakeInv => NoLostWakeup
  BY DEF WakeInv, Heard, Waits, Announced, NoLostWakeup
<1>2. Init => WakeInv
  BY WakeInit
<1>3. ReactorInv /\ ReactorInv' /\ WakeInv /\ [Next]_vars => WakeInv'
  BY WakeNext
<1> QED
  BY <1>1, <1>2, <1>3, ReactorInvariant, PTL DEF Spec

-----------------------------------------------------------------------------
(***************************************************************************)
(* Output: whole frames, without a gap, and those of one client in the     *)
(* order of its chunks. Any worker adds to any queue, the socket takes any *)
(* part of a frame, and the selector thread goes on where it stopped.      *)
(***************************************************************************)

(***************************************************************************)
(* A task sends a frame to a handler at most once: its operations have no  *)
(* receiver in common, and none has the one it is about to add to.         *)
(***************************************************************************)
Once(d) ==
  /\ \A i, j \in 1..Len(work[d].ops) :
       i # j => work[d].ops[i].to \cap work[d].ops[j].to = {}
  /\ work[d].pc = "add" =>
       \A i \in 1..Len(work[d].ops) : work[d].to \notin work[d].ops[i].to

(* The task of d may still add its frame to the queue of c. *)
Pending(d, c) ==
  \/ \E i \in 1..Len(work[d].ops) : c \in work[d].ops[i].to
  \/ work[d].pc = "add" /\ work[d].to = c

LEMMA OnceInit == Init => \A d \in Handlers : Once(d)
  BY DEF Init, Once, Resting

(* Operations without the first, and a shorter list of receivers before them *)
LEMMA LeftOps ==
  ASSUME WorkInv, NEW d \in Handlers, Once(d), Doing(d, "send"),
         NEW c \in Handlers, NEW left \in Seq(Operation), SendsTo(d, c, left)
  PROVE  /\ \A i \in 1..Len(left) : c \notin left[i].to
         /\ \A i, j \in 1..Len(left) : i # j => left[i].to \cap left[j].to = {}
         /\ \A i \in 1..Len(left) : \E k \in 1..Len(work[d].ops) :
              left[i].to \subseteq work[d].ops[k].to
<1> DEFINE ops == work[d].ops
           to == Head(ops).to
           rest == Tail(ops)
           n == Len(ops)
<1>1. /\ n \in Nat \ {0} /\ Len(rest) = n - 1 /\ to = ops[1].to /\ c \in to
      /\ rest \in Seq(Operation)
      /\ \A i \in 1..Len(rest) : rest[i] = ops[i + 1]
      /\ to \subseteq Handlers
  BY OpsLeft DEF SendsTo, Operation
<1>2. \A i, j \in 1..n : i # j => ops[i].to \cap ops[j].to = {}
  BY DEF Once
<1>3. CASE left = rest
  <2> HIDE DEF ops, rest, n, to
  <2>1. \A i \in 1..Len(left) : /\ left[i] = ops[i + 1] /\ i + 1 \in 1..n
                                /\ i + 1 # 1 /\ 1 \in 1..n
    <3>1. Len(left) = n - 1 /\ \A i \in 1..Len(left) : left[i] = ops[i + 1]
      BY <1>1, <1>3
    <3>2. \A i \in 1..(n - 1) : i + 1 \in 1..n /\ i + 1 # 1 /\ 1 \in 1..n
      BY <1>1
    <3> QED
      BY <3>1, <3>2
  <2>2. \A i \in 1..Len(left) : c \notin left[i].to
    BY <1>1, <1>2, <2>1
  <2>3. \A i, j \in 1..Len(left) : i # j => left[i].to \cap left[j].to = {}
    <3>1. Len(left) = n - 1 /\ \A i, j \in 1..(n - 1) : i # j => i + 1 # j + 1
      BY <1>1, <1>3
    <3> QED
      BY <1>2, <2>1, <3>1
  <2> QED
    BY <2>1, <2>2, <2>3 DEF ops, n
<1>4. CASE left = <<Send(to \ {c})>> \o rest
  <2> DEFINE first == Send(to \ {c})
  <2>1. /\ Len(left) = n
        /\ left[1] = first
        /\ \A i \in 2..n : left[i] = ops[i]
    <3>1. <<first>> \in Seq({first}) /\ Len(<<first>>) = 1 /\ <<first>>[1] = first
      OBVIOUS
    <3> DEFINE S == Operation \cup {first}
    <3>2. <<first>> \in Seq(S) /\ rest \in Seq(S)
      <4>1. Operation \subseteq S
        OBVIOUS
      <4> QED
        BY <1>1, <4>1, <3>1
    <3> HIDE DEF first, rest, ops, n, S
    <3>3. /\ Len(<<first>> \o rest) = 1 + Len(rest)
          /\ \A i \in 1..(1 + Len(rest)) : (<<first>> \o rest)[i] =
               IF i <= 1 THEN <<first>>[i] ELSE rest[i - 1]
      BY <3>1, <3>2, ConcatProperties
    <3>4. left = <<first>> \o rest
      BY <1>4 DEF first
    <3>5. Len(left) = n /\ left[1] = first
      BY <1>1, <3>1, <3>3, <3>4
    <3>6. \A i \in 2..n : left[i] = ops[i]
      <4> SUFFICES ASSUME NEW i \in 2..n PROVE left[i] = ops[i]
        OBVIOUS
      <4>1. i - 1 \in 1..Len(rest) /\ i \in 1..(1 + Len(rest)) /\ ~(i <= 1)
            /\ (i - 1) + 1 = i
        BY <1>1
      <4> QED
        BY <1>1, <3>3, <3>4, <4>1
    <3> QED
      BY <3>5, <3>6
  <2>2. first.to = to \ {c}
    BY DEF Send
  <2> HIDE DEF ops, rest, n, to, first
  <2>3. \A i \in 1..n : left[i].to \subseteq ops[i].to \ {c}
    <3> SUFFICES ASSUME NEW i \in 1..n PROVE left[i].to \subseteq ops[i].to \ {c}
      OBVIOUS
    <3>1. CASE i = 1
      BY <1>1, <2>1, <2>2, <3>1
    <3>2. CASE i # 1
      <4>1. i \in 2..n /\ 1 \in 1..n
        BY <1>1, <3>2
      <4> QED
        BY <1>1, <1>2, <2>1, <3>2, <4>1
    <3> QED
      BY <3>1, <3>2
  <2>4. \A i, j \in 1..n : i # j => left[i].to \cap left[j].to = {}
    BY <1>2, <2>3
  <2>5. \A i \in 1..Len(left) : c \notin left[i].to
    BY <2>1, <2>3
  <2>6. \A i \in 1..Len(left) : \E k \in 1..n : left[i].to \subseteq ops[k].to
    BY <2>1, <2>3
  <2> QED
    BY <2>1, <2>4, <2>5, <2>6 DEF ops, n
<1> QED
  BY <1>3, <1>4 DEF SendsTo

(***************************************************************************)
(* A step of a worker, other than the beginning of a task, takes from what *)
(* is pending and adds nothing to it, and a frame is sent once.            *)
(***************************************************************************)
LEMMA WorkerPending ==
  ASSUME ReactorInv, \A d \in Handlers : Once(d), NEW d \in Handlers, WorkerStep(d)
  PROVE  /\ \A b \in Handlers : Once(b)'
         /\ Begin(d) \/ \A b, c \in Handlers : Pending(b, c)' => Pending(b, c)
         /\ \A c \in Handlers : Add(d) /\ work[d].to = c => ~Pending(d, c)'
<1>0. /\ InputInv /\ WorkInv /\ work \in [Handlers -> Works]
      /\ Null \notin Handlers
  BY ReactorAssumption DEF ReactorInv, WorkInv
<1>1. \A b \in Handlers \ {d} : work'[b] = work[b]
  BY <1>0, WorkerMoves DEF WorkerStep, Moves
<1>2. SUFFICES /\ Once(d)'
               /\ Begin(d) \/ \A c \in Handlers : Pending(d, c)' => Pending(d, c)
               /\ \A c \in Handlers : Add(d) /\ work[d].to = c => ~Pending(d, c)'
  BY <1>1 DEF Once, Pending
<1>3. CASE Begin(d)
  <2>1. PICK kind \in KindNames : work' = [work EXCEPT ![d].ops = Operations(d, kind)]
    BY <1>0, <1>3, BeginEffect
  <2>2. work'[d].ops = Operations(d, kind) /\ work'[d].pc = work[d].pc
    BY <1>0, <2>1 DEF Works
  <2>3. work[d].pc = "next"
    <3>1. busy[d] = Null
      BY <1>3 DEF Begin, Pool!Begin
    <3> QED
      BY <3>1, <1>0 DEF WorkInv, Resting
  <2>4. Once(d)'
    BY <2>2, <2>3, OperationsShape DEF Once
  <2> QED
    BY <1>3, <2>3, <2>4 DEF Add
<1>4. CASE SendNext(d)
  <2>1. PICK c \in Handlers, left \in Seq(Operation) : SendsTo(d, c, left)
    BY <1>0, <1>4, SendNextEffect
  <2>2. Doing(d, "send") /\ work[d].pc = "next" /\ ~Add(d)
    BY <1>4 DEF SendNext, Doing, Add
  <2>3. /\ \A i \in 1..Len(left) : c \notin left[i].to
        /\ \A i, j \in 1..Len(left) : i # j => left[i].to \cap left[j].to = {}
        /\ \A i \in 1..Len(left) : \E k \in 1..Len(work[d].ops) :
             left[i].to \subseteq work[d].ops[k].to
    BY <1>0, <2>1, <2>2, LeftOps
  <2>4. /\ work'[d].ops = left
        /\ work'[d].pc = "next" \/ (work'[d].pc = "add" /\ work'[d].to = c)
    BY <1>0, <2>1 DEF SendsTo
  <2>5. \E k \in 1..Len(work[d].ops) : c \in work[d].ops[k].to
    BY <1>0, <2>1, <2>2, OpsLeft DEF SendsTo
  <2>6. Once(d)'
    BY <2>3, <2>4 DEF Once
  <2>7. \A b \in Handlers : Pending(d, b)' => Pending(d, b)
    BY <2>3, <2>4, <2>5 DEF Pending
  <2> QED
    BY <2>2, <2>6, <2>7
<1>5. CASE Add(d)
  <2>1. work[d].pc = "add" /\ work'[d].pc = "interest" /\ work'[d].ops = work[d].ops
    BY <1>0, <1>5 DEF Add, Works
  <2>2. Once(d)' /\ \A c \in Handlers : work[d].to = c => ~Pending(d, c)'
    BY <2>1 DEF Once, Pending
  <2>3. \A c \in Handlers : Pending(d, c)' => Pending(d, c)
    BY <2>1 DEF Pending
  <2> QED
    BY <2>2, <2>3
<1>6. CASE AddInterest(d)
  <2>1. work'[d].ops = work[d].ops /\ work'[d].pc # "add" /\ ~Add(d)
    BY <1>0, <1>6 DEF AddInterest, Add, Works
  <2> QED
    BY <2>1 DEF Once, Pending
<1>7. CASE Wakeup(d)
  <2>1. /\ work' = [work EXCEPT ![d] = [work[d] EXCEPT !.pc = "next", !.to = Null]]
        /\ ~Add(d)
    BY <1>7 DEF Wakeup, Add
  <2>2. work'[d].ops = work[d].ops /\ work'[d].pc # "add"
    BY <1>0, <2>1 DEF Works
  <2> QED
    BY <2>1, <2>2 DEF Once, Pending
<1>8. CASE SetTerminate(d) \/ Disconnect(d)
  <2>1. PICK op : Doing(d, op) /\ Done(d)
    BY <1>8 DEF SetTerminate, Disconnect
  <2> DEFINE ops == work[d].ops
             rest == Tail(ops)
             n == Len(ops)
  <2>2. /\ work'[d].ops = rest /\ work'[d].pc = work[d].pc /\ work'[d].to = work[d].to
        /\ work[d].pc = "next" /\ ~Add(d)
    BY <1>0, <2>1 DEF Doing, Done, Works, Add
  <2>3. /\ n \in Nat \ {0} /\ Len(rest) = n - 1
        /\ \A i \in 1..Len(rest) : rest[i] = ops[i + 1]
    BY <1>0, <2>1, OpsLeft
  <2>4. \A i, j \in 1..n : i # j => ops[i].to \cap ops[j].to = {}
    BY DEF Once
  <2>5. /\ \A i, j \in 1..Len(rest) : i # j => rest[i].to \cap rest[j].to = {}
        /\ \A i \in 1..Len(rest) : i + 1 \in 1..n /\ rest[i] = ops[i + 1]
    <3> HIDE DEF ops, rest, n
    <3>1. \A i, j \in 1..(n - 1) : /\ i + 1 \in 1..n /\ j + 1 \in 1..n
                                   /\ i # j => i + 1 # j + 1
      BY <2>3
    <3> QED
      BY <2>3, <2>4, <3>1
  <2>6. Once(d)'
    BY <2>2, <2>5 DEF Once
  <2>7. \A c \in Handlers : Pending(d, c)' => Pending(d, c)
    BY <2>2, <2>5 DEF Pending
  <2> QED
    BY <2>2, <2>6, <2>7
<1>9. CASE End(d)
  BY <1>9 DEF End, Once, Pending, Add, Resting
<1> QED
  BY <1>3, <1>4, <1>5, <1>6, <1>7, <1>8, <1>9 DEF WorkerStep

LEMMA OnceNext ==
  ReactorInv /\ (\A d \in Handlers : Once(d)) /\ [Next]_vars =>
    (\A d \in Handlers : Once(d))'
<1> SUFFICES ASSUME ReactorInv, \A d \in Handlers : Once(d), [Next]_vars
             PROVE  (\A d \in Handlers : Once(d))'
  OBVIOUS
<1>1. ASSUME UNCHANGED work PROVE (\A d \in Handlers : Once(d))'
  BY <1>1 DEF Once
<1>2. CASE SelectorStep
  BY <1>1, <1>2 DEF SelectorStep, Select, RunSelectionThreadTask, HandleAccept, ReadChunk,
     ReadEnd, StartWrite, WriteTop, WriteFails, QueueStillEmpty, TestTerminate
<1>3. ASSUME NEW c \in Handlers, WorkerStep(c) PROVE (\A d \in Handlers : Once(d))'
  BY <1>3, WorkerPending
<1>4. ASSUME NEW c \in Handlers,
             PeerConnect(c) \/ PeerSend(c) \/ PeerRead(c) \/ PeerLeave(c)
      PROVE  (\A d \in Handlers : Once(d))'
  BY <1>1, <1>4 DEF PeerConnect, PeerSend, PeerRead, PeerLeave
<1>5. CASE UNCHANGED vars
  BY <1>1, <1>5 DEF vars
<1> QED
  BY <1>2, <1>3, <1>4, <1>5 DEF Next

-----------------------------------------------------------------------------
(***************************************************************************)
(* OutputInOrder is not inductive. The frames that were ever added for a   *)
(* handler are a sequence of which k are written in full, the next may be  *)
(* written in part, and that one and the rest are in the queue.            *)
(***************************************************************************)
Block(i) == (i - 1) \div FrameSize

Sent(queue, out, frames, k) ==
  /\ Len(frames) = k + Len(queue)
  /\ \A j \in 1..Len(queue) : queue[j].frame = frames[k + j]
  /\ \A j \in 2..Len(queue) : queue[j].left = FrameSize
  /\ Len(out) = FrameSize * k + (IF queue = <<>> THEN 0 ELSE FrameSize - queue[1].left)
  /\ \A i \in 1..Len(out) :
       Block(i) + 1 \in 1..Len(frames) /\ out[i] = frames[Block(i) + 1]

(* n bytes of the frame at the head are appended to what was written. *)
Wrote(queue, out, n, out2) ==
  /\ n \in Nat /\ n <= queue[1].left
  /\ out2 = out \o Copies(queue[1].frame, n)

Ordered(frames) ==
  \A i, j \in 1..Len(frames) :
    i < j /\ frames[i][1] = frames[j][1] => frames[i][2] < frames[j][2]

(* The frames that were added for c are of tasks that have begun, and the  *)
(* frame of a task that may still be added is not among them.              *)
Known(c, frames) ==
  \A i \in 1..Len(frames) :
    LET f == frames[i]
    IN  /\ f[2] <= Len(processed[f[1]])
        /\ Pending(f[1], c) => f[2] < Len(processed[f[1]])

OutputInv ==
  /\ \A d \in Handlers : Once(d)
  /\ \A c \in Handlers : \E frames \in Seq(FrameId), k \in Nat :
       /\ Sent(writeQueue[c], output[c], frames, k)
       /\ Ordered(frames)
       /\ Known(c, frames)

(* The bytes of frame k + 1 *)
LEMMA BlockAt ==
  ASSUME NEW k \in Nat, NEW r \in 1..FrameSize
  PROVE  Block(FrameSize * k + r) = k
<1>1. /\ FrameSize \in Nat \ {0} /\ r - 1 \in 0..(FrameSize - 1)
      /\ FrameSize * k \in Nat
  BY ReactorAssumption
<1>2. (FrameSize * k + r) - 1 = FrameSize * k + (r - 1)
  BY <1>1
<1>3. (FrameSize * k + (r - 1)) \div FrameSize = k
  BY <1>1
<1> QED
  BY <1>2, <1>3 DEF Block

(* What a write of n bytes of the frame at the head makes of the output *)
LEMMA WrittenBytes ==
  ASSUME NEW queue \in Seq(Entries), queue # <<>>, NEW out \in Seq(FrameId),
         NEW frames \in Seq(FrameId), NEW k \in Nat, Sent(queue, out, frames, k),
         NEW n, NEW out2, Wrote(queue, out, n, out2)
  PROVE  /\ Len(out2) = FrameSize * k + (FrameSize - (queue[1].left - n))
         /\ \A i \in 1..Len(out2) :
              Block(i) + 1 \in 1..Len(frames) /\ out2[i] = frames[Block(i) + 1]
<1> DEFINE left == queue[1].left
           frame == queue[1].frame
           o == Len(out)
           m == Len(queue)
           base == FrameSize * k
<1>1. /\ m \in Nat \ {0} /\ queue[1] \in Entries
  <2>1. m \in Nat /\ m # 0
    BY EmptySeq, LenProperties
  <2>2. 1 \in 1..m
    BY <2>1
  <2> QED
    BY <2>1, <2>2, ElementOfSeq
<1>2. left \in 1..FrameSize /\ frame \in FrameId /\ FrameSize \in Nat \ {0}
  BY <1>1, ReactorAssumption DEF Entries
<1>3. base \in Nat
  BY <1>2
<1>4. o = base + (FrameSize - left) /\ o \in Nat
  BY LenProperties DEF Sent
<1>5. n \in 0..left /\ n \in Nat
  BY <1>2 DEF Wrote
<1>6. /\ Copies(frame, n) \in Seq(FrameId) /\ Len(Copies(frame, n)) = n
      /\ \A i \in 1..n : Copies(frame, n)[i] = frame
  BY <1>2, <1>5, CopiesFacts
<1>7. /\ Len(out2) = o + n
      /\ \A i \in 1..(o + n) : out2[i] = IF i <= o THEN out[i] ELSE frame
  <2> DEFINE more == Copies(frame, n)
  <2>1. out2 = out \o more
    BY DEF Wrote
  <2>3. more \in Seq(FrameId) /\ Len(more) = n /\ \A i \in 1..n : more[i] = frame
    BY <1>6
  <2> HIDE DEF more
  <2>2. /\ Len(out2) = o + Len(more)
        /\ \A i \in 1..(o + Len(more)) :
             out2[i] = IF i <= o THEN out[i] ELSE more[i - o]
    BY <2>1, <2>3, ConcatProperties
  <2> HIDE DEF o, frame
  <2>4. \A i \in 1..(o + n) : ~(i <= o) => i - o \in 1..n
    BY <1>4, <1>5
  <2> QED
    BY <2>2, <2>3, <2>4
<1>8. Len(frames) = k + m /\ frame = frames[k + 1]
  <2>1. 1 \in 1..m
    BY <1>1
  <2> QED
    BY <2>1 DEF Sent
<1>9. k + 1 \in 1..Len(frames)
  <2> HIDE DEF m
  <2> QED
    BY <1>1, <1>8
<1>10. \A i \in 1..o : Block(i) + 1 \in 1..Len(frames) /\ out[i] = frames[Block(i) + 1]
  BY DEF Sent
<1>11. ASSUME NEW i \in 1..(o + n), ~(i <= o) PROVE Block(i) = k
  <2> DEFINE r == i - base
  <2>1. r \in 1..FrameSize /\ i = base + r
    <3> HIDE DEF left, o, base
    <3> QED
      BY <1>2, <1>3, <1>4, <1>5, <1>11
  <2> HIDE DEF r
  <2>2. Block(base + r) = k
    BY <2>1, BlockAt
  <2> QED
    BY <2>1, <2>2
<1>12. \A i \in 1..(o + n) :
         Block(i) + 1 \in 1..Len(frames) /\ out2[i] = frames[Block(i) + 1]
  <2> SUFFICES ASSUME NEW i \in 1..(o + n)
               PROVE  Block(i) + 1 \in 1..Len(frames) /\ out2[i] = frames[Block(i) + 1]
    OBVIOUS
  <2>1. CASE i <= o
    <3> HIDE DEF o
    <3>1. i \in 1..o
      BY <1>4, <1>5, <2>1
    <3> QED
      BY <1>7, <1>10, <2>1, <3>1
  <2>2. CASE ~(i <= o)
    BY <1>7, <1>8, <1>9, <1>11, <2>2
  <2> QED
    BY <2>1, <2>2
<1>13. o + n = base + (FrameSize - (left - n))
  <2> HIDE DEF left, o, base
  <2> QED
    BY <1>2, <1>3, <1>4, <1>5
<1> QED
  BY <1>7, <1>12, <1>13

(* A frame of which all is written leaves the queue ... *)
LEMMA SentAll ==
  ASSUME NEW queue \in Seq(Entries), queue # <<>>, NEW out \in Seq(FrameId),
         NEW frames \in Seq(FrameId), NEW k \in Nat, Sent(queue, out, frames, k),
         NEW out2, Wrote(queue, out, queue[1].left, out2)
  PROVE  Sent(Tail(queue), out2, frames, k + 1)
<1> DEFINE left == queue[1].left
           m == Len(queue)
           rest == Tail(queue)
<1>1. m \in Nat \ {0} /\ queue[1] \in Entries
  <2>1. m \in Nat /\ m # 0
    BY EmptySeq, LenProperties
  <2>2. 1 \in 1..m
    BY <2>1
  <2> QED
    BY <2>1, <2>2, ElementOfSeq
<1>2. left \in 1..FrameSize /\ FrameSize \in Nat \ {0} /\ left \in 0..left
  BY <1>1, ReactorAssumption DEF Entries
<1>3. /\ Len(out2) = FrameSize * k + (FrameSize - (left - left))
      /\ \A i \in 1..Len(out2) :
           Block(i) + 1 \in 1..Len(frames) /\ out2[i] = frames[Block(i) + 1]
  BY WrittenBytes
<1>4. /\ rest \in Seq(Entries) /\ Len(rest) = m - 1
      /\ \A j \in 1..Len(rest) : rest[j] = queue[j + 1]
  BY HeadTailProperties
<1>5. /\ Len(frames) = k + m
      /\ \A j \in 1..m : queue[j].frame = frames[k + j]
      /\ \A j \in 2..m : queue[j].left = FrameSize
  BY DEF Sent
<1> HIDE DEF rest, m, left
<1>6. \A j \in 1..Len(rest) : /\ j + 1 \in 1..m /\ j + 1 \in 2..m
                              /\ k + (j + 1) = (k + 1) + j
                              /\ rest[j] = queue[j + 1]
  <2>1. \A j \in 1..(m - 1) : /\ j + 1 \in 1..m /\ j + 1 \in 2..m
                              /\ k + (j + 1) = (k + 1) + j
    BY <1>1
  <2> QED
    BY <1>4, <2>1
<1>7. Len(frames) = (k + 1) + Len(rest)
  BY <1>1, <1>4, <1>5
<1>8. \A j \in 1..Len(rest) : rest[j].frame = frames[(k + 1) + j]
  BY <1>5, <1>6
<1>9. \A j \in 1..Len(rest) : rest[j].left = FrameSize
  BY <1>5, <1>6
<1>10. \A j \in 2..Len(rest) : rest[j].left = FrameSize
  <2>1. \A j \in 2..(m - 1) : j \in 1..(m - 1)
    BY <1>1
  <2> QED
    BY <1>4, <1>9, <2>1
<1>11. Len(out2) = FrameSize * (k + 1)
                   + (IF rest = <<>> THEN 0 ELSE FrameSize - rest[1].left)
  <2>1. rest # <<>> => rest[1].left = FrameSize
    <3>1. ASSUME rest # <<>> PROVE 1 \in 1..Len(rest)
      BY <1>4, <3>1, EmptySeq, LenProperties
    <3> QED
      BY <1>9, <3>1
  <2>2. FrameSize * (k + 1) = FrameSize * k + FrameSize /\ FrameSize * k \in Nat
    BY <1>2
  <2>3. Len(out2) = FrameSize * k + FrameSize
    BY <1>2, <1>3, <2>2
  <2> QED
    BY <1>2, <2>1, <2>2, <2>3
<1>12. Sent(rest, out2, frames, k + 1)
  BY <1>3, <1>7, <1>8, <1>10, <1>11 DEF Sent
<1> QED
  BY <1>12 DEF rest

(* ... and one of which a part is written stays at its head. *)
LEMMA SentPart ==
  ASSUME NEW queue \in Seq(Entries), queue # <<>>, NEW out \in Seq(FrameId),
         NEW frames \in Seq(FrameId), NEW k \in Nat, Sent(queue, out, frames, k),
         NEW n, n < queue[1].left, NEW out2, Wrote(queue, out, n, out2), NEW queue2,
         queue2 = [queue EXCEPT ![1] = [queue[1] EXCEPT !.left = queue[1].left - n]]
  PROVE  Sent(queue2, out2, frames, k)
<1> DEFINE m == Len(queue)
           e == [queue[1] EXCEPT !.left = queue[1].left - n]
<1>1. m \in Nat \ {0} /\ queue[1] \in Entries /\ 1 \in 1..m
  <2>1. m \in Nat /\ m # 0
    BY EmptySeq, LenProperties
  <2>2. 1 \in 1..m
    BY <2>1
  <2> QED
    BY <2>1, <2>2, ElementOfSeq
<1>2. queue[1].left \in 1..FrameSize /\ FrameSize \in Nat \ {0} /\ n \in Nat
  BY <1>1, ReactorAssumption DEF Entries, Wrote
<1>3. /\ Len(out2) = FrameSize * k + (FrameSize - (queue[1].left - n))
      /\ \A i \in 1..Len(out2) :
           Block(i) + 1 \in 1..Len(frames) /\ out2[i] = frames[Block(i) + 1]
  BY WrittenBytes
<1>4. e \in Entries /\ e.frame = queue[1].frame /\ e.left = queue[1].left - n
  <2>1. queue[1].left - n \in 1..FrameSize
    <3> DEFINE l == queue[1].left
    <3>1. l \in 1..FrameSize /\ n < l
      BY <1>2
    <3> HIDE DEF l
    <3>2. l - n \in 1..FrameSize
      BY <1>2, <3>1
    <3> QED
      BY <3>2 DEF l
  <2> QED
    BY <1>1, <2>1 DEF Entries
<1>5. queue2 \in Seq(Entries) /\ Len(queue2) = m
      /\ queue2[1] = e /\ \A j \in 1..m : j # 1 => queue2[j] = queue[j]
  <2>1. queue2 = [queue EXCEPT ![1] = e]
    OBVIOUS
  <2> HIDE DEF e
  <2>2. /\ queue2 \in Seq(Entries) /\ Len(queue2) = m
        /\ \A j \in 1..m : queue2[j] = IF j = 1 THEN e ELSE queue[j]
    BY <1>1, <1>4, <2>1, ExceptSeq
  <2> QED
    BY <1>1, <2>2
<1>6. /\ Len(frames) = k + m
      /\ \A j \in 1..m : queue[j].frame = frames[k + j]
      /\ \A j \in 2..m : queue[j].left = FrameSize
  BY DEF Sent
<1>7. queue2 # <<>>
  BY <1>1, <1>5, EmptySeq
<1> HIDE DEF m, e
<1>8. \A j \in 1..m : queue2[j].frame = frames[k + j]
  BY <1>4, <1>5, <1>6
<1>9. \A j \in 2..m : queue2[j].left = FrameSize
  <2>1. \A j \in 2..m : j \in 1..m /\ j # 1
    BY <1>1
  <2> QED
    BY <1>5, <1>6, <2>1
<1> QED
  BY <1>3, <1>4, <1>5, <1>6, <1>7, <1>8, <1>9 DEF Sent

(* A frame is added whole, behind the others. *)
LEMMA SentMore ==
  ASSUME NEW queue \in Seq(Entries), NEW out \in Seq(FrameId),
         NEW frames \in Seq(FrameId), NEW k \in Nat, Sent(queue, out, frames, k),
         NEW e \in Entries, e.left = FrameSize
  PROVE  Sent(Append(queue, e), out, Append(frames, e.frame), k)
<1> DEFINE m == Len(queue)
           h == Len(frames)
           queue2 == Append(queue, e)
           frames2 == Append(frames, e.frame)
<1>1. /\ m \in Nat /\ h \in Nat /\ h = k + m /\ e.frame \in FrameId
      /\ FrameSize \in Nat \ {0}
  BY ReactorAssumption, LenProperties DEF Sent, Entries
<1>2. /\ Len(queue2) = m + 1 /\ queue2 # <<>>
      /\ queue2[m + 1] = e /\ \A j \in 1..m : queue2[j] = queue[j]
  <2>1. queue2 \in Seq(Entries) /\ Len(queue2) = m + 1
    BY AppendProperties
  <2>2. queue2[m + 1] = e /\ \A j \in 1..m : queue2[j] = queue[j]
    BY AppendProperties
  <2>3. queue2 # <<>>
    BY AppendProperties
  <2> QED
    BY <2>1, <2>2, <2>3
<1>3. /\ Len(frames2) = h + 1 /\ frames2[h + 1] = e.frame
      /\ \A j \in 1..h : frames2[j] = frames[j]
  BY <1>1, AppendProperties
<1>4. /\ \A j \in 1..m : queue[j].frame = frames[k + j]
      /\ \A j \in 2..m : queue[j].left = FrameSize
      /\ Len(out) = FrameSize * k + (IF queue = <<>> THEN 0 ELSE FrameSize - queue[1].left)
      /\ \A i \in 1..Len(out) :
           Block(i) + 1 \in 1..h /\ out[i] = frames[Block(i) + 1]
  BY DEF Sent
<1>5. queue = <<>> <=> m = 0
  BY EmptySeq
<1> HIDE DEF m, h, queue2, frames2
<1>6. \A j \in 1..(m + 1) : j \in 1..m \/ j = m + 1
  BY <1>1
<1>7. \A j \in 1..m : k + j \in 1..h
  BY <1>1
<1>8. \A j \in 1..(m + 1) : queue2[j].frame = frames2[k + j]
  <2>1. k + (m + 1) = h + 1
    BY <1>1
  <2> QED
    BY <1>2, <1>3, <1>4, <1>6, <1>7, <2>1
<1>9. \A j \in 2..(m + 1) : queue2[j].left = FrameSize
  <2>1. \A j \in 2..(m + 1) : (j \in 2..m /\ j \in 1..m) \/ j = m + 1
    BY <1>1
  <2> QED
    BY <1>2, <1>4, <2>1
<1>10. Len(out) = FrameSize * k + (FrameSize - queue2[1].left)
  <2>1. CASE m = 0
    <3>1. queue2[1] = e
      BY <1>2, <2>1
    <3>2. FrameSize - queue2[1].left = 0
      BY <1>1, <3>1
    <3> QED
      BY <1>4, <1>5, <2>1, <3>2
  <2>2. CASE m # 0
    <3>1. 1 \in 1..m
      BY <1>1, <2>2
    <3> QED
      BY <1>2, <1>4, <1>5, <2>2, <3>1
  <2> QED
    BY <2>1, <2>2
<1>11. \A i \in 1..Len(out) :
         Block(i) + 1 \in 1..(h + 1) /\ out[i] = frames2[Block(i) + 1]
  <2>1. \A b : b \in 1..h => b \in 1..(h + 1)
    BY <1>1
  <2> QED
    BY <1>3, <1>4, <2>1
<1>12. h + 1 = k + (m + 1)
  BY <1>1
<1>13. Sent(queue2, out, frames2, k)
  BY <1>2, <1>3, <1>8, <1>9, <1>10, <1>11, <1>12 DEF Sent
<1> QED
  BY <1>13 DEF queue2, frames2

LEMMA OutputInit == Init => OutputInv
<1> SUFFICES ASSUME Init PROVE OutputInv
  OBVIOUS
<1>1. \A d \in Handlers : Once(d)
  BY OnceInit
<1>2. ASSUME NEW c \in Handlers
      PROVE  /\ Sent(writeQueue[c], output[c], <<>>, 0)
             /\ Ordered(<<>>) /\ Known(c, <<>>)
  <2>1. writeQueue[c] = <<>> /\ output[c] = <<>> /\ Len(<<>>) = 0 /\ FrameSize * 0 = 0
    BY ReactorAssumption DEF Init
  <2> QED
    BY <2>1 DEF Sent, Ordered, Known
<1>3. <<>> \in Seq(FrameId) /\ 0 \in Nat
  OBVIOUS
<1> QED
  BY <1>1, <1>2, <1>3 DEF OutputInv

(* A frame of d behind frames of d that are of earlier tasks *)
LEMMA OrderedMore ==
  ASSUME NEW frames \in Seq(FrameId), Ordered(frames), NEW f \in FrameId,
         \A i \in 1..Len(frames) : frames[i][1] = f[1] => frames[i][2] < f[2]
  PROVE  Ordered(Append(frames, f))
<1> DEFINE h == Len(frames)
           more == Append(frames, f)
<1>1. /\ Len(more) = h + 1 /\ h \in Nat /\ more[h + 1] = f
      /\ \A i \in 1..h : more[i] = frames[i]
  BY AppendProperties, LenProperties
<1>2. \A i, j \in 1..h :
        i < j /\ frames[i][1] = frames[j][1] => frames[i][2] < frames[j][2]
  BY DEF Ordered
<1>3. \A i \in 1..h : frames[i][1] = f[1] => frames[i][2] < f[2]
  OBVIOUS
<1> HIDE DEF h, more
<1>4. ASSUME NEW i \in 1..(h + 1), NEW j \in 1..(h + 1), i < j
      PROVE  i \in 1..h /\ (j \in 1..h \/ j = h + 1)
  BY <1>1, <1>4
<1>5. ASSUME NEW i \in 1..(h + 1), NEW j \in 1..(h + 1), i < j, more[i][1] = more[j][1]
      PROVE  more[i][2] < more[j][2]
  BY <1>1, <1>2, <1>3, <1>4, <1>5
<1>6. Ordered(more)
  BY <1>1, <1>5 DEF Ordered
<1> QED
  BY <1>6 DEF more

(* The worker of d adds its frame for c: it is the last of those of d. *)
LEMMA OutputAdd ==
  ASSUME ReactorInv, OutputInv, NEW d \in Handlers, Add(d)
  PROVE  OutputInv'
<1>0. /\ InputInv /\ WorkInv /\ OutputTypes
      /\ writeQueue \in [Handlers -> Seq(Entries)]
      /\ output \in [Handlers -> Seq(FrameId)]
  BY DEF ReactorInv, OutputTypes
<1>1. PICK c \in Handlers, n \in 1..MaxChunks, f \in FrameId, e \in Entries :
        /\ c = work[d].to /\ n = Len(processed[d]) /\ f = <<d, n>>
        /\ e.frame = f /\ e.left = FrameSize
        /\ writeQueue' = [writeQueue EXCEPT ![c] = Append(@, e)]
  <2> DEFINE n == Len(processed[d])
             e == [frame |-> <<d, n>>, left |-> FrameSize]
  <2>1. /\ work[d].to \in Handlers /\ n \in 1..MaxChunks /\ <<d, n>> \in FrameId
        /\ e \in Entries
        /\ writeQueue' = [writeQueue EXCEPT ![work[d].to] = Append(@, e)]
    BY <1>0, AddEffect
  <2>2. e.frame = <<d, n>> /\ e.left = FrameSize
    OBVIOUS
  <2> HIDE DEF n, e
  <2>3. n = Len(processed[d])
    BY DEF n
  <2> QED
    BY <2>1, <2>2, <2>3
<1>2. /\ \A b \in Handlers : Once(b)'
      /\ \A b, x \in Handlers : Pending(b, x)' => Pending(b, x)
      /\ ~Pending(d, c)'
      /\ UNCHANGED <<output, processed>>
  <2>1. ~Begin(d) /\ UNCHANGED <<output, processed>> /\ WorkerStep(d)
    <3>1. work[d].pc = "add" /\ WorkerStep(d) /\ UNCHANGED <<output, processed>>
      BY DEF Add, WorkerStep, SelectorSame
    <3>2. busy[d] # Null
      BY <1>0, <3>1 DEF WorkInv, Resting
    <3> QED
      BY <3>1, <3>2 DEF Begin, Pool!Begin
  <2> QED
    BY <1>1, <2>1, WorkerPending DEF OutputInv
<1>3. ASSUME NEW x \in Handlers
      PROVE  \E frames \in Seq(FrameId), k \in Nat :
               /\ Sent(writeQueue'[x], output'[x], frames, k)
               /\ Ordered(frames) /\ Known(x, frames)'
  <2>1. PICK frames \in Seq(FrameId), k \in Nat :
          /\ Sent(writeQueue[x], output[x], frames, k)
          /\ Ordered(frames) /\ Known(x, frames)
    BY DEF OutputInv
  <2>2. Known(x, frames)'
    <3> SUFFICES ASSUME NEW i \in 1..Len(frames)
                 PROVE  /\ frames[i][2] <= Len(processed'[frames[i][1]])
                        /\ Pending(frames[i][1], x)' =>
                             frames[i][2] < Len(processed'[frames[i][1]])
      BY DEF Known
    <3>1. frames[i] \in FrameId
      BY ElementOfSeq
    <3>2. frames[i][1] \in Handlers
      BY <3>1 DEF FrameId
    <3> QED
      BY <1>2, <2>1, <3>2 DEF Known
  <2>3. CASE x = c
    <3> DEFINE more == Append(frames, f)
    <3>1. more \in Seq(FrameId)
      BY AppendProperties
    <3>2. Sent(Append(writeQueue[c], e), output[c], more, k)
      BY <1>0, <1>1, <2>1, <2>3, SentMore
    <3>3. writeQueue'[c] = Append(writeQueue[c], e) /\ output'[c] = output[c]
      BY <1>0, <1>1, <1>2
    <3>4. Pending(d, c)
      BY <1>1 DEF Add, Pending
    <3>5. \A i \in 1..Len(frames) : frames[i][1] = f[1] => frames[i][2] < f[2]
      BY <1>1, <2>1, <2>3, <3>4 DEF Known
    <3>6. Ordered(more)
      BY <2>1, <3>5, OrderedMore
    <3>7. Known(c, more)'
      <4>1. /\ Len(more) = Len(frames) + 1 /\ Len(frames) \in Nat
            /\ more[Len(frames) + 1] = f
            /\ \A i \in 1..Len(frames) : more[i] = frames[i]
        BY AppendProperties, LenProperties
      <4>2. f[2] <= Len(processed'[f[1]]) /\ ~Pending(f[1], c)'
        BY <1>1, <1>2
      <4> HIDE DEF more
      <4>3. ASSUME NEW i \in 1..Len(more)
            PROVE  \/ i \in 1..Len(frames) /\ more[i] = frames[i]
                   \/ more[i] = f
        BY <4>1
      <4>4. \A i \in 1..Len(frames) :
              /\ frames[i][2] <= Len(processed'[frames[i][1]])
              /\ Pending(frames[i][1], c)' =>
                   frames[i][2] < Len(processed'[frames[i][1]])
        BY <2>2, <2>3 DEF Known
      <4>5. \A i \in 1..Len(more) :
              /\ more[i][2] <= Len(processed'[more[i][1]])
              /\ Pending(more[i][1], c)' => more[i][2] < Len(processed'[more[i][1]])
        BY <4>2, <4>3, <4>4
      <4> QED
        BY <4>5 DEF Known
    <3> HIDE DEF more
    <3> QED
      BY <2>3, <3>1, <3>2, <3>3, <3>6, <3>7
  <2>4. CASE x # c
    <3>1. writeQueue'[x] = writeQueue[x] /\ output'[x] = output[x]
      BY <1>0, <1>1, <1>2, <2>4
    <3> QED
      BY <2>1, <2>2, <3>1
  <2> QED
    BY <2>3, <2>4
<1> QED
  BY <1>2, <1>3 DEF OutputInv

LEMMA OutputWrite ==
  ASSUME ReactorInv, OutputInv, WriteTop
  PROVE  OutputInv'
<1>0. /\ SelectorInv /\ OutputTypes
      /\ writeQueue \in [Handlers -> Seq(Entries)]
      /\ output \in [Handlers -> Seq(FrameId)]
  BY DEF ReactorInv, OutputTypes
<1>1. PICK c \in Handlers, e \in Entries, n \in Nat : Writes(c, e, n)
  BY <1>0, WriteTopEffect
<1>2. UNCHANGED <<work, processed>>
  BY DEF WriteTop
<1>3. ASSUME NEW x \in Handlers
      PROVE  \E frames \in Seq(FrameId), k \in Nat :
               /\ Sent(writeQueue'[x], output'[x], frames, k)
               /\ Ordered(frames) /\ Known(x, frames)'
  <2>1. PICK frames \in Seq(FrameId), k \in Nat :
          /\ Sent(writeQueue[x], output[x], frames, k)
          /\ Ordered(frames) /\ Known(x, frames)
    BY DEF OutputInv
  <2>2. Known(x, frames)'
    BY <1>2, <2>1 DEF Known, Pending
  <2>3. CASE x = c
    <3>1. /\ writeQueue[c] \in Seq(Entries) /\ output[c] \in Seq(FrameId)
          /\ writeQueue[c] # <<>> /\ e = writeQueue[c][1]
      BY <1>0, <1>1 DEF Writes
    <3>2. Wrote(writeQueue[c], output[c], n, output'[c])
      <4>1. n \in 0..e.left /\ output'[c] = output[c] \o Copies(e.frame, n)
        BY <1>0, <1>1 DEF Writes
      <4>2. n <= e.left
        BY <4>1 DEF Entries
      <4> QED
        BY <3>1, <4>1, <4>2 DEF Wrote
    <3>3. CASE n = e.left /\ writeQueue' = [writeQueue EXCEPT ![c] = Tail(@)]
      <4>1. writeQueue'[c] = Tail(writeQueue[c])
        BY <1>0, <3>3
      <4>2. Sent(Tail(writeQueue[c]), output'[c], frames, k + 1)
        BY <2>1, <2>3, <3>1, <3>2, <3>3, SentAll
      <4>3. k + 1 \in Nat
        OBVIOUS
      <4> QED
        BY <2>1, <2>2, <2>3, <4>1, <4>2, <4>3
    <3>4. CASE /\ n < e.left
               /\ writeQueue' = [writeQueue EXCEPT
                    ![c] = [@ EXCEPT ![1] = [e EXCEPT !.left = e.left - n]]]
      <4>1. writeQueue'[c] = [writeQueue[c] EXCEPT ![1] = [e EXCEPT !.left = e.left - n]]
        BY <1>0, <3>4
      <4>2. Sent(writeQueue'[c], output'[c], frames, k)
        BY <2>1, <2>3, <3>1, <3>2, <3>4, <4>1, SentPart
      <4> QED
        BY <2>1, <2>2, <2>3, <4>2
    <3> QED
      BY <1>1, <3>3, <3>4 DEF Writes
  <2>4. CASE x # c
    <3>1. writeQueue'[x] = writeQueue[x] /\ output'[x] = output[x]
      BY <1>0, <1>1, <2>4 DEF Writes
    <3> QED
      BY <2>1, <2>2, <3>1
  <2> QED
    BY <2>3, <2>4
<1>4. (\A d \in Handlers : Once(d))'
  BY <1>2 DEF OutputInv, Once
<1> QED
  BY <1>3, <1>4 DEF OutputInv

LEMMA OutputNext == ReactorInv /\ OutputInv /\ [Next]_vars => OutputInv'
<1> SUFFICES ASSUME ReactorInv, OutputInv, [Next]_vars PROVE OutputInv'
  OBVIOUS
<1>0. /\ InputInv /\ WorkInv /\ processed \in [Handlers -> Seq(FrameId)]
  BY DEF ReactorInv, InputInv, InputTypes
<1>1. ASSUME UNCHANGED <<output, writeQueue>>, \A d \in Handlers : Once(d)',
             \A c \in Handlers, frames \in Seq(FrameId) :
               Known(c, frames) => Known(c, frames)'
      PROVE  OutputInv'
  BY <1>1 DEF OutputInv
<1>2. ASSUME UNCHANGED <<output, writeQueue, work, processed>> PROVE OutputInv'
  BY <1>2 DEF OutputInv, Once, Known, Pending
<1>3. CASE SelectorStep /\ ~WriteTop
  BY <1>2, <1>3 DEF SelectorStep, Select, RunSelectionThreadTask, HandleAccept, ReadChunk,
     ReadEnd, StartWrite, WriteFails, QueueStillEmpty, TestTerminate
<1>4. CASE WriteTop
  BY <1>4, OutputWrite
<1>5. ASSUME NEW d \in Handlers, WorkerStep(d) PROVE OutputInv'
  <2>1. CASE Add(d)
    BY <2>1, OutputAdd
  <2>2. CASE ~Add(d)
    <3>1. UNCHANGED <<output, writeQueue>>
      BY <1>5, <2>2 DEF WorkerStep, Begin, SendNext, AddInterest, Wakeup, SetTerminate,
         Disconnect, End, SelectorSame
    <3>2. /\ \A b \in Handlers : Once(b)'
          /\ Begin(d) \/ \A b, c \in Handlers : Pending(b, c)' => Pending(b, c)
      BY <1>5, WorkerPending DEF OutputInv
    <3>3. ASSUME NEW c \in Handlers, NEW frames \in Seq(FrameId), Known(c, frames)
          PROVE  Known(c, frames)'
      <4> SUFFICES ASSUME NEW i \in 1..Len(frames)
                   PROVE  /\ frames[i][2] <= Len(processed'[frames[i][1]])
                          /\ Pending(frames[i][1], c)' =>
                               frames[i][2] < Len(processed'[frames[i][1]])
        BY DEF Known
      <4>1. frames[i][1] \in Handlers /\ frames[i][2] \in Nat
        <5>1. frames[i] \in FrameId
          BY ElementOfSeq
        <5> QED
          BY <5>1 DEF FrameId
      <4>2. /\ frames[i][2] <= Len(processed[frames[i][1]])
            /\ Pending(frames[i][1], c) => frames[i][2] < Len(processed[frames[i][1]])
        BY <3>3 DEF Known
      <4>3. CASE Begin(d)
        <5>1. PICK f \in FrameId : processed' = [processed EXCEPT ![d] = Append(@, f)]
          <6>1. /\ processed' = [processed EXCEPT
                     ![d] = Append(@, <<d, Len(processed[d]) + 1>>)]
                /\ Len(processed[d]) + 1 \in 1..MaxChunks
            BY <1>0, <4>3, BeginEffect
          <6> QED
            BY <6>1 DEF FrameId
        <5>2. work' = [work EXCEPT ![d] = work'[d]]
          <6>1. PICK kind \in KindNames : work' = [work EXCEPT ![d].ops = Operations(d, kind)]
            BY <1>0, <4>3, BeginEffect
          <6> QED
            BY <1>0, <6>1 DEF WorkInv
        <5>3. CASE frames[i][1] = d
          <6>1. processed[d] \in Seq(FrameId) /\ processed'[d] = Append(processed[d], f)
            BY <1>0, <5>1
          <6>2. Len(processed'[d]) = Len(processed[d]) + 1 /\ Len(processed[d]) \in Nat
            BY <6>1, AppendProperties, LenProperties
          <6> DEFINE p == Len(processed[d])
                     q == Len(processed'[d])
                     m == frames[i][2]
          <6>3. m \in Nat /\ p \in Nat /\ q = p + 1 /\ m <= p
            BY <4>1, <4>2, <5>3, <6>2
          <6>4. m <= q /\ m < q
            <7> HIDE DEF p, q, m
            <7> QED
              BY <6>3
          <6> QED
            BY <5>3, <6>4
        <5>4. CASE frames[i][1] # d
          <6>1. /\ processed'[frames[i][1]] = processed[frames[i][1]]
                /\ work'[frames[i][1]] = work[frames[i][1]]
            BY <1>0, <4>1, <5>1, <5>2, <5>4 DEF WorkInv
          <6> QED
            BY <4>2, <6>1 DEF Pending
        <5> QED
          BY <5>3, <5>4
      <4>4. CASE ~Begin(d)
        <5>1. UNCHANGED processed
          BY <1>5, <4>4 DEF WorkerStep, SendNext, Add, AddInterest, Wakeup, SetTerminate,
             Disconnect, End
        <5> QED
          BY <3>2, <4>1, <4>2, <4>4, <5>1
      <4> QED
        BY <4>3, <4>4
    <3> QED
      BY <1>1, <3>1, <3>2, <3>3
  <2> QED
    BY <2>1, <2>2
<1>6. ASSUME NEW c \in Handlers,
             PeerConnect(c) \/ PeerSend(c) \/ PeerRead(c) \/ PeerLeave(c)
      PROVE  OutputInv'
  BY <1>2, <1>6 DEF PeerConnect, PeerSend, PeerRead, PeerLeave
<1>7. CASE UNCHANGED vars
  BY <1>2, <1>7 DEF vars
<1> QED
  BY <1>3, <1>4, <1>5, <1>6, <1>7 DEF Next

(***************************************************************************)
(* What is on the wire are whole frames without a gap, and those that one  *)
(* client causes are in the order of its chunks, for every length of a     *)
(* frame and every part of it that a socket takes.                         *)
(***************************************************************************)
THEOREM ReactorOutputInOrder == Spec => []OutputInOrder
<1>1. ReactorInv /\ OutputInv => OutputInOrder
  <2> SUFFICES ASSUME ReactorInv, OutputInv, NEW c \in Handlers,
                      NEW i \in DOMAIN output[c], NEW j \in DOMAIN output[c]
               PROVE  /\ Block(i) = Block(j) => output[c][i] = output[c][j]
                      /\ Block(i) < Block(j) /\ output[c][i][1] = output[c][j][1]
                           => output[c][i][2] < output[c][j][2]
    BY DEF OutputInOrder, Block
  <2>1. DOMAIN output[c] = 1..Len(output[c]) /\ Len(output[c]) \in Nat
    BY LenProperties DEF ReactorInv, OutputTypes
  <2>2. PICK frames \in Seq(FrameId), k \in Nat :
          Sent(writeQueue[c], output[c], frames, k) /\ Ordered(frames)
    BY DEF OutputInv
  <2>3. /\ Block(i) + 1 \in 1..Len(frames) /\ output[c][i] = frames[Block(i) + 1]
        /\ Block(j) + 1 \in 1..Len(frames) /\ output[c][j] = frames[Block(j) + 1]
    BY <2>1, <2>2 DEF Sent
  <2>4. Block(i) \in Int /\ Block(j) \in Int
    BY <2>1, ReactorAssumption DEF Block
  <2>5. Block(i) < Block(j) => Block(i) + 1 < Block(j) + 1
    BY <2>4
  <2> QED
    BY <2>2, <2>3, <2>5 DEF Ordered
<1>2. Init => OutputInv
  BY OutputInit
<1>3. ReactorInv /\ OutputInv /\ [Next]_vars => OutputInv'
  BY OutputNext
<1> QED
  BY <1>1, <1>2, <1>3, ReactorInvariant, PTL DEF Spec
=============================================================================
