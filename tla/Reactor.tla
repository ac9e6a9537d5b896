------------------------------- MODULE Reactor -------------------------------
(***************************************************************************)
(* The non-blocking server (srv/Reactor.java) with its connection handlers *)
(* (srv/NonBlockingConnectionHandler.java). One selector thread accepts,   *)
(* reads, writes and closes; what it reads goes to the thread pool as a    *)
(* task, and the tasks send frames to any handler. The pool appears as     *)
(* what it implements, one mailbox per handler (ActorMailbox). The         *)
(* protocol appears as the order in which it sends, marks the connection   *)
(* for termination and forgets it (StompMessagingProtocol).                *)
(***************************************************************************)
EXTENDS Naturals, Sequences

CONSTANTS
  Handlers,   \* the connections
  Kinds,      \* Kinds[c]: the kinds of chunk the peer of c may send
  Leavers,    \* the connections whose peer may close its end or reset it
  MaxChunks,  \* bound: the chunks a peer sends; a chunk holds one frame
  FrameSize,  \* the length of an encoded frame
  Capacity,   \* the bytes the socket takes before the peer reads
  Null

ASSUME ReactorAssumption ==
  /\ MaxChunks \in Nat
  /\ FrameSize \in Nat \ {0}
  /\ Capacity \in Nat \ {0}
  /\ Leavers \subseteq Handlers
  /\ Kinds \in [Handlers ->
       SUBSET {"answer", "publish", "error", "disconnect", "quit"}]
  /\ Null \notin Handlers \cup 1..MaxChunks

VARIABLES  \* the peers and the network
  chunks,      \* chunks[c]: the kinds of the chunks the peer of c has sent
  gone,        \* the peers that have closed their end
  socket,      \* socket[c]: the bytes written to c that its peer has not read
  output       \* history: the frame each byte written to c belongs to

VARIABLES  \* the selector thread and what it shares with the workers
  conn,          \* conn[c]: "new", "connecting", "open" or "closed"
  readCount,     \* readCount[c]: the chunks read from c
  interest,      \* interest[c]: interestOps of the key of c
  selector,      \* pc; at: the handler in process; selected: the keys not yet
                 \* handled, with their ready operations; accept: a client waits
  selectorTasks, \* the handlers whose key is to be set to OP_READ | OP_WRITE
  wakeup,        \* the selector was woken up
  bufferPool,    \* BUFFER_POOL
  buffers,       \* buffers[b]: what buffer b holds; there are Len(buffers)
  writeQueue     \* writeQueue[c]: the frames to write, with the bytes left

VARIABLES  \* the workers and their protocol objects
  submitted, mail, busy, executed, stopped,  \* of the pool
  lease,       \* lease[c][n]: the buffer that task n of c refers to
  work,        \* work[c]: what the running task of c has still to do
  processed,   \* history: the chunks the tasks of c found in their buffers
  active,      \* activeConnections of ConnectionsImpl
  terminating  \* shouldTerminate: "no", "racy" when it was set and no later
               \* access of the worker has published it, or "seen"

peerVars == <<chunks, gone>>
socketVars == <<socket, output>>
selectorVars == <<conn, readCount, interest, selector>>
bufferVars == <<bufferPool, buffers>>
poolVars == <<submitted, mail, busy, executed, stopped>>
workerVars == <<lease, work, processed, terminating>>
vars == <<peerVars, socketVars, selectorVars, bufferVars, writeQueue, poolVars,
          workerVars, active, selectorTasks, wakeup>>

Pool == INSTANCE ActorMailbox WITH
  Actors <- Handlers, MaxTasks <- MaxChunks, Nothing <- Null

Ops == {"R", "W"}
Selection == [Handlers -> SUBSET Ops]
NoneSelected == [c \in Handlers |-> {}]
Resting == [ops |-> <<>>, pc |-> "next", to |-> Null]

(* A frame is named by the chunk that caused it: the answer to chunk n of c, *)
(* and what is published because of it, is <<c, n>>.                       *)
FrameId == Handlers \X (1..MaxChunks)

(* What the protocol does with a frame: it sends to the handlers in "to",  *)
(* sets shouldTerminate, or calls disconnect, in this order.               *)
Operation == [op : {"send", "terminate", "forget"}, to : SUBSET Handlers]

TypeOK ==
  /\ chunks \in [Handlers -> Seq(UNION {Kinds[c] : c \in Handlers})]
  /\ gone \subseteq Leavers
  /\ socket \in [Handlers -> 0..Capacity]
  /\ output \in [Handlers -> Seq(FrameId)]
  /\ conn \in [Handlers -> {"new", "connecting", "open", "closed"}]
  /\ readCount \in [Handlers -> 0..MaxChunks]
  /\ interest \in [Handlers -> SUBSET Ops]
  /\ selector \in [pc : {"select", "tasks", "keys", "write", "drained",
                         "terminate", "ended"},
                   at : Handlers \cup {Null}, selected : Selection, accept : BOOLEAN]
  /\ selectorTasks \in Seq(Handlers)
  /\ wakeup \in BOOLEAN
  /\ bufferPool \in Seq(DOMAIN buffers)
  /\ buffers \in Seq(FrameId \cup {Null})
  /\ writeQueue \in [Handlers -> Seq([frame : FrameId, left : 1..FrameSize])]
  /\ lease \in [Handlers -> Seq(DOMAIN buffers)]
  /\ work \in [Handlers -> [ops : Seq(Operation),
                            pc : {"next", "add", "interest", "wakeup"},
                            to : Handlers \cup {Null}]]
  /\ processed \in [Handlers -> Seq(FrameId)]
  /\ active \subseteq Handlers
  /\ terminating \in [Handlers -> {"no", "racy", "seen"}]

Init ==
  /\ chunks = [c \in Handlers |-> <<>>]
  /\ gone = {}
  /\ socket = [c \in Handlers |-> 0]
  /\ output = [c \in Handlers |-> <<>>]
  /\ conn = [c \in Handlers |-> "new"]
  /\ readCount = [c \in Handlers |-> 0]
  /\ interest = [c \in Handlers |-> {}]
  /\ selector = [pc |-> "select", at |-> Null, selected |-> NoneSelected,
                 accept |-> FALSE]
  /\ selectorTasks = <<>>
  /\ wakeup = FALSE
  /\ bufferPool = <<>>
  /\ buffers = <<>>
  /\ writeQueue = [c \in Handlers |-> <<>>]
  /\ Pool!Init
  /\ lease = [c \in Handlers |-> <<>>]
  /\ work = [c \in Handlers |-> Resting]
  /\ processed = [c \in Handlers |-> <<>>]
  /\ active = {}
  /\ terminating = [c \in Handlers |-> "no"]

-----------------------------------------------------------------------------
(* The peers *)

PeerConnect(c) ==
  /\ conn[c] = "new"
  /\ conn' = [conn EXCEPT ![c] = "connecting"]
  /\ UNCHANGED <<peerVars, socketVars, readCount, interest, selector, bufferVars,
                 writeQueue, poolVars, workerVars, active, selectorTasks, wakeup>>

PeerSend(c) ==
  /\ conn[c] # "new" /\ c \notin gone
  /\ Len(chunks[c]) < MaxChunks
  /\ \E kind \in Kinds[c] : chunks' = [chunks EXCEPT ![c] = Append(@, kind)]
  /\ UNCHANGED <<gone, socketVars, selectorVars, bufferVars, writeQueue, poolVars,
                 workerVars, active, selectorTasks, wakeup>>

PeerRead(c) ==
  /\ socket[c] > 0 /\ c \notin gone
  /\ socket' = [socket EXCEPT ![c] = 0]
  /\ UNCHANGED <<peerVars, output, selectorVars, bufferVars, writeQueue, poolVars,
                 workerVars, active, selectorTasks, wakeup>>

PeerLeave(c) ==
  /\ c \in Leavers \ gone
  /\ conn[c] # "new"
  /\ gone' = gone \cup {c}
  /\ UNCHANGED <<chunks, socketVars, selectorVars, bufferVars, writeQueue, poolVars,
                 workerVars, active, selectorTasks, wakeup>>

-----------------------------------------------------------------------------
(* The selector thread: serve() *)

Unread(c) == readCount[c] < Len(chunks[c])

Ready(c) ==
  IF conn[c] # "open" THEN {}
  ELSE {o \in interest[c] :
          \/ o = "R" /\ (Unread(c) \/ c \in gone)
          \/ o = "W" /\ (socket[c] < Capacity \/ c \in gone)}

(* The selector goes on with the keys that are left, or else selects again. *)
GoOn(selected, accept) ==
  selector' = [pc |-> IF selected # NoneSelected \/ accept THEN "keys" ELSE "select",
               at |-> Null, selected |-> selected, accept |-> accept]

(***************************************************************************)
(* select() blocks until a key is ready or the selector was woken up. It   *)
(* comes with the first test of selectorTasks.isEmpty().                   *)
(***************************************************************************)
Select ==
  LET selected == [c \in Handlers |-> Ready(c)]
      accept == \E c \in Handlers : conn[c] = "connecting"
  IN  /\ selector.pc = "select"
      /\ wakeup \/ accept \/ selected # NoneSelected
      /\ \/ /\ selectorTasks = <<>>
            /\ GoOn(selected, accept)
         \/ /\ selectorTasks # <<>>
            /\ selector' = [pc |-> "tasks", at |-> Null, selected |-> selected,
                            accept |-> accept]
      /\ wakeup' = FALSE
      /\ UNCHANGED <<peerVars, socketVars, conn, readCount, interest, bufferVars,
                     writeQueue, poolVars, workerVars, active, selectorTasks>>

(***************************************************************************)
(* runSelectionThreadTasks: a task sets the interest of its key; after the *)
(* last one the keys follow. interestOps of a key that was cancelled with  *)
(* its channel throws, and of no key at all too. Neither exception is      *)
(* caught: serve() ends.                                                   *)
(***************************************************************************)
RunSelectionThreadTask ==
  LET c == Head(selectorTasks)
  IN  /\ selector.pc = "tasks"
      /\ selectorTasks' = Tail(selectorTasks)
      /\ \/ /\ conn[c] = "open"
            /\ interest' = [interest EXCEPT ![c] = Ops]
            /\ IF Len(selectorTasks) = 1
                 THEN GoOn(selector.selected, selector.accept)
                 ELSE UNCHANGED selector
         \/ /\ conn[c] # "open"
            /\ selector' = [selector EXCEPT !.pc = "ended"]
            /\ UNCHANGED interest
      /\ UNCHANGED <<peerVars, socketVars, conn, readCount, bufferVars, writeQueue,
                     poolVars, workerVars, active, wakeup>>

HandleAccept ==
  /\ selector.pc = "keys" /\ selector.accept
  /\ \E c \in Handlers :
       /\ conn[c] = "connecting"
       /\ conn' = [conn EXCEPT ![c] = "open"]
       /\ interest' = [interest EXCEPT ![c] = {"R"}]
       /\ active' = active \cup {c}
  /\ GoOn(selector.selected, FALSE)
  /\ UNCHANGED <<peerVars, socketVars, readCount, bufferVars, writeQueue, poolVars,
                 workerVars, selectorTasks, wakeup>>

(* The selector is through with the key of c. *)
Handled(c) == GoOn([selector.selected EXCEPT ![c] = {}], selector.accept)

(* close() of the handler, on the selector thread *)
CloseHandler(c) ==
  /\ conn' = [conn EXCEPT ![c] = "closed"]
  /\ active' = active \ {c}


(* continueWrite() begins with a test of writeQueue.isEmpty(). *)
ContinueWrite(c) ==
  selector' = [selector EXCEPT !.at = c,
    !.pc = IF writeQueue[c] = <<>> THEN "drained" ELSE "write"]

-----------------------------------------------------------------------------
(* Reading *)

(* leaseBuffer(): the first buffer of the pool, or else a new, empty one *)
Leased == IF bufferPool = <<>> THEN Len(buffers) + 1 ELSE Head(bufferPool)
Unleased == IF bufferPool = <<>> THEN <<>> ELSE Tail(bufferPool)

Fill(b, content) ==
  buffers' = IF b \in DOMAIN buffers THEN [buffers EXCEPT ![b] = content]
                                     ELSE Append(buffers, content)

(* Mutant: the buffer goes back to the pool before its task has run. *)
ReadChunkAndRelease(c) ==
  /\ selector.pc = "keys" /\ "R" \in selector.selected[c]
  /\ Unread(c)
  /\ readCount' = [readCount EXCEPT ![c] = @ + 1]
  /\ Fill(Leased, <<c, readCount[c] + 1>>)
  /\ bufferPool' = Append(Unleased, Leased)
  /\ Pool!Post(c)
  /\ lease' = [lease EXCEPT ![c] = Append(@, Leased)]
  /\ IF "W" \in selector.selected[c] THEN ContinueWrite(c) ELSE Handled(c)
  /\ UNCHANGED <<peerVars, socketVars, conn, interest, writeQueue, work,
                 processed, terminating, active, selectorTasks, wakeup>>

(* continueRead() finds data: the task that decodes it is submitted. *)
ReadChunk(c) ==
  /\ selector.pc = "keys" /\ "R" \in selector.selected[c]
  /\ Unread(c)
  /\ readCount' = [readCount EXCEPT ![c] = @ + 1]
  /\ Fill(Leased, <<c, readCount[c] + 1>>)
  /\ bufferPool' = Unleased
  /\ Pool!Post(c)
  /\ lease' = [lease EXCEPT ![c] = Append(@, Leased)]
  /\ IF "W" \in selector.selected[c] THEN ContinueWrite(c) ELSE Handled(c)
  /\ UNCHANGED <<peerVars, socketVars, conn, interest, writeQueue, work,
                 processed, terminating, active, selectorTasks, wakeup>>

(***************************************************************************)
(* continueRead() finds the end of the stream or an error, which may come  *)
(* before data the peer had sent: the handler is closed.                   *)
(***************************************************************************)
ReadEnd(c) ==
  /\ selector.pc = "keys" /\ "R" \in selector.selected[c]
  /\ c \in gone
  /\ IF bufferPool = <<>> THEN Fill(Leased, Null) ELSE UNCHANGED buffers
  /\ bufferPool' = Append(Unleased, Leased)
  /\ CloseHandler(c)
  /\ Handled(c)
  /\ UNCHANGED <<peerVars, socketVars, readCount, interest, writeQueue, poolVars,
                 workerVars, selectorTasks, wakeup>>

-----------------------------------------------------------------------------
(* Writing: continueWrite() *)

StartWrite(c) ==
  /\ selector.pc = "keys" /\ selector.selected[c] = {"W"}
  /\ ContinueWrite(c)
  /\ UNCHANGED <<peerVars, socketVars, conn, readCount, interest, bufferVars,
                 writeQueue, poolVars, workerVars, active, selectorTasks, wakeup>>

(* What the socket takes of a frame: all of it, or what it has room for. *)
Least(a, b) == IF a < b THEN a ELSE b
Written(c, left) ==
  LET n == Least(left, Capacity - socket[c])
  IN  IF n = 0 THEN {0} ELSE 1..n

Copies(frame, n) == [i \in 1..n |-> frame]

WriteEffect(c, n) ==
  /\ socket' = [socket EXCEPT ![c] = @ + n]
  /\ output' = [output EXCEPT ![c] = @ \o Copies(Head(writeQueue[c]).frame, n)]

(* After remove() the loop tests isEmpty() again. *)
NextFrame(c) ==
  selector' = [selector EXCEPT
    !.pc = IF Len(writeQueue[c]) = 1 THEN "drained" ELSE "write"]

(* Mutant: the frame is removed although the socket took only part of it. *)
WriteTopAndRemove ==
  LET c == selector.at
      left == Head(writeQueue[c]).left
  IN  /\ selector.pc = "write" /\ conn[c] = "open" /\ writeQueue[c] # <<>>
      /\ \E n \in Written(c, left) :
           /\ c \in gone => n > 0
           /\ WriteEffect(c, n)
      /\ writeQueue' = [writeQueue EXCEPT ![c] = Tail(@)]
      /\ NextFrame(c)
      /\ UNCHANGED <<peerVars, conn, readCount, interest, bufferVars, poolVars,
                     workerVars, active, selectorTasks, wakeup>>

(* Mutant: the frame stays at the head of the queue when it is written. *)
WriteTopAndKeep ==
  LET c == selector.at
      left == Head(writeQueue[c]).left
  IN  /\ selector.pc = "write" /\ conn[c] = "open" /\ writeQueue[c] # <<>>
      /\ \E n \in Written(c, left) :
           /\ c \in gone => n > 0
           /\ WriteEffect(c, n)
           /\ writeQueue' = [writeQueue EXCEPT ![c][1].left = left - n]
           /\ Handled(c)
      /\ UNCHANGED <<peerVars, conn, readCount, interest, bufferVars, poolVars,
                     workerVars, active, selectorTasks, wakeup>>

(* The frame at the head is written and removed; what remains of it waits. *)
WriteTop ==
  LET c == selector.at
      left == Head(writeQueue[c]).left
  IN  /\ selector.pc = "write" /\ conn[c] = "open" /\ writeQueue[c] # <<>>
      /\ \E n \in Written(c, left) :
           /\ c \in gone => n > 0
           /\ WriteEffect(c, n)
           /\ \/ /\ n = left
                 /\ writeQueue' = [writeQueue EXCEPT ![c] = Tail(@)]
                 /\ NextFrame(c)
              \/ /\ n < left
                 /\ writeQueue' = [writeQueue EXCEPT ![c][1].left = left - n]
                 /\ Handled(c)
      /\ UNCHANGED <<peerVars, conn, readCount, interest, bufferVars, poolVars,
                     workerVars, active, selectorTasks, wakeup>>

(***************************************************************************)
(* The write fails and the handler is closed, but the loop goes on and the *)
(* queue is not empty: from here every write fails, and the selector       *)
(* thread never leaves continueWrite.                                      *)
(***************************************************************************)
WriteFails ==
  /\ selector.pc = "write"
  /\ LET c == selector.at
     IN  /\ conn[c] = "open" /\ writeQueue[c] # <<>> /\ c \in gone
         /\ CloseHandler(c)
  /\ UNCHANGED <<peerVars, socketVars, readCount, interest, selector, bufferVars,
                 writeQueue, poolVars, workerVars, selectorTasks, wakeup>>

Spinning == selector.pc = "write" /\ conn[selector.at] = "closed"

(* The loop found the queue empty; the test after it does too, or a worker *)
(* was faster and nothing changes.                                         *)
QueueStillEmpty ==
  /\ selector.pc = "drained"
  /\ LET c == selector.at
     IN  \/ /\ writeQueue[c] = <<>>
            /\ selector' = [selector EXCEPT !.pc = "terminate"]
         \/ /\ writeQueue[c] # <<>>
            /\ Handled(c)
  /\ UNCHANGED <<peerVars, socketVars, conn, readCount, interest, bufferVars,
                 writeQueue, poolVars, workerVars, active, selectorTasks, wakeup>>

(* Mutant: the interest set is cleared, not reset to OP_READ. *)
TestTerminateAndClear ==
  /\ selector.pc = "terminate"
  /\ LET c == selector.at
     IN  /\ \/ /\ terminating[c] # "no"
               /\ CloseHandler(c)
               /\ UNCHANGED interest
            \/ /\ terminating[c] # "seen"
               /\ interest' = [interest EXCEPT ![c] = {}]
               /\ UNCHANGED <<conn, active>>
         /\ Handled(c)
  /\ UNCHANGED <<peerVars, socketVars, readCount, bufferVars, writeQueue,
                 poolVars, workerVars, selectorTasks, wakeup>>

(***************************************************************************)
(* shouldTerminate() decides. It is a plain field that a worker sets; the  *)
(* selector may miss a value that nothing has published yet.               *)
(***************************************************************************)
TestTerminate ==
  /\ selector.pc = "terminate"
  /\ LET c == selector.at
     IN  /\ \/ /\ terminating[c] # "no"
               /\ CloseHandler(c)
               /\ UNCHANGED interest
            \/ /\ terminating[c] # "seen"
               /\ interest' = [interest EXCEPT ![c] = {"R"}]
               /\ UNCHANGED <<conn, active>>
         /\ Handled(c)
  /\ UNCHANGED <<peerVars, socketVars, readCount, bufferVars, writeQueue,
                 poolVars, workerVars, selectorTasks, wakeup>>

-----------------------------------------------------------------------------
(* The worker of c *)

SelectorSame == UNCHANGED <<peerVars, socketVars, selectorVars>>

(* The frame that the running task of c has decoded, and its kind *)
Current(c) == processed[c][Len(processed[c])]

Send(to) == [op |-> "send", to |-> to]
Terminate == [op |-> "terminate", to |-> {}]
Forget == [op |-> "forget", to |-> {}]

(* process(): an ERROR is sent before shouldTerminate is set, the RECEIPT of *)
(* a DISCONNECT after it.                                                  *)
Operations(c, kind) ==
  CASE kind = "answer"     -> <<Send({c})>>
    [] kind = "publish"    -> <<Send(Handlers)>>
    [] kind = "error"      -> <<Send({c}), Terminate>>
    [] kind = "disconnect" -> <<Terminate, Send({c}), Forget>>
    [] kind = "quit"       -> <<Terminate, Forget>>

(* The task begins and decodes what its buffer holds by now. *)
Begin(c) ==
  /\ Pool!Begin(c)
  /\ LET frame == buffers[lease[c][Head(mail[c])]]
     IN  /\ processed' = [processed EXCEPT ![c] = Append(@, frame)]
         /\ work' = [work EXCEPT ![c].ops =
              Operations(c, chunks[frame[1]][frame[2]])]
  /\ SelectorSame
  /\ UNCHANGED <<bufferVars, writeQueue, lease, terminating, active,
                 selectorTasks, wakeup>>

Doing(c, op) ==
  /\ busy[c] # Null
  /\ work[c].pc = "next"
  /\ work[c].ops # <<>>
  /\ Head(work[c].ops).op = op

Done(c) == work' = [work EXCEPT ![c].ops = Tail(@)]

(* An atomic operation of the worker publishes what it wrote before. *)
Publish(c) ==
  terminating' = [terminating EXCEPT ![c] = IF @ = "racy" THEN "seen" ELSE @]

(***************************************************************************)
(* connections.send: the frame is lost when the handler is not registered  *)
(* any more, or when isClosed().                                           *)
(***************************************************************************)
SendNext(c) ==
  /\ Doing(c, "send")
  /\ LET to == Head(work[c].ops).to
     IN  \E d \in to :
           LET left == IF to = {d} THEN Tail(work[c].ops)
                       ELSE <<Send(to \ {d})>> \o Tail(work[c].ops)
           IN  work' = [work EXCEPT ![c] =
                 IF d \in active /\ conn[d] = "open"
                   THEN [ops |-> left, pc |-> "add", to |-> d]
                   ELSE [ops |-> left, pc |-> "next", to |-> Null]]
  /\ SelectorSame
  /\ UNCHANGED <<bufferVars, writeQueue, poolVars, lease, processed, terminating,
                 active, selectorTasks, wakeup>>

(* writeQueue.add *)
Add(c) ==
  /\ work[c].pc = "add"
  /\ writeQueue' = [writeQueue EXCEPT ![work[c].to] =
       Append(@, [frame |-> Current(c), left |-> FrameSize])]
  /\ work' = [work EXCEPT ![c].pc = "interest"]
  /\ Publish(c)
  /\ SelectorSame
  /\ UNCHANGED <<bufferVars, poolVars, lease, processed, active, selectorTasks,
                 wakeup>>

(* Mutant: the selector is not told of the new interest set. *)
SkipInterest(c) ==
  /\ work[c].pc = "interest"
  /\ work' = [work EXCEPT ![c].pc = "wakeup"]
  /\ Publish(c)
  /\ SelectorSame
  /\ UNCHANGED <<bufferVars, writeQueue, poolVars, lease, processed, active,
                 selectorTasks, wakeup>>

(* Mutant: the selector is not woken up. *)
AddInterestOnly(c) ==
  /\ work[c].pc = "interest"
  /\ selectorTasks' = Append(selectorTasks, work[c].to)
  /\ work' = [work EXCEPT ![c].pc = "next", ![c].to = Null]
  /\ Publish(c)
  /\ SelectorSame
  /\ UNCHANGED <<bufferVars, writeQueue, poolVars, lease, processed, active,
                 wakeup>>

(* updateInterestedOps: a task for the selector thread ... *)
AddInterest(c) ==
  /\ work[c].pc = "interest"
  /\ selectorTasks' = Append(selectorTasks, work[c].to)
  /\ work' = [work EXCEPT ![c].pc = "wakeup"]
  /\ Publish(c)
  /\ SelectorSame
  /\ UNCHANGED <<bufferVars, writeQueue, poolVars, lease, processed, active,
                 wakeup>>

(* ... that is woken up for it *)
Wakeup(c) ==
  /\ work[c].pc = "wakeup"
  /\ wakeup' = TRUE
  /\ work' = [work EXCEPT ![c].pc = "next", ![c].to = Null]
  /\ SelectorSame
  /\ UNCHANGED <<bufferVars, writeQueue, poolVars, lease, processed, terminating,
                 active, selectorTasks>>

(* shouldTerminate = true *)
SetTerminate(c) ==
  /\ Doing(c, "terminate")
  /\ terminating' = [terminating EXCEPT ![c] = IF @ = "no" THEN "racy" ELSE @]
  /\ Done(c)
  /\ SelectorSame
  /\ UNCHANGED <<bufferVars, writeQueue, poolVars, lease, processed, active,
                 selectorTasks, wakeup>>

(* connections.disconnect of a DISCONNECT: later sends do not find c. *)
Disconnect(c) ==
  /\ Doing(c, "forget")
  /\ active' = active \ {c}
  /\ Publish(c)
  /\ Done(c)
  /\ SelectorSame
  /\ UNCHANGED <<bufferVars, writeQueue, poolVars, lease, processed,
                 selectorTasks, wakeup>>

(* The task ends and its buffer goes back to the pool. *)
End(c) ==
  /\ busy[c] # Null /\ work[c] = Resting
  /\ bufferPool' = Append(bufferPool, lease[c][busy[c]])
  /\ Pool!End(c)
  /\ Publish(c)
  /\ SelectorSame
  /\ UNCHANGED <<buffers, writeQueue, lease, work, processed, active,
                 selectorTasks, wakeup>>

-----------------------------------------------------------------------------
SelectorStep ==
  \/ Select \/ RunSelectionThreadTask \/ HandleAccept
  \/ \E c \in Handlers : ReadChunk(c) \/ ReadEnd(c) \/ StartWrite(c)
  \/ WriteTop \/ WriteFails \/ QueueStillEmpty \/ TestTerminate

WorkerStep(c) ==
  \/ Begin(c) \/ SendNext(c) \/ Add(c) \/ AddInterest(c) \/ Wakeup(c)
  \/ SetTerminate(c) \/ Disconnect(c) \/ End(c)

Next ==
  \/ SelectorStep
  \/ \E c \in Handlers :
       \/ WorkerStep(c)
       \/ PeerConnect(c) \/ PeerSend(c) \/ PeerRead(c) \/ PeerLeave(c)

Spec == Init /\ [][Next]_vars

(* The threads that can run do run, and a peer reads what arrives at it. *)
Fairness ==
  /\ WF_vars(SelectorStep)
  /\ \A c \in Handlers : WF_vars(WorkerStep(c)) /\ WF_vars(PeerRead(c))

FairSpec == Spec /\ Fairness

-----------------------------------------------------------------------------
(* The selector thread is neither gone nor caught in continueWrite. *)
Serving == selector.pc # "ended" /\ ~Spinning

(* The chunks of a connection reach its protocol in the order in which they *)
(* were sent, and each as it was read: no buffer of the shared pool is      *)
(* filled again before the task it was leased for has decoded it.           *)
InputInOrder ==
  \A c \in Handlers : \A i \in DOMAIN processed[c] : processed[c][i] = <<c, i>>

(* The bytes on the wire are whole frames, each written without a gap, and  *)
(* what one client causes arrives in the order of its chunks, whatever part *)
(* of a frame the socket takes and whoever else adds frames to the queue.   *)
OutputInOrder ==
  \A c \in Handlers : \A i, j \in DOMAIN output[c] :
    LET block(k) == (k - 1) \div FrameSize
    IN  /\ block(i) = block(j) => output[c][i] = output[c][j]
        /\ block(i) < block(j) /\ output[c][i][1] = output[c][j][1]
             => output[c][i][2] < output[c][j][2]

InTasks(c) == \E i \in DOMAIN selectorTasks : selectorTasks[i] = c

(* No frame is forgotten in a queue, and no selector sleeps over a task:    *)
(* while a frame waits the selector has the interest to write it, or will   *)
(* be told of it by a task or a worker, and while a task waits the selector *)
(* is awake or will be woken up. The race is that of continueWrite dropping *)
(* OP_WRITE against the send that adds a frame behind its back.             *)
NoLostWakeup ==
  Serving =>
    /\ \A c \in Handlers :
         conn[c] = "open" /\ writeQueue[c] # <<>> =>
           \/ "W" \in interest[c]
           \/ InTasks(c)
           \/ \E d \in Handlers : work[d].pc = "interest" /\ work[d].to = c
    /\ selector.pc = "select" /\ selectorTasks # <<>> =>
         wakeup \/ \E d \in Handlers : work[d].pc = "wakeup"

Arrived(c, frame) ==
  Len(SelectSeq(output[c], LAMBDA b : b = frame)) = FrameSize

(* A request is answered in full, or its connection is closed or left, or   *)
(* the selector thread is lost.                                             *)
Answered ==
  \A c \in Handlers, n \in 1..MaxChunks :
    n \in DOMAIN chunks[c] /\ chunks[c][n] = "answer"
      ~> Arrived(c, <<c, n>>) \/ conn[c] = "closed" \/ c \in gone \/ ~Serving

-----------------------------------------------------------------------------
(* What comments of the code say and the code does not do *)

(* "Terminates the connection after sending the ERROR": a connection that   *)
(* is marked for termination is closed.                                     *)
Terminated ==
  \A c \in Handlers : terminating[c] = "seen" ~> conn[c] = "closed"

(* "The main loop of the server": it is not left, as nobody closes it.      *)
KeepsServing == selector.pc # "ended"
=============================================================================
