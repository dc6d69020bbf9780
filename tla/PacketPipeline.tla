--------------------------- MODULE PacketPipeline ---------------------------
(***************************************************************************)
(* One game server in libevent mode: the path of a packet from a client's  *)
(* socket to the logic thread and of its answer back to the socket.        *)
(*                                                                         *)
(*   network thread                         logic thread                   *)
(*   OnBufferEventRead                                                     *)
(*     AddPacket      -> RecvPrepare                                       *)
(*     PacketRecvPrepare -> Recv  (m_stReadLock)                           *)
(*     m_stSignalExec.Emit                  CheckAndSetSignalActived       *)
(*                                          CopyPacketsFromNetToLogic      *)
(*                                            Recv -> Logic                *)
(*                                          HandleCSProto -> SendPrepare   *)
(*                                          PacketSendPrepare -> Send      *)
(*   OnRecvNetCmdCtrl   <- control pipe -   SendNetworkCmd                 *)
(*     PacketSendPrepareCache  Send -> Cache (m_stWriteLock)               *)
(*     PacketBufferSend, ReleaseAllPackets  ReleaseAllPackets              *)
(*                                                                         *)
(* Both threads take packet memory from the one CPacketMemoryPool.  An     *)
(* action is what a thread does between two points where another thread    *)
(* can see it: a section under a spinlock, or a step on private state.     *)
(***************************************************************************)
EXTENDS Integers, Sequences

CONSTANTS
  Conns,          \* connections a run may accept, named by m_ulClientSeq, which is
                  \* taken to be unique (SnowFlake says how far it is)
  Fds,            \* file descriptors the kernel hands out, reused once closed
  None,           \* "no client": what a failed map lookup returns
  PoolSize,       \* MAX_PACKET_MEMORY_POOL_SIZE (4096 in the code)
  FlushEvery,     \* packets after which the CS loop sends early (1000)
  PipeCap,        \* commands the control pipe holds before write() blocks
  MaxFrames,      \* bound: complete frames that each client sends in a run
  MaxBatch        \* bound: complete frames one read brings in

ASSUME NoneAssumption == None \notin Conns
ASSUME FdsAssumption == Fds # {}
ASSUME PoolAssumption == PoolSize \in Nat
ASSUME FlushAssumption == FlushEvery \in Nat \ {0}
ASSUME PipeAssumption == PipeCap \in Nat \ {0}
ASSUME BoundAssumption == MaxFrames \in [Conns -> Nat] /\ MaxBatch \in Nat

\* "hello" is answered, "other" has no handler, "bad" has a body size that
\* UnpackPacketToRecvQueue refuses.
Kind == {"hello", "other", "bad"}

Blocks == 0 .. (PoolSize - 1)
HeapIndex == -1                  \* m_iIndex of a block taken with new

Packet == [seq : Conns, fd : Fds, kind : {"hello", "other"}, n : Nat,
           mem : Blocks \cup {HeapIndex}]

\* The six NetPacketQueue members of NetworkContext.
QName == {"RecvPrepare", "Recv", "Logic", "SendPrepare", "Send", "Cache"}

VARIABLES
  q,              \* q[x]: m_vecPacketPool of queue x
  num,            \* num[x]: m_iPacketNum of queue x
  freeQueue,      \* m_PacketIndexFreeQueue of the memory pool
  lent,           \* pool blocks held by the process's other contexts
  bHasSignal,     \* m_stSignalExec.m_bHasSignal
  pipe,           \* commands in the control pipe (all of them 'S')
  netPc,          \* where the network thread is
  cur,            \* the client whose bytes it is unpacking
  batch,          \* complete frames still in that client's buffer
  total,          \* iTotalPackets of UnpackPacketToRecvQueue
  sent,           \* packets of Cache already given to PacketBufferSend
  logicPc,        \* where the logic thread is
  handled,        \* packets of Logic already handled: the loop's i
  seqPool,        \* m_stClientSeqPool: clients that have a context
  fdPool,         \* m_stClientFdPool
  fdOf,           \* m_iClientFd of a client's context
  born,           \* m_ulClientSeq values already given out
  openFds,        \* descriptors the kernel has open
  rx,             \* rx[c]: frames read from c so far
  asked,          \* asked[c]: hello requests taken from c, oldest first
  replied         \* replied[c]: requests whose answer was written to c

queueVars == <<q, num, freeQueue>>
netVars == <<netPc, cur, batch, total, sent>>
logicVars == <<logicPc, handled>>
clientVars == <<seqPool, fdPool, fdOf, born, openFds>>
historyVars == <<rx, asked, replied>>
vars == <<queueVars, lent, bHasSignal, pipe, netVars, logicVars, clientVars,
          historyVars>>

-----------------------------------------------------------------------------
(* NetPacketQueue and CPacketMemoryPool                                    *)

\* AddPacket: take a block (from the heap when the pool is empty), append.
AddPacket(x, c, fd, kind, n) ==
  LET m == IF freeQueue = <<>> THEN HeapIndex ELSE Head(freeQueue)
      p == [seq |-> c, fd |-> fd, kind |-> kind, n |-> n, mem |-> m]
  IN /\ q' = [q EXCEPT ![x] = Append(@, p)]
     /\ num' = [num EXCEPT ![x] = @ + 1]
     /\ freeQueue' = IF freeQueue = <<>> THEN <<>> ELSE Tail(freeQueue)

\* Fault: CopyFrom always swaps.
MovedBySwap(dst, src) == q[src]

\* What a vector holds after dst.CopyFrom(src): an insert at the end when
\* the counter says dst has packets, a swap otherwise (src.Init() then
\* drops what the swap put there).
Moved(dst, src) == IF num[dst] > 0 THEN q[dst] \o q[src] ELSE q[src]

CopyFrom(dst, src) ==
  /\ q' = [q EXCEPT ![dst] = Moved(dst, src), ![src] = <<>>]
  /\ num' = [num EXCEPT ![dst] = Len(Moved(dst, src)), ![src] = 0]
  /\ UNCHANGED freeQueue

\* One round of ReleaseAllPackets.  The vector is private to the thread and
\* cleared at the end, so a released packet leaves it at once; m_iPacketNum
\* is not reset.
ReleaseHead(x) ==
  /\ q' = [q EXCEPT ![x] = Tail(@)]
  /\ freeQueue' = IF Head(q[x]).mem = HeapIndex
                    THEN freeQueue
                    ELSE Append(freeQueue, Head(q[x]).mem)
  /\ UNCHANGED num

-----------------------------------------------------------------------------
(* Network thread: client contexts                                         *)

\* Fault: RemoveClient forgets m_stClientFdPool.
CloseClientKeepsFd(c) ==
  /\ seqPool' = seqPool \ {c}
  /\ openFds' = openFds \ {fdOf[c]}
  /\ UNCHANGED <<fdPool, fdOf, born>>

\* What m_stClientSeqPool, m_stClientFdPool and the open descriptors are
\* after CloseClient(c): RemoveClient, and the context's destructor closes
\* its descriptor.
CloseClient(c) ==
  /\ seqPool' = seqPool \ {c}
  /\ fdPool' = [fdPool EXCEPT ![fdOf[c]] = None]
  /\ openFds' = openFds \ {fdOf[c]}
  /\ UNCHANGED <<fdOf, born>>

\* OnListenerAcceptConnect.  A descriptor the pool still knows makes the
\* server close the old client first, and with it the descriptor itself.
OnListenerAcceptConnect(c, fd) ==
  /\ netPc = "loop"
  /\ c \notin born
  /\ fd \notin openFds
  /\ seqPool' = (seqPool \ {fdPool[fd]}) \cup {c}
  /\ fdPool' = [fdPool EXCEPT ![fd] = c]
  /\ openFds' = IF fdPool[fd] = None THEN openFds \cup {fd} ELSE openFds
  /\ fdOf' = [fdOf EXCEPT ![c] = fd]
  /\ born' = born \cup {c}
  /\ UNCHANGED <<queueVars, lent, bHasSignal, pipe, netVars, logicVars,
                 historyVars>>

\* setsockopt fails: the handler returns with the bufferevent allocated and
\* unknown to the pool, so nothing ever closes the descriptor.
AcceptSetSocketOptFails(fd) ==
  /\ netPc = "loop"
  /\ fd \notin openFds
  /\ fdPool[fd] = None
  /\ openFds' = openFds \cup {fd}
  /\ UNCHANGED <<queueVars, lent, bHasSignal, pipe, netVars, logicVars,
                 seqPool, fdPool, fdOf, born, historyVars>>

\* OnBufferEventTrigger: end of file, error or timeout on c's bufferevent.
OnBufferEventTrigger(c) ==
  /\ netPc = "loop"
  /\ c \in seqPool
  /\ fdPool[fdOf[c]] # None
  /\ CloseClient(fdPool[fdOf[c]])
  /\ UNCHANGED <<queueVars, lent, bHasSignal, pipe, netVars, logicVars,
                 historyVars>>

-----------------------------------------------------------------------------
(* Network thread: reading                                                 *)

\* PacketBufferRead leaves the frames b complete in the client's buffer.
Batches(c) == UNION { [1..k -> Kind] : k \in 0 .. (IF rx[c] + MaxBatch <= MaxFrames[c]
                                                   THEN MaxBatch
                                                   ELSE MaxFrames[c] - rx[c]) }

\* OnBufferEventRead, up to the unpacking.  b = <<>>: only part of a frame.
OnBufferEventRead(c, b) ==
  /\ netPc = "loop"
  /\ c \in seqPool
  /\ fdPool[fdOf[c]] # None
  /\ netPc' = "unpack"
  /\ cur' = fdPool[fdOf[c]]
  /\ batch' = b
  /\ total' = 0
  /\ UNCHANGED <<queueVars, lent, bHasSignal, pipe, sent, logicVars,
                 clientVars, historyVars>>

\* The unpack loop, one complete frame.
UnpackFrame ==
  /\ netPc = "unpack"
  /\ batch # <<>>
  /\ Head(batch) # "bad"
  /\ AddPacket("RecvPrepare", cur, fdOf[cur], Head(batch), rx[cur] + 1)
  /\ rx' = [rx EXCEPT ![cur] = @ + 1]
  /\ asked' = IF Head(batch) = "hello"
                THEN [asked EXCEPT ![cur] = Append(@, rx[cur] + 1)]
                ELSE asked
  /\ batch' = Tail(batch)
  /\ total' = total + 1
  /\ UNCHANGED <<lent, bHasSignal, pipe, netPc, cur, sent, logicVars,
                 clientVars, replied>>

\* A refused body size: return -2 or -3 before PacketRecvPrepare and Emit,
\* and the read handler closes the client.  What was unpacked stays in
\* RecvPrepare.
UnpackBadFrame ==
  /\ netPc = "unpack"
  /\ batch # <<>>
  /\ Head(batch) = "bad"
  /\ CloseClient(cur)
  /\ netPc' = "loop"
  /\ cur' = None
  /\ batch' = <<>>
  /\ total' = 0
  /\ UNCHANGED <<queueVars, lent, bHasSignal, pipe, sent, logicVars,
                 historyVars>>

\* Fault: a single packet does not count as something to signal.
PacketRecvPrepareMissesOne ==
  /\ netPc = "unpack"
  /\ batch = <<>>
  /\ CopyFrom("Recv", "RecvPrepare")
  /\ netPc' = IF total > 1 THEN "emit" ELSE "reread"
  /\ UNCHANGED <<lent, bHasSignal, pipe, cur, batch, total, sent, logicVars,
                 clientVars, historyVars>>

\* The buffer holds no other complete frame: PacketRecvPrepare.
PacketRecvPrepare ==
  /\ netPc = "unpack"
  /\ batch = <<>>
  /\ CopyFrom("Recv", "RecvPrepare")
  /\ netPc' = IF total > 0 THEN "emit" ELSE "reread"
  /\ UNCHANGED <<lent, bHasSignal, pipe, cur, batch, total, sent, logicVars,
                 clientVars, historyVars>>

Emit ==
  /\ netPc = "emit"
  /\ bHasSignal' = TRUE
  /\ netPc' = "reread"
  /\ UNCHANGED <<queueVars, lent, pipe, cur, batch, total, sent, logicVars,
                 clientVars, historyVars>>

\* The second PacketBufferRead of the loop brings in more frames (bytes that
\* complete no frame would change nothing here).
ReadAgain(b) ==
  /\ netPc = "reread"
  /\ b # <<>>
  /\ netPc' = "unpack"
  /\ batch' = b
  /\ total' = 0
  /\ UNCHANGED <<queueVars, lent, bHasSignal, pipe, cur, sent, logicVars,
                 clientVars, historyVars>>

ReadDone ==
  /\ netPc = "reread"
  /\ netPc' = "loop"
  /\ cur' = None
  /\ total' = 0
  /\ UNCHANGED <<queueVars, lent, bHasSignal, pipe, batch, sent, logicVars,
                 clientVars, historyVars>>

-----------------------------------------------------------------------------
(* Network thread: sending                                                 *)

\* Fault: the handler acts although the pipe had no command.
OnRecvNetCmdCtrlUnchecked ==
  /\ netPc = "loop"
  /\ pipe' = pipe - 1
  /\ netPc' = "cache"
  /\ UNCHANGED <<queueVars, lent, bHasSignal, cur, batch, total, sent,
                 logicVars, clientVars, historyVars>>

\* OnRecvNetCmdCtrl: one 32-byte command is read from the control pipe.
OnRecvNetCmdCtrl ==
  /\ netPc = "loop"
  /\ pipe > 0
  /\ pipe' = pipe - 1
  /\ netPc' = "cache"
  /\ UNCHANGED <<queueVars, lent, bHasSignal, cur, batch, total, sent,
                 logicVars, clientVars, historyVars>>

\* PacketSendPrepareCache, at the start of ExecuteCmdSendAllPacket and after
\* every round of it; the first round runs even when nothing came.
PacketSendPrepareCache ==
  /\ netPc \in {"cache", "cacheAgain"}
  /\ CopyFrom("Cache", "Send")
  /\ sent' = 0
  /\ netPc' = IF netPc = "cacheAgain" /\ num'["Cache"] = 0
                THEN "loop" ELSE "send"
  /\ UNCHANGED <<lent, bHasSignal, pipe, cur, batch, total, logicVars,
                 clientVars, historyVars>>

\* Fault: the answer is routed by descriptor.
GetClientByFd(p) == fdPool[p.fd]

\* The client a packet goes to: m_stClientPool.GetClient(seq).
GetClient(p) == IF p.seq \in seqPool THEN p.seq ELSE None

\* One packet of the send loop; a client that has gone is skipped.
PacketBufferSend ==
  /\ netPc = "send"
  /\ sent < Len(q["Cache"])
  /\ LET p == q["Cache"][sent + 1]
     IN replied' = IF GetClient(p) = None
                     THEN replied
                     ELSE [replied EXCEPT ![GetClient(p)] = Append(@, p.n)]
  /\ sent' = sent + 1
  /\ UNCHANGED <<queueVars, lent, bHasSignal, pipe, netPc, cur, batch, total,
                 logicVars, clientVars, rx, asked>>

SendLoopDone ==
  /\ netPc = "send"
  /\ sent = Len(q["Cache"])
  /\ netPc' = "release"
  /\ sent' = 0
  /\ UNCHANGED <<queueVars, lent, bHasSignal, pipe, cur, batch, total, logicVars,
                 clientVars, historyVars>>

ReleaseCachePacket ==
  /\ netPc = "release"
  /\ q["Cache"] # <<>>
  /\ ReleaseHead("Cache")
  /\ UNCHANGED <<lent, bHasSignal, pipe, netVars, logicVars, clientVars,
                 historyVars>>

ReleaseCacheDone ==
  /\ netPc = "release"
  /\ q["Cache"] = <<>>
  /\ netPc' = "cacheAgain"
  /\ UNCHANGED <<queueVars, lent, bHasSignal, pipe, cur, batch, total, sent,
                 logicVars, clientVars, historyVars>>

-----------------------------------------------------------------------------
(* Logic thread                                                            *)

CheckAndSetSignalActived ==
  /\ logicPc = "check"
  /\ bHasSignal
  /\ bHasSignal' = FALSE
  /\ logicPc' = "copy"
  /\ UNCHANGED <<queueVars, lent, pipe, netVars, handled, clientVars,
                 historyVars>>

\* CopyPacketsFromNetToLogic: Init() of the logic queue (which releases no
\* memory), then CopyFrom, under m_stReadLock.
CopyPacketsFromNetToLogic ==
  /\ logicPc = "copy"
  /\ q' = [q EXCEPT !["Logic"] = q["Recv"], !["Recv"] = <<>>]
  /\ num' = [num EXCEPT !["Logic"] = Len(q["Recv"]), !["Recv"] = 0]
  /\ handled' = 0
  /\ logicPc' = "handle"
  /\ UNCHANGED <<freeQueue, lent, bHasSignal, pipe, netVars, clientVars,
                 historyVars>>

\* HandleCSProto on packet number `handled`: hello is answered with a packet
\* of the same seq and fd, anything else is ignored.
HandleCSProto ==
  /\ logicPc = "handle"
  /\ handled < num["Logic"]
  /\ LET p == q["Logic"][handled + 1]
     IN IF p.kind = "hello"
          THEN AddPacket("SendPrepare", p.seq, p.fd, "hello", p.n)
          ELSE UNCHANGED queueVars
  /\ handled' = handled + 1
  /\ logicPc' = IF handled > 0 /\ handled % FlushEvery = 0
                  THEN "flush" ELSE "handle"
  /\ UNCHANGED <<lent, bHasSignal, pipe, netVars, clientVars, historyVars>>

HandleLoopDone ==
  /\ logicPc = "handle"
  /\ handled = num["Logic"]
  /\ logicPc' = "lastFlush"
  /\ UNCHANGED <<queueVars, lent, bHasSignal, pipe, netVars, handled,
                 clientVars, historyVars>>

\* Fault: the early flush forgets the command.
PacketSendPrepareNoCmd ==
  /\ logicPc \in {"flush", "lastFlush"}
  /\ CopyFrom("Send", "SendPrepare")
  /\ logicPc' = IF logicPc = "flush" THEN "handle" ELSE "lastCmd"
  /\ UNCHANGED <<lent, bHasSignal, pipe, netVars, handled, clientVars,
                 historyVars>>

\* SendNetworkPackets, first half: PacketSendPrepare under m_stWriteLock.
PacketSendPrepare ==
  /\ logicPc \in {"flush", "lastFlush"}
  /\ CopyFrom("Send", "SendPrepare")
  /\ logicPc' = IF logicPc = "flush" THEN "cmd" ELSE "lastCmd"
  /\ UNCHANGED <<lent, bHasSignal, pipe, netVars, handled, clientVars,
                 historyVars>>

\* SendNetworkPackets, second half: write() blocks while the pipe is full.
SendNetworkCmd ==
  /\ logicPc \in {"cmd", "lastCmd"}
  /\ pipe < PipeCap
  /\ pipe' = pipe + 1
  /\ logicPc' = IF logicPc = "cmd" THEN "handle" ELSE "release"
  /\ UNCHANGED <<queueVars, lent, bHasSignal, netVars, handled, clientVars,
                 historyVars>>

ReleaseLogicPacket ==
  /\ logicPc = "release"
  /\ q["Logic"] # <<>>
  /\ ReleaseHead("Logic")
  /\ UNCHANGED <<lent, bHasSignal, pipe, netVars, logicVars, clientVars,
                 historyVars>>

ReleaseLogicDone ==
  /\ logicPc = "release"
  /\ q["Logic"] = <<>>
  /\ logicPc' = "check"
  /\ handled' = 0
  /\ UNCHANGED <<queueVars, lent, bHasSignal, pipe, netVars, clientVars,
                 historyVars>>

-----------------------------------------------------------------------------
(* The pool serves the proxy server and the connectors too.                *)

OtherContextTakes ==
  /\ freeQueue # <<>>
  /\ lent' = lent \cup {Head(freeQueue)}
  /\ freeQueue' = Tail(freeQueue)
  /\ UNCHANGED <<q, num, bHasSignal, pipe, netVars, logicVars, clientVars,
                 historyVars>>

OtherContextReleases(b) ==
  /\ b \in lent
  /\ lent' = lent \ {b}
  /\ freeQueue' = Append(freeQueue, b)
  /\ UNCHANGED <<q, num, bHasSignal, pipe, netVars, logicVars, clientVars,
                 historyVars>>

-----------------------------------------------------------------------------
Init ==
  /\ q = [x \in QName |-> <<>>]
  /\ num = [x \in QName |-> 0]
  /\ freeQueue = [i \in 1..PoolSize |-> i - 1]
  /\ lent = {}
  /\ bHasSignal = FALSE
  /\ pipe = 0
  /\ netPc = "loop"
  /\ cur = None
  /\ batch = <<>>
  /\ total = 0
  /\ sent = 0
  /\ logicPc = "check"
  /\ handled = 0
  /\ seqPool = {}
  /\ fdPool = [fd \in Fds |-> None]
  /\ fdOf = [c \in Conns |-> CHOOSE fd \in Fds : TRUE]
  /\ born = {}
  /\ openFds = {}
  /\ rx = [c \in Conns |-> 0]
  /\ asked = [c \in Conns |-> <<>>]
  /\ replied = [c \in Conns |-> <<>>]

\* What the event loop of the network thread may pick up next.
NetEvent ==
  \/ \E c \in Conns, fd \in Fds : OnListenerAcceptConnect(c, fd)
  \/ \E fd \in Fds : AcceptSetSocketOptFails(fd)
  \/ \E c \in Conns : OnBufferEventTrigger(c)
  \/ \E c \in Conns : \E b \in Batches(c) : OnBufferEventRead(c, b)

\* The rest of a handler of the network thread, once it has started.
NetHandler ==
  \/ UnpackFrame
  \/ UnpackBadFrame
  \/ PacketRecvPrepare
  \/ Emit
  \/ netPc = "reread" /\ \E b \in Batches(cur) : ReadAgain(b)
  \/ ReadDone
  \/ PacketSendPrepareCache
  \/ PacketBufferSend
  \/ SendLoopDone
  \/ ReleaseCachePacket
  \/ ReleaseCacheDone

LogicThread ==
  \/ CheckAndSetSignalActived
  \/ CopyPacketsFromNetToLogic
  \/ HandleCSProto
  \/ HandleLoopDone
  \/ PacketSendPrepare
  \/ SendNetworkCmd
  \/ ReleaseLogicPacket
  \/ ReleaseLogicDone

OtherContexts ==
  \/ OtherContextTakes
  \/ \E b \in Blocks : OtherContextReleases(b)

Next == NetEvent \/ OnRecvNetCmdCtrl \/ NetHandler \/ LogicThread \/ OtherContexts

Spec == Init /\ [][Next]_vars

\* The threads run; what clients and other contexts do is up to them.  The
\* control pipe is one of the event loop's sources and every dispatch round
\* serves all sources that are ready, so it is not passed over for ever.
FairSpec ==
  /\ Spec
  /\ WF_vars(NetHandler)
  /\ WF_vars(LogicThread)
  /\ SF_vars(OnRecvNetCmdCtrl)

-----------------------------------------------------------------------------
(* Properties                                                              *)

\* The queues hold packets of real clients, and the pipe is never read when
\* it is empty or written when it is full.
TypeOK ==
  /\ q \in [QName -> Seq(Packet)]
  /\ num \in [QName -> Nat]
  /\ freeQueue \in Seq(Blocks)
  /\ lent \subseteq Blocks
  /\ bHasSignal \in BOOLEAN
  /\ pipe \in 0..PipeCap
  /\ netPc \in {"loop", "unpack", "emit", "reread", "cache", "cacheAgain",
                "send", "release"}
  /\ cur \in Conns \cup {None}
  /\ batch \in Seq(Kind)
  /\ total \in Nat
  /\ sent \in Nat
  /\ logicPc \in {"check", "copy", "handle", "flush", "cmd", "lastFlush",
                  "lastCmd", "release"}
  /\ handled \in Nat
  /\ seqPool \subseteq Conns
  /\ fdPool \in [Fds -> Conns \cup {None}]
  /\ fdOf \in [Conns -> Fds]
  /\ born \subseteq Conns
  /\ openFds \subseteq Fds
  /\ rx \in [Conns -> Nat]
  /\ asked \in [Conns -> Seq(Nat)]
  /\ replied \in [Conns -> Seq(Nat)]

\* No two packets share a pool block: neither a double release nor a release
\* before the last use hands a block out twice.
BlocksDistinct ==
  \A x, y \in QName : \A i \in 1..Len(q[x]), j \in 1..Len(q[y]) :
    (q[x][i].mem # HeapIndex /\ q[x][i].mem = q[y][j].mem) => (x = y /\ i = j)

\* A block on the free queue is held by nobody and is there once.
FreeBlocksUnused ==
  /\ \A i, j \in 1..Len(freeQueue) : freeQueue[i] = freeQueue[j] => i = j
  /\ \A i \in 1..Len(freeQueue) :
       /\ freeQueue[i] \notin lent
       /\ \A x \in QName : \A j \in 1..Len(q[x]) : q[x][j].mem # freeQueue[i]
  /\ \A x \in QName : \A j \in 1..Len(q[x]) : q[x][j].mem \notin lent

\* No block is lost: the queue moves (CopyFrom's swap, Init of the logic
\* queue) drop no packet whose block was not given back.
NoBlockLeaked ==
  \A b \in Blocks :
    \/ b \in lent
    \/ \E i \in 1..Len(freeQueue) : freeQueue[i] = b
    \/ \E x \in QName : \E i \in 1..Len(q[x]) : q[x][i].mem = b

\* Packet memory is owned by exactly one holder through the whole pipeline.
MemoryOwned == BlocksDistinct /\ FreeBlocksUnused /\ NoBlockLeaked

\* A published packet of a client that is still connected always has a
\* wakeup on its way: the signal is set, or the logic thread has consumed it
\* and not yet copied, or the network thread is about to emit.
RecvWakeup ==
  \A i \in 1..Len(q["Recv"]) : q["Recv"][i].seq \in seqPool =>
    bHasSignal \/ logicPc = "copy" \/ netPc = "emit"

\* An answer handed to the network thread always has a send command on its
\* way, or the send loop is going to look at the queue again.
SendWakeup ==
  q["Send"] # <<>> =>
    \/ pipe > 0
    \/ logicPc \in {"cmd", "lastCmd"}
    \/ netPc \in {"cache", "cacheAgain", "send", "release"}

\* The packets that the send loop and the logic loop have not come to.
Unsent == IF netPc = "release" THEN <<>>
          ELSE SubSeq(q["Cache"], sent + 1, Len(q["Cache"]))
Unhandled == IF logicPc \in {"release", "lastFlush", "lastCmd"} THEN <<>>
             ELSE SubSeq(q["Logic"], handled + 1, Len(q["Logic"]))

\* The packets inside the pipeline, those nearest to the socket first.
InPipeline ==
  Unsent \o (q["Send"] \o (q["SendPrepare"] \o
    (Unhandled \o (q["Recv"] \o q["RecvPrepare"]))))

\* The places of c's hello packets in a line, and their request numbers.
HelloAt(line, c) ==
  { i \in 1 .. Len(line) : line[i].seq = c /\ line[i].kind = "hello" }
HelloOf(line, c) == { line[i].n : i \in HelloAt(line, c) }

\* c's requests are in the line in the order they came, each once.
Rising(line, c) ==
  \A i, j \in HelloAt(line, c) : i < j => line[i].n < line[j].n

\* The answers r that c got are the oldest of its requests a, and the line
\* holds the others, oldest first.
OldestFirst(line, a, r, c) ==
  /\ \A k \in 1 .. Len(r) : k <= Len(a) /\ r[k] = a[k]
  /\ HelloOf(line, c) = { a[k] : k \in (Len(r) + 1) .. Len(a) }
  /\ Rising(line, c)

\* Every request of a connected client is answered or still in the pipeline,
\* once, and in order; across any reuse of its descriptor nobody else gets
\* its answer.
EchoFifo ==
  \A c \in seqPool : OldestFirst(InPipeline, asked[c], replied[c], c)

\* The two maps of ClientContextPool name the same clients, a client's
\* descriptor is open, and it belongs to no other client.
PoolsAgree ==
  /\ \A c \in seqPool : fdPool[fdOf[c]] = c /\ fdOf[c] \in openFds
  /\ \A fd \in Fds : fdPool[fd] # None =>
       fdPool[fd] \in seqPool /\ fdOf[fdPool[fd]] = fd

\* A request is known by its number among the frames of its client.
Requests == UNION { 1..MaxFrames[c] : c \in Conns }

Echo == INSTANCE EchoService WITH open <- seqPool

\* The pipeline implements the safety part of the echo service, with the
\* clients of the pool as the open connections: an answer goes to the client
\* that asked, once, and never to one that has gone.
ImplementsEchoSafety == Echo!EchoSafety

\* And the whole of it: a request of a client that stays is answered.
ImplementsEcho == Echo!EchoSpec
=============================================================================
