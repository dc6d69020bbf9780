------------------------ MODULE PacketPipelineProofs ------------------------
(***************************************************************************)
(* Proofs about PacketPipeline, for every number of connections,           *)
(* descriptors, blocks and frames: the wakeups between the threads, the    *)
(* ownership of packet memory, the order of requests and answers, and the  *)
(* implementation of EchoService.                                          *)
(***************************************************************************)
EXTENDS PacketPipeline, SequenceTheorems, TLAPS

-----------------------------------------------------------------------------
(* The inductive invariant                                                 *)

\* m_iPacketNum and the vector: a zero counter means an empty vector (so the
\* swap of CopyFrom drops nothing), the counters of the four queues that are
\* never released in place are exact, and the two that are released in place
\* are empty outside the loop that uses them.
CounterInv ==
  /\ \A x \in QName : num[x] = 0 => q[x] = <<>>
  /\ netPc \notin {"send", "release"} => q["Cache"] = <<>>
  /\ logicPc \in {"check", "copy"} => q["Logic"] = <<>>
  /\ logicPc \in {"handle", "flush", "cmd"} => num["Logic"] = Len(q["Logic"])

\* Where the network thread works on a client, the client is in the pool.
CurInv == netPc \in {"unpack", "emit", "reread"} => cur \in seqPool

\* Packets and contexts only carry m_ulClientSeq values already given out.
BornInv ==
  /\ seqPool \subseteq born
  /\ \A x \in QName : \A i \in 1..Len(q[x]) : q[x][i].seq \in born

\* A packet of a connected client waits in RecvPrepare only while the
\* network thread is unpacking that client, after it counted the packet.
PrepareInv ==
  \A i \in 1..Len(q["RecvPrepare"]) :
    q["RecvPrepare"][i].seq \in seqPool =>
      netPc = "unpack" /\ total > 0 /\ q["RecvPrepare"][i].seq = cur

WakeInv == CounterInv /\ CurInv /\ BornInv /\ PrepareInv /\ RecvWakeup
           /\ SendWakeup /\ PoolsAgree

-----------------------------------------------------------------------------
(* Type correctness                                                        *)

\* AddPacket keeps the queues, counters and free list well typed.
LEMMA AddPacketType ==
  ASSUME TypeOK, NEW x \in QName, NEW c \in Conns, NEW fd \in Fds,
         NEW kind \in {"hello", "other"}, NEW n \in Nat,
         AddPacket(x, c, fd, kind, n)
  PROVE  /\ q' \in [QName -> Seq(Packet)]
         /\ num' \in [QName -> Nat]
         /\ freeQueue' \in Seq(Blocks)
  <1> DEFINE m == IF freeQueue = <<>> THEN HeapIndex ELSE Head(freeQueue)
             p == [seq |-> c, fd |-> fd, kind |-> kind, n |-> n, mem |-> m]
  <1>1. m \in Blocks \cup {HeapIndex}
    BY DEF TypeOK
  <1>2. p \in Packet
    BY <1>1 DEF Packet
  <1>3. Append(q[x], p) \in Seq(Packet)
    BY <1>2 DEF TypeOK
  <1>4. q' = [q EXCEPT ![x] = Append(@, p)]
    BY DEF AddPacket
  <1>5. q' \in [QName -> Seq(Packet)]
    BY <1>3, <1>4 DEF TypeOK
  <1>6. num' \in [QName -> Nat] /\ freeQueue' \in Seq(Blocks)
    BY DEF AddPacket, TypeOK
  <1> QED BY <1>5, <1>6

\* CopyFrom between two different queues keeps the types.
LEMMA CopyFromType ==
  ASSUME TypeOK, NEW x \in QName, NEW y \in QName, CopyFrom(x, y)
  PROVE  /\ q' \in [QName -> Seq(Packet)]
         /\ num' \in [QName -> Nat]
         /\ freeQueue' \in Seq(Blocks)
  <1>1. Moved(x, y) \in Seq(Packet) /\ Len(Moved(x, y)) \in Nat
    BY DEF Moved, TypeOK
  <1>2. <<>> \in Seq(Packet)
    OBVIOUS
  <1>3. q' = [q EXCEPT ![x] = Moved(x, y), ![y] = <<>>]
    BY DEF CopyFrom
  <1>4. q' \in [QName -> Seq(Packet)]
    BY <1>1, <1>2, <1>3 DEF TypeOK
  <1>5. num' = [num EXCEPT ![x] = Len(Moved(x, y)), ![y] = 0]
    BY DEF CopyFrom
  <1>6. num' \in [QName -> Nat]
    BY <1>1, <1>5 DEF TypeOK
  <1> QED BY <1>4, <1>6 DEF CopyFrom, TypeOK

\* Releasing the head of a non-empty queue keeps the types.
LEMMA ReleaseHeadType ==
  ASSUME TypeOK, NEW x \in QName, q[x] # <<>>, ReleaseHead(x)
  PROVE  /\ q' \in [QName -> Seq(Packet)]
         /\ num' \in [QName -> Nat]
         /\ freeQueue' \in Seq(Blocks)
  <1>1. q[x] \in Seq(Packet) /\ Tail(q[x]) \in Seq(Packet) /\ Head(q[x]) \in Packet
    BY DEF TypeOK
  <1>2. Head(q[x]).mem \in Blocks \cup {HeapIndex}
    BY <1>1 DEF Packet
  <1> QED BY <1>1, <1>2 DEF ReleaseHead, TypeOK

\* The initial state is well typed.
LEMMA InitType == Init => TypeOK
  <1> SUFFICES ASSUME Init PROVE TypeOK
    OBVIOUS
  <1>1. (CHOOSE fd \in Fds : TRUE) \in Fds
    BY FdsAssumption
  <1>2. freeQueue \in Seq(Blocks)
    <2>1. freeQueue \in [1..PoolSize -> Blocks]
      BY PoolAssumption DEF Init, Blocks
    <2> QED BY <2>1, PoolAssumption
  <1>3. pipe \in 0..PipeCap
    BY PipeAssumption DEF Init
  <1>4. q \in [QName -> Seq(Packet)] /\ num \in [QName -> Nat]
    BY DEF Init
  <1>5. /\ rx \in [Conns -> Nat]
        /\ asked \in [Conns -> Seq(Nat)]
        /\ replied \in [Conns -> Seq(Nat)]
    BY DEF Init
  <1>6. fdPool \in [Fds -> Conns \cup {None}] /\ fdOf \in [Conns -> Fds]
    BY <1>1 DEF Init
  <1>7. batch \in Seq(Kind) /\ total \in Nat /\ sent \in Nat /\ handled \in Nat
    BY DEF Init
  <1>8. /\ lent \subseteq Blocks /\ bHasSignal \in BOOLEAN
        /\ seqPool \subseteq Conns /\ born \subseteq Conns /\ openFds \subseteq Fds
        /\ cur \in Conns \cup {None}
    BY DEF Init
  <1>9. netPc = "loop" /\ logicPc = "check"
    BY DEF Init
  <1> QED BY <1>2, <1>3, <1>4, <1>5, <1>6, <1>7, <1>8, <1>9 DEF TypeOK

\* Frames read are a sequence of kinds.
LEMMA BatchesType ==
  ASSUME TypeOK, NEW c \in Conns, NEW b \in Batches(c)
  PROVE  b \in Seq(Kind)
  <1>1. rx[c] \in Nat /\ MaxFrames[c] \in Nat
    BY BoundAssumption DEF TypeOK
  <1>2. PICK k \in 0 .. (IF rx[c] + MaxBatch <= MaxFrames[c]
                           THEN MaxBatch ELSE MaxFrames[c] - rx[c]) : b \in [1..k -> Kind]
    BY DEF Batches
  <1>3. k \in Nat
    BY <1>1, <1>2, BoundAssumption
  <1> QED BY <1>2, <1>3

\* Steps of the event loop keep the types.
LEMMA NetEventType == TypeOK /\ NetEvent => TypeOK'
  <1> SUFFICES ASSUME TypeOK, NetEvent PROVE TypeOK'
    OBVIOUS
  <1> USE DEF queueVars, netVars, logicVars, clientVars, historyVars
  <1>1. ASSUME NEW c \in Conns, NEW fd \in Fds, OnListenerAcceptConnect(c, fd)
        PROVE  TypeOK'
    BY <1>1 DEF OnListenerAcceptConnect, TypeOK
  <1>2. ASSUME NEW fd \in Fds, AcceptSetSocketOptFails(fd)
        PROVE  TypeOK'
    BY <1>2 DEF AcceptSetSocketOptFails, TypeOK
  <1>3. ASSUME NEW c \in Conns, OnBufferEventTrigger(c)
        PROVE  TypeOK'
    BY <1>3 DEF OnBufferEventTrigger, CloseClient, TypeOK
  <1>4. ASSUME NEW c \in Conns, NEW b \in Batches(c), OnBufferEventRead(c, b)
        PROVE  TypeOK'
    <2>1. b \in Seq(Kind)
      BY BatchesType
    <2>2. fdPool[fdOf[c]] \in Conns \cup {None}
      BY DEF TypeOK
    <2> QED BY <1>4, <2>1, <2>2 DEF OnBufferEventRead, TypeOK
  <1> QED BY <1>1, <1>2, <1>3, <1>4 DEF NetEvent

\* A client is in the pool while the network thread works on it.
LEMMA CurType ==
  ASSUME TypeOK, CurInv, netPc \in {"unpack", "emit", "reread"}
  PROVE  cur \in Conns /\ fdOf[cur] \in Fds /\ rx[cur] \in Nat
  BY DEF TypeOK, CurInv

\* Steps inside a handler of the network thread keep the types.
LEMMA NetHandlerType == TypeOK /\ CurInv /\ NetHandler => TypeOK'
  <1> SUFFICES ASSUME TypeOK, CurInv, NetHandler PROVE TypeOK'
    OBVIOUS
  <1> USE DEF queueVars, netVars, logicVars, clientVars, historyVars
  <1>1. CASE UnpackFrame
    <2>1. cur \in Conns /\ fdOf[cur] \in Fds /\ rx[cur] \in Nat
      BY <1>1, CurType DEF UnpackFrame
    <2>2. Head(batch) \in {"hello", "other"} /\ Tail(batch) \in Seq(Kind)
      BY <1>1 DEF UnpackFrame, TypeOK, Kind
    <2>3. /\ q' \in [QName -> Seq(Packet)]
          /\ num' \in [QName -> Nat]
          /\ freeQueue' \in Seq(Blocks)
      BY <1>1, <2>1, <2>2, AddPacketType DEF UnpackFrame, QName
    <2>4. rx' \in [Conns -> Nat] /\ asked' \in [Conns -> Seq(Nat)]
      BY <1>1, <2>1 DEF UnpackFrame, TypeOK
    <2>5. batch' \in Seq(Kind) /\ total' \in Nat
      BY <1>1, <2>2 DEF UnpackFrame, TypeOK
    <2>6. UNCHANGED <<lent, bHasSignal, pipe, netPc, cur, sent, logicVars, clientVars, replied>>
      BY <1>1 DEF UnpackFrame
    <2> QED BY <2>3, <2>4, <2>5, <2>6 DEF TypeOK
  <1>2. CASE UnpackBadFrame
    <2>1. cur \in Conns
      BY <1>2, CurType DEF UnpackBadFrame
    <2> QED BY <1>2, <2>1 DEF UnpackBadFrame, CloseClient, TypeOK
  <1>3. CASE PacketRecvPrepare
    <2>1. /\ q' \in [QName -> Seq(Packet)]
          /\ num' \in [QName -> Nat]
          /\ freeQueue' \in Seq(Blocks)
      BY <1>3, CopyFromType DEF PacketRecvPrepare, QName
    <2> QED BY <1>3, <2>1 DEF PacketRecvPrepare, TypeOK
  <1>4. CASE Emit
    BY <1>4 DEF Emit, TypeOK
  <1>5. CASE netPc = "reread" /\ \E b \in Batches(cur) : ReadAgain(b)
    <2>1. PICK b \in Batches(cur) : ReadAgain(b)
      BY <1>5
    <2>2. b \in Seq(Kind)
      BY <1>5, CurType, BatchesType
    <2> QED BY <2>1, <2>2 DEF ReadAgain, TypeOK
  <1>6. CASE ReadDone
    BY <1>6 DEF ReadDone, TypeOK
  <1>7. CASE PacketSendPrepareCache
    <2>1. /\ q' \in [QName -> Seq(Packet)]
          /\ num' \in [QName -> Nat]
          /\ freeQueue' \in Seq(Blocks)
      BY <1>7, CopyFromType DEF PacketSendPrepareCache, QName
    <2> QED BY <1>7, <2>1 DEF PacketSendPrepareCache, TypeOK
  <1>8. CASE PacketBufferSend
    <2> DEFINE p == q["Cache"][sent + 1]
    <2>1. p \in Packet
      <3>1. q["Cache"] \in Seq(Packet)
        BY DEF TypeOK, QName
      <3>2. sent + 1 \in 1..Len(q["Cache"])
        BY <1>8, <3>1 DEF PacketBufferSend, TypeOK
      <3> QED BY <3>1, <3>2
    <2>2. p.n \in Nat /\ p.seq \in Conns
      BY <2>1 DEF Packet
    <2>3. GetClient(p) \in Conns \cup {None}
      BY <2>2 DEF GetClient
    <2>4. replied' \in [Conns -> Seq(Nat)]
      <3>1. CASE GetClient(p) = None
        BY <1>8, <3>1 DEF PacketBufferSend, TypeOK
      <3>2. CASE GetClient(p) # None
        <4>1. GetClient(p) \in Conns
          BY <2>3, <3>2
        <4>2. replied' = [replied EXCEPT ![GetClient(p)] = Append(@, p.n)]
          BY <1>8, <3>2 DEF PacketBufferSend
        <4>3. Append(replied[GetClient(p)], p.n) \in Seq(Nat)
          BY <2>2, <4>1 DEF TypeOK
        <4> QED BY <4>1, <4>2, <4>3 DEF TypeOK
      <3> QED BY <3>1, <3>2
    <2>5. sent' \in Nat
      BY <1>8 DEF PacketBufferSend, TypeOK
    <2>6. UNCHANGED <<queueVars, lent, bHasSignal, pipe, netPc, cur, batch, total,
                      logicVars, clientVars, rx, asked>>
      BY <1>8 DEF PacketBufferSend
    <2> QED BY <2>4, <2>5, <2>6 DEF TypeOK
  <1>9. CASE SendLoopDone
    BY <1>9 DEF SendLoopDone, TypeOK
  <1>10. CASE ReleaseCachePacket
    <2>1. /\ q' \in [QName -> Seq(Packet)]
          /\ num' \in [QName -> Nat]
          /\ freeQueue' \in Seq(Blocks)
      BY <1>10, ReleaseHeadType DEF ReleaseCachePacket, QName
    <2> QED BY <1>10, <2>1 DEF ReleaseCachePacket, TypeOK
  <1>11. CASE ReleaseCacheDone
    BY <1>11 DEF ReleaseCacheDone, TypeOK
  <1> QED BY <1>1, <1>2, <1>3, <1>4, <1>5, <1>6, <1>7, <1>8, <1>9, <1>10, <1>11
          DEF NetHandler

\* Reading a command from the control pipe keeps the types.
LEMMA NetCmdType == TypeOK /\ OnRecvNetCmdCtrl => TypeOK'
  BY PipeAssumption DEF OnRecvNetCmdCtrl, TypeOK, queueVars, netVars, logicVars,
     clientVars, historyVars

\* Steps of the logic thread keep the types.
LEMMA LogicThreadType == TypeOK /\ CounterInv /\ LogicThread => TypeOK'
  <1> SUFFICES ASSUME TypeOK, CounterInv, LogicThread PROVE TypeOK'
    OBVIOUS
  <1> USE DEF queueVars, netVars, logicVars, clientVars, historyVars
  <1>1. CASE CheckAndSetSignalActived
    BY <1>1 DEF CheckAndSetSignalActived, TypeOK
  <1>2. CASE CopyPacketsFromNetToLogic
    <2>1. q["Recv"] \in Seq(Packet) /\ Len(q["Recv"]) \in Nat /\ <<>> \in Seq(Packet)
      BY DEF TypeOK, QName
    <2>2. q' \in [QName -> Seq(Packet)]
      BY <1>2, <2>1 DEF CopyPacketsFromNetToLogic, TypeOK
    <2>3. num' \in [QName -> Nat]
      BY <1>2, <2>1 DEF CopyPacketsFromNetToLogic, TypeOK
    <2> QED BY <1>2, <2>2, <2>3 DEF CopyPacketsFromNetToLogic, TypeOK
  <1>3. CASE HandleCSProto
    <2> DEFINE p == q["Logic"][handled + 1]
    <2>1. p \in Packet
      <3>1. q["Logic"] \in Seq(Packet) /\ num["Logic"] = Len(q["Logic"])
        BY <1>3 DEF HandleCSProto, CounterInv, TypeOK, QName
      <3>2. handled + 1 \in 1..Len(q["Logic"])
        BY <1>3, <3>1 DEF HandleCSProto, TypeOK
      <3> QED BY <3>1, <3>2
    <2>2. p.seq \in Conns /\ p.fd \in Fds /\ p.n \in Nat
      BY <2>1 DEF Packet
    <2>3. /\ q' \in [QName -> Seq(Packet)]
          /\ num' \in [QName -> Nat]
          /\ freeQueue' \in Seq(Blocks)
      <3>1. CASE p.kind = "hello"
        <4>1. AddPacket("SendPrepare", p.seq, p.fd, "hello", p.n)
          BY <1>3, <3>1 DEF HandleCSProto
        <4> QED BY <4>1, <2>2, AddPacketType DEF QName
      <3>2. CASE p.kind # "hello"
        BY <1>3, <3>2 DEF HandleCSProto, TypeOK
      <3> QED BY <3>1, <3>2
    <2>4. /\ handled' \in Nat
          /\ logicPc' \in {"flush", "handle"}
          /\ UNCHANGED <<lent, bHasSignal, pipe, netVars, clientVars, historyVars>>
      BY <1>3 DEF HandleCSProto, TypeOK
    <2> QED BY <2>3, <2>4 DEF TypeOK
  <1>4. CASE HandleLoopDone
    BY <1>4 DEF HandleLoopDone, TypeOK
  <1>5. CASE PacketSendPrepare
    <2>1. /\ q' \in [QName -> Seq(Packet)]
          /\ num' \in [QName -> Nat]
          /\ freeQueue' \in Seq(Blocks)
      BY <1>5, CopyFromType DEF PacketSendPrepare, QName
    <2> QED BY <1>5, <2>1 DEF PacketSendPrepare, TypeOK
  <1>6. CASE SendNetworkCmd
    BY <1>6, PipeAssumption DEF SendNetworkCmd, TypeOK
  <1>7. CASE ReleaseLogicPacket
    <2>1. /\ q' \in [QName -> Seq(Packet)]
          /\ num' \in [QName -> Nat]
          /\ freeQueue' \in Seq(Blocks)
      BY <1>7, ReleaseHeadType DEF ReleaseLogicPacket, QName
    <2> QED BY <1>7, <2>1 DEF ReleaseLogicPacket, TypeOK
  <1>8. CASE ReleaseLogicDone
    BY <1>8 DEF ReleaseLogicDone, TypeOK
  <1> QED BY <1>1, <1>2, <1>3, <1>4, <1>5, <1>6, <1>7, <1>8 DEF LogicThread

\* Steps of the other contexts keep the types.
LEMMA OtherContextsType == TypeOK /\ OtherContexts => TypeOK'
  <1> SUFFICES ASSUME TypeOK, OtherContexts PROVE TypeOK'
    OBVIOUS
  <1> USE DEF queueVars, netVars, logicVars, clientVars, historyVars
  <1>1. CASE OtherContextTakes
    <2>1. Head(freeQueue) \in Blocks /\ Tail(freeQueue) \in Seq(Blocks)
      BY <1>1 DEF OtherContextTakes, TypeOK
    <2> QED BY <1>1, <2>1 DEF OtherContextTakes, TypeOK
  <1>2. ASSUME NEW b \in Blocks, OtherContextReleases(b)
        PROVE  TypeOK'
    BY <1>2 DEF OtherContextReleases, TypeOK
  <1> QED BY <1>1, <1>2 DEF OtherContexts

-----------------------------------------------------------------------------
(* What the queue operations do to the places packets are in               *)

\* AddPacket appends one packet and leaves every other place alone.
LEMMA AddPacketPlaces ==
  ASSUME TypeOK, CounterInv, NEW x \in QName, NEW c \in Conns, NEW fd \in Fds,
         NEW kind \in {"hello", "other"}, NEW n \in Nat,
         AddPacket(x, c, fd, kind, n)
  PROVE  /\ \A y \in QName \ {x} : q'[y] = q[y] /\ num'[y] = num[y]
         /\ Len(q'[x]) = Len(q[x]) + 1
         /\ num'[x] = num[x] + 1
         /\ \A i \in 1..Len(q[x]) : q'[x][i] = q[x][i]
         /\ q'[x][Len(q[x]) + 1].seq = c
         /\ q'[x][Len(q[x]) + 1].mem =
              IF freeQueue = <<>> THEN HeapIndex ELSE Head(freeQueue)
         /\ \A z \in QName : num'[z] = 0 => q'[z] = <<>>
         /\ \A z \in QName : \A i \in 1..Len(q'[z]) :
              \/ i \in 1..Len(q[z]) /\ q'[z][i] = q[z][i]
              \/ z = x /\ i = Len(q[x]) + 1
  <1> DEFINE m == IF freeQueue = <<>> THEN HeapIndex ELSE Head(freeQueue)
             p == [seq |-> c, fd |-> fd, kind |-> kind, n |-> n, mem |-> m]
  <1>1. q[x] \in Seq(Packet) /\ num[x] \in Nat
    BY DEF TypeOK
  <1>2. q' = [q EXCEPT ![x] = Append(@, p)] /\ num' = [num EXCEPT ![x] = @ + 1]
    BY DEF AddPacket
  <1>3. q'[x] = Append(q[x], p)
    BY <1>2 DEF TypeOK
  <1>4. \A y \in QName \ {x} : q'[y] = q[y] /\ num'[y] = num[y]
    BY <1>2 DEF TypeOK
  <1>5. num'[x] = num[x] + 1
    BY <1>2 DEF TypeOK
  <1>6. p.seq = c /\ p.mem = m
    OBVIOUS
  <1> HIDE DEF p
  <1>7. /\ Len(Append(q[x], p)) = Len(q[x]) + 1
        /\ \A i \in 1..Len(q[x]) : Append(q[x], p)[i] = q[x][i]
        /\ Append(q[x], p)[Len(q[x]) + 1] = p
    BY <1>1
  <1>8. \A z \in QName : num'[z] = 0 => q'[z] = <<>>
    BY <1>1, <1>4, <1>5 DEF CounterInv
  <1>9. ASSUME NEW z \in QName, NEW i \in 1..Len(q'[z])
        PROVE  \/ i \in 1..Len(q[z]) /\ q'[z][i] = q[z][i]
               \/ z = x /\ i = Len(q[x]) + 1
    <2>1. CASE z # x
      BY <2>1, <1>4
    <2>2. CASE z = x
      BY <2>2, <1>1, <1>3, <1>7
    <2> QED BY <2>1, <2>2
  <1> QED BY <1>3, <1>4, <1>5, <1>6, <1>7, <1>8, <1>9

\* Indices of the second part of a concatenation.
LEMMA SecondPart ==
  ASSUME NEW a \in Nat, NEW b \in Nat, NEW i \in 1..(a + b), i \notin 1..a
  PROVE  i - a \in 1..b /\ a + (i - a) = i
  OBVIOUS

LEMMA BothParts ==
  ASSUME NEW a \in Nat, NEW b \in Nat
  PROVE  /\ \A i \in 1..a : i \in 1..(a + b)
         /\ \A i \in 1..b : a + i \in 1..(a + b)
  OBVIOUS

\* Where the elements of a concatenation come from.
LEMMA ConcatPlaces ==
  ASSUME NEW s \in Seq(Packet), NEW t \in Seq(Packet)
  PROVE  /\ Len(s \o t) = Len(s) + Len(t)
         /\ \A i \in 1..Len(s) : (s \o t)[i] = s[i]
         /\ \A i \in 1..Len(t) : (s \o t)[Len(s) + i] = t[i]
  <1>1. Len(s) \in Nat /\ Len(t) \in Nat
    OBVIOUS
  <1>2. Len(s \o t) = Len(s) + Len(t)
    BY ConcatProperties
  <1>3. \A i \in 1..(Len(s) + Len(t)) : (s \o t)[i] =
          IF i <= Len(s) THEN s[i] ELSE t[i - Len(s)]
    BY ConcatProperties
  <1>4. ASSUME NEW i \in 1..Len(s) PROVE (s \o t)[i] = s[i]
    BY <1>1, <1>3
  <1>5. ASSUME NEW i \in 1..Len(t) PROVE (s \o t)[Len(s) + i] = t[i]
    <2>1. Len(s) + i \in 1..(Len(s) + Len(t)) /\ ~(Len(s) + i <= Len(s))
          /\ (Len(s) + i) - Len(s) = i
      BY <1>1
    <2> QED BY <1>3, <2>1
  <1> QED BY <1>2, <1>4, <1>5

\* With honest counters CopyFrom moves src behind dst and empties src.
LEMMA CopyFromPlaces ==
  ASSUME TypeOK, CounterInv, NEW x \in QName, NEW y \in QName, x # y,
         CopyFrom(x, y)
  PROVE  /\ \A z \in QName \ {x, y} : q'[z] = q[z] /\ num'[z] = num[z]
         /\ q'[x] = q[x] \o q[y]
         /\ q'[y] = <<>> /\ num'[y] = 0
         /\ num'[x] = Len(q'[x])
         /\ Len(q'[x]) = Len(q[x]) + Len(q[y])
         /\ \A i \in 1..Len(q[x]) : q'[x][i] = q[x][i]
         /\ \A i \in 1..Len(q[y]) : q'[x][Len(q[x]) + i] = q[y][i]
         /\ \A i \in 1..Len(q'[x]) :
              \/ i \in 1..Len(q[x])
              \/ i - Len(q[x]) \in 1..Len(q[y]) /\ q'[x][i] = q[y][i - Len(q[x])]
         /\ \A z \in QName : num'[z] = 0 => q'[z] = <<>>
         /\ \A z \in QName : \A i \in 1..Len(q'[z]) :
              \E w \in QName : \E j \in 1..Len(q[w]) : q'[z][i] = q[w][j]
  <1>1. q[x] \in Seq(Packet) /\ q[y] \in Seq(Packet) /\ num[x] \in Nat
    BY DEF TypeOK
  <1>2. Moved(x, y) = q[x] \o q[y]
    <2>1. CASE num[x] > 0
      BY <2>1 DEF Moved
    <2>2. CASE num[x] = 0
      <3>1. q[x] = <<>>
        BY <2>2 DEF CounterInv
      <3>2. q[x] \o q[y] = q[y]
        BY <1>1, <3>1, ConcatEmptySeq
      <3> QED BY <2>2, <3>2 DEF Moved
    <2>3. num[x] > 0 \/ num[x] = 0
      BY <1>1
    <2> QED BY <2>1, <2>2, <2>3
  <1>3. /\ q' = [q EXCEPT ![x] = Moved(x, y), ![y] = <<>>]
        /\ num' = [num EXCEPT ![x] = Len(Moved(x, y)), ![y] = 0]
    BY DEF CopyFrom
  <1>4. q'[x] = q[x] \o q[y] /\ q'[y] = <<>>
    BY <1>2, <1>3 DEF TypeOK
  <1>5. num'[x] = Len(q'[x]) /\ num'[y] = 0
    BY <1>2, <1>3, <1>4 DEF TypeOK
  <1>6. \A z \in QName \ {x, y} : q'[z] = q[z] /\ num'[z] = num[z]
    BY <1>3 DEF TypeOK
  <1>7. /\ Len(q[x] \o q[y]) = Len(q[x]) + Len(q[y])
        /\ \A i \in 1..Len(q[x]) : (q[x] \o q[y])[i] = q[x][i]
        /\ \A i \in 1..Len(q[y]) : (q[x] \o q[y])[Len(q[x]) + i] = q[y][i]
    BY <1>1, ConcatPlaces
  <1>8. ASSUME NEW i \in 1..Len(q'[x]), i \notin 1..Len(q[x])
        PROVE  i - Len(q[x]) \in 1..Len(q[y]) /\ q'[x][i] = q[y][i - Len(q[x])]
    <2>1. Len(q[x]) \in Nat /\ Len(q[y]) \in Nat
      BY <1>1
    <2>a. Len(q'[x]) = Len(q[x]) + Len(q[y])
      BY <1>4, <1>7
    <2>2. i - Len(q[x]) \in 1..Len(q[y]) /\ Len(q[x]) + (i - Len(q[x])) = i
      BY <2>1, <2>a, <1>8, SecondPart, ZenonT(60)
    <2> QED BY <2>2, <1>4, <1>7
  <1>9. \A z \in QName : num'[z] = 0 => q'[z] = <<>>
    <2>1. q'[x] \in Seq(Packet)
      BY <1>1, <1>4, ConcatProperties
    <2>2. num'[x] = 0 => q'[x] = <<>>
      BY <2>1, <1>5, EmptySeq
    <2> QED BY <2>2, <1>4, <1>6 DEF CounterInv
  <1>10. ASSUME NEW z \in QName, NEW i \in 1..Len(q'[z])
         PROVE  \E w \in QName : \E j \in 1..Len(q[w]) : q'[z][i] = q[w][j]
    <2>1. CASE z \in QName \ {x, y}
      BY <2>1, <1>6
    <2>2. CASE z = y
      <3>1. Len(q'[y]) = 0
        BY <1>4
      <3> QED BY <2>2, <3>1
    <2>3. CASE z = x /\ i \in 1..Len(q[x])
      BY <2>3, <1>4, <1>7
    <2>4. CASE z = x /\ i \notin 1..Len(q[x])
      BY <2>4, <1>8
    <2> QED BY <2>1, <2>2, <2>3, <2>4
  <1> QED BY <1>4, <1>5, <1>6, <1>7, <1>8, <1>9, <1>10, ZenonT(60)

\* Releasing the head shifts the rest of that queue down by one.
LEMMA ReleaseHeadPlaces ==
  ASSUME TypeOK, CounterInv, NEW x \in QName, q[x] # <<>>, ReleaseHead(x)
  PROVE  /\ \A z \in QName \ {x} : q'[z] = q[z]
         /\ num' = num
         /\ Len(q[x]) > 0
         /\ Len(q'[x]) = Len(q[x]) - 1
         /\ \A i \in 1..Len(q'[x]) : q'[x][i] = q[x][i + 1] /\ i + 1 \in 1..Len(q[x])
         /\ \A z \in QName : num'[z] = 0 => q'[z] = <<>>
         /\ \A z \in QName : \A i \in 1..Len(q'[z]) :
              \E j \in 1..Len(q[z]) : q'[z][i] = q[z][j]
  <1>1. q[x] \in Seq(Packet)
    BY DEF TypeOK
  <1>2. q' = [q EXCEPT ![x] = Tail(@)] /\ num' = num
    BY DEF ReleaseHead
  <1>3. q'[x] = Tail(q[x]) /\ \A z \in QName \ {x} : q'[z] = q[z]
    BY <1>2 DEF TypeOK
  <1>4. /\ Len(q[x]) > 0 /\ Len(Tail(q[x])) = Len(q[x]) - 1
        /\ \A i \in 1..Len(Tail(q[x])) :
             Tail(q[x])[i] = q[x][i + 1] /\ i + 1 \in 1..Len(q[x])
    BY <1>1
  <1>5. num[x] # 0
    BY DEF CounterInv
  <1>6. \A z \in QName : num'[z] = 0 => q'[z] = <<>>
    BY <1>2, <1>3, <1>5 DEF CounterInv
  <1>7. ASSUME NEW z \in QName, NEW i \in 1..Len(q'[z])
        PROVE  \E j \in 1..Len(q[z]) : q'[z][i] = q[z][j]
    <2>1. CASE z # x
      BY <2>1, <1>3
    <2>2. CASE z = x
      BY <2>2, <1>3, <1>4
    <2> QED BY <2>1, <2>2
  <1> QED BY <1>2, <1>3, <1>4, <1>6, <1>7

-----------------------------------------------------------------------------
(* The wakeup invariant                                                    *)

\* No client, no packet: the wakeup invariant holds initially.
LEMMA InitWake == Init => WakeInv
  <1> SUFFICES ASSUME Init PROVE WakeInv
    OBVIOUS
  <1>1. \A x \in QName : q[x] = <<>> /\ num[x] = 0 /\ Len(q[x]) = 0
    BY DEF Init
  <1>2. q["Recv"] = <<>> /\ q["RecvPrepare"] = <<>> /\ q["Send"] = <<>>
        /\ q["Cache"] = <<>> /\ q["Logic"] = <<>>
    BY <1>1 DEF QName
  <1>3. CounterInv /\ CurInv /\ SendWakeup
    BY <1>1, <1>2 DEF Init, CounterInv, CurInv, SendWakeup
  <1>4. BornInv /\ PrepareInv /\ RecvWakeup
    BY <1>1, <1>2 DEF Init, BornInv, PrepareInv, RecvWakeup
  <1>5. PoolsAgree
    BY DEF Init, PoolsAgree
  <1> QED BY <1>3, <1>4, <1>5 DEF WakeInv

\* Steps of the event loop keep the wakeup invariant.
LEMMA NetEventWake == TypeOK /\ WakeInv /\ NetEvent => WakeInv'
  <1> SUFFICES ASSUME TypeOK, WakeInv, NetEvent PROVE WakeInv'
    OBVIOUS
  <1> USE DEF queueVars, netVars, logicVars, clientVars, historyVars
  <1>1. ASSUME NEW c \in Conns, NEW fd \in Fds, OnListenerAcceptConnect(c, fd)
        PROVE  WakeInv'
    <2>1. fdPool[fd] = None
      BY <1>1 DEF OnListenerAcceptConnect, WakeInv, PoolsAgree
    <2>2. seqPool' = seqPool \cup {c} /\ c \notin born /\ born' = born \cup {c}
      BY <1>1, <2>1, NoneAssumption DEF OnListenerAcceptConnect, TypeOK
    <2>3. CounterInv' /\ CurInv' /\ SendWakeup'
      BY <1>1 DEF OnListenerAcceptConnect, WakeInv, CounterInv, CurInv, SendWakeup
    <2>4. BornInv'
      BY <1>1, <2>2 DEF OnListenerAcceptConnect, WakeInv, BornInv
    <2>5. PrepareInv' /\ RecvWakeup'
      BY <1>1, <2>2 DEF OnListenerAcceptConnect, WakeInv, BornInv, PrepareInv, RecvWakeup, QName
    <2>6. PoolsAgree'
      BY <1>1, <2>1, <2>2, NoneAssumption DEF OnListenerAcceptConnect, WakeInv, BornInv, PoolsAgree, TypeOK
    <2> QED BY <2>3, <2>4, <2>5, <2>6 DEF WakeInv
  <1>2. ASSUME NEW fd \in Fds, AcceptSetSocketOptFails(fd)
        PROVE  WakeInv'
    BY <1>2 DEF AcceptSetSocketOptFails, WakeInv, CounterInv, CurInv, BornInv,
                PrepareInv, RecvWakeup, SendWakeup, PoolsAgree
  <1>3. ASSUME NEW c \in Conns, OnBufferEventTrigger(c)
        PROVE  WakeInv'
    <2>1. fdPool[fdOf[c]] = c
      BY <1>3 DEF OnBufferEventTrigger, WakeInv, PoolsAgree
    <2>2. CounterInv' /\ CurInv' /\ SendWakeup'
      BY <1>3 DEF OnBufferEventTrigger, WakeInv, CounterInv, CurInv, SendWakeup
    <2>3. BornInv' /\ PrepareInv' /\ RecvWakeup'
      BY <1>3 DEF OnBufferEventTrigger, CloseClient, WakeInv, BornInv, PrepareInv, RecvWakeup
    <2>4. PoolsAgree'
      BY <1>3, <2>1 DEF OnBufferEventTrigger, CloseClient, WakeInv, PoolsAgree, TypeOK
    <2> QED BY <2>2, <2>3, <2>4 DEF WakeInv
  <1>4. ASSUME NEW c \in Conns, NEW b \in Batches(c), OnBufferEventRead(c, b)
        PROVE  WakeInv'
    <2>1. fdPool[fdOf[c]] = c /\ c \in seqPool
      BY <1>4 DEF OnBufferEventRead, WakeInv, PoolsAgree
    <2>2. CounterInv' /\ CurInv' /\ SendWakeup' /\ BornInv' /\ PoolsAgree'
      BY <1>4, <2>1 DEF OnBufferEventRead, WakeInv, CounterInv, CurInv, SendWakeup, BornInv, PoolsAgree
    <2>3. PrepareInv' /\ RecvWakeup'
      BY <1>4 DEF OnBufferEventRead, WakeInv, PrepareInv, RecvWakeup
    <2> QED BY <2>2, <2>3 DEF WakeInv
  <1> QED BY <1>1, <1>2, <1>3, <1>4 DEF NetEvent

\* Steps inside a handler of the network thread keep the wakeup invariant.
LEMMA NetHandlerWake == TypeOK /\ WakeInv /\ NetHandler => WakeInv'
  <1> SUFFICES ASSUME TypeOK, WakeInv, NetHandler PROVE WakeInv'
    OBVIOUS
  <1> USE DEF queueVars, netVars, logicVars, clientVars, historyVars
  <1>a. CounterInv /\ CurInv /\ BornInv /\ PrepareInv /\ RecvWakeup /\ SendWakeup
        /\ PoolsAgree
    BY DEF WakeInv
  <1>b. \A x \in QName : q[x] \in Seq(Packet) /\ Len(q[x]) \in Nat /\ num[x] \in Nat
    BY DEF TypeOK
  <1>1. CASE UnpackFrame
    <2>1. cur \in Conns /\ fdOf[cur] \in Fds /\ rx[cur] \in Nat /\ cur \in seqPool
      BY <1>1, <1>a, CurType DEF UnpackFrame, CurInv
    <2>2. Head(batch) \in {"hello", "other"}
      BY <1>1 DEF UnpackFrame, TypeOK, Kind
    <2>3. /\ \A y \in QName \ {"RecvPrepare"} : q'[y] = q[y] /\ num'[y] = num[y]
          /\ Len(q'["RecvPrepare"]) = Len(q["RecvPrepare"]) + 1
          /\ num'["RecvPrepare"] = num["RecvPrepare"] + 1
          /\ \A i \in 1..Len(q["RecvPrepare"]) : q'["RecvPrepare"][i] = q["RecvPrepare"][i]
          /\ q'["RecvPrepare"][Len(q["RecvPrepare"]) + 1].seq = cur
          /\ \A z \in QName : num'[z] = 0 => q'[z] = <<>>
          /\ \A z \in QName : \A i \in 1..Len(q'[z]) :
               \/ i \in 1..Len(q[z]) /\ q'[z][i] = q[z][i]
               \/ z = "RecvPrepare" /\ i = Len(q["RecvPrepare"]) + 1
      <3>1. AddPacket("RecvPrepare", cur, fdOf[cur], Head(batch), rx[cur] + 1)
        BY <1>1 DEF UnpackFrame
      <3>2. "RecvPrepare" \in QName /\ rx[cur] + 1 \in Nat
        BY <2>1 DEF QName
      <3> QED BY <3>1, <3>2, <2>1, <2>2, <1>a, AddPacketPlaces
    <2>4. CounterInv'
      <3>1. q'["Cache"] = q["Cache"] /\ q'["Logic"] = q["Logic"] /\ num'["Logic"] = num["Logic"]
        BY <2>3 DEF QName
      <3> QED BY <1>1, <2>3, <3>1, <1>a DEF UnpackFrame, CounterInv
    <2>5. CurInv' /\ RecvWakeup' /\ SendWakeup' /\ PoolsAgree'
      BY <1>1, <2>3, <1>a DEF UnpackFrame, CurInv, RecvWakeup, SendWakeup, PoolsAgree, QName
    <2>6. BornInv'
      BY <1>1, <2>1, <2>3, <1>a DEF UnpackFrame, BornInv
    <2>7. PrepareInv'
      <3>1. \A i \in 1..Len(q'["RecvPrepare"]) :
               \/ i \in 1..Len(q["RecvPrepare"]) /\ q'["RecvPrepare"][i] = q["RecvPrepare"][i]
               \/ q'["RecvPrepare"][i].seq = cur
        BY <2>3 DEF QName
      <3>2. total' > 0 /\ netPc' = "unpack" /\ cur' = cur /\ seqPool' = seqPool
        BY <1>1 DEF UnpackFrame, TypeOK
      <3> QED BY <3>1, <3>2, <1>a DEF PrepareInv
    <2> QED BY <2>4, <2>5, <2>6, <2>7 DEF WakeInv
  <1>2. CASE UnpackBadFrame
    <2>1. cur \in seqPool /\ fdPool[fdOf[cur]] = cur
      BY <1>2, <1>a DEF UnpackBadFrame, CurInv, PoolsAgree
    <2>2. CounterInv' /\ CurInv' /\ SendWakeup'
      BY <1>2, <1>a DEF UnpackBadFrame, CounterInv, CurInv, SendWakeup
    <2>3. BornInv' /\ PrepareInv' /\ RecvWakeup'
      BY <1>2, <1>a DEF UnpackBadFrame, CloseClient, BornInv, PrepareInv, RecvWakeup
    <2>4. PoolsAgree'
      BY <1>2, <2>1, <1>a DEF UnpackBadFrame, CloseClient, PoolsAgree, TypeOK
    <2> QED BY <2>2, <2>3, <2>4 DEF WakeInv
  <1>3. CASE PacketRecvPrepare
    <2>1. /\ \A z \in QName \ {"Recv", "RecvPrepare"} : q'[z] = q[z] /\ num'[z] = num[z]
          /\ q'["RecvPrepare"] = <<>>
          /\ \A i \in 1..Len(q["Recv"]) : q'["Recv"][i] = q["Recv"][i]
          /\ \A i \in 1..Len(q'["Recv"]) :
               \/ i \in 1..Len(q["Recv"])
               \/ i - Len(q["Recv"]) \in 1..Len(q["RecvPrepare"])
                  /\ q'["Recv"][i] = q["RecvPrepare"][i - Len(q["Recv"])]
          /\ \A z \in QName : num'[z] = 0 => q'[z] = <<>>
          /\ \A z \in QName : \A i \in 1..Len(q'[z]) :
               \E w \in QName : \E j \in 1..Len(q[w]) : q'[z][i] = q[w][j]
      BY <1>3, <1>a, CopyFromPlaces DEF PacketRecvPrepare, QName
    <2>2. \A i \in 1..Len(q'["Recv"]) :
            \/ i \in 1..Len(q["Recv"]) /\ q'["Recv"][i] = q["Recv"][i]
            \/ \E j \in 1..Len(q["RecvPrepare"]) : q'["Recv"][i] = q["RecvPrepare"][j]
      BY <2>1
    <2>3. /\ q'["Cache"] = q["Cache"] /\ q'["Logic"] = q["Logic"] /\ num'["Logic"] = num["Logic"]
          /\ q'["Send"] = q["Send"]
      BY <2>1 DEF QName
    <2>4. CounterInv'
      BY <1>3, <2>1, <2>3, <1>a DEF PacketRecvPrepare, CounterInv
    <2>5. CurInv' /\ SendWakeup' /\ PoolsAgree'
      BY <1>3, <2>3, <1>a DEF PacketRecvPrepare, CurInv, SendWakeup, PoolsAgree
    <2>6. BornInv'
      <3>1. \A z \in QName : \A i \in 1..Len(q'[z]) :
               \E w \in QName : \E j \in 1..Len(q[w]) : q'[z][i] = q[w][j]
        BY <2>1
      <3>2. UNCHANGED <<seqPool, born>>
        BY <1>3 DEF PacketRecvPrepare
      <3> QED BY <3>1, <3>2, <1>a DEF BornInv
    <2>7. PrepareInv'
      BY <2>1 DEF PrepareInv
    <2>8. RecvWakeup'
      <3> SUFFICES ASSUME NEW i \in 1..Len(q'["Recv"]), q'["Recv"][i].seq \in seqPool'
                   PROVE  bHasSignal' \/ logicPc' = "copy" \/ netPc' = "emit"
        BY DEF RecvWakeup
      <3>1. CASE i \in 1..Len(q["Recv"]) /\ q'["Recv"][i] = q["Recv"][i]
        BY <1>3, <3>1, <1>a DEF PacketRecvPrepare, RecvWakeup
      <3>2. CASE \E j \in 1..Len(q["RecvPrepare"]) : q'["Recv"][i] = q["RecvPrepare"][j]
        BY <1>3, <3>2, <1>a DEF PacketRecvPrepare, PrepareInv
      <3> QED BY <2>2, <3>1, <3>2
    <2> QED BY <2>4, <2>5, <2>6, <2>7, <2>8 DEF WakeInv
  <1>4. CASE Emit
    BY <1>4, <1>a DEF Emit, WakeInv, CounterInv, CurInv, BornInv, PrepareInv,
       RecvWakeup, SendWakeup, PoolsAgree
  <1>5. CASE netPc = "reread" /\ \E b \in Batches(cur) : ReadAgain(b)
    <2>1. PICK b \in Batches(cur) : ReadAgain(b)
      BY <1>5
    <2> QED BY <1>5, <2>1, <1>a DEF ReadAgain, WakeInv, CounterInv, CurInv, BornInv,
               PrepareInv, RecvWakeup, SendWakeup, PoolsAgree
  <1>6. CASE ReadDone
    BY <1>6, <1>a DEF ReadDone, WakeInv, CounterInv, CurInv, BornInv, PrepareInv,
       RecvWakeup, SendWakeup, PoolsAgree
  <1>7. CASE PacketSendPrepareCache
    <2>1. /\ \A z \in QName \ {"Cache", "Send"} : q'[z] = q[z] /\ num'[z] = num[z]
          /\ q'["Send"] = <<>>
          /\ \A z \in QName : num'[z] = 0 => q'[z] = <<>>
          /\ \A z \in QName : \A i \in 1..Len(q'[z]) :
               \E w \in QName : \E j \in 1..Len(q[w]) : q'[z][i] = q[w][j]
      BY <1>7, <1>a, CopyFromPlaces DEF PacketSendPrepareCache, QName
    <2>2. /\ q'["Logic"] = q["Logic"] /\ num'["Logic"] = num["Logic"]
          /\ q'["Recv"] = q["Recv"] /\ q'["RecvPrepare"] = q["RecvPrepare"]
          /\ (num'["Cache"] = 0 => q'["Cache"] = <<>>)
      BY <2>1 DEF QName
    <2>3. CounterInv'
      BY <1>7, <2>1, <2>2, <1>a DEF PacketSendPrepareCache, CounterInv
    <2>4. CurInv' /\ SendWakeup' /\ PoolsAgree' /\ PrepareInv' /\ RecvWakeup'
      BY <1>7, <2>1, <2>2, <1>a DEF PacketSendPrepareCache, CurInv, SendWakeup, PoolsAgree,
         PrepareInv, RecvWakeup
    <2>5. BornInv'
      BY <1>7, <2>1, <1>a DEF PacketSendPrepareCache, BornInv
    <2> QED BY <2>3, <2>4, <2>5 DEF WakeInv
  <1>8. CASE PacketBufferSend
    BY <1>8, <1>a DEF PacketBufferSend, WakeInv, CounterInv, CurInv, BornInv, PrepareInv,
       RecvWakeup, SendWakeup, PoolsAgree
  <1>9. CASE SendLoopDone
    BY <1>9, <1>a DEF SendLoopDone, WakeInv, CounterInv, CurInv, BornInv, PrepareInv,
       RecvWakeup, SendWakeup, PoolsAgree
  <1>10. CASE ReleaseCachePacket
    <2>1. /\ \A z \in QName \ {"Cache"} : q'[z] = q[z]
          /\ num' = num
          /\ \A z \in QName : num'[z] = 0 => q'[z] = <<>>
          /\ \A z \in QName : \A i \in 1..Len(q'[z]) :
               \E j \in 1..Len(q[z]) : q'[z][i] = q[z][j]
      BY <1>10, <1>a, ReleaseHeadPlaces DEF ReleaseCachePacket, QName
    <2>2. /\ q'["Logic"] = q["Logic"] /\ q'["Send"] = q["Send"]
          /\ q'["Recv"] = q["Recv"] /\ q'["RecvPrepare"] = q["RecvPrepare"]
      BY <2>1 DEF QName
    <2>3. CounterInv'
      BY <1>10, <2>1, <2>2, <1>a DEF ReleaseCachePacket, CounterInv
    <2>4. CurInv' /\ SendWakeup' /\ PoolsAgree' /\ PrepareInv' /\ RecvWakeup'
      BY <1>10, <2>2, <1>a DEF ReleaseCachePacket, CurInv, SendWakeup, PoolsAgree,
         PrepareInv, RecvWakeup
    <2>5. BornInv'
      BY <1>10, <2>1, <1>a DEF ReleaseCachePacket, BornInv
    <2> QED BY <2>3, <2>4, <2>5 DEF WakeInv
  <1>11. CASE ReleaseCacheDone
    BY <1>11, <1>a DEF ReleaseCacheDone, WakeInv, CounterInv, CurInv, BornInv, PrepareInv,
       RecvWakeup, SendWakeup, PoolsAgree
  <1> QED BY <1>1, <1>2, <1>3, <1>4, <1>5, <1>6, <1>7, <1>8, <1>9, <1>10, <1>11
          DEF NetHandler

\* Reading a command starts a send round, which looks at the send queue.
LEMMA NetCmdWake == TypeOK /\ WakeInv /\ OnRecvNetCmdCtrl => WakeInv'
  BY DEF OnRecvNetCmdCtrl, WakeInv, CounterInv, CurInv, BornInv, PrepareInv,
     RecvWakeup, SendWakeup, PoolsAgree, queueVars, netVars, logicVars, clientVars,
     historyVars

\* Steps of the logic thread keep the wakeup invariant.
LEMMA LogicThreadWake == TypeOK /\ WakeInv /\ LogicThread => WakeInv'
  <1> SUFFICES ASSUME TypeOK, WakeInv, LogicThread PROVE WakeInv'
    OBVIOUS
  <1> USE DEF queueVars, netVars, logicVars, clientVars, historyVars
  <1>a. CounterInv /\ CurInv /\ BornInv /\ PrepareInv /\ RecvWakeup /\ SendWakeup
        /\ PoolsAgree
    BY DEF WakeInv
  <1>1. CASE CheckAndSetSignalActived
    BY <1>1, <1>a DEF CheckAndSetSignalActived, WakeInv, CounterInv, CurInv, BornInv,
       PrepareInv, RecvWakeup, SendWakeup, PoolsAgree
  <1>2. CASE CopyPacketsFromNetToLogic
    <2>1. /\ q' = [q EXCEPT !["Logic"] = q["Recv"], !["Recv"] = <<>>]
          /\ num' = [num EXCEPT !["Logic"] = Len(q["Recv"]), !["Recv"] = 0]
      BY <1>2 DEF CopyPacketsFromNetToLogic
    <2>2. q \in [QName -> Seq(Packet)] /\ num \in [QName -> Nat]
      BY DEF TypeOK
    <2>3. /\ q'["Logic"] = q["Recv"] /\ q'["Recv"] = <<>>
          /\ num'["Logic"] = Len(q["Recv"]) /\ num'["Recv"] = 0
          /\ q'["Send"] = q["Send"] /\ q'["Cache"] = q["Cache"]
          /\ q'["RecvPrepare"] = q["RecvPrepare"]
      BY <2>1, <2>2 DEF QName
    <2>4. \A z \in QName \ {"Logic", "Recv"} : q'[z] = q[z] /\ num'[z] = num[z]
      BY <2>1, <2>2
    <2>5. q["Recv"] \in Seq(Packet)
      BY <2>2 DEF QName
    <2>6. num'["Logic"] = 0 => q'["Logic"] = <<>>
      BY <2>3, <2>5, EmptySeq
    <2>7. \A z \in QName : num'[z] = 0 => q'[z] = <<>>
      BY <2>3, <2>4, <2>6, <1>a DEF CounterInv
    <2>8. CounterInv'
      BY <1>2, <2>3, <2>7, <1>a DEF CopyPacketsFromNetToLogic, CounterInv
    <2>9. CurInv' /\ PrepareInv' /\ RecvWakeup' /\ SendWakeup' /\ PoolsAgree'
      BY <1>2, <2>3, <1>a DEF CopyPacketsFromNetToLogic, CurInv, PrepareInv, RecvWakeup,
         SendWakeup, PoolsAgree
    <2>10. BornInv'
      <3>1. \A z \in QName : q'[z] = <<>> \/ \E w \in QName : q'[z] = q[w]
        BY <2>3, <2>4 DEF QName
      <3>2. UNCHANGED <<seqPool, born>>
        BY <1>2 DEF CopyPacketsFromNetToLogic
      <3> QED BY <3>1, <3>2, <1>a DEF BornInv
    <2> QED BY <2>8, <2>9, <2>10 DEF WakeInv
  <1>3. CASE HandleCSProto
    <2> DEFINE p == q["Logic"][handled + 1]
    <2>1. handled + 1 \in 1..Len(q["Logic"]) /\ q["Logic"] \in Seq(Packet)
      <3>1. q["Logic"] \in Seq(Packet) /\ num["Logic"] = Len(q["Logic"])
        BY <1>3, <1>a DEF HandleCSProto, CounterInv, TypeOK, QName
      <3> QED BY <1>3, <3>1 DEF HandleCSProto, TypeOK
    <2>2. p \in Packet
      BY <2>1
    <2>3. p.seq \in Conns /\ p.fd \in Fds /\ p.n \in Nat
      BY <2>2 DEF Packet
    <2>4. p.seq \in born
      BY <2>1, <1>a DEF BornInv, QName
    <2>5. UNCHANGED <<bHasSignal, pipe, netPc, cur, total, seqPool, fdPool, fdOf, born, openFds>>
          /\ logicPc = "handle" /\ logicPc' \in {"flush", "handle"}
      BY <1>3 DEF HandleCSProto
    <2>6. CASE p.kind = "hello"
      <3>1. AddPacket("SendPrepare", p.seq, p.fd, "hello", p.n)
        BY <1>3, <2>6 DEF HandleCSProto
      <3>2. /\ \A y \in QName \ {"SendPrepare"} : q'[y] = q[y] /\ num'[y] = num[y]
            /\ q'["SendPrepare"][Len(q["SendPrepare"]) + 1].seq = p.seq
            /\ \A z \in QName : num'[z] = 0 => q'[z] = <<>>
            /\ \A z \in QName : \A i \in 1..Len(q'[z]) :
                 \/ i \in 1..Len(q[z]) /\ q'[z][i] = q[z][i]
                 \/ z = "SendPrepare" /\ i = Len(q["SendPrepare"]) + 1
        <4>1. "SendPrepare" \in QName
          BY DEF QName
        <4> HIDE DEF p
        <4> QED BY <3>1, <4>1, <2>3, <1>a, AddPacketPlaces
      <3>3. /\ q'["Logic"] = q["Logic"] /\ num'["Logic"] = num["Logic"]
            /\ q'["Send"] = q["Send"] /\ q'["Cache"] = q["Cache"]
            /\ q'["Recv"] = q["Recv"] /\ q'["RecvPrepare"] = q["RecvPrepare"]
        BY <3>2 DEF QName
      <3>4. CounterInv'
        BY <2>5, <3>2, <3>3, <1>a DEF CounterInv
      <3>5. CurInv' /\ PrepareInv' /\ RecvWakeup' /\ SendWakeup' /\ PoolsAgree'
        BY <2>5, <3>3, <1>a DEF CurInv, PrepareInv, RecvWakeup, SendWakeup, PoolsAgree
      <3>6. BornInv'
        BY <2>4, <2>5, <3>2, <1>a DEF BornInv
      <3> QED BY <3>4, <3>5, <3>6 DEF WakeInv
    <2>7. CASE p.kind # "hello"
      <3>1. q' = q /\ num' = num
        BY <1>3, <2>7 DEF HandleCSProto
      <3> QED BY <3>1, <2>5, <1>a DEF WakeInv, CounterInv, CurInv, BornInv, PrepareInv,
                 RecvWakeup, SendWakeup, PoolsAgree
    <2> QED BY <2>6, <2>7
  <1>4. CASE HandleLoopDone
    BY <1>4, <1>a DEF HandleLoopDone, WakeInv, CounterInv, CurInv, BornInv, PrepareInv,
       RecvWakeup, SendWakeup, PoolsAgree
  <1>5. CASE PacketSendPrepare
    <2>1. /\ \A z \in QName \ {"Send", "SendPrepare"} : q'[z] = q[z] /\ num'[z] = num[z]
          /\ \A z \in QName : num'[z] = 0 => q'[z] = <<>>
          /\ \A z \in QName : \A i \in 1..Len(q'[z]) :
               \E w \in QName : \E j \in 1..Len(q[w]) : q'[z][i] = q[w][j]
      BY <1>5, <1>a, CopyFromPlaces DEF PacketSendPrepare, QName
    <2>2. /\ q'["Logic"] = q["Logic"] /\ num'["Logic"] = num["Logic"] /\ q'["Cache"] = q["Cache"]
          /\ q'["Recv"] = q["Recv"] /\ q'["RecvPrepare"] = q["RecvPrepare"]
      BY <2>1 DEF QName
    <2>3. CounterInv'
      BY <1>5, <2>1, <2>2, <1>a DEF PacketSendPrepare, CounterInv
    <2>4. CurInv' /\ SendWakeup' /\ PoolsAgree' /\ PrepareInv' /\ RecvWakeup'
      BY <1>5, <2>2, <1>a DEF PacketSendPrepare, CurInv, SendWakeup, PoolsAgree,
         PrepareInv, RecvWakeup
    <2>5. BornInv'
      BY <1>5, <2>1, <1>a DEF PacketSendPrepare, BornInv
    <2> QED BY <2>3, <2>4, <2>5 DEF WakeInv
  <1>6. CASE SendNetworkCmd
    BY <1>6, <1>a DEF SendNetworkCmd, WakeInv, CounterInv, CurInv, BornInv, PrepareInv,
       RecvWakeup, SendWakeup, PoolsAgree, TypeOK
  <1>7. CASE ReleaseLogicPacket
    <2>1. /\ \A z \in QName \ {"Logic"} : q'[z] = q[z]
          /\ num' = num
          /\ \A z \in QName : num'[z] = 0 => q'[z] = <<>>
          /\ \A z \in QName : \A i \in 1..Len(q'[z]) :
               \E j \in 1..Len(q[z]) : q'[z][i] = q[z][j]
      BY <1>7, <1>a, ReleaseHeadPlaces DEF ReleaseLogicPacket, QName
    <2>2. /\ q'["Cache"] = q["Cache"] /\ q'["Send"] = q["Send"]
          /\ q'["Recv"] = q["Recv"] /\ q'["RecvPrepare"] = q["RecvPrepare"]
      BY <2>1 DEF QName
    <2>3. CounterInv'
      BY <1>7, <2>1, <2>2, <1>a DEF ReleaseLogicPacket, CounterInv
    <2>4. CurInv' /\ SendWakeup' /\ PoolsAgree' /\ PrepareInv' /\ RecvWakeup'
      BY <1>7, <2>2, <1>a DEF ReleaseLogicPacket, CurInv, SendWakeup, PoolsAgree,
         PrepareInv, RecvWakeup
    <2>5. BornInv'
      BY <1>7, <2>1, <1>a DEF ReleaseLogicPacket, BornInv
    <2> QED BY <2>3, <2>4, <2>5 DEF WakeInv
  <1>8. CASE ReleaseLogicDone
    BY <1>8, <1>a DEF ReleaseLogicDone, WakeInv, CounterInv, CurInv, BornInv, PrepareInv,
       RecvWakeup, SendWakeup, PoolsAgree
  <1> QED BY <1>1, <1>2, <1>3, <1>4, <1>5, <1>6, <1>7, <1>8 DEF LogicThread

\* Steps of the other contexts touch neither queues nor threads.
LEMMA OtherContextsWake == TypeOK /\ WakeInv /\ OtherContexts => WakeInv'
  BY DEF OtherContexts, OtherContextTakes, OtherContextReleases, WakeInv, CounterInv,
     CurInv, BornInv, PrepareInv, RecvWakeup, SendWakeup, PoolsAgree, netVars, logicVars,
     clientVars, historyVars

\* Types and wakeups are inductive together.
THEOREM PipelineWakeInductive == Spec => [](TypeOK /\ WakeInv)
  <1>1. Init => TypeOK /\ WakeInv
    BY InitType, InitWake
  <1>2. TypeOK /\ WakeInv /\ [Next]_vars => TypeOK' /\ WakeInv'
    <2> SUFFICES ASSUME TypeOK, WakeInv, [Next]_vars PROVE TypeOK' /\ WakeInv'
      OBVIOUS
    <2>a. CounterInv /\ CurInv
      BY DEF WakeInv
    <2>1. CASE NetEvent
      BY <2>1, NetEventType, NetEventWake
    <2>2. CASE OnRecvNetCmdCtrl
      BY <2>2, NetCmdType, NetCmdWake
    <2>3. CASE NetHandler
      BY <2>3, <2>a, NetHandlerType, NetHandlerWake
    <2>4. CASE LogicThread
      BY <2>4, <2>a, LogicThreadType, LogicThreadWake
    <2>5. CASE OtherContexts
      BY <2>5, OtherContextsType, OtherContextsWake
    <2>6. CASE UNCHANGED vars
      <3>1. TypeOK'
        BY <2>6 DEF vars, TypeOK, queueVars, netVars, logicVars, clientVars, historyVars
      <3>2. WakeInv'
        BY <2>6 DEF vars, WakeInv, CounterInv, CurInv, BornInv, PrepareInv, RecvWakeup,
           SendWakeup, PoolsAgree, queueVars, netVars, logicVars, clientVars, historyVars
      <3> QED BY <3>1, <3>2
    <2> QED BY <2>1, <2>2, <2>3, <2>4, <2>5, <2>6 DEF Next
  <1> QED BY <1>1, <1>2, PTL DEF Spec

\* Every variable of the pipeline keeps its type.
THEOREM PipelineTypeOK == Spec => []TypeOK
  BY PipelineWakeInductive, PTL

\* No published packet of a connected client is without a wakeup.
THEOREM PipelineRecvWakeup == Spec => []RecvWakeup
  <1>1. WakeInv => RecvWakeup
    BY DEF WakeInv
  <1> QED BY <1>1, PipelineWakeInductive, PTL

\* No answer waits in the send queue without a send command on its way.
THEOREM PipelineSendWakeup == Spec => []SendWakeup
  <1>1. WakeInv => SendWakeup
    BY DEF WakeInv
  <1> QED BY <1>1, PipelineWakeInductive, PTL

\* The two maps of the client pool stay mirror images, whatever descriptors
\* are reused.
THEOREM PipelinePoolsAgree == Spec => []PoolsAgree
  <1>1. WakeInv => PoolsAgree
    BY DEF WakeInv
  <1> QED BY <1>1, PipelineWakeInductive, PTL

-----------------------------------------------------------------------------
(* Ownership of packet memory                                              *)

\* Blocks are natural numbers, so none of them is the heap's index.
LEMMA HeapIsNoBlock == HeapIndex \notin Blocks
  BY PoolAssumption DEF HeapIndex, Blocks

\* Initially the free queue holds every block once and nobody holds one.
LEMMA InitOwned == Init => MemoryOwned
  <1> SUFFICES ASSUME Init PROVE MemoryOwned
    OBVIOUS
  <1>1. \A x \in QName : Len(q[x]) = 0
    BY DEF Init
  <1>2. freeQueue \in [1..PoolSize -> Blocks] /\ Len(freeQueue) = PoolSize
        /\ \A i \in 1..PoolSize : freeQueue[i] = i - 1
    BY PoolAssumption DEF Init, Blocks
  <1>3. BlocksDistinct
    BY <1>1 DEF BlocksDistinct
  <1>4. FreeBlocksUnused
    <2>1. \A i, j \in 1..PoolSize : freeQueue[i] = freeQueue[j] => i = j
      BY <1>2, PoolAssumption
    <2>2. lent = {}
      BY DEF Init
    <2> QED BY <1>1, <1>2, <2>1, <2>2 DEF FreeBlocksUnused
  <1>5. NoBlockLeaked
    <2> SUFFICES ASSUME NEW b \in Blocks
                 PROVE  \E i \in 1..Len(freeQueue) : freeQueue[i] = b
      BY DEF NoBlockLeaked
    <2>1. b + 1 \in 1..PoolSize /\ freeQueue[b + 1] = b
      BY <1>2, PoolAssumption DEF Blocks
    <2> QED BY <1>2, <2>1
  <1> QED BY <1>3, <1>4, <1>5 DEF MemoryOwned

\* What taking the head of the free queue does to its places.
LEMMA FreeHead ==
  ASSUME TypeOK, freeQueue # <<>>
  PROVE  /\ Len(freeQueue) \in Nat /\ 1 \in 1..Len(freeQueue)
         /\ Head(freeQueue) = freeQueue[1] /\ Head(freeQueue) \in Blocks
         /\ Len(Tail(freeQueue)) = Len(freeQueue) - 1
         /\ \A i \in 1..Len(Tail(freeQueue)) :
              i + 1 \in 1..Len(freeQueue) /\ i + 1 # 1
              /\ Tail(freeQueue)[i] = freeQueue[i + 1]
         /\ \A i \in 1..Len(freeQueue) : i = 1 \/
              (i - 1 \in 1..Len(Tail(freeQueue)) /\ Tail(freeQueue)[i - 1] = freeQueue[i])
  <1>1. freeQueue \in Seq(Blocks)
    BY DEF TypeOK
  <1>2. Len(freeQueue) \in Nat /\ Len(freeQueue) # 0
    BY <1>1, EmptySeq
  <1>3. Len(Tail(freeQueue)) = Len(freeQueue) - 1
        /\ \A i \in 1..Len(Tail(freeQueue)) : Tail(freeQueue)[i] = freeQueue[i + 1]
    BY <1>1, HeadTailProperties
  <1>4. Head(freeQueue) = freeQueue[1] /\ Head(freeQueue) \in Blocks
    BY <1>1, <1>2
  <1>5. ASSUME NEW i \in 1..Len(freeQueue), i # 1
        PROVE  i - 1 \in 1..Len(Tail(freeQueue)) /\ Tail(freeQueue)[i - 1] = freeQueue[i]
    <2>1. i - 1 \in 1..Len(Tail(freeQueue)) /\ (i - 1) + 1 = i
      BY <1>2, <1>3, <1>5
    <2> QED BY <1>3, <2>1
  <1>6. \A i \in 1..Len(Tail(freeQueue)) : i + 1 \in 1..Len(freeQueue) /\ i + 1 # 1
    BY <1>2, <1>3
  <1> QED BY <1>2, <1>3, <1>4, <1>5, <1>6

\* AddPacket moves the head of the free queue, if there is one, to the new
\* packet and nothing else.
LEMMA AddPacketOwned ==
  ASSUME TypeOK, CounterInv, MemoryOwned, NEW x \in QName, NEW c \in Conns,
         NEW fd \in Fds, NEW kind \in {"hello", "other"}, NEW n \in Nat,
         AddPacket(x, c, fd, kind, n), lent' = lent
  PROVE  MemoryOwned'
  <1> DEFINE m == IF freeQueue = <<>> THEN HeapIndex ELSE Head(freeQueue)
             new == Len(q[x]) + 1
  <1>1. /\ \A y \in QName \ {x} : q'[y] = q[y]
        /\ Len(q'[x]) = new
        /\ \A i \in 1..Len(q[x]) : q'[x][i] = q[x][i]
        /\ q'[x][new].mem = m
        /\ \A z \in QName : \A i \in 1..Len(q'[z]) :
             \/ i \in 1..Len(q[z]) /\ q'[z][i] = q[z][i]
             \/ z = x /\ i = new
    BY AddPacketPlaces
  <1>2. freeQueue' = IF freeQueue = <<>> THEN <<>> ELSE Tail(freeQueue)
    BY DEF AddPacket
  <1>3. BlocksDistinct /\ FreeBlocksUnused /\ NoBlockLeaked
    BY DEF MemoryOwned
  <1>4. \A z \in QName : Len(q[z]) \in Nat
    BY DEF TypeOK
  <1>5. m = HeapIndex \/ \A z \in QName : \A i \in 1..Len(q[z]) : q[z][i].mem # m
    <2>1. CASE freeQueue = <<>>
      BY <2>1
    <2>2. CASE freeQueue # <<>>
      BY <2>2, <1>3, FreeHead DEF FreeBlocksUnused
    <2> QED BY <2>1, <2>2
  <1> HIDE DEF m, new
  <1>6. BlocksDistinct'
    <2> SUFFICES ASSUME NEW z \in QName, NEW w \in QName,
                        NEW i \in 1..Len(q'[z]), NEW j \in 1..Len(q'[w]),
                        q'[z][i].mem # HeapIndex, q'[z][i].mem = q'[w][j].mem
                 PROVE  z = w /\ i = j
      BY DEF BlocksDistinct
    <2>1. CASE i \in 1..Len(q[z]) /\ q'[z][i] = q[z][i]
      <3>1. CASE j \in 1..Len(q[w]) /\ q'[w][j] = q[w][j]
        BY <2>1, <3>1, <1>3 DEF BlocksDistinct
      <3>2. CASE w = x /\ j = new
        BY <2>1, <3>2, <1>1, <1>5
      <3> QED BY <1>1, <3>1, <3>2
    <2>2. CASE z = x /\ i = new
      <3>1. CASE j \in 1..Len(q[w]) /\ q'[w][j] = q[w][j]
        BY <2>2, <3>1, <1>1, <1>5
      <3>2. CASE w = x /\ j = new
        BY <2>2, <3>2
      <3> QED BY <1>1, <3>1, <3>2
    <2> QED BY <1>1, <2>1, <2>2
  <1>7. FreeBlocksUnused'
    <2>1. CASE freeQueue = <<>>
      <3>1. m = HeapIndex /\ Len(freeQueue') = 0
        BY <2>1, <1>2 DEF m
      <3>2. m \notin lent'
        BY <3>1, HeapIsNoBlock DEF TypeOK
      <3>3. \A z \in QName : \A j \in 1..Len(q'[z]) : q'[z][j].mem \notin lent'
        BY <3>2, <1>1, <1>3 DEF FreeBlocksUnused
      <3> QED BY <3>1, <3>3 DEF FreeBlocksUnused
    <2>2. CASE freeQueue # <<>>
      <3>1. m = freeQueue[1] /\ freeQueue' = Tail(freeQueue) /\ 1 \in 1..Len(freeQueue)
        BY <2>2, <1>2, FreeHead DEF m
      <3>2. \A i \in 1..Len(freeQueue') :
              i + 1 \in 1..Len(freeQueue) /\ i + 1 # 1 /\ freeQueue'[i] = freeQueue[i + 1]
        BY <2>2, <3>1, FreeHead
      <3>3. \A i, j \in 1..Len(freeQueue') : freeQueue'[i] = freeQueue'[j] => i = j
        <4>1. \A i, j \in 1..Len(freeQueue') : freeQueue'[i] = freeQueue'[j] => i + 1 = j + 1
          BY <3>2, <1>3 DEF FreeBlocksUnused
        <4>2. \A i, j \in 1..Len(freeQueue') : i + 1 = j + 1 => i = j
          OBVIOUS
        <4> QED BY <4>1, <4>2
      <3>4. \A i \in 1..Len(freeQueue') : freeQueue'[i] # m /\ freeQueue'[i] \notin lent'
        BY <3>1, <3>2, <1>3 DEF FreeBlocksUnused
      <3>5. \A i \in 1..Len(freeQueue') : \A z \in QName : \A j \in 1..Len(q'[z]) :
              q'[z][j].mem # freeQueue'[i]
        <4> SUFFICES ASSUME NEW i \in 1..Len(freeQueue'), NEW z \in QName,
                            NEW j \in 1..Len(q'[z])
                     PROVE  q'[z][j].mem # freeQueue'[i]
          OBVIOUS
        <4>1. CASE j \in 1..Len(q[z]) /\ q'[z][j] = q[z][j]
          BY <4>1, <3>2, <1>3 DEF FreeBlocksUnused
        <4>2. CASE z = x /\ j = new
          BY <4>2, <3>4, <1>1
        <4> QED BY <4>1, <4>2, <1>1
      <3>6. \A z \in QName : \A j \in 1..Len(q'[z]) : q'[z][j].mem \notin lent'
        <4>1. m \notin lent'
          BY <3>1, <1>3 DEF FreeBlocksUnused
        <4>2. ASSUME NEW z \in QName, NEW j \in 1..Len(q'[z])
              PROVE  q'[z][j].mem = m \/ q'[z][j].mem \notin lent
          BY <1>1, <1>3 DEF FreeBlocksUnused
        <4> QED BY <4>1, <4>2
      <3> QED BY <3>3, <3>4, <3>5, <3>6 DEF FreeBlocksUnused
    <2> QED BY <2>1, <2>2
  <1>8. NoBlockLeaked'
    <2> SUFFICES ASSUME NEW b \in Blocks
                 PROVE  \/ b \in lent'
                        \/ \E i \in 1..Len(freeQueue') : freeQueue'[i] = b
                        \/ \E z \in QName : \E i \in 1..Len(q'[z]) : q'[z][i].mem = b
      BY DEF NoBlockLeaked
    <2>1. CASE b \in lent
      BY <2>1
    <2>2. CASE \E z \in QName : \E i \in 1..Len(q[z]) : q[z][i].mem = b
      <3>a. PICK z \in QName : \E i \in 1..Len(q[z]) : q[z][i].mem = b
        BY <2>2
      <3>1. PICK i \in 1..Len(q[z]) : q[z][i].mem = b
        BY <3>a
      <3>2. i \in 1..Len(q'[z]) /\ q'[z][i] = q[z][i]
        BY <1>1, <1>4 DEF new
      <3> QED BY <3>1, <3>2
    <2>3. CASE \E i \in 1..Len(freeQueue) : freeQueue[i] = b
      <3>1. PICK i \in 1..Len(freeQueue) : freeQueue[i] = b
        BY <2>3
      <3>2. freeQueue # <<>>
        BY <3>1 DEF TypeOK
      <3>3. CASE i = 1
        <4>1. m = b
          BY <3>1, <3>2, <3>3, FreeHead DEF m
        <4>2. new \in 1..Len(q'[x])
          BY <1>1, <1>4 DEF new
        <4> QED BY <4>1, <4>2, <1>1
      <3>4. CASE i # 1
        BY <3>1, <3>2, <3>4, <1>2, FreeHead
      <3> QED BY <3>3, <3>4
    <2> QED BY <2>1, <2>2, <2>3, <1>3 DEF NoBlockLeaked
  <1> QED BY <1>6, <1>7, <1>8 DEF MemoryOwned

\* Moving all of queue y behind queue x changes no owner.
LEMMA MoveOwned ==
  ASSUME TypeOK, MemoryOwned, NEW x \in QName, NEW y \in QName, x # y,
         \A z \in QName \ {x, y} : q'[z] = q[z],
         q'[y] = <<>>,
         Len(q'[x]) = Len(q[x]) + Len(q[y]),
         \A i \in 1..Len(q[x]) : q'[x][i] = q[x][i],
         \A i \in 1..Len(q[y]) : q'[x][Len(q[x]) + i] = q[y][i],
         freeQueue' = freeQueue, lent' = lent
  PROVE  MemoryOwned'
  <1>1. BlocksDistinct /\ FreeBlocksUnused /\ NoBlockLeaked
    BY DEF MemoryOwned
  <1>2. Len(q[x]) \in Nat /\ Len(q[y]) \in Nat /\ Len(q'[y]) = 0
    BY DEF TypeOK
  <1> DEFINE From(z, i) == IF z = x /\ i \notin 1..Len(q[x]) THEN y ELSE z
             Idx(z, i) == IF z = x /\ i \notin 1..Len(q[x]) THEN i - Len(q[x]) ELSE i
  <1>3. ASSUME NEW z \in QName, NEW i \in 1..Len(q'[z])
        PROVE  /\ From(z, i) \in QName
               /\ Idx(z, i) \in 1..Len(q[From(z, i)])
               /\ q'[z][i] = q[From(z, i)][Idx(z, i)]
               /\ z # y
    <2>1. CASE z # x /\ z # y
      BY <2>1
    <2>2. CASE z = y
      BY <2>2, <1>2
    <2>3. CASE z = x /\ i \in 1..Len(q[x])
      BY <2>3
    <2>4. CASE z = x /\ i \notin 1..Len(q[x])
      <3>1. i - Len(q[x]) \in 1..Len(q[y]) /\ Len(q[x]) + (i - Len(q[x])) = i
        <4>1. i \in 1..(Len(q[x]) + Len(q[y]))
          BY <2>4
        <4> QED BY <4>1, <2>4, <1>2, SecondPart
      <3> QED BY <2>4, <3>1
    <2> QED BY <2>1, <2>2, <2>3, <2>4
  <1>4. ASSUME NEW z \in QName, NEW i \in 1..Len(q'[z]),
               NEW w \in QName, NEW j \in 1..Len(q'[w]),
               From(z, i) = From(w, j), Idx(z, i) = Idx(w, j)
        PROVE  z = w /\ i = j
    <2>1. z # y /\ w # y
      BY <1>3
    <2>2. i \in Int /\ j \in Int
      OBVIOUS
    <2>3. CASE z = x /\ i \notin 1..Len(q[x])
      <3>1. From(w, j) = y
        BY <2>3, <1>4
      <3>2. w = x /\ j \notin 1..Len(q[x])
        BY <3>1, <2>1
      <3>3. i - Len(q[x]) = j - Len(q[x])
        BY <2>3, <3>2, <1>4
      <3> QED BY <2>3, <3>2, <3>3, <2>2, <1>2
    <2>4. CASE ~(z = x /\ i \notin 1..Len(q[x]))
      <3>1. From(z, i) = z /\ Idx(z, i) = i
        BY <2>4
      <3>2. ~(w = x /\ j \notin 1..Len(q[x]))
        BY <3>1, <1>4, <2>1
      <3> QED BY <3>1, <3>2, <1>4
    <2> QED BY <2>3, <2>4
  <1> HIDE DEF From, Idx
  <1>5. BlocksDistinct'
    <2> SUFFICES ASSUME NEW z \in QName, NEW w \in QName,
                        NEW i \in 1..Len(q'[z]), NEW j \in 1..Len(q'[w]),
                        q'[z][i].mem # HeapIndex, q'[z][i].mem = q'[w][j].mem
                 PROVE  z = w /\ i = j
      BY DEF BlocksDistinct
    <2>1. From(z, i) = From(w, j) /\ Idx(z, i) = Idx(w, j)
      <3>1. /\ From(z, i) \in QName /\ Idx(z, i) \in 1..Len(q[From(z, i)])
            /\ q'[z][i] = q[From(z, i)][Idx(z, i)]
        BY <1>3
      <3>2. /\ From(w, j) \in QName /\ Idx(w, j) \in 1..Len(q[From(w, j)])
            /\ q'[w][j] = q[From(w, j)][Idx(w, j)]
        BY <1>3
      <3> QED BY <3>1, <3>2, <1>1 DEF BlocksDistinct
    <2> QED BY <2>1, <1>4
  <1>6. FreeBlocksUnused'
    <2>1. ASSUME NEW z \in QName, NEW j \in 1..Len(q'[z])
          PROVE  /\ q'[z][j].mem \notin lent
                 /\ \A i \in 1..Len(freeQueue) : q'[z][j].mem # freeQueue[i]
      <3>1. /\ From(z, j) \in QName /\ Idx(z, j) \in 1..Len(q[From(z, j)])
            /\ q'[z][j] = q[From(z, j)][Idx(z, j)]
        BY <1>3
      <3> QED BY <3>1, <1>1 DEF FreeBlocksUnused
    <2> QED BY <2>1, <1>1, ZenonT(60) DEF FreeBlocksUnused
  <1>7. NoBlockLeaked'
    <2> SUFFICES ASSUME NEW b \in Blocks, NEW z \in QName, NEW i \in 1..Len(q[z]),
                        q[z][i].mem = b
                 PROVE  \E w \in QName : \E j \in 1..Len(q'[w]) : q'[w][j].mem = b
      BY <1>1 DEF NoBlockLeaked
    <2>1. CASE z # x /\ z # y
      BY <2>1
    <2>2. CASE z = x
      <3>1. i \in 1..Len(q'[x]) /\ q'[x][i] = q[x][i]
        BY <2>2, <1>2, BothParts
      <3> QED BY <2>2, <3>1
    <2>3. CASE z = y
      <3>1. Len(q[x]) + i \in 1..Len(q'[x]) /\ q'[x][Len(q[x]) + i] = q[y][i]
        BY <2>3, <1>2, BothParts
      <3> QED BY <2>3, <3>1
    <2> QED BY <2>1, <2>2, <2>3
  <1> QED BY <1>5, <1>6, <1>7 DEF MemoryOwned

\* Putting back a block that is held by nobody: what the free queue becomes.
LEMMA FreeAppend ==
  ASSUME TypeOK, NEW b \in Blocks
  PROVE  /\ Len(freeQueue) \in Nat
         /\ Len(Append(freeQueue, b)) = Len(freeQueue) + 1
         /\ Append(freeQueue, b)[Len(freeQueue) + 1] = b
         /\ \A i \in 1..Len(freeQueue) :
              i \in 1..Len(Append(freeQueue, b)) /\ Append(freeQueue, b)[i] = freeQueue[i]
         /\ \A i \in 1..Len(Append(freeQueue, b)) :
              \/ i \in 1..Len(freeQueue) /\ Append(freeQueue, b)[i] = freeQueue[i]
              \/ i = Len(freeQueue) + 1 /\ i \notin 1..Len(freeQueue)
                 /\ Append(freeQueue, b)[i] = b
  <1>1. freeQueue \in Seq(Blocks)
    BY DEF TypeOK
  <1> QED BY <1>1

\* ReleasePacketMemory of the head of queue x gives its block back once.
LEMMA ReleaseOwned ==
  ASSUME TypeOK, CounterInv, MemoryOwned, NEW x \in QName, q[x] # <<>>,
         ReleaseHead(x), lent' = lent
  PROVE  MemoryOwned'
  <1> DEFINE m == Head(q[x]).mem
             Shift(z, i) == IF z = x THEN i + 1 ELSE i
  <1>1. BlocksDistinct /\ FreeBlocksUnused /\ NoBlockLeaked
    BY DEF MemoryOwned
  <1>2. /\ \A z \in QName \ {x} : q'[z] = q[z]
        /\ Len(q[x]) > 0
        /\ Len(q'[x]) = Len(q[x]) - 1
        /\ \A i \in 1..Len(q'[x]) : q'[x][i] = q[x][i + 1] /\ i + 1 \in 1..Len(q[x])
    BY ReleaseHeadPlaces
  <1>3. q[x] \in Seq(Packet) /\ Len(q[x]) \in Nat /\ 1 \in 1..Len(q[x])
        /\ Head(q[x]) = q[x][1] /\ Head(q[x]) \in Packet
    BY <1>2 DEF TypeOK
  <1>4. m \in Blocks \cup {HeapIndex} /\ q[x][1].mem = m
    BY <1>3 DEF Packet
  <1>5. ASSUME NEW z \in QName, NEW i \in 1..Len(q'[z])
        PROVE  /\ Shift(z, i) \in 1..Len(q[z])
               /\ q'[z][i] = q[z][Shift(z, i)]
               /\ ~(z = x /\ Shift(z, i) = 1)
    <2>1. i \in Nat \ {0}
      OBVIOUS
    <2>2. CASE z = x
      BY <2>1, <2>2, <1>2
    <2>3. CASE z # x
      BY <2>3, <1>2
    <2> QED BY <2>2, <2>3
  <1>6. \A z \in QName : \A i, j \in 1..Len(q'[z]) : Shift(z, i) = Shift(z, j) => i = j
    OBVIOUS
  <1>7. freeQueue' = IF m = HeapIndex THEN freeQueue ELSE Append(freeQueue, m)
    BY DEF ReleaseHead
  <1> HIDE DEF m, Shift
  <1>8. m # HeapIndex => \A z \in QName : \A i \in 1..Len(q'[z]) : q'[z][i].mem # m
    BY <1>1, <1>3, <1>4, <1>5 DEF BlocksDistinct
  <1>9. BlocksDistinct'
    <2> SUFFICES ASSUME NEW z \in QName, NEW w \in QName,
                        NEW i \in 1..Len(q'[z]), NEW j \in 1..Len(q'[w]),
                        q'[z][i].mem # HeapIndex, q'[z][i].mem = q'[w][j].mem
                 PROVE  z = w /\ i = j
      BY DEF BlocksDistinct
    <2>1. z = w /\ Shift(z, i) = Shift(w, j)
      <3>1. Shift(z, i) \in 1..Len(q[z]) /\ q'[z][i] = q[z][Shift(z, i)]
        BY <1>5
      <3>2. Shift(w, j) \in 1..Len(q[w]) /\ q'[w][j] = q[w][Shift(w, j)]
        BY <1>5
      <3> QED BY <3>1, <3>2, <1>1 DEF BlocksDistinct
    <2> QED BY <2>1, <1>6
  <1>10. \A z \in QName : \A j \in 1..Len(q'[z]) : q'[z][j].mem \notin lent'
    BY <1>1, <1>5 DEF FreeBlocksUnused
  <1>11. \A i \in 1..Len(freeQueue) : \A z \in QName : \A j \in 1..Len(q'[z]) :
           q'[z][j].mem # freeQueue[i]
    BY <1>1, <1>5, SMTT(30) DEF FreeBlocksUnused
  <1>12. ASSUME NEW b \in Blocks, NEW z \in QName, NEW i \in 1..Len(q[z]), q[z][i].mem = b
         PROVE  b = m \/ \E w \in QName : \E j \in 1..Len(q'[w]) : q'[w][j].mem = b
    <2>1. CASE z # x
      BY <2>1, <1>12, <1>2
    <2>2. CASE z = x /\ i = 1
      BY <2>2, <1>12, <1>4
    <2>3. CASE z = x /\ i # 1
      <3>1. i - 1 \in 1..Len(q'[x]) /\ (i - 1) + 1 = i
        BY <2>3, <1>2, <1>3
      <3>2. q'[x][i - 1] = q[x][i]
        BY <3>1, <1>2
      <3> QED BY <2>3, <3>1, <3>2, <1>12
    <2> QED BY <2>1, <2>2, <2>3
  <1>13. CASE m = HeapIndex
    <2>1. freeQueue' = freeQueue
      BY <1>7, <1>13
    <2>2. FreeBlocksUnused'
      BY <2>1, <1>1, <1>10, <1>11 DEF FreeBlocksUnused
    <2>3. NoBlockLeaked'
      BY <2>1, <1>1, <1>12, <1>13, HeapIsNoBlock DEF NoBlockLeaked
    <2> QED BY <2>2, <2>3, <1>9 DEF MemoryOwned
  <1>14. CASE m # HeapIndex
    <2>1. m \in Blocks /\ freeQueue' = Append(freeQueue, m)
      BY <1>4, <1>7, <1>14
    <2>2. /\ Len(freeQueue) + 1 \in 1..Len(freeQueue')
          /\ freeQueue'[Len(freeQueue) + 1] = m
          /\ \A i \in 1..Len(freeQueue) : i \in 1..Len(freeQueue') /\ freeQueue'[i] = freeQueue[i]
          /\ \A i \in 1..Len(freeQueue') :
               \/ i \in 1..Len(freeQueue) /\ freeQueue'[i] = freeQueue[i]
               \/ i = Len(freeQueue) + 1 /\ freeQueue'[i] = m
      BY <2>1, FreeAppend
    <2>3. \A i \in 1..Len(freeQueue) : freeQueue[i] # m
      BY <1>1, <1>3, <1>4 DEF FreeBlocksUnused
    <2>4. m \notin lent'
      BY <1>1, <1>3, <1>4 DEF FreeBlocksUnused
    <2>5. \A i, j \in 1..Len(freeQueue') : freeQueue'[i] = freeQueue'[j] => i = j
      BY <2>2, <2>3, <1>1 DEF FreeBlocksUnused
    <2>6. \A i \in 1..Len(freeQueue') :
            /\ freeQueue'[i] \notin lent'
            /\ \A z \in QName : \A j \in 1..Len(q'[z]) : q'[z][j].mem # freeQueue'[i]
      <3> SUFFICES ASSUME NEW i \in 1..Len(freeQueue')
                   PROVE  /\ freeQueue'[i] \notin lent'
                          /\ \A z \in QName : \A j \in 1..Len(q'[z]) :
                               q'[z][j].mem # freeQueue'[i]
        OBVIOUS
      <3>1. CASE i \in 1..Len(freeQueue) /\ freeQueue'[i] = freeQueue[i]
        BY <3>1, <1>11, <1>1 DEF FreeBlocksUnused
      <3>2. CASE freeQueue'[i] = m
        BY <3>2, <2>4, <1>8, <1>14
      <3> QED BY <2>2, <3>1, <3>2
    <2>7. FreeBlocksUnused'
      BY <2>5, <2>6, <1>10 DEF FreeBlocksUnused
    <2>8. NoBlockLeaked'
      <3> SUFFICES ASSUME NEW b \in Blocks
                   PROVE  \/ b \in lent'
                          \/ \E i \in 1..Len(freeQueue') : freeQueue'[i] = b
                          \/ \E z \in QName : \E i \in 1..Len(q'[z]) : q'[z][i].mem = b
        BY DEF NoBlockLeaked
      <3>1. CASE b \in lent
        BY <3>1
      <3>2. CASE \E i \in 1..Len(freeQueue) : freeQueue[i] = b
        BY <3>2, <2>2
      <3>3. CASE \E z \in QName : \E i \in 1..Len(q[z]) : q[z][i].mem = b
        BY <3>3, <1>12, <2>2
      <3> QED BY <3>1, <3>2, <3>3, <1>1 DEF NoBlockLeaked
    <2> QED BY <2>7, <2>8, <1>9 DEF MemoryOwned
  <1> QED BY <1>13, <1>14


\* A step that touches neither the queues nor the pool changes no owner.
LEMMA SameOwned ==
  ASSUME MemoryOwned, UNCHANGED <<q, freeQueue, lent>>
  PROVE  MemoryOwned'
  BY DEF MemoryOwned, BlocksDistinct, FreeBlocksUnused, NoBlockLeaked

\* CopyFrom moves packets together with their blocks.
LEMMA CopyFromOwned ==
  ASSUME TypeOK, CounterInv, MemoryOwned, NEW x \in QName, NEW y \in QName, x # y,
         CopyFrom(x, y), lent' = lent
  PROVE  MemoryOwned'
  <1>1. freeQueue' = freeQueue
    BY DEF CopyFrom
  <1>2. /\ \A z \in QName \ {x, y} : q'[z] = q[z]
        /\ q'[y] = <<>>
        /\ Len(q'[x]) = Len(q[x]) + Len(q[y])
        /\ \A i \in 1..Len(q[x]) : q'[x][i] = q[x][i]
        /\ \A i \in 1..Len(q[y]) : q'[x][Len(q[x]) + i] = q[y][i]
    BY CopyFromPlaces
  <1> QED BY <1>1, <1>2, MoveOwned

\* The event loop's own events leave packet memory alone.
LEMMA NetEventOwned == MemoryOwned /\ NetEvent => MemoryOwned'
  <1> SUFFICES ASSUME MemoryOwned, NetEvent PROVE MemoryOwned'
    OBVIOUS
  <1>1. UNCHANGED <<q, freeQueue, lent>>
    BY DEF NetEvent, OnListenerAcceptConnect, AcceptSetSocketOptFails, OnBufferEventTrigger,
       OnBufferEventRead, queueVars
  <1> QED BY <1>1, SameOwned

\* Ownership through the read and send handlers of the network thread.
LEMMA NetHandlerOwned ==
  TypeOK /\ WakeInv /\ MemoryOwned /\ NetHandler => MemoryOwned'
  <1> SUFFICES ASSUME TypeOK, WakeInv, MemoryOwned, NetHandler PROVE MemoryOwned'
    OBVIOUS
  <1>a. CounterInv /\ CurInv
    BY DEF WakeInv
  <1>b. /\ "RecvPrepare" \in QName /\ "Recv" \in QName /\ "Cache" \in QName
        /\ "Send" \in QName
    BY DEF QName
  <1>1. CASE UnpackFrame
    <2>1. cur \in Conns /\ fdOf[cur] \in Fds /\ rx[cur] + 1 \in Nat
      BY <1>1, <1>a, CurType DEF UnpackFrame
    <2>2. Head(batch) \in {"hello", "other"}
      BY <1>1 DEF UnpackFrame, TypeOK, Kind
    <2>3. AddPacket("RecvPrepare", cur, fdOf[cur], Head(batch), rx[cur] + 1) /\ lent' = lent
      BY <1>1 DEF UnpackFrame
    <2> QED BY <2>1, <2>2, <2>3, <1>a, <1>b, AddPacketOwned
  <1>2. CASE PacketRecvPrepare
    <2>1. CopyFrom("Recv", "RecvPrepare") /\ lent' = lent
      BY <1>2 DEF PacketRecvPrepare
    <2> QED BY <2>1, <1>a, <1>b, CopyFromOwned
  <1>3. CASE PacketSendPrepareCache
    <2>1. CopyFrom("Cache", "Send") /\ lent' = lent
      BY <1>3 DEF PacketSendPrepareCache
    <2> QED BY <2>1, <1>a, <1>b, CopyFromOwned
  <1>4. CASE ReleaseCachePacket
    <2>1. ReleaseHead("Cache") /\ lent' = lent /\ q["Cache"] # <<>>
      BY <1>4 DEF ReleaseCachePacket
    <2> QED BY <2>1, <1>a, <1>b, ReleaseOwned
  <1>5. CASE \/ UnpackBadFrame \/ Emit \/ ReadDone \/ PacketBufferSend \/ SendLoopDone
             \/ ReleaseCacheDone \/ \E b \in Batches(cur) : ReadAgain(b)
    <2>1. UNCHANGED <<q, freeQueue, lent>>
      BY <1>5 DEF UnpackBadFrame, Emit, ReadDone, PacketBufferSend, SendLoopDone,
         ReleaseCacheDone, ReadAgain, queueVars
    <2> QED BY <2>1, SameOwned
  <1> QED BY <1>1, <1>2, <1>3, <1>4, <1>5 DEF NetHandler

\* Ownership through the logic thread's round.  CopyPacketsFromNetToLogic
\* drops the old logic queue without releasing it, which is harmless only
\* because CounterInv says the queue is empty by then.
LEMMA LogicThreadOwned ==
  TypeOK /\ WakeInv /\ MemoryOwned /\ LogicThread => MemoryOwned'
  <1> SUFFICES ASSUME TypeOK, WakeInv, MemoryOwned, LogicThread PROVE MemoryOwned'
    OBVIOUS
  <1>a. CounterInv
    BY DEF WakeInv
  <1>b. /\ "Recv" \in QName /\ "Logic" \in QName /\ "SendPrepare" \in QName
        /\ "Send" \in QName
    BY DEF QName
  <1>1. CASE CopyPacketsFromNetToLogic
    <2>1. /\ q' = [q EXCEPT !["Logic"] = q["Recv"], !["Recv"] = <<>>]
          /\ freeQueue' = freeQueue /\ lent' = lent
      BY <1>1 DEF CopyPacketsFromNetToLogic
    <2>2. q \in [QName -> Seq(Packet)]
      BY DEF TypeOK
    <2>3. q'["Logic"] = q["Recv"] /\ q'["Recv"] = <<>>
      BY <2>1, <2>2, <1>b
    <2>4. \A z \in QName \ {"Logic", "Recv"} : q'[z] = q[z]
      BY <2>1, <2>2
    <2>5. q["Logic"] = <<>> /\ Len(q["Logic"]) = 0
      BY <1>1, <1>a DEF CopyPacketsFromNetToLogic, CounterInv
    <2>6. Len(q["Recv"]) \in Nat
      BY <2>2, <1>b
    <2>7. Len(q'["Logic"]) = Len(q["Logic"]) + Len(q["Recv"])
      BY <2>3, <2>5, <2>6
    <2>8. \A i \in 1..Len(q["Logic"]) : q'["Logic"][i] = q["Logic"][i]
      BY <2>5
    <2>9. \A i \in 1..Len(q["Recv"]) : q'["Logic"][Len(q["Logic"]) + i] = q["Recv"][i]
      BY <2>3, <2>5
    <2> QED BY <2>1, <2>3, <2>4, <2>7, <2>8, <2>9, <1>b, MoveOwned
  <1>2. CASE HandleCSProto
    <2> DEFINE p == q["Logic"][handled + 1]
    <2>1. handled + 1 \in 1..Len(q["Logic"]) /\ q["Logic"] \in Seq(Packet)
      <3>1. q["Logic"] \in Seq(Packet) /\ num["Logic"] = Len(q["Logic"])
        BY <1>2, <1>a DEF HandleCSProto, CounterInv, TypeOK, QName
      <3> QED BY <1>2, <3>1 DEF HandleCSProto, TypeOK
    <2>2. p.seq \in Conns /\ p.fd \in Fds /\ p.n \in Nat
      <3>1. p \in Packet
        BY <2>1
      <3> QED BY <3>1 DEF Packet
    <2>3. CASE p.kind = "hello"
      <3>1. AddPacket("SendPrepare", p.seq, p.fd, "hello", p.n) /\ lent' = lent
        BY <1>2, <2>3 DEF HandleCSProto
      <3> HIDE DEF p
      <3> QED BY <3>1, <2>2, <1>a, <1>b, AddPacketOwned
    <2>4. CASE p.kind # "hello"
      <3>1. UNCHANGED <<q, freeQueue, lent>>
        BY <1>2, <2>4 DEF HandleCSProto, queueVars
      <3> QED BY <3>1, SameOwned
    <2> QED BY <2>3, <2>4
  <1>3. CASE PacketSendPrepare
    <2>1. CopyFrom("Send", "SendPrepare") /\ lent' = lent
      BY <1>3 DEF PacketSendPrepare
    <2> QED BY <2>1, <1>a, <1>b, CopyFromOwned
  <1>4. CASE ReleaseLogicPacket
    <2>1. ReleaseHead("Logic") /\ lent' = lent /\ q["Logic"] # <<>>
      BY <1>4 DEF ReleaseLogicPacket
    <2> QED BY <2>1, <1>a, <1>b, ReleaseOwned
  <1>5. CASE \/ CheckAndSetSignalActived \/ HandleLoopDone \/ SendNetworkCmd
             \/ ReleaseLogicDone
    <2>1. UNCHANGED <<q, freeQueue, lent>>
      BY <1>5 DEF CheckAndSetSignalActived, HandleLoopDone, SendNetworkCmd,
         ReleaseLogicDone, queueVars
    <2> QED BY <2>1, SameOwned
  <1> QED BY <1>1, <1>2, <1>3, <1>4, <1>5 DEF LogicThread

\* A block that the proxy server or a connector takes or gives back has one
\* owner before and after.
LEMMA OtherContextsOwned == TypeOK /\ MemoryOwned /\ OtherContexts => MemoryOwned'
  <1> SUFFICES ASSUME TypeOK, MemoryOwned, OtherContexts PROVE MemoryOwned'
    OBVIOUS
  <1>a. BlocksDistinct /\ FreeBlocksUnused /\ NoBlockLeaked
    BY DEF MemoryOwned
  <1>b. q' = q
    BY DEF OtherContexts, OtherContextTakes, OtherContextReleases
  <1>c. BlocksDistinct'
    BY <1>a, <1>b DEF BlocksDistinct
  <1>1. CASE OtherContextTakes
    <2>1. /\ freeQueue # <<>> /\ freeQueue' = Tail(freeQueue)
          /\ lent' = lent \cup {freeQueue[1]} /\ 1 \in 1..Len(freeQueue)
      BY <1>1, FreeHead DEF OtherContextTakes
    <2>2. \A i \in 1..Len(freeQueue') :
            i + 1 \in 1..Len(freeQueue) /\ i + 1 # 1 /\ freeQueue'[i] = freeQueue[i + 1]
      BY <2>1, FreeHead
    <2>3. \A i, j \in 1..Len(freeQueue') : freeQueue'[i] = freeQueue'[j] => i = j
      <3>1. \A i, j \in 1..Len(freeQueue') : freeQueue'[i] = freeQueue'[j] => i + 1 = j + 1
        BY <2>2, <1>a DEF FreeBlocksUnused
      <3>2. \A i, j \in 1..Len(freeQueue') : i + 1 = j + 1 => i = j
        OBVIOUS
      <3> QED BY <3>1, <3>2
    <2>4. \A i \in 1..Len(freeQueue') :
            /\ freeQueue'[i] \notin lent'
            /\ \A x \in QName : \A j \in 1..Len(q'[x]) : q'[x][j].mem # freeQueue'[i]
      BY <2>1, <2>2, <1>a, <1>b DEF FreeBlocksUnused
    <2>5. \A x \in QName : \A j \in 1..Len(q'[x]) : q'[x][j].mem \notin lent'
      BY <2>1, <1>a, <1>b DEF FreeBlocksUnused
    <2>6. FreeBlocksUnused'
      BY <2>3, <2>4, <2>5 DEF FreeBlocksUnused
    <2>7. ASSUME NEW i \in 1..Len(freeQueue)
          PROVE  \/ freeQueue[i] \in lent'
                 \/ \E j \in 1..Len(freeQueue') : freeQueue'[j] = freeQueue[i]
      <3>1. CASE i = 1
        BY <3>1, <2>1
      <3>2. CASE i # 1
        <4>1. i - 1 \in 1..Len(freeQueue') /\ freeQueue'[i - 1] = freeQueue[i]
          BY <3>2, <2>1, FreeHead
        <4> QED BY <4>1
      <3> QED BY <3>1, <3>2
    <2>8. NoBlockLeaked'
      BY <2>1, <2>7, <1>a, <1>b DEF NoBlockLeaked
    <2> QED BY <1>c, <2>6, <2>8 DEF MemoryOwned
  <1>2. ASSUME NEW b \in Blocks, OtherContextReleases(b) PROVE MemoryOwned'
    <2>1. b \in lent /\ lent' = lent \ {b} /\ freeQueue' = Append(freeQueue, b)
      BY <1>2 DEF OtherContextReleases
    <2>2. /\ Len(freeQueue) + 1 \in 1..Len(freeQueue')
          /\ freeQueue'[Len(freeQueue) + 1] = b
          /\ \A i \in 1..Len(freeQueue) : i \in 1..Len(freeQueue') /\ freeQueue'[i] = freeQueue[i]
          /\ \A i \in 1..Len(freeQueue') :
               \/ i \in 1..Len(freeQueue) /\ freeQueue'[i] = freeQueue[i]
               \/ i = Len(freeQueue) + 1 /\ freeQueue'[i] = b
      BY <2>1, FreeAppend
    <2>3. \A i \in 1..Len(freeQueue) : freeQueue[i] # b
      BY <2>1, <1>a DEF FreeBlocksUnused
    <2>4. \A i, j \in 1..Len(freeQueue') : freeQueue'[i] = freeQueue'[j] => i = j
      BY <2>2, <2>3, <1>a DEF FreeBlocksUnused
    <2>5. ASSUME NEW i \in 1..Len(freeQueue')
          PROVE  /\ freeQueue'[i] \notin lent'
                 /\ \A x \in QName : \A j \in 1..Len(q'[x]) : q'[x][j].mem # freeQueue'[i]
      <3>1. CASE i \in 1..Len(freeQueue) /\ freeQueue'[i] = freeQueue[i]
        BY <3>1, <2>1, <1>a, <1>b DEF FreeBlocksUnused
      <3>2. CASE freeQueue'[i] = b
        BY <3>2, <2>1, <1>a, <1>b DEF FreeBlocksUnused
      <3> QED BY <2>2, <3>1, <3>2
    <2>6. FreeBlocksUnused'
      BY <2>1, <2>4, <2>5, <1>a, <1>b DEF FreeBlocksUnused
    <2>7. NoBlockLeaked'
      <3> SUFFICES ASSUME NEW d \in Blocks
                   PROVE  \/ d \in lent'
                          \/ \E i \in 1..Len(freeQueue') : freeQueue'[i] = d
                          \/ \E x \in QName : \E i \in 1..Len(q'[x]) : q'[x][i].mem = d
        BY DEF NoBlockLeaked
      <3>1. CASE d = b
        BY <3>1, <2>2
      <3>2. CASE d # b
        BY <3>2, <2>1, <2>2, <1>a, <1>b DEF NoBlockLeaked
      <3> QED BY <3>1, <3>2
    <2> QED BY <1>c, <2>6, <2>7 DEF MemoryOwned
  <1> QED BY <1>1, <1>2 DEF OtherContexts

\* Every pool block has exactly one holder, through every hand-over between
\* the threads.
THEOREM PipelineMemoryOwned == Spec => []MemoryOwned
  <1>1. TypeOK /\ WakeInv /\ MemoryOwned /\ [Next]_vars => MemoryOwned'
    <2> SUFFICES ASSUME TypeOK, WakeInv, MemoryOwned, [Next]_vars PROVE MemoryOwned'
      OBVIOUS
    <2>1. CASE NetEvent
      BY <2>1, NetEventOwned
    <2>2. CASE OnRecvNetCmdCtrl \/ UNCHANGED vars
      <3>1. UNCHANGED <<q, freeQueue, lent>>
        BY <2>2 DEF OnRecvNetCmdCtrl, vars, queueVars
      <3> QED BY <3>1, SameOwned
    <2>3. CASE NetHandler
      BY <2>3, NetHandlerOwned
    <2>4. CASE LogicThread
      BY <2>4, LogicThreadOwned
    <2>5. CASE OtherContexts
      BY <2>5, OtherContextsOwned
    <2> QED BY <2>1, <2>2, <2>3, <2>4, <2>5 DEF Next
  <1> QED BY <1>1, InitOwned, PipelineWakeInductive, PTL DEF Spec

-----------------------------------------------------------------------------
(* Requests and answers                                                    *)

\* A line of two parts holds the requests of both.
LEMMA HelloConcat ==
  ASSUME NEW s \in Seq(Packet), NEW t \in Seq(Packet), NEW c
  PROVE  HelloOf(s \o t, c) = HelloOf(s, c) \cup HelloOf(t, c)
  <1>1. /\ Len(s \o t) = Len(s) + Len(t)
        /\ \A i \in 1..Len(s) : (s \o t)[i] = s[i]
        /\ \A i \in 1..Len(t) : (s \o t)[Len(s) + i] = t[i]
    BY ConcatPlaces
  <1>2. Len(s) \in Nat /\ Len(t) \in Nat
    OBVIOUS
  <1>3. ASSUME NEW n \in HelloOf(s \o t, c) PROVE n \in HelloOf(s, c) \cup HelloOf(t, c)
    <2>1. PICK i \in 1..Len(s \o t) : /\ (s \o t)[i].seq = c /\ (s \o t)[i].kind = "hello"
                                      /\ n = (s \o t)[i].n
      BY <1>3 DEF HelloOf, HelloAt
    <2>2. CASE i \in 1..Len(s)
      BY <2>1, <2>2, <1>1 DEF HelloOf, HelloAt
    <2>3. CASE i \notin 1..Len(s)
      <3>1. i - Len(s) \in 1..Len(t) /\ Len(s) + (i - Len(s)) = i
        BY <2>3, <1>1, <1>2, SecondPart
      <3> DEFINE j == i - Len(s)
      <3>2. j \in 1..Len(t) /\ (s \o t)[i] = t[j]
        BY <3>1, <1>1
      <3> HIDE DEF j
      <3> QED BY <2>1, <3>2 DEF HelloOf, HelloAt
    <2> QED BY <2>2, <2>3
  <1>4. ASSUME NEW n \in HelloOf(s, c) PROVE n \in HelloOf(s \o t, c)
    <2>1. PICK i \in 1..Len(s) : s[i].seq = c /\ s[i].kind = "hello" /\ n = s[i].n
      BY <1>4 DEF HelloOf, HelloAt
    <2>2. i \in 1..Len(s \o t) /\ (s \o t)[i] = s[i]
      BY <1>1, <1>2, BothParts
    <2> QED BY <2>1, <2>2 DEF HelloOf, HelloAt
  <1>5. ASSUME NEW n \in HelloOf(t, c) PROVE n \in HelloOf(s \o t, c)
    <2>1. PICK i \in 1..Len(t) : t[i].seq = c /\ t[i].kind = "hello" /\ n = t[i].n
      BY <1>5 DEF HelloOf, HelloAt
    <2> DEFINE j == Len(s) + i
    <2>2. j \in 1..Len(s \o t) /\ (s \o t)[j] = t[i]
      BY <1>1, <1>2, BothParts
    <2> HIDE DEF j
    <2> QED BY <2>1, <2>2 DEF HelloOf, HelloAt
  <1> QED BY <1>3, <1>4, <1>5

\* A line of two parts is in order when both parts are and the first part's
\* requests come before the second's.
LEMMA RisingConcat ==
  ASSUME NEW s \in Seq(Packet), NEW t \in Seq(Packet), NEW c
  PROVE  Rising(s \o t, c) <=>
           /\ Rising(s, c) /\ Rising(t, c)
           /\ \A a \in HelloOf(s, c), b \in HelloOf(t, c) : a < b
  <1>1. /\ Len(s \o t) = Len(s) + Len(t)
        /\ \A i \in 1..Len(s) : (s \o t)[i] = s[i]
        /\ \A i \in 1..Len(t) : (s \o t)[Len(s) + i] = t[i]
    BY ConcatPlaces
  <1>2. Len(s) \in Nat /\ Len(t) \in Nat
    OBVIOUS
  <1>3. \A i \in 1..Len(s) : i \in HelloAt(s \o t, c) <=> i \in HelloAt(s, c)
    BY <1>1, <1>2 DEF HelloAt
  <1>4. \A i \in 1..Len(t) : Len(s) + i \in HelloAt(s \o t, c) <=> i \in HelloAt(t, c)
    <2> TAKE i \in 1..Len(t)
    <2>1. Len(s) + i \in 1..Len(s \o t)
      BY <1>1, <1>2
    <2> QED BY <2>1, <1>1 DEF HelloAt
  <1>5. HelloAt(s, c) \subseteq 1..Len(s) /\ HelloAt(t, c) \subseteq 1..Len(t)
        /\ HelloAt(s \o t, c) \subseteq 1..Len(s \o t)
    BY DEF HelloAt
  <1>6. ASSUME Rising(s \o t, c)
        PROVE  /\ Rising(s, c) /\ Rising(t, c)
               /\ \A a \in HelloOf(s, c), b \in HelloOf(t, c) : a < b
    <2>1. Rising(s, c)
      BY <1>6, <1>1, <1>3, <1>5 DEF Rising
    <2>2. ASSUME NEW i \in HelloAt(t, c), NEW j \in HelloAt(t, c), i < j
          PROVE  t[i].n < t[j].n
      <3>1. i \in 1..Len(t) /\ j \in 1..Len(t)
        BY <1>5
      <3> DEFINE a == Len(s) + i
                 b == Len(s) + j
      <3>2. a \in HelloAt(s \o t, c) /\ b \in HelloAt(s \o t, c) 
        BY <3>1, <1>4
      <3>3. (s \o t)[a] = t[i] /\ (s \o t)[b] = t[j]
        BY <3>1, <1>1
      <3>4. a < b
        BY <3>1, <2>2, <1>2
      <3> HIDE DEF a, b
      <3> QED BY <3>2, <3>3, <3>4, <1>6 DEF Rising
    <2>3. ASSUME NEW i \in HelloAt(s, c), NEW j \in HelloAt(t, c)
          PROVE  s[i].n < t[j].n
      <3>1. i \in 1..Len(s) /\ j \in 1..Len(t)
        BY <1>5
      <3> DEFINE b == Len(s) + j
      <3>2. i \in HelloAt(s \o t, c) /\ b \in HelloAt(s \o t, c) 
        BY <3>1, <1>3, <1>4
      <3>3. (s \o t)[i] = s[i] /\ (s \o t)[b] = t[j]
        BY <3>1, <1>1
      <3>4. i < b
        BY <3>1, <1>2
      <3> HIDE DEF b
      <3> QED BY <3>2, <3>3, <3>4, <1>6 DEF Rising
    <2> QED BY <2>1, <2>2, <2>3 DEF Rising, HelloOf
  <1>7. ASSUME Rising(s, c), Rising(t, c),
               \A a \in HelloOf(s, c), b \in HelloOf(t, c) : a < b
        PROVE  Rising(s \o t, c)
    <2> SUFFICES ASSUME NEW i \in HelloAt(s \o t, c), NEW j \in HelloAt(s \o t, c), i < j
                 PROVE  (s \o t)[i].n < (s \o t)[j].n
      BY DEF Rising
    <2>0. i \in 1..(Len(s) + Len(t)) /\ j \in 1..(Len(s) + Len(t))
      BY <1>1, <1>5
    <2>1. CASE j \in 1..Len(s)
      <3>1. i \in 1..Len(s)
        BY <2>0, <2>1, <1>2
      <3>2. i \in HelloAt(s, c) /\ j \in HelloAt(s, c)
        BY <3>1, <2>1, <1>3
      <3> QED BY <3>1, <2>1, <3>2, <1>7, <1>1 DEF Rising
    <2>2. CASE i \in 1..Len(s) /\ j \notin 1..Len(s)
      <3> DEFINE b == j - Len(s)
      <3>1. b \in 1..Len(t) /\ Len(s) + b = j
        BY <2>0, <2>2, <1>2, SecondPart
      <3> HIDE DEF b
      <3>2. i \in HelloAt(s, c) /\ b \in HelloAt(t, c)
        BY <3>1, <2>2, <1>3, <1>4
      <3>3. (s \o t)[i] = s[i] /\ (s \o t)[j] = t[b]
        BY <3>1, <2>2, <1>1
      <3>4. s[i].n \in HelloOf(s, c) /\ t[b].n \in HelloOf(t, c)
        BY <3>2 DEF HelloOf
      <3> QED BY <3>3, <3>4, <1>7
    <2>3. CASE i \notin 1..Len(s)
      <3>0. j \notin 1..Len(s)
        BY <2>0, <2>3, <1>2
      <3> DEFINE a == i - Len(s)
                 b == j - Len(s)
      <3>1. b \in 1..Len(t) /\ Len(s) + b = j
        BY <2>0, <3>0, <1>2, SecondPart
      <3>2. a \in 1..Len(t) /\ Len(s) + a = i
        BY <2>0, <2>3, <1>2, SecondPart
      <3>5. a < b
        BY <2>0, <1>2
      <3> HIDE DEF a, b
      <3>3. a \in HelloAt(t, c) /\ b \in HelloAt(t, c)
        BY <3>1, <3>2, <1>4
      <3>4. (s \o t)[i] = t[a] /\ (s \o t)[j] = t[b]
        BY <3>1, <3>2, <1>1
      <3> QED BY <3>3, <3>4, <3>5, <1>7 DEF Rising
    <2> QED BY <2>1, <2>2, <2>3
  <1> QED BY <1>6, <1>7

\* The requests of a single packet.
LEMMA HelloOne ==
  ASSUME NEW p \in Packet, NEW c
  PROVE  /\ Rising(<<p>>, c)
         /\ p.seq = c /\ p.kind = "hello" => HelloOf(<<p>>, c) = {p.n}
         /\ ~(p.seq = c /\ p.kind = "hello") => HelloOf(<<p>>, c) = {}
  <1>1. HelloAt(<<p>>, c) \subseteq {1} /\ <<p>>[1] = p
    BY DEF HelloAt
  <1>2. 1 \in HelloAt(<<p>>, c) <=> (p.seq = c /\ p.kind = "hello")
    BY DEF HelloAt
  <1> QED BY <1>1, <1>2 DEF Rising, HelloOf

\* Two lines with the same requests in order stand for the same promise.
LEMMA SamePromise ==
  ASSUME NEW l, NEW m, NEW a, NEW r, NEW c, OldestFirst(l, a, r, c),
         HelloOf(m, c) = HelloOf(l, c), Rising(l, c) => Rising(m, c)
  PROVE  OldestFirst(m, a, r, c)
  BY DEF OldestFirst

\* The answers a client got are no more than its requests.
LEMMA NoMoreAnswers ==
  ASSUME NEW l, NEW a \in Seq(Nat), NEW r \in Seq(Nat), NEW c, OldestFirst(l, a, r, c)
  PROVE  Len(r) <= Len(a)
  <1>1. Len(a) \in Nat /\ Len(r) \in Nat
    OBVIOUS
  <1>2. \A k \in 1..Len(r) : k <= Len(a)
    BY DEF OldestFirst
  <1>3. CASE Len(r) = 0
    BY <1>1, <1>3
  <1>4. CASE Len(r) # 0
    <2>1. Len(r) \in 1..Len(r)
      BY <1>1, <1>4
    <2> QED BY <1>2, <2>1
  <1> QED BY <1>3, <1>4

\* A request newer than all others goes to the end of the line.
LEMMA PromiseAsk ==
  ASSUME NEW l \in Seq(Packet), NEW p \in Packet, NEW a \in Seq(Nat), NEW r \in Seq(Nat),
         NEW c, OldestFirst(l, a, r, c), p.seq = c, p.kind = "hello",
         \A n \in HelloOf(l, c) : n < p.n
  PROVE  OldestFirst(l \o <<p>>, Append(a, p.n), r, c)
  <1>1. <<p>> \in Seq(Packet) /\ p.n \in Nat
    BY DEF Packet
  <1> DEFINE n == p.n
             b == Append(a, n)
  <1>2. HelloOf(<<p>>, c) = {n} /\ Rising(<<p>>, c)
    BY HelloOne
  <1>3. HelloOf(l \o <<p>>, c) = HelloOf(l, c) \cup {n}
    <2>1. HelloOf(l \o <<p>>, c) = HelloOf(l, c) \cup HelloOf(<<p>>, c)
      BY <1>1, HelloConcat
    <2> QED BY <2>1, <1>2
  <1>4. Rising(l \o <<p>>, c)
    <2>1. Rising(l, c)
      BY DEF OldestFirst
    <2>2. \A x \in HelloOf(l, c), y \in HelloOf(<<p>>, c) : x < y
      BY <1>2
    <2> QED BY <2>1, <2>2, <1>1, <1>2, RisingConcat
  <1>5. Len(r) <= Len(a) /\ Len(r) \in Nat /\ Len(a) \in Nat
    BY NoMoreAnswers
  <1>6. Len(b) = Len(a) + 1 /\ b[Len(a) + 1] = n /\ \A k \in 1..Len(a) : b[k] = a[k]
    BY <1>1
  <1> HIDE DEF n, b
  <1>7. \A k \in 1..Len(r) : k <= Len(b) /\ r[k] = b[k]
    <2> TAKE k \in 1..Len(r)
    <2>1. k <= Len(a) /\ r[k] = a[k]
      BY DEF OldestFirst
    <2>2. k \in 1..Len(a)
      BY <2>1, <1>5
    <2> QED BY <2>1, <2>2, <1>5, <1>6
  <1>8. { b[k] : k \in (Len(r) + 1)..Len(b) } =
          { a[k] : k \in (Len(r) + 1)..Len(a) } \cup {n}
    <2>1. \A k \in (Len(r) + 1)..Len(a) : k \in (Len(r) + 1)..Len(b) /\ b[k] = a[k]
      BY <1>5, <1>6
    <2>2. \A k \in (Len(r) + 1)..Len(b) :
            \/ k \in (Len(r) + 1)..Len(a) /\ b[k] = a[k]
            \/ k = Len(a) + 1 /\ b[k] = n
      BY <1>5, <1>6
    <2>3. Len(a) + 1 \in (Len(r) + 1)..Len(b) /\ b[Len(a) + 1] = n
      BY <1>5, <1>6
    <2> QED BY <2>1, <2>2, <2>3
  <1>9. HelloOf(l, c) = { a[k] : k \in (Len(r) + 1)..Len(a) }
    BY DEF OldestFirst
  <1>10. HelloOf(l \o <<p>>, c) = { b[k] : k \in (Len(r) + 1)..Len(b) }
    BY <1>3, <1>8, <1>9
  <1>11. OldestFirst(l \o <<p>>, b, r, c)
    BY <1>4, <1>7, <1>10 DEF OldestFirst
  <1> QED BY <1>11 DEF b, n

\* The first packet of the line is the oldest request that has no answer.
LEMMA PromiseReply ==
  ASSUME NEW m \in Seq(Packet), NEW p \in Packet, NEW a \in Seq(Nat), NEW r \in Seq(Nat),
         NEW c, OldestFirst(<<p>> \o m, a, r, c), p.seq = c, p.kind = "hello",
         \A i, j \in 1..Len(a) : i < j => a[i] < a[j]
  PROVE  /\ Len(r) < Len(a)
         /\ p.n = a[Len(r) + 1]
         /\ OldestFirst(m, a, Append(r, p.n), c)
  <1>1. <<p>> \in Seq(Packet) /\ p.n \in Nat
    BY DEF Packet
  <1> DEFINE n == p.n
             s == Append(r, n)
             L == Len(r)
             A == Len(a)
  <1>2. HelloOf(<<p>>, c) = {n} /\ Rising(<<p>>, c)
    BY HelloOne
  <1>3. HelloOf(<<p>> \o m, c) = {n} \cup HelloOf(m, c)
    <2>1. HelloOf(<<p>> \o m, c) = HelloOf(<<p>>, c) \cup HelloOf(m, c)
      BY <1>1, HelloConcat
    <2> QED BY <2>1, <1>2
  <1>4. Rising(<<p>> \o m, c)
    BY DEF OldestFirst
  <1>5. Rising(m, c) /\ \A y \in HelloOf(m, c) : n < y
    BY <1>1, <1>2, <1>4, RisingConcat
  <1>6. L <= A /\ L \in Nat /\ A \in Nat
    BY NoMoreAnswers
  <1>7. Len(s) = L + 1 /\ s[L + 1] = n /\ \A k \in 1..L : s[k] = r[k]
    BY <1>1
  <1>8. {n} \cup HelloOf(m, c) = { a[k] : k \in (L + 1)..A }
    BY <1>3 DEF OldestFirst
  <1>9. \A k \in 1..A : a[k] \in Nat
    OBVIOUS
  <1>10. \A k \in 1..L : k <= A /\ r[k] = a[k]
    BY DEF OldestFirst
  <1>a. n \in Nat
    BY <1>1
  <1> HIDE DEF n, s, L, A
  <1>11. PICK k \in (L + 1)..A : n = a[k]
    BY <1>8
  <1>12. L < A /\ L + 1 \in (L + 1)..A /\ L + 1 \in 1..A /\ k \in 1..A
    BY <1>6, <1>11
  <1>13. a[L + 1] = n
    <2>1. a[L + 1] \in {n} \cup HelloOf(m, c)
      BY <1>8, <1>12
    <2>2. CASE k = L + 1
      BY <2>2, <1>11
    <2>3. CASE k # L + 1
      <3>1. L + 1 < k
        BY <2>3, <1>6, <1>11
      <3>2. a[L + 1] < n
        BY <3>1, <1>11, <1>12 DEF A
      <3>3. ~(n < a[L + 1])
        BY <3>2, <1>9, <1>12, <1>a
      <3>4. a[L + 1] = n
        BY <2>1, <3>3, <1>5
      <3> QED BY <3>4
    <2> QED BY <2>2, <2>3
  <1>14. HelloOf(m, c) = { a[i] : i \in (L + 1 + 1)..A }
    <2>1. ASSUME NEW i \in (L + 1 + 1)..A PROVE a[i] \in HelloOf(m, c)
      <3>1. i \in (L + 1)..A /\ i \in 1..A /\ L + 1 < i
        BY <1>6
      <3>2. n < a[i]
        BY <3>1, <1>12, <1>13 DEF A
      <3>3. a[i] # n
        BY <3>1, <3>2, <1>9, <1>a
      <3> QED BY <3>1, <3>3, <1>8
    <2>2. ASSUME NEW y \in HelloOf(m, c) PROVE \E i \in (L + 1 + 1)..A : y = a[i]
      <3>1. n < y
        BY <1>5
      <3>2. PICK i \in (L + 1)..A : y = a[i]
        BY <1>8
      <3>3. i # L + 1
        BY <3>1, <3>2, <1>13, <1>a
      <3>4. i \in (L + 1 + 1)..A
        BY <3>3, <1>6
      <3> QED BY <3>2, <3>4
    <2> QED BY <2>1, <2>2
  <1>15. \A i \in 1..Len(s) : i <= A /\ s[i] = a[i]
    <2> TAKE i \in 1..Len(s)
    <2>1. CASE i \in 1..L
      BY <2>1, <1>7, <1>10
    <2>2. CASE i = L + 1
      BY <2>2, <1>7, <1>12, <1>13, <1>6
    <2> QED BY <2>1, <2>2, <1>6, <1>7
  <1>16. OldestFirst(m, a, s, c)
    BY <1>5, <1>14, <1>15, <1>7 DEF OldestFirst, A
  <1> QED BY <1>12, <1>13, <1>16 DEF n, s, L, A

-----------------------------------------------------------------------------
(* The inductive invariant of the order                                    *)

\* Only answers travel back.
AnswersOut ==
  \A x \in {"Cache", "Send", "SendPrepare"} : \A i \in 1..Len(q[x]) : q[x][i].kind = "hello"

\* A packet is one of the frames read from its client so far.
NumberInv == \A x \in QName : \A i \in 1..Len(q[x]) : q[x][i].n <= rx[q[x][i].seq]

\* Requests are numbered upwards, and a client that was not accepted yet has
\* none.
AskedInv ==
  /\ \A c \in Conns : \A i \in 1..Len(asked[c]) : asked[c][i] <= rx[c]
  /\ \A c \in Conns : \A i, j \in 1..Len(asked[c]) : i < j => asked[c][i] < asked[c][j]
  /\ \A c \in Conns \ born : asked[c] = <<>> /\ replied[c] = <<>>

\* The frames a client sent and those still in its buffer are in the bound.
FramesInv ==
  /\ \A c \in Conns : rx[c] <= MaxFrames[c]
  /\ netPc = "unpack" => rx[cur] + Len(batch) <= MaxFrames[cur]

FifoInv == AnswersOut /\ NumberInv /\ AskedInv /\ FramesInv /\ EchoFifo

\* The rest of a queue is part of it.
LEMMA RestType ==
  ASSUME NEW s \in Seq(Packet), NEW k \in Nat
  PROVE  /\ SubSeq(s, k + 1, Len(s)) \in Seq(Packet)
         /\ \A i \in 1..Len(SubSeq(s, k + 1, Len(s))) :
              k + i \in 1..Len(s) /\ SubSeq(s, k + 1, Len(s))[i] = s[k + i]
  <1>1. Len(s) \in Nat /\ \A i \in (k + 1)..Len(s) : s[i] \in Packet
    OBVIOUS
  <1> DEFINE t == SubSeq(s, k + 1, Len(s))
  <1>2. /\ t \in Seq(Packet)
        /\ Len(t) = IF k + 1 <= Len(s) THEN Len(s) - (k + 1) + 1 ELSE 0
        /\ \A i \in 1..(Len(s) - (k + 1) + 1) : t[i] = s[k + 1 + i - 1]
    <2>1. k + 1 \in Int /\ Len(s) \in Int
      BY <1>1
    <2> QED BY <2>1, <1>1, SubSeqProperties
  <1> HIDE DEF t
  <1>3. ASSUME NEW i \in 1..Len(t) PROVE k + i \in 1..Len(s) /\ t[i] = s[k + i]
    <2>1. i \in 1..(Len(s) - (k + 1) + 1) /\ k + 1 + i - 1 = k + i /\ k + i \in 1..Len(s)
      BY <1>1, <1>2
    <2> QED BY <2>1, <1>2
  <1> QED BY <1>2, <1>3 DEF t

\* Nothing is left once the loop went through the queue.
LEMMA RestEmpty ==
  ASSUME NEW s \in Seq(Packet), NEW k \in Nat, k >= Len(s)
  PROVE  SubSeq(s, k + 1, Len(s)) = <<>>
  <1>1. k + 1 \in Int /\ Len(s) \in Int /\ Len(s) < k + 1
    OBVIOUS
  <1> QED BY <1>1, SubSeqEmpty

\* The parts of the line are sequences of packets.
LEMMA LineType ==
  ASSUME TypeOK
  PROVE  /\ \A x \in QName : q[x] \in Seq(Packet)
         /\ Unsent \in Seq(Packet) /\ Unhandled \in Seq(Packet)
         /\ q["Recv"] \o q["RecvPrepare"] \in Seq(Packet)
         /\ Unhandled \o (q["Recv"] \o q["RecvPrepare"]) \in Seq(Packet)
         /\ q["SendPrepare"] \o (Unhandled \o (q["Recv"] \o q["RecvPrepare"])) \in Seq(Packet)
         /\ q["Send"] \o (q["SendPrepare"] \o (Unhandled \o (q["Recv"] \o q["RecvPrepare"])))
              \in Seq(Packet)
         /\ InPipeline \in Seq(Packet)
  <1>1. /\ \A x \in QName : q[x] \in Seq(Packet)
        /\ sent \in Nat /\ handled \in Nat
    BY DEF TypeOK
  <1>2. /\ q["Cache"] \in Seq(Packet) /\ q["Logic"] \in Seq(Packet)
        /\ q["Recv"] \in Seq(Packet) /\ q["RecvPrepare"] \in Seq(Packet)
        /\ q["Send"] \in Seq(Packet) /\ q["SendPrepare"] \in Seq(Packet)
    BY <1>1 DEF QName
  <1>3. Unsent \in Seq(Packet)
    <2>1. SubSeq(q["Cache"], sent + 1, Len(q["Cache"])) \in Seq(Packet)
      BY <1>1, <1>2, RestType
    <2>2. <<>> \in Seq(Packet)
      OBVIOUS
    <2> QED BY <2>1, <2>2 DEF Unsent
  <1>4. Unhandled \in Seq(Packet)
    <2>1. SubSeq(q["Logic"], handled + 1, Len(q["Logic"])) \in Seq(Packet)
      BY <1>1, <1>2, RestType
    <2>2. <<>> \in Seq(Packet)
      OBVIOUS
    <2> QED BY <2>1, <2>2 DEF Unhandled
  <1>5. q["Recv"] \o q["RecvPrepare"] \in Seq(Packet)
    BY <1>2, ConcatProperties
  <1>6. Unhandled \o (q["Recv"] \o q["RecvPrepare"]) \in Seq(Packet)
    BY <1>4, <1>5, ConcatProperties
  <1>7. q["SendPrepare"] \o (Unhandled \o (q["Recv"] \o q["RecvPrepare"])) \in Seq(Packet)
    BY <1>2, <1>6, ConcatProperties
  <1>8. q["Send"] \o (q["SendPrepare"] \o (Unhandled \o (q["Recv"] \o q["RecvPrepare"])))
              \in Seq(Packet)
    BY <1>2, <1>7, ConcatProperties
  <1>9. InPipeline \in Seq(Packet)
    BY <1>3, <1>8, ConcatProperties DEF InPipeline
  <1> QED BY <1>1, <1>3, <1>4, <1>5, <1>6, <1>7, <1>8, <1>9

\* A request in the rest of a queue is in the queue.
LEMMA RestHello ==
  ASSUME NEW s \in Seq(Packet), NEW k \in Nat, NEW c
  PROVE  HelloOf(SubSeq(s, k + 1, Len(s)), c) \subseteq HelloOf(s, c)
  <1> DEFINE t == SubSeq(s, k + 1, Len(s))
  <1>1. \A i \in 1..Len(t) : k + i \in 1..Len(s) /\ t[i] = s[k + i]
    BY RestType
  <1> HIDE DEF t
  <1>2. HelloOf(t, c) \subseteq HelloOf(s, c)
    BY <1>1 DEF HelloOf, HelloAt
  <1> QED BY <1>2 DEF t

\* Every request in the line is in one of the queues.
LEMMA LineHello ==
  ASSUME TypeOK, NEW c, NEW n \in HelloOf(InPipeline, c)
  PROVE  \E x \in QName : n \in HelloOf(q[x], c)
  <1> DEFINE r1 == q["Recv"] \o q["RecvPrepare"]
             r2 == Unhandled \o r1
             r3 == q["SendPrepare"] \o r2
             r4 == q["Send"] \o r3
  <1>1. /\ \A x \in QName : q[x] \in Seq(Packet)
        /\ Unsent \in Seq(Packet) /\ Unhandled \in Seq(Packet)
        /\ r1 \in Seq(Packet) /\ r2 \in Seq(Packet)
        /\ r3 \in Seq(Packet) /\ r4 \in Seq(Packet)
    BY LineType
  <1>2. /\ "Cache" \in QName /\ "Logic" \in QName /\ "Recv" \in QName
        /\ "RecvPrepare" \in QName /\ "Send" \in QName /\ "SendPrepare" \in QName
    BY DEF QName
  <1>3. InPipeline = Unsent \o r4
    BY DEF InPipeline
  <1>4. HelloOf(r1, c) = HelloOf(q["Recv"], c) \cup HelloOf(q["RecvPrepare"], c)
    BY <1>1, <1>2, HelloConcat
  <1>e. r1 = q["Recv"] \o q["RecvPrepare"] /\ r2 = Unhandled \o r1
        /\ r3 = q["SendPrepare"] \o r2 /\ r4 = q["Send"] \o r3
    OBVIOUS
  <1> HIDE DEF r1, r2, r3, r4
  <1>5. HelloOf(r2, c) = HelloOf(Unhandled, c) \cup HelloOf(r1, c)
    <2>1. HelloOf(Unhandled \o r1, c) = HelloOf(Unhandled, c) \cup HelloOf(r1, c)
      BY <1>1, HelloConcat
    <2> QED BY <2>1, <1>e
  <1>6. HelloOf(r3, c) = HelloOf(q["SendPrepare"], c) \cup HelloOf(r2, c)
    <2>1. HelloOf(q["SendPrepare"] \o r2, c) = HelloOf(q["SendPrepare"], c) \cup HelloOf(r2, c)
      BY <1>1, <1>2, HelloConcat
    <2> QED BY <2>1, <1>e
  <1>7. HelloOf(r4, c) = HelloOf(q["Send"], c) \cup HelloOf(r3, c)
    <2>1. HelloOf(q["Send"] \o r3, c) = HelloOf(q["Send"], c) \cup HelloOf(r3, c)
      BY <1>1, <1>2, HelloConcat
    <2> QED BY <2>1, <1>e
  <1>8. HelloOf(InPipeline, c) = HelloOf(Unsent, c) \cup HelloOf(r4, c)
    BY <1>1, <1>3, HelloConcat
  <1>9. HelloOf(<<>>, c) = {}
    BY DEF HelloOf, HelloAt
  <1>10. HelloOf(Unsent, c) \subseteq HelloOf(q["Cache"], c)
    <2>1. HelloOf(SubSeq(q["Cache"], sent + 1, Len(q["Cache"])), c) \subseteq HelloOf(q["Cache"], c)
      BY <1>1, <1>2, RestHello DEF TypeOK
    <2> QED BY <2>1, <1>9 DEF Unsent
  <1>11. HelloOf(Unhandled, c) \subseteq HelloOf(q["Logic"], c)
    <2>1. HelloOf(SubSeq(q["Logic"], handled + 1, Len(q["Logic"])), c) \subseteq HelloOf(q["Logic"], c)
      BY <1>1, <1>2, RestHello DEF TypeOK
    <2> QED BY <2>1, <1>9 DEF Unhandled
  <1>12. \/ n \in HelloOf(q["Cache"], c) \/ n \in HelloOf(q["Send"], c)
         \/ n \in HelloOf(q["SendPrepare"], c) \/ n \in HelloOf(q["Logic"], c)
         \/ n \in HelloOf(q["Recv"], c) \/ n \in HelloOf(q["RecvPrepare"], c)
    BY <1>4, <1>5, <1>6, <1>7, <1>8, <1>10, <1>11
  <1> QED BY <1>2, <1>12

\* The send loop has nothing to do outside its two states.
LEMMA NothingUnsent ==
  ASSUME TypeOK, CounterInv, netPc # "send"
  PROVE  Unsent = <<>>
  <1>1. q["Cache"] \in Seq(Packet) /\ sent \in Nat
    BY DEF TypeOK, QName
  <1>2. CASE netPc = "release"
    BY <1>2 DEF Unsent
  <1>3. CASE netPc # "release"
    <2>1. q["Cache"] = <<>>
      BY <1>3 DEF CounterInv
    <2>2. SubSeq(q["Cache"], sent + 1, Len(q["Cache"])) = <<>>
      BY <2>1, <1>1, RestEmpty
    <2> QED BY <2>2 DEF Unsent
  <1> QED BY <1>2, <1>3

\* The logic loop has nothing to do outside its states.
LEMMA NothingUnhandled ==
  ASSUME TypeOK, CounterInv, logicPc \notin {"handle", "flush", "cmd"}
  PROVE  Unhandled = <<>>
  <1>1. q["Logic"] \in Seq(Packet) /\ handled \in Nat
    BY DEF TypeOK, QName
  <1>2. CASE logicPc \in {"release", "lastFlush", "lastCmd"}
    BY <1>2 DEF Unhandled
  <1>3. CASE logicPc \in {"check", "copy"}
    <2>1. q["Logic"] = <<>>
      BY <1>3 DEF CounterInv
    <2>2. SubSeq(q["Logic"], handled + 1, Len(q["Logic"])) = <<>>
      BY <2>1, <1>1, RestEmpty
    <2> QED BY <2>2 DEF Unhandled
  <1> QED BY <1>2, <1>3 DEF TypeOK

-----------------------------------------------------------------------------
(* What the steps do to the line                                           *)

\* The same after a step: the rests are sequences of packets, and empty
\* outside the loops.
LEMMA RestsAfter ==
  ASSUME TypeOK', CounterInv'
  PROVE  /\ Unsent' \in Seq(Packet) /\ Unhandled' \in Seq(Packet)
         /\ netPc' # "send" => Unsent' = <<>>
         /\ logicPc' \notin {"handle", "flush", "cmd"} => Unhandled' = <<>>
  <1>1. /\ q'["Cache"] \in Seq(Packet) /\ q'["Logic"] \in Seq(Packet)
        /\ sent' \in Nat /\ handled' \in Nat /\ <<>> \in Seq(Packet)
        /\ logicPc' \in {"check", "copy", "handle", "flush", "cmd", "lastFlush",
                         "lastCmd", "release"}
    BY DEF TypeOK, QName
  <1> DEFINE c == q'["Cache"]
             l == q'["Logic"]
             u == SubSeq(c, sent' + 1, Len(c))
             h == SubSeq(l, handled' + 1, Len(l))
  <1>2. u \in Seq(Packet) /\ h \in Seq(Packet)
    BY <1>1, RestType
  <1>3. ASSUME Len(c) = 0 PROVE u = <<>>
    <2>1. c \in Seq(Packet) /\ sent' \in Nat /\ sent' >= Len(c)
      BY <1>1, <1>3
    <2> HIDE DEF c
    <2> QED BY <2>1, RestEmpty
  <1>4. ASSUME Len(l) = 0 PROVE h = <<>>
    <2>1. l \in Seq(Packet) /\ handled' \in Nat /\ handled' >= Len(l)
      BY <1>1, <1>4
    <2> HIDE DEF l
    <2> QED BY <2>1, RestEmpty
  <1>5. /\ netPc' \notin {"send", "release"} => Len(c) = 0
        /\ logicPc' \in {"check", "copy"} => Len(l) = 0
    BY DEF CounterInv
  <1>6. /\ Unsent' = IF netPc' = "release" THEN <<>> ELSE u
        /\ Unhandled' = IF logicPc' \in {"release", "lastFlush", "lastCmd"} THEN <<>> ELSE h
    BY DEF Unsent, Unhandled
  <1> HIDE DEF c, l, u, h
  <1> QED BY <1>1, <1>2, <1>3, <1>4, <1>5, <1>6

\* Concatenation of lines is associative.
LEMMA LineAssociative ==
  ASSUME NEW s \in Seq(Packet), NEW t \in Seq(Packet), NEW u \in Seq(Packet)
  PROVE  (s \o t) \o u = s \o (t \o u)
  BY ConcatAssociative

\* Nothing before or behind a line is the line.
LEMMA LineEmpty ==
  ASSUME NEW s \in Seq(Packet)
  PROVE  s \o <<>> = s /\ <<>> \o s = s
  BY ConcatEmptySeq

\* CopyFrom on whole queues.
LEMMA CopyFromConcat ==
  ASSUME TypeOK, CounterInv, NEW x \in QName, NEW y \in QName, x # y,
         CopyFrom(x, y)
  PROVE  /\ \A z \in QName \ {x, y} : q'[z] = q[z]
         /\ q'[x] = q[x] \o q[y]
         /\ q'[y] = <<>>
  BY CopyFromPlaces

\* A step that leaves the queues and the two loops' rests alone leaves the
\* line alone.
LEMMA QuietLine ==
  ASSUME q' = q, Unsent' = Unsent, Unhandled' = Unhandled
  PROVE  InPipeline' = InPipeline
  BY DEF InPipeline

\* PacketRecvPrepare moves packets between neighbouring places.
LEMMA RecvPrepareLine ==
  ASSUME TypeOK, CounterInv, CopyFrom("Recv", "RecvPrepare"),
         Unsent' = Unsent, Unhandled' = Unhandled
  PROVE  InPipeline' = InPipeline
  <1>1. "Recv" \in QName /\ "RecvPrepare" \in QName /\ "Send" \in QName
        /\ "SendPrepare" \in QName
    BY DEF QName
  <1>2. /\ q'["Recv"] = q["Recv"] \o q["RecvPrepare"] /\ q'["RecvPrepare"] = <<>>
        /\ q'["Send"] = q["Send"] /\ q'["SendPrepare"] = q["SendPrepare"]
    <2>1. /\ \A z \in QName \ {"Recv", "RecvPrepare"} : q'[z] = q[z]
          /\ q'["Recv"] = q["Recv"] \o q["RecvPrepare"]
          /\ q'["RecvPrepare"] = <<>>
      BY <1>1, CopyFromConcat
    <2> QED BY <2>1, <1>1
  <1>3. (q["Recv"] \o q["RecvPrepare"]) \o <<>> = q["Recv"] \o q["RecvPrepare"]
    BY LineType, LineEmpty
  <1> QED BY <1>2, <1>3 DEF InPipeline

\* PacketSendPrepare does, too.
LEMMA SendPrepareLine ==
  ASSUME TypeOK, CounterInv, CopyFrom("Send", "SendPrepare"),
         Unsent' = Unsent, Unhandled' = Unhandled
  PROVE  InPipeline' = InPipeline
  <1>1. "Recv" \in QName /\ "RecvPrepare" \in QName /\ "Send" \in QName
        /\ "SendPrepare" \in QName
    BY DEF QName
  <1>2. /\ q'["Send"] = q["Send"] \o q["SendPrepare"] /\ q'["SendPrepare"] = <<>>
        /\ q'["Recv"] = q["Recv"] /\ q'["RecvPrepare"] = q["RecvPrepare"]
    <2>1. /\ \A z \in QName \ {"Send", "SendPrepare"} : q'[z] = q[z]
          /\ q'["Send"] = q["Send"] \o q["SendPrepare"]
          /\ q'["SendPrepare"] = <<>>
      BY <1>1, CopyFromConcat
    <2> QED BY <2>1, <1>1
  <1> DEFINE rest == Unhandled \o (q["Recv"] \o q["RecvPrepare"])
  <1>3. rest \in Seq(Packet) /\ q["Send"] \in Seq(Packet) /\ q["SendPrepare"] \in Seq(Packet)
    BY <1>1, LineType
  <1>4. InPipeline = Unsent \o (q["Send"] \o (q["SendPrepare"] \o rest))
    BY DEF InPipeline
  <1>5. InPipeline' = Unsent \o ((q["Send"] \o q["SendPrepare"]) \o (<<>> \o rest))
    BY <1>2 DEF InPipeline
  <1> HIDE DEF rest
  <1>6. <<>> \o rest = rest
    BY <1>3, LineEmpty
  <1>7. (q["Send"] \o q["SendPrepare"]) \o rest = q["Send"] \o (q["SendPrepare"] \o rest)
    BY <1>3, LineAssociative
  <1> QED BY <1>4, <1>5, <1>6, <1>7

\* PacketSendPrepareCache moves the whole send queue into the empty cache,
\* where the send loop starts at the front.
LEMMA CacheLine ==
  ASSUME TypeOK, CounterInv, CopyFrom("Cache", "Send"), Unsent = <<>>,
         Unsent' = q'["Cache"], q["Cache"] = <<>>, Unhandled' = Unhandled
  PROVE  InPipeline' = InPipeline
  <1>1. "Recv" \in QName /\ "RecvPrepare" \in QName /\ "Send" \in QName
        /\ "SendPrepare" \in QName /\ "Cache" \in QName
    BY DEF QName
  <1>2. /\ q'["Cache"] = q["Cache"] \o q["Send"] /\ q'["Send"] = <<>>
        /\ q'["Recv"] = q["Recv"] /\ q'["RecvPrepare"] = q["RecvPrepare"]
        /\ q'["SendPrepare"] = q["SendPrepare"]
    <2>1. /\ \A z \in QName \ {"Cache", "Send"} : q'[z] = q[z]
          /\ q'["Cache"] = q["Cache"] \o q["Send"]
          /\ q'["Send"] = <<>>
      BY <1>1, CopyFromConcat
    <2> QED BY <2>1, <1>1
  <1> DEFINE rest == q["SendPrepare"] \o (Unhandled \o (q["Recv"] \o q["RecvPrepare"]))
  <1>3. rest \in Seq(Packet) /\ q["Send"] \in Seq(Packet) /\ q["Send"] \o rest \in Seq(Packet)
    BY <1>1, LineType
  <1>4. InPipeline = <<>> \o (q["Send"] \o rest)
    BY DEF InPipeline
  <1>5. InPipeline' = q'["Cache"] \o (<<>> \o rest)
    BY <1>2 DEF InPipeline
  <1> HIDE DEF rest
  <1>6. <<>> \o rest = rest /\ <<>> \o (q["Send"] \o rest) = q["Send"] \o rest
    BY <1>3, LineEmpty
  <1>7. q'["Cache"] = q["Send"]
    BY <1>2, <1>3, LineEmpty
  <1> QED BY <1>4, <1>5, <1>6, <1>7

\* CopyPacketsFromNetToLogic moves the whole receive queue into the logic
\* queue, where the logic loop starts at the front.
LEMMA LogicLine ==
  ASSUME TypeOK, Unhandled = <<>>, Unhandled' = q["Recv"], q'["Recv"] = <<>>,
         q'["RecvPrepare"] = q["RecvPrepare"], q'["Send"] = q["Send"],
         q'["SendPrepare"] = q["SendPrepare"], Unsent' = Unsent
  PROVE  InPipeline' = InPipeline
  <1>1. "Recv" \in QName /\ "RecvPrepare" \in QName
    BY DEF QName
  <1>2. /\ <<>> \o q["RecvPrepare"] = q["RecvPrepare"]
        /\ <<>> \o (q["Recv"] \o q["RecvPrepare"]) = q["Recv"] \o q["RecvPrepare"]
    BY <1>1, LineType, LineEmpty
  <1> QED BY <1>2 DEF InPipeline

\* A frame that is unpacked goes to the end of the line.
LEMMA AskLine ==
  ASSUME TypeOK, NEW p \in Packet, q'["RecvPrepare"] = Append(q["RecvPrepare"], p),
         q'["Recv"] = q["Recv"], q'["Send"] = q["Send"],
         q'["SendPrepare"] = q["SendPrepare"], Unsent' = Unsent, Unhandled' = Unhandled
  PROVE  InPipeline' = InPipeline \o <<p>>
  <1> DEFINE R == q["Recv"]
             S == q["Send"]
             P == q["SendPrepare"]
             r0 == q["RecvPrepare"]
             r1 == R \o r0
             r2 == Unhandled \o r1
             r3 == P \o r2
             r4 == S \o r3
             e == <<p>>
  <1>1. /\ R \in Seq(Packet) /\ S \in Seq(Packet)
        /\ P \in Seq(Packet) /\ r0 \in Seq(Packet)
        /\ Unsent \in Seq(Packet) /\ Unhandled \in Seq(Packet)
        /\ r1 \in Seq(Packet) /\ r2 \in Seq(Packet)
        /\ r3 \in Seq(Packet) /\ r4 \in Seq(Packet)
    BY LineType DEF QName
  <1>2. e \in Seq(Packet)
    OBVIOUS
  <1>3. Append(r0, p) = r0 \o e
    BY <1>1, AppendIsConcat
  <1>4. InPipeline = Unsent \o r4
    BY DEF InPipeline
  <1>5. InPipeline' = Unsent \o (S \o (P \o (Unhandled \o (R \o (r0 \o e)))))
    BY <1>3 DEF InPipeline
  <1>6. r1 = R \o r0 /\ r2 = Unhandled \o r1 /\ r3 = P \o r2 /\ r4 = S \o r3 /\ e = <<p>>
    OBVIOUS
  <1> HIDE DEF R, S, P, r0, r1, r2, r3, r4, e
  <1>a. R \in Seq(Packet) /\ r0 \in Seq(Packet)
    BY <1>1
  <1>b. Unhandled \in Seq(Packet) /\ r1 \in Seq(Packet)
    BY <1>1
  <1>c. P \in Seq(Packet) /\ r2 \in Seq(Packet)
    BY <1>1
  <1>d. S \in Seq(Packet) /\ r3 \in Seq(Packet)
    BY <1>1
  <1>e. Unsent \in Seq(Packet) /\ r4 \in Seq(Packet)
    BY <1>1
  <1>7. (R \o r0) \o e = R \o (r0 \o e)
    BY <1>a, <1>2, LineAssociative
  <1>8. (Unhandled \o r1) \o e = Unhandled \o (r1 \o e)
    BY <1>b, <1>2, LineAssociative
  <1>9. (P \o r2) \o e = P \o (r2 \o e)
    BY <1>c, <1>2, LineAssociative
  <1>10. (S \o r3) \o e = S \o (r3 \o e)
    BY <1>d, <1>2, LineAssociative
  <1>11. (Unsent \o r4) \o e = Unsent \o (r4 \o e)
    BY <1>e, <1>2, LineAssociative
  <1> QED BY <1>4, <1>5, <1>6, <1>7, <1>8, <1>9, <1>10, <1>11, ZenonT(60)

\* A packet given to PacketBufferSend was the first of the line.
LEMMA ReplyLine ==
  ASSUME TypeOK, TypeOK', CounterInv', NEW p \in Packet, Unsent = <<p>> \o Unsent', q' = q,
         Unhandled' = Unhandled
  PROVE  InPipeline = <<p>> \o InPipeline'
  <1> DEFINE r4 == q["Send"] \o (q["SendPrepare"] \o (Unhandled \o (q["Recv"] \o q["RecvPrepare"])))
             u == Unsent'
  <1>1. r4 \in Seq(Packet) /\ <<p>> \in Seq(Packet)
    BY LineType
  <1>2. u \in Seq(Packet)
    BY RestsAfter
  <1>3. InPipeline = (<<p>> \o u) \o r4 /\ InPipeline' = u \o r4
    BY DEF InPipeline
  <1> HIDE DEF r4, u
  <1> QED BY <1>1, <1>2, <1>3, LineAssociative

\* A packet that the logic loop comes to moves from the front of the logic
\* queue to the end of the prepared answers, or leaves the line.
LEMMA HandleLine ==
  ASSUME TypeOK, TypeOK', CounterInv', NEW p \in Packet, Unhandled = <<p>> \o Unhandled',
         Unsent' = Unsent, q'["Send"] = q["Send"], q'["Recv"] = q["Recv"],
         q'["RecvPrepare"] = q["RecvPrepare"]
  PROVE  \E a, b \in Seq(Packet) :
           /\ InPipeline = a \o (<<p>> \o b)
           /\ q'["SendPrepare"] = q["SendPrepare"] => InPipeline' = a \o b
           /\ \A r \in Packet : q'["SendPrepare"] = Append(q["SendPrepare"], r) =>
                                  InPipeline' = a \o (<<r>> \o b)
  <1> DEFINE r1 == q["Recv"] \o q["RecvPrepare"]
             h == Unhandled'
             b == h \o r1
             S == q["Send"]
             P == q["SendPrepare"]
             a == Unsent \o (S \o P)
  <1>1. /\ r1 \in Seq(Packet) /\ S \in Seq(Packet) /\ P \in Seq(Packet) /\ Unsent \in Seq(Packet)
    BY LineType DEF QName
  <1>2. h \in Seq(Packet) /\ <<p>> \in Seq(Packet)
    BY RestsAfter
  <1>3. b \in Seq(Packet)
    BY <1>1, <1>2, ConcatProperties
  <1>4. S \o P \in Seq(Packet)
    BY <1>1, ConcatProperties
  <1>5. a \in Seq(Packet)
    BY <1>1, <1>4, ConcatProperties
  <1>6. InPipeline = Unsent \o (S \o (P \o ((<<p>> \o h) \o r1)))
    BY DEF InPipeline
  <1>7. InPipeline' = Unsent \o (S \o (q'["SendPrepare"] \o b))
    BY DEF InPipeline
  <1>8. b = h \o r1 /\ a = Unsent \o (S \o P)
    OBVIOUS
  <1> HIDE DEF r1, h, b, a
  <1>9. ASSUME NEW w \in Seq(Packet) PROVE Unsent \o (S \o (P \o w)) = a \o w
    <2>1. (S \o P) \o w = S \o (P \o w)
      BY <1>1, LineAssociative, ZenonT(60)
    <2>2. (Unsent \o (S \o P)) \o w = Unsent \o ((S \o P) \o w)
      BY <1>1, <1>4, LineAssociative, ZenonT(60)
    <2> QED BY <2>1, <2>2, <1>8
  <1>10. InPipeline = a \o (<<p>> \o b)
    <2>1. (<<p>> \o h) \o r1 = <<p>> \o b
      BY <1>1, <1>2, <1>8, LineAssociative
    <2>2. <<p>> \o b \in Seq(Packet)
      BY <1>2, <1>3, ConcatProperties
    <2> QED BY <2>1, <2>2, <1>6, <1>9
  <1>11. ASSUME q'["SendPrepare"] = P PROVE InPipeline' = a \o b
    BY <1>11, <1>7, <1>9, <1>3
  <1>12. ASSUME NEW r \in Packet, q'["SendPrepare"] = Append(P, r)
         PROVE  InPipeline' = a \o (<<r>> \o b)
    <2>1. Append(P, r) = P \o <<r>> /\ <<r>> \in Seq(Packet)
      BY <1>1, AppendIsConcat
    <2>2. (P \o <<r>>) \o b = P \o (<<r>> \o b)
      BY <2>1, <1>1, <1>3, LineAssociative, ZenonT(60)
    <2>3. <<r>> \o b \in Seq(Packet)
      BY <2>1, <1>3, ConcatProperties
    <2>4. Unsent \o (S \o (P \o (<<r>> \o b))) = a \o (<<r>> \o b)
      BY <2>3, <1>9
    <2> QED BY <2>1, <2>2, <2>4, <1>7, <1>12
  <1> QED BY <1>3, <1>5, <1>10, <1>11, <1>12

-----------------------------------------------------------------------------
(* The order is kept                                                       *)

\* A step that leaves the line and the histories alone keeps the order.
LEMMA SameFifo ==
  ASSUME EchoFifo, InPipeline' = InPipeline, seqPool' \subseteq seqPool,
         asked' = asked, replied' = replied
  PROVE  EchoFifo'
  BY DEF EchoFifo

\* A step that leaves the queues alone keeps what is known of the packets.
LEMMA SamePackets ==
  ASSUME AnswersOut, NumberInv, q' = q, rx' = rx
  PROVE  AnswersOut' /\ NumberInv'
  BY DEF AnswersOut, NumberInv

\* A step that leaves the histories alone keeps what is known of them.
LEMMA SameAsked ==
  ASSUME AskedInv, UNCHANGED <<rx, asked, replied>>, born \subseteq born'
  PROVE  AskedInv'
  BY DEF AskedInv

\* CopyFrom keeps what is known of the packets.
LEMMA CopyFromPackets ==
  ASSUME TypeOK, CounterInv, AnswersOut, NumberInv, NEW x \in QName, NEW y \in QName, x # y,
         CopyFrom(x, y), rx' = rx,
         x \in {"Cache", "Send", "SendPrepare"} => y \in {"Cache", "Send", "SendPrepare"}
  PROVE  AnswersOut' /\ NumberInv'
  <1>1. \A z \in QName : \A i \in 1..Len(q'[z]) :
          \E w \in QName : \E j \in 1..Len(q[w]) : q'[z][i] = q[w][j]
    BY CopyFromPlaces
  <1>2. NumberInv'
    BY <1>1, SMTT(30) DEF NumberInv
  <1>3. /\ \A z \in QName \ {x, y} : q'[z] = q[z]
        /\ q'[y] = <<>>
        /\ \A i \in 1..Len(q[x]) : q'[x][i] = q[x][i]
        /\ \A i \in 1..Len(q'[x]) :
              \/ i \in 1..Len(q[x])
              \/ i - Len(q[x]) \in 1..Len(q[y]) /\ q'[x][i] = q[y][i - Len(q[x])]
    BY CopyFromPlaces
  <1>4. ASSUME NEW z \in {"Cache", "Send", "SendPrepare"}, NEW i \in 1..Len(q'[z])
        PROVE  q'[z][i].kind = "hello"
    <2>0. z \in QName
      BY DEF QName
    <2>1. CASE z \notin {x, y}
      BY <2>0, <2>1, <1>3, <1>4 DEF AnswersOut
    <2>2. CASE z = y
      BY <2>2, <1>3, <1>4
    <2>3. CASE z = x
      <3>1. y \in {"Cache", "Send", "SendPrepare"}
        BY <2>3
      <3>2. CASE i \in 1..Len(q[x])
        BY <3>2, <2>3, <1>3 DEF AnswersOut
      <3>3. CASE i \notin 1..Len(q[x])
        <4>1. PICK k \in 1..Len(q[y]) : q'[x][i] = q[y][k]
          BY <3>3, <2>3, <1>3
        <4> QED BY <4>1, <3>1, <2>3 DEF AnswersOut
      <3> QED BY <3>2, <3>3
    <2> QED BY <2>1, <2>2, <2>3
  <1> QED BY <1>2, <1>4 DEF AnswersOut

\* AddPacket appends one packet with the given values.
LEMMA AddPacketAppends ==
  ASSUME TypeOK, NEW x \in QName, NEW c \in Conns, NEW fd \in Fds,
         NEW kind \in {"hello", "other"}, NEW n \in Nat,
         AddPacket(x, c, fd, kind, n)
  PROVE  /\ \A z \in QName \ {x} : q'[z] = q[z]
         /\ \E p \in Packet : /\ q'[x] = Append(q[x], p)
                              /\ p.seq = c /\ p.kind = kind /\ p.n = n
  <1> DEFINE m == IF freeQueue = <<>> THEN HeapIndex ELSE Head(freeQueue)
             p == [seq |-> c, fd |-> fd, kind |-> kind, n |-> n, mem |-> m]
  <1>1. m \in Blocks \cup {HeapIndex}
    BY DEF TypeOK
  <1>2. p \in Packet /\ p.seq = c /\ p.kind = kind /\ p.n = n
    BY <1>1 DEF Packet
  <1>3. q' = [q EXCEPT ![x] = Append(@, p)]
    BY DEF AddPacket
  <1>4. q'[x] = Append(q[x], p) /\ \A z \in QName \ {x} : q'[z] = q[z]
    BY <1>3 DEF TypeOK
  <1> QED BY <1>2, <1>4

\* Releasing a packet keeps what is known of the others.
LEMMA ReleasePackets ==
  ASSUME TypeOK, AnswersOut, NumberInv, NEW x \in QName, q[x] # <<>>, ReleaseHead(x), rx' = rx
  PROVE  AnswersOut' /\ NumberInv' /\ \A z \in QName \ {x} : q'[z] = q[z]
  <1>1. q[x] \in Seq(Packet) /\ q' = [q EXCEPT ![x] = Tail(@)] /\ q \in [QName -> Seq(Packet)]
    BY DEF TypeOK, ReleaseHead
  <1>2. q'[x] = Tail(q[x]) /\ \A z \in QName \ {x} : q'[z] = q[z]
    BY <1>1
  <1>3. \A i \in 1..Len(Tail(q[x])) : i + 1 \in 1..Len(q[x]) /\ Tail(q[x])[i] = q[x][i + 1]
    <2>1. Len(Tail(q[x])) = Len(q[x]) - 1 /\ \A i \in 1..Len(Tail(q[x])) : Tail(q[x])[i] = q[x][i + 1]
      BY <1>1, HeadTailProperties
    <2>2. Len(q[x]) \in Nat
      BY <1>1
    <2> QED BY <2>1, <2>2
  <1>4. ASSUME NEW z \in QName, NEW i \in 1..Len(q'[z])
        PROVE  \E j \in 1..Len(q[z]) : q'[z][i] = q[z][j]
    BY <1>2, <1>3
  <1>5. NumberInv'
    BY <1>4 DEF NumberInv
  <1>6. AnswersOut'
    <2>1. \A z \in {"Cache", "Send", "SendPrepare"} : z \in QName
      BY DEF QName
    <2> QED BY <2>1, <1>4 DEF AnswersOut
  <1> QED BY <1>2, <1>5, <1>6

\* A read brings in no more frames than the bound leaves.
LEMMA BatchesBound ==
  ASSUME TypeOK, FramesInv, NEW c \in Conns, NEW b \in Batches(c)
  PROVE  rx[c] + Len(b) <= MaxFrames[c]
  <1>1. rx[c] \in Nat /\ MaxFrames[c] \in Nat /\ rx[c] <= MaxFrames[c]
    BY BoundAssumption DEF TypeOK, FramesInv
  <1>2. PICK k \in 0 .. (IF rx[c] + MaxBatch <= MaxFrames[c]
                           THEN MaxBatch ELSE MaxFrames[c] - rx[c]) : b \in [1..k -> Kind]
    BY DEF Batches
  <1>3. k \in Nat /\ rx[c] + k <= MaxFrames[c]
    BY <1>1, <1>2, BoundAssumption
  <1>4. Len(b) = k
    BY <1>2, <1>3
  <1> QED BY <1>3, <1>4

\* A request that is in the line carries a number already read, and no
\* client that was not accepted yet has one there.
LEMMA LineNumbers ==
  ASSUME TypeOK, BornInv, NumberInv, NEW c \in Conns, NEW n \in HelloOf(InPipeline, c)
  PROVE  n <= rx[c] /\ c \in born
  <1>1. PICK x \in QName : n \in HelloOf(q[x], c)
    BY LineHello
  <1>2. PICK i \in 1..Len(q[x]) : q[x][i].seq = c /\ n = q[x][i].n
    BY <1>1 DEF HelloOf, HelloAt
  <1> QED BY <1>2 DEF NumberInv, BornInv

\* Initially nothing is in the line.
LEMMA InitFifo == Init => FifoInv
  <1> SUFFICES ASSUME Init PROVE FifoInv
    OBVIOUS
  <1>1. \A x \in QName : q[x] = <<>> /\ Len(q[x]) = 0
    BY DEF Init
  <1>2. AnswersOut /\ NumberInv
    BY <1>1 DEF AnswersOut, NumberInv, QName
  <1>3. AskedInv
    BY DEF Init, AskedInv
  <1>4. FramesInv
    BY BoundAssumption DEF Init, FramesInv
  <1>5. EchoFifo
    BY DEF Init, EchoFifo
  <1> QED BY <1>2, <1>3, <1>4, <1>5 DEF FifoInv

\* A step of the network thread that starts and ends outside the send loop
\* leaves nothing unsent before or after.
LEMMA SameUnsent ==
  ASSUME TypeOK, CounterInv, TypeOK', CounterInv', netPc # "send", netPc' # "send"
  PROVE  Unsent' = Unsent
  <1>1. Unsent = <<>>
    BY NothingUnsent
  <1>2. Unsent' = <<>>
    BY RestsAfter
  <1> QED BY <1>1, <1>2

\* The network thread's steps leave the logic loop's rest alone.
LEMMA SameUnhandled ==
  ASSUME q'["Logic"] = q["Logic"], UNCHANGED logicVars
  PROVE  Unhandled' = Unhandled
  BY DEF Unhandled, logicVars

\* Accepting a client: the new one has neither asked nor been answered.
LEMMA AcceptFifo ==
  ASSUME TypeOK, WakeInv, TypeOK', WakeInv', FifoInv, NEW c \in Conns, NEW fd \in Fds,
         OnListenerAcceptConnect(c, fd)
  PROVE  FifoInv'
  <1>1. /\ netPc = "loop" /\ netPc' = "loop" /\ UNCHANGED <<q, logicVars, rx, asked, replied, batch, cur>>
        /\ c \notin born /\ born' = born \cup {c} /\ seqPool' = (seqPool \ {fdPool[fd]}) \cup {c}
    BY DEF OnListenerAcceptConnect, queueVars, netVars, historyVars
  <1>2. AnswersOut /\ NumberInv /\ AskedInv /\ FramesInv /\ EchoFifo /\ BornInv
        /\ CounterInv /\ CounterInv'
    BY DEF FifoInv, WakeInv
  <1>3. AnswersOut' /\ NumberInv'
    BY <1>1, <1>2, SamePackets
  <1>4. AskedInv'
    BY <1>1, <1>2, SameAsked
  <1>5. FramesInv'
    BY <1>1, <1>2 DEF FramesInv
  <1>6. InPipeline' = InPipeline
    <2>1. Unsent' = Unsent
      BY <1>1, <1>2, SameUnsent
    <2>2. Unhandled' = Unhandled
      BY <1>1, SameUnhandled
    <2> QED BY <1>1, <2>1, <2>2, QuietLine
  <1>7. OldestFirst(InPipeline, asked[c], replied[c], c)
    <2>1. HelloOf(InPipeline, c) = {}
      BY <1>1, <1>2, LineNumbers
    <2>2. HelloAt(InPipeline, c) = {}
      BY <2>1 DEF HelloOf
    <2>3. Rising(InPipeline, c)
      BY <2>2 DEF Rising
    <2>4. asked[c] = <<>> /\ replied[c] = <<>>
      BY <1>1, <1>2 DEF AskedInv
    <2>5. Len(<<>>) = 0
      OBVIOUS
    <2> QED BY <2>1, <2>3, <2>4, <2>5 DEF OldestFirst
  <1>8. EchoFifo'
    BY <1>1, <1>2, <1>6, <1>7 DEF EchoFifo
  <1> QED BY <1>3, <1>4, <1>5, <1>8 DEF FifoInv

\* The other events of the event loop move no packet.
LEMMA NetEventFifo ==
  ASSUME TypeOK, WakeInv, TypeOK', WakeInv', FifoInv, NetEvent
  PROVE  FifoInv'
  <1>1. ASSUME NEW c \in Conns, NEW fd \in Fds, OnListenerAcceptConnect(c, fd)
        PROVE  FifoInv'
    BY <1>1, AcceptFifo
  <1>2. AnswersOut /\ NumberInv /\ AskedInv /\ FramesInv /\ EchoFifo /\ PoolsAgree
        /\ CounterInv /\ CounterInv'
    BY DEF FifoInv, WakeInv
  <1>3. ASSUME /\ netPc = "loop" /\ netPc' # "send"
               /\ UNCHANGED <<q, logicVars, rx, asked, replied>>
               /\ born' = born /\ seqPool' \subseteq seqPool /\ FramesInv'
        PROVE  FifoInv'
    <2>1. AnswersOut' /\ NumberInv'
      BY <1>2, <1>3, SamePackets
    <2>2. AskedInv'
      BY <1>2, <1>3, SameAsked
    <2>3. Unsent' = Unsent
      BY <1>2, <1>3, SameUnsent
    <2>4. Unhandled' = Unhandled
      BY <1>3, SameUnhandled
    <2>5. InPipeline' = InPipeline
      BY <1>3, <2>3, <2>4, QuietLine
    <2>6. EchoFifo'
      BY <1>2, <1>3, <2>5, SameFifo
    <2> QED BY <1>3, <2>1, <2>2, <2>6 DEF FifoInv
  <1>4. ASSUME NEW fd \in Fds, AcceptSetSocketOptFails(fd)
        PROVE  FifoInv'
    <2>1. FramesInv'
      BY <1>2, <1>4 DEF AcceptSetSocketOptFails, netVars, historyVars, FramesInv
    <2> QED BY <1>3, <1>4, <2>1 DEF AcceptSetSocketOptFails, queueVars, netVars, historyVars
  <1>5. ASSUME NEW c \in Conns, OnBufferEventTrigger(c)
        PROVE  FifoInv'
    <2>1. FramesInv'
      BY <1>2, <1>5 DEF OnBufferEventTrigger, netVars, historyVars, FramesInv
    <2>2. born' = born /\ seqPool' \subseteq seqPool
      BY <1>5 DEF OnBufferEventTrigger, CloseClient
    <2> QED BY <1>3, <1>5, <2>1, <2>2 DEF OnBufferEventTrigger, queueVars, netVars, historyVars
  <1>6. ASSUME NEW c \in Conns, NEW b \in Batches(c), OnBufferEventRead(c, b)
        PROVE  FifoInv'
    <2>1. cur' = c /\ batch' = b /\ rx' = rx /\ netPc' = "unpack"
      BY <1>2, <1>6 DEF OnBufferEventRead, PoolsAgree, historyVars
    <2>2. rx[c] + Len(b) <= MaxFrames[c]
      BY <1>2, BatchesBound
    <2>3. FramesInv'
      BY <1>2, <2>1, <2>2 DEF FramesInv
    <2>4. born' = born /\ seqPool' \subseteq seqPool
      BY <1>6 DEF OnBufferEventRead, clientVars
    <2> QED BY <1>3, <1>6, <2>3, <2>4 DEF OnBufferEventRead, queueVars, historyVars
  <1> QED BY <1>1, <1>4, <1>5, <1>6 DEF NetEvent

\* Unpacking a frame puts a request, newer than all others, behind the line.
LEMMA UnpackFrameFifo ==
  ASSUME TypeOK, WakeInv, TypeOK', WakeInv', FifoInv, UnpackFrame
  PROVE  FifoInv'
  <1> DEFINE n == rx[cur] + 1
  <1>1. AnswersOut /\ NumberInv /\ AskedInv /\ FramesInv /\ EchoFifo /\ BornInv /\ CurInv
        /\ CounterInv /\ CounterInv'
    BY DEF FifoInv, WakeInv
  <1>2. cur \in Conns /\ fdOf[cur] \in Fds /\ rx[cur] \in Nat /\ n \in Nat
    BY <1>1, CurType DEF UnpackFrame
  <1>3. Head(batch) \in {"hello", "other"} /\ batch \in Seq(Kind) /\ batch # <<>>
    BY DEF UnpackFrame, TypeOK, Kind
  <1>4. /\ netPc = "unpack" /\ netPc' = "unpack" /\ cur' = cur /\ batch' = Tail(batch)
        /\ UNCHANGED <<logicVars, replied, born, seqPool>>
        /\ rx' = [rx EXCEPT ![cur] = @ + 1]
        /\ asked' = IF Head(batch) = "hello" THEN [asked EXCEPT ![cur] = Append(@, n)] ELSE asked
        /\ AddPacket("RecvPrepare", cur, fdOf[cur], Head(batch), n)
    BY DEF UnpackFrame, clientVars
  <1>5. rx \in [Conns -> Nat] /\ asked \in [Conns -> Seq(Nat)] /\ replied \in [Conns -> Seq(Nat)]
        /\ seqPool \subseteq Conns
    BY DEF TypeOK
  <1>6. rx'[cur] = n /\ \A d \in Conns : d # cur => rx'[d] = rx[d]
    BY <1>2, <1>4, <1>5
  <1>7. ASSUME NEW d \in Conns PROVE rx[d] \in Nat /\ rx[d] <= rx'[d]
    <2>1. rx[d] \in Nat
      BY <1>5
    <2>2. CASE d = cur
      BY <2>1, <2>2, <1>6
    <2>3. CASE d # cur
      BY <2>1, <2>3, <1>6
    <2> QED BY <2>1, <2>2, <2>3
  <1>a. "RecvPrepare" \in QName
    BY DEF QName
  <1>8. /\ \A z \in QName \ {"RecvPrepare"} : q'[z] = q[z]
        /\ \E p \in Packet : /\ q'["RecvPrepare"] = Append(q["RecvPrepare"], p)
                             /\ p.seq = cur /\ p.kind = Head(batch) /\ p.n = n
    <2>1. AddPacket("RecvPrepare", cur, fdOf[cur], Head(batch), n)
      BY <1>4
    <2> HIDE DEF n
    <2> QED BY <1>a, <1>2, <1>3, <2>1, AddPacketAppends
  <1>9. PICK p \in Packet : /\ q'["RecvPrepare"] = Append(q["RecvPrepare"], p)
                            /\ p.seq = cur /\ p.kind = Head(batch) /\ p.n = n
    BY <1>8
  <1>b. \A x \in QName : q[x] \in Seq(Packet)
    BY DEF TypeOK
  <1>c. \A x \in QName : \A i \in 1..Len(q[x]) : q[x][i].seq \in Conns /\ q[x][i].n \in Nat
    <2> TAKE x \in QName
    <2> TAKE i \in 1..Len(q[x])
    <2>1. q[x][i] \in Packet
      BY <1>b
    <2> QED BY <2>1 DEF Packet
  <1>d. ASSUME NEW i \in 1..Len(q'["RecvPrepare"])
        PROVE  \/ i \in 1..Len(q["RecvPrepare"]) /\ q'["RecvPrepare"][i] = q["RecvPrepare"][i]
               \/ q'["RecvPrepare"][i] = p
    <2>1. q["RecvPrepare"] \in Seq(Packet)
      BY <1>a, <1>b
    <2> QED BY <2>1, <1>9
  <1> HIDE DEF n
  <1>10. NumberInv'
    <2> SUFFICES ASSUME NEW x \in QName, NEW i \in 1..Len(q'[x])
                 PROVE  q'[x][i].n <= rx'[q'[x][i].seq]
      BY DEF NumberInv
    <2>1. ASSUME i \in 1..Len(q[x]), q'[x][i] = q[x][i] PROVE q'[x][i].n <= rx'[q'[x][i].seq]
      <3>1. q[x][i].n <= rx[q[x][i].seq] /\ q[x][i].seq \in Conns /\ q[x][i].n \in Nat
        BY <2>1, <1>1, <1>c DEF NumberInv
      <3>2. rx[q[x][i].seq] <= rx'[q[x][i].seq] /\ rx[q[x][i].seq] \in Nat
            /\ rx'[q[x][i].seq] \in Nat
        BY <3>1, <1>7 DEF TypeOK
      <3>3. q[x][i].n <= rx'[q[x][i].seq]
        BY <3>1, <3>2
      <3> QED BY <2>1, <3>3
    <2>2. CASE x # "RecvPrepare"
      BY <2>1, <2>2, <1>8
    <2>3. CASE x = "RecvPrepare" /\ q'[x][i] = p
      BY <2>3, <1>2, <1>6, <1>9
    <2>4. CASE x = "RecvPrepare" /\ q'[x][i] # p
      BY <2>1, <2>4, <1>d
    <2> QED BY <2>2, <2>3, <2>4
  <1>11. AnswersOut'
    <2>1. \A z \in {"Cache", "Send", "SendPrepare"} : z \in QName \ {"RecvPrepare"}
      BY DEF QName
    <2> QED BY <2>1, <1>1, <1>8 DEF AnswersOut
  <1>12. FramesInv'
    <2>1. Len(batch) \in Nat /\ Len(Tail(batch)) = Len(batch) - 1 /\ Len(batch) >= 1
      BY <1>3
    <2>2. rx[cur] + Len(batch) <= MaxFrames[cur]
      BY <1>1, <1>4 DEF FramesInv
    <2>3. n + Len(Tail(batch)) <= MaxFrames[cur] /\ n <= MaxFrames[cur]
      BY <2>1, <2>2, <1>2, BoundAssumption DEF n
    <2>4. \A d \in Conns : rx'[d] <= MaxFrames[d]
      BY <2>3, <1>1, <1>6 DEF FramesInv
    <2> QED BY <2>3, <2>4, <1>4, <1>6 DEF FramesInv
  <1>13. cur \in seqPool /\ cur \in born
    BY <1>1, <1>4 DEF CurInv, BornInv
  <1>14. AskedInv'
    <2>1. ASSUME asked' = asked PROVE AskedInv'
      <3>1. \A d \in Conns : \A i \in 1..Len(asked[d]) : asked[d][i] \in Nat /\ asked[d][i] <= rx[d]
        BY <1>1, <1>5 DEF AskedInv
      <3>2. \A d \in Conns : rx'[d] \in Nat
        BY DEF TypeOK
      <3>3. \A d \in Conns : \A i \in 1..Len(asked[d]) : asked[d][i] <= rx'[d]
        BY <3>1, <3>2, <1>7
      <3> QED BY <2>1, <3>3, <1>1, <1>4 DEF AskedInv
    <2>2. ASSUME asked' = [asked EXCEPT ![cur] = Append(@, n)] PROVE AskedInv'
      <3> DEFINE a == asked[cur]
                 b == Append(a, n)
      <3>1. a \in Seq(Nat) /\ asked'[cur] = b /\ \A d \in Conns : d # cur => asked'[d] = asked[d]
        BY <2>2, <1>2, <1>5
      <3>2. Len(a) \in Nat /\ Len(b) = Len(a) + 1 /\ b[Len(a) + 1] = n
            /\ \A i \in 1..Len(a) : b[i] = a[i] /\ a[i] \in Nat
        BY <3>1, <1>2
      <3>3. \A i \in 1..Len(a) : a[i] < n
        BY <3>2, <1>1, <1>2 DEF AskedInv, n
      <3>a. \A i, j \in 1..Len(a) : i < j => a[i] < a[j]
        BY <1>1, <1>2 DEF AskedInv
      <3> HIDE DEF a, b
      <3>4. \A i \in 1..Len(b) : (i \in 1..Len(a) /\ b[i] = a[i]) \/ (i = Len(a) + 1 /\ b[i] = n)
        BY <3>2
      <3>5. \A i \in 1..Len(b) : b[i] <= n
        BY <3>2, <3>3, <3>4, <1>2
      <3>6. \A i, j \in 1..Len(b) : i < j => b[i] < b[j]
        <4> TAKE i, j \in 1..Len(b)
        <4> HAVE i < j
        <4>1. i \in 1..Len(a) /\ b[i] = a[i]
          BY <3>2
        <4> QED BY <4>1, <3>3, <3>4, <3>a
      <3>7. \A d \in Conns : d # cur => \A i \in 1..Len(asked'[d]) : asked'[d][i] <= rx'[d]
        BY <3>1, <1>1, <1>6 DEF AskedInv
      <3>8. \A d \in Conns : \A i \in 1..Len(asked'[d]) : asked'[d][i] <= rx'[d]
        BY <3>1, <3>5, <3>7, <1>6
      <3>9. \A d \in Conns : \A i, j \in 1..Len(asked'[d]) : i < j => asked'[d][i] < asked'[d][j]
        BY <3>1, <3>6, <1>1 DEF AskedInv
      <3>10. \A d \in Conns \ born' : asked'[d] = <<>> /\ replied'[d] = <<>>
        BY <3>1, <1>1, <1>4, <1>13 DEF AskedInv
      <3> QED BY <3>8, <3>9, <3>10 DEF AskedInv
    <2> QED BY <2>1, <2>2, <1>4
  <1>15. InPipeline' = InPipeline \o <<p>>
    <2>1. Unsent' = Unsent
      BY <1>1, <1>4, SameUnsent
    <2>2. \A z \in {"Recv", "Send", "SendPrepare", "Logic"} : z \in QName \ {"RecvPrepare"}
      BY DEF QName
    <2>3. Unhandled' = Unhandled
      BY <2>2, <1>4, <1>8, SameUnhandled
    <2> QED BY <2>1, <2>2, <2>3, <1>8, <1>9, AskLine
  <1>16. EchoFifo'
    <2> SUFFICES ASSUME NEW d \in seqPool
                 PROVE  OldestFirst(InPipeline', asked'[d], replied'[d], d)
      BY <1>4 DEF EchoFifo
    <2>1. d \in Conns /\ asked[d] \in Seq(Nat) /\ replied[d] \in Seq(Nat)
          /\ OldestFirst(InPipeline, asked[d], replied[d], d) /\ replied'[d] = replied[d]
      BY <1>1, <1>4, <1>5 DEF EchoFifo
    <2> DEFINE l == InPipeline
    <2>2. l \in Seq(Packet) /\ <<p>> \in Seq(Packet)
      BY LineType
    <2>3. CASE d = cur /\ p.kind = "hello"
      <3>1. asked'[d] = Append(asked[d], p.n)
        BY <2>3, <1>4, <1>5, <1>9, <2>1
      <3>2. \A k \in HelloOf(InPipeline, d) : k < p.n
        <4>1. \A k \in HelloOf(InPipeline, d) : k <= rx[cur]
          BY <2>3, <2>1, <1>1, LineNumbers
        <4>2. \A k \in HelloOf(l, d) : k \in Nat
          <5> TAKE k \in HelloOf(l, d)
          <5>1. PICK i \in 1..Len(l) : k = l[i].n
            BY DEF HelloOf, HelloAt
          <5>2. l[i] \in Packet
            BY <2>2
          <5> QED BY <5>1, <5>2 DEF Packet
        <4> QED BY <4>1, <4>2, <1>2, <1>9 DEF n
      <3>3. OldestFirst(InPipeline \o <<p>>, Append(asked[d], p.n), replied[d], d)
        BY <3>2, <2>1, <2>2, <2>3, <1>9, PromiseAsk
      <3> QED BY <3>1, <3>3, <2>1, <1>15
    <2>4. CASE ~(d = cur /\ p.kind = "hello")
      <3>1. asked'[d] = asked[d]
        BY <2>4, <1>4, <1>5, <1>9, <2>1
      <3>2. HelloOf(<<p>>, d) = {} /\ Rising(<<p>>, d)
        BY <2>4, <1>9, HelloOne
      <3>3. HelloOf(l \o <<p>>, d) = HelloOf(l, d) \cup HelloOf(<<p>>, d)
        BY <2>2, HelloConcat
      <3>4. Rising(l \o <<p>>, d) <=>
              /\ Rising(l, d) /\ Rising(<<p>>, d)
              /\ \A x \in HelloOf(l, d), y \in HelloOf(<<p>>, d) : x < y
        BY <2>2, RisingConcat
      <3>5. OldestFirst(l \o <<p>>, asked[d], replied[d], d)
        BY <3>2, <3>3, <3>4, <2>1, SamePromise
      <3> QED BY <3>1, <3>5, <2>1, <1>15
    <2> QED BY <2>3, <2>4
  <1> QED BY <1>10, <1>11, <1>12, <1>14, <1>16 DEF FifoInv

\* A packet in the middle of the line gives way to one with the same request.
LEMMA PromiseSwap ==
  ASSUME NEW u \in Seq(Packet), NEW v \in Seq(Packet), NEW e \in Seq(Packet),
         NEW f \in Seq(Packet), NEW a, NEW r, NEW c,
         HelloOf(f, c) = HelloOf(e, c), Rising(f, c),
         OldestFirst(u \o (e \o v), a, r, c)
  PROVE  OldestFirst(u \o (f \o v), a, r, c)
  <1> DEFINE ev == e \o v
             fv == f \o v
  <1>1. ev \in Seq(Packet) /\ fv \in Seq(Packet)
    BY ConcatProperties
  <1>2. /\ HelloOf(ev, c) = HelloOf(e, c) \cup HelloOf(v, c)
        /\ HelloOf(fv, c) = HelloOf(f, c) \cup HelloOf(v, c)
    BY HelloConcat
  <1>3. Rising(ev, c) => Rising(fv, c)
    <2>1. Rising(ev, c) => /\ Rising(v, c)
                           /\ \A x \in HelloOf(e, c), y \in HelloOf(v, c) : x < y
      BY RisingConcat
    <2>2. /\ Rising(f, c) /\ Rising(v, c)
          /\ \A x \in HelloOf(f, c), y \in HelloOf(v, c) : x < y
          => Rising(fv, c)
      BY RisingConcat
    <2> QED BY <2>1, <2>2
  <1> HIDE DEF ev, fv
  <1>4. HelloOf(ev, c) = HelloOf(fv, c)
    BY <1>2
  <1>5. HelloOf(u \o ev, c) = HelloOf(u, c) \cup HelloOf(ev, c)
    BY <1>1, HelloConcat
  <1>6. HelloOf(u \o fv, c) = HelloOf(u, c) \cup HelloOf(fv, c)
    BY <1>1, HelloConcat
  <1>7. Rising(u \o ev, c) => /\ Rising(u, c) /\ Rising(ev, c)
                              /\ \A x \in HelloOf(u, c), y \in HelloOf(ev, c) : x < y
    BY <1>1, RisingConcat
  <1>8. /\ Rising(u, c) /\ Rising(fv, c)
        /\ \A x \in HelloOf(u, c), y \in HelloOf(fv, c) : x < y
        => Rising(u \o fv, c)
    BY <1>1, RisingConcat
  <1>9. OldestFirst(u \o ev, a, r, c)
    BY DEF ev
  <1>10. OldestFirst(u \o fv, a, r, c)
    BY <1>3, <1>4, <1>5, <1>6, <1>7, <1>8, <1>9, SamePromise
  <1> QED BY <1>10 DEF fv

\* A packet that is no request of c leaves the line from anywhere.
LEMMA PromiseDrop ==
  ASSUME NEW u \in Seq(Packet), NEW v \in Seq(Packet), NEW e \in Seq(Packet),
         NEW a, NEW r, NEW c, HelloOf(e, c) = {}, OldestFirst(u \o (e \o v), a, r, c)
  PROVE  OldestFirst(u \o v, a, r, c)
  <1>1. <<>> \in Seq(Packet) /\ HelloOf(<<>>, c) = {} /\ Rising(<<>>, c)
    BY DEF HelloOf, HelloAt, Rising
  <1>2. OldestFirst(u \o (<<>> \o v), a, r, c)
    BY <1>1, PromiseSwap
  <1>3. <<>> \o v = v
    BY LineEmpty
  <1> QED BY <1>2, <1>3

\* Without a packet at the front, the line is the rest.
LEMMA PromiseDropFirst ==
  ASSUME NEW v \in Seq(Packet), NEW e \in Seq(Packet),
         NEW a, NEW r, NEW c, HelloOf(e, c) = {}, OldestFirst(e \o v, a, r, c)
  PROVE  OldestFirst(v, a, r, c)
  <1>1. HelloOf(e \o v, c) = HelloOf(e, c) \cup HelloOf(v, c)
    BY HelloConcat
  <1>2. Rising(e \o v, c) => Rising(v, c)
    BY RisingConcat
  <1>3. HelloOf(v, c) = HelloOf(e \o v, c)
    BY <1>1
  <1> QED BY <1>2, <1>3, SamePromise

\* PacketBufferSend answers the oldest request of the client, or nobody.
LEMMA PacketBufferSendFifo ==
  ASSUME TypeOK, WakeInv, TypeOK', WakeInv', FifoInv, PacketBufferSend
  PROVE  /\ FifoInv'
         /\ \/ replied' = replied
            \/ \E c \in seqPool : /\ Len(replied[c]) < Len(asked[c])
                                  /\ replied' = [replied EXCEPT ![c] =
                                                   Append(@, asked[c][Len(@) + 1])]
  <1> DEFINE p == q["Cache"][sent + 1]
             c == p.seq
             n == p.n
  <1>1. AnswersOut /\ NumberInv /\ AskedInv /\ FramesInv /\ EchoFifo
        /\ CounterInv /\ CounterInv'
    BY DEF FifoInv, WakeInv
  <1>2. /\ netPc = "send" /\ netPc' = "send" /\ sent' = sent + 1 /\ sent < Len(q["Cache"])
        /\ UNCHANGED <<q, logicVars, seqPool, born, rx, asked, cur, batch>>
        /\ replied' = IF GetClient(p) = None THEN replied
                      ELSE [replied EXCEPT ![GetClient(p)] = Append(@, p.n)]
    BY DEF PacketBufferSend, queueVars, clientVars
  <1>3. /\ q["Cache"] \in Seq(Packet) /\ sent \in Nat
        /\ replied \in [Conns -> Seq(Nat)] /\ asked \in [Conns -> Seq(Nat)]
        /\ seqPool \subseteq Conns
    BY DEF TypeOK, QName
  <1>4. sent + 1 \in 1..Len(q["Cache"]) /\ Len(q["Cache"]) \in (sent + 1)..Len(q["Cache"])
    BY <1>2, <1>3
  <1>5. p \in Packet
    BY <1>3, <1>4
  <1>6. c \in Conns /\ n \in Nat /\ p.kind = "hello"
    BY <1>1, <1>4, <1>5 DEF Packet, AnswersOut
  <1>7. Unsent = <<p>> \o Unsent'
    <2>1. SubSeq(q["Cache"], sent + 1, Len(q["Cache"])) =
            <<p>> \o SubSeq(q["Cache"], sent + 1 + 1, Len(q["Cache"]))
      BY <1>3, <1>4, SubSeqRecursiveFirst
    <2>2. Unsent = SubSeq(q["Cache"], sent + 1, Len(q["Cache"]))
      BY <1>2 DEF Unsent
    <2>3. Unsent' = SubSeq(q["Cache"], sent + 1 + 1, Len(q["Cache"]))
      BY <1>2 DEF Unsent
    <2> QED BY <2>1, <2>2, <2>3
  <1>8. Unhandled' = Unhandled
    BY <1>2, SameUnhandled
  <1> DEFINE m == InPipeline'
  <1>9. InPipeline = <<p>> \o m
    <2> HIDE DEF p
    <2> QED BY <1>1, <1>2, <1>5, <1>7, <1>8, ReplyLine
  <1>10. m \in Seq(Packet) /\ <<p>> \in Seq(Packet)
    <2>1. Unsent' \in Seq(Packet)
      BY <1>1, RestsAfter
    <2> DEFINE r4 == q["Send"] \o (q["SendPrepare"] \o (Unhandled \o (q["Recv"] \o q["RecvPrepare"])))
    <2>2. r4 \in Seq(Packet)
      BY LineType
    <2>3. m = Unsent' \o r4
      BY <1>2, <1>8 DEF InPipeline
    <2> HIDE DEF m, r4, p
    <2> QED BY <2>1, <2>2, <2>3, <1>5, ConcatProperties
  <1>a. replied' = IF c \in seqPool THEN [replied EXCEPT ![c] = Append(@, n)] ELSE replied
    BY <1>2, <1>3, NoneAssumption DEF GetClient
  <1> HIDE DEF p, m
  <1>11. ASSUME NEW d \in seqPool, d # c
         PROVE  OldestFirst(m, asked[d], replied[d], d)
    <2>1. HelloOf(<<p>>, d) = {}
      BY <1>5, <1>11, HelloOne
    <2>2. OldestFirst(<<p>> \o m, asked[d], replied[d], d)
      BY <1>1, <1>9 DEF EchoFifo
    <2> QED BY <2>1, <2>2, <1>10, PromiseDropFirst
  <1>12. ASSUME c \in seqPool
         PROVE  /\ Len(replied[c]) < Len(asked[c])
                /\ n = asked[c][Len(replied[c]) + 1]
                /\ OldestFirst(m, asked[c], Append(replied[c], n), c)
    <2>1. OldestFirst(<<p>> \o m, asked[c], replied[c], c)
      BY <1>1, <1>9, <1>12 DEF EchoFifo
    <2>2. \A i, j \in 1..Len(asked[c]) : i < j => asked[c][i] < asked[c][j]
      BY <1>1, <1>6 DEF AskedInv
    <2>3. asked[c] \in Seq(Nat) /\ replied[c] \in Seq(Nat)
      BY <1>3, <1>6
    <2> QED BY <2>1, <2>2, <2>3, <1>5, <1>6, <1>10, PromiseReply
  <1>13. EchoFifo'
    <2> SUFFICES ASSUME NEW d \in seqPool PROVE OldestFirst(m, asked[d], replied'[d], d)
      BY <1>2 DEF EchoFifo, m
    <2>1. CASE d # c
      <3>1. replied'[d] = replied[d]
        BY <2>1, <1>3, <1>a
      <3> QED BY <2>1, <3>1, <1>11
    <2>2. CASE d = c
      <3>1. replied'[c] = Append(replied[c], n)
        BY <2>2, <1>3, <1>a
      <3> QED BY <2>2, <3>1, <1>12
    <2> QED BY <2>1, <2>2
  <1>14. AnswersOut' /\ NumberInv'
    BY <1>1, <1>2, SamePackets
  <1>15. FramesInv'
    BY <1>1, <1>2 DEF FramesInv
  <1>16. AskedInv'
    <2>1. \A d \in Conns \ born : replied'[d] = <<>>
      <3>1. seqPool \subseteq born
        BY DEF WakeInv, BornInv
      <3> QED BY <3>1, <1>1, <1>3, <1>a DEF AskedInv
    <2> QED BY <2>1, <1>1, <1>2 DEF AskedInv
  <1>17. FifoInv'
    BY <1>13, <1>14, <1>15, <1>16 DEF FifoInv
  <1>18. CASE c \in seqPool
    <2>1. replied' = [replied EXCEPT ![c] = Append(@, asked[c][Len(@) + 1])]
      BY <1>18, <1>a, <1>12
    <2> QED BY <1>17, <2>1, <1>12, <1>18
  <1>19. CASE c \notin seqPool
    BY <1>17, <1>19, <1>a
  <1> QED BY <1>18, <1>19

\* Steps that move the line as a whole, or not at all, keep all of it.
LEMMA LineKept ==
  ASSUME FifoInv, AnswersOut', NumberInv', FramesInv', InPipeline' = InPipeline,
         UNCHANGED <<rx, asked, replied, born>>, seqPool' \subseteq seqPool
  PROVE  FifoInv'
  <1>1. AskedInv /\ EchoFifo
    BY DEF FifoInv
  <1>2. AskedInv'
    BY <1>1, SameAsked
  <1>3. EchoFifo'
    BY <1>1, SameFifo
  <1> QED BY <1>2, <1>3 DEF FifoInv

\* The order through the handlers of the network thread.
LEMMA NetHandlerFifo ==
  ASSUME TypeOK, WakeInv, TypeOK', WakeInv', FifoInv, NetHandler
  PROVE  FifoInv'
  <1>a. AnswersOut /\ NumberInv /\ FramesInv /\ CurInv /\ CounterInv /\ CounterInv'
    BY DEF FifoInv, WakeInv
  <1>b. "Recv" \in QName /\ "RecvPrepare" \in QName /\ "Cache" \in QName /\ "Send" \in QName
        /\ "Logic" \in QName
    BY DEF QName
  <1>1. CASE UnpackFrame
    BY <1>1, UnpackFrameFifo
  <1>2. CASE PacketBufferSend
    BY <1>2, PacketBufferSendFifo
  <1>3. CASE \/ UnpackBadFrame \/ Emit \/ ReadDone \/ ReleaseCacheDone
             \/ netPc = "reread" /\ \E b \in Batches(cur) : ReadAgain(b)
    <2>1. /\ netPc \notin {"send"} /\ netPc' \notin {"send"}
          /\ UNCHANGED <<q, logicVars, rx, asked, replied, born>> /\ seqPool' \subseteq seqPool
      BY <1>3 DEF UnpackBadFrame, Emit, ReadDone, ReleaseCacheDone, ReadAgain, queueVars,
         historyVars, clientVars, CloseClient
    <2>2. FramesInv'
      <3>1. CASE \/ UnpackBadFrame \/ Emit \/ ReadDone \/ ReleaseCacheDone
        <4>1. netPc' # "unpack"
          BY <3>1 DEF UnpackBadFrame, Emit, ReadDone, ReleaseCacheDone
        <4> QED BY <4>1, <2>1, <1>a DEF FramesInv
      <3>2. CASE netPc = "reread" /\ \E b \in Batches(cur) : ReadAgain(b)
        <4>1. PICK b \in Batches(cur) : ReadAgain(b)
          BY <3>2
        <4>2. cur \in Conns /\ cur' = cur /\ batch' = b
          BY <3>2, <4>1, <1>a, CurType DEF ReadAgain
        <4>3. rx[cur] + Len(b) <= MaxFrames[cur]
          BY <4>2, <1>a, BatchesBound
        <4> QED BY <4>2, <4>3, <2>1, <1>a DEF FramesInv
      <3> QED BY <1>3, <3>1, <3>2
    <2>3. AnswersOut' /\ NumberInv'
      BY <2>1, <1>a, SamePackets
    <2>4. Unsent' = Unsent
      BY <2>1, <1>a, SameUnsent
    <2>5. Unhandled' = Unhandled
      BY <2>1, SameUnhandled
    <2>6. InPipeline' = InPipeline
      BY <2>1, <2>4, <2>5, QuietLine
    <2> QED BY <2>1, <2>2, <2>3, <2>6, LineKept
  <1>4. CASE PacketRecvPrepare
    <2>1. /\ netPc = "unpack" /\ netPc' \in {"emit", "reread"} /\ CopyFrom("Recv", "RecvPrepare")
          /\ UNCHANGED <<logicVars, rx, asked, replied, born, seqPool>>
      BY <1>4 DEF PacketRecvPrepare, historyVars, clientVars
    <2>2. FramesInv'
      BY <2>1, <1>a DEF FramesInv
    <2>3. AnswersOut' /\ NumberInv'
      BY <2>1, <1>a, <1>b, CopyFromPackets
    <2>4. Unsent' = Unsent
      BY <2>1, <1>a, SameUnsent
    <2>5. \A z \in QName \ {"Recv", "RecvPrepare"} : q'[z] = q[z]
      BY <2>1, <1>a, <1>b, CopyFromConcat
    <2>6. Unhandled' = Unhandled
      BY <2>1, <2>5, <1>b, SameUnhandled
    <2>7. InPipeline' = InPipeline
      BY <2>1, <2>4, <2>6, <1>a, RecvPrepareLine
    <2> QED BY <2>1, <2>2, <2>3, <2>7, LineKept
  <1>5. CASE PacketSendPrepareCache
    <2>1. /\ netPc \in {"cache", "cacheAgain"} /\ netPc' \in {"loop", "send"}
          /\ CopyFrom("Cache", "Send") /\ sent' = 0
          /\ UNCHANGED <<logicVars, rx, asked, replied, born, seqPool>>
      BY <1>5 DEF PacketSendPrepareCache, historyVars, clientVars
    <2>2. FramesInv'
      BY <2>1, <1>a DEF FramesInv
    <2>3. AnswersOut' /\ NumberInv'
      BY <2>1, <1>a, <1>b, CopyFromPackets
    <2>4. Unsent = <<>> /\ q["Cache"] = <<>>
      BY <2>1, <1>a, NothingUnsent DEF CounterInv
    <2>5. Unsent' = q'["Cache"]
      <3>1. q'["Cache"] \in Seq(Packet)
        BY <1>b DEF TypeOK
      <3>2. Unsent' = SubSeq(q'["Cache"], 0 + 1, Len(q'["Cache"]))
        BY <2>1 DEF Unsent
      <3>3. SubSeq(q'["Cache"], 1, Len(q'["Cache"])) = q'["Cache"]
        BY <3>1, SubSeqFull
      <3> QED BY <3>2, <3>3
    <2>6. \A z \in QName \ {"Cache", "Send"} : q'[z] = q[z]
      BY <2>1, <1>a, <1>b, CopyFromConcat
    <2>7. Unhandled' = Unhandled
      BY <2>1, <2>6, <1>b, SameUnhandled
    <2>8. InPipeline' = InPipeline
      BY <2>1, <2>4, <2>5, <2>7, <1>a, CacheLine
    <2> QED BY <2>1, <2>2, <2>3, <2>8, LineKept
  <1>6. CASE SendLoopDone
    <2>1. /\ netPc = "send" /\ netPc' = "release" /\ sent = Len(q["Cache"])
          /\ UNCHANGED <<q, logicVars, rx, asked, replied, born, seqPool>>
      BY <1>6 DEF SendLoopDone, queueVars, historyVars, clientVars
    <2>2. FramesInv'
      BY <2>1, <1>a DEF FramesInv
    <2>3. AnswersOut' /\ NumberInv'
      BY <2>1, <1>a, SamePackets
    <2>4. Unsent = <<>>
      <3>1. q["Cache"] \in Seq(Packet) /\ sent \in Nat /\ sent >= Len(q["Cache"])
        BY <2>1, <1>b DEF TypeOK
      <3>2. SubSeq(q["Cache"], sent + 1, Len(q["Cache"])) = <<>>
        BY <3>1, RestEmpty
      <3> QED BY <2>1, <3>2 DEF Unsent
    <2>5. Unsent' = <<>>
      BY <2>1 DEF Unsent
    <2>6. Unhandled' = Unhandled
      BY <2>1, SameUnhandled
    <2>7. InPipeline' = InPipeline
      BY <2>1, <2>4, <2>5, <2>6, QuietLine
    <2> QED BY <2>1, <2>2, <2>3, <2>7, LineKept
  <1>7. CASE ReleaseCachePacket
    <2>1. /\ netPc = "release" /\ netPc' = "release" /\ q["Cache"] # <<>> /\ ReleaseHead("Cache")
          /\ UNCHANGED <<logicVars, rx, asked, replied, born, seqPool>>
      BY <1>7 DEF ReleaseCachePacket, netVars, historyVars, clientVars
    <2>2. FramesInv'
      BY <2>1, <1>a DEF FramesInv
    <2>3. AnswersOut' /\ NumberInv' /\ \A z \in QName \ {"Cache"} : q'[z] = q[z]
      BY <2>1, <1>a, <1>b, ReleasePackets
    <2>4. Unsent' = Unsent
      BY <2>1, <1>a, SameUnsent
    <2>5. Unhandled' = Unhandled
      BY <2>1, <2>3, <1>b, SameUnhandled
    <2>6. \A z \in {"Recv", "RecvPrepare", "Send", "SendPrepare"} : q'[z] = q[z]
      BY <2>3 DEF QName
    <2>7. InPipeline' = InPipeline
      BY <2>4, <2>5, <2>6 DEF InPipeline
    <2> QED BY <2>1, <2>2, <2>3, <2>7, LineKept
  <1> QED BY <1>1, <1>2, <1>3, <1>4, <1>5, <1>6, <1>7 DEF NetHandler

\* A packet the logic thread comes to: its answer takes its place in the line.
LEMMA HandleCSProtoFifo ==
  ASSUME TypeOK, WakeInv, TypeOK', WakeInv', FifoInv, HandleCSProto
  PROVE  FifoInv'
  <1> DEFINE p == q["Logic"][handled + 1]
  <1>1. AnswersOut /\ NumberInv /\ FramesInv /\ AskedInv /\ EchoFifo /\ CounterInv /\ CounterInv'
    BY DEF FifoInv, WakeInv
  <1>2. /\ logicPc = "handle" /\ logicPc' \in {"handle", "flush"} /\ handled' = handled + 1
        /\ handled < num["Logic"]
        /\ UNCHANGED <<netPc, sent, cur, batch, rx, asked, replied, born, seqPool>>
        /\ IF p.kind = "hello" THEN AddPacket("SendPrepare", p.seq, p.fd, "hello", p.n)
           ELSE UNCHANGED queueVars
    BY DEF HandleCSProto, netVars, clientVars, historyVars
  <1>3. q["Logic"] \in Seq(Packet) /\ handled \in Nat /\ num["Logic"] = Len(q["Logic"])
    BY <1>1, <1>2 DEF TypeOK, QName, CounterInv
  <1>4. handled + 1 \in 1..Len(q["Logic"]) /\ Len(q["Logic"]) \in (handled + 1)..Len(q["Logic"])
    BY <1>2, <1>3
  <1>5. p \in Packet
    BY <1>3, <1>4
  <1>6. p.seq \in Conns /\ p.fd \in Fds /\ p.n \in Nat /\ p.n <= rx[p.seq]
    BY <1>1, <1>4, <1>5 DEF Packet, NumberInv, QName
  <1>7. SubSeq(q["Logic"], handled + 1, Len(q["Logic"])) =
          <<p>> \o SubSeq(q["Logic"], handled + 1 + 1, Len(q["Logic"]))
    BY <1>3, <1>4, SubSeqRecursiveFirst
  <1>8. Unhandled = SubSeq(q["Logic"], handled + 1, Len(q["Logic"]))
    BY <1>2 DEF Unhandled
  <1>b. /\ \A z \in {"Recv", "RecvPrepare", "Send", "Logic", "Cache"} : z \in QName \ {"SendPrepare"}
        /\ "SendPrepare" \in QName
    BY DEF QName
  <1> HIDE DEF p
  <1>9. FramesInv'
    BY <1>1, <1>2 DEF FramesInv
  <1>10. AskedInv'
    BY <1>1, <1>2, SameAsked
  <1>11. ASSUME \A z \in QName \ {"SendPrepare"} : q'[z] = q[z]
         PROVE  /\ Unhandled = <<p>> \o Unhandled' /\ Unsent' = Unsent
                /\ q'["Send"] = q["Send"] /\ q'["Recv"] = q["Recv"]
                /\ q'["RecvPrepare"] = q["RecvPrepare"]
    <2>1. q'["Logic"] = q["Logic"] /\ q'["Cache"] = q["Cache"]
      BY <1>11, <1>b
    <2>2. Unhandled' = SubSeq(q["Logic"], handled + 1 + 1, Len(q["Logic"]))
      BY <2>1, <1>2 DEF Unhandled
    <2>3. Unsent' = Unsent
      BY <2>1, <1>2 DEF Unsent
    <2> QED BY <2>2, <2>3, <1>7, <1>8, <1>11, <1>b
  <1>12. CASE p.kind = "hello"
    <2>1. AddPacket("SendPrepare", p.seq, p.fd, "hello", p.n)
      BY <1>2, <1>12
    <2>2. /\ \A z \in QName \ {"SendPrepare"} : q'[z] = q[z]
          /\ \E r \in Packet : /\ q'["SendPrepare"] = Append(q["SendPrepare"], r)
                               /\ r.seq = p.seq /\ r.kind = "hello" /\ r.n = p.n
      BY <2>1, <1>6, <1>b, AddPacketAppends
    <2>3. PICK r \in Packet : /\ q'["SendPrepare"] = Append(q["SendPrepare"], r)
                              /\ r.seq = p.seq /\ r.kind = "hello" /\ r.n = p.n
      BY <2>2
    <2>4. PICK a, b \in Seq(Packet) : /\ InPipeline = a \o (<<p>> \o b)
                                      /\ InPipeline' = a \o (<<r>> \o b)
      <3>1. /\ Unhandled = <<p>> \o Unhandled' /\ Unsent' = Unsent
            /\ q'["Send"] = q["Send"] /\ q'["Recv"] = q["Recv"]
            /\ q'["RecvPrepare"] = q["RecvPrepare"]
        BY <2>2, <1>11
      <3>2. \E a, b \in Seq(Packet) :
              /\ InPipeline = a \o (<<p>> \o b)
              /\ q'["SendPrepare"] = q["SendPrepare"] => InPipeline' = a \o b
              /\ \A t \in Packet : q'["SendPrepare"] = Append(q["SendPrepare"], t) =>
                                     InPipeline' = a \o (<<t>> \o b)
        BY <3>1, <1>1, <1>5, HandleLine
      <3> QED BY <3>2, <2>3
    <2>5. EchoFifo'
      <3> SUFFICES ASSUME NEW d \in seqPool
                   PROVE  OldestFirst(InPipeline', asked[d], replied[d], d)
        BY <1>2 DEF EchoFifo
      <3>1. OldestFirst(a \o (<<p>> \o b), asked[d], replied[d], d)
        BY <1>1, <2>4 DEF EchoFifo
      <3>2. HelloOf(<<r>>, d) = HelloOf(<<p>>, d) /\ Rising(<<r>>, d)
        BY <2>3, <1>5, <1>12, HelloOne
      <3>3. <<p>> \in Seq(Packet) /\ <<r>> \in Seq(Packet)
        BY <1>5, <2>3
      <3>4. OldestFirst(a \o (<<r>> \o b), asked[d], replied[d], d)
        BY <3>1, <3>2, <3>3, PromiseSwap
      <3> QED BY <3>4, <2>4
    <2>6. q["SendPrepare"] \in Seq(Packet)
      BY <1>b DEF TypeOK
    <2>7. \A i \in 1..Len(q'["SendPrepare"]) :
            \/ i \in 1..Len(q["SendPrepare"]) /\ q'["SendPrepare"][i] = q["SendPrepare"][i]
            \/ q'["SendPrepare"][i] = r
      BY <2>3, <2>6
    <2>8. NumberInv'
      <3> SUFFICES ASSUME NEW x \in QName, NEW i \in 1..Len(q'[x])
                   PROVE  q'[x][i].n <= rx[q'[x][i].seq]
        BY <1>2 DEF NumberInv
      <3>1. CASE x # "SendPrepare"
        BY <3>1, <2>2, <1>1 DEF NumberInv
      <3>2. CASE x = "SendPrepare" /\ q'[x][i] = r
        BY <3>2, <2>3, <1>6
      <3>3. CASE x = "SendPrepare" /\ q'[x][i] # r
        BY <3>3, <2>7, <1>1 DEF NumberInv
      <3> QED BY <3>1, <3>2, <3>3
    <2>9. AnswersOut'
      <3> SUFFICES ASSUME NEW x \in {"Cache", "Send", "SendPrepare"}, NEW i \in 1..Len(q'[x])
                   PROVE  q'[x][i].kind = "hello"
        BY DEF AnswersOut
      <3>1. CASE x # "SendPrepare"
        <4>1. q'[x] = q[x]
          BY <3>1, <2>2, <1>b
        <4> QED BY <4>1, <1>1 DEF AnswersOut
      <3>2. CASE x = "SendPrepare" /\ q'[x][i] = r
        BY <3>2, <2>3
      <3>3. CASE x = "SendPrepare" /\ q'[x][i] # r
        BY <3>3, <2>7, <1>1 DEF AnswersOut
      <3> QED BY <3>1, <3>2, <3>3
    <2> QED BY <2>5, <2>8, <2>9, <1>9, <1>10 DEF FifoInv
  <1>13. CASE p.kind # "hello"
    <2>1. q' = q
      BY <1>2, <1>13 DEF queueVars
    <2>2. AnswersOut' /\ NumberInv'
      BY <2>1, <1>1, <1>2, SamePackets
    <2>3. PICK a, b \in Seq(Packet) : /\ InPipeline = a \o (<<p>> \o b)
                                      /\ InPipeline' = a \o b
      <3>1. /\ Unhandled = <<p>> \o Unhandled' /\ Unsent' = Unsent
            /\ q'["Send"] = q["Send"] /\ q'["Recv"] = q["Recv"]
            /\ q'["RecvPrepare"] = q["RecvPrepare"]
        BY <2>1, <1>11
      <3>2. \E a, b \in Seq(Packet) :
              /\ InPipeline = a \o (<<p>> \o b)
              /\ q'["SendPrepare"] = q["SendPrepare"] => InPipeline' = a \o b
              /\ \A t \in Packet : q'["SendPrepare"] = Append(q["SendPrepare"], t) =>
                                     InPipeline' = a \o (<<t>> \o b)
        BY <3>1, <1>1, <1>5, HandleLine
      <3>3. q'["SendPrepare"] = q["SendPrepare"]
        BY <2>1
      <3> QED BY <3>2, <3>3
    <2>4. EchoFifo'
      <3> SUFFICES ASSUME NEW d \in seqPool
                   PROVE  OldestFirst(InPipeline', asked[d], replied[d], d)
        BY <1>2 DEF EchoFifo
      <3>1. OldestFirst(a \o (<<p>> \o b), asked[d], replied[d], d)
        BY <1>1, <2>3 DEF EchoFifo
      <3>2. HelloOf(<<p>>, d) = {} /\ <<p>> \in Seq(Packet)
        BY <1>5, <1>13, HelloOne
      <3>3. OldestFirst(a \o b, asked[d], replied[d], d)
        BY <3>1, <3>2, PromiseDrop
      <3> QED BY <3>3, <2>3
    <2> QED BY <2>2, <2>4, <1>9, <1>10 DEF FifoInv
  <1> QED BY <1>12, <1>13

\* The order through the logic thread's round.
LEMMA LogicThreadFifo ==
  ASSUME TypeOK, WakeInv, TypeOK', WakeInv', FifoInv, LogicThread
  PROVE  FifoInv'
  <1>a. AnswersOut /\ NumberInv /\ FramesInv /\ CounterInv /\ CounterInv'
    BY DEF FifoInv, WakeInv
  <1>b. "Recv" \in QName /\ "RecvPrepare" \in QName /\ "Cache" \in QName /\ "Send" \in QName
        /\ "Logic" \in QName /\ "SendPrepare" \in QName
    BY DEF QName
  <1>c. UNCHANGED <<netVars, rx, asked, replied, born, seqPool>>
    BY DEF LogicThread, CheckAndSetSignalActived, CopyPacketsFromNetToLogic, HandleCSProto,
       HandleLoopDone, PacketSendPrepare, SendNetworkCmd, ReleaseLogicPacket,
       ReleaseLogicDone, historyVars, clientVars
  <1>d. FramesInv'
    BY <1>a, <1>c DEF FramesInv, netVars
  <1>e. ASSUME q'["Cache"] = q["Cache"] PROVE Unsent' = Unsent
    BY <1>c, <1>e DEF Unsent, netVars
  <1>1. CASE HandleCSProto
    BY <1>1, HandleCSProtoFifo
  <1>2. CASE CheckAndSetSignalActived \/ HandleLoopDone \/ SendNetworkCmd \/ ReleaseLogicDone
    <2>1. q' = q
      BY <1>2 DEF CheckAndSetSignalActived, HandleLoopDone, SendNetworkCmd, ReleaseLogicDone,
         queueVars
    <2>2. Unhandled' = Unhandled
      <3>1. CASE CheckAndSetSignalActived \/ ReleaseLogicDone
        <4>1. logicPc \in {"check", "release"} /\ logicPc' \in {"copy", "check"}
          BY <3>1 DEF CheckAndSetSignalActived, ReleaseLogicDone
        <4>2. Unhandled = <<>>
          BY <4>1, <1>a, NothingUnhandled
        <4>3. Unhandled' = <<>>
          BY <4>1, <1>a, RestsAfter
        <4> QED BY <4>2, <4>3
      <3>2. CASE HandleLoopDone
        <4>1. logicPc = "handle" /\ handled = num["Logic"] /\ logicPc' = "lastFlush"
          BY <3>2 DEF HandleLoopDone
        <4>2. q["Logic"] \in Seq(Packet) /\ handled \in Nat /\ handled >= Len(q["Logic"])
          BY <4>1, <1>a DEF TypeOK, QName, CounterInv
        <4>3. SubSeq(q["Logic"], handled + 1, Len(q["Logic"])) = <<>>
          BY <4>2, RestEmpty
        <4>4. Unhandled = <<>>
          BY <4>1, <4>3 DEF Unhandled
        <4>5. Unhandled' = <<>>
          BY <4>1 DEF Unhandled
        <4> QED BY <4>4, <4>5
      <3>3. CASE SendNetworkCmd
        <4>1. handled' = handled /\ (logicPc \in {"release", "lastFlush", "lastCmd"} <=>
                                     logicPc' \in {"release", "lastFlush", "lastCmd"})
          BY <3>3 DEF SendNetworkCmd
        <4> QED BY <4>1, <2>1 DEF Unhandled
      <3> QED BY <1>2, <3>1, <3>2, <3>3
    <2>3. AnswersOut' /\ NumberInv'
      BY <2>1, <1>a, <1>c, SamePackets
    <2>4. InPipeline' = InPipeline
      BY <2>1, <2>2, <1>e, QuietLine
    <2> QED BY <2>3, <2>4, <1>c, <1>d, LineKept
  <1>3. CASE CopyPacketsFromNetToLogic
    <2>1. /\ logicPc = "copy" /\ logicPc' = "handle" /\ handled' = 0
          /\ q' = [q EXCEPT !["Logic"] = q["Recv"], !["Recv"] = <<>>]
      BY <1>3 DEF CopyPacketsFromNetToLogic
    <2>2. q \in [QName -> Seq(Packet)]
      BY DEF TypeOK
    <2>3. /\ q'["Logic"] = q["Recv"] /\ q'["Recv"] = <<>>
          /\ \A z \in QName \ {"Logic", "Recv"} : q'[z] = q[z]
      BY <2>1, <2>2, <1>b
    <2>4. Unhandled = <<>>
      BY <2>1, <1>a, NothingUnhandled
    <2>5. Unhandled' = q["Recv"]
      <3>1. q["Recv"] \in Seq(Packet)
        BY <2>2, <1>b
      <3>2. Unhandled' = SubSeq(q["Recv"], 0 + 1, Len(q["Recv"]))
        BY <2>1, <2>3 DEF Unhandled
      <3>3. SubSeq(q["Recv"], 1, Len(q["Recv"])) = q["Recv"]
        BY <3>1, SubSeqFull
      <3> QED BY <3>2, <3>3
    <2>6. /\ q'["RecvPrepare"] = q["RecvPrepare"] /\ q'["Send"] = q["Send"]
          /\ q'["SendPrepare"] = q["SendPrepare"] /\ q'["Cache"] = q["Cache"]
      BY <2>3, <1>b
    <2>7. InPipeline' = InPipeline
      BY <2>3, <2>4, <2>5, <2>6, <1>e, LogicLine
    <2>8. NumberInv'
      <3> SUFFICES ASSUME NEW x \in QName, NEW i \in 1..Len(q'[x])
                   PROVE  q'[x][i].n <= rx[q'[x][i].seq]
        BY <1>c DEF NumberInv
      <3>1. CASE x = "Logic"
        BY <3>1, <2>3, <1>a, <1>b DEF NumberInv
      <3>2. CASE x = "Recv"
        BY <3>2, <2>3
      <3>3. CASE x \notin {"Logic", "Recv"}
        BY <3>3, <2>3, <1>a DEF NumberInv
      <3> QED BY <3>1, <3>2, <3>3
    <2>9. AnswersOut'
      BY <2>6, <1>a DEF AnswersOut
    <2> QED BY <2>7, <2>8, <2>9, <1>c, <1>d, LineKept
  <1>4. CASE PacketSendPrepare
    <2>1. /\ CopyFrom("Send", "SendPrepare") /\ handled' = handled
          /\ (logicPc \in {"release", "lastFlush", "lastCmd"} <=>
              logicPc' \in {"release", "lastFlush", "lastCmd"})
      BY <1>4 DEF PacketSendPrepare
    <2>2. \A z \in QName \ {"Send", "SendPrepare"} : q'[z] = q[z]
      BY <2>1, <1>a, <1>b, CopyFromConcat
    <2>3. q'["Logic"] = q["Logic"] /\ q'["Cache"] = q["Cache"]
      BY <2>2, <1>b
    <2>4. Unhandled' = Unhandled
      BY <2>1, <2>3 DEF Unhandled
    <2>5. InPipeline' = InPipeline
      BY <2>1, <2>3, <2>4, <1>a, <1>e, SendPrepareLine
    <2>6. AnswersOut' /\ NumberInv'
      BY <2>1, <1>a, <1>b, <1>c, CopyFromPackets
    <2> QED BY <2>5, <2>6, <1>c, <1>d, LineKept
  <1>5. CASE ReleaseLogicPacket
    <2>1. /\ logicPc = "release" /\ logicPc' = "release" /\ q["Logic"] # <<>> /\ ReleaseHead("Logic")
      BY <1>5 DEF ReleaseLogicPacket, logicVars
    <2>2. AnswersOut' /\ NumberInv' /\ \A z \in QName \ {"Logic"} : q'[z] = q[z]
      BY <2>1, <1>a, <1>b, <1>c, ReleasePackets
    <2>3. Unhandled' = Unhandled
      BY <2>1 DEF Unhandled
    <2>4. \A z \in {"Recv", "RecvPrepare", "Send", "SendPrepare", "Cache"} : q'[z] = q[z]
      BY <2>2 DEF QName
    <2>5. InPipeline' = InPipeline
      BY <2>3, <2>4, <1>e DEF InPipeline
    <2> QED BY <2>2, <2>5, <1>c, <1>d, LineKept
  <1> QED BY <1>1, <1>2, <1>3, <1>4, <1>5 DEF LogicThread

\* Steps that touch no packet: a command is read from the pipe, another
\* context uses the memory pool.
LEMMA QuietFifo ==
  ASSUME TypeOK, WakeInv, TypeOK', WakeInv', FifoInv,
         OnRecvNetCmdCtrl \/ OtherContexts \/ UNCHANGED vars
  PROVE  FifoInv'
  <1>a. AnswersOut /\ NumberInv /\ FramesInv /\ CounterInv /\ CounterInv'
    BY DEF FifoInv, WakeInv
  <1>1. UNCHANGED <<q, logicVars, sent, cur, batch, rx, asked, replied, born, seqPool>>
    BY DEF OnRecvNetCmdCtrl, OtherContexts, OtherContextTakes, OtherContextReleases, vars,
       queueVars, netVars, clientVars, historyVars
  <1>2. netPc' = netPc \/ (netPc = "loop" /\ netPc' = "cache")
    BY DEF OnRecvNetCmdCtrl, OtherContexts, OtherContextTakes, OtherContextReleases, vars,
       netVars
  <1>3. Unsent' = Unsent
    BY <1>1, <1>2 DEF Unsent
  <1>4. Unhandled' = Unhandled
    BY <1>1, SameUnhandled
  <1>5. InPipeline' = InPipeline
    BY <1>1, <1>3, <1>4, QuietLine
  <1>6. AnswersOut' /\ NumberInv'
    BY <1>1, <1>a, SamePackets
  <1>7. FramesInv'
    BY <1>1, <1>2, <1>a DEF FramesInv
  <1> QED BY <1>1, <1>5, <1>6, <1>7, LineKept

\* The order of requests and answers is an inductive invariant of the
\* pipeline.
THEOREM PipelineFifoInductive == Spec => []FifoInv
  <1>1. TypeOK /\ WakeInv /\ TypeOK' /\ WakeInv' /\ FifoInv /\ [Next]_vars => FifoInv'
    <2> SUFFICES ASSUME TypeOK, WakeInv, TypeOK', WakeInv', FifoInv, [Next]_vars
                 PROVE  FifoInv'
      OBVIOUS
    <2>1. CASE NetEvent
      BY <2>1, NetEventFifo
    <2>2. CASE OnRecvNetCmdCtrl \/ OtherContexts \/ UNCHANGED vars
      BY <2>2, QuietFifo
    <2>3. CASE NetHandler
      BY <2>3, NetHandlerFifo
    <2>4. CASE LogicThread
      BY <2>4, LogicThreadFifo
    <2> QED BY <2>1, <2>2, <2>3, <2>4 DEF Next
  <1> QED BY <1>1, InitFifo, PipelineWakeInductive, PTL DEF Spec

\* Every request of a connected client is answered or in the pipeline, once
\* and in order, whatever the two threads, the other clients and the reuse
\* of descriptors do.
THEOREM PipelineEchoFifo == Spec => []EchoFifo
  <1>1. FifoInv => EchoFifo
    BY DEF FifoInv
  <1> QED BY <1>1, PipelineFifoInductive, PTL

-----------------------------------------------------------------------------
(* The pipeline implements the echo service                                *)

\* A step that leaves the pool and the histories alone is a stutter.
LEMMA EchoStutter ==
  ASSUME UNCHANGED <<seqPool, asked, replied>>
  PROVE  UNCHANGED Echo!echoVars
  BY DEF Echo!echoVars

\* Closing a client of the pool closes its connection.
LEMMA EchoClose ==
  ASSUME TypeOK, NEW c \in seqPool, CloseClient(c), UNCHANGED <<asked, replied>>
  PROVE  Echo!EchoNext
  <1>1. Echo!Close(c)
    BY DEF Echo!Close, CloseClient
  <1> QED BY <1>1 DEF Echo!EchoNext, TypeOK

\* Events of the event loop open and close connections, or stutter.
LEMMA NetEventEcho ==
  ASSUME TypeOK, WakeInv, FifoInv, NetEvent
  PROVE  Echo!EchoNext \/ UNCHANGED Echo!echoVars
  <1>a. PoolsAgree /\ BornInv /\ AskedInv /\ seqPool \subseteq Conns
    BY DEF WakeInv, FifoInv, TypeOK
  <1>1. ASSUME NEW c \in Conns, NEW fd \in Fds, OnListenerAcceptConnect(c, fd)
        PROVE  Echo!EchoNext
    <2>1. /\ c \notin born /\ fd \notin openFds /\ seqPool' = (seqPool \ {fdPool[fd]}) \cup {c}
          /\ UNCHANGED <<asked, replied>>
      BY <1>1 DEF OnListenerAcceptConnect, historyVars
    <2>2. fdPool[fd] \notin seqPool
      <3>1. CASE fdPool[fd] = None
        BY <3>1, <1>a, NoneAssumption
      <3>2. CASE fdPool[fd] # None
        BY <3>2, <2>1, <1>a DEF PoolsAgree
      <3> QED BY <3>1, <3>2
    <2>3. seqPool' = seqPool \cup {c} /\ c \notin seqPool /\ asked[c] = <<>>
      BY <2>1, <2>2, <1>a DEF BornInv, AskedInv
    <2>4. Echo!Open(c)
      BY <2>1, <2>3 DEF Echo!Open
    <2> QED BY <2>4 DEF Echo!EchoNext
  <1>2. ASSUME NEW fd \in Fds, AcceptSetSocketOptFails(fd)
        PROVE  UNCHANGED Echo!echoVars
    BY <1>2, EchoStutter DEF AcceptSetSocketOptFails, historyVars
  <1>3. ASSUME NEW c \in Conns, OnBufferEventTrigger(c)
        PROVE  Echo!EchoNext
    <2>1. /\ CloseClient(fdPool[fdOf[c]]) /\ fdPool[fdOf[c]] \in seqPool
          /\ UNCHANGED <<asked, replied>>
      BY <1>3, <1>a DEF OnBufferEventTrigger, historyVars, PoolsAgree
    <2> QED BY <2>1, EchoClose
  <1>4. ASSUME NEW c \in Conns, NEW b \in Batches(c), OnBufferEventRead(c, b)
        PROVE  UNCHANGED Echo!echoVars
    BY <1>4, EchoStutter DEF OnBufferEventRead, historyVars, clientVars
  <1> QED BY <1>1, <1>2, <1>3, <1>4 DEF NetEvent

\* A frame that is unpacked is a request, or nothing the service knows of.
LEMMA UnpackFrameEcho ==
  ASSUME TypeOK, WakeInv, FifoInv, UnpackFrame
  PROVE  Echo!EchoNext \/ UNCHANGED Echo!echoVars
  <1> DEFINE n == rx[cur] + 1
  <1>1. FramesInv /\ CurInv
    BY DEF FifoInv, WakeInv
  <1>2. netPc = "unpack" /\ cur \in seqPool /\ cur \in Conns /\ rx[cur] \in Nat
    BY <1>1, CurType DEF UnpackFrame, CurInv
  <1>3. n \in Requests
    <2>1. batch \in Seq(Kind) /\ batch # <<>>
      BY DEF UnpackFrame, TypeOK
    <2>2. Len(batch) \in Nat /\ Len(batch) >= 1
      BY <2>1
    <2>3. rx[cur] + Len(batch) <= MaxFrames[cur]
      BY <1>1, <1>2 DEF FramesInv
    <2>4. n \in 1..MaxFrames[cur]
      BY <2>2, <2>3, <1>2, BoundAssumption
    <2> QED BY <2>4, <1>2 DEF Requests
  <1>4. /\ UNCHANGED <<seqPool, replied>>
        /\ asked' = IF Head(batch) = "hello" THEN [asked EXCEPT ![cur] = Append(@, n)] ELSE asked
    BY DEF UnpackFrame, clientVars
  <1> HIDE DEF n
  <1>5. CASE Head(batch) = "hello"
    <2>1. Echo!Ask(cur, n)
      BY <1>2, <1>4, <1>5 DEF Echo!Ask
    <2> QED BY <2>1, <1>2, <1>3 DEF Echo!EchoNext
  <1>6. CASE Head(batch) # "hello"
    BY <1>4, <1>6, EchoStutter
  <1> QED BY <1>5, <1>6

\* The network thread's other handlers answer, close a connection or stutter.
LEMMA NetHandlerEcho ==
  ASSUME TypeOK, WakeInv, TypeOK', WakeInv', FifoInv, NetHandler
  PROVE  Echo!EchoNext \/ UNCHANGED Echo!echoVars
  <1>1. CASE UnpackFrame
    BY <1>1, UnpackFrameEcho
  <1>2. CASE UnpackBadFrame
    <2>1. cur \in seqPool /\ CloseClient(cur) /\ UNCHANGED <<asked, replied>>
      BY <1>2 DEF UnpackBadFrame, WakeInv, CurInv, historyVars
    <2> QED BY <2>1, EchoClose
  <1>3. CASE PacketBufferSend
    <2>1. UNCHANGED <<seqPool, asked>>
      BY <1>3 DEF PacketBufferSend, clientVars
    <2>2. \/ replied' = replied
          \/ \E c \in seqPool : /\ Len(replied[c]) < Len(asked[c])
                                /\ replied' = [replied EXCEPT ![c] =
                                                 Append(@, asked[c][Len(@) + 1])]
      BY <1>3, PacketBufferSendFifo
    <2>3. CASE replied' = replied
      BY <2>1, <2>3, EchoStutter
    <2>4. ASSUME NEW c \in seqPool, Len(replied[c]) < Len(asked[c]),
                 replied' = [replied EXCEPT ![c] = Append(@, asked[c][Len(@) + 1])]
          PROVE  Echo!EchoNext
      <3>1. Echo!Reply(c)
        BY <2>1, <2>4 DEF Echo!Reply
      <3> QED BY <3>1 DEF Echo!EchoNext, TypeOK
    <2> QED BY <2>2, <2>3, <2>4
  <1>4. CASE \/ PacketRecvPrepare \/ Emit \/ ReadDone \/ PacketSendPrepareCache
             \/ SendLoopDone \/ ReleaseCachePacket \/ ReleaseCacheDone
             \/ netPc = "reread" /\ \E b \in Batches(cur) : ReadAgain(b)
    <2>1. UNCHANGED <<seqPool, asked, replied>>
      BY <1>4 DEF PacketRecvPrepare, Emit, ReadDone, PacketSendPrepareCache, SendLoopDone,
         ReleaseCachePacket, ReleaseCacheDone, ReadAgain, clientVars, historyVars
    <2> QED BY <2>1, EchoStutter
  <1> QED BY <1>1, <1>2, <1>3, <1>4 DEF NetHandler

\* The two threads with their queues, the memory pool and the two client
\* maps implement the echo service: nothing is answered that was not asked,
\* twice, out of order, to somebody else or to a client that has gone.
THEOREM PipelineImplementsEcho == Spec => ImplementsEchoSafety
  <1>1. Init => Echo!EchoInit
    BY DEF Init, Echo!EchoInit
  <1>2. TypeOK /\ WakeInv /\ TypeOK' /\ WakeInv' /\ FifoInv /\ [Next]_vars =>
          [Echo!EchoNext]_(Echo!echoVars)
    <2> SUFFICES ASSUME TypeOK, WakeInv, TypeOK', WakeInv', FifoInv, [Next]_vars
                 PROVE  Echo!EchoNext \/ UNCHANGED Echo!echoVars
      OBVIOUS
    <2>1. CASE NetEvent
      BY <2>1, NetEventEcho
    <2>2. CASE NetHandler
      BY <2>2, NetHandlerEcho
    <2>3. CASE OnRecvNetCmdCtrl \/ LogicThread \/ OtherContexts \/ UNCHANGED vars
      <3>1. UNCHANGED <<seqPool, asked, replied>>
        BY <2>3 DEF OnRecvNetCmdCtrl, LogicThread, CheckAndSetSignalActived,
           CopyPacketsFromNetToLogic, HandleCSProto, HandleLoopDone, PacketSendPrepare,
           SendNetworkCmd, ReleaseLogicPacket, ReleaseLogicDone, OtherContexts,
           OtherContextTakes, OtherContextReleases, vars, clientVars, historyVars
      <3> QED BY <3>1, EchoStutter
    <2> QED BY <2>1, <2>2, <2>3 DEF Next
  <1> QED BY <1>1, <1>2, PipelineWakeInductive, PipelineFifoInductive, PTL
          DEF Spec, ImplementsEchoSafety, Echo!EchoSafety
=============================================================================
