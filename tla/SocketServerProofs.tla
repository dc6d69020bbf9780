------------------------- MODULE SocketServerProofs -------------------------
(***************************************************************************)
(* Theorems about SocketServer: the types of its state for any use of the  *)
(* interface and, for a program that opens one socket by itself, as the    *)
(* game server does, that slots, descriptors, epoll and the events of a    *)
(* batch stay together and that queued data is watched for; and, again     *)
(* for any use, that packets go whole and in the order of their            *)
(* priorities from the pipe through the lists of a socket to its wire and  *)
(* that each buffer is freed once.                                         *)
(***************************************************************************)
EXTENDS SocketServer, FiniteSetTheorems, SequenceTheorems, NaturalsInduction,
        WellFoundedInduction, TLAPS

-----------------------------------------------------------------------------
(* Types                                                                   *)

SlotRec == [type : Types, id : Ids \cup {Nil}, fd : Ids \cup {Nil},
            high : Seq(Chunk), low : Seq(Chunk), wb_size : Nat,
            kind : Kinds, peer : BOOLEAN]
EventRec == [s : Table \cup {NoSlot}, fd : Ids \cup {Nil}, read : BOOLEAN, write : BOOLEAN]
Ops == {"S", "L", "K", "O", "U", "B", "C", "D", "P", "A"}
Opens == {"L", "O", "U", "B"}
Sends == {"D", "P", "A"}
CallRec == [pc : {"idle", "fetch", "look", "cas", "setid", "request"}, tries : Nat,
            req : [op : Ops, id : Ids \cup {Nil}, pkt : {Nil}, fits : BOOLEAN]]
MsgTypes == {"NONE", "ERROR", "OPEN", "CLOSE", "ACCEPT", "DATA", "UDP"}
Used == {"L", "O", "U", "B", "C", "D", "K"}

\* How many chunks are queued on s, and that wb_size counts them.
Size(s) == Len(s.high) + Len(s.low)
Counted(s) == Size(s) <= s.wb_size

SlotType == slot \in [Table -> SlotRec] /\ \A n \in Table : Counted(slot[n])
FdType == opened \subseteq Ids /\ epoll \in [Ids -> {"NONE", "IN", "INOUT"}]
PipeType ==
  /\ ctrl \in Seq(Request) /\ Len(ctrl) <= PipeCap
  /\ \A i \in DOMAIN ctrl : ctrl[i].op \in Sends => ctrl[i].pkt # Nil
EventType == ev \in Seq(EventRec) /\ checkctrl \in BOOLEAN
MsgType ==
  /\ pollPc \in {"loop", "event", "clear", "start"}
  /\ msg \in [type : MsgTypes, id : Ids \cup {Nil}]
  /\ pollPc = "start" => msg.id \in Ids
CallType ==
  /\ alloc_id \in 0 .. MaxId
  /\ user \in [Users -> CallRec]
  /\ \A u \in Users : user[u].pc \in {"look", "cas", "setid", "request"} => user[u].req.id \in Ids
  /\ used \in [Used -> Nat] /\ used["D"] <= MaxSends
  /\ known \subseteq Ids
HistType == freed \subseteq 1 .. MaxSends /\ wire \in [Ids -> Seq(Chunk)]

TypeInv ==
  SlotType /\ FdType /\ PipeType /\ EventType /\ MsgType /\ CallType /\ HistType

-----------------------------------------------------------------------------
(* Slots, descriptors and epoll                                            *)

InUse(s) == s.type \notin {"INVALID", "RESERVE"}

\* Slot n, its descriptor and what epoll knows of the descriptors that the
\* slot may have.
SlotOK(n) ==
  LET s == slot[n] IN
    /\ InUse(s) => /\ s.id \in Ids /\ HASH_ID(s.id) = n /\ s.fd = s.id /\ s.fd \in opened
                   /\ (epoll[s.fd] = "NONE") <=> (s.type \in {"PLISTEN", "PACCEPT"})
    /\ ~send_buffer_empty(s) =>
         /\ s.type \in {"CONNECTING", "CONNECTED", "HALFCLOSE", "BIND"}
         /\ s.type # "BIND" /\ s.kind # "bound" => epoll[s.fd] = "INOUT"
    /\ s.type = "CONNECTING" => epoll[s.fd] = "INOUT"
    /\ s.type = "BIND" => s.kind = "bound"
    /\ \A i \in Ids : HASH_ID(i) = n /\ epoll[i] # "NONE" => InUse(s) /\ s.fd = i

\* An event of the batch is about the socket that is in its slot or that was
\* closed just now; no two events are about one slot.
EventOK(e) ==
  e.s # NoSlot =>
    /\ slot[e.s].id = e.fd
    /\ InUse(slot[e.s]) \/ (slot[e.s].type = "INVALID" /\ pollPc = "clear" /\ msg.id = e.fd)

EventInv ==
  /\ \A i \in DOMAIN ev : EventOK(ev[i])
  /\ \A i, j \in DOMAIN ev : i # j /\ ev[i].s # NoSlot => ev[i].s # ev[j].s

-----------------------------------------------------------------------------
(* One socket is opened by the callers, and nothing happens before it      *)

opens == used["L"] + used["O"] + used["U"] + used["B"]

Opening(u) ==
  \/ user[u].pc \in {"fetch", "look", "cas", "setid"}
  \/ user[u].pc = "request" /\ user[u].req.op \in Opens

\* No socket is in use yet.
Before ==
  /\ \A n \in Table : ~InUse(slot[n]) /\ send_buffer_empty(slot[n])
  /\ \A i \in Ids : epoll[i] = "NONE"
  /\ \A i \in DOMAIN ev : ev[i].s = NoSlot
  /\ pollPc \in {"loop", "event"} /\ msg = NoMsg

\* Exactly the slot of id is reserved; with a descriptor, unless connect()
\* makes it.
Reserved(id) == \A n \in Table : slot[n].type = "RESERVE" <=> n = HASH_ID(id)
HasFd(r) == r.op \in {"L", "U", "B"} => r.id \in opened

Start ==
  /\ opens = 0 /\ Before /\ ctrl = <<>> /\ known = {}
  /\ \A u \in Users : user[u].pc = "idle"
  /\ \A n \in Table : slot[n].type = "INVALID"

InCall(u) ==
  /\ opens = 1 /\ Before /\ ctrl = <<>> /\ known = {}
  /\ Opening(u) /\ user[u].req.op \in Opens
  /\ \A v \in Users : v # u => user[v].pc = "idle"
  /\ user[u].pc \in {"fetch", "look", "cas"} => \A n \in Table : slot[n].type = "INVALID"
  /\ user[u].pc \in {"setid", "request"} => Reserved(user[u].req.id)
  /\ user[u].pc = "request" => HasFd(user[u].req)

InPipe ==
  /\ opens = 1 /\ Before
  /\ \A u \in Users : ~Opening(u)
  /\ ctrl # <<>> /\ ctrl[1].op \in Opens
  /\ \A i \in DOMAIN ctrl : i # 1 => ctrl[i].op \notin Opens
  /\ Reserved(ctrl[1].id) /\ HasFd(ctrl[1])

After ==
  /\ opens = 1
  /\ \A u \in Users : ~Opening(u)
  /\ \A i \in DOMAIN ctrl : ctrl[i].op \notin Opens
  /\ \A n \in Table : slot[n].type # "RESERVE"

Phase == Start \/ (\E u \in Users : InCall(u)) \/ InPipe \/ After

IInv == TypeInv /\ (\A n \in Table : SlotOK(n)) /\ EventInv /\ Phase

-----------------------------------------------------------------------------
(* Operators                                                               *)

\* The constants are numbers in their ranges.
LEMMA Bounds ==
  /\ MaxSocket \in Nat \ {0} /\ PktLen \in Nat \ {0} /\ PipeCap \in Nat \ {0}
  /\ MaxId \in Nat /\ MaxSends \in Nat /\ MaxEvent \in Nat \ {0}
  BY SlotAssumption, PipeAssumption, BoundAssumption

\* The strengthened types imply the type invariant.
LEMMA TypeInvIs == TypeInv => TypeOK
  BY DEF TypeInv, SlotType, FdType, PipeType, EventType, MsgType, CallType, HistType, TypeOK, SlotRec, EventRec

\* An id hashes to a slot of the table.
LEMMA HashType == \A i \in Nat : HASH_ID(i) \in Table
  BY Bounds DEF HASH_ID, Table

\* The fields of a slot of the table have their types.
LEMMA SlotFields ==
  ASSUME NEW s \in SlotRec
  PROVE  /\ s.type \in Types /\ s.id \in Ids \cup {Nil} /\ s.fd \in Ids \cup {Nil}
         /\ s.high \in Seq(Chunk) /\ s.low \in Seq(Chunk) /\ s.wb_size \in Nat
         /\ s.kind \in Kinds /\ s.peer \in BOOLEAN
  BY DEF SlotRec

\* The chunks of a packet.
LEMMA ChunksType ==
  ASSUME NEW p \in 1 .. MaxSends, NEW low \in BOOLEAN, NEW fits \in BOOLEAN,
         NEW k \in 0 .. PktLen
  PROVE  Chunks(p, low, fits, k) \in Seq(Chunk) /\ Len(Chunks(p, low, fits, k)) = PktLen - k
  <1>1. PktLen - k \in Nat
    BY Bounds
  <1>2. \A i \in 1 .. (PktLen - k) : [pkt |-> p, at |-> k + i, low |-> low, fits |-> fits] \in Chunk
    BY Bounds DEF Chunk
  <1> QED BY <1>1, <1>2 DEF Chunks

\* A list of chunks holds chunks of packets that were sent.
LEMMA PacketsType ==
  ASSUME NEW l \in Seq(Chunk)
  PROVE  Packets(l) \subseteq 1 .. MaxSends
  <1>1. \A i \in DOMAIN l : l[i] \in Chunk
    OBVIOUS
  <1> QED BY <1>1 DEF Packets, Chunk

\* A piece of a sequence.
LEMMA Piece ==
  ASSUME NEW S, NEW l \in Seq(S), NEW a \in 1 .. (Len(l) + 1), NEW b \in 0 .. Len(l), a <= b + 1
  PROVE  SubSeq(l, a, b) \in Seq(S) /\ Len(SubSeq(l, a, b)) = b - a + 1
  <1>1. a \in Int /\ b \in Int /\ Len(l) \in Nat
    OBVIOUS
  <1>2. \A i \in a .. b : l[i] \in S
    <2> SUFFICES ASSUME NEW i \in a .. b PROVE l[i] \in S
      OBVIOUS
    <2>1. i \in 1 .. Len(l)
      BY <1>1
    <2> QED BY <2>1
  <1>3. SubSeq(l, a, b) \in Seq(S) /\ Len(SubSeq(l, a, b)) = IF a <= b THEN b - a + 1 ELSE 0
    BY <1>1, <1>2, SubSeqProperties
  <1> QED BY <1>1, <1>3

\* A sum of naturals is zero exactly when both are.
LEMMA SumZero == \A a, b \in Nat : a + b \in Nat /\ (a + b = 0 <=> a = 0 /\ b = 0)
  OBVIOUS

\* The two lists of a slot, joined, have the length Size, which is 0 when there is nothing to send.
LEMMA QueuedType ==
  ASSUME NEW s \in SlotRec
  PROVE  /\ Queued(s) \in Seq(Chunk) /\ Size(s) \in Nat /\ Len(Queued(s)) = Size(s)
         /\ Len(s.high) \in Nat /\ Len(s.low) \in Nat
         /\ send_buffer_empty(s) <=> Size(s) = 0
  <1>1. s.high \in Seq(Chunk) /\ s.low \in Seq(Chunk)
    BY SlotFields
  <1>2. Len(s.high) \in Nat /\ Len(s.low) \in Nat
    BY <1>1
  <1>3. Queued(s) \in Seq(Chunk) /\ Len(Queued(s)) = Size(s)
    BY <1>1 DEF Queued, Size
  <1>4. (s.high = <<>> <=> Len(s.high) = 0) /\ (s.low = <<>> <=> Len(s.low) = 0)
    BY <1>1
  <1>5. Size(s) \in Nat /\ (Size(s) = 0 <=> Len(s.high) = 0 /\ Len(s.low) = 0)
    BY <1>2, SumZero DEF Size
  <1>6. send_buffer_empty(s) <=> Size(s) = 0
    BY <1>4, <1>5, Zenon DEF send_buffer_empty
  <1> QED BY <1>2, <1>3, <1>5, <1>6

\* What stays of slot s when its lists are replaced by high and low.
SameSlot(t, s) == t.type = s.type /\ t.id = s.id /\ t.fd = s.fd /\ t.kind = s.kind /\ t.peer = s.peer

\* raise_uncomplete moves the head of low to high.
LEMMA RaiseIs ==
  ASSUME NEW s \in SlotRec, s.high = <<>>, s.low # <<>>
  PROVE  LET r == raise_uncomplete(s) IN
         r \in SlotRec /\ SameSlot(r, s) /\ r.wb_size = s.wb_size /\ Size(r) = Size(s)
  <1> DEFINE D == { i \in DOMAIN s.low : s.low[i].pkt = Head(s.low).pkt }
             c == Cardinality(D)
             l == Len(s.low)
             x == SubSeq(s.low, 1, c)
             y == SubSeq(s.low, c + 1, l)
             r == raise_uncomplete(s)
  <1>1. s.low \in Seq(Chunk) /\ l \in Nat /\ DOMAIN s.low = 1 .. l
    BY SlotFields
  <1>2. c \in Nat /\ c <= l
    <2>1. IsFiniteSet(1 .. l) /\ Cardinality(1 .. l) = l
      BY <1>1, FS_Interval
    <2>2. IsFiniteSet(D) /\ c <= Cardinality(1 .. l)
      BY <2>1, <1>1, FS_Subset
    <2>3. c \in Nat
      BY <2>2, FS_CardinalityType
    <2> QED BY <2>1, <2>2, <2>3
  <1> HIDE DEF c
  <1>3. x \in Seq(Chunk) /\ Len(x) = c /\ y \in Seq(Chunk) /\ Len(y) = l - c
    <2>1. c \in 0 .. l /\ 1 \in 1 .. (l + 1) /\ c + 1 \in 1 .. (l + 1)
          /\ l \in 0 .. l /\ 1 <= c + 1 /\ c + 1 <= l + 1
      <3> HIDE DEF l
      <3> QED BY <1>1, <1>2
    <2>2. x \in Seq(Chunk) /\ Len(x) = c - 1 + 1
      BY <1>1, <2>1, Piece
    <2>3. y \in Seq(Chunk) /\ Len(y) = l - (c + 1) + 1
      BY <1>1, <2>1, Piece
    <2> HIDE DEF x, y, l
    <2> QED BY <1>1, <1>2, <2>2, <2>3
  <1>4. r = [s EXCEPT !.high = x, !.low = y]
    BY Zenon DEF raise_uncomplete, c
  <1> HIDE DEF x, y
  <1>5. r \in SlotRec /\ SameSlot(r, s) /\ r.wb_size = s.wb_size /\ r.high = x /\ r.low = y
    BY <1>3, <1>4 DEF SlotRec, SameSlot
  <1>6. Size(s) = l
    <2>1. Len(s.high) = 0
      OBVIOUS
    <2>2. \A n \in Nat : 0 + n = n
      OBVIOUS
    <2> QED BY <1>1, <2>1, <2>2 DEF Size
  <1>7. Size(r) = l
    <2>1. Size(r) = Len(x) + Len(y)
      BY <1>5 DEF Size
    <2> HIDE DEF l
    <2> QED BY <1>1, <1>2, <1>3, <2>1
  <1> QED BY <1>5, <1>6, <1>7

\* Written takes k chunks off the queue and counts them.
LEMMA WrittenIs ==
  ASSUME NEW s \in SlotRec, Counted(s), NEW k \in 0 .. Size(s)
  PROVE  LET w == Written(s, k) IN
         w \in SlotRec /\ SameSlot(w, s) /\ Counted(w) /\ Size(w) = Size(s) - k
  <1> DEFINE h == Len(s.high)
             l == Len(s.low)
             b == s.wb_size
             high == IF k < h THEN SubSeq(s.high, k + 1, h) ELSE <<>>
             low == IF k > h THEN SubSeq(s.low, k - h + 1, l) ELSE s.low
             t == [s EXCEPT !.high = high, !.low = low, !.wb_size = @ - k]
  <1>1. /\ s.high \in Seq(Chunk) /\ s.low \in Seq(Chunk) /\ h \in Nat /\ l \in Nat
        /\ b \in Nat /\ Size(s) = h + l
    BY SlotFields DEF Size
  <1>2. k \in Nat /\ k <= h + l /\ h + l <= b
    <2>1. Size(s) <= b
      BY DEF Counted
    <2> HIDE DEF h, l, b
    <2> QED BY <1>1, <2>1
  <1>3. high \in Seq(Chunk) /\ Len(high) = IF k < h THEN h - k ELSE 0
    <2>1. CASE k < h
      <3>1. k + 1 \in 1 .. (h + 1) /\ h \in 0 .. h /\ k + 1 <= h + 1
        <4> HIDE DEF h
        <4> QED BY <1>1, <1>2, <2>1
      <3>2. SubSeq(s.high, k + 1, h) \in Seq(Chunk) /\ Len(SubSeq(s.high, k + 1, h)) = h - (k + 1) + 1
        BY <1>1, <3>1, Piece
      <3>3. high = SubSeq(s.high, k + 1, h)
        BY <2>1
      <3> HIDE DEF h, high
      <3> QED BY <1>1, <1>2, <2>1, <3>2, <3>3
    <2>2. CASE ~(k < h)
      BY <2>2
    <2> QED BY <2>1, <2>2
  <1>4. low \in Seq(Chunk) /\ Len(low) = IF k > h THEN l - (k - h) ELSE l
    <2>1. CASE k > h
      <3>1. k - h + 1 \in 1 .. (l + 1) /\ l \in 0 .. l /\ k - h + 1 <= l + 1
        <4> HIDE DEF h, l
        <4> QED BY <1>1, <1>2, <2>1
      <3>2. /\ SubSeq(s.low, k - h + 1, l) \in Seq(Chunk)
            /\ Len(SubSeq(s.low, k - h + 1, l)) = l - (k - h + 1) + 1
        BY <1>1, <3>1, Piece
      <3>3. low = SubSeq(s.low, k - h + 1, l)
        BY <2>1
      <3> HIDE DEF h, l, low
      <3> QED BY <1>1, <1>2, <2>1, <3>2, <3>3
    <2>2. CASE ~(k > h)
      BY <1>1, <2>2
    <2> QED BY <2>1, <2>2
  <1> HIDE DEF high, low
  <1>5. b - k \in Nat
    <2> HIDE DEF b, h, l
    <2> QED BY <1>1, <1>2
  <1>6. t \in SlotRec /\ SameSlot(t, s) /\ t.high = high /\ t.low = low /\ t.wb_size = b - k
    BY <1>3, <1>4, <1>5 DEF SlotRec, SameSlot
  <1> HIDE DEF t
  <1>7. Size(t) = Len(high) + Len(low)
    BY <1>6 DEF Size
  <1>8. Size(t) = Size(s) - k /\ Size(t) <= b - k
    <2> HIDE DEF h, l, b
    <2> QED BY <1>1, <1>2, <1>3, <1>4, <1>7
  <1>9. Written(s, k) = IF t.high = <<>> /\ s.low # <<>> /\ list_uncomplete(t.low)
                        THEN raise_uncomplete(t) ELSE t
    BY Zenon DEF Written, t, high, low
  <1>10. CASE t.high = <<>> /\ s.low # <<>> /\ list_uncomplete(t.low)
    <2> DEFINE r == raise_uncomplete(t)
    <2>1. t.low # <<>>
      BY <1>10 DEF list_uncomplete
    <2>2. r \in SlotRec /\ SameSlot(r, t) /\ r.wb_size = t.wb_size /\ Size(r) = Size(t)
      BY <1>6, <1>10, <2>1, RaiseIs
    <2>3. Written(s, k) = r
      BY <1>9, <1>10
    <2> HIDE DEF r
    <2>4. SameSlot(r, s) /\ r.wb_size = b - k
      BY <1>6, <2>2 DEF SameSlot
    <2> QED BY <1>8, <2>2, <2>3, <2>4 DEF Counted
  <1>11. CASE ~(t.high = <<>> /\ s.low # <<>> /\ list_uncomplete(t.low))
    <2>1. Written(s, k) = t
      BY <1>9, <1>11
    <2> QED BY <1>6, <1>8, <2>1 DEF Counted
  <1> QED BY <1>10, <1>11

-----------------------------------------------------------------------------
(* Types: steps of the poll thread                                         *)

\* A request that is taken from the pipe.
LEMMA CmdIs ==
  ASSUME TypeInv, NEW op, Cmd(op)
  PROVE  LET r == Head(ctrl) IN
         /\ PipeType' /\ EventType' /\ r \in Request /\ r.op \in op /\ r.id \in Ids
         /\ r.fits \in BOOLEAN /\ HASH_ID(r.id) \in Table /\ slot[HASH_ID(r.id)] \in SlotRec
         /\ Counted(slot[HASH_ID(r.id)])
         /\ r.op \in Sends => r.pkt \in 1 .. MaxSends
         /\ UNCHANGED <<checkctrl, ev, user, known, used>>
  <1>1. /\ ctrl \in Seq(Request) /\ ctrl # <<>> /\ Len(ctrl) <= PipeCap /\ Head(ctrl).op \in op
        /\ ctrl' = Tail(ctrl) /\ UNCHANGED <<checkctrl, ev, user, known, used>>
        /\ \A i \in DOMAIN ctrl : ctrl[i].op \in Sends => ctrl[i].pkt # Nil
    BY DEF TypeInv, PipeType, Cmd, callVars
  <1>2. /\ Head(ctrl) = ctrl[1] /\ Head(ctrl) \in Request /\ 1 \in DOMAIN ctrl /\ Len(ctrl) \in Nat
        /\ Tail(ctrl) \in Seq(Request) /\ Len(Tail(ctrl)) = Len(ctrl) - 1
        /\ \A i \in DOMAIN Tail(ctrl) : i + 1 \in DOMAIN ctrl /\ Tail(ctrl)[i] = ctrl[i + 1]
    BY <1>1
  <1>3. PipeType'
    <2>1. Len(Tail(ctrl)) <= PipeCap
      BY <1>1, <1>2, Bounds
    <2>2. \A i \in DOMAIN Tail(ctrl) : Tail(ctrl)[i].op \in Sends => Tail(ctrl)[i].pkt # Nil
      BY <1>1, <1>2
    <2> QED BY <1>1, <1>2, <2>1, <2>2 DEF PipeType
  <1>4. EventType'
    BY <1>1 DEF TypeInv, EventType
  <1>5. /\ Head(ctrl).id \in Ids /\ Head(ctrl).fits \in BOOLEAN /\ Head(ctrl).pkt \in 0 .. MaxSends
    BY <1>2 DEF Request
  <1>6. Head(ctrl).op \in Sends => Head(ctrl).pkt \in 1 .. MaxSends
    <2>1. Head(ctrl).op \in Sends => Head(ctrl).pkt # Nil
      BY <1>1, <1>2
    <2>2. \A x \in 0 .. MaxSends : x # Nil => x \in 1 .. MaxSends
      BY Bounds DEF Nil
    <2> QED BY <1>5, <2>1, <2>2
  <1>7. HASH_ID(Head(ctrl).id) \in Table
    <2>1. Head(ctrl).id \in Nat
      BY <1>5, Bounds DEF Ids
    <2> QED BY <2>1, HashType
  <1>8. slot[HASH_ID(Head(ctrl).id)] \in SlotRec /\ Counted(slot[HASH_ID(Head(ctrl).id)])
    BY <1>7 DEF TypeInv, SlotType
  <1> QED BY <1>1, <1>2, <1>3, <1>4, <1>5, <1>6, <1>7, <1>8

\* One slot is replaced.
LEMMA SlotSet ==
  ASSUME SlotType, NEW n \in Table, NEW t \in SlotRec, Counted(t),
         slot' = [slot EXCEPT ![n] = t]
  PROVE  SlotType' /\ slot'[n] = t /\ \A m \in Table : m # n => slot'[m] = slot[m]
  BY DEF SlotType

\* Continue, Return and Abort.
LEMMA MsgSet ==
  ASSUME TypeInv
  PROVE  /\ Continue => MsgType'
         /\ \A t \in MsgTypes, id \in Ids \cup {Nil}, pc \in {"loop", "clear", "start"} :
              Return(t, id, pc) /\ (pc = "start" => id \in Ids) => MsgType'
         /\ \A a : Abort(a) => MsgType' /\ SlotType' /\ FdType' /\ HistType' /\ UNCHANGED alloc_id
  <1>1. NoMsg \in [type : MsgTypes, id : Ids \cup {Nil}]
    BY DEF NoMsg, MsgTypes
  <1>2. Continue => MsgType'
    BY <1>1 DEF MsgType, Continue
  <1>3. ASSUME NEW t \in MsgTypes, NEW id \in Ids \cup {Nil}, NEW pc \in {"loop", "clear", "start"},
               Return(t, id, pc), pc = "start" => id \in Ids
        PROVE  MsgType'
    BY <1>3 DEF MsgType, Return
  <1>4. ASSUME NEW a, Abort(a)
        PROVE  MsgType' /\ SlotType' /\ FdType' /\ HistType' /\ UNCHANGED alloc_id
    BY <1>4 DEF TypeInv, Abort, MsgType, SlotType, FdType, HistType, fdVars, histVars
  <1> QED BY <1>2, <1>3, <1>4

\* force_close: the slot is emptied, its packets are freed, and what was
\* written is on the wire.
LEMMA ForceCloseIs ==
  ASSUME TypeInv, NEW n \in Table, NEW out \in Seq(Chunk), force_close(n, slot[n], out)
  PROVE  LET s == slot[n] IN
         /\ SlotType' /\ FdType' /\ HistType' /\ UNCHANGED alloc_id
         /\ \A m \in Table : m # n => slot'[m] = slot[m]
         /\ slot'[n].type = "INVALID" /\ slot'[n].id = s.id /\ send_buffer_empty(slot'[n])
         /\ opened' = IF s.type = "BIND" THEN opened ELSE opened \ {s.fd}
         /\ \A i \in Ids : epoll'[i] = IF i = s.fd THEN "NONE" ELSE epoll[i]
  <1> DEFINE s == slot[n]
             t == [s EXCEPT !.type = "INVALID", !.high = <<>>, !.low = <<>>]
  <1>1. s \in SlotRec /\ s.wb_size \in Nat
    BY SlotFields DEF TypeInv, SlotType
  <1>2. /\ slot' = [slot EXCEPT ![n] = t] /\ UNCHANGED alloc_id
        /\ opened' = IF s.type = "BIND" THEN opened ELSE opened \ {s.fd}
        /\ epoll' = IF s.fd = Nil THEN epoll ELSE [epoll EXCEPT ![s.fd] = "NONE"]
        /\ freed' = freed \cup Packets(s.high) \cup Packets(s.low)
        /\ wire' = IF out = <<>> THEN wire ELSE [wire EXCEPT ![s.fd] = @ \o out]
    BY Zenon DEF force_close
  <1>3. <<>> \in Seq(Chunk) /\ "INVALID" \in Types
    BY DEF Types
  <1>4. t \in SlotRec /\ t.type = "INVALID" /\ t.id = s.id /\ t.high = <<>> /\ t.low = <<>>
        /\ t.wb_size = s.wb_size
    BY <1>1, <1>3 DEF SlotRec
  <1> HIDE DEF t
  <1>5. Counted(t)
    <2>1. Size(t) = 0
      BY <1>4, QueuedType DEF send_buffer_empty
    <2> DEFINE b == s.wb_size
    <2>2. b \in Nat /\ t.wb_size = b
      BY <1>1, <1>4
    <2> HIDE DEF b
    <2> QED BY <2>1, <2>2 DEF Counted
  <1>6. SlotType' /\ slot'[n] = t /\ \A m \in Table : m # n => slot'[m] = slot[m]
    BY <1>2, <1>4, <1>5, SlotSet DEF TypeInv
  <1>7. /\ FdType' /\ \A i \in Ids : epoll'[i] = IF i = s.fd THEN "NONE" ELSE epoll[i]
    <2> DEFINE f == s.fd
    <2>1. f \in Ids \cup {Nil} /\ Nil \notin Ids
      BY <1>1, SlotFields DEF Ids, Nil
    <2>2. opened' \subseteq opened /\ epoll' = IF f = Nil THEN epoll ELSE [epoll EXCEPT ![f] = "NONE"]
      BY <1>2
    <2>3. opened \subseteq Ids /\ epoll \in [Ids -> {"NONE", "IN", "INOUT"}]
      BY DEF TypeInv, FdType
    <2> HIDE DEF f
    <2>4. FdType' /\ \A i \in Ids : epoll'[i] = IF i = f THEN "NONE" ELSE epoll[i]
      BY <2>1, <2>2, <2>3 DEF FdType
    <2> QED BY <2>4 DEF f
  <1>8. HistType'
    <2>1. freed' \subseteq 1 .. MaxSends
      <3>1. Packets(s.high) \subseteq 1 .. MaxSends /\ Packets(s.low) \subseteq 1 .. MaxSends
        BY <1>1, SlotFields, PacketsType
      <3> QED BY <1>2, <3>1 DEF TypeInv, HistType
    <2>2. wire' \in [Ids -> Seq(Chunk)]
      <3> DEFINE f == s.fd
      <3>1. wire \in [Ids -> Seq(Chunk)] /\ wire' = IF out = <<>> THEN wire ELSE [wire EXCEPT ![f] = @ \o out]
        BY <1>2 DEF TypeInv, HistType
      <3> HIDE DEF f
      <3>2. f \in Ids => wire[f] \o out \in Seq(Chunk)
        BY <3>1
      <3> QED BY <3>1, <3>2
    <2> QED BY <2>1, <2>2 DEF HistType
  <1> QED BY <1>2, <1>4, <1>6, <1>7, <1>8 DEF send_buffer_empty

\* force_close called on a slot in any state: an assertion fails, nothing was
\* there to close, or it is closed.
LEMMA CloseSlotIs ==
  ASSUME TypeInv, NEW n \in Table, NEW out \in Seq(Chunk), NEW t \in MsgTypes,
         NEW id \in Ids \cup {Nil}, NEW pc \in {"loop", "clear"}, CloseSlot(n, out, t, id, pc)
  PROVE  /\ SlotType' /\ FdType' /\ HistType' /\ MsgType' /\ UNCHANGED alloc_id
         /\ \/ slot[n].type = "RESERVE" /\ Abort("reserve")
            \/ /\ slot[n].type = "INVALID" /\ Return(t, id, pc)
               /\ UNCHANGED <<slot, opened, epoll, freed, wire, failed>>
            \/ InUse(slot[n]) /\ force_close(n, slot[n], out) /\ Return(t, id, pc)
  <1>1. CASE slot[n].type = "RESERVE"
    <2>1. Abort("reserve")
      BY <1>1 DEF CloseSlot
    <2> QED BY <1>1, <2>1, MsgSet
  <1>2. CASE slot[n].type = "INVALID"
    <2>1. Return(t, id, pc) /\ UNCHANGED <<alloc_id, slot, opened, epoll, freed, wire, failed>>
      BY <1>2 DEF CloseSlot, fdVars, histVars
    <2> QED BY <1>2, <2>1, MsgSet DEF TypeInv, SlotType, FdType, HistType
  <1>3. CASE slot[n].type \notin {"RESERVE", "INVALID"}
    <2>1. force_close(n, slot[n], out) /\ Return(t, id, pc)
      BY <1>3 DEF CloseSlot
    <2>2. InUse(slot[n])
      BY <1>3 DEF InUse
    <2> QED BY <2>1, <2>2, MsgSet, ForceCloseIs
  <1> QED BY <1>1, <1>2, <1>3

\* A write takes no more chunks than are queued.
LEMMA TakesIs ==
  ASSUME NEW s \in SlotRec
  PROVE  \A k \in Takes(s) : k \in 0 .. Size(s)
  <1>1. Len(Queued(s)) = Size(s) /\ Size(s) \in Nat
    BY QueuedType
  <1> QED BY <1>1 DEF Takes

\* send_list: k chunks leave slot n.
LEMMA WriteOutIs ==
  ASSUME TypeInv, NEW n \in Table, NEW k \in 0 .. Size(slot[n]), NEW next \in Types,
         WriteOut(n, k, next)
  PROVE  LET s == slot[n]  t == slot'[n] IN
         /\ SlotType' /\ HistType' /\ UNCHANGED <<alloc_id, opened, failed>>
         /\ \A m \in Table : m # n => slot'[m] = slot[m]
         /\ t.type = next /\ t.id = s.id /\ t.fd = s.fd /\ t.kind = s.kind /\ t.peer = s.peer
         /\ Size(t) = Size(s) - k
  <1> DEFINE s == slot[n]
             w == Written(s, k)
             t == [w EXCEPT !.type = next]
  <1>1. s \in SlotRec /\ Counted(s)
    BY DEF TypeInv, SlotType
  <1>2. w \in SlotRec /\ SameSlot(w, s) /\ Counted(w) /\ Size(w) = Size(s) - k
    BY <1>1, WrittenIs
  <1>3. /\ slot' = [slot EXCEPT ![n] = t] /\ UNCHANGED <<alloc_id, opened, failed>>
        /\ wire' = IF k = 0 THEN wire ELSE [wire EXCEPT ![s.fd] = @ \o SubSeq(Queued(s), 1, k)]
        /\ freed' = freed \cup (Packets(Queued(s)) \ Packets(Queued(t)))
    BY Zenon DEF WriteOut
  <1> HIDE DEF w
  <1>4. /\ t \in SlotRec /\ t.type = next /\ t.id = w.id /\ t.fd = w.fd /\ t.kind = w.kind
        /\ t.peer = w.peer /\ t.high = w.high /\ t.low = w.low /\ t.wb_size = w.wb_size
    BY <1>2 DEF SlotRec
  <1> HIDE DEF t
  <1>5. Size(t) = Size(w)
    BY <1>4 DEF Size
  <1>6. Counted(t)
    BY <1>2, <1>4, <1>5 DEF Counted
  <1>7. SlotType' /\ slot'[n] = t /\ \A m \in Table : m # n => slot'[m] = slot[m]
    BY <1>3, <1>4, <1>6, SlotSet DEF TypeInv
  <1>8. HistType'
    <2>1. Queued(s) \in Seq(Chunk) /\ Len(Queued(s)) = Size(s) /\ Size(s) \in Nat
      BY <1>1, QueuedType
    <2>2. freed' \subseteq 1 .. MaxSends
      BY <1>3, <2>1, PacketsType DEF TypeInv, HistType
    <2>3. SubSeq(Queued(s), 1, k) \in Seq(Chunk)
      <3>1. 1 \in 1 .. (Len(Queued(s)) + 1) /\ k \in 0 .. Len(Queued(s)) /\ 1 <= k + 1
        BY <2>1
      <3> QED BY <2>1, <3>1, Piece
    <2>4. wire' \in [Ids -> Seq(Chunk)]
      <3> DEFINE f == s.fd
                 out == SubSeq(Queued(s), 1, k)
      <3>1. wire \in [Ids -> Seq(Chunk)] /\ wire' = IF k = 0 THEN wire ELSE [wire EXCEPT ![f] = @ \o out]
        BY <1>3 DEF TypeInv, HistType
      <3>2. out \in Seq(Chunk)
        BY <2>3
      <3> HIDE DEF f, out
      <3>3. f \in Ids => wire[f] \o out \in Seq(Chunk)
        BY <3>1, <3>2
      <3> QED BY <3>1, <3>3
    <2> QED BY <2>2, <2>4 DEF HistType
  <1> QED BY <1>2, <1>3, <1>4, <1>5, <1>7, <1>8 DEF SameSlot

\* send_list_tcp fails: the slot is closed as after an error.
LEMMA WriteFailsIs ==
  ASSUME TypeInv, NEW n \in Table, WriteFails(n)
  PROVE  \E out \in Seq(Chunk) : CloseSlot(n, out, "CLOSE", slot[n].id, "clear")
  <1>1. slot[n] \in SlotRec
    BY DEF TypeInv, SlotType
  <1>2. Queued(slot[n]) \in Seq(Chunk) /\ Len(Queued(slot[n])) \in Nat
    BY <1>1, QueuedType
  <1>3. PICK k \in 0 .. (Len(Queued(slot[n])) - 1) :
          CloseSlot(n, SubSeq(Queued(slot[n]), 1, k), "CLOSE", slot[n].id, "clear")
    BY Zenon DEF WriteFails
  <1>4. SubSeq(Queued(slot[n]), 1, k) \in Seq(Chunk)
    <2>1. 1 \in 1 .. (Len(Queued(slot[n])) + 1) /\ k \in 0 .. Len(Queued(slot[n])) /\ 1 <= k + 1
      BY <1>2
    <2> QED BY <1>2, <2>1, Piece
  <1> QED BY <1>3, <1>4

\* new_fd on an empty slot.
LEMMA NewFdIs ==
  ASSUME TypeInv, NEW id \in Ids, NEW t \in Types, NEW w \in {"NONE", "IN", "INOUT"},
         NEW k \in Kinds, send_buffer_empty(slot[HASH_ID(id)]), new_fd(id, t, w, k)
  PROVE  LET n == HASH_ID(id) IN
         /\ n \in Table /\ SlotType' /\ epoll' \in [Ids -> {"NONE", "IN", "INOUT"}]
         /\ \A m \in Table : m # n => slot'[m] = slot[m]
         /\ slot'[n].type = t /\ slot'[n].id = id /\ slot'[n].fd = id /\ slot'[n].kind = k
         /\ send_buffer_empty(slot'[n])
         /\ \A i \in Ids : epoll'[i] = IF i = id THEN w ELSE epoll[i]
  <1> DEFINE n == HASH_ID(id)
             s == slot[n]
             r == [s EXCEPT !.type = t, !.id = id, !.fd = id, !.wb_size = 0, !.kind = k, !.peer = FALSE]
  <1>1. n \in Table
    BY HashType, Bounds DEF Ids
  <1>2. s \in SlotRec
    BY <1>1 DEF TypeInv, SlotType
  <1>3. slot' = [slot EXCEPT ![n] = r] /\ epoll' = [epoll EXCEPT ![id] = w]
    BY Zenon DEF new_fd
  <1>4. id \in Ids \cup {Nil} /\ 0 \in Nat /\ FALSE \in BOOLEAN
    OBVIOUS
  <1>5. /\ r \in SlotRec /\ r.type = t /\ r.id = id /\ r.fd = id /\ r.kind = k /\ r.wb_size = 0
        /\ r.high = s.high /\ r.low = s.low
    BY <1>2, <1>4 DEF SlotRec
  <1> HIDE DEF r
  <1>6. send_buffer_empty(r)
    BY <1>5 DEF send_buffer_empty
  <1>7. Counted(r)
    BY <1>5, <1>6, QueuedType DEF Counted
  <1>8. SlotType' /\ slot'[n] = r /\ \A m \in Table : m # n => slot'[m] = slot[m]
    BY <1>1, <1>3, <1>5, <1>7, SlotSet DEF TypeInv
  <1>9. epoll' \in [Ids -> {"NONE", "IN", "INOUT"}] /\ \A i \in Ids : epoll'[i] = IF i = id THEN w ELSE epoll[i]
    BY <1>3 DEF TypeInv, FdType
  <1> QED BY <1>1, <1>5, <1>6, <1>8, <1>9

\* The type of a slot is set.
LEMMA SetTypeIs ==
  ASSUME SlotType, NEW n \in Table, NEW t \in Types, slot' = [slot EXCEPT ![n].type = t]
  PROVE  LET s == slot[n]  r == slot'[n] IN
         /\ SlotType' /\ \A m \in Table : m # n => slot'[m] = slot[m]
         /\ r.type = t /\ r.id = s.id /\ r.fd = s.fd /\ r.kind = s.kind
         /\ r.high = s.high /\ r.low = s.low
  <1> DEFINE s == slot[n]
             r == [s EXCEPT !.type = t]
  <1>1. s \in SlotRec /\ Counted(s)
    BY DEF SlotType
  <1>2. slot' = [slot EXCEPT ![n] = r]
    OBVIOUS
  <1>3. /\ r \in SlotRec /\ r.type = t /\ r.id = s.id /\ r.fd = s.fd /\ r.kind = s.kind
        /\ r.high = s.high /\ r.low = s.low /\ r.wb_size = s.wb_size
    BY <1>1 DEF SlotRec
  <1> HIDE DEF r
  <1>4. Counted(r)
    BY <1>1, <1>3 DEF Counted, Size
  <1> QED BY <1>2, <1>3, <1>4, SlotSet

\* What is left to show of a step that executes a request.
LEMMA CmdDone ==
  ASSUME TypeInv, NEW op, Cmd(op), SlotType', FdType', HistType', MsgType', UNCHANGED alloc_id
  PROVE  TypeInv'
  <1>1. PipeType' /\ EventType' /\ UNCHANGED <<user, known, used>>
    BY CmdIs
  <1>2. CallType'
    BY <1>1 DEF TypeInv, CallType
  <1> QED BY <1>1, <1>2 DEF TypeInv

\* What is left to show of a step that changes none of these.
LEMMA Kept ==
  ASSUME TypeInv
  PROVE  /\ UNCHANGED slot => SlotType'
         /\ UNCHANGED <<opened, epoll>> => FdType'
         /\ UNCHANGED ctrl => PipeType'
         /\ UNCHANGED <<ev, checkctrl>> => EventType'
         /\ UNCHANGED <<pollPc, msg>> => MsgType'
         /\ UNCHANGED <<alloc_id, user, used, known>> => CallType'
         /\ UNCHANGED <<freed, wire>> => HistType'
  BY DEF TypeInv, SlotType, FdType, PipeType, EventType, MsgType, CallType, HistType

\* force_close of a socket changes its slot and its descriptor and reports its id.
LEMMA DiscardIs ==
  ASSUME TypeInv, NEW id \in Ids, NEW closes, Discard(id, closes)
  PROVE  LET n == HASH_ID(id)  s == slot[n]  r == slot'[n] IN
         /\ SlotType' /\ FdType' /\ HistType' /\ MsgType' /\ n \in Table
         /\ UNCHANGED <<alloc_id, epoll, freed, wire, failed>>
         /\ \A m \in Table : m # n => slot'[m] = slot[m]
         /\ r.type = "INVALID" /\ r.id = s.id /\ r.fd = s.fd /\ r.kind = s.kind
         /\ r.high = s.high /\ r.low = s.low
         /\ opened' = opened \ closes /\ pollPc' = "clear" /\ msg'.id = id
  <1>1. HASH_ID(id) \in Table /\ "INVALID" \in Types /\ "ERROR" \in MsgTypes
    BY HashType, Bounds DEF Ids, Types, MsgTypes
  <1>2. /\ slot' = [slot EXCEPT ![HASH_ID(id)].type = "INVALID"]
        /\ opened' = opened \ closes
        /\ Return("ERROR", id, "clear")
        /\ UNCHANGED <<alloc_id, epoll, freed, wire, failed>>
    BY DEF Discard, histVars
  <1>3. SlotType
    BY DEF TypeInv
  <1>4. FdType' /\ HistType'
    BY <1>2 DEF TypeInv, FdType, HistType
  <1>5. MsgType'
    BY <1>1, <1>2, MsgSet
  <1>6. pollPc' = "clear" /\ msg'.id = id
    BY <1>2 DEF Return
  <1> QED BY <1>1, <1>2, <1>3, <1>4, <1>5, <1>6, SetTypeIs

\* start_socket keeps the types.
LEMMA StartSocketType ==
  ASSUME TypeInv, StartSocket
  PROVE  TypeInv'
  <1> DEFINE id == Head(ctrl).id
             n == HASH_ID(id)
             s == slot[n]
  <1>1. Cmd({"S"})
    BY DEF StartSocket
  <1>2. id \in Ids /\ n \in Table /\ s \in SlotRec
    BY <1>1, CmdIs
  <1>3. "ERROR" \in MsgTypes /\ "OPEN" \in MsgTypes
    BY DEF MsgTypes
  <1>4. CASE /\ Return("ERROR", id, "clear")
             /\ UNCHANGED <<alloc_id, slot, fdVars, histVars, failed>>
    BY <1>1, <1>2, <1>3, <1>4, CmdDone, MsgSet, Kept DEF fdVars, histVars
  <1>5. CASE Discard(id, {})
    BY <1>1, <1>2, <1>5, CmdDone, DiscardIs
  <1>6. CASE /\ slot' = [slot EXCEPT ![n].type = IF @ = "PACCEPT" THEN "CONNECTED" ELSE "LISTEN"]
             /\ epoll' = [epoll EXCEPT ![s.fd] = "IN"]
             /\ Return("OPEN", id, "loop")
             /\ UNCHANGED <<alloc_id, opened, histVars, failed>>
    <2> DEFINE t == IF s.type = "PACCEPT" THEN "CONNECTED" ELSE "LISTEN"
    <2>1. slot' = [slot EXCEPT ![n].type = t]
      BY <1>6
    <2>2. t \in Types
      BY DEF Types
    <2> HIDE DEF t
    <2>3. SlotType'
      BY <1>2, <2>1, <2>2, SetTypeIs DEF TypeInv
    <2>4. FdType'
      BY <1>6 DEF TypeInv, FdType
    <2> QED BY <1>1, <1>2, <1>3, <1>6, <2>3, <2>4, CmdDone, MsgSet, Kept DEF histVars
  <1>7. CASE /\ Return("OPEN", id, "loop")
             /\ UNCHANGED <<alloc_id, slot, fdVars, histVars, failed>>
    BY <1>1, <1>2, <1>3, <1>7, CmdDone, MsgSet, Kept DEF fdVars, histVars
  <1>8. CASE Continue /\ UNCHANGED <<alloc_id, slot, fdVars, histVars, failed>>
    BY <1>1, <1>8, CmdDone, MsgSet, Kept DEF fdVars, histVars
  <1> QED BY <1>4, <1>5, <1>6, <1>7, <1>8, Zenon DEF StartSocket

\* The assertions of new_fd pass on a reserved slot with empty lists only.
LEMMA AssertsIs ==
  ASSUME NEW s, NewFdAsserts(s) = "NONE"
  PROVE  s.type = "RESERVE" /\ send_buffer_empty(s)
  BY DEF NewFdAsserts

\* listen_socket keeps the types.
LEMMA ListenSocketType ==
  ASSUME TypeInv, ListenSocket
  PROVE  TypeInv'
  <1> DEFINE id == Head(ctrl).id
             a == NewFdAsserts(slot[HASH_ID(id)])
  <1>1. Cmd({"L"})
    BY DEF ListenSocket
  <1>2. id \in Ids
    BY <1>1, CmdIs
  <1>3. CASE a # "NONE"
    <2>1. Abort(a)
      BY <1>3 DEF ListenSocket
    <2> QED BY <1>1, <2>1, CmdDone, MsgSet
  <1>4. CASE a = "NONE"
    <2>1. new_fd(id, "PLISTEN", "NONE", "tcp") /\ Continue /\ UNCHANGED <<alloc_id, opened, histVars>>
      BY <1>4 DEF ListenSocket
    <2>2. "PLISTEN" \in Types /\ "tcp" \in Kinds
      BY DEF Types, Kinds
    <2>3. SlotType' /\ epoll' \in [Ids -> {"NONE", "IN", "INOUT"}]
      BY <1>2, <1>4, <2>1, <2>2, AssertsIs, NewFdIs
    <2>4. FdType'
      BY <2>1, <2>3 DEF TypeInv, FdType
    <2> QED BY <1>1, <2>1, <2>3, <2>4, CmdDone, MsgSet, Kept DEF histVars
  <1> QED BY <1>3, <1>4

\* open_socket keeps the types.
LEMMA OpenSocketType ==
  ASSUME TypeInv, OpenSocket
  PROVE  TypeInv'
  <1> DEFINE id == Head(ctrl).id
             a == NewFdAsserts(slot[HASH_ID(id)])
  <1>1. Cmd({"O"})
    BY DEF OpenSocket
  <1>2. id \in Ids
    BY <1>1, CmdIs
  <1>3. CASE Discard(id, {id})
    BY <1>1, <1>2, <1>3, CmdDone, DiscardIs
  <1>4. CASE a # "NONE" /\ Abort(a)
    BY <1>1, <1>4, CmdDone, MsgSet
  <1>5. CASE /\ a = "NONE"
             /\ \/ new_fd(id, "CONNECTED", "IN", "tcp") /\ Return("OPEN", id, "loop")
                \/ new_fd(id, "CONNECTING", "INOUT", "tcp") /\ Continue
             /\ opened' = opened \cup {id}
             /\ UNCHANGED <<alloc_id, histVars, failed>>
    <2>1. /\ {"CONNECTED", "CONNECTING"} \subseteq Types /\ "tcp" \in Kinds /\ "OPEN" \in MsgTypes
      BY DEF Types, Kinds, MsgTypes
    <2>2. SlotType' /\ epoll' \in [Ids -> {"NONE", "IN", "INOUT"}]
      BY <1>2, <1>5, <2>1, AssertsIs, NewFdIs
    <2>3. MsgType'
      BY <1>2, <1>5, <2>1, MsgSet
    <2>4. FdType'
      BY <1>2, <1>5, <2>2 DEF TypeInv, FdType
    <2> QED BY <1>1, <1>5, <2>2, <2>3, <2>4, CmdDone, Kept DEF histVars
  <1> QED BY <1>3, <1>4, <1>5, Zenon DEF OpenSocket

\* bind_socket keeps the types.
LEMMA BindSocketType ==
  ASSUME TypeInv, BindSocket
  PROVE  TypeInv'
  <1> DEFINE id == Head(ctrl).id
             a == NewFdAsserts(slot[HASH_ID(id)])
  <1>1. Cmd({"B"})
    BY DEF BindSocket
  <1>2. id \in Ids
    BY <1>1, CmdIs
  <1>3. CASE Discard(id, {})
    BY <1>1, <1>2, <1>3, CmdDone, DiscardIs
  <1>4. CASE a # "NONE" /\ Abort(a)
    BY <1>1, <1>4, CmdDone, MsgSet
  <1>5. CASE /\ a = "NONE"
             /\ new_fd(id, "BIND", "IN", "bound")
             /\ Return("OPEN", id, "loop")
             /\ UNCHANGED <<alloc_id, opened, histVars, failed>>
    <2>1. "BIND" \in Types /\ "bound" \in Kinds /\ "OPEN" \in MsgTypes
      BY DEF Types, Kinds, MsgTypes
    <2>2. SlotType' /\ epoll' \in [Ids -> {"NONE", "IN", "INOUT"}]
      BY <1>2, <1>5, <2>1, AssertsIs, NewFdIs
    <2>3. MsgType'
      BY <1>2, <1>5, <2>1, MsgSet
    <2>4. FdType'
      BY <1>2, <1>5, <2>2 DEF TypeInv, FdType
    <2> QED BY <1>1, <1>5, <2>2, <2>3, <2>4, CmdDone, Kept DEF histVars
  <1> QED BY <1>3, <1>4, <1>5, Zenon DEF BindSocket

\* add_udp_socket keeps the types.
LEMMA AddUdpSocketType ==
  ASSUME TypeInv, AddUdpSocket
  PROVE  TypeInv'
  <1> DEFINE id == Head(ctrl).id
             a == NewFdAsserts(slot[HASH_ID(id)])
  <1>1. Cmd({"U"}) /\ Continue
    BY DEF AddUdpSocket
  <1>2. id \in Ids /\ HASH_ID(id) \in Table
    BY <1>1, CmdIs
  <1>3. MsgType'
    BY <1>1, MsgSet
  <1>4. CASE UNCHANGED <<alloc_id, slot, fdVars, histVars>>
    BY <1>1, <1>3, <1>4, CmdDone, Kept DEF fdVars, histVars
  <1>5. CASE /\ slot' = [slot EXCEPT ![HASH_ID(id)].type = "INVALID"]
             /\ opened' = opened \ {id}
             /\ UNCHANGED <<alloc_id, epoll, histVars, failed>>
    <2>1. "INVALID" \in Types /\ SlotType
      BY DEF Types, TypeInv
    <2>2. SlotType'
      BY <1>2, <1>5, <2>1, SetTypeIs
    <2>3. FdType'
      BY <1>5 DEF TypeInv, FdType
    <2> QED BY <1>1, <1>3, <1>5, <2>2, <2>3, CmdDone, Kept DEF histVars
  <1>6. CASE /\ a = "NONE"
             /\ new_fd(id, "CONNECTED", "IN", "udp")
             /\ UNCHANGED <<alloc_id, opened, histVars, failed>>
    <2>1. "CONNECTED" \in Types /\ "udp" \in Kinds
      BY DEF Types, Kinds
    <2>2. SlotType' /\ epoll' \in [Ids -> {"NONE", "IN", "INOUT"}]
      BY <1>2, <1>6, <2>1, AssertsIs, NewFdIs
    <2>3. FdType'
      BY <1>2, <1>6, <2>2 DEF TypeInv, FdType
    <2> QED BY <1>1, <1>3, <1>6, <2>2, <2>3, CmdDone, Kept DEF histVars
  <1> QED BY <1>4, <1>5, <1>6, Zenon DEF AddUdpSocket

\* Slots that differ in nothing that the other parts of the state depend on.
Alike(t, s) ==
  /\ t.type = s.type /\ t.id = s.id /\ t.fd = s.fd /\ t.kind = s.kind
  /\ t.high = s.high /\ t.low = s.low

\* set_udp_address changes at most what send_socket looks up of the slot's peer.
LEMMA SetUdpAddressIs ==
  ASSUME TypeInv, SetUdpAddress
  PROVE  /\ TypeInv' /\ UNCHANGED <<alloc_id, opened, epoll>>
         /\ pollPc' = "loop" \/ (pollPc' = "clear" /\ msg'.id = Head(ctrl).id)
         /\ \A m \in Table : Alike(slot'[m], slot[m])
         /\ \A m \in Table : m # HASH_ID(Head(ctrl).id) => slot'[m] = slot[m]
  <1> DEFINE r == Head(ctrl)
             n == HASH_ID(r.id)
             s == slot[n]
  <1>1. Cmd({"C"}) /\ UNCHANGED <<alloc_id, opened, epoll, freed, wire>>
    BY Zenon DEF SetUdpAddress, fdVars, histVars
  <1>2. r.id \in Ids /\ n \in Table /\ s \in SlotRec /\ Counted(s)
    BY <1>1, CmdIs
  <1>3. FdType' /\ HistType'
    BY <1>1, Kept
  <1>4. \/ Continue /\ UNCHANGED slot
        \/ Return("ERROR", r.id, "clear") /\ UNCHANGED slot
        \/ slot' = [slot EXCEPT ![n].peer = TRUE] /\ Continue
    <2>1. CASE Stale(s, r.id)
      BY <2>1, Zenon DEF SetUdpAddress
    <2>2. CASE ~Stale(s, r.id) /\ s.kind = "udp" /\ r.fits
      BY <2>2, Zenon DEF SetUdpAddress
    <2>3. CASE ~Stale(s, r.id) /\ ~(s.kind = "udp" /\ r.fits)
      BY <2>3, Zenon DEF SetUdpAddress
    <2> QED BY <2>1, <2>2, <2>3
  <1>0. UNCHANGED slot => \A m \in Table : Alike(slot'[m], slot[m])
    BY DEF Alike
  <1>5. CASE Continue /\ UNCHANGED slot
    <2>1. TypeInv'
      BY <1>1, <1>3, <1>5, CmdDone, MsgSet, Kept
    <2>2. pollPc' = "loop"
      BY <1>5 DEF Continue
    <2> QED BY <1>0, <1>1, <1>5, <2>1, <2>2
  <1>6. CASE Return("ERROR", r.id, "clear") /\ UNCHANGED slot
    <2>1. "ERROR" \in MsgTypes
      BY DEF MsgTypes
    <2>2. MsgType' /\ SlotType'
      BY <1>2, <1>6, <2>1, MsgSet, Kept
    <2>3. pollPc' = "clear" /\ msg'.id = r.id
      BY <1>6 DEF Return
    <2>4. TypeInv'
      BY <1>1, <1>3, <2>2, CmdDone
    <2> QED BY <1>0, <1>1, <1>6, <2>3, <2>4
  <1>7. CASE slot' = [slot EXCEPT ![n].peer = TRUE] /\ Continue
    <2> DEFINE t == [s EXCEPT !.peer = TRUE]
    <2>1. slot' = [slot EXCEPT ![n] = t]
      BY <1>7
    <2>2. /\ t \in SlotRec /\ t.type = s.type /\ t.id = s.id /\ t.fd = s.fd /\ t.kind = s.kind
          /\ t.high = s.high /\ t.low = s.low /\ t.wb_size = s.wb_size
      BY <1>2 DEF SlotRec
    <2> HIDE DEF t
    <2>3. Counted(t)
      BY <1>2, <2>2 DEF Counted, Size
    <2>4. SlotType' /\ slot'[n] = t /\ \A m \in Table : m # n => slot'[m] = slot[m]
      BY <1>2, <2>1, <2>2, <2>3, SlotSet DEF TypeInv
    <2>5. TypeInv'
      BY <1>1, <1>3, <1>7, <2>4, CmdDone, MsgSet
    <2>6. Alike(t, s) /\ \A m \in Table : Alike(slot[m], slot[m])
      BY <2>2 DEF Alike
    <2>7. \A m \in Table : Alike(slot'[m], slot[m])
      BY <2>4, <2>6
    <2>8. pollPc' = "loop"
      BY <1>7 DEF Continue
    <2> QED BY <1>1, <2>4, <2>5, <2>7, <2>8
  <1> QED BY <1>4, <1>5, <1>6, <1>7

\* close_socket, with and without shutdown, keeps the types.
LEMMA CloseSocketType ==
  ASSUME TypeInv, CloseSocket
  PROVE  TypeInv'
  <1> DEFINE id == Head(ctrl).id
             n == HASH_ID(id)
             s == slot[n]
  <1>1. Cmd({"K"})
    BY DEF CloseSocket
  <1>2. id \in Ids /\ n \in Table /\ s \in SlotRec
    BY <1>1, CmdIs
  <1>3. s.id \in Ids \cup {Nil} /\ "CLOSE" \in MsgTypes /\ "HALFCLOSE" \in Types
    BY <1>2, SlotFields DEF MsgTypes, Types
  <1>4. CASE Return("CLOSE", id, "clear") /\ UNCHANGED <<alloc_id, slot, fdVars, histVars, failed>>
    BY <1>1, <1>2, <1>3, <1>4, CmdDone, MsgSet, Kept DEF fdVars, histVars
  <1>5. CASE Abort("uncomplete")
    BY <1>1, <1>5, CmdDone, MsgSet
  <1>6. CASE WriteFails(n)
    BY <1>1, <1>2, <1>3, <1>6, WriteFailsIs, CloseSlotIs, CmdDone
  <1>7. CASE CloseSlot(n, Queued(s), "CLOSE", id, "clear")
    BY <1>1, <1>2, <1>3, <1>7, QueuedType, CloseSlotIs, CmdDone
  <1>8. ASSUME NEW k \in Takes(s), WriteOut(n, k, "HALFCLOSE"), Continue, UNCHANGED epoll
        PROVE  TypeInv'
    <2>1. k \in 0 .. Size(s)
      BY <1>2, TakesIs
    <2>2. SlotType' /\ HistType' /\ UNCHANGED <<alloc_id, opened>>
      BY <1>2, <1>3, <1>8, <2>1, WriteOutIs
    <2> QED BY <1>1, <1>8, <2>2, CmdDone, MsgSet, Kept
  <1> QED BY <1>4, <1>5, <1>6, <1>7, <1>8, Zenon DEF CloseSocket

\* append_sendbuffer_: chunks c are put at the end of a list.
LEMMA AppendIs ==
  ASSUME NEW s \in SlotRec, Counted(s), NEW c \in Seq(Chunk)
  PROVE  LET b == s.wb_size + Len(c)
             x == [s EXCEPT !.high = @ \o c, !.wb_size = b]
             y == [s EXCEPT !.low = @ \o c, !.wb_size = b]
         IN /\ x \in SlotRec /\ SameSlot(x, s) /\ Counted(x) /\ Size(x) = Size(s) + Len(c)
            /\ y \in SlotRec /\ SameSlot(y, s) /\ Counted(y) /\ Size(y) = Size(s) + Len(c)
  <1> DEFINE h == Len(s.high)
             l == Len(s.low)
             w == s.wb_size
             m == Len(c)
             b == w + m
             high == s.high \o c
             low == s.low \o c
             x == [s EXCEPT !.high = high, !.wb_size = b]
             y == [s EXCEPT !.low = low, !.wb_size = b]
  <1>1. /\ s.high \in Seq(Chunk) /\ s.low \in Seq(Chunk) /\ h \in Nat /\ l \in Nat
        /\ w \in Nat /\ m \in Nat
    BY SlotFields
  <1>2. Size(s) = h + l /\ Size(s) <= w
    BY DEF Size, Counted
  <1>3. b \in Nat
    <2> HIDE DEF w, m
    <2> QED BY <1>1
  <1>4. high \in Seq(Chunk) /\ Len(high) = h + m /\ low \in Seq(Chunk) /\ Len(low) = l + m
    BY <1>1
  <1> HIDE DEF high, low, b
  <1>5. x \in SlotRec /\ SameSlot(x, s) /\ x.high = high /\ x.low = s.low /\ x.wb_size = b
    BY <1>3, <1>4 DEF SlotRec, SameSlot
  <1>6. y \in SlotRec /\ SameSlot(y, s) /\ y.high = s.high /\ y.low = low /\ y.wb_size = b
    BY <1>3, <1>4 DEF SlotRec, SameSlot
  <1> HIDE DEF x, y
  <1>7. Size(x) = Len(high) + l /\ Size(y) = h + Len(low)
    BY <1>5, <1>6 DEF Size
  <1>8. /\ Size(x) = Size(s) + m /\ Size(x) <= b
        /\ Size(y) = Size(s) + m /\ Size(y) <= b
    <2>1. b = w + m
      BY DEF b
    <2> HIDE DEF h, l, w, m
    <2> QED BY <1>1, <1>2, <1>4, <1>7, <2>1
  <1>9. Counted(x) /\ Counted(y)
    BY <1>5, <1>6, <1>8 DEF Counted
  <1> QED BY <1>5, <1>6, <1>8, <1>9 DEF x, y, high, low, b

\* send_socket queues on slot n, which becomes t.
Queues(n, t) ==
  /\ t \in SlotRec /\ SameSlot(t, slot[n]) /\ Counted(t)
  /\ slot' = [slot EXCEPT ![n] = t]

\* The packet is dropped or written, an assertion fails, the socket is closed,
\* or the packet is queued, on an idle connection with epoll told.
LEMMA SendSocketIs ==
  ASSUME TypeInv, SendSocket
  PROVE  LET r == Head(ctrl)  n == HASH_ID(r.id)  s == slot[n] IN
         /\ TypeInv' /\ UNCHANGED alloc_id
         /\ \/ Continue /\ UNCHANGED <<slot, opened, epoll>>
            \/ Abort("listen")
            \/ CloseSlot(n, <<>>, "CLOSE", s.id, "clear")
            \/ /\ s.type = "CONNECTED"
               /\ \E t : Queues(n, t)
               /\ Continue /\ UNCHANGED opened
               /\ epoll' = Watch(s.fd, "INOUT")
            \/ /\ s.type \notin {"INVALID", "PACCEPT", "PLISTEN", "LISTEN", "HALFCLOSE"}
               /\ s.id = r.id
               /\ s.type = "CONNECTED" => ~send_buffer_empty(s)
               /\ \E t : Queues(n, t)
               /\ Continue /\ UNCHANGED <<opened, epoll>>
  <1> DEFINE r == Head(ctrl)
             n == HASH_ID(r.id)
             s == slot[n]
             low == r.op = "P"
             udp == s.kind = "udp"
             fits == IF ~udp THEN TRUE ELSE IF r.op = "A" THEN r.fits ELSE s.peer
             pkt(k) == Chunks(r.pkt, low, fits, k)
             append(toLow, k) ==
               IF toLow THEN [s EXCEPT !.low = @ \o pkt(k), !.wb_size = @ + PktLen - k]
                        ELSE [s EXCEPT !.high = @ \o pkt(k), !.wb_size = @ + PktLen - k]
             drop == /\ freed' = freed \cup {r.pkt}
                     /\ Continue
                     /\ UNCHANGED <<alloc_id, slot, fdVars, wire, failed>>
             write(k) ==
               /\ slot' = IF k = PktLen THEN slot
                          ELSE [slot EXCEPT ![n] = append(udp /\ low, k)]
               /\ epoll' = IF k = PktLen THEN epoll ELSE Watch(s.fd, "INOUT")
               /\ freed' = IF k = PktLen THEN freed \cup {r.pkt} ELSE freed
               /\ wire' = [wire EXCEPT ![s.fd] = @ \o SubSeq(pkt(0), 1, k)]
               /\ Continue
               /\ UNCHANGED <<alloc_id, opened, failed>>
             queue == /\ slot' = [slot EXCEPT ![n] = append(low, 0)]
                      /\ Continue
                      /\ UNCHANGED <<alloc_id, fdVars, histVars, failed>>
  <1>1. Cmd({"D", "P", "A"})
    BY DEF SendSocket
  <1>2. /\ r.id \in Ids /\ n \in Table /\ s \in SlotRec /\ Counted(s) /\ r.fits \in BOOLEAN
        /\ r.op \in {"D", "P", "A"}
    BY <1>1, CmdIs
  <1>3. r.pkt \in 1 .. MaxSends /\ fits \in BOOLEAN /\ s.id \in Ids \cup {Nil}
        /\ "CLOSE" \in MsgTypes
    BY <1>1, <1>2, CmdIs, SlotFields DEF Sends, MsgTypes
  <1>4. \/ Stale(s, r.id) \/ s.type \in {"HALFCLOSE", "PACCEPT"}
        \/ ~Stale(s, r.id) /\ s.type \in {"PLISTEN", "LISTEN"}
        \/ ~Stale(s, r.id) /\ s.type = "CONNECTED" /\ send_buffer_empty(s)
        \/ /\ ~Stale(s, r.id) /\ s.type \notin {"HALFCLOSE", "PACCEPT", "PLISTEN", "LISTEN"}
           /\ s.type = "CONNECTED" => ~send_buffer_empty(s)
    OBVIOUS
  <1>5. ASSUME NEW k \in 0 .. PktLen
        PROVE  pkt(k) \in Seq(Chunk) /\ Len(pkt(k)) = PktLen - k
    BY <1>3, <1>5, ChunksType
  <1>6. ASSUME NEW k \in 0 .. PktLen, NEW toLow \in BOOLEAN
        PROVE  append(toLow, k) \in SlotRec /\ SameSlot(append(toLow, k), s) /\ Counted(append(toLow, k))
    <2> DEFINE c == pkt(k)
               w == s.wb_size
    <2>1. c \in Seq(Chunk) /\ Len(c) = PktLen - k
      BY <1>5
    <2>2. w + PktLen - k = w + Len(c)
      <3>1. w \in Nat
        BY <1>2, SlotFields
      <3> HIDE DEF w, c
      <3> QED BY <2>1, <3>1, Bounds
    <2> HIDE DEF c
    <2>3. append(toLow, k) = IF toLow THEN [s EXCEPT !.low = @ \o c, !.wb_size = w + Len(c)]
                                      ELSE [s EXCEPT !.high = @ \o c, !.wb_size = w + Len(c)]
      BY <2>2, Zenon DEF c
    <2> HIDE DEF append
    <2> QED BY <1>2, <2>1, <2>3, AppendIs, Zenon
  <1>7. CASE Stale(s, r.id) \/ s.type \in {"HALFCLOSE", "PACCEPT"}
    <2>1. ~(~Stale(s, r.id) /\ s.type \in {"PLISTEN", "LISTEN"})
          /\ ~(~Stale(s, r.id) /\ s.type = "CONNECTED" /\ send_buffer_empty(s))
      BY <1>7
    <2>2. drop
      BY <1>7, <2>1, Zenon DEF SendSocket
    <2>3. freed' \subseteq 1 .. MaxSends
      BY <1>3, <2>2 DEF TypeInv, HistType
    <2>4. HistType'
      BY <2>2, <2>3 DEF TypeInv, HistType
    <2>5. TypeInv'
      BY <1>1, <2>2, <2>4, CmdDone, MsgSet, Kept DEF fdVars
    <2> QED BY <2>2, <2>5 DEF fdVars
  <1>8. CASE ~Stale(s, r.id) /\ s.type \in {"PLISTEN", "LISTEN"}
    <2>1. ~(Stale(s, r.id) \/ s.type \in {"HALFCLOSE", "PACCEPT"})
          /\ ~(~Stale(s, r.id) /\ s.type = "CONNECTED" /\ send_buffer_empty(s))
      BY <1>8
    <2>2. Abort("listen")
      BY <1>8, <2>1, Zenon DEF SendSocket
    <2> QED BY <1>1, <2>2, CmdDone, MsgSet
  <1>9. CASE CloseSlot(n, <<>>, "CLOSE", s.id, "clear")
    <2>1. <<>> \in Seq(Chunk)
      OBVIOUS
    <2> QED BY <1>1, <1>2, <1>3, <1>9, <2>1, CloseSlotIs, CmdDone
  <1>12. ~Stale(s, r.id) /\ s.type = "CONNECTED" /\ send_buffer_empty(s)
         => \/ CloseSlot(n, <<>>, "CLOSE", s.id, "clear")
            \/ \E k \in IF ~udp THEN 0 .. PktLen ELSE IF fits THEN {0, PktLen} ELSE {0} : write(k)
    <2> SUFFICES ASSUME ~Stale(s, r.id), s.type = "CONNECTED", send_buffer_empty(s)
                 PROVE  \/ CloseSlot(n, <<>>, "CLOSE", s.id, "clear")
                        \/ \E k \in IF ~udp THEN 0 .. PktLen ELSE IF fits THEN {0, PktLen} ELSE {0} : write(k)
      OBVIOUS
    <2>1. ~(Stale(s, r.id) \/ s.type \in {"HALFCLOSE", "PACCEPT"})
          /\ ~(~Stale(s, r.id) /\ s.type \in {"PLISTEN", "LISTEN"})
      OBVIOUS
    <2> QED BY <2>1, Zenon DEF SendSocket
  <1>13. /\ ~Stale(s, r.id) /\ s.type \notin {"HALFCLOSE", "PACCEPT", "PLISTEN", "LISTEN"}
         /\ s.type = "CONNECTED" => ~send_buffer_empty(s)
         => queue
    <2> SUFFICES ASSUME ~Stale(s, r.id), s.type \notin {"HALFCLOSE", "PACCEPT", "PLISTEN", "LISTEN"},
                        s.type = "CONNECTED" => ~send_buffer_empty(s)
                 PROVE  queue
      OBVIOUS
    <2>1. ~(Stale(s, r.id) \/ s.type \in {"HALFCLOSE", "PACCEPT"})
          /\ ~(~Stale(s, r.id) /\ s.type \in {"PLISTEN", "LISTEN"})
          /\ ~(~Stale(s, r.id) /\ s.type = "CONNECTED" /\ send_buffer_empty(s))
      OBVIOUS
    <2> QED BY <2>1, Zenon DEF SendSocket
  <1> HIDE DEF append, pkt, fits
  <1>10. ASSUME NEW k \in 0 .. PktLen, write(k), s.type = "CONNECTED"
         PROVE  /\ TypeInv' /\ UNCHANGED alloc_id
                /\ \/ Continue /\ UNCHANGED <<slot, opened, epoll>>
                   \/ /\ \E t : Queues(n, t)
                      /\ Continue /\ UNCHANGED opened
                      /\ epoll' = Watch(s.fd, "INOUT")
    <2>1. HistType'
      <3>1. SubSeq(pkt(0), 1, k) \in Seq(Chunk)
        <4>1. 0 \in 0 .. PktLen
          BY Bounds
        <4>2. pkt(0) \in Seq(Chunk) /\ Len(pkt(0)) = PktLen
          BY <1>5, <4>1, Bounds
        <4>3. 1 \in 1 .. (Len(pkt(0)) + 1) /\ k \in 0 .. Len(pkt(0)) /\ 1 <= k + 1
          BY <4>2, Bounds
        <4> QED BY <4>2, <4>3, Piece
      <3> DEFINE f == s.fd
                 out == SubSeq(pkt(0), 1, k)
      <3>2. wire' = [wire EXCEPT ![f] = @ \o out] /\ wire \in [Ids -> Seq(Chunk)]
        BY <1>10 DEF TypeInv, HistType
      <3>3. out \in Seq(Chunk)
        BY <3>1
      <3> HIDE DEF f, out
      <3>4. f \in Ids => wire[f] \o out \in Seq(Chunk)
        BY <3>2, <3>3
      <3>5. wire' \in [Ids -> Seq(Chunk)]
        BY <3>2, <3>4
      <3>6. freed' \subseteq 1 .. MaxSends
        BY <1>3, <1>10 DEF TypeInv, HistType
      <3> QED BY <3>5, <3>6 DEF HistType
    <2>2. CASE k = PktLen
      <3>1. Continue /\ UNCHANGED <<slot, opened, epoll, alloc_id>>
        BY <1>10, <2>2
      <3>2. TypeInv'
        BY <1>1, <2>1, <3>1, CmdDone, MsgSet, Kept
      <3> QED BY <3>1, <3>2
    <2>3. CASE k # PktLen
      <3> DEFINE t == append(udp /\ low, k)
      <3>1. /\ slot' = [slot EXCEPT ![n] = t] /\ epoll' = Watch(s.fd, "INOUT") /\ Continue
            /\ UNCHANGED <<opened, alloc_id>>
        BY <1>10, <2>3
      <3>2. t \in SlotRec /\ SameSlot(t, s) /\ Counted(t)
        BY <1>6
      <3>3. Queues(n, t)
        BY <3>1, <3>2 DEF Queues
      <3>4. SlotType'
        BY <1>2, <3>1, <3>2, SlotSet DEF TypeInv
      <3>5. FdType'
        BY <3>1 DEF TypeInv, FdType, Watch
      <3>6. TypeInv'
        BY <1>1, <2>1, <3>1, <3>4, <3>5, CmdDone, MsgSet
      <3> HIDE DEF t
      <3> QED BY <3>1, <3>3, <3>6
    <2> QED BY <2>2, <2>3
  <1>11. CASE /\ ~Stale(s, r.id) /\ s.type \notin {"HALFCLOSE", "PACCEPT", "PLISTEN", "LISTEN"}
              /\ s.type = "CONNECTED" => ~send_buffer_empty(s)
    <2> DEFINE t == append(low, 0)
    <2>1. /\ slot' = [slot EXCEPT ![n] = t] /\ Continue
          /\ UNCHANGED <<opened, epoll, alloc_id, freed, wire>>
      BY <1>11, <1>13 DEF fdVars, histVars
    <2>2. 0 \in 0 .. PktLen
      BY Bounds
    <2>3. t \in SlotRec /\ SameSlot(t, s) /\ Counted(t)
      BY <1>6, <2>2
    <2>4. Queues(n, t)
      BY <2>1, <2>3 DEF Queues
    <2>5. SlotType'
      BY <1>2, <2>1, <2>3, SlotSet DEF TypeInv
    <2>6. TypeInv'
      BY <1>1, <2>1, <2>5, CmdDone, MsgSet, Kept
    <2>7. s.type # "INVALID" /\ s.id = r.id
      BY <1>11 DEF Stale
    <2> HIDE DEF t
    <2> QED BY <1>11, <2>1, <2>4, <2>6, <2>7
  <1>14. CASE ~Stale(s, r.id) /\ s.type = "CONNECTED" /\ send_buffer_empty(s)
    <2> DEFINE K == IF ~udp THEN 0 .. PktLen ELSE IF fits THEN {0, PktLen} ELSE {0}
    <2>1. CASE \E k \in K : write(k)
      <3>1. PICK k \in K : write(k)
        BY <2>1
      <3>2. k \in 0 .. PktLen
        BY Bounds
      <3> HIDE DEF write
      <3> QED BY <1>10, <1>14, <3>1, <3>2
    <2> QED BY <1>9, <1>12, <1>14, <2>1
  <1> QED BY <1>4, <1>7, <1>8, <1>11, <1>14

\* The event that is looked at.
LEMMA EventIs ==
  ASSUME TypeInv, NEW types, Event(types)
  PROVE  LET e == Head(ev)  n == e.s IN
         /\ e = ev[1] /\ 1 \in DOMAIN ev /\ e \in EventRec /\ n \in Table
         /\ slot[n] \in SlotRec /\ Counted(slot[n]) /\ slot[n].type \in types
         /\ slot[n].id \in Ids \cup {Nil} /\ slot[n].fd \in Ids \cup {Nil}
         /\ Tail(ev) \in Seq(EventRec) /\ [ev EXCEPT ![1].read = FALSE] \in Seq(EventRec)
         /\ PipeType' /\ UNCHANGED <<ctrl, checkctrl>> /\ checkctrl \in BOOLEAN
         /\ failed = "NONE" /\ pollPc = "event"
  <1>1. /\ ev \in Seq(EventRec) /\ ev # <<>> /\ Head(ev).s # NoSlot /\ slot[Head(ev).s].type \in types
        /\ UNCHANGED <<ctrl, checkctrl>> /\ checkctrl \in BOOLEAN /\ failed = "NONE" /\ pollPc = "event"
    BY DEF TypeInv, EventType, Event
  <1>2. /\ Head(ev) = ev[1] /\ 1 \in DOMAIN ev /\ Head(ev) \in EventRec /\ Tail(ev) \in Seq(EventRec)
        /\ ev[1] \in EventRec
    BY <1>1
  <1>3. Head(ev).s \in Table
    BY <1>1, <1>2 DEF EventRec
  <1>4. slot[Head(ev).s] \in SlotRec /\ Counted(slot[Head(ev).s])
    BY <1>3 DEF TypeInv, SlotType
  <1>5. slot[Head(ev).s].id \in Ids \cup {Nil} /\ slot[Head(ev).s].fd \in Ids \cup {Nil}
    BY <1>4, SlotFields
  <1>6. [ev EXCEPT ![1].read = FALSE] \in Seq(EventRec)
    <2> DEFINE e == [ev[1] EXCEPT !.read = FALSE]
    <2>1. e \in EventRec
      BY <1>2 DEF EventRec
    <2>2. [ev EXCEPT ![1].read = FALSE] = [ev EXCEPT ![1] = e]
      OBVIOUS
    <2> HIDE DEF e
    <2>3. [ev EXCEPT ![1] = e] \in Seq(EventRec)
      BY <1>1, <1>2, <2>1
    <2> QED BY <2>2, <2>3
  <1>7. PipeType'
    BY <1>1, Kept
  <1> QED BY <1>1, <1>2, <1>3, <1>4, <1>5, <1>6, <1>7

\* What is left to show of a step that handles an event.
LEMMA EventDone ==
  ASSUME TypeInv, NEW types, Event(types), ev' \in Seq(EventRec), SlotType', FdType', HistType',
         MsgType', UNCHANGED <<alloc_id, user, known, used>>
  PROVE  TypeInv'
  <1>1. PipeType' /\ checkctrl' \in BOOLEAN
    BY EventIs
  <1>2. CallType'
    BY Kept
  <1> QED BY <1>1, <1>2 DEF TypeInv, EventType

\* report_connect keeps the types, whether connect() succeeded or not.
LEMMA ReportConnectType ==
  ASSUME TypeInv, ReportConnect
  PROVE  TypeInv'
  <1> DEFINE n == Head(ev).s
             s == slot[n]
  <1>1. Event({"CONNECTING"}) /\ ev' = Tail(ev) /\ UNCHANGED <<user, known, used>>
    BY DEF ReportConnect, callVars
  <1>2. n \in Table /\ s \in SlotRec /\ s.id \in Ids \cup {Nil} /\ ev' \in Seq(EventRec)
    BY <1>1, EventIs
  <1>3. "ERROR" \in MsgTypes /\ "OPEN" \in MsgTypes /\ "CONNECTED" \in Types /\ <<>> \in Seq(Chunk)
    BY DEF MsgTypes, Types
  <1>4. CASE CloseSlot(n, <<>>, "ERROR", s.id, "loop")
    BY <1>1, <1>2, <1>3, <1>4, CloseSlotIs, EventDone
  <1>5. CASE /\ slot' = [slot EXCEPT ![n].type = "CONNECTED"]
             /\ epoll' = IF send_buffer_empty(s) THEN Watch(s.fd, "IN") ELSE epoll
             /\ Return("OPEN", s.id, "loop")
             /\ UNCHANGED <<alloc_id, opened, histVars, failed>>
    <2>1. SlotType'
      BY <1>2, <1>3, <1>5, SetTypeIs DEF TypeInv
    <2>2. FdType'
      BY <1>5 DEF TypeInv, FdType, Watch
    <2>3. MsgType' /\ HistType'
      BY <1>2, <1>3, <1>5, MsgSet, Kept DEF histVars
    <2> QED BY <1>1, <1>2, <1>5, <2>1, <2>2, <2>3, EventDone
  <1> QED BY <1>4, <1>5, Zenon DEF ReportConnect

\* accept() fails, no slot is free, an assertion fails, or a connection is made.
LEMMA ReportAcceptIs ==
  ASSUME TypeInv, ReportAccept
  PROVE  /\ TypeInv' /\ UNCHANGED <<user, used, ctrl>> /\ ev' = Tail(ev) /\ Event({"LISTEN"})
         /\ \/ Continue /\ UNCHANGED <<slot, opened, epoll, known>>
            \/ UNCHANGED <<slot, opened, epoll, known, pollPc, msg>>
            \/ \E id \in Ids :
                 /\ slot[HASH_ID(id)].type = "INVALID" /\ send_buffer_empty(slot[HASH_ID(id)])
                 /\ new_fd(id, "PACCEPT", "NONE", "tcp") /\ opened' = opened \cup {id}
                 /\ Return("ACCEPT", id, "start")
  <1> DEFINE make(id) == /\ new_fd(id, "PACCEPT", "NONE", "tcp")
                         /\ opened' = opened \cup {id}
                         /\ known' = known \cup {id}
                         /\ Return("ACCEPT", id, "start")
                         /\ UNCHANGED failed
  <1>1. /\ Event({"LISTEN"}) /\ ev' = Tail(ev) /\ UNCHANGED <<user, used, freed, wire>>
        /\ UNCHANGED ctrl
    BY DEF ReportAccept, histVars, Event
  <1>2. ev' \in Seq(EventRec) /\ PipeType' /\ checkctrl' \in BOOLEAN /\ HistType'
    BY <1>1, EventIs, Kept
  <1>3. ASSUME alloc_id' \in 0 .. MaxId, known' \subseteq Ids
        PROVE  CallType'
    BY <1>1, <1>3 DEF TypeInv, CallType
  <1>4. alloc_id \in 0 .. MaxId /\ known \subseteq Ids
    BY DEF TypeInv, CallType
  <1>5. ASSUME CallType', SlotType', FdType', MsgType'
        PROVE  TypeInv'
    BY <1>2, <1>5 DEF TypeInv, EventType
  <1>6. CASE Continue /\ UNCHANGED <<alloc_id, slot, fdVars, known, failed>>
    <2>1. TypeInv'
      BY <1>3, <1>4, <1>5, <1>6, MsgSet, Kept DEF fdVars
    <2> QED BY <1>1, <1>6, <2>1 DEF fdVars
  <1>7. CASE /\ alloc_id + MaxSocket <= MaxId
             /\ alloc_id' = alloc_id + MaxSocket
             /\ Continue
             /\ UNCHANGED <<slot, fdVars, known, failed>>
    <2>1. alloc_id' \in 0 .. MaxId
      BY <1>4, <1>7, Bounds
    <2>2. TypeInv'
      BY <1>3, <1>4, <1>5, <1>7, <2>1, MsgSet, Kept DEF fdVars
    <2> QED BY <1>1, <1>7, <2>2 DEF fdVars
  <1>8. ASSUME NEW id \in FreeId(alloc_id) \cap Ids, alloc_id' = id,
               send_buffer_empty(slot[HASH_ID(id)]), make(id)
        PROVE  /\ TypeInv'
               /\ slot[HASH_ID(id)].type = "INVALID"
    <2>1. id \in Ids /\ alloc_id' \in 0 .. MaxId
      BY <1>8, Bounds DEF Ids
    <2>2. slot[HASH_ID(id)].type = "INVALID"
      BY DEF FreeId
    <2>3. "PACCEPT" \in Types /\ "tcp" \in Kinds /\ "ACCEPT" \in MsgTypes
      BY DEF Types, Kinds, MsgTypes
    <2>4. SlotType' /\ epoll' \in [Ids -> {"NONE", "IN", "INOUT"}]
      BY <1>8, <2>1, <2>3, NewFdIs
    <2>5. FdType' /\ known' \subseteq Ids
      BY <1>4, <1>8, <2>1, <2>4 DEF TypeInv, FdType
    <2>6. MsgType'
      BY <1>8, <2>1, <2>3, MsgSet
    <2> QED BY <1>3, <1>5, <2>1, <2>2, <2>4, <2>5, <2>6
  <1>9. ASSUME NEW id \in FreeId(alloc_id) \cap Ids, alloc_id' = id,
               UNCHANGED <<slot, fdVars, pollPc, msg, known>>
        PROVE  TypeInv'
    <2>1. alloc_id' \in 0 .. MaxId
      BY <1>9, Bounds DEF Ids
    <2> QED BY <1>3, <1>4, <1>5, <1>9, <2>1, Kept DEF fdVars
  <1>10. \/ Continue /\ UNCHANGED <<alloc_id, slot, fdVars, known, failed>>
         \/ /\ alloc_id + MaxSocket <= MaxId
            /\ alloc_id' = alloc_id + MaxSocket
            /\ Continue
            /\ UNCHANGED <<slot, fdVars, known, failed>>
         \/ \E id \in FreeId(alloc_id) \cap Ids :
              /\ alloc_id' = id
              /\ IF send_buffer_empty(slot[HASH_ID(id)]) THEN make(id)
                 ELSE UNCHANGED <<slot, fdVars, pollPc, msg, known>>
    BY Zenon DEF ReportAccept
  <1>11. ASSUME NEW id \in FreeId(alloc_id) \cap Ids, alloc_id' = id,
                IF send_buffer_empty(slot[HASH_ID(id)]) THEN make(id)
                ELSE UNCHANGED <<slot, fdVars, pollPc, msg, known>>
         PROVE  /\ TypeInv'
                /\ \/ UNCHANGED <<slot, opened, epoll, known, pollPc, msg>>
                   \/ /\ slot[HASH_ID(id)].type = "INVALID" /\ send_buffer_empty(slot[HASH_ID(id)])
                      /\ new_fd(id, "PACCEPT", "NONE", "tcp") /\ opened' = opened \cup {id}
                      /\ Return("ACCEPT", id, "start")
    <2>1. CASE send_buffer_empty(slot[HASH_ID(id)])
      <3>1. make(id)
        BY <1>11, <2>1
      <3>2. TypeInv' /\ slot[HASH_ID(id)].type = "INVALID"
        BY <1>8, <1>11, <2>1, <3>1
      <3> QED BY <2>1, <3>1, <3>2
    <2>2. CASE ~send_buffer_empty(slot[HASH_ID(id)])
      <3>1. UNCHANGED <<slot, fdVars, pollPc, msg, known>>
        BY <1>11, <2>2
      <3> QED BY <1>9, <1>11, <3>1 DEF fdVars
    <2> QED BY <2>1, <2>2
  <1> HIDE DEF make
  <1>12. CASE \E id \in FreeId(alloc_id) \cap Ids :
              /\ alloc_id' = id
              /\ IF send_buffer_empty(slot[HASH_ID(id)]) THEN make(id)
                 ELSE UNCHANGED <<slot, fdVars, pollPc, msg, known>>
    BY <1>1, <1>11, <1>12, Zenon
  <1> QED BY <1>6, <1>7, <1>10, <1>12

\* The slot of an event is closed or left as it is.
LEMMA ForwardMessageType ==
  ASSUME TypeInv, ForwardMessage \/ ForwardMessageUdp
  PROVE  TypeInv'
  <1> DEFINE n == Head(ev).s
             s == slot[n]
             next == IF Head(ev).write THEN [ev EXCEPT ![1].read = FALSE] ELSE Tail(ev)
  <1>1. Event(Streams) /\ UNCHANGED <<user, known, used>>
    BY DEF ForwardMessage, ForwardMessageUdp, callVars
  <1>2. /\ n \in Table /\ s.id \in Ids \cup {Nil} /\ next \in Seq(EventRec)
        /\ ev \in Seq(EventRec)
    BY <1>1, EventIs DEF TypeInv, EventType
  <1>3. {"ERROR", "CLOSE", "DATA", "UDP"} \subseteq MsgTypes /\ <<>> \in Seq(Chunk)
    BY DEF MsgTypes
  <1>4. ev' \in Seq(EventRec)
    BY <1>2 DEF ForwardMessage, ForwardMessageUdp
  <1>5. CASE CloseSlot(n, <<>>, "ERROR", s.id, "clear")
    BY <1>1, <1>2, <1>3, <1>4, <1>5, CloseSlotIs, EventDone
  <1>6. CASE CloseSlot(n, <<>>, "CLOSE", s.id, "clear")
    BY <1>1, <1>2, <1>3, <1>4, <1>6, CloseSlotIs, EventDone
  <1>7. CASE /\ Continue \/ Return("DATA", s.id, "loop") \/ Return("UDP", s.id, "loop")
             /\ UNCHANGED <<alloc_id, slot, fdVars, histVars, failed>>
    <2>1. MsgType'
      BY <1>2, <1>3, <1>7, MsgSet
    <2> QED BY <1>1, <1>4, <1>7, <2>1, Kept, EventDone DEF fdVars, histVars
  <1>8. \/ CloseSlot(n, <<>>, "ERROR", s.id, "clear")
        \/ CloseSlot(n, <<>>, "CLOSE", s.id, "clear")
        \/ /\ Continue \/ Return("DATA", s.id, "loop") \/ Return("UDP", s.id, "loop")
           /\ UNCHANGED <<alloc_id, slot, fdVars, histVars, failed>>
    BY Zenon DEF ForwardMessage, ForwardMessageUdp
  <1> QED BY <1>5, <1>6, <1>7, <1>8

\* send_buffer, complete, cut short or failed, keeps the types.
LEMMA SendBufferType ==
  ASSUME TypeInv, SendBuffer
  PROVE  TypeInv'
  <1> DEFINE n == Head(ev).s
             s == slot[n]
  <1>1. Event(Streams) /\ ev' = Tail(ev) /\ UNCHANGED <<user, known, used>>
    BY DEF SendBuffer, callVars
  <1>2. n \in Table /\ s \in SlotRec /\ s.id \in Ids \cup {Nil} /\ ev' \in Seq(EventRec)
    BY <1>1, EventIs
  <1>3. s.type \in Types /\ s.high \in Seq(Chunk) /\ "CLOSE" \in MsgTypes
    BY <1>2, SlotFields DEF MsgTypes
  <1>4. CASE Abort("uncomplete")
    BY <1>1, <1>2, <1>4, MsgSet, EventDone
  <1>5. CASE WriteFails(n)
    BY <1>1, <1>2, <1>3, <1>5, WriteFailsIs, CloseSlotIs, EventDone
  <1>6. CASE CloseSlot(n, s.high, "CLOSE", s.id, "clear")
    BY <1>1, <1>2, <1>3, <1>6, CloseSlotIs, EventDone
  <1>7. ASSUME NEW k \in Takes(s), WriteOut(n, k, s.type), Continue,
               epoll' = Watch(s.fd, "IN") \/ UNCHANGED epoll
        PROVE  TypeInv'
    <2>1. k \in 0 .. Size(s)
      BY <1>2, TakesIs
    <2>2. SlotType' /\ HistType' /\ UNCHANGED <<alloc_id, opened>>
      BY <1>2, <1>3, <1>7, <2>1, WriteOutIs
    <2>3. FdType'
      BY <1>7, <2>2 DEF TypeInv, FdType, Watch
    <2> QED BY <1>1, <1>2, <1>7, <2>2, <2>3, MsgSet, EventDone
  <1>8. \/ Abort("uncomplete") \/ WriteFails(n)
        \/ CloseSlot(n, s.high, "CLOSE", s.id, "clear")
        \/ \E k \in Takes(s) : /\ WriteOut(n, k, s.type) /\ Continue
                               /\ epoll' = Watch(s.fd, "IN") \/ UNCHANGED epoll
    BY Zenon DEF SendBuffer
  <1> QED BY <1>4, <1>5, <1>6, <1>7, <1>8

\* The batch that epoll_wait returns: the events are of the types of ev, and
\* each is about another descriptor that epoll watches, or about the pipe.
LEMMA WaitIs ==
  ASSUME TypeInv, Wait
  PROVE  /\ TypeInv' /\ UNCHANGED <<slot, opened, epoll, ctrl, pollPc, msg, user, known, used>>
         /\ \A i \in DOMAIN ev' :
              /\ ev'[i].s # NoSlot => /\ ev'[i].fd \in Ids /\ epoll[ev'[i].fd] # "NONE"
                                      /\ ev'[i].s = HASH_ID(ev'[i].fd)
              /\ ev'[i].s = NoSlot => ev'[i].fd = Nil
         /\ \A i, j \in DOMAIN ev' : ev'[i].fd = ev'[j].fd => i = j
  <1> DEFINE ready == { fd \in Ids : epoll[fd] # "NONE" } \cup
                      (IF ctrl = <<>> THEN {} ELSE {Nil})
             R == UNION { Reports(fd) : fd \in ready }
  <1>1. PICK k \in 1 .. MaxEvent : \E fds \in [1 .. k -> ready] :
          /\ \A i, j \in 1 .. k : fds[i] = fds[j] => i = j
          /\ ev' \in { b \in [1 .. k -> R] : \A i \in 1 .. k : b[i].fd = fds[i] }
    BY Zenon DEF Wait
  <1>2. PICK fds \in [1 .. k -> ready] :
          /\ \A i, j \in 1 .. k : fds[i] = fds[j] => i = j
          /\ ev' \in { b \in [1 .. k -> R] : \A i \in 1 .. k : b[i].fd = fds[i] }
    BY <1>1
  <1>3. ev' \in [1 .. k -> R] /\ \A i \in 1 .. k : ev'[i].fd = fds[i]
    BY <1>2
  <1>4. ASSUME NEW fd \in ready, NEW e \in Reports(fd)
        PROVE  /\ e \in EventRec /\ e.fd = fd
               /\ e.s # NoSlot => fd \in Ids /\ epoll[fd] # "NONE" /\ e.s = HASH_ID(fd)
               /\ e.s = NoSlot => fd = Nil
    <2>1. CASE fd = Nil
      <3>1. e = [s |-> NoSlot, fd |-> Nil, read |-> TRUE, write |-> FALSE]
        BY <2>1 DEF Reports
      <3> QED BY <2>1, <3>1 DEF EventRec
    <2>2. CASE fd # Nil
      <3>1. e \in [s : {HASH_ID(fd)}, fd : {fd}, read : BOOLEAN, write : BOOLEAN]
        BY <2>2 DEF Reports
      <3>2. fd \in Ids /\ epoll[fd] # "NONE"
        BY <2>2
      <3>3. HASH_ID(fd) \in Table /\ HASH_ID(fd) # NoSlot
        <4>1. fd \in Nat
          BY <3>2, Bounds DEF Ids
        <4>2. \A x \in Table : x # NoSlot
          BY Bounds DEF Table, NoSlot
        <4> QED BY <4>1, <4>2, HashType
      <3> QED BY <2>2, <3>1, <3>2, <3>3 DEF EventRec
    <2> QED BY <2>1, <2>2
  <1>5. ASSUME NEW i \in 1 .. k
        PROVE  /\ ev'[i] \in EventRec /\ ev'[i].fd = fds[i]
               /\ ev'[i].s # NoSlot => /\ ev'[i].fd \in Ids /\ epoll[ev'[i].fd] # "NONE"
                                       /\ ev'[i].s = HASH_ID(ev'[i].fd)
               /\ ev'[i].s = NoSlot => ev'[i].fd = Nil
    <2>1. ev'[i] \in R
      BY <1>3
    <2> DEFINE e == ev'[i]
    <2>2. PICK fd \in ready : e \in Reports(fd)
      BY <2>1
    <2> HIDE DEF e, ready
    <2>3. /\ e \in EventRec /\ e.fd = fd
          /\ e.s # NoSlot => fd \in Ids /\ epoll[fd] # "NONE" /\ e.s = HASH_ID(fd)
          /\ e.s = NoSlot => fd = Nil
      BY <1>4, <2>2
    <2>4. e.fd = fds[i]
      BY <1>3 DEF e
    <2> QED BY <2>3, <2>4 DEF e
  <1> HIDE DEF R, ready
  <1>6. k \in Nat
    BY Bounds
  <1>7. ev' \in Seq(EventRec) /\ DOMAIN ev' = 1 .. k
    <2>1. ev' \in [1 .. k -> EventRec]
      BY <1>3, <1>5
    <2> QED BY <1>6, <2>1
  <1>8. UNCHANGED <<alloc_id, slot, opened, epoll, ctrl, pollPc, msg, user, known, used, freed, wire>>
        /\ checkctrl' = TRUE
    BY DEF Wait, fdVars, callVars, histVars
  <1>9. EventType'
    BY <1>7, <1>8 DEF EventType
  <1>10. TypeInv'
    BY <1>8, <1>9, Kept DEF TypeInv
  <1>11. \A i, j \in DOMAIN ev' : ev'[i].fd = ev'[j].fd => i = j
    BY <1>2, <1>5, <1>7
  <1> QED BY <1>5, <1>7, <1>8, <1>10, <1>11

\* clear_closed_event: the events of the closed socket lose their slot.
LEMMA ClearIs ==
  ASSUME TypeInv, ClearClosedEvent
  PROVE  /\ TypeInv' /\ DOMAIN ev' = DOMAIN ev
         /\ \A i \in DOMAIN ev :
              \/ /\ ev[i].s # NoSlot /\ slot[ev[i].s].type = "INVALID" /\ slot[ev[i].s].id = msg.id
                 /\ ev'[i].s = NoSlot
              \/ /\ ~(ev[i].s # NoSlot /\ slot[ev[i].s].type = "INVALID" /\ slot[ev[i].s].id = msg.id)
                 /\ ev'[i] = ev[i]
  <1> DEFINE hit(i) == /\ ev[i].s # NoSlot
                       /\ slot[ev[i].s].type = "INVALID" /\ slot[ev[i].s].id = msg.id
             next(i) == IF hit(i) THEN [ev[i] EXCEPT !.s = NoSlot] ELSE ev[i]
  <1>1. /\ ev' = [i \in DOMAIN ev |-> next(i)] /\ pollPc' = "loop"
        /\ UNCHANGED <<alloc_id, slot, opened, epoll, ctrl, checkctrl, msg, user, known, used, freed, wire>>
    BY DEF ClearClosedEvent, fdVars, callVars, histVars
  <1>2. ev \in Seq(EventRec) /\ checkctrl \in BOOLEAN
    BY DEF TypeInv, EventType
  <1>3. ASSUME NEW e \in EventRec
        PROVE  [e EXCEPT !.s = NoSlot] \in EventRec /\ [e EXCEPT !.s = NoSlot].s = NoSlot
    BY DEF EventRec
  <1>4. \A i \in DOMAIN ev : ev[i] \in EventRec
    BY <1>2
  <1>5. \A i \in DOMAIN ev : /\ next(i) \in EventRec
                             /\ hit(i) => next(i).s = NoSlot
                             /\ ~hit(i) => next(i) = ev[i]
    BY <1>3, <1>4
  <1> HIDE DEF next, hit
  <1>6. ev' \in Seq(EventRec) /\ DOMAIN ev' = DOMAIN ev /\ \A i \in DOMAIN ev : ev'[i] = next(i)
    <2>1. Len(ev) \in Nat /\ DOMAIN ev = 1 .. Len(ev)
      BY <1>2
    <2>2. ev' \in [1 .. Len(ev) -> EventRec]
      BY <1>1, <1>5, <2>1
    <2> QED BY <1>1, <2>1, <2>2
  <1>7. EventType' /\ MsgType'
    BY <1>1, <1>2, <1>6 DEF EventType, MsgType, TypeInv
  <1>8. TypeInv'
    BY <1>1, <1>7, Kept DEF TypeInv
  <1>9. \A i \in DOMAIN ev : (hit(i) /\ ev'[i].s = NoSlot) \/ (~hit(i) /\ ev'[i] = ev[i])
    BY <1>5, <1>6
  <1> QED BY <1>6, <1>8, <1>9 DEF hit

\* The head of socket_server_poll's loop and a skipped event keep the types.
LEMMA LoopType ==
  ASSUME TypeInv, NoCmd \/ SkipEvent
  PROVE  TypeInv'
  <1>1. CASE NoCmd
    <2>1. /\ checkctrl' = FALSE /\ pollPc' = "event" /\ msg' = NoMsg
          /\ UNCHANGED <<alloc_id, slot, opened, epoll, ctrl, ev, user, known, used, freed, wire>>
      BY <1>1 DEF NoCmd, fdVars, callVars, histVars
    <2>2. NoMsg \in [type : MsgTypes, id : Ids \cup {Nil}]
      BY DEF NoMsg, MsgTypes
    <2>3. EventType' /\ MsgType'
      BY <2>1, <2>2 DEF TypeInv, EventType, MsgType
    <2> QED BY <2>1, <2>3, Kept DEF TypeInv
  <1>2. CASE SkipEvent
    <2>1. /\ ev # <<>> /\ ev' = Tail(ev) /\ Continue
          /\ UNCHANGED <<alloc_id, slot, opened, epoll, ctrl, checkctrl, user, known, used, freed, wire>>
      BY <1>2 DEF SkipEvent, fdVars, callVars, histVars
    <2>2. ev' \in Seq(EventRec)
      BY <2>1 DEF TypeInv, EventType
    <2>3. EventType' /\ MsgType'
      BY <2>1, <2>2, MsgSet DEF TypeInv, EventType
    <2> QED BY <2>1, <2>3, Kept DEF TypeInv
  <1> QED BY <1>1, <1>2

\* A request is put at the end of the pipe.
LEMMA PipeSet ==
  ASSUME PipeType, NEW r \in Request, r.op \in Sends => r.pkt # Nil, Len(ctrl) < PipeCap,
         ctrl' = Append(ctrl, r)
  PROVE  /\ PipeType' /\ DOMAIN ctrl' = 1 .. (Len(ctrl) + 1) /\ Len(ctrl) \in Nat
         /\ DOMAIN ctrl = 1 .. Len(ctrl)
         /\ ctrl'[Len(ctrl) + 1] = r /\ \A i \in DOMAIN ctrl : ctrl'[i] = ctrl[i]
  <1>1. /\ ctrl \in Seq(Request) /\ Len(ctrl) <= PipeCap
        /\ \A i \in DOMAIN ctrl : ctrl[i].op \in Sends => ctrl[i].pkt # Nil
    BY DEF PipeType
  <1>2. /\ ctrl' \in Seq(Request) /\ Len(ctrl') = Len(ctrl) + 1 /\ Len(ctrl) \in Nat
        /\ ctrl'[Len(ctrl) + 1] = r /\ \A i \in DOMAIN ctrl : ctrl'[i] = ctrl[i]
        /\ DOMAIN ctrl' = 1 .. (Len(ctrl) + 1) /\ DOMAIN ctrl = 1 .. Len(ctrl)
    BY <1>1
  <1>3. Len(ctrl') <= PipeCap
    BY <1>2, Bounds
  <1>4. \A i \in DOMAIN ctrl' : i \in DOMAIN ctrl \/ i = Len(ctrl) + 1
    BY <1>2
  <1>5. \A i \in DOMAIN ctrl' : ctrl'[i].op \in Sends => ctrl'[i].pkt # Nil
    BY <1>1, <1>2, <1>4
  <1> QED BY <1>2, <1>3, <1>5 DEF PipeType

\* Starting an accepted client adds one request to a pipe with room.
LEMMA StartAcceptedIs ==
  ASSUME TypeInv, StartAccepted
  PROVE  LET r == [op |-> "S", id |-> msg.id, pkt |-> Nil, fits |-> TRUE] IN
         /\ TypeInv' /\ r \in Request /\ Len(ctrl) < PipeCap /\ ctrl' = Append(ctrl, r)
         /\ pollPc = "start" /\ pollPc' = "loop"
         /\ UNCHANGED <<alloc_id, slot, opened, epoll, checkctrl, ev, msg, user, known, used>>
  <1> DEFINE r == [op |-> "S", id |-> msg.id, pkt |-> Nil, fits |-> TRUE]
  <1>1. /\ Len(ctrl) < PipeCap /\ ctrl' = Append(ctrl, r) /\ pollPc' = "loop" /\ pollPc = "start"
        /\ UNCHANGED <<alloc_id, slot, opened, epoll, checkctrl, ev, msg, user, known, used, freed, wire>>
    BY DEF StartAccepted, fdVars, callVars, histVars
  <1>2. msg.id \in Ids
    BY <1>1 DEF TypeInv, MsgType
  <1>3. r \in Request /\ r.op \notin Sends
    <2>1. Nil \in 0 .. MaxSends
      BY Bounds DEF Nil
    <2> QED BY <1>2, <2>1 DEF Request, Sends
  <1> HIDE DEF r
  <1>4. PipeType'
    BY <1>1, <1>3, PipeSet DEF TypeInv
  <1>5. MsgType'
    BY <1>1 DEF TypeInv, MsgType
  <1>6. TypeInv'
    BY <1>1, <1>4, <1>5, Kept DEF TypeInv
  <1> QED BY <1>1, <1>3, <1>6 DEF r

\* Every step of the poll thread keeps the types.
LEMMA PollType ==
  ASSUME TypeInv, PollThread
  PROVE  TypeInv'
  BY StartSocketType, ListenSocketType, OpenSocketType, BindSocketType, AddUdpSocketType,
     SetUdpAddressIs, CloseSocketType, SendSocketIs, LoopType, WaitIs, ReportConnectType,
     ReportAcceptIs, ForwardMessageType, SendBufferType, ClearIs, StartAcceptedIs DEF PollThread

-----------------------------------------------------------------------------
(* Types: steps of the callers                                             *)

Req == [op : Ops, id : Ids \cup {Nil}, pkt : {Nil}, fits : BOOLEAN]

\* The fields of a caller's request have their types.
LEMMA CallFields ==
  ASSUME TypeInv, NEW u \in Users
  PROVE  /\ user[u] \in CallRec /\ user[u].req \in Req /\ user[u].tries \in Nat
         /\ user[u].req.op \in Ops /\ user[u].req.id \in Ids \cup {Nil}
         /\ user[u].req.fits \in BOOLEAN
         /\ user[u].pc \in {"look", "cas", "setid", "request"} => user[u].req.id \in Ids
  <1>1. user[u] \in CallRec
    BY DEF TypeInv, CallType
  <1>2. user[u].req \in Req /\ user[u].tries \in Nat
    BY <1>1 DEF CallRec, Req
  <1>3. /\ user[u].req.op \in Ops /\ user[u].req.id \in Ids \cup {Nil}
        /\ user[u].req.fits \in BOOLEAN
    BY <1>2 DEF Req
  <1> QED BY <1>1, <1>2, <1>3 DEF TypeInv, CallType

\* A caller at rest.
LEMMA IdleIs ==
  /\ Idle \in CallRec /\ Idle.pc = "idle" /\ Idle.req \in Req
  /\ Idle.req = [op |-> "K", id |-> Nil, pkt |-> Nil, fits |-> TRUE]
  BY DEF Idle, CallRec, Req, Ops

\* The call of u goes on as c.
LEMMA CallSet ==
  ASSUME TypeInv, NEW u \in Users, NEW c \in CallRec, user' = [user EXCEPT ![u] = c],
         c.pc \in {"look", "cas", "setid", "request"} => c.req.id \in Ids,
         alloc_id' \in 0 .. MaxId, used' \in [Used -> Nat], used'["D"] <= MaxSends,
         known' \subseteq Ids
  PROVE  CallType' /\ user'[u] = c /\ \A v \in Users : v # u => user'[v] = user[v]
  <1>1. user \in [Users -> CallRec]
        /\ \A v \in Users : user[v].pc \in {"look", "cas", "setid", "request"} => user[v].req.id \in Ids
    BY DEF TypeInv, CallType
  <1>2. user' \in [Users -> CallRec] /\ user'[u] = c /\ \A v \in Users : v # u => user'[v] = user[v]
    BY <1>1
  <1>3. \A v \in Users : user'[v].pc \in {"look", "cas", "setid", "request"} => user'[v].req.id \in Ids
    BY <1>1, <1>2
  <1> QED BY <1>2, <1>3 DEF CallType

\* The counters and the ids that callers know have their types.
LEMMA CallKept ==
  ASSUME TypeInv
  PROVE  /\ alloc_id \in 0 .. MaxId /\ used \in [Used -> Nat] /\ used["D"] <= MaxSends
         /\ known \subseteq Ids
  BY DEF TypeInv, CallType

\* A step of a call leaves what belongs to the poll thread alone.
LEMMA CallDone ==
  ASSUME TypeInv, NEW u, NEW pc, Call(u, pc), CallType', SlotType', PipeType'
  PROVE  /\ TypeInv'
         /\ UNCHANGED <<opened, epoll, checkctrl, ev, pollPc, msg, freed, wire, failed>>
         /\ user[u].pc = pc
  <1>1. UNCHANGED <<opened, epoll, checkctrl, ev, pollPc, msg, freed, wire, failed>> /\ user[u].pc = pc
    BY DEF Call, fdVars, pollVars, histVars
  <1> QED BY <1>1, Kept DEF TypeInv

\* A call that opens a socket is counted and goes on to fetch an id.
LEMMA OpenIs ==
  ASSUME TypeInv, NEW u \in Users, NEW op \in Opens, Open(u, op)
  PROVE  /\ TypeInv' /\ opens < MaxOpens /\ opens' = opens + 1 /\ opens \in Nat
         /\ user[u].pc = "idle" /\ user'[u].pc = "fetch" /\ user'[u].req.op = op
         /\ \A v \in Users : v # u => user'[v] = user[v]
         /\ UNCHANGED <<slot, ctrl, known, opened, epoll, checkctrl, ev, pollPc, msg, failed>>
  <1> DEFINE q == [Idle.req EXCEPT !.op = op]
             c == [Idle EXCEPT !.pc = "fetch", !.req.op = op]
  <1>1. /\ Call(u, "idle") /\ opens < MaxOpens /\ used' = [used EXCEPT ![op] = @ + 1]
        /\ user' = [user EXCEPT ![u] = c] /\ UNCHANGED <<alloc_id, slot, ctrl, known>>
    BY DEF Open, opens
  <1>2. c \in CallRec /\ c.pc = "fetch" /\ c.req.op = op
    <2>1. op \in Ops
      BY DEF Opens, Ops
    <2>2. c = [Idle EXCEPT !.pc = "fetch", !.req = q]
      OBVIOUS
    <2>3. q \in Req /\ q.op = op
      BY <2>1, IdleIs DEF Req
    <2> HIDE DEF c, q
    <2> QED BY <2>2, <2>3, IdleIs DEF CallRec, Req
  <1> HIDE DEF c
  <1>3. used' \in [Used -> Nat] /\ used'["D"] = used["D"] /\ opens \in Nat /\ opens' = opens + 1
    <2>1. used \in [Used -> Nat] /\ op \in {"L", "O", "U", "B"}
      BY CallKept DEF Opens
    <2>2. /\ used' \in [Used -> Nat] /\ used'["D"] = used["D"]
          /\ \A k \in {"L", "O", "U", "B"} : used[k] \in Nat /\ used'[k] = IF k = op THEN used[k] + 1 ELSE used[k]
      BY <1>1, <2>1 DEF Used
    <2> DEFINE p == used["L"]  o == used["O"]  r == used["U"]  b == used["B"]
               p1 == used'["L"]  o1 == used'["O"]  r1 == used'["U"]  b1 == used'["B"]
    <2>3. /\ p \in Nat /\ o \in Nat /\ r \in Nat /\ b \in Nat
          /\ \/ p1 = p + 1 /\ o1 = o /\ r1 = r /\ b1 = b
             \/ p1 = p /\ o1 = o + 1 /\ r1 = r /\ b1 = b
             \/ p1 = p /\ o1 = o /\ r1 = r + 1 /\ b1 = b
             \/ p1 = p /\ o1 = o /\ r1 = r /\ b1 = b + 1
      BY <2>1, <2>2
    <2>4. opens = p + o + r + b /\ opens' = p1 + o1 + r1 + b1
      BY DEF opens
    <2> HIDE DEF p, o, r, b, p1, o1, r1, b1
    <2> QED BY <2>2, <2>3, <2>4
  <1>4. used'["D"] <= MaxSends
    BY <1>3, CallKept
  <1>5. CallType' /\ user'[u] = c /\ \A v \in Users : v # u => user'[v] = user[v]
    BY <1>1, <1>2, <1>3, <1>4, CallKept, CallSet
  <1>6. SlotType' /\ PipeType'
    BY <1>1, Kept
  <1>7. TypeInv' /\ user[u].pc = "idle"
        /\ UNCHANGED <<opened, epoll, checkctrl, ev, pollPc, msg, failed>>
    BY <1>1, <1>5, <1>6, CallDone
  <1> QED BY <1>1, <1>2, <1>3, <1>5, <1>7

\* The increment of alloc_id changes the caller only.
LEMMA ReserveFetchIs ==
  ASSUME TypeInv, NEW u \in Users, ReserveFetch(u)
  PROVE  /\ TypeInv' /\ user[u].pc = "fetch"
         /\ user'[u].pc = "idle" \/ (user'[u].pc = "look" /\ user'[u].req.op = user[u].req.op)
         /\ \A v \in Users : v # u => user'[v] = user[v]
         /\ UNCHANGED <<slot, ctrl, known, used, opened, epoll, checkctrl, ev, pollPc, msg, failed>>
  <1> DEFINE c == user[u]
             d == [c EXCEPT !.pc = "look", !.req.id = alloc_id + 1]
  <1>1. Call(u, "fetch") /\ alloc_id < MaxId /\ UNCHANGED <<slot, ctrl, known, used>>
    BY DEF ReserveFetch
  <1>2. SlotType' /\ PipeType'
    BY <1>1, Kept
  <1>3. CASE user' = [user EXCEPT ![u] = Idle] /\ UNCHANGED alloc_id
    <2>1. CallType' /\ user'[u] = Idle /\ \A v \in Users : v # u => user'[v] = user[v]
      BY <1>1, <1>3, IdleIs, CallKept, CallSet
    <2>2. TypeInv' /\ user[u].pc = "fetch"
          /\ UNCHANGED <<opened, epoll, checkctrl, ev, pollPc, msg, failed>>
      BY <1>1, <1>2, <2>1, CallDone
    <2> QED BY <1>1, <2>1, <2>2, IdleIs
  <1>4. CASE alloc_id' = alloc_id + 1 /\ user' = [user EXCEPT ![u] = d]
    <2>1. alloc_id' \in 0 .. MaxId /\ alloc_id + 1 \in Ids
      BY <1>1, <1>4, CallKept, Bounds DEF Ids
    <2>2. c \in CallRec /\ c.req \in Req
      BY CallFields
    <2> DEFINE q == [c.req EXCEPT !.id = alloc_id + 1]
    <2>3. q \in Req /\ q.id = alloc_id + 1 /\ q.op = c.req.op
      BY <2>1, <2>2 DEF Req
    <2>4. d = [c EXCEPT !.pc = "look", !.req = q]
      OBVIOUS
    <2> HIDE DEF q, d
    <2>5. d \in CallRec /\ d.pc = "look" /\ d.req = q
      BY <2>2, <2>3, <2>4 DEF CallRec, Req
    <2>6. CallType' /\ user'[u] = d /\ \A v \in Users : v # u => user'[v] = user[v]
      BY <1>1, <1>4, <2>1, <2>3, <2>5, CallKept, CallSet
    <2>7. TypeInv' /\ user[u].pc = "fetch"
          /\ UNCHANGED <<opened, epoll, checkctrl, ev, pollPc, msg, failed>>
      BY <1>1, <1>2, <2>6, CallDone
    <2> QED BY <1>1, <2>3, <2>5, <2>6, <2>7
  <1> QED BY <1>3, <1>4, Zenon DEF ReserveFetch

\* Looking at a slot's type changes the caller only.
LEMMA ReserveLookIs ==
  ASSUME TypeInv, NEW u \in Users, ReserveLook(u)
  PROVE  /\ TypeInv' /\ user[u].pc = "look"
         /\ user'[u].pc \in {"cas", "fetch"} /\ user'[u].req = user[u].req
         /\ \A v \in Users : v # u => user'[v] = user[v]
         /\ UNCHANGED <<slot, ctrl, known, used, opened, epoll, checkctrl, ev, pollPc, msg, failed>>
  <1> DEFINE c == user[u]
             d == [c EXCEPT !.pc = "cas"]
             more == c.tries + 1
             e == [c EXCEPT !.pc = "fetch", !.tries = more]
  <1>1. Call(u, "look") /\ UNCHANGED <<alloc_id, slot, ctrl, known, used>>
    BY DEF ReserveLook
  <1>2. SlotType' /\ PipeType'
    BY <1>1, Kept
  <1>3. c \in CallRec /\ c.pc = "look" /\ c.req.id \in Ids
    BY <1>1, CallFields DEF Call
  <1>4. /\ d \in CallRec /\ d.pc = "cas" /\ d.req = c.req
        /\ e \in CallRec /\ e.pc = "fetch" /\ e.req = c.req
    <2>1. more \in Nat
      <3> DEFINE k == c.tries
      <3>1. k \in Nat
        BY CallFields
      <3> HIDE DEF k
      <3> QED BY <3>1 DEF k
    <2> HIDE DEF more
    <2> QED BY <1>3, <2>1 DEF CallRec
  <1>5. user' = [user EXCEPT ![u] = d] \/ user' = [user EXCEPT ![u] = e]
    <2>1. \/ user' = [user EXCEPT ![u].pc = "cas"]
          \/ user' = [user EXCEPT ![u].pc = "fetch", ![u].tries = @ + 1]
      BY Zenon DEF ReserveLook
    <2>2. [user EXCEPT ![u].pc = "cas"] = [user EXCEPT ![u] = d]
      OBVIOUS
    <2>3. [user EXCEPT ![u].pc = "fetch", ![u].tries = @ + 1] = [user EXCEPT ![u] = e]
      BY Zenon
    <2> QED BY <2>1, <2>2, <2>3, Zenon
  <1> HIDE DEF d, e
  <1>6. CallType' /\ user'[u] \in {d, e} /\ \A v \in Users : v # u => user'[v] = user[v]
    BY <1>1, <1>3, <1>4, <1>5, CallKept, CallSet
  <1>7. TypeInv' /\ UNCHANGED <<opened, epoll, checkctrl, ev, pollPc, msg, failed>>
    BY <1>1, <1>2, <1>6, CallDone
  <1> QED BY <1>1, <1>3, <1>4, <1>6, <1>7

\* The slot is reserved, or somebody else was faster.
LEMMA ReserveCasIs ==
  ASSUME TypeInv, NEW u \in Users, ReserveCas(u)
  PROVE  LET n == HASH_ID(user[u].req.id)  s == slot[n]  t == slot'[n] IN
         /\ TypeInv' /\ user[u].pc = "cas" /\ n \in Table
         /\ user'[u].req = user[u].req
         /\ \A v \in Users : v # u => user'[v] = user[v]
         /\ \/ /\ s.type = "INVALID" /\ user'[u].pc = "setid" /\ t.type = "RESERVE"
               /\ t.id = s.id /\ t.fd = s.fd /\ t.kind = s.kind /\ t.high = s.high /\ t.low = s.low
               /\ \A m \in Table : m # n => slot'[m] = slot[m]
            \/ s.type # "INVALID" /\ user'[u].pc = "fetch" /\ UNCHANGED slot
         /\ UNCHANGED <<ctrl, known, used, opened, epoll, checkctrl, ev, pollPc, msg, failed>>
  <1> DEFINE c == user[u]
             n == HASH_ID(c.req.id)
             pc == IF slot[n].type = "INVALID" THEN "setid" ELSE "fetch"
             d == [c EXCEPT !.pc = pc]
  <1>1. Call(u, "cas") /\ UNCHANGED <<alloc_id, ctrl, known, used>> /\ user' = [user EXCEPT ![u] = d]
    BY DEF ReserveCas
  <1>2. c \in CallRec /\ c.pc = "cas" /\ c.req.id \in Ids
    BY <1>1, CallFields DEF Call
  <1>3. n \in Table
    BY <1>2, HashType, Bounds DEF Ids
  <1>4. pc \in {"setid", "fetch"}
    OBVIOUS
  <1>5. d \in CallRec /\ d.pc = pc /\ d.req = c.req
    <2> HIDE DEF pc
    <2> QED BY <1>2, <1>4 DEF CallRec
  <1> HIDE DEF d
  <1>6. CallType' /\ user'[u] = d /\ \A v \in Users : v # u => user'[v] = user[v]
    BY <1>1, <1>2, <1>5, CallKept, CallSet
  <1>7. CASE slot[n].type = "INVALID"
    <2>1. slot' = [slot EXCEPT ![n].type = "RESERVE"] /\ "RESERVE" \in Types /\ SlotType
      BY <1>7 DEF ReserveCas, Types, TypeInv
    <2> DEFINE s == slot[n]
               t == slot'[n]
    <2>2. /\ SlotType' /\ t.type = "RESERVE" /\ t.id = s.id /\ t.fd = s.fd /\ t.kind = s.kind
          /\ t.high = s.high /\ t.low = s.low
          /\ \A m \in Table : m # n => slot'[m] = slot[m]
      BY <1>3, <2>1, SetTypeIs
    <2>3. TypeInv' /\ UNCHANGED <<opened, epoll, checkctrl, ev, pollPc, msg, failed>>
      BY <1>1, <1>6, <2>2, Kept, CallDone
    <2> HIDE DEF s, t
    <2>4. user'[u].pc = "setid" /\ user'[u].req = user[u].req
      BY <1>5, <1>6, <1>7
    <2> QED BY <1>1, <1>2, <1>3, <1>6, <1>7, <2>2, <2>3, <2>4 DEF s, t
  <1>8. CASE slot[n].type # "INVALID"
    <2>1. UNCHANGED slot
      BY <1>8 DEF ReserveCas
    <2>2. TypeInv' /\ UNCHANGED <<opened, epoll, checkctrl, ev, pollPc, msg, failed>>
      BY <1>1, <1>6, <2>1, Kept, CallDone
    <2>3. user'[u].pc = "fetch" /\ user'[u].req = user[u].req
      BY <1>5, <1>6, <1>8
    <2> QED BY <1>1, <1>2, <1>3, <1>6, <1>8, <2>1, <2>2, <2>3
  <1> QED BY <1>7, <1>8

\* s->id is written, and the descriptor is there unless connect() makes it.
LEMMA ReserveSetIdIs ==
  ASSUME TypeInv, NEW u \in Users, ReserveSetId(u)
  PROVE  LET r == user[u].req  n == HASH_ID(r.id)  s == slot[n]  t == slot'[n] IN
         /\ TypeInv' /\ user[u].pc = "setid" /\ n \in Table /\ r.id \in Ids
         /\ user'[u].req = r /\ user'[u].pc = "request"
         /\ \A v \in Users : v # u => user'[v] = user[v]
         /\ t.type = s.type /\ t.id = r.id /\ t.kind = s.kind /\ t.fd = Nil
         /\ t.high = s.high /\ t.low = s.low
         /\ \A m \in Table : m # n => slot'[m] = slot[m]
         /\ opened \subseteq opened' /\ (r.op \in {"L", "U", "B"} => r.id \in opened')
         /\ UNCHANGED <<ctrl, known, used, epoll, checkctrl, ev, pollPc, msg, failed>>
  <1> DEFINE c == user[u]
             r == c.req
             n == HASH_ID(r.id)
             s == slot[n]
             x == [s EXCEPT !.id = r.id, !.fd = Nil]
             d == [c EXCEPT !.pc = "request"]
  <1>1. /\ user' = [user EXCEPT ![u] = d] /\ slot' = [slot EXCEPT ![n] = x] /\ c.pc = "setid"
        /\ opened' = IF r.op \in {"L", "U", "B"} THEN opened \cup {r.id} ELSE opened
        /\ UNCHANGED <<alloc_id, epoll, ctrl, checkctrl, ev, pollPc, msg, known, used, freed, wire, failed>>
    BY DEF ReserveSetId, pollVars, histVars
  <1>2. c \in CallRec /\ r.id \in Ids
    BY <1>1, CallFields
  <1>3. n \in Table
    BY <1>2, HashType, Bounds DEF Ids
  <1>4. s \in SlotRec /\ Counted(s)
    BY <1>3 DEF TypeInv, SlotType
  <1>5. d \in CallRec /\ d.pc = "request" /\ d.req = r
    BY <1>2 DEF CallRec
  <1> DEFINE id == r.id
  <1>6. /\ x \in SlotRec /\ x.type = s.type /\ x.id = id /\ x.kind = s.kind /\ x.fd = Nil
        /\ x.high = s.high /\ x.low = s.low /\ x.wb_size = s.wb_size
    <2>1. id \in Ids /\ x = [s EXCEPT !.id = id, !.fd = Nil]
      BY <1>2
    <2> HIDE DEF id
    <2> QED BY <1>4, <2>1 DEF SlotRec
  <1> HIDE DEF d, x
  <1>7. Counted(x)
    BY <1>4, <1>6 DEF Counted, Size
  <1>8. SlotType' /\ slot'[n] = x /\ \A m \in Table : m # n => slot'[m] = slot[m]
    BY <1>1, <1>3, <1>6, <1>7, SlotSet DEF TypeInv
  <1>9. CallType' /\ user'[u] = d /\ \A v \in Users : v # u => user'[v] = user[v]
    BY <1>1, <1>2, <1>5, CallKept, CallSet
  <1>10. FdType' /\ opened \subseteq opened' /\ (r.op \in {"L", "U", "B"} => r.id \in opened')
    BY <1>1, <1>2 DEF TypeInv, FdType
  <1>11. TypeInv'
    BY <1>1, <1>8, <1>9, <1>10, Kept DEF TypeInv
  <1> QED BY <1>1, <1>2, <1>3, <1>5, <1>6, <1>8, <1>9, <1>10, <1>11

\* A call that begins with its request: one of a connection that is known.
LEMMA BeginIs ==
  ASSUME TypeInv, NEW u \in Users,
         \/ \E op \in Sends, fits \in BOOLEAN : Send(u, op, fits)
         \/ \E fits \in BOOLEAN : UdpConnect(u, fits)
         \/ Close(u)
  PROVE  /\ TypeInv' /\ user[u].pc = "idle" /\ opens' = opens /\ known # {}
         /\ user'[u].pc = "request" /\ user'[u].req.op \notin Opens
         /\ \A v \in Users : v # u => user'[v] = user[v]
         /\ UNCHANGED <<slot, ctrl, known, opened, epoll, checkctrl, ev, pollPc, msg, failed>>
  <1> DEFINE call(op, id, fits) ==
               [Idle EXCEPT !.pc = "request", !.req = [op |-> op, id |-> id, pkt |-> Nil, fits |-> fits]]
             close(id) == [Idle EXCEPT !.pc = "request", !.req.id = id]
  <1>1. ASSUME NEW op \in Sends \cup {"C"}, NEW id \in Ids, NEW fits \in BOOLEAN
        PROVE  /\ call(op, id, fits) \in CallRec /\ call(op, id, fits).pc = "request"
               /\ call(op, id, fits).req.id = id /\ call(op, id, fits).req.op \notin Opens
    <2> DEFINE q == [op |-> op, id |-> id, pkt |-> Nil, fits |-> fits]
    <2>1. q \in Req /\ q.id = id /\ q.op \notin Opens
      BY DEF Req, Sends, Ops, Opens
    <2> HIDE DEF q
    <2>2. [Idle EXCEPT !.pc = "request", !.req = q] \in CallRec
          /\ [Idle EXCEPT !.pc = "request", !.req = q].pc = "request"
          /\ [Idle EXCEPT !.pc = "request", !.req = q].req = q
      BY <2>1, IdleIs DEF CallRec, Req
    <2> QED BY <2>1, <2>2 DEF q
  <1>2. ASSUME NEW id \in Ids
        PROVE  /\ close(id) \in CallRec /\ close(id).pc = "request"
               /\ close(id).req.id = id /\ close(id).req.op \notin Opens
    <2> DEFINE q == [Idle.req EXCEPT !.id = id]
    <2>1. q \in Req /\ q.id = id /\ q.op = Idle.req.op
      BY IdleIs DEF Req
    <2>2. q.op \notin Opens
      BY <2>1, IdleIs DEF Opens
    <2>3. close(id) = [Idle EXCEPT !.pc = "request", !.req = q]
      OBVIOUS
    <2> HIDE DEF q, close
    <2>4. close(id) \in CallRec /\ close(id).pc = "request" /\ close(id).req = q
      BY <2>1, <2>3, IdleIs DEF CallRec, Req
    <2> QED BY <2>1, <2>2, <2>4
  <1>3. known \subseteq Ids /\ used \in [Used -> Nat] /\ used["D"] <= MaxSends
    BY CallKept
  <1>4. /\ \E id \in known :
             \/ \E op \in Sends \cup {"C"}, fits \in BOOLEAN : user' = [user EXCEPT ![u] = call(op, id, fits)]
             \/ user' = [user EXCEPT ![u] = close(id)]
        /\ used' = used \/ used' = [used EXCEPT !["C"] = @ + 1] \/ used' = [used EXCEPT !["K"] = @ + 1]
        /\ Call(u, "idle") /\ UNCHANGED <<alloc_id, slot, ctrl, known>>
    <2>1. ASSUME NEW op \in Sends, NEW fits \in BOOLEAN, Send(u, op, fits)
          PROVE  /\ \E id \in known : user' = [user EXCEPT ![u] = call(op, id, fits)]
                 /\ used' = used /\ Call(u, "idle") /\ UNCHANGED <<alloc_id, slot, ctrl, known>>
      BY <2>1, Zenon DEF Send
    <2>2. ASSUME NEW fits \in BOOLEAN, UdpConnect(u, fits)
          PROVE  /\ \E id \in known : user' = [user EXCEPT ![u] = call("C", id, fits)]
                 /\ used' = [used EXCEPT !["C"] = @ + 1]
                 /\ Call(u, "idle") /\ UNCHANGED <<alloc_id, slot, ctrl, known>>
      BY <2>2, Zenon DEF UdpConnect
    <2>3. ASSUME Close(u)
          PROVE  /\ \E id \in known : user' = [user EXCEPT ![u] = close(id)]
                 /\ used' = [used EXCEPT !["K"] = @ + 1]
                 /\ Call(u, "idle") /\ UNCHANGED <<alloc_id, slot, ctrl, known>>
      BY <2>3, Zenon DEF Close
    <2> HIDE DEF call, close
    <2>4. CASE \E op \in Sends, fits \in BOOLEAN : Send(u, op, fits)
      BY <2>1, <2>4
    <2>5. CASE \E fits \in BOOLEAN : UdpConnect(u, fits)
      <3>1. PICK fits \in BOOLEAN : UdpConnect(u, fits)
        BY <2>5
      <3>2. PICK id \in known : user' = [user EXCEPT ![u] = call("C", id, fits)]
        BY <2>2, <3>1
      <3>3. "C" \in Sends \cup {"C"}
        OBVIOUS
      <3> QED BY <2>2, <3>1, <3>2, <3>3
    <2>6. CASE Close(u)
      BY <2>3, <2>6
    <2> QED BY <2>4, <2>5, <2>6
  <1> HIDE DEF call, close
  <1>5. /\ used' \in [Used -> Nat] /\ \A k \in {"L", "O", "U", "B", "D"} : used'[k] = used[k]
    BY <1>3, <1>4 DEF Used
  <1>6. opens' = opens /\ used'["D"] <= MaxSends
    BY <1>3, <1>5 DEF opens
  <1>7. PICK id \in known :
             \/ \E op \in Sends \cup {"C"}, fits \in BOOLEAN : user' = [user EXCEPT ![u] = call(op, id, fits)]
             \/ user' = [user EXCEPT ![u] = close(id)]
    BY <1>4
  <1>8. PICK c \in CallRec : /\ c.pc = "request" /\ c.req.id \in Ids /\ c.req.op \notin Opens
                             /\ user' = [user EXCEPT ![u] = c]
    BY <1>1, <1>2, <1>3, <1>7
  <1>9. CallType' /\ user'[u] = c /\ \A v \in Users : v # u => user'[v] = user[v]
    BY <1>3, <1>4, <1>5, <1>6, <1>8, CallKept, CallSet
  <1>10. SlotType' /\ PipeType'
    BY <1>4, Kept
  <1>11. TypeInv' /\ user[u].pc = "idle"
        /\ UNCHANGED <<opened, epoll, checkctrl, ev, pollPc, msg, failed>>
    BY <1>4, <1>9, <1>10, CallDone
  <1> QED BY <1>4, <1>6, <1>7, <1>8, <1>9, <1>11

\* The request of u is in the pipe; after a listen the start follows.
LEMMA SendRequestIs ==
  ASSUME TypeInv, NEW u \in Users, SendRequest(u)
  PROVE  LET r == user[u].req IN
         /\ TypeInv' /\ user[u].pc = "request" /\ opens' = opens
         /\ \E q \in Request : /\ q.op = r.op /\ q.id = r.id /\ ctrl' = Append(ctrl, q)
                               /\ Len(ctrl) < PipeCap /\ (q.op \in Sends => q.pkt # Nil)
         /\ \/ user'[u].pc = "idle"
            \/ r.op = "L" /\ user'[u].pc = "request" /\ user'[u].req.op = "S"
         /\ \A v \in Users : v # u => user'[v] = user[v]
         /\ UNCHANGED <<slot, opened, epoll, checkctrl, ev, pollPc, msg, failed>>
  <1> DEFINE c == user[u]
             r == c.req
             send == r.op \in {"D", "P", "A"}
             p == IF send THEN used["D"] + 1 ELSE Nil
             q == [r EXCEPT !.pkt = p]
             d == [c EXCEPT !.req.op = "S"]
             e == IF r.op = "L" THEN d ELSE Idle
  <1>1. /\ Call(u, "request") /\ Len(ctrl) < PipeCap /\ (send => used["D"] < MaxSends)
        /\ ctrl' = Append(ctrl, q)
        /\ used' = IF send THEN [used EXCEPT !["D"] = @ + 1] ELSE used
        /\ known' = IF r.op \in {"O", "U", "B"} THEN known \cup {r.id} ELSE known
        /\ user' = [user EXCEPT ![u] = e]
        /\ UNCHANGED <<alloc_id, slot>>
    BY Zenon DEF SendRequest
  <1>2. c \in CallRec /\ r \in Req /\ r.id \in Ids /\ c.pc = "request"
    BY <1>1, CallFields DEF Call
  <1>3. used \in [Used -> Nat] /\ used["D"] <= MaxSends /\ known \subseteq Ids /\ alloc_id \in 0 .. MaxId
        /\ used["D"] \in Nat
    BY CallKept DEF Used
  <1>4. p \in 0 .. MaxSends /\ (send => p # Nil)
    <2> DEFINE k == used["D"]
    <2>1. CASE send
      <3>1. k \in Nat /\ k < MaxSends /\ p = k + 1
        BY <1>1, <1>3, <2>1
      <3> HIDE DEF k, p
      <3> QED BY <3>1, Bounds DEF Nil
    <2>2. CASE ~send
      <3>1. p = Nil
        BY <2>2
      <3> HIDE DEF p
      <3> QED BY <2>2, <3>1, Bounds DEF Nil
    <2> QED BY <2>1, <2>2
  <1>5. q \in Request /\ q.op = r.op /\ q.id = r.id /\ q.pkt = p
    <2> HIDE DEF p
    <2> QED BY <1>2, <1>4 DEF Req, Request, Ops
  <1>6. q.op \in Sends => q.pkt # Nil
    BY <1>4, <1>5 DEF Sends
  <1>7. d \in CallRec /\ d.pc = "request" /\ d.req.id = r.id /\ d.req.op = "S"
    <2> DEFINE x == [r EXCEPT !.op = "S"]
    <2>1. x \in Req /\ x.id = r.id /\ x.op = "S"
      BY <1>2 DEF Req, Ops
    <2>2. d = [c EXCEPT !.req = x]
      OBVIOUS
    <2> HIDE DEF x, d
    <2>3. d \in CallRec /\ d.pc = c.pc /\ d.req = x
      BY <1>2, <2>1, <2>2 DEF CallRec, Req
    <2> QED BY <1>2, <2>1, <2>3
  <1> HIDE DEF d, q
  <1>8. /\ e \in CallRec /\ (e.pc \in {"look", "cas", "setid", "request"} => e.req.id \in Ids)
        /\ \/ e.pc = "idle"
           \/ r.op = "L" /\ e.pc = "request" /\ e.req.op = "S"
    BY <1>2, <1>7, IdleIs
  <1> HIDE DEF e
  <1>9. used' \in [Used -> Nat] /\ used'["D"] <= MaxSends /\ \A k \in {"L", "O", "U", "B"} : used'[k] = used[k]
    <2> DEFINE k == used["D"]
    <2>1. CASE send
      <3>1. used' = [used EXCEPT !["D"] = k + 1]
        BY <1>1, <2>1
      <3>2. k \in Nat /\ k < MaxSends
        BY <1>1, <1>3, <2>1
      <3> HIDE DEF k
      <3>3. k + 1 \in Nat /\ k + 1 <= MaxSends
        BY <3>2, Bounds
      <3> QED BY <1>3, <3>1, <3>3 DEF Used
    <2>2. CASE ~send
      BY <1>1, <1>3, <2>2
    <2> QED BY <2>1, <2>2
  <1>10. opens' = opens
    BY <1>9 DEF opens
  <1>11. known' \subseteq Ids
    BY <1>1, <1>2, <1>3
  <1>12. CallType' /\ user'[u] = e /\ \A v \in Users : v # u => user'[v] = user[v]
    BY <1>1, <1>3, <1>8, <1>9, <1>11, CallSet
  <1>13. PipeType' /\ SlotType'
    BY <1>1, <1>5, <1>6, PipeSet, Kept DEF TypeInv
  <1>14. TypeInv' /\ UNCHANGED <<opened, epoll, checkctrl, ev, pollPc, msg, failed>>
    BY <1>1, <1>12, <1>13, CallDone
  <1> QED BY <1>1, <1>2, <1>5, <1>6, <1>8, <1>10, <1>12, <1>14

\* Every step of a caller keeps the types.
LEMMA CallerType ==
  ASSUME TypeInv, NEW u \in Users, Caller(u)
  PROVE  TypeInv'
  <1>1. ASSUME NEW op \in Opens, Open(u, op)
        PROVE  TypeInv'
    BY <1>1, OpenIs
  <1>2. CASE Listen(u) \/ Connect(u) \/ Udp(u) \/ Bind(u)
    BY <1>1, <1>2 DEF Listen, Connect, Udp, Bind, Opens
  <1>3. CASE \/ ReserveFetch(u) \/ ReserveLook(u) \/ ReserveCas(u) \/ ReserveSetId(u) \/ SendRequest(u)
    BY <1>3, ReserveFetchIs, ReserveLookIs, ReserveCasIs, ReserveSetIdIs, SendRequestIs
  <1>4. CASE \/ Send(u, "D", TRUE) \/ Send(u, "P", TRUE) \/ Close(u)
             \/ \E fits \in BOOLEAN : Send(u, "A", fits) \/ UdpConnect(u, fits)
    BY <1>4, BeginIs DEF Sends
  <1> QED BY <1>2, <1>3, <1>4 DEF Caller

\* The initial state has the strengthened types.
LEMMA InitType == Init => TypeInv
  <1> SUFFICES ASSUME Init PROVE TypeInv
    OBVIOUS
  <1> DEFINE s == [type |-> "INVALID", id |-> Nil, fd |-> Nil, high |-> <<>>, low |-> <<>>,
                   wb_size |-> 0, kind |-> "tcp", peer |-> FALSE]
  <1>1. s \in SlotRec /\ Counted(s)
    <2>1. s \in SlotRec /\ s.high = <<>> /\ s.low = <<>> /\ s.wb_size = 0
      BY DEF SlotRec, Types, Kinds
    <2> HIDE DEF s
    <2>2. Size(s) = 0
      BY <2>1, QueuedType DEF send_buffer_empty
    <2> QED BY <2>1, <2>2 DEF Counted
  <1>2. slot = [m \in Table |-> s]
    BY DEF Init
  <1> HIDE DEF s
  <1>3. SlotType
    BY <1>1, <1>2 DEF SlotType
  <1>4. FdType /\ EventType /\ HistType
    BY DEF Init, FdType, EventType, HistType
  <1>5. PipeType
    BY Bounds DEF Init, PipeType
  <1>6. MsgType
    BY DEF Init, MsgType, NoMsg, MsgTypes
  <1>7. CallType
    <2>1. alloc_id \in 0 .. MaxId /\ known \subseteq Ids /\ used \in [Used -> Nat] /\ used["D"] <= MaxSends
      BY Bounds DEF Init, Used
    <2>2. user = [u \in Users |-> Idle]
      BY DEF Init
    <2> QED BY <2>1, <2>2, IdleIs DEF CallType
  <1> QED BY <1>3, <1>4, <1>5, <1>6, <1>7 DEF TypeInv

\* The strengthened types are inductive.
LEMMA NextType == TypeInv /\ [Next]_vars => TypeInv'
  <1>1. TypeInv /\ UNCHANGED vars => TypeInv'
    BY Kept DEF TypeInv, vars, fdVars, pollVars, callVars, histVars
  <1> QED BY <1>1, PollType, CallerType DEF Next

\* Whatever the callers do, slots, descriptors, requests and events keep the
\* values of TypeOK: wb_size counts at least what is queued and so never goes
\* below zero, and the pipe never holds more than it can.
THEOREM TypeCorrect == Spec => []TypeOK
  <1>1. Spec => []TypeInv
    BY InitType, NextType, PTL DEF Spec
  <1> QED BY <1>1, TypeInvIs, PTL

-----------------------------------------------------------------------------
(* Slots, descriptors, epoll and events: steps of the poll thread after    *)
(* the callers' socket was made                                            *)

\* The batch loses d events at its head; what is left is about the same
\* sockets.
Shift(d) ==
  /\ DOMAIN ev' = 1 .. (Len(ev) - d)
  /\ \A i \in DOMAIN ev' : ev'[i].s = ev[i + d].s /\ ev'[i].fd = ev[i + d].fd

\* Only slot n and descriptors that it may have change, and its events are
\* still about it, will be cleared, or there are none left.
Effect(n, d) ==
  /\ \A m \in Table : m # n => slot'[m] = slot[m]
  /\ \A i \in Ids : HASH_ID(i) # n => epoll'[i] = epoll[i] /\ (i \in opened => i \in opened')
  /\ SlotOK(n)' /\ slot'[n].type # "RESERVE"
  /\ \/ InUse(slot[n]) =>
          /\ slot'[n].id = slot[n].id
          /\ InUse(slot'[n]) \/ (slot'[n].type = "INVALID" /\ pollPc' = "clear" /\ msg'.id = slot[n].id)
     \/ d = 1 /\ ev[1].s = n

SlotsOK == \A n \in Table : SlotOK(n)
Unreserved == \A n \in Table : slot[n].type # "RESERVE"

\* Slots stay in order if the step keeps slot n in order and leaves other slots and their descriptors alone.
LEMMA SlotsKept ==
  ASSUME SlotsOK, NEW n \in Table,
         \A m \in Table : m # n => slot'[m] = slot[m],
         \A i \in Ids : HASH_ID(i) # n => epoll'[i] = epoll[i] /\ (i \in opened => i \in opened'),
         SlotOK(n)'
  PROVE  SlotsOK'
  <1> SUFFICES ASSUME NEW m \in Table, m # n PROVE SlotOK(m)'
    BY DEF SlotsOK
  <1> DEFINE s == slot[m]
  <1>1. SlotOK(m) /\ slot'[m] = s
    BY DEF SlotsOK
  <1>2. InUse(s) => s.id \in Ids /\ HASH_ID(s.id) = m /\ s.fd = s.id /\ s.fd \in opened
    BY <1>1 DEF SlotOK
  <1>3. InUse(s) => epoll'[s.fd] = epoll[s.fd] /\ s.fd \in opened'
    BY <1>2
  <1>4. ~send_buffer_empty(s) => InUse(s)
    BY <1>1 DEF SlotOK, InUse
  <1>5. s.type = "CONNECTING" => InUse(s)
    BY DEF InUse
  <1>6. \A i \in Ids : HASH_ID(i) = m => epoll'[i] = epoll[i]
    OBVIOUS
  <1> HIDE DEF s
  <1> DEFINE ok(x, o, p) ==
               /\ InUse(x) => /\ x.id \in Ids /\ HASH_ID(x.id) = m /\ x.fd = x.id /\ x.fd \in o
                              /\ (p[x.fd] = "NONE") <=> (x.type \in {"PLISTEN", "PACCEPT"})
               /\ ~send_buffer_empty(x) =>
                    /\ x.type \in {"CONNECTING", "CONNECTED", "HALFCLOSE", "BIND"}
                    /\ x.type # "BIND" /\ x.kind # "bound" => p[x.fd] = "INOUT"
               /\ x.type = "CONNECTING" => p[x.fd] = "INOUT"
               /\ x.type = "BIND" => x.kind = "bound"
               /\ \A i \in Ids : HASH_ID(i) = m /\ p[i] # "NONE" => InUse(x) /\ x.fd = i
  <1>7. ok(s, opened, epoll)
    BY <1>1 DEF SlotOK, s
  <1>8. ok(s, opened', epoll')
    BY <1>2, <1>3, <1>4, <1>5, <1>6, <1>7
  <1>9. SlotOK(m)' <=> ok(slot'[m], opened', epoll')
    BY DEF SlotOK, InUse, send_buffer_empty
  <1> QED BY <1>1, <1>8, <1>9

\* What an event of the batch says while no closed socket is being cleared.
LEMMA EventFacts ==
  ASSUME EventInv, pollPc # "clear", NEW i \in DOMAIN ev, ev[i].s # NoSlot
  PROVE  slot[ev[i].s].id = ev[i].fd /\ InUse(slot[ev[i].s])
  BY DEF EventInv, EventOK

\* A shift keeps different positions of the batch different.
LEMMA AddDistinct == \A a, b \in Int : \A k \in {0, 1} : a # b => a + k # b + k
  OBVIOUS

\* A step with an effect on slot n alone keeps all slots and the rest of the batch in order.
LEMMA EffectDone ==
  ASSUME TypeInv, SlotsOK, EventInv, pollPc # "clear", NEW n \in Table, NEW d \in {0, 1},
         Shift(d), Effect(n, d)
  PROVE  SlotsOK' /\ EventInv' /\ (Unreserved => Unreserved')
  <1>1. SlotsOK'
    BY SlotsKept DEF Effect
  <1>2. Unreserved => Unreserved'
    BY DEF Effect, Unreserved
  <1>3. ev \in Seq(EventRec) /\ DOMAIN ev = 1 .. Len(ev) /\ Len(ev) \in Nat
        /\ \A i \in DOMAIN ev : ev[i].s \in Table \cup {NoSlot}
    <2>1. ev \in Seq(EventRec)
      BY DEF TypeInv, EventType
    <2>2. \A i \in DOMAIN ev : ev[i] \in EventRec
      BY <2>1
    <2> QED BY <2>1, <2>2 DEF EventRec
  <1>4. ASSUME NEW i \in DOMAIN ev'
        PROVE  i + d \in DOMAIN ev /\ (d = 1 => i + d # 1) /\ ev'[i].s = ev[i + d].s /\ ev'[i].fd = ev[i + d].fd
    BY <1>3 DEF Shift
  <1>5. ASSUME NEW i \in DOMAIN ev', ev'[i].s # NoSlot
        PROVE  EventOK(ev[i])'
    <2> DEFINE e == ev'[i]
               j == i + d
    <2>1. /\ j \in DOMAIN ev /\ (d = 1 => j # 1) /\ e.s = ev[j].s /\ e.fd = ev[j].fd
          /\ ev[j].s # NoSlot /\ ev[j].s \in Table
      BY <1>3, <1>4, <1>5
    <2>2. slot[e.s].id = e.fd /\ InUse(slot[e.s])
      BY <2>1, EventFacts
    <2>3. CASE e.s # n
      <3>1. slot'[e.s] = slot[e.s]
        BY <2>1, <2>3 DEF Effect
      <3> QED BY <2>2, <3>1 DEF EventOK, InUse
    <2>4. CASE e.s = n
      <3>1. ~(d = 1 /\ ev[1].s = n)
        <4> SUFFICES ASSUME d = 1, ev[1].s = n PROVE FALSE
          OBVIOUS
        <4>1. 1 \in DOMAIN ev /\ j # 1 /\ ev[j].s = ev[1].s
          BY <1>3, <2>1, <2>4
        <4> QED BY <2>1, <4>1 DEF EventInv
      <3>2. /\ slot'[n].id = slot[n].id
            /\ InUse(slot'[n]) \/ (slot'[n].type = "INVALID" /\ pollPc' = "clear" /\ msg'.id = slot[n].id)
        BY <2>2, <2>4, <3>1 DEF Effect
      <3> QED BY <2>2, <2>4, <3>2 DEF EventOK, InUse
    <2> QED BY <2>3, <2>4
  <1>6. \A i \in DOMAIN ev' : EventOK(ev[i])'
    <2>1. \A i \in DOMAIN ev' : ev'[i].s = NoSlot => EventOK(ev[i])'
      BY DEF EventOK
    <2> QED BY <1>5, <2>1
  <1>7. ASSUME NEW i \in DOMAIN ev', NEW j \in DOMAIN ev', i # j, ev'[i].s # NoSlot
        PROVE  ev'[i].s # ev'[j].s
    <2>1. i + d # j + d /\ i + d \in DOMAIN ev /\ j + d \in DOMAIN ev
          /\ ev'[i].s = ev[i + d].s /\ ev'[j].s = ev[j + d].s
      <3>1. i \in Int /\ j \in Int
        BY <1>3 DEF Shift
      <3>2. i + d # j + d
        BY <1>7, <3>1, AddDistinct
      <3> QED BY <1>4, <3>2
    <2> QED BY <1>7, <2>1 DEF EventInv
  <1>8. EventInv'
    BY <1>6, <1>7 DEF EventInv
  <1> QED BY <1>1, <1>2, <1>8

\* The three ways in which a step moves on in the batch.
LEMMA ShiftIs ==
  ASSUME TypeInv
  PROVE  /\ UNCHANGED ev => Shift(0)
         /\ ev # <<>> /\ ev' = Tail(ev) => Shift(1)
         /\ ev # <<>> /\ ev' = [ev EXCEPT ![1].read = FALSE] => Shift(0)
  <1>1. ev \in Seq(EventRec) /\ Len(ev) \in Nat /\ DOMAIN ev = 1 .. Len(ev)
    BY DEF TypeInv, EventType
  <1>2. \A i \in DOMAIN ev : i + 0 = i
    BY <1>1
  <1>3. UNCHANGED ev => Shift(0)
    BY <1>1, <1>2 DEF Shift
  <1>4. ev # <<>> /\ ev' = Tail(ev) => Shift(1)
    BY <1>1 DEF Shift
  <1>5. ASSUME ev # <<>>, ev' = [ev EXCEPT ![1].read = FALSE]
        PROVE  Shift(0)
    <2> DEFINE e == [ev[1] EXCEPT !.read = FALSE]
    <2>1. ev' = [ev EXCEPT ![1] = e]
      BY <1>5
    <2>2. ev[1] \in EventRec
      BY <1>1, <1>5
    <2>3. e.s = ev[1].s /\ e.fd = ev[1].fd
      BY <2>2 DEF EventRec
    <2> HIDE DEF e
    <2>4. DOMAIN ev' = DOMAIN ev /\ \A i \in DOMAIN ev : ev'[i] = IF i = 1 THEN e ELSE ev[i]
      BY <1>1, <2>1
    <2> QED BY <1>1, <1>2, <2>3, <2>4 DEF Shift
  <1> QED BY <1>3, <1>4, <1>5

\* Nothing changes, or nothing that matters.
LEMMA QuietEffect ==
  ASSUME TypeInv, SlotsOK, Unreserved, NEW n \in Table, NEW d, UNCHANGED <<opened, epoll>>,
         \A m \in Table : Alike(slot'[m], slot[m]), \A m \in Table : m # n => slot'[m] = slot[m]
  PROVE  Effect(n, d)
  <1>1. SlotOK(n) /\ slot[n].type # "RESERVE" /\ Alike(slot'[n], slot[n])
    BY DEF SlotsOK, Unreserved
  <1>2. SlotOK(n)' /\ slot'[n].type # "RESERVE"
    BY <1>1 DEF SlotOK, Alike, InUse, send_buffer_empty
  <1>3. InUse(slot[n]) => slot'[n].id = slot[n].id /\ InUse(slot'[n])
    BY <1>1 DEF Alike, InUse
  <1> QED BY <1>2, <1>3 DEF Effect

\* force_close, called by any handler.
LEMMA CloseEffect ==
  ASSUME TypeInv, SlotsOK, Unreserved, NEW n \in Table, NEW d, NEW out \in Seq(Chunk),
         NEW t \in MsgTypes, NEW pc \in {"loop", "clear"}, CloseSlot(n, out, t, slot[n].id, pc),
         pc = "clear" \/ (d = 1 /\ ev[1].s = n)
  PROVE  Effect(n, d)
  <1> DEFINE s == slot[n]
  <1>1. s \in SlotRec /\ SlotOK(n) /\ s.type # "RESERVE"
    BY DEF TypeInv, SlotType, SlotsOK, Unreserved
  <1>2. s.id \in Ids \cup {Nil}
    BY <1>1, SlotFields
  <1>3. \/ s.type = "INVALID" /\ UNCHANGED <<slot, opened, epoll>>
        \/ InUse(s) /\ force_close(n, s, out) /\ Return(t, s.id, pc)
    BY <1>1, <1>2, CloseSlotIs
  <1>4. CASE s.type = "INVALID" /\ UNCHANGED <<slot, opened, epoll>>
    BY <1>4, QuietEffect DEF Alike
  <1>5. CASE InUse(s) /\ force_close(n, s, out) /\ Return(t, s.id, pc)
    <2>1. /\ \A m \in Table : m # n => slot'[m] = slot[m]
          /\ slot'[n].type = "INVALID" /\ slot'[n].id = s.id /\ send_buffer_empty(slot'[n])
          /\ opened' = IF s.type = "BIND" THEN opened ELSE opened \ {s.fd}
          /\ \A i \in Ids : epoll'[i] = IF i = s.fd THEN "NONE" ELSE epoll[i]
      BY <1>5, ForceCloseIs
    <2>2. /\ HASH_ID(s.fd) = n
          /\ \A i \in Ids : HASH_ID(i) = n /\ epoll[i] # "NONE" => s.fd = i
      BY <1>1, <1>5 DEF SlotOK
    <2>3. \A i \in Ids : HASH_ID(i) # n => epoll'[i] = epoll[i] /\ (i \in opened => i \in opened')
      BY <2>1, <2>2
    <2>4. \A i \in Ids : HASH_ID(i) = n => epoll'[i] = "NONE"
      BY <2>1, <2>2
    <2>5. SlotOK(n)'
      <3>1. ~InUse(slot'[n]) /\ slot'[n].type \notin {"CONNECTING", "BIND"}
        BY <2>1 DEF InUse
      <3> QED BY <2>1, <2>4, <3>1 DEF SlotOK, InUse, send_buffer_empty
    <2>6. pollPc' = pc /\ msg'.id = s.id
      BY <1>5 DEF Return
    <2> QED BY <2>1, <2>3, <2>5, <2>6 DEF Effect
  <1> QED BY <1>3, <1>4, <1>5

\* A new socket in a slot that has none.
LEMMA NewEffect ==
  ASSUME TypeInv, SlotsOK, NEW id \in Ids, NEW t \in Types, NEW w \in {"NONE", "IN", "INOUT"},
         NEW k \in Kinds, NEW d, ~InUse(slot[HASH_ID(id)]), send_buffer_empty(slot[HASH_ID(id)]),
         new_fd(id, t, w, k), id \in opened', opened \subseteq opened',
         t \notin {"INVALID", "RESERVE"}, w = "NONE" <=> t \in {"PLISTEN", "PACCEPT"},
         t = "CONNECTING" => w = "INOUT", t = "BIND" => k = "bound"
  PROVE  HASH_ID(id) \in Table /\ Effect(HASH_ID(id), d)
  <1> DEFINE n == HASH_ID(id)
  <1>1. /\ n \in Table /\ epoll' \in [Ids -> {"NONE", "IN", "INOUT"}]
        /\ \A m \in Table : m # n => slot'[m] = slot[m]
        /\ slot'[n].type = t /\ slot'[n].id = id /\ slot'[n].fd = id /\ slot'[n].kind = k
        /\ send_buffer_empty(slot'[n])
        /\ \A i \in Ids : epoll'[i] = IF i = id THEN w ELSE epoll[i]
    BY NewFdIs
  <1>2. \A i \in Ids : HASH_ID(i) = n => epoll[i] = "NONE"
    BY <1>1 DEF SlotsOK, SlotOK
  <1>3. \A i \in Ids : HASH_ID(i) # n => epoll'[i] = epoll[i]
    BY <1>1
  <1>4. \A i \in Ids : HASH_ID(i) = n /\ epoll'[i] # "NONE" => i = id
    BY <1>1, <1>2
  <1>5. InUse(slot'[n]) /\ epoll'[id] = w
    BY <1>1 DEF InUse
  <1>6. SlotOK(n)'
    BY <1>1, <1>4, <1>5 DEF SlotOK, InUse, send_buffer_empty
  <1> QED BY <1>1, <1>3, <1>5, <1>6 DEF Effect

\* A slot is given up that epoll does not know and that has nothing queued.
LEMMA DropEffect ==
  ASSUME SlotsOK, NEW n \in Table, NEW d, ~InUse(slot[n]) \/ slot[n].type \in {"PLISTEN", "PACCEPT"},
         \A m \in Table : m # n => slot'[m] = slot[m],
         slot'[n].type = "INVALID", slot'[n].id = slot[n].id,
         slot'[n].high = slot[n].high, slot'[n].low = slot[n].low,
         UNCHANGED epoll, \A i \in Ids : HASH_ID(i) # n /\ i \in opened => i \in opened',
         InUse(slot[n]) => pollPc' = "clear" /\ msg'.id = slot[n].id
  PROVE  Effect(n, d)
  <1>1. SlotOK(n)
    BY DEF SlotsOK
  <1>2. \A i \in Ids : HASH_ID(i) = n => epoll[i] = "NONE"
    BY <1>1 DEF SlotOK
  <1>3. send_buffer_empty(slot[n])
    BY <1>1 DEF SlotOK, InUse
  <1>4. SlotOK(n)'
    BY <1>2, <1>3 DEF SlotOK, InUse, send_buffer_empty
  <1> QED BY <1>4 DEF Effect

\* start_socket
LEMMA StartSocketEffect ==
  ASSUME TypeInv, SlotsOK, Unreserved, StartSocket
  PROVE  \E n \in Table : Effect(n, 0)
  <1>1. Cmd({"S"})
    BY DEF StartSocket
  <1>a. PICK id \in Ids : id = Head(ctrl).id
    BY <1>1, CmdIs
  <1> DEFINE n == HASH_ID(id)
             s == slot[n]
  <1>2. id \in Ids /\ n \in Table /\ s \in SlotRec
    BY <1>a, <1>1, CmdIs
  <1>3. SlotOK(n) /\ s.type # "RESERVE"
    BY <1>2 DEF SlotsOK, Unreserved
  <1>4. CASE UNCHANGED <<slot, fdVars>>
    BY <1>2, <1>4, QuietEffect DEF Alike, fdVars
  <1>5. CASE ~Stale(s, id) /\ s.type \in {"PACCEPT", "PLISTEN"} /\ Discard(id, {})
    <2>1. s.id = id
      BY <1>5 DEF Stale
    <2>2. /\ \A m \in Table : m # n => slot'[m] = slot[m]
          /\ slot'[n].type = "INVALID" /\ slot'[n].id = s.id
          /\ slot'[n].high = s.high /\ slot'[n].low = s.low
          /\ UNCHANGED epoll /\ opened' = opened \ {} /\ pollPc' = "clear" /\ msg'.id = id
      BY <1>2, <1>5, DiscardIs
    <2>3. \A i \in opened : i \in opened'
      BY <2>2
    <2>4. Effect(n, 0)
      BY <1>2, <1>5, <2>1, <2>2, <2>3, DropEffect
    <2> QED BY <1>2, <2>4
  <1>6. CASE /\ s.type \in {"PACCEPT", "PLISTEN"}
             /\ slot' = [slot EXCEPT ![n].type = IF @ = "PACCEPT" THEN "CONNECTED" ELSE "LISTEN"]
             /\ epoll' = [epoll EXCEPT ![s.fd] = "IN"]
             /\ UNCHANGED opened
    <2> DEFINE t == IF s.type = "PACCEPT" THEN "CONNECTED" ELSE "LISTEN"
               f == s.fd
    <2>1. slot' = [slot EXCEPT ![n].type = t]
      BY <1>6
    <2>2. t \in Types /\ t \in {"CONNECTED", "LISTEN"}
      BY DEF Types
    <2>3. InUse(s)
      BY <1>6 DEF InUse
    <2>4. /\ s.id \in Ids /\ HASH_ID(f) = n /\ f = s.id /\ f \in opened /\ f \in Ids
          /\ send_buffer_empty(s) /\ \A i \in Ids : HASH_ID(i) = n /\ epoll[i] # "NONE" => f = i
      BY <1>3, <1>6, <2>3 DEF SlotOK
    <2> HIDE DEF t, f
    <2>5. /\ slot'[n].type = t /\ slot'[n].id = s.id /\ slot'[n].fd = f /\ slot'[n].kind = s.kind
          /\ slot'[n].high = s.high /\ slot'[n].low = s.low
          /\ \A m \in Table : m # n => slot'[m] = slot[m]
      BY <1>2, <2>1, <2>2, SetTypeIs DEF TypeInv, f
    <2>6. \A i \in Ids : epoll'[i] = IF i = f THEN "IN" ELSE epoll[i]
      BY <1>6 DEF TypeInv, FdType, f
    <2>7. InUse(slot'[n]) /\ send_buffer_empty(slot'[n])
      BY <2>2, <2>4, <2>5 DEF InUse, send_buffer_empty
    <2>8. epoll'[f] = "IN" /\ \A i \in Ids : HASH_ID(i) = n /\ epoll'[i] # "NONE" => f = i
      BY <2>4, <2>6
    <2>9. SlotOK(n)'
      BY <1>6, <2>2, <2>4, <2>5, <2>7, <2>8 DEF SlotOK, InUse, send_buffer_empty
    <2>10. \A i \in Ids : HASH_ID(i) # n => epoll'[i] = epoll[i]
      BY <2>4, <2>6
    <2>11. Effect(n, 0)
      BY <1>6, <2>2, <2>5, <2>7, <2>9, <2>10 DEF Effect
    <2> QED BY <1>2, <2>11
  <1>7. \/ Stale(s, id) /\ UNCHANGED <<slot, fdVars>>
        \/ /\ ~Stale(s, id) /\ s.type \in {"PACCEPT", "PLISTEN"}
           /\ \/ Discard(id, {})
              \/ /\ slot' = [slot EXCEPT ![n].type = IF @ = "PACCEPT" THEN "CONNECTED" ELSE "LISTEN"]
                 /\ epoll' = [epoll EXCEPT ![s.fd] = "IN"]
                 /\ UNCHANGED opened
        \/ UNCHANGED <<slot, fdVars>>
    BY <1>a, Zenon DEF StartSocket
  <1> QED BY <1>4, <1>5, <1>6, <1>7

\* After a write, slot n has type next and what was not taken of its queue.
LEMMA WriteEffect ==
  ASSUME TypeInv, SlotsOK, NEW n \in Table, NEW d, InUse(slot[n]),
         NEW k \in Takes(slot[n]), NEW next \in Types, WriteOut(n, k, next),
         \/ next = slot[n].type /\ UNCHANGED epoll
         \/ next = "HALFCLOSE" /\ k # Size(slot[n]) /\ UNCHANGED epoll
         \/ next = slot[n].type /\ next # "CONNECTING" /\ k = Size(slot[n]) /\ epoll' = Watch(slot[n].fd, "IN")
  PROVE  Effect(n, d)
  <1> DEFINE s == slot[n]
             t == slot'[n]
             f == s.fd
             size == Size(s)
             rest == Size(t)
  <1>1. s \in SlotRec /\ SlotOK(n)
    BY DEF TypeInv, SlotType, SlotsOK
  <1>2. k \in 0 .. size
    BY <1>1, TakesIs
  <1>3. /\ SlotType' /\ UNCHANGED opened /\ \A m \in Table : m # n => slot'[m] = slot[m]
        /\ t.type = next /\ t.id = s.id /\ t.fd = f /\ t.kind = s.kind /\ rest = size - k
    BY <1>2, WriteOutIs
  <1>4. t \in SlotRec
    BY <1>3 DEF SlotType
  <1>5. /\ size \in Nat /\ rest \in Nat /\ (send_buffer_empty(s) <=> size = 0)
        /\ (send_buffer_empty(t) <=> rest = 0)
    BY <1>1, <1>4, QueuedType
  <1>6. /\ ~send_buffer_empty(t) => ~send_buffer_empty(s)
        /\ k # size => ~send_buffer_empty(s)
        /\ k = size => send_buffer_empty(t)
    <2>1. rest = size - k
      BY <1>3
    <2> HIDE DEF size, rest
    <2> QED BY <1>2, <1>5, <2>1
  <1>7. /\ s.id \in Ids /\ HASH_ID(f) = n /\ f = s.id /\ f \in opened /\ f \in Ids
        /\ (epoll[f] = "NONE" <=> s.type \in {"PLISTEN", "PACCEPT"})
        /\ ~send_buffer_empty(s) => /\ s.type \in {"CONNECTING", "CONNECTED", "HALFCLOSE", "BIND"}
                                    /\ s.type # "BIND" /\ s.kind # "bound" => epoll[f] = "INOUT"
        /\ s.type = "CONNECTING" => epoll[f] = "INOUT"
        /\ s.type = "BIND" => s.kind = "bound"
        /\ \A i \in Ids : HASH_ID(i) = n /\ epoll[i] # "NONE" => f = i
    BY <1>1 DEF SlotOK
  <1> HIDE DEF f
  <1>8. \A i \in Ids : epoll'[i] = IF i = f /\ ~UNCHANGED epoll /\ epoll[f] # "NONE" THEN "IN" ELSE epoll[i]
    BY DEF Watch, TypeInv, FdType, f
  <1>9. /\ \A i \in Ids : HASH_ID(i) # n => epoll'[i] = epoll[i]
        /\ \A i \in Ids : HASH_ID(i) = n /\ epoll'[i] # "NONE" => f = i
        /\ epoll'[f] = "NONE" <=> epoll[f] = "NONE"
    BY <1>7, <1>8
  <1>10. InUse(t)
    BY <1>3 DEF InUse
  <1>11. epoll'[f] = "NONE" <=> t.type \in {"PLISTEN", "PACCEPT"}
    BY <1>3, <1>6, <1>7, <1>9
  <1>12. /\ ~send_buffer_empty(t) => /\ t.type \in {"CONNECTING", "CONNECTED", "HALFCLOSE", "BIND"}
                                     /\ t.type # "BIND" /\ t.kind # "bound" => epoll'[f] = "INOUT"
         /\ t.type = "CONNECTING" => epoll'[f] = "INOUT"
         /\ t.type = "BIND" => t.kind = "bound"
    BY <1>3, <1>6, <1>7
  <1>13. SlotOK(n)'
    BY <1>3, <1>7, <1>9, <1>10, <1>11, <1>12 DEF SlotOK, InUse, send_buffer_empty
  <1> QED BY <1>3, <1>9, <1>10, <1>13 DEF Effect, InUse

\* set_udp_address
LEMMA SetUdpAddressEffect ==
  ASSUME TypeInv, SlotsOK, Unreserved, SetUdpAddress
  PROVE  \E n \in Table : Effect(n, 0)
  <1>1. Cmd({"C"})
    BY DEF SetUdpAddress
  <1>2. PICK n \in Table : n = HASH_ID(Head(ctrl).id)
    BY <1>1, CmdIs
  <1>3. /\ UNCHANGED <<opened, epoll>> /\ \A m \in Table : Alike(slot'[m], slot[m])
        /\ \A m \in Table : m # n => slot'[m] = slot[m]
    BY <1>2, SetUdpAddressIs
  <1>4. Effect(n, 0)
    BY <1>3, QuietEffect
  <1> QED BY <1>4

\* Nothing changes in the table.
LEMMA NoEffect ==
  ASSUME TypeInv, SlotsOK, Unreserved, UNCHANGED <<slot, opened, epoll>>
  PROVE  \A n \in Table : \A d \in {0, 1} : Effect(n, d)
  <1>1. \A m \in Table : Alike(slot'[m], slot[m])
    BY DEF Alike
  <1> QED BY <1>1, QuietEffect

\* close_socket
LEMMA CloseSocketEffect ==
  ASSUME TypeInv, SlotsOK, Unreserved, CloseSocket
  PROVE  \E n \in Table : Effect(n, 0)
  <1>1. Cmd({"K"})
    BY DEF CloseSocket
  <1>2. PICK id \in Ids : id = Head(ctrl).id
    BY <1>1, CmdIs
  <1> DEFINE n == HASH_ID(id)
             s == slot[n]
  <1>3. n \in Table /\ s \in SlotRec
    BY <1>1, <1>2, CmdIs
  <1>4. "CLOSE" \in MsgTypes /\ "HALFCLOSE" \in Types
    BY DEF MsgTypes, Types
  <1>5. \/ UNCHANGED <<slot, fdVars>>
        \/ /\ ~Stale(s, id)
           /\ \/ WriteFails(n)
              \/ \E k \in Takes(s) :
                   \/ CloseSlot(n, Queued(s), "CLOSE", id, "clear")
                   \/ k # Len(Queued(s)) /\ WriteOut(n, k, "HALFCLOSE") /\ UNCHANGED epoll
    BY <1>2, Zenon DEF CloseSocket, Abort
  <1>6. CASE UNCHANGED <<slot, fdVars>>
    BY <1>3, <1>6, NoEffect DEF fdVars
  <1>7. ~Stale(s, id) => s.id = id /\ InUse(s)
    BY <1>3 DEF Stale, InUse, Unreserved
  <1>8. CASE ~Stale(s, id) /\ WriteFails(n)
    <2>1. PICK out \in Seq(Chunk) : CloseSlot(n, out, "CLOSE", s.id, "clear")
      BY <1>3, <1>8, WriteFailsIs
    <2> HIDE DEF n
    <2>2. Effect(n, 0)
      BY <1>3, <1>4, <2>1, CloseEffect
    <2> QED BY <1>3, <2>2
  <1>9. CASE ~Stale(s, id) /\ CloseSlot(n, Queued(s), "CLOSE", id, "clear")
    <2>1. Queued(s) \in Seq(Chunk) /\ CloseSlot(n, Queued(s), "CLOSE", s.id, "clear")
      BY <1>3, <1>7, <1>9, QueuedType
    <2> HIDE DEF n
    <2>2. Effect(n, 0)
      BY <1>3, <1>4, <2>1, CloseEffect
    <2> QED BY <1>3, <2>2
  <1>10. ASSUME ~Stale(s, id), NEW k \in Takes(s), k # Len(Queued(s)), WriteOut(n, k, "HALFCLOSE"),
                UNCHANGED epoll
         PROVE  \E m \in Table : Effect(m, 0)
    <2>1. k # Size(s)
      BY <1>3, <1>10, QueuedType
    <2> HIDE DEF n
    <2>2. Effect(n, 0)
      BY <1>3, <1>4, <1>7, <1>10, <2>1, WriteEffect
    <2> QED BY <1>3, <2>2
  <1> QED BY <1>5, <1>6, <1>8, <1>9, <1>10

\* A packet is queued on slot n, with epoll told of an idle connection.
LEMMA QueueEffect ==
  ASSUME TypeInv, SlotsOK, NEW n \in Table, NEW d, NEW t, Queues(n, t), UNCHANGED opened,
         \/ slot[n].type = "CONNECTED" /\ epoll' = Watch(slot[n].fd, "INOUT")
         \/ /\ slot[n].type \in {"CONNECTED", "CONNECTING", "BIND"}
            /\ slot[n].type = "CONNECTED" => ~send_buffer_empty(slot[n])
            /\ UNCHANGED epoll
  PROVE  Effect(n, d)
  <1> DEFINE s == slot[n]
             f == s.fd
  <1>1. /\ slot'[n] = t /\ \A m \in Table : m # n => slot'[m] = slot[m]
        /\ t.type = s.type /\ t.id = s.id /\ t.fd = f /\ t.kind = s.kind
    BY DEF Queues, SameSlot, TypeInv, SlotType
  <1>2. SlotOK(n) /\ InUse(s)
    BY DEF SlotsOK, InUse
  <1>3. /\ s.id \in Ids /\ HASH_ID(f) = n /\ f = s.id /\ f \in opened /\ f \in Ids /\ f # Nil
        /\ epoll[f] # "NONE" /\ s.type \notin {"PLISTEN", "PACCEPT"}
        /\ ~send_buffer_empty(s) => (s.type # "BIND" /\ s.kind # "bound" => epoll[f] = "INOUT")
        /\ s.type = "CONNECTING" => epoll[f] = "INOUT"
        /\ s.type = "BIND" => s.kind = "bound"
        /\ \A i \in Ids : HASH_ID(i) = n /\ epoll[i] # "NONE" => f = i
    <2>1. Nil \notin Ids
      BY DEF Nil, Ids
    <2> QED BY <1>2, <2>1 DEF SlotOK
  <1> HIDE DEF f
  <1>4. \A i \in Ids : epoll'[i] = IF i = f /\ ~UNCHANGED epoll THEN "INOUT" ELSE epoll[i]
    BY <1>3 DEF Watch, TypeInv, FdType, f
  <1>5. /\ \A i \in Ids : HASH_ID(i) # n => epoll'[i] = epoll[i]
        /\ \A i \in Ids : HASH_ID(i) = n /\ epoll'[i] # "NONE" => f = i
        /\ epoll'[f] # "NONE"
    BY <1>3, <1>4
  <1>6. s.type # "BIND" /\ s.kind # "bound" => epoll'[f] = "INOUT"
    <2>1. CASE s.type = "CONNECTED" /\ epoll' = Watch(s.fd, "INOUT")
      <3>1. epoll' = [epoll EXCEPT ![f] = "INOUT"]
        BY <1>3, <2>1 DEF Watch, f
      <3> QED BY <1>3, <3>1 DEF TypeInv, FdType
    <2>2. CASE /\ s.type \in {"CONNECTED", "CONNECTING", "BIND"}
               /\ s.type = "CONNECTED" => ~send_buffer_empty(s)
               /\ UNCHANGED epoll
      BY <1>3, <2>2
    <2> QED BY <2>1, <2>2
  <1>7. s.type = "CONNECTING" => epoll'[f] = "INOUT"
    BY <1>3, <1>4
  <1>8. InUse(t) /\ t.type \in {"CONNECTED", "CONNECTING", "BIND"}
    BY <1>1, <1>2 DEF InUse
  <1>9. SlotOK(n)'
    BY <1>1, <1>3, <1>5, <1>6, <1>7, <1>8 DEF SlotOK, InUse, send_buffer_empty
  <1> QED BY <1>1, <1>5, <1>8, <1>9 DEF Effect

\* send_socket
LEMMA SendSocketEffect ==
  ASSUME TypeInv, SlotsOK, Unreserved, SendSocket
  PROVE  \E n \in Table : Effect(n, 0)
  <1>1. Cmd({"D", "P", "A"})
    BY DEF SendSocket
  <1>2. PICK n \in Table : n = HASH_ID(Head(ctrl).id)
    BY <1>1, CmdIs
  <1> DEFINE s == slot[n]
             id == Head(ctrl).id
  <1>3. s \in SlotRec /\ s.type # "RESERVE" /\ s.type \in Types
    BY SlotFields DEF TypeInv, SlotType, Unreserved
  <1>4. \/ Continue /\ UNCHANGED <<slot, opened, epoll>>
        \/ Abort("listen")
        \/ CloseSlot(n, <<>>, "CLOSE", s.id, "clear")
        \/ /\ s.type = "CONNECTED" /\ \E t : Queues(n, t)
           /\ Continue /\ UNCHANGED opened /\ epoll' = Watch(s.fd, "INOUT")
        \/ /\ s.type \notin {"INVALID", "PACCEPT", "PLISTEN", "LISTEN", "HALFCLOSE"}
           /\ s.id = id
           /\ s.type = "CONNECTED" => ~send_buffer_empty(s)
           /\ \E t : Queues(n, t)
           /\ Continue /\ UNCHANGED <<opened, epoll>>
    BY <1>2, SendSocketIs
  <1>5. CASE UNCHANGED <<slot, opened, epoll>>
    BY <1>5, NoEffect
  <1>6. CASE Abort("listen")
    BY <1>5, <1>6 DEF Abort, fdVars
  <1>7. CASE CloseSlot(n, <<>>, "CLOSE", s.id, "clear")
    <2>1. <<>> \in Seq(Chunk) /\ "CLOSE" \in MsgTypes
      BY DEF MsgTypes
    <2>2. Effect(n, 0)
      BY <1>7, <2>1, CloseEffect
    <2> QED BY <2>2
  <1>8. CASE /\ s.type = "CONNECTED" /\ \E t : Queues(n, t)
             /\ UNCHANGED opened /\ epoll' = Watch(s.fd, "INOUT")
    <2>1. Effect(n, 0)
      BY <1>8, QueueEffect
    <2> QED BY <2>1
  <1>9. CASE /\ s.type \notin {"INVALID", "PACCEPT", "PLISTEN", "LISTEN", "HALFCLOSE"}
             /\ s.type = "CONNECTED" => ~send_buffer_empty(s)
             /\ \E t : Queues(n, t)
             /\ UNCHANGED <<opened, epoll>>
    <2>1. s.type \in {"CONNECTED", "CONNECTING", "BIND"}
      BY <1>3, <1>9 DEF Types
    <2>2. Effect(n, 0)
      BY <1>9, <2>1, QueueEffect
    <2> QED BY <2>2
  <1> QED BY <1>4, <1>5, <1>6, <1>7, <1>8, <1>9

\* report_connect
LEMMA ReportConnectEffect ==
  ASSUME TypeInv, SlotsOK, Unreserved, ReportConnect
  PROVE  \E n \in Table : Effect(n, 1)
  <1>1. Event({"CONNECTING"})
    BY DEF ReportConnect
  <1>2. PICK n \in Table : n = Head(ev).s
    BY <1>1, EventIs
  <1> DEFINE s == slot[n]
             f == s.fd
  <1>3. s \in SlotRec /\ s.type = "CONNECTING" /\ ev[1].s = n /\ SlotOK(n) /\ InUse(s)
    BY <1>1, <1>2, EventIs DEF SlotsOK, InUse
  <1>4. \/ CloseSlot(n, <<>>, "ERROR", s.id, "loop")
        \/ /\ slot' = [slot EXCEPT ![n].type = "CONNECTED"]
           /\ epoll' = IF send_buffer_empty(s) THEN Watch(s.fd, "IN") ELSE epoll
           /\ UNCHANGED opened
    BY <1>2, Zenon DEF ReportConnect
  <1>5. CASE CloseSlot(n, <<>>, "ERROR", s.id, "loop")
    <2>1. <<>> \in Seq(Chunk) /\ "ERROR" \in MsgTypes
      BY DEF MsgTypes
    <2>2. Effect(n, 1)
      BY <1>3, <1>5, <2>1, CloseEffect
    <2> QED BY <2>2
  <1>6. CASE /\ slot' = [slot EXCEPT ![n].type = "CONNECTED"]
             /\ epoll' = IF send_buffer_empty(s) THEN Watch(s.fd, "IN") ELSE epoll
             /\ UNCHANGED opened
    <2> DEFINE t == slot'[n]
    <2>1. /\ t.type = "CONNECTED" /\ t.id = s.id /\ t.fd = f /\ t.kind = s.kind
          /\ t.high = s.high /\ t.low = s.low
          /\ \A m \in Table : m # n => slot'[m] = slot[m]
      BY <1>6, SetTypeIs DEF TypeInv, Types
    <2>2. /\ s.id \in Ids /\ HASH_ID(f) = n /\ f = s.id /\ f \in opened /\ f \in Ids /\ f # Nil
          /\ epoll[f] = "INOUT"
          /\ \A i \in Ids : HASH_ID(i) = n /\ epoll[i] # "NONE" => f = i
      <3>1. Nil \notin Ids
        BY DEF Nil, Ids
      <3> QED BY <1>3, <3>1 DEF SlotOK
    <2> HIDE DEF f
    <2>3. \A i \in Ids : epoll'[i] = IF i = f /\ send_buffer_empty(s) THEN "IN" ELSE epoll[i]
      BY <1>6, <2>2 DEF Watch, TypeInv, FdType, f
    <2>4. /\ \A i \in Ids : HASH_ID(i) # n => epoll'[i] = epoll[i]
          /\ \A i \in Ids : HASH_ID(i) = n /\ epoll'[i] # "NONE" => f = i
          /\ epoll'[f] # "NONE" /\ (~send_buffer_empty(s) => epoll'[f] = "INOUT")
      BY <2>2, <2>3
    <2>5. InUse(t) /\ (send_buffer_empty(t) <=> send_buffer_empty(s))
      BY <2>1 DEF InUse, send_buffer_empty
    <2>6. SlotOK(n)'
      BY <1>6, <2>1, <2>2, <2>4, <2>5 DEF SlotOK, InUse, send_buffer_empty
    <2>7. Effect(n, 1)
      BY <1>6, <2>1, <2>4, <2>5, <2>6 DEF Effect
    <2> QED BY <2>7
  <1> QED BY <1>4, <1>5, <1>6

\* report_accept
LEMMA ReportAcceptEffect ==
  ASSUME TypeInv, SlotsOK, Unreserved, ReportAccept
  PROVE  \E n \in Table : Effect(n, 1)
  <1>1. \/ UNCHANGED <<slot, opened, epoll>>
        \/ \E id \in Ids :
             /\ slot[HASH_ID(id)].type = "INVALID" /\ send_buffer_empty(slot[HASH_ID(id)])
             /\ new_fd(id, "PACCEPT", "NONE", "tcp") /\ opened' = opened \cup {id}
    BY ReportAcceptIs
  <1>2. CASE UNCHANGED <<slot, opened, epoll>>
    <2>1. PICK n \in Table : TRUE
      BY HashType
    <2> QED BY <1>2, <2>1, NoEffect
  <1>3. ASSUME NEW id \in Ids, slot[HASH_ID(id)].type = "INVALID",
               send_buffer_empty(slot[HASH_ID(id)]),
               new_fd(id, "PACCEPT", "NONE", "tcp"), opened' = opened \cup {id}
        PROVE  \E n \in Table : Effect(n, 1)
    <2>1. ~InUse(slot[HASH_ID(id)]) /\ "PACCEPT" \in Types /\ "tcp" \in Kinds
      BY <1>3 DEF InUse, Types, Kinds
    <2>2. id \in opened' /\ opened \subseteq opened'
      BY <1>3
    <2>3. HASH_ID(id) \in Table /\ Effect(HASH_ID(id), 1)
      BY <1>3, <2>1, <2>2, NewEffect
    <2> QED BY <2>3
  <1> QED BY <1>1, <1>2, <1>3

\* forward_message_tcp and forward_message_udp
LEMMA ForwardMessageEffect ==
  ASSUME TypeInv, SlotsOK, Unreserved, ForwardMessage \/ ForwardMessageUdp, NEW d \in {0, 1}
  PROVE  \E n \in Table : Effect(n, d)
  <1>1. Event(Streams)
    BY DEF ForwardMessage, ForwardMessageUdp
  <1>2. PICK n \in Table : n = Head(ev).s
    BY <1>1, EventIs
  <1>3. \/ CloseSlot(n, <<>>, "ERROR", slot[n].id, "clear")
        \/ CloseSlot(n, <<>>, "CLOSE", slot[n].id, "clear")
        \/ UNCHANGED <<slot, fdVars>>
    BY <1>2, Zenon DEF ForwardMessage, ForwardMessageUdp
  <1>4. <<>> \in Seq(Chunk) /\ "ERROR" \in MsgTypes /\ "CLOSE" \in MsgTypes
    BY DEF MsgTypes
  <1>5. CASE UNCHANGED <<slot, fdVars>>
    BY <1>5, NoEffect DEF fdVars
  <1>6. CASE \/ CloseSlot(n, <<>>, "ERROR", slot[n].id, "clear")
             \/ CloseSlot(n, <<>>, "CLOSE", slot[n].id, "clear")
    <2>1. Effect(n, d)
      BY <1>4, <1>6, CloseEffect
    <2> QED BY <2>1
  <1> QED BY <1>3, <1>5, <1>6

\* send_buffer
LEMMA SendBufferEffect ==
  ASSUME TypeInv, SlotsOK, Unreserved, SendBuffer
  PROVE  \E n \in Table : Effect(n, 1)
  <1>1. Event(Streams)
    BY DEF SendBuffer
  <1>2. PICK n \in Table : n = Head(ev).s
    BY <1>1, EventIs
  <1> DEFINE s == slot[n]
  <1>3. s \in SlotRec /\ s.type \in Streams /\ s.high \in Seq(Chunk) /\ s.type \in Types
    BY <1>1, <1>2, EventIs, SlotFields
  <1>4. InUse(s) /\ s.type # "CONNECTING"
    BY <1>3 DEF Streams, InUse, Unreserved
  <1>5. \/ Abort("uncomplete") \/ WriteFails(n)
        \/ CloseSlot(n, s.high, "CLOSE", s.id, "clear")
        \/ \E k \in Takes(s) :
             /\ WriteOut(n, k, s.type)
             /\ (s.low = <<>> /\ k = Len(s.high) /\ epoll' = Watch(s.fd, "IN")) \/ UNCHANGED epoll
    BY <1>2, Zenon DEF SendBuffer
  <1>6. "CLOSE" \in MsgTypes
    BY DEF MsgTypes
  <1>7. CASE Abort("uncomplete")
    BY <1>7, NoEffect DEF Abort, fdVars
  <1>8. CASE WriteFails(n)
    <2>1. PICK out \in Seq(Chunk) : CloseSlot(n, out, "CLOSE", s.id, "clear")
      BY <1>8, WriteFailsIs
    <2>2. Effect(n, 1)
      BY <1>6, <2>1, CloseEffect
    <2> QED BY <2>2
  <1>9. CASE CloseSlot(n, s.high, "CLOSE", s.id, "clear")
    <2>1. Effect(n, 1)
      BY <1>3, <1>6, <1>9, CloseEffect
    <2> QED BY <2>1
  <1>10. ASSUME NEW k \in Takes(s), WriteOut(n, k, s.type),
                (s.low = <<>> /\ k = Len(s.high) /\ epoll' = Watch(s.fd, "IN")) \/ UNCHANGED epoll
         PROVE  \E m \in Table : Effect(m, 1)
    <2>1. s.low = <<>> => Size(s) = Len(s.high)
      <3> SUFFICES ASSUME s.low = <<>> PROVE Size(s) = Len(s.high)
        OBVIOUS
      <3>1. Len(s.low) = 0
        OBVIOUS
      <3> DEFINE h == Len(s.high)
      <3>2. h \in Nat /\ Size(s) = h + 0
        BY <1>3, <3>1, QueuedType DEF Size
      <3> HIDE DEF h
      <3>3. Size(s) = h
        BY <3>2
      <3> QED BY <3>3 DEF h
    <2>2. (k = Size(s) /\ epoll' = Watch(s.fd, "IN")) \/ UNCHANGED epoll
      BY <1>10, <2>1
    <2>3. Effect(n, 1)
      BY <1>3, <1>4, <1>10, <2>2, WriteEffect
    <2> QED BY <2>3
  <1> QED BY <1>5, <1>7, <1>8, <1>9, <1>10

\* Poll steps other than clear_closed_event and sp_wait, once the socket that
\* the callers open was made: how the batch and the table change.
LEMMA AfterEffect ==
  ASSUME TypeInv, SlotsOK, EventInv, After, PollThread
  PROVE  \/ pollPc # "clear" /\ \E d \in {0, 1} : Shift(d) /\ \E n \in Table : Effect(n, d)
         \/ Wait \/ ClearClosedEvent
  <1>1. Unreserved
    BY DEF After, Unreserved
  <1>2. ASSUME NEW op, Cmd(op)
        PROVE  pollPc # "clear" /\ Shift(0) /\ \A o \in Opens : o \notin op \/ Head(ctrl).op # o
    <2>1. pollPc = "loop" /\ UNCHANGED ev
      BY <1>2 DEF Cmd
    <2>2. Shift(0)
      BY <2>1, ShiftIs
    <2>3. Head(ctrl).op \notin Opens
      <3>1. ctrl \in Seq(Request) /\ ctrl # <<>>
        BY <1>2 DEF Cmd, TypeInv, PipeType
      <3>2. Head(ctrl) = ctrl[1] /\ 1 \in DOMAIN ctrl
        BY <3>1
      <3> QED BY <3>2 DEF After
    <2> QED BY <2>1, <2>2, <2>3
  <1>3. ASSUME NEW types, Event(types)
        PROVE  pollPc # "clear" /\ ev # <<>>
    BY <1>3 DEF Event
  <1>4. CASE StartSocket
    <2>1. Cmd({"S"})
      BY <1>4 DEF StartSocket
    <2> QED BY <1>1, <1>2, <1>4, <2>1, StartSocketEffect
  <1>5. CASE ListenSocket \/ OpenSocket \/ BindSocket \/ AddUdpSocket
    <2>1. PICK o \in Opens : Cmd({o})
      BY <1>5 DEF ListenSocket, OpenSocket, BindSocket, AddUdpSocket, Opens
    <2>2. Head(ctrl).op = o
      BY <2>1, CmdIs
    <2> QED BY <1>2, <2>1, <2>2
  <1>6. CASE SetUdpAddress
    <2>1. Cmd({"C"})
      BY <1>6 DEF SetUdpAddress
    <2> QED BY <1>1, <1>2, <1>6, <2>1, SetUdpAddressEffect
  <1>7. CASE CloseSocket
    <2>1. Cmd({"K"})
      BY <1>7 DEF CloseSocket
    <2> QED BY <1>1, <1>2, <1>7, <2>1, CloseSocketEffect
  <1>8. CASE SendSocket
    <2>1. Cmd({"D", "P", "A"})
      BY <1>8 DEF SendSocket
    <2> QED BY <1>1, <1>2, <1>8, <2>1, SendSocketEffect
  <1>9. CASE NoCmd \/ StartAccepted
    <2>1. pollPc # "clear" /\ UNCHANGED <<ev, slot, opened, epoll>>
      BY <1>9 DEF NoCmd, StartAccepted, fdVars
    <2>2. PICK n \in Table : TRUE
      BY HashType
    <2> QED BY <1>1, <2>1, <2>2, ShiftIs, NoEffect
  <1>10. CASE SkipEvent
    <2>1. pollPc # "clear" /\ ev # <<>> /\ ev' = Tail(ev) /\ UNCHANGED <<slot, opened, epoll>>
      BY <1>10 DEF SkipEvent, fdVars
    <2>2. PICK n \in Table : TRUE
      BY HashType
    <2> QED BY <1>1, <2>1, <2>2, ShiftIs, NoEffect
  <1>11. CASE ReportConnect
    <2>1. Event({"CONNECTING"}) /\ ev' = Tail(ev)
      BY <1>11 DEF ReportConnect
    <2> QED BY <1>1, <1>3, <1>11, <2>1, ShiftIs, ReportConnectEffect
  <1>12. CASE ReportAccept
    <2>1. Event({"LISTEN"}) /\ ev' = Tail(ev)
      BY <1>12 DEF ReportAccept
    <2> QED BY <1>1, <1>3, <1>12, <2>1, ShiftIs, ReportAcceptEffect
  <1>13. CASE ForwardMessage \/ ForwardMessageUdp
    <2>1. Event(Streams) /\ (ev' = Tail(ev) \/ ev' = [ev EXCEPT ![1].read = FALSE] \/ UNCHANGED ev)
      BY <1>13 DEF ForwardMessage, ForwardMessageUdp
    <2>2. PICK d \in {0, 1} : Shift(d)
      BY <1>3, <2>1, ShiftIs
    <2> QED BY <1>1, <1>3, <1>13, <2>1, <2>2, ForwardMessageEffect
  <1>14. CASE SendBuffer
    <2>1. Event(Streams) /\ ev' = Tail(ev)
      BY <1>14 DEF SendBuffer
    <2> QED BY <1>1, <1>3, <1>14, <2>1, ShiftIs, SendBufferEffect
  <1> QED BY <1>4, <1>5, <1>6, <1>7, <1>8, <1>9, <1>10, <1>11, <1>12, <1>13, <1>14 DEF PollThread

\* sp_wait reports sockets that are in their slots.
LEMMA WaitEvents ==
  ASSUME TypeInv, SlotsOK, Wait
  PROVE  SlotsOK' /\ EventInv'
  <1>1. /\ UNCHANGED <<slot, opened, epoll>>
        /\ \A i \in DOMAIN ev' :
             /\ ev'[i].s # NoSlot => /\ ev'[i].fd \in Ids /\ epoll[ev'[i].fd] # "NONE"
                                     /\ ev'[i].s = HASH_ID(ev'[i].fd)
             /\ ev'[i].s = NoSlot => ev'[i].fd = Nil
        /\ \A i, j \in DOMAIN ev' : ev'[i].fd = ev'[j].fd => i = j
    BY WaitIs
  <1>2. SlotsOK'
    BY <1>1 DEF SlotsOK, SlotOK, InUse, send_buffer_empty
  <1>3. ASSUME NEW i \in DOMAIN ev', ev'[i].s # NoSlot
        PROVE  /\ InUse(slot[ev'[i].s]) /\ slot[ev'[i].s].id = ev'[i].fd
    <2> DEFINE fd == ev'[i].fd
               n == ev'[i].s
    <2>1. fd \in Ids /\ epoll[fd] # "NONE" /\ n = HASH_ID(fd) /\ n \in Table
      BY <1>1, <1>3, HashType, Bounds DEF Ids
    <2>2. SlotOK(n)
      BY <2>1 DEF SlotsOK
    <2>3. InUse(slot[n]) /\ slot[n].fd = fd
      BY <2>1, <2>2 DEF SlotOK
    <2> QED BY <2>2, <2>3 DEF SlotOK
  <1>4. \A i \in DOMAIN ev' : EventOK(ev[i])'
    BY <1>1, <1>3 DEF EventOK, InUse
  <1>5. \A i, j \in DOMAIN ev' : i # j /\ ev'[i].s # NoSlot => ev'[i].s # ev'[j].s
    BY <1>1, <1>3
  <1> QED BY <1>2, <1>4, <1>5 DEF EventInv

\* After clear_closed_event no event is about a closed socket.
LEMMA ClearEvents ==
  ASSUME TypeInv, SlotsOK, EventInv, ClearClosedEvent
  PROVE  SlotsOK' /\ EventInv'
  <1>1. UNCHANGED <<slot, opened, epoll>>
    BY DEF ClearClosedEvent, fdVars
  <1>2. SlotsOK'
    BY <1>1 DEF SlotsOK, SlotOK, InUse, send_buffer_empty
  <1>3. /\ DOMAIN ev' = DOMAIN ev
        /\ \A i \in DOMAIN ev :
              \/ /\ ev[i].s # NoSlot /\ slot[ev[i].s].type = "INVALID" /\ slot[ev[i].s].id = msg.id
                 /\ ev'[i].s = NoSlot
              \/ /\ ~(ev[i].s # NoSlot /\ slot[ev[i].s].type = "INVALID" /\ slot[ev[i].s].id = msg.id)
                 /\ ev'[i] = ev[i]
    BY ClearIs
  <1>4. ASSUME NEW i \in DOMAIN ev', ev'[i].s # NoSlot
        PROVE  ev'[i] = ev[i] /\ InUse(slot[ev'[i].s]) /\ slot[ev'[i].s].id = ev'[i].fd
    <2>1. /\ i \in DOMAIN ev /\ ev'[i] = ev[i] /\ ev[i].s # NoSlot
          /\ ~(slot[ev[i].s].type = "INVALID" /\ slot[ev[i].s].id = msg.id)
      BY <1>3, <1>4
    <2>2. EventOK(ev[i])
      BY <2>1 DEF EventInv
    <2> QED BY <2>1, <2>2 DEF EventOK
  <1>5. \A i \in DOMAIN ev' : EventOK(ev[i])'
    BY <1>1, <1>4 DEF EventOK, InUse
  <1>6. ASSUME NEW i \in DOMAIN ev', NEW j \in DOMAIN ev', i # j, ev'[i].s # NoSlot
        PROVE  ev'[i].s # ev'[j].s
    <2>1. ev'[i].s = ev[i].s /\ ev[i].s # NoSlot /\ i \in DOMAIN ev /\ j \in DOMAIN ev
          /\ (ev'[j].s = NoSlot \/ ev'[j] = ev[j])
      BY <1>3, <1>4, <1>6
    <2> QED BY <1>6, <2>1 DEF EventInv
  <1> QED BY <1>2, <1>5, <1>6 DEF EventInv

\* Poll steps change no call, and put nothing but the start of an accepted
\* socket into the pipe.
LEMMA PollFrame ==
  ASSUME TypeInv, PollThread
  PROVE  /\ UNCHANGED <<user, used>>
         /\ \/ UNCHANGED ctrl
            \/ ctrl # <<>> /\ ctrl' = Tail(ctrl)
            \/ StartAccepted
  BY DEF PollThread, Cmd, Event, callVars, StartSocket, ListenSocket, OpenSocket, BindSocket,
         AddUdpSocket, SetUdpAddress, CloseSocket, SendSocket, NoCmd, Wait, SkipEvent,
         ReportConnect, ReportAccept, ForwardMessage, ForwardMessageUdp, SendBuffer,
         ClearClosedEvent, StartAccepted

\* With the opened socket made, every poll step keeps slots, descriptors and events in order.
LEMMA PollAfter ==
  ASSUME TypeInv, SlotsOK, EventInv, After, PollThread
  PROVE  SlotsOK' /\ EventInv' /\ After'
  <1>1. Unreserved
    BY DEF After, Unreserved
  <1>2. SlotsOK' /\ EventInv' /\ Unreserved'
    <2>1. CASE Wait
      BY <1>1, <2>1, WaitEvents, WaitIs DEF Unreserved
    <2>2. CASE ClearClosedEvent
      BY <1>1, <2>2, ClearEvents DEF Unreserved, ClearClosedEvent
    <2>3. CASE pollPc # "clear" /\ \E d \in {0, 1} : Shift(d) /\ \E n \in Table : Effect(n, d)
      BY <1>1, <2>3, EffectDone
    <2> QED BY <2>1, <2>2, <2>3, AfterEffect
  <1>3. UNCHANGED <<user, used>>
    BY PollFrame
  <1>4. opens' = 1 /\ \A u \in Users : ~Opening(u)'
    BY <1>3 DEF After, opens, Opening
  <1>5. \A i \in DOMAIN ctrl' : ctrl'[i].op \notin Opens
    <2>1. CASE UNCHANGED ctrl
      BY <2>1 DEF After
    <2>2. CASE ctrl # <<>> /\ ctrl' = Tail(ctrl)
      <3>1. ctrl \in Seq(Request)
        BY DEF TypeInv, PipeType
      <3>2. \A i \in DOMAIN Tail(ctrl) : i + 1 \in DOMAIN ctrl /\ Tail(ctrl)[i] = ctrl[i + 1]
        BY <2>2, <3>1
      <3> QED BY <2>2, <3>2 DEF After
    <2>3. CASE StartAccepted
      <3> DEFINE r == [op |-> "S", id |-> msg.id, pkt |-> Nil, fits |-> TRUE]
      <3>1. r \in Request /\ Len(ctrl) < PipeCap /\ ctrl' = Append(ctrl, r) /\ r.op = "S"
        BY <2>3, StartAcceptedIs
      <3> HIDE DEF r
      <3>2. /\ DOMAIN ctrl' = 1 .. (Len(ctrl) + 1) /\ Len(ctrl) \in Nat /\ DOMAIN ctrl = 1 .. Len(ctrl)
            /\ ctrl'[Len(ctrl) + 1] = r /\ \A i \in DOMAIN ctrl : ctrl'[i] = ctrl[i]
        BY <3>1, PipeSet DEF TypeInv, Sends
      <3>3. \A i \in DOMAIN ctrl' : i \in DOMAIN ctrl \/ i = Len(ctrl) + 1
        BY <3>2
      <3>4. r.op \notin Opens
        BY <3>1 DEF Opens
      <3> QED BY <3>2, <3>3, <3>4 DEF After
    <2> QED BY <2>1, <2>2, <2>3, PollFrame
  <1> QED BY <1>2, <1>4, <1>5 DEF After, Unreserved

-----------------------------------------------------------------------------
(* Before the socket that the callers open is made                         *)

\* A table without sockets is in order.
LEMMA BeforeOK ==
  ASSUME Before
  PROVE  SlotsOK /\ EventInv
  BY DEF Before, SlotsOK, SlotOK, EventInv, EventOK, InUse

\* The same for the state after a step.
LEMMA BeforeNextOK ==
  ASSUME Before'
  PROVE  SlotsOK' /\ EventInv'
  BY DEF Before, SlotsOK, SlotOK, EventInv, EventOK, InUse, send_buffer_empty

\* What changes nothing of the table and the calls.
LEMMA BeforeKept ==
  ASSUME Before, UNCHANGED <<slot, epoll, ev, pollPc, msg>>
  PROVE  Before'
  BY DEF Before, InUse, send_buffer_empty

\* The poll thread finds no socket to work on: it waits, looks at the events
\* of the pipe, or executes a request.
LEMMA PollBefore ==
  ASSUME TypeInv, Before, PollThread
  PROVE  \/ Before' /\ UNCHANGED <<slot, opened, ctrl, user, used, known>>
         \/ \E op : /\ Cmd(op)
                    /\ \/ op \cap Opens = {}
                       \/ ListenSocket \/ OpenSocket \/ BindSocket \/ AddUdpSocket
  <1>1. ASSUME NEW types, Event(types)
        PROVE  FALSE
    <2>1. Head(ev) = ev[1] /\ 1 \in DOMAIN ev
      BY <1>1, EventIs
    <2> QED BY <1>1, <2>1 DEF Before, Event
  <1>2. ~ReportConnect /\ ~ReportAccept /\ ~ForwardMessage /\ ~ForwardMessageUdp /\ ~SendBuffer
    BY <1>1 DEF ReportConnect, ReportAccept, ForwardMessage, ForwardMessageUdp, SendBuffer
  <1>3. ~ClearClosedEvent /\ ~StartAccepted
    BY DEF Before, ClearClosedEvent, StartAccepted
  <1>4. CASE NoCmd
    BY <1>4 DEF NoCmd, Before, InUse, send_buffer_empty, fdVars, callVars
  <1>5. CASE SkipEvent
    <2>1. /\ ev # <<>> /\ ev' = Tail(ev) /\ pollPc' = "loop" /\ msg' = NoMsg
          /\ UNCHANGED <<slot, opened, epoll, ctrl, user, used, known>>
      BY <1>5 DEF SkipEvent, Continue, fdVars, callVars
    <2>2. ev \in Seq(EventRec)
      BY DEF TypeInv, EventType
    <2>3. \A i \in DOMAIN ev' : i + 1 \in DOMAIN ev /\ ev'[i] = ev[i + 1]
      BY <2>1, <2>2
    <2> QED BY <2>1, <2>3 DEF Before, InUse, send_buffer_empty
  <1>6. CASE Wait
    <2>1. /\ UNCHANGED <<slot, opened, epoll, ctrl, pollPc, msg, user, known, used>>
          /\ \A i \in DOMAIN ev' :
               ev'[i].s # NoSlot => ev'[i].fd \in Ids /\ epoll[ev'[i].fd] # "NONE"
      BY <1>6, WaitIs
    <2>2. \A i \in DOMAIN ev' : ev'[i].s = NoSlot
      BY <2>1 DEF Before
    <2> QED BY <2>1, <2>2 DEF Before, InUse, send_buffer_empty
  <1>7. CASE StartSocket \/ SetUdpAddress \/ CloseSocket \/ SendSocket
    <2>1. Cmd({"S"}) \/ Cmd({"C"}) \/ Cmd({"K"}) \/ Cmd({"D", "P", "A"})
      BY <1>7 DEF StartSocket, SetUdpAddress, CloseSocket, SendSocket
    <2>2. /\ {"S"} \cap Opens = {} /\ {"C"} \cap Opens = {} /\ {"K"} \cap Opens = {}
          /\ {"D", "P", "A"} \cap Opens = {}
      BY DEF Opens
    <2> QED BY <2>1, <2>2
  <1>8. CASE ListenSocket \/ OpenSocket \/ BindSocket \/ AddUdpSocket
    BY <1>8 DEF ListenSocket, OpenSocket, BindSocket, AddUdpSocket
  <1> QED BY <1>2, <1>3, <1>4, <1>5, <1>6, <1>7, <1>8 DEF PollThread

\* The one request that makes a socket: its slot is reserved and empty, so no
\* assertion of new_fd fails.
LEMMA OpenEffect ==
  ASSUME TypeInv, InPipe, ListenSocket \/ OpenSocket \/ BindSocket \/ AddUdpSocket
  PROVE  \E n \in Table : Effect(n, 0) /\ slot[n].type = "RESERVE"
  <1>1. PICK o \in Opens : Cmd({o})
    BY DEF ListenSocket, OpenSocket, BindSocket, AddUdpSocket, Opens
  <1>2. PICK id \in Ids : id = Head(ctrl).id
    BY <1>1, CmdIs
  <1> DEFINE n == HASH_ID(id)
             s == slot[n]
  <1>3. n \in Table /\ Head(ctrl) = ctrl[1] /\ SlotsOK /\ Before
    <2>1. ctrl \in Seq(Request) /\ ctrl # <<>>
      BY <1>1 DEF Cmd, TypeInv, PipeType
    <2> QED BY <1>1, <1>2, <2>1, CmdIs, BeforeOK DEF InPipe
  <1>4. s.type = "RESERVE" /\ send_buffer_empty(s) /\ ~InUse(s)
    BY <1>2, <1>3 DEF InPipe, Reserved, Before, InUse
  <1>5. NewFdAsserts(s) = "NONE"
    BY <1>4 DEF NewFdAsserts
  <1>6. {"PLISTEN", "CONNECTED", "CONNECTING", "BIND"} \subseteq Types /\ Kinds = {"tcp", "udp", "bound"}
    BY DEF Types, Kinds
  <1>7. Head(ctrl).op \in {"L", "U", "B"} => id \in opened
    BY <1>2, <1>3 DEF InPipe, HasFd
  <1> HIDE DEF n
  <1>8. ASSUME NEW closes, closes \subseteq {id}, Discard(id, closes)
        PROVE  Effect(n, 0)
    <2>1. /\ \A m \in Table : m # n => slot'[m] = slot[m]
          /\ slot'[n].type = "INVALID" /\ slot'[n].id = s.id
          /\ slot'[n].high = s.high /\ slot'[n].low = s.low
          /\ UNCHANGED epoll /\ opened' = opened \ closes
      BY <1>8, DiscardIs DEF n
    <2>2. \A i \in Ids : HASH_ID(i) # n /\ i \in opened => i \in opened'
      BY <1>8, <2>1 DEF n
    <2> QED BY <1>3, <1>4, <2>1, <2>2, DropEffect
  <1>9. ASSUME NEW t \in {"PLISTEN", "CONNECTED", "CONNECTING", "BIND"}, NEW w \in {"NONE", "IN", "INOUT"},
               NEW k \in Kinds, new_fd(id, t, w, k), id \in opened', opened \subseteq opened',
               w = "NONE" <=> t = "PLISTEN", t = "CONNECTING" => w = "INOUT", t = "BIND" => k = "bound"
        PROVE  Effect(n, 0)
    BY <1>3, <1>4, <1>6, <1>9, NewEffect DEF n
  <1>10. CASE ListenSocket
    <2>1. new_fd(id, "PLISTEN", "NONE", "tcp") /\ UNCHANGED opened /\ Head(ctrl).op = "L"
      BY <1>2, <1>5, <1>10, CmdIs DEF ListenSocket, n
    <2>2. Effect(n, 0)
      BY <1>6, <1>7, <1>9, <2>1
    <2> QED BY <1>3, <1>4, <2>2
  <1>11. CASE OpenSocket
    <2>1. \/ Discard(id, {id})
          \/ /\ new_fd(id, "CONNECTED", "IN", "tcp") \/ new_fd(id, "CONNECTING", "INOUT", "tcp")
             /\ opened' = opened \cup {id}
      BY <1>2, <1>5, <1>11 DEF OpenSocket, n
    <2>2. Effect(n, 0)
      BY <1>6, <1>8, <1>9, <2>1
    <2> QED BY <1>3, <1>4, <2>2
  <1>12. CASE BindSocket
    <2>1. \/ Discard(id, {})
          \/ new_fd(id, "BIND", "IN", "bound") /\ UNCHANGED opened /\ Head(ctrl).op = "B"
      BY <1>2, <1>5, <1>12, CmdIs DEF BindSocket, n
    <2>2. Effect(n, 0)
      BY <1>6, <1>7, <1>8, <1>9, <2>1
    <2> QED BY <1>3, <1>4, <2>2
  <1>13. CASE AddUdpSocket
    <2>1. Head(ctrl).op = "U"
      BY <1>13, CmdIs DEF AddUdpSocket
    <2>2. \/ /\ slot' = [slot EXCEPT ![n].type = "INVALID"]
             /\ opened' = opened \ {id} /\ UNCHANGED epoll
          \/ new_fd(id, "CONNECTED", "IN", "udp") /\ UNCHANGED opened
      BY <1>2, <1>5, <1>13 DEF AddUdpSocket, n
    <2>3. CASE new_fd(id, "CONNECTED", "IN", "udp") /\ UNCHANGED opened
      <3>1. Effect(n, 0)
        BY <1>6, <1>7, <1>9, <2>1, <2>3
      <3> QED BY <1>3, <1>4, <3>1
    <2>4. CASE /\ slot' = [slot EXCEPT ![n].type = "INVALID"]
               /\ opened' = opened \ {id} /\ UNCHANGED epoll
      <3>1. /\ \A m \in Table : m # n => slot'[m] = slot[m]
            /\ slot'[n].type = "INVALID" /\ slot'[n].id = s.id
            /\ slot'[n].high = s.high /\ slot'[n].low = s.low
        BY <1>3, <2>4, SetTypeIs DEF TypeInv, Types
      <3>2. \A i \in Ids : HASH_ID(i) # n /\ i \in opened => i \in opened'
        BY <2>4 DEF n
      <3>3. Effect(n, 0)
        BY <1>3, <1>4, <2>4, <3>1, <3>2, DropEffect
      <3> QED BY <1>3, <1>4, <3>3
    <2> QED BY <2>2, <2>3, <2>4
  <1> QED BY <1>10, <1>11, <1>12, <1>13

\* Every poll step keeps the invariant and its phase.
LEMMA PollPhase ==
  ASSUME IInv, PollThread
  PROVE  IInv'
  <1>1. TypeInv /\ TypeInv' /\ SlotsOK /\ EventInv
    BY PollType DEF IInv, SlotsOK
  <1>2. CASE After
    BY <1>1, <1>2, PollAfter DEF IInv, Phase, SlotsOK
  <1>3. ASSUME Before, Before', UNCHANGED <<slot, opened, ctrl, user, used, known>>
        PROVE  /\ Start => Start'
               /\ InPipe => InPipe'
               /\ \A u \in Users : InCall(u) => InCall(u)'
    BY <1>3 DEF Start, InCall, InPipe, Opening, Reserved, HasFd, opens
  <1>4. CASE Start \/ (\E u \in Users : InCall(u))
    <2>1. Before /\ ctrl = <<>>
      BY <1>4 DEF Start, InCall
    <2>2. Before' /\ UNCHANGED <<slot, opened, ctrl, user, used, known>>
      BY <1>1, <2>1, PollBefore DEF Cmd
    <2>3. SlotsOK' /\ EventInv'
      BY <2>2, BeforeNextOK
    <2>4. Phase'
      BY <1>3, <1>4, <2>1, <2>2 DEF Phase
    <2> QED BY <1>1, <2>3, <2>4 DEF IInv, SlotsOK
  <1>5. CASE InPipe
    <2>1. Before
      BY <1>5 DEF InPipe
    <2>2. CASE Before' /\ UNCHANGED <<slot, opened, ctrl, user, used, known>>
      <3>1. SlotsOK' /\ EventInv'
        BY <2>2, BeforeNextOK
      <3>2. Phase'
        BY <1>3, <1>5, <2>1, <2>2 DEF Phase
      <3> QED BY <1>1, <3>1, <3>2 DEF IInv, SlotsOK
    <2>3. ASSUME NEW op, Cmd(op)
          PROVE  op \cap Opens # {} /\ ctrl' = Tail(ctrl) /\ UNCHANGED <<ev, user, used>>
                 /\ ctrl \in Seq(Request) /\ ctrl # <<>>
      <3>1. ctrl \in Seq(Request) /\ ctrl # <<>> /\ ctrl' = Tail(ctrl) /\ UNCHANGED <<ev, user, used>>
        BY <1>1, <2>3 DEF Cmd, TypeInv, PipeType, callVars
      <3>2. Head(ctrl) = ctrl[1]
        BY <3>1
      <3>3. Head(ctrl).op \in op
        BY <2>3 DEF Cmd
      <3> QED BY <1>5, <3>1, <3>2, <3>3 DEF InPipe
    <2>4. ASSUME NEW op, Cmd(op), ListenSocket \/ OpenSocket \/ BindSocket \/ AddUdpSocket
          PROVE  SlotsOK' /\ EventInv' /\ After'
      <3>1. PICK n \in Table : Effect(n, 0) /\ slot[n].type = "RESERVE"
        BY <1>1, <1>5, <2>4, OpenEffect
      <3>2. SlotsOK'
        BY <1>1, <3>1, SlotsKept DEF Effect
      <3>3. \A m \in Table : slot'[m].type # "RESERVE"
        <4>1. \A m \in Table : m # n => slot[m].type # "RESERVE"
          BY <1>5, <3>1 DEF InPipe, Reserved
        <4> QED BY <3>1, <4>1 DEF Effect
      <3>4. EventInv'
        BY <2>1, <2>3, <2>4 DEF Before, EventInv, EventOK
      <3>5. \A i \in DOMAIN ctrl' : ctrl'[i].op \notin Opens
        <4>1. \A i \in DOMAIN ctrl' : i + 1 \in DOMAIN ctrl /\ i + 1 # 1 /\ ctrl'[i] = ctrl[i + 1]
          BY <2>3, <2>4
        <4> QED BY <1>5, <4>1 DEF InPipe
      <3>6. opens' = 1 /\ \A u \in Users : ~Opening(u)'
        BY <1>5, <2>3, <2>4 DEF InPipe, opens, Opening
      <3> QED BY <3>2, <3>3, <3>4, <3>5, <3>6 DEF After
    <2>5. CASE \E op : /\ Cmd(op)
                       /\ \/ op \cap Opens = {}
                          \/ ListenSocket \/ OpenSocket \/ BindSocket \/ AddUdpSocket
      BY <1>1, <2>3, <2>4, <2>5 DEF IInv, Phase, SlotsOK
    <2> QED BY <1>1, <2>1, <2>2, <2>5, PollBefore
  <1> QED BY <1>2, <1>4, <1>5 DEF IInv, Phase

-----------------------------------------------------------------------------
(* Steps of the callers                                                    *)

\* A caller that opens nothing leaves the table, epoll and the batch alone.
LEMMA TableKept ==
  ASSUME UNCHANGED <<slot, opened, epoll, ev, pollPc, msg>>
  PROVE  /\ SlotsOK => SlotsOK'
         /\ EventInv => EventInv'
         /\ Before => Before'
  BY DEF SlotsOK, SlotOK, EventInv, EventOK, Before, InUse, send_buffer_empty

\* Calls that open a socket, one at a time.
LEMMA OpenPhase ==
  ASSUME MaxOpens <= 1, IInv, NEW u \in Users, NEW op \in Opens, Open(u, op)
  PROVE  IInv'
  <1>1. TypeInv /\ SlotsOK /\ EventInv /\ Phase
    BY DEF IInv, SlotsOK
  <1>2. /\ TypeInv' /\ opens < MaxOpens /\ opens' = opens + 1 /\ opens \in Nat
        /\ user[u].pc = "idle" /\ user'[u].pc = "fetch" /\ user'[u].req.op = op
        /\ \A v \in Users : v # u => user'[v] = user[v]
        /\ UNCHANGED <<slot, ctrl, known, opened, epoll, checkctrl, ev, pollPc, msg, failed>>
    BY <1>1, OpenIs
  <1>3. opens = 0 /\ opens' = 1
    <2>1. MaxOpens \in Nat
      BY BoundAssumption
    <2> QED BY <1>2, <2>1
  <1>4. Start
    BY <1>1, <1>3 DEF Phase, InCall, InPipe, After
  <1>5. Before /\ Before'
    BY <1>2, <1>4, TableKept DEF Start
  <1>6. InCall(u)'
    BY <1>2, <1>3, <1>4, <1>5 DEF Start, InCall, Opening, Reserved
  <1> QED BY <1>1, <1>2, <1>5, <1>6, BeforeNextOK DEF IInv, Phase, SlotsOK

\* The steps of reserve_id.
LEMMA ReservePhase ==
  ASSUME IInv, NEW u \in Users,
         ReserveFetch(u) \/ ReserveLook(u) \/ ReserveCas(u) \/ ReserveSetId(u)
  PROVE  IInv'
  <1>1. TypeInv /\ SlotsOK /\ EventInv /\ Phase
    BY DEF IInv, SlotsOK
  <1>2. user[u].pc \in {"fetch", "look", "cas", "setid"}
    BY <1>1, ReserveFetchIs, ReserveLookIs, ReserveCasIs, ReserveSetIdIs
  <1>3. InCall(u) /\ Before
    BY <1>1, <1>2 DEF Phase, Start, InCall, InPipe, After, Opening
  <1>4. opens = 1 /\ ctrl = <<>> /\ known = {} /\ user[u].req.op \in Opens
        /\ \A v \in Users : v # u => user[v].pc = "idle"
    BY <1>3 DEF InCall
  <1>5. CASE ReserveFetch(u)
    <2>1. /\ TypeInv' /\ user[u].pc = "fetch"
          /\ user'[u].pc = "idle" \/ (user'[u].pc = "look" /\ user'[u].req.op = user[u].req.op)
          /\ \A v \in Users : v # u => user'[v] = user[v]
          /\ UNCHANGED <<slot, ctrl, known, used, opened, epoll, checkctrl, ev, pollPc, msg, failed>>
      BY <1>1, <1>5, ReserveFetchIs
    <2>2. Before' /\ opens' = 1 /\ \A m \in Table : slot'[m].type = "INVALID"
      BY <1>3, <1>4, <2>1, TableKept DEF opens, InCall
    <2>3. CASE user'[u].pc = "idle"
      <3>1. After'
        BY <1>4, <2>1, <2>2, <2>3 DEF After, Opening
      <3> QED BY <2>1, <2>2, <3>1, BeforeNextOK DEF IInv, Phase, SlotsOK
    <2>4. CASE user'[u].pc = "look" /\ user'[u].req.op = user[u].req.op
      <3>1. InCall(u)'
        BY <1>4, <2>1, <2>2, <2>4 DEF InCall, Opening, Reserved
      <3> QED BY <2>1, <2>2, <3>1, BeforeNextOK DEF IInv, Phase, SlotsOK
    <2> QED BY <2>1, <2>3, <2>4
  <1>6. CASE ReserveLook(u)
    <2>1. /\ TypeInv' /\ user[u].pc = "look"
          /\ user'[u].pc \in {"cas", "fetch"} /\ user'[u].req = user[u].req
          /\ \A v \in Users : v # u => user'[v] = user[v]
          /\ UNCHANGED <<slot, ctrl, known, used, opened, epoll, checkctrl, ev, pollPc, msg, failed>>
      BY <1>1, <1>6, ReserveLookIs
    <2>2. Before' /\ opens' = 1 /\ \A m \in Table : slot'[m].type = "INVALID"
      BY <1>3, <1>4, <2>1, TableKept DEF opens, InCall
    <2>3. InCall(u)'
      BY <1>4, <2>1, <2>2 DEF InCall, Opening, Reserved
    <2> QED BY <2>1, <2>2, <2>3, BeforeNextOK DEF IInv, Phase, SlotsOK
  <1>7. CASE ReserveCas(u)
    <2> DEFINE n == HASH_ID(user[u].req.id)
    <2>1. /\ TypeInv' /\ user[u].pc = "cas" /\ n \in Table
          /\ user'[u].req = user[u].req
          /\ \A v \in Users : v # u => user'[v] = user[v]
          /\ \/ /\ user'[u].pc = "setid" /\ slot'[n].type = "RESERVE"
                /\ slot'[n].high = slot[n].high /\ slot'[n].low = slot[n].low
                /\ \A m \in Table : m # n => slot'[m] = slot[m]
             \/ slot[n].type # "INVALID"
          /\ UNCHANGED <<ctrl, known, used, opened, epoll, checkctrl, ev, pollPc, msg, failed>>
      BY <1>1, <1>7, ReserveCasIs
    <2>2. \A m \in Table : slot[m].type = "INVALID"
      BY <1>3, <2>1 DEF InCall
    <2>3. /\ user'[u].pc = "setid" /\ slot'[n].type = "RESERVE"
          /\ slot'[n].high = slot[n].high /\ slot'[n].low = slot[n].low
          /\ \A m \in Table : m # n => slot'[m] = slot[m]
      BY <2>1, <2>2
    <2>4. \A m \in Table : ~InUse(slot'[m]) /\ send_buffer_empty(slot'[m])
      BY <1>3, <2>3 DEF Before, InUse, send_buffer_empty
    <2>5. Before' /\ opens' = 1
      BY <1>3, <1>4, <2>1, <2>4 DEF Before, opens, InUse, send_buffer_empty
    <2>6. \A m \in Table : slot'[m].type = "RESERVE" <=> m = HASH_ID(user'[u].req.id)
      BY <2>1, <2>2, <2>3
    <2>7. InCall(u)'
      BY <1>4, <2>1, <2>3, <2>5, <2>6 DEF InCall, Opening, Reserved
    <2> QED BY <2>1, <2>5, <2>7, BeforeNextOK DEF IInv, Phase, SlotsOK
  <1>8. CASE ReserveSetId(u)
    <2> DEFINE r == user[u].req
               n == HASH_ID(r.id)
    <2>1. /\ TypeInv' /\ user[u].pc = "setid" /\ n \in Table
          /\ user'[u].req = r /\ user'[u].pc = "request"
          /\ \A v \in Users : v # u => user'[v] = user[v]
          /\ slot'[n].type = slot[n].type /\ slot'[n].high = slot[n].high /\ slot'[n].low = slot[n].low
          /\ \A m \in Table : m # n => slot'[m] = slot[m]
          /\ (r.op \in {"L", "U", "B"} => r.id \in opened')
          /\ UNCHANGED <<ctrl, known, used, epoll, checkctrl, ev, pollPc, msg, failed>>
      BY <1>1, <1>8, ReserveSetIdIs
    <2>2. \A m \in Table : slot[m].type = "RESERVE" <=> m = n
      BY <1>3, <2>1 DEF InCall, Reserved
    <2>3. /\ \A m \in Table : ~InUse(slot'[m]) /\ send_buffer_empty(slot'[m])
          /\ \A m \in Table : slot'[m].type = slot[m].type
      BY <1>3, <2>1 DEF Before, InUse, send_buffer_empty
    <2>4. Before' /\ opens' = 1
      BY <1>3, <1>4, <2>1, <2>3 DEF Before, opens, InUse, send_buffer_empty
    <2>5. \A m \in Table : slot'[m].type = "RESERVE" <=> m = HASH_ID(user'[u].req.id)
      BY <2>1, <2>2, <2>3
    <2>6. InCall(u)'
      BY <1>4, <2>1, <2>4, <2>5 DEF InCall, Opening, Reserved, HasFd
    <2> QED BY <2>1, <2>4, <2>6, BeforeNextOK DEF IInv, Phase, SlotsOK
  <1> QED BY <1>5, <1>6, <1>7, <1>8

\* The calls that begin with a request need a socket that is known.
LEMMA BeginPhase ==
  ASSUME IInv, NEW u \in Users,
         \/ \E op \in Sends, fits \in BOOLEAN : Send(u, op, fits)
         \/ \E fits \in BOOLEAN : UdpConnect(u, fits)
         \/ Close(u)
  PROVE  IInv'
  <1>1. TypeInv /\ SlotsOK /\ EventInv /\ Phase
    BY DEF IInv, SlotsOK
  <1>2. /\ TypeInv' /\ user[u].pc = "idle" /\ opens' = opens /\ known # {}
        /\ user'[u].pc = "request" /\ user'[u].req.op \notin Opens
        /\ \A v \in Users : v # u => user'[v] = user[v]
        /\ UNCHANGED <<slot, ctrl, known, opened, epoll, checkctrl, ev, pollPc, msg, failed>>
    BY <1>1, BeginIs
  <1>3. InPipe \/ After
    BY <1>1, <1>2 DEF Phase, Start, InCall
  <1>4. \A v \in Users : ~Opening(v)'
    BY <1>2, <1>3 DEF InPipe, After, Opening
  <1>5. InPipe' \/ After'
    <2>1. CASE InPipe
      <3>1. Before'
        BY <1>2, <2>1, TableKept DEF InPipe
      <3> QED BY <1>2, <1>4, <2>1, <3>1 DEF InPipe, Reserved, HasFd
    <2>2. CASE After
      BY <1>2, <1>4, <2>2 DEF After
    <2> QED BY <1>3, <2>1, <2>2
  <1> QED BY <1>1, <1>2, <1>5, TableKept DEF IInv, Phase, SlotsOK

\* send_request
LEMMA SendRequestPhase ==
  ASSUME IInv, NEW u \in Users, SendRequest(u)
  PROVE  IInv'
  <1> DEFINE r == user[u].req
  <1>1. TypeInv /\ SlotsOK /\ EventInv /\ Phase
    BY DEF IInv, SlotsOK
  <1>2. /\ TypeInv' /\ user[u].pc = "request" /\ opens' = opens
        /\ \/ user'[u].pc = "idle"
           \/ r.op = "L" /\ user'[u].pc = "request" /\ user'[u].req.op = "S"
        /\ \A v \in Users : v # u => user'[v] = user[v]
        /\ UNCHANGED <<slot, opened, epoll, checkctrl, ev, pollPc, msg, failed>>
    BY <1>1, SendRequestIs
  <1>3. PICK q \in Request : /\ q.op = r.op /\ q.id = r.id /\ ctrl' = Append(ctrl, q)
                             /\ Len(ctrl) < PipeCap /\ (q.op \in Sends => q.pkt # Nil)
    BY <1>1, SendRequestIs
  <1>4. /\ DOMAIN ctrl' = 1 .. (Len(ctrl) + 1) /\ Len(ctrl) \in Nat /\ DOMAIN ctrl = 1 .. Len(ctrl)
        /\ ctrl'[Len(ctrl) + 1] = q /\ \A i \in DOMAIN ctrl : ctrl'[i] = ctrl[i]
    BY <1>1, <1>3, PipeSet DEF TypeInv
  <1>5. \A i \in DOMAIN ctrl' : i \in DOMAIN ctrl \/ i = Len(ctrl) + 1
    BY <1>4
  <1>6. "S" \notin Opens
    BY DEF Opens
  <1>7. ctrl' # <<>>
    BY <1>4
  <1>8. CASE InCall(u)
    <2>1. /\ ctrl = <<>> /\ opens = 1 /\ r.op \in Opens /\ Reserved(r.id) /\ HasFd(r)
          /\ \A v \in Users : v # u => user[v].pc = "idle"
      BY <1>2, <1>8 DEF InCall
    <2>2. Len(ctrl) = 0 /\ DOMAIN ctrl' = {1} /\ ctrl'[1] = q
      BY <1>4, <2>1
    <2>3. \A v \in Users : ~Opening(v)'
      BY <1>2, <1>6, <2>1 DEF Opening
    <2>4. Before'
      BY <1>2, <1>8, TableKept DEF InCall
    <2>5. /\ \A m \in Table : slot'[m].type = "RESERVE" <=> m = HASH_ID(q.id)
          /\ q.op \in {"L", "U", "B"} => q.id \in opened'
      BY <1>2, <1>3, <2>1 DEF Reserved, HasFd
    <2>6. InPipe'
      BY <1>2, <1>3, <1>7, <2>1, <2>2, <2>3, <2>4, <2>5 DEF InPipe, Reserved, HasFd
    <2> QED BY <1>1, <1>2, <2>4, <2>6, BeforeNextOK DEF IInv, Phase, SlotsOK
  <1>9. CASE InPipe \/ After
    <2>1. r.op \notin Opens /\ \A v \in Users : ~Opening(v)
      BY <1>2, <1>9 DEF InPipe, After, Opening
    <2>2. \A v \in Users : ~Opening(v)'
      BY <1>2, <1>6, <2>1 DEF Opening
    <2>3. CASE InPipe
      <3>1. Before'
        BY <1>2, <2>3, TableKept DEF InPipe
      <3>2. 1 \in DOMAIN ctrl /\ ctrl'[1] = ctrl[1]
        <4>1. ctrl \in Seq(Request) /\ ctrl # <<>>
          BY <1>1, <2>3 DEF TypeInv, PipeType, InPipe
        <4>2. 1 \in DOMAIN ctrl
          BY <4>1
        <4> QED BY <1>4, <4>2
      <3>3. \A i \in DOMAIN ctrl' : i # 1 => ctrl'[i].op \notin Opens
        BY <1>3, <1>4, <1>5, <2>1, <2>3 DEF InPipe
      <3>4. InPipe'
        BY <1>2, <1>7, <2>2, <2>3, <3>1, <3>2, <3>3 DEF InPipe, Reserved, HasFd
      <3> QED BY <1>1, <1>2, <3>4, TableKept DEF IInv, Phase, SlotsOK
    <2>4. CASE After
      <3>1. \A i \in DOMAIN ctrl' : ctrl'[i].op \notin Opens
        BY <1>3, <1>4, <1>5, <2>1, <2>4 DEF After
      <3>2. After'
        BY <1>2, <2>2, <2>4, <3>1 DEF After
      <3> QED BY <1>1, <1>2, <3>2, TableKept DEF IInv, Phase, SlotsOK
    <2> QED BY <1>9, <2>3, <2>4
  <1>10. InCall(u) \/ InPipe \/ After
    BY <1>1, <1>2 DEF Phase, Start, InCall
  <1> QED BY <1>8, <1>9, <1>10

\* Every step of a caller keeps the invariant, if one socket is opened in all.
LEMMA CallerPhase ==
  ASSUME MaxOpens <= 1, IInv, NEW u \in Users, Caller(u)
  PROVE  IInv'
  <1>1. CASE Listen(u) \/ Connect(u) \/ Udp(u) \/ Bind(u)
    BY <1>1, OpenPhase DEF Listen, Connect, Udp, Bind, Opens
  <1>2. CASE ReserveFetch(u) \/ ReserveLook(u) \/ ReserveCas(u) \/ ReserveSetId(u)
    BY <1>2, ReservePhase
  <1>3. CASE \/ Send(u, "D", TRUE) \/ Send(u, "P", TRUE) \/ Close(u)
             \/ \E fits \in BOOLEAN : Send(u, "A", fits) \/ UdpConnect(u, fits)
    BY <1>3, BeginPhase DEF Sends
  <1>4. CASE SendRequest(u)
    BY <1>4, SendRequestPhase
  <1> QED BY <1>1, <1>2, <1>3, <1>4 DEF Caller

-----------------------------------------------------------------------------
(* Theorems                                                                *)

\* The initial state satisfies the inductive invariant.
LEMMA InitPhase == Init => IInv
  <1> SUFFICES ASSUME Init PROVE IInv
    OBVIOUS
  <1>1. TypeInv
    BY InitType
  <1>2. \A n \in Table : slot[n].type = "INVALID" /\ slot[n].high = <<>> /\ slot[n].low = <<>>
    BY DEF Init
  <1>3. Before
    BY <1>2 DEF Init, Before, InUse, send_buffer_empty, NoMsg
  <1>4. opens = 0 /\ \A u \in Users : user[u].pc = "idle"
    BY IdleIs DEF Init, opens
  <1>5. Start
    BY <1>2, <1>3, <1>4 DEF Init, Start
  <1> QED BY <1>1, <1>3, <1>5, BeforeOK DEF IInv, Phase, SlotsOK

\* The invariant is inductive for a program that opens one socket.
LEMMA NextPhase == MaxOpens <= 1 /\ IInv /\ [Next]_vars => IInv'
  <1>1. IInv /\ UNCHANGED vars => IInv'
    <2> SUFFICES ASSUME IInv, UNCHANGED vars PROVE IInv'
      OBVIOUS
    <2>1. UNCHANGED <<slot, opened, epoll, ev, pollPc, msg, ctrl, user, used, known>> /\ TypeInv'
      BY NextType DEF vars, fdVars, pollVars, callVars, IInv
    <2>2. SlotsOK' /\ EventInv'
      BY <2>1, TableKept DEF IInv, SlotsOK
    <2>3. Phase'
      <3>1. Before => Before'
        BY <2>1, TableKept
      <3>2. Start => Start'
        BY <2>1, <3>1 DEF Start, opens
      <3>3. \A u \in Users : InCall(u) => InCall(u)'
        BY <2>1, <3>1 DEF InCall, opens, Opening, Reserved, HasFd
      <3>4. (InPipe => InPipe') /\ (After => After')
        BY <2>1, <3>1 DEF InPipe, After, opens, Opening, Reserved, HasFd
      <3> QED BY <3>2, <3>3, <3>4 DEF IInv, Phase
    <2> QED BY <2>1, <2>2, <2>3 DEF IInv, SlotsOK
  <1> QED BY <1>1, PollPhase, CallerPhase DEF Next

\* The invariant implies the three properties.
LEMMA IInvIs == IInv => SlotsOwnFds /\ WriteArmed /\ EventsFresh
  <1> SUFFICES ASSUME IInv PROVE SlotsOwnFds /\ WriteArmed /\ EventsFresh
    OBVIOUS
  <1>1. \A n \in Table : SlotOK(n)
    BY DEF IInv
  <1>2. SlotsOwnFds
    BY <1>1 DEF SlotsOwnFds, SlotOK, InUse
  <1>3. WriteArmed
    BY <1>1 DEF WriteArmed, SlotOK
  <1>4. EventsFresh
    BY DEF IInv, EventInv, EventOK, EventsFresh
  <1> QED BY <1>2, <1>3, <1>4

\* For a program that opens one socket by itself, the listening one of the
\* game server, a slot in use always has its own open descriptor, and epoll
\* watches it exactly when start_socket or open_socket told it to.
THEOREM SlotsCorrect == MaxOpens <= 1 => (Spec => []SlotsOwnFds)
  <1> SUFFICES ASSUME MaxOpens <= 1 PROVE Spec => []SlotsOwnFds
    OBVIOUS
  <1>1. IInv /\ [Next]_vars => IInv'
    BY NextPhase
  <1> QED BY <1>1, InitPhase, IInvIs, PTL DEF Spec

\* For such a program epoll watches for room to write whenever something is
\* queued on a socket.
THEOREM WritesArmed == MaxOpens <= 1 => (Spec => []WriteArmed)
  <1> SUFFICES ASSUME MaxOpens <= 1 PROVE Spec => []WriteArmed
    OBVIOUS
  <1>1. IInv /\ [Next]_vars => IInv'
    BY NextPhase
  <1> QED BY <1>1, InitPhase, IInvIs, PTL DEF Spec

\* For such a program an event of a batch is never taken for one of a later
\* socket in the same slot.
THEOREM EventsStayFresh == MaxOpens <= 1 => (Spec => []EventsFresh)
  <1> SUFFICES ASSUME MaxOpens <= 1 PROVE Spec => []EventsFresh
    OBVIOUS
  <1>1. IInv /\ [Next]_vars => IInv'
    BY NextPhase
  <1> QED BY <1>1, InitPhase, IInvIs, PTL DEF Spec

-----------------------------------------------------------------------------
(* Packets in the pipe, in the lists and on the wire                       *)

\* The chunk before c in its packet.
Pred(c) == [pkt |-> c.pkt, at |-> c.at - 1, low |-> c.low, fits |-> c.fits]

\* Chunk a may go out before chunk b.
Fine(a, b) == a.pkt > b.pkt => ~a.low /\ b.low

\* A stream of chunks in which packets are whole and overtaken by packets of
\* high priority only; rest: the first packet may be partly written.
Good(l, rest) ==
  /\ \A k \in DOMAIN l : l[k].at > 1 => IF k = 1 THEN rest ELSE l[k - 1] = Pred(l[k])
  /\ \A i, j \in DOMAIN l : i < j => Fine(l[i], l[j])

\* The lists of a slot: its queue is a good stream, the low list begins with a
\* whole packet and holds packets of low priority, none of them on both lists.
ListOK(s) ==
  /\ Good(Queued(s), TRUE)
  /\ s.low # <<>> => s.low[1].at = 1
  /\ \A j \in DOMAIN s.low : s.low[j].low
  /\ \A i \in DOMAIN s.high, j \in DOMAIN s.low : s.high[i].pkt # s.low[j].pkt

\* Packet x was sent before every packet that is still in the pipe.
Old(x) == x <= used["D"] /\ \A i \in DOMAIN ctrl : ctrl[i].pkt # Nil => x < ctrl[i].pkt

\* The packets in the pipe are in the order of their numbers.
PipeInv ==
  /\ \A i \in DOMAIN ctrl : ctrl[i].pkt <= used["D"]
  /\ \A i, j \in DOMAIN ctrl : i < j /\ ctrl[i].pkt # Nil /\ ctrl[j].pkt # Nil =>
       ctrl[i].pkt < ctrl[j].pkt

\* The packets on the lists of slot n.
Held(n) == Packets(slot[n].high) \cup Packets(slot[n].low)

\* What left the pipe was sent before what is still in it.
OldInv ==
  /\ \A x \in freed : Old(x)
  /\ \A n \in Table : \A x \in Held(n) : Old(x)
  /\ \A i \in Ids : \A x \in Packets(wire[i]) : Old(x)

\* The lists are good, and go on where the wire of the slot's descriptor ends.
ListInv ==
  /\ \A n \in Table : ListOK(slot[n])
  /\ \A n \in Table : slot[n].fd # Nil =>
       HASH_ID(slot[n].fd) = n /\ Good(wire[slot[n].fd] \o Queued(slot[n]), FALSE)
  /\ \A i \in Ids : Good(wire[i], FALSE)

\* No packet is on the lists of two slots, or freed and on a list.
OnceInv ==
  /\ \A n \in Table : Held(n) \cap freed = {}
  /\ \A m, n \in Table : m # n => Held(m) \cap Held(n) = {}

\* The inductive invariant.
WriteInv == TypeInv /\ PipeInv /\ OldInv /\ ListInv /\ OnceInv /\ LowComplete

-----------------------------------------------------------------------------
(* Sequences of chunks                                                     *)

\* The order of the naturals is well-founded.
LEMMA LessWellFounded == IsWellFoundedOn({ss \in Nat \X Nat : ss[1] < ss[2]}, Nat)
  BY NatLessThanWellFounded DEF OpToRel

\* Induction over the naturals, for sets.
LEMMA SetInduction ==
  ASSUME NEW T \in SUBSET Nat, 0 \in T, \A n \in T : n + 1 \in T
  PROVE  T = Nat
  <1> DEFINE R == {ss \in Nat \X Nat : ss[1] < ss[2]}
             U == Nat \ T
  <1>1. IsWellFoundedOn(R, Nat)
    BY LessWellFounded
  <1> SUFFICES ASSUME U # {} PROVE FALSE
    OBVIOUS
  <1>2. U \subseteq Nat
    OBVIOUS
  <1>3. PICK x \in U : \A y \in U : ~(<<y, x>> \in R)
    <2> HIDE DEF R, U
    <2> QED BY <1>1, <1>2, WFMin
  <1>4. x # 0 /\ x - 1 \in Nat /\ x - 1 < x
    OBVIOUS
  <1>5. <<x - 1, x>> \in R
    BY <1>4
  <1>6. x - 1 \in T
    BY <1>3, <1>4, <1>5
  <1> QED BY <1>6, <1>4

\* A set of the first numbers has as many elements as its largest says.
LEMMA FirstNumbers ==
  ASSUME NEW l \in Nat, NEW D \in SUBSET (1 .. l), \A j \in D : \A i \in 1 .. j : i \in D
  PROVE  Cardinality(D) \in 0 .. l /\ D = 1 .. Cardinality(D)
  <1> DEFINE First(d) == \A j \in d : \A i \in 1 .. j : i \in d
             T == { n \in Nat : \A d \in SUBSET (1 .. n) : First(d) => \E m \in 0 .. n : d = 1 .. m }
  <1>1. 0 \in T
    <2>1. \A d \in SUBSET (1 .. 0) : d = 1 .. 0
      OBVIOUS
    <2>2. \A d \in SUBSET (1 .. 0) : First(d) => \E m \in 0 .. 0 : d = 1 .. m
      <3> HIDE DEF First
      <3>1. 0 \in 0 .. 0
        OBVIOUS
      <3> QED BY <2>1, <3>1
    <2>3. 0 \in Nat
      OBVIOUS
    <2> HIDE DEF First
    <2> QED BY <2>2, <2>3
  <1>2. ASSUME NEW n \in T PROVE n + 1 \in T
    <2>0. n \in Nat /\ \A d \in SUBSET (1 .. n) : First(d) => \E m \in 0 .. n : d = 1 .. m
      BY <1>2
    <2> HIDE DEF T
    <2> SUFFICES ASSUME NEW d \in SUBSET (1 .. n + 1), First(d)
                 PROVE  \E m \in 0 .. n + 1 : d = 1 .. m
      BY <2>0, SMTT(30) DEF T
    <2>1. CASE n + 1 \in d
      <3>1. d = 1 .. n + 1
        BY <2>0, <2>1
      <3> QED BY <2>0, <3>1
    <2>2. CASE n + 1 \notin d
      <3>1. d \in SUBSET (1 .. n)
        BY <2>0, <2>2
      <3>2. PICK m \in 0 .. n : d = 1 .. m
        BY <2>0, <3>1
      <3> QED BY <2>0, <3>2
    <2> QED BY <2>1, <2>2
  <1>3. T = Nat
    <2> HIDE DEF T
    <2>1. T \in SUBSET Nat
      BY DEF T
    <2> QED BY <1>1, <1>2, <2>1, SetInduction
  <1>4. PICK m \in 0 .. l : D = 1 .. m
    BY <1>3
  <1>5. Cardinality(D) = m
    <2>1. m \in Nat /\ Cardinality(1 .. m) = IF 1 > m THEN 0 ELSE m - 1 + 1
      BY <1>4, FS_Interval
    <2> QED BY <1>4, <2>1
  <1> QED BY <1>4, <1>5

\* Two sequences with the same elements at the same places are equal.
LEMMA SeqSame ==
  ASSUME NEW S, NEW a \in Seq(S), NEW b \in Seq(S), Len(a) = Len(b),
         \A i \in 1 .. Len(a) : a[i] = b[i]
  PROVE  a = b
  OBVIOUS

\* The beginning and the end of a good stream are good.
LEMMA GoodParts ==
  ASSUME NEW l \in Seq(Chunk), NEW rest, Good(l, rest), NEW k \in 0 .. Len(l)
  PROVE  LET a == SubSeq(l, 1, k)  b == SubSeq(l, k + 1, Len(l)) IN
         /\ a \in Seq(Chunk) /\ Len(a) = k /\ b \in Seq(Chunk) /\ Len(b) = Len(l) - k
         /\ \A i \in 1 .. k : a[i] = l[i]
         /\ \A i \in 1 .. (Len(l) - k) : b[i] = l[k + i]
         /\ a \o b = l /\ Good(a, rest) /\ Good(b, TRUE)
  <1> DEFINE n == Len(l)
             a == SubSeq(l, 1, k)
             b == SubSeq(l, k + 1, n)
  <1>1. n \in Nat /\ k \in Nat /\ k <= n /\ DOMAIN l = 1 .. n /\ \A i \in 1 .. n : l[i] \in Chunk
    OBVIOUS
  <1> HIDE DEF n
  <1>2. /\ a \in Seq(Chunk) /\ Len(a) = IF 1 <= k THEN k - 1 + 1 ELSE 0
        /\ \A i \in 1 .. (k - 1 + 1) : a[i] = l[1 + i - 1]
    <2>1. \A i \in 1 .. k : l[i] \in Chunk
      BY <1>1
    <2> QED BY <1>1, <2>1, SubSeqProperties
  <1>3. /\ b \in Seq(Chunk) /\ Len(b) = IF k + 1 <= n THEN n - (k + 1) + 1 ELSE 0
        /\ \A i \in 1 .. (n - (k + 1) + 1) : b[i] = l[k + 1 + i - 1]
    <2>1. \A i \in k + 1 .. n : l[i] \in Chunk
      BY <1>1
    <2>2. k + 1 \in Int /\ n \in Int
      BY <1>1
    <2> QED BY <2>1, <2>2, SubSeqProperties
  <1> HIDE DEF a, b
  <1>4. Len(a) = k /\ \A i \in 1 .. k : a[i] = l[i]
    BY <1>1, <1>2
  <1>5. Len(b) = n - k /\ \A i \in 1 .. (n - k) : b[i] = l[k + i]
    BY <1>1, <1>3
  <1>6. a \o b = l
    <2>1. k \in 1 - 1 .. n /\ 1 \in 1 .. n + 1 /\ n \in k .. n
      BY <1>1
    <2>2. a \o b = SubSeq(l, 1, n)
      BY <2>1, ConcatAdjacentSubSeq DEF n, a, b
    <2> QED BY <2>2, SubSeqFull DEF n
  <1>7. DOMAIN a = 1 .. k /\ DOMAIN b = 1 .. (n - k)
    BY <1>2, <1>3, <1>4, <1>5
  <1>8. Good(a, rest)
    BY <1>1, <1>4, <1>7, SMTT(30) DEF Good
  <1>9. Good(b, TRUE)
    <2>1. \A i \in DOMAIN b : k + i \in DOMAIN l /\ b[i] = l[k + i]
      BY <1>1, <1>5, <1>7
    <2>2. \A i, j \in DOMAIN b : i < j => Fine(b[i], b[j])
      BY <1>1, <1>7, <2>1 DEF Good
    <2>3. ASSUME NEW i \in DOMAIN b, b[i].at > 1, i # 1 PROVE b[i - 1] = Pred(b[i])
      <3>1. i \in Nat /\ i - 1 \in DOMAIN b /\ k + i # 1 /\ (k + i) - 1 = k + (i - 1)
        BY <1>1, <1>7, <2>3
      <3>2. l[k + (i - 1)] = Pred(l[k + i])
        BY <2>1, <2>3, <3>1 DEF Good
      <3> QED BY <2>1, <3>1, <3>2
    <2> QED BY <2>2, <2>3 DEF Good
  <1> QED BY <1>2, <1>3, <1>4, <1>5, <1>6, <1>8, <1>9 DEF a, b, n

\* The fields of the chunks of a stream have their types.
LEMMA ChunkFields ==
  ASSUME NEW l \in Seq(Chunk)
  PROVE  /\ Len(l) \in Nat /\ DOMAIN l = 1 .. Len(l)
         /\ \A i \in DOMAIN l : /\ l[i] \in Chunk /\ l[i].pkt \in 1 .. MaxSends /\ l[i].pkt \in Nat
                                /\ l[i].at \in 1 .. PktLen /\ l[i].at \in Nat \ {0}
                                /\ l[i].low \in BOOLEAN
  <1>1. ASSUME NEW c \in Chunk
        PROVE  /\ c.pkt \in 1 .. MaxSends /\ c.pkt \in Nat /\ c.at \in 1 .. PktLen
               /\ c.at \in Nat \ {0} /\ c.low \in BOOLEAN
    <2>1. c.pkt \in 1 .. MaxSends /\ c.at \in 1 .. PktLen /\ c.low \in BOOLEAN
      BY DEF Chunk
    <2> QED BY <2>1, Bounds
  <1>2. \A i \in DOMAIN l : l[i] \in Chunk
    OBVIOUS
  <1> QED BY <1>1, <1>2

\* The low list is in order: packets of low priority do not overtake one another.
LEMMA LowRises ==
  ASSUME NEW l \in Seq(Chunk), Good(l, TRUE), \A j \in DOMAIN l : l[j].low
  PROVE  \A i, j \in DOMAIN l : i < j => l[i].pkt <= l[j].pkt
  <1>1. \A i \in DOMAIN l : l[i].pkt \in Nat
    BY ChunkFields
  <1>2. \A i, j \in DOMAIN l : i < j => ~(l[i].pkt > l[j].pkt)
    BY DEF Good, Fine
  <1> QED BY <1>1, <1>2

\* raise_uncomplete moves exactly the partly written packet.
LEMMA RaiseLists ==
  ASSUME NEW s \in SlotRec, s.high = <<>>, s.low # <<>>, Good(s.low, TRUE),
         \A j \in DOMAIN s.low : s.low[j].low
  PROVE  Queued(raise_uncomplete(s)) = s.low /\ ListOK(raise_uncomplete(s))
  <1> DEFINE low == s.low
             l == Len(low)
             p == Head(low).pkt
             D == { i \in DOMAIN low : low[i].pkt = p }
             c == Cardinality(D)
             x == SubSeq(low, 1, c)
             y == SubSeq(low, c + 1, l)
             r == raise_uncomplete(s)
  <1>1. low \in Seq(Chunk) /\ l \in Nat /\ DOMAIN low = 1 .. l /\ Head(low) = low[1] /\ 1 \in DOMAIN low
    BY SlotFields
  <1>2. \A i, j \in DOMAIN low : i < j => low[i].pkt <= low[j].pkt
    BY <1>1, LowRises
  <1>3. \A i \in DOMAIN low : low[i] \in Chunk /\ low[i].pkt \in Nat /\ low[i].at \in 1 .. PktLen
    BY <1>1, ChunkFields
  <1>4. D \in SUBSET (1 .. l) /\ \A j \in D : \A i \in 1 .. j : i \in D
    <2> SUFFICES ASSUME NEW j \in D, NEW i \in 1 .. j PROVE i \in D
      BY <1>1
    <2>1. i \in DOMAIN low /\ j \in DOMAIN low /\ low[j].pkt = p
      BY <1>1
    <2>2. p <= low[i].pkt /\ low[i].pkt <= low[j].pkt
      <3>1. i = 1 \/ 1 < i
        BY <1>1
      <3>2. i = j \/ i < j
        BY <1>1
      <3> QED BY <1>1, <1>2, <1>3, <2>1, <3>1, <3>2
    <2> QED BY <1>1, <1>3, <2>1, <2>2
  <1>5. c \in 0 .. l /\ D = 1 .. c
    <2> HIDE DEF D, l
    <2> QED BY <1>1, <1>4, FirstNumbers
  <1>6. 1 \in D
    BY <1>1
  <1>7. c >= 1
    BY <1>1, <1>5, <1>6
  <1> HIDE DEF c, l
  <1>8. /\ x \in Seq(Chunk) /\ Len(x) = c /\ y \in Seq(Chunk) /\ Len(y) = l - c
        /\ \A i \in 1 .. c : x[i] = low[i]
        /\ \A i \in 1 .. (l - c) : y[i] = low[c + i]
        /\ x \o y = low
    BY <1>1, <1>5, GoodParts DEF l
  <1>9. r = [s EXCEPT !.high = x, !.low = y]
    BY Zenon DEF raise_uncomplete, c, l
  <1> HIDE DEF x, y, r
  <1>10. r.high = x /\ r.low = y
    <2>1. [s EXCEPT !.high = x, !.low = y] \in SlotRec
      BY <1>8 DEF SlotRec
    <2> QED BY <1>8, <1>9, <2>1 DEF SlotRec
  <1>11. Queued(r) = low
    BY <1>8, <1>10 DEF Queued
  <1>12. DOMAIN x = 1 .. c /\ DOMAIN y = 1 .. (l - c)
    BY <1>8
  <1>13. \A i \in DOMAIN x : x[i].pkt = p
    BY <1>1, <1>5, <1>8, <1>12
  <1>14. \A i \in DOMAIN y : c + i \in DOMAIN low /\ y[i] = low[c + i] /\ c + i \notin D
    BY <1>1, <1>5, <1>8, <1>12
  <1>15. \A i \in DOMAIN y : y[i].pkt # p /\ y[i].low
    BY <1>14
  <1>16. ASSUME y # <<>> PROVE y[1].at = 1
    <2>1. 1 \in DOMAIN y
      BY <1>8, <1>16
    <2>2. c + 1 \in DOMAIN low /\ y[1] = low[c + 1] /\ c \in DOMAIN low /\ low[c].pkt = p
      BY <1>1, <1>5, <1>7, <1>14, <2>1
    <2>3. SUFFICES ASSUME low[c + 1].at > 1 PROVE FALSE
      BY <1>3, <2>2, Bounds
    <2>4. low[(c + 1) - 1] = Pred(low[c + 1])
      <3>1. c + 1 # 1
        BY <1>5, <1>7
      <3> QED BY <2>2, <2>3, <3>1 DEF Good
    <2>5. (c + 1) - 1 = c
      BY <1>5
    <2>6. low[c].pkt = low[c + 1].pkt
      BY <2>4, <2>5 DEF Pred
    <2> QED BY <1>15, <2>1, <2>2, <2>6
  <1>17. ListOK(r)
    BY <1>10, <1>11, <1>13, <1>15, <1>16 DEF ListOK
  <1> QED BY <1>11, <1>17 DEF r

\* The elements of a piece of a sequence.
LEMMA PieceIs ==
  ASSUME NEW l \in Seq(Chunk), NEW a \in 1 .. (Len(l) + 1)
  PROVE  LET b == SubSeq(l, a, Len(l)) IN
         /\ b \in Seq(Chunk) /\ Len(b) = Len(l) - a + 1
         /\ \A i \in 1 .. (Len(l) - a + 1) : b[i] = l[a + i - 1]
  <1> DEFINE n == Len(l)
  <1>1. n \in Nat /\ a \in Int /\ \A i \in 1 .. n : l[i] \in Chunk
    OBVIOUS
  <1> HIDE DEF n
  <1>2. \A i \in a .. n : l[i] \in Chunk
    BY <1>1 DEF n
  <1>3. /\ SubSeq(l, a, n) \in Seq(Chunk) /\ Len(SubSeq(l, a, n)) = IF a <= n THEN n - a + 1 ELSE 0
        /\ \A i \in 1 .. (n - a + 1) : SubSeq(l, a, n)[i] = l[a + i - 1]
    BY <1>1, <1>2, SubSeqProperties
  <1>4. Len(SubSeq(l, a, n)) = n - a + 1
    BY <1>1, <1>3 DEF n
  <1> QED BY <1>3, <1>4 DEF n

\* Where the chunks of the two lists are in the queue.
LEMMA QueuedIs ==
  ASSUME NEW s \in SlotRec
  PROVE  /\ s.high \in Seq(Chunk) /\ s.low \in Seq(Chunk) /\ Queued(s) \in Seq(Chunk)
         /\ Len(s.high) \in Nat /\ Len(s.low) \in Nat
         /\ DOMAIN s.high = 1 .. Len(s.high) /\ DOMAIN s.low = 1 .. Len(s.low)
         /\ Len(Queued(s)) = Len(s.high) + Len(s.low) /\ Size(s) = Len(s.high) + Len(s.low)
         /\ DOMAIN Queued(s) = 1 .. (Len(s.high) + Len(s.low))
         /\ \A i \in 1 .. (Len(s.high) + Len(s.low)) :
              Queued(s)[i] = IF i <= Len(s.high) THEN s.high[i] ELSE s.low[i - Len(s.high)]
  <1>1. s.high \in Seq(Chunk) /\ s.low \in Seq(Chunk)
    BY SlotFields
  <1>2. /\ Len(s.high) \in Nat /\ Len(s.low) \in Nat
        /\ DOMAIN s.high = 1 .. Len(s.high) /\ DOMAIN s.low = 1 .. Len(s.low)
    BY <1>1
  <1>3. /\ Queued(s) \in Seq(Chunk) /\ Len(Queued(s)) = Len(s.high) + Len(s.low)
        /\ \A i \in 1 .. (Len(s.high) + Len(s.low)) :
              Queued(s)[i] = IF i <= Len(s.high) THEN s.high[i] ELSE s.low[i - Len(s.high)]
    BY <1>1, ConcatProperties DEF Queued
  <1>4. DOMAIN Queued(s) = 1 .. Len(Queued(s))
    BY <1>3
  <1> QED BY <1>1, <1>2, <1>3, <1>4 DEF Size

\* Written leaves the rest of the queue in order.
LEMMA WrittenLists ==
  ASSUME NEW s \in SlotRec, Counted(s), ListOK(s), NEW k \in 0 .. Size(s)
  PROVE  LET w == Written(s, k) IN
         Queued(w) = SubSeq(Queued(s), k + 1, Size(s)) /\ ListOK(w)
  <1> DEFINE h == Len(s.high)
             l == Len(s.low)
             q == Queued(s)
             b == SubSeq(q, k + 1, Len(q))
             high == IF k < h THEN SubSeq(s.high, k + 1, h) ELSE <<>>
             low == IF k > h THEN SubSeq(s.low, k - h + 1, l) ELSE s.low
             t == [s EXCEPT !.high = high, !.low = low, !.wb_size = @ - k]
             raise == t.high = <<>> /\ s.low # <<>> /\ list_uncomplete(t.low)
  <1>1. /\ s.high \in Seq(Chunk) /\ s.low \in Seq(Chunk) /\ h \in Nat /\ l \in Nat
        /\ DOMAIN s.high = 1 .. h /\ DOMAIN s.low = 1 .. l /\ q \in Seq(Chunk)
        /\ Size(s) = h + l /\ Len(q) = h + l
        /\ \A i \in 1 .. (h + l) : q[i] = IF i <= h THEN s.high[i] ELSE s.low[i - h]
    BY QueuedIs
  <1> HIDE DEF h, l, q
  <1>2. k \in Nat /\ k <= h + l
    BY <1>1
  <1>3. /\ b \in Seq(Chunk) /\ Len(b) = h + l - k /\ Good(b, TRUE)
        /\ \A i \in 1 .. (h + l - k) : b[i] = q[k + i]
    <2>1. q \in Seq(Chunk) /\ k \in 0 .. Len(q) /\ Good(q, TRUE)
      BY <1>1, <1>2 DEF ListOK, q
    <2>2. /\ b \in Seq(Chunk) /\ Len(b) = Len(q) - k /\ Good(b, TRUE)
          /\ \A i \in 1 .. (Len(q) - k) : b[i] = q[k + i]
      BY <2>1, GoodParts
    <2>3. Len(q) = h + l
      BY <1>1
    <2> HIDE DEF b
    <2>4. h \in Nat /\ l \in Nat /\ k \in Nat
      BY <1>1, <1>2
    <2>5. Len(b) = h + l - k
      BY <2>2, <2>3, <2>4
    <2>6. Len(q) - k = h + l - k
      BY <2>3, <2>4
    <2> QED BY <2>2, <2>5, <2>6, Zenon
  <1> HIDE DEF b
  <1>4. Written(s, k) = IF raise THEN raise_uncomplete(t) ELSE t
    BY Zenon DEF Written, h, l
  <1>5. CASE k < h
    <2>1. /\ high \in Seq(Chunk) /\ Len(high) = h - k
          /\ \A i \in 1 .. (h - k) : high[i] = s.high[k + i]
      <3>1. k + 1 \in 1 .. (Len(s.high) + 1)
        BY <1>1, <1>2, <1>5 DEF h
      <3>2. high = SubSeq(s.high, k + 1, Len(s.high))
        BY <1>5 DEF h
      <3>3. /\ high \in Seq(Chunk) /\ Len(high) = h - (k + 1) + 1
            /\ \A i \in 1 .. (h - (k + 1) + 1) : high[i] = s.high[(k + 1) + i - 1]
        BY <1>1, <3>1, <3>2, PieceIs DEF h
      <3> HIDE DEF high
      <3> QED BY <1>1, <1>2, <3>3
    <2>2. low = s.low
      BY <1>1, <1>2, <1>5
    <2> HIDE DEF high, low
    <2>3. t.high = high /\ t.low = s.low
      BY <2>1, <2>2, <1>1 DEF SlotRec
    <2> HIDE DEF t
    <2>4. high # <<>>
      BY <1>1, <1>2, <1>5, <2>1
    <2>5. Written(s, k) = t
      BY <1>4, <2>3, <2>4
    <2>6. Queued(t) = b
      <3>1. /\ high \o s.low \in Seq(Chunk) /\ Len(high \o s.low) = h - k + l
            /\ \A i \in 1 .. (h - k + l) :
                 (high \o s.low)[i] = IF i <= h - k THEN high[i] ELSE s.low[i - (h - k)]
        <4>1. /\ high \o s.low \in Seq(Chunk) /\ Len(high \o s.low) = Len(high) + Len(s.low)
              /\ \A i \in 1 .. (Len(high) + Len(s.low)) :
                   (high \o s.low)[i] = IF i <= Len(high) THEN high[i] ELSE s.low[i - Len(high)]
          BY <1>1, <2>1, ConcatProperties
        <4>2. Len(high) = h - k /\ Len(s.low) = l
          BY <2>1 DEF l
        <4> QED BY <4>1, <4>2
      <3>2. \A i \in 1 .. (h - k + l) : (high \o s.low)[i] = b[i]
        <4> SUFFICES ASSUME NEW i \in 1 .. (h - k + l) PROVE (high \o s.low)[i] = b[i]
          OBVIOUS
        <4>1. k + i \in 1 .. (h + l) /\ i \in 1 .. (h + l - k) /\ i \in Nat
          BY <1>1, <1>2
        <4>2. CASE i <= h - k
          <5>1. i \in 1 .. (h - k) /\ k + i <= h
            BY <1>1, <1>2, <4>1, <4>2
          <5>2. (high \o s.low)[i] = s.high[k + i]
            BY <2>1, <3>1, <4>2, <5>1
          <5> QED BY <1>1, <1>3, <4>1, <5>1, <5>2
        <4>3. CASE ~(i <= h - k)
          <5>1. ~(k + i <= h) /\ (k + i) - h = i - (h - k)
            BY <1>1, <1>2, <4>1, <4>3
          <5>2. (high \o s.low)[i] = s.low[i - (h - k)]
            BY <3>1, <4>3
          <5>3. b[i] = s.low[(k + i) - h]
            BY <1>1, <1>3, <4>1, <5>1
          <5> QED BY <5>1, <5>2, <5>3
        <4> QED BY <4>2, <4>3
      <3>3. h - k + l = h + l - k
        BY <1>1, <1>2
      <3>4. high \o s.low = b
        <4> DEFINE x == high \o s.low
        <4>1. x \in Seq(Chunk) /\ Len(x) = Len(b) /\ \A i \in 1 .. Len(x) : x[i] = b[i]
          BY <1>3, <3>1, <3>2, <3>3
        <4> HIDE DEF x
        <4>2. x = b
          BY <1>3, <4>1, SeqSame
        <4> QED BY <4>2 DEF x
      <3> QED BY <2>3, <3>4 DEF Queued
    <2>7. \A i \in DOMAIN high, j \in DOMAIN s.low : high[i].pkt # s.low[j].pkt
      <3>1. \A i \in DOMAIN high : k + i \in DOMAIN s.high /\ high[i] = s.high[k + i]
        BY <1>1, <1>2, <2>1
      <3> QED BY <3>1 DEF ListOK
    <2>8. ListOK(t)
      <3>1. (s.low # <<>> => s.low[1].at = 1) /\ \A j \in DOMAIN s.low : s.low[j].low
        BY DEF ListOK
      <3>2. (t.low # <<>> => t.low[1].at = 1) /\ \A j \in DOMAIN t.low : t.low[j].low
        BY <2>3, <3>1
      <3>3. \A i \in DOMAIN t.high, j \in DOMAIN t.low : t.high[i].pkt # t.low[j].pkt
        BY <2>3, <2>7
      <3>4. Good(Queued(t), TRUE)
        BY <1>3, <2>6
      <3> QED BY <3>2, <3>3, <3>4 DEF ListOK
    <2> QED BY <1>1, <2>5, <2>6, <2>8 DEF b, q
  <1>6. CASE ~(k < h)
    <2>1. /\ low \in Seq(Chunk) /\ Len(low) = l - (k - h)
          /\ \A i \in 1 .. (l - (k - h)) : low[i] = s.low[(k - h) + i]
      <3>1. CASE k > h
        <4>1. k - h + 1 \in 1 .. (Len(s.low) + 1)
          BY <1>1, <1>2, <1>6, <3>1 DEF l
        <4>2. low = SubSeq(s.low, k - h + 1, Len(s.low))
          BY <3>1 DEF l
        <4>3. /\ low \in Seq(Chunk) /\ Len(low) = l - (k - h + 1) + 1
              /\ \A i \in 1 .. (l - (k - h + 1) + 1) : low[i] = s.low[(k - h + 1) + i - 1]
          BY <1>1, <4>1, <4>2, PieceIs DEF l
        <4> HIDE DEF low
        <4> QED BY <1>1, <1>2, <4>3
      <3>2. CASE ~(k > h)
        <4>1. k = h /\ low = s.low
          BY <1>1, <1>2, <1>6, <3>2
        <4>2. l - (k - h) = l /\ \A i \in Int : (k - h) + i = i
          BY <1>1, <4>1
        <4> QED BY <1>1, <4>1, <4>2 DEF l
      <3> QED BY <3>1, <3>2
    <2>2. high = <<>>
      BY <1>6
    <2> HIDE DEF high, low
    <2>3. t.high = <<>> /\ t.low = low /\ t \in SlotRec
      <3>1. s.wb_size - k \in Nat
        <4>1. s.wb_size \in Nat /\ Size(s) <= s.wb_size
          BY SlotFields DEF Counted
        <4> QED BY <1>1, <1>2, <4>1
      <3>2. <<>> \in Seq(Chunk)
        OBVIOUS
      <3> QED BY <2>1, <2>2, <3>1, <3>2 DEF SlotRec
    <2> HIDE DEF t
    <2>4. low = b
      <3>1. Len(low) = Len(b)
        BY <1>1, <1>2, <1>3, <2>1
      <3>2. ASSUME NEW i \in 1 .. Len(low) PROVE low[i] = b[i]
        <4>1. /\ i \in 1 .. (l - (k - h)) /\ k + i \in 1 .. (h + l) /\ i \in 1 .. (h + l - k)
              /\ ~(k + i <= h) /\ (k + i) - h = (k - h) + i
          BY <1>1, <1>2, <1>6, <2>1
        <4> QED BY <1>1, <1>3, <2>1, <4>1
      <3> QED BY <1>3, <2>1, <3>1, <3>2, SeqSame
    <2>5. Queued(t) = b
      BY <1>3, <2>3, <2>4, ConcatEmptySeq DEF Queued
    <2>6. \A j \in DOMAIN low : low[j].low
      <3>1. \A j \in DOMAIN low : (k - h) + j \in DOMAIN s.low /\ low[j] = s.low[(k - h) + j]
        BY <1>1, <1>2, <1>6, <2>1
      <3> QED BY <3>1 DEF ListOK
    <2>7. CASE raise
      <3>1. t.low # <<>>
        BY <2>7 DEF list_uncomplete
      <3>2. Queued(raise_uncomplete(t)) = t.low /\ ListOK(raise_uncomplete(t))
        BY <1>3, <2>3, <2>4, <2>6, <3>1, RaiseLists
      <3> QED BY <1>1, <1>4, <2>3, <2>4, <2>7, <3>2 DEF b, q
    <2>8. CASE ~raise
      <3>1. ASSUME low # <<>> PROVE low[1].at = 1
        <4>1. s.low # <<>>
          <5>1. Len(low) # 0
            BY <2>1, <3>1
          <5>2. l # 0
            BY <1>1, <1>2, <1>6, <2>1, <5>1
          <5> QED BY <5>2 DEF l
        <4>2. ~list_uncomplete(low)
          BY <2>3, <2>8, <4>1
        <4> QED BY <2>1, <3>1, <4>2 DEF list_uncomplete
      <3>2. ListOK(t)
        <4>1. DOMAIN t.high = {}
          BY <2>3
        <4> QED BY <1>3, <2>3, <2>5, <2>6, <3>1, <4>1 DEF ListOK
      <3> QED BY <1>1, <1>4, <2>5, <2>8, <3>2 DEF b, q
    <2> QED BY <2>7, <2>8
  <1> QED BY <1>5, <1>6

\* Where the chunks of two joined streams are.
LEMMA JoinIs ==
  ASSUME NEW x \in Seq(Chunk), NEW y \in Seq(Chunk)
  PROVE  /\ x \o y \in Seq(Chunk) /\ Len(x) \in Nat /\ Len(y) \in Nat
         /\ Len(x \o y) = Len(x) + Len(y)
         /\ DOMAIN x = 1 .. Len(x) /\ DOMAIN y = 1 .. Len(y)
         /\ DOMAIN (x \o y) = 1 .. (Len(x) + Len(y))
         /\ \A i \in DOMAIN x : i \in DOMAIN (x \o y) /\ (x \o y)[i] = x[i]
         /\ \A j \in DOMAIN y : Len(x) + j \in DOMAIN (x \o y) /\ (x \o y)[Len(x) + j] = y[j]
         /\ \A i \in DOMAIN (x \o y) :
              i \in DOMAIN x \/ (i - Len(x) \in DOMAIN y /\ Len(x) + (i - Len(x)) = i)
  <1> DEFINE n == Len(x)
             m == Len(y)
             z == x \o y
  <1>1. /\ n \in Nat /\ m \in Nat /\ DOMAIN x = 1 .. n /\ DOMAIN y = 1 .. m
        /\ z \in Seq(Chunk) /\ Len(z) = n + m
        /\ \A i \in 1 .. (n + m) : z[i] = IF i <= n THEN x[i] ELSE y[i - n]
    BY ConcatProperties
  <1>2. DOMAIN z = 1 .. (n + m)
    BY <1>1
  <1> HIDE DEF n, m, z
  <1>3. \A i \in DOMAIN x : i \in DOMAIN z /\ z[i] = x[i]
    BY <1>1, <1>2
  <1>4. ASSUME NEW j \in DOMAIN y PROVE n + j \in DOMAIN z /\ z[n + j] = y[j]
    <2>1. n + j \in 1 .. (n + m) /\ ~(n + j <= n) /\ (n + j) - n = j
      BY <1>1
    <2> QED BY <1>1, <1>2, <2>1
  <1>5. \A i \in DOMAIN z : i \in DOMAIN x \/ (i - n \in DOMAIN y /\ n + (i - n) = i)
    BY <1>1, <1>2
  <1> QED BY <1>1, <1>2, <1>3, <1>4, <1>5 DEF n, m, z

\* Two streams that may follow one another.
Follows(x, y, rest) ==
  /\ \A i \in DOMAIN x, j \in DOMAIN y : Fine(x[i], y[j])
  /\ y # <<>> /\ y[1].at > 1 => IF x = <<>> THEN rest ELSE x[Len(x)] = Pred(y[1])

\* Joined streams are good if each is and the second may follow the first.
LEMMA GoodJoin ==
  ASSUME NEW x \in Seq(Chunk), NEW y \in Seq(Chunk), NEW rest,
         Good(x, rest), Good(y, TRUE), Follows(x, y, rest)
  PROVE  Good(x \o y, rest)
  <1> DEFINE n == Len(x)
             z == x \o y
  <1>1. /\ z \in Seq(Chunk) /\ n \in Nat /\ Len(y) \in Nat
        /\ DOMAIN x = 1 .. n /\ DOMAIN y = 1 .. Len(y)
        /\ DOMAIN z = 1 .. (n + Len(y))
        /\ \A i \in DOMAIN x : i \in DOMAIN z /\ z[i] = x[i]
        /\ \A j \in DOMAIN y : n + j \in DOMAIN z /\ z[n + j] = y[j]
        /\ \A i \in DOMAIN z : i \in DOMAIN x \/ (i - n \in DOMAIN y /\ n + (i - n) = i)
    BY JoinIs
  <1> HIDE DEF z, n
  <1>2. ASSUME NEW i \in DOMAIN z, NEW j \in DOMAIN z, i < j PROVE Fine(z[i], z[j])
    <2>1. CASE j \in DOMAIN x
      <3>1. i \in DOMAIN x
        BY <1>1, <1>2, <2>1
      <3> QED BY <1>1, <1>2, <2>1, <3>1 DEF Good
    <2>2. CASE j - n \in DOMAIN y /\ n + (j - n) = j
      <3>1. z[j] = y[j - n]
        BY <1>1, <2>2
      <3>2. CASE i \in DOMAIN x
        BY <1>1, <2>2, <3>1, <3>2 DEF Follows
      <3>3. CASE i - n \in DOMAIN y /\ n + (i - n) = i
        <4>1. z[i] = y[i - n] /\ i - n < j - n
          BY <1>1, <1>2, <3>3
        <4> QED BY <2>2, <3>1, <3>3, <4>1 DEF Good
      <3> QED BY <1>1, <3>2, <3>3
    <2> QED BY <1>1, <2>1, <2>2
  <1>3. ASSUME NEW k \in DOMAIN z, z[k].at > 1
        PROVE  IF k = 1 THEN rest ELSE z[k - 1] = Pred(z[k])
    <2>1. CASE k \in DOMAIN x
      <3>1. z[k] = x[k] /\ (IF k = 1 THEN rest ELSE x[k - 1] = Pred(x[k]))
        BY <1>1, <1>3, <2>1 DEF Good
      <3>2. k # 1 => k - 1 \in DOMAIN x
        BY <1>1, <2>1
      <3> QED BY <1>1, <3>1, <3>2
    <2>2. CASE k - n \in DOMAIN y /\ n + (k - n) = k
      <3>1. z[k] = y[k - n] /\ y # <<>>
        BY <1>1, <2>2
      <3>2. CASE k - n = 1
        <4>1. IF x = <<>> THEN rest ELSE x[n] = Pred(y[1])
          BY <1>3, <3>1, <3>2 DEF Follows, n
        <4>2. CASE x = <<>>
          <5>1. n = 0 /\ k = 1
            BY <1>1, <2>2, <3>2, <4>2 DEF n
          <5> QED BY <4>1, <4>2, <5>1
        <4>3. CASE x # <<>>
          <5>1. n # 0
            BY <4>3 DEF n
          <5>2. n \in DOMAIN x /\ k # 1 /\ k - 1 = n
            BY <1>1, <2>2, <3>2, <5>1
          <5> QED BY <1>1, <3>1, <3>2, <4>1, <4>3, <5>2
        <4> QED BY <4>2, <4>3
      <3>3. CASE k - n # 1
        <4>1. (k - n) - 1 \in DOMAIN y /\ n + ((k - n) - 1) = k - 1 /\ k # 1
          BY <1>1, <2>2, <3>3
        <4>2. y[(k - n) - 1] = Pred(y[k - n])
          BY <1>3, <2>2, <3>1, <3>3 DEF Good
        <4>3. z[k - 1] = y[(k - n) - 1]
          BY <1>1, <4>1
        <4> QED BY <3>1, <4>1, <4>2, <4>3
      <3> QED BY <3>2, <3>3
    <2> QED BY <1>1, <2>1, <2>2
  <1>4. Good(z, rest)
    BY <1>2, <1>3 DEF Good
  <1> QED BY <1>4 DEF z

\* And only if.
LEMMA GoodSplit ==
  ASSUME NEW x \in Seq(Chunk), NEW y \in Seq(Chunk), NEW rest, Good(x \o y, rest)
  PROVE  Good(x, rest) /\ Good(y, TRUE) /\ Follows(x, y, rest)
  <1> DEFINE n == Len(x)
             z == x \o y
  <1>1. /\ z \in Seq(Chunk) /\ n \in Nat /\ Len(y) \in Nat
        /\ DOMAIN x = 1 .. n /\ DOMAIN y = 1 .. Len(y)
        /\ \A i \in DOMAIN x : i \in DOMAIN z /\ z[i] = x[i]
        /\ \A j \in DOMAIN y : n + j \in DOMAIN z /\ z[n + j] = y[j]
    BY JoinIs
  <1>2. Good(z, rest)
    OBVIOUS
  <1> HIDE DEF z, n
  <1>3. Good(x, rest)
    <2>1. \A k \in DOMAIN x : k # 1 => k - 1 \in DOMAIN x
      BY <1>1
    <2> QED BY <1>1, <1>2, <2>1 DEF Good
  <1>4. \A j \in DOMAIN y : j \in Nat \ {0} /\ n + j \in DOMAIN z /\ z[n + j] = y[j]
    BY <1>1
  <1>5. Good(y, TRUE)
    <2>1. ASSUME NEW i \in DOMAIN y, NEW j \in DOMAIN y, i < j PROVE Fine(y[i], y[j])
      <3>1. n + i < n + j
        BY <1>1, <1>4, <2>1
      <3> QED BY <1>2, <1>4, <3>1 DEF Good
    <2>2. ASSUME NEW j \in DOMAIN y, y[j].at > 1, j # 1 PROVE y[j - 1] = Pred(y[j])
      <3>1. j - 1 \in DOMAIN y /\ (n + j) - 1 = n + (j - 1) /\ n + j # 1
        BY <1>1, <2>2
      <3>2. z[(n + j) - 1] = Pred(z[n + j])
        BY <1>2, <1>4, <2>2, <3>1 DEF Good
      <3> QED BY <1>4, <3>1, <3>2
    <2> QED BY <2>1, <2>2 DEF Good
  <1>6. Follows(x, y, rest)
    <2>1. ASSUME NEW i \in DOMAIN x, NEW j \in DOMAIN y PROVE Fine(x[i], y[j])
      <3>1. i < n + j
        BY <1>1
      <3> QED BY <1>1, <1>2, <3>1 DEF Good
    <2>2. ASSUME y # <<>>, y[1].at > 1 PROVE IF x = <<>> THEN rest ELSE x[n] = Pred(y[1])
      <3>1. 1 \in DOMAIN y
        BY <2>2
      <3>2. n + 1 \in DOMAIN z /\ z[n + 1] = y[1]
        BY <1>4, <3>1
      <3>3. IF n + 1 = 1 THEN rest ELSE z[(n + 1) - 1] = Pred(z[n + 1])
        BY <1>2, <2>2, <3>2 DEF Good
      <3>4. CASE x = <<>>
        <4>1. n = 0
          BY <3>4 DEF n
        <4> QED BY <3>3, <3>4, <4>1
      <3>5. CASE x # <<>>
        <4>1. n # 0
          BY <3>5 DEF n
        <4>2. n \in DOMAIN x /\ (n + 1) - 1 = n /\ n + 1 # 1
          BY <1>1, <4>1
        <4> QED BY <1>1, <3>2, <3>3, <3>5, <4>2
      <3> QED BY <3>4, <3>5
    <2> QED BY <2>1, <2>2 DEF Follows, n
  <1> QED BY <1>3, <1>5, <1>6

\* c holds chunks of packet p, of priority low.
Of(c, p, low) == \A i \in DOMAIN c : c[i].pkt = p /\ c[i].low = low

\* Everything in l was sent before packet p.
Older(l, p) == \A i \in DOMAIN l : l[i].pkt < p

\* A new packet goes to the end, or a packet of high priority before those of
\* low priority.
LEMMA GoodInsert ==
  ASSUME NEW x \in Seq(Chunk), NEW y \in Seq(Chunk), NEW c \in Seq(Chunk), NEW rest,
         NEW p \in Nat, NEW low \in BOOLEAN, Good(x \o y, rest), Good(c, TRUE), Of(c, p, low),
         c # <<>> => c[1].at = 1, Older(x, p), Older(y, p),
         y # <<>> => ~low /\ y[1].at = 1 /\ \A j \in DOMAIN y : y[j].low
  PROVE  Good((x \o c) \o y, rest) /\ (x \o c) \o y \in Seq(Chunk)
  <1> DEFINE z == x \o c
  <1>1. Good(x, rest) /\ Good(y, TRUE) /\ Follows(x, y, rest)
    BY GoodSplit
  <1>2. Follows(x, c, rest)
    <2>1. ASSUME NEW i \in DOMAIN x, NEW j \in DOMAIN c PROVE Fine(x[i], c[j])
      <3>1. x[i].pkt \in Nat /\ x[i].pkt < p /\ c[j].pkt = p
        BY ChunkFields DEF Older, Of
      <3> QED BY <3>1 DEF Fine
    <2>2. c # <<>> => ~(c[1].at > 1)
      OBVIOUS
    <2> QED BY <2>1, <2>2 DEF Follows
  <1>3. z \in Seq(Chunk) /\ Good(z, rest)
    <2>1. z \in Seq(Chunk)
      BY JoinIs
    <2>2. Good(x \o c, rest)
      BY <1>1, <1>2, GoodJoin
    <2> QED BY <2>1, <2>2
  <1>4. ASSUME NEW i \in DOMAIN z, NEW j \in DOMAIN y PROVE Fine(z[i], y[j])
    <2>1. i \in DOMAIN x \/ (i - Len(x) \in DOMAIN c /\ Len(x) + (i - Len(x)) = i)
      BY JoinIs
    <2>2. CASE i \in DOMAIN x
      <3>1. z[i] = x[i]
        BY <2>2, JoinIs
      <3> QED BY <1>1, <2>2, <3>1 DEF Follows
    <2>3. CASE i - Len(x) \in DOMAIN c /\ Len(x) + (i - Len(x)) = i
      <3>1. z[i] = c[i - Len(x)]
        <4>1. z[Len(x) + (i - Len(x))] = c[i - Len(x)]
          BY <2>3, JoinIs, SMTT(30)
        <4> QED BY <2>3, <4>1
      <3>2. y # <<>>
        OBVIOUS
      <3>3. ~z[i].low /\ y[j].low
        BY <2>3, <3>1, <3>2 DEF Of
      <3> QED BY <3>3 DEF Fine
    <2> QED BY <2>1, <2>2, <2>3
  <1> HIDE DEF z
  <1>5. Follows(z, y, rest)
    <2>1. y # <<>> => ~(y[1].at > 1)
      OBVIOUS
    <2> QED BY <1>4, <2>1 DEF Follows
  <1>6. Good(z \o y, rest)
    BY <1>1, <1>3, <1>5, GoodJoin
  <1>7. z \o y \in Seq(Chunk)
    BY <1>3, JoinIs
  <1> QED BY <1>6, <1>7 DEF z

\* The chunks of a packet that are left when its first k are gone.
LEMMA PacketIs ==
  ASSUME NEW p \in 1 .. MaxSends, NEW low \in BOOLEAN, NEW fits \in BOOLEAN, NEW k \in 0 .. PktLen
  PROVE  LET c == Chunks(p, low, fits, k) IN
         /\ c \in Seq(Chunk) /\ Len(c) = PktLen - k /\ Good(c, TRUE) /\ Of(c, p, low)
         /\ \A i \in DOMAIN c : c[i].at = k + i
         /\ c = SubSeq(Chunks(p, low, fits, 0), k + 1, PktLen)
  <1> DEFINE a == Chunks(p, low, fits, 0)
             c == Chunks(p, low, fits, k)
             b == SubSeq(a, k + 1, PktLen)
  <1>0. PktLen \in Nat \ {0} /\ k \in Nat /\ k <= PktLen /\ 0 \in 0 .. PktLen
    BY Bounds
  <1>1. /\ c \in Seq(Chunk) /\ Len(c) = PktLen - k /\ a \in Seq(Chunk) /\ Len(a) = PktLen - 0
    BY <1>0, ChunksType, ZenonT(30)
  <1>2. /\ DOMAIN c = 1 .. (PktLen - k) /\ DOMAIN a = 1 .. PktLen
        /\ \A i \in 1 .. (PktLen - k) :
             c[i] = [pkt |-> p, at |-> k + i, low |-> low, fits |-> fits]
        /\ \A i \in 1 .. PktLen : a[i] = [pkt |-> p, at |-> i, low |-> low, fits |-> fits]
    BY <1>0 DEF Chunks
  <1> HIDE DEF a, c
  <1>3. Of(c, p, low) /\ \A i \in DOMAIN c : c[i].at = k + i
    BY <1>2 DEF Of
  <1>4. Good(c, TRUE)
    <2>1. \A i, j \in DOMAIN c : i < j => Fine(c[i], c[j])
      <3>1. ~(p > p)
        OBVIOUS
      <3> QED BY <1>2, <3>1 DEF Fine
    <2>2. ASSUME NEW i \in DOMAIN c, i # 1 PROVE c[i - 1] = Pred(c[i])
      <3>1. i - 1 \in 1 .. (PktLen - k) /\ k + (i - 1) = (k + i) - 1
        BY <1>0, <1>2, <2>2
      <3>2. c[i - 1] = [pkt |-> p, at |-> (k + i) - 1, low |-> low, fits |-> fits]
        BY <1>2, <3>1
      <3>3. c[i] = [pkt |-> p, at |-> k + i, low |-> low, fits |-> fits]
        BY <1>2
      <3> QED BY <3>2, <3>3 DEF Pred
    <2> QED BY <2>1, <2>2 DEF Good
  <1>5. /\ b \in Seq(Chunk) /\ Len(b) = PktLen - k
        /\ \A i \in 1 .. (PktLen - k) : b[i] = a[k + i]
    <2>1. Len(a) = PktLen /\ k + 1 \in 1 .. (Len(a) + 1)
      BY <1>0, <1>1
    <2>2. /\ b \in Seq(Chunk) /\ Len(b) = PktLen - (k + 1) + 1
          /\ \A i \in 1 .. (PktLen - (k + 1) + 1) : b[i] = a[(k + 1) + i - 1]
      BY <1>1, <2>1, PieceIs
    <2> HIDE DEF b
    <2> QED BY <1>0, <2>2
  <1> HIDE DEF b
  <1>6. \A i \in 1 .. Len(c) : c[i] = b[i]
    <2> SUFFICES ASSUME NEW i \in 1 .. (PktLen - k) PROVE c[i] = b[i]
      BY <1>1
    <2>1. k + i \in 1 .. PktLen
      BY <1>0
    <2> QED BY <1>2, <1>5, <2>1
  <1>7. c = b
    BY <1>1, <1>5, <1>6, SeqSame
  <1> QED BY <1>1, <1>3, <1>4, <1>7 DEF a, b, c

\* Streams are joined in any order.
LEMMA JoinAgain ==
  ASSUME NEW x \in Seq(Chunk), NEW y \in Seq(Chunk), NEW z \in Seq(Chunk)
  PROVE  x \o (y \o z) = (x \o y) \o z
  <1>1. (x \o y) \o z = x \o (y \o z)
    BY ConcatAssociative
  <1> QED BY <1>1

\* The packets of two joined lists.
LEMMA PacketsJoin ==
  ASSUME NEW x \in Seq(Chunk), NEW y \in Seq(Chunk)
  PROVE  Packets(x \o y) = Packets(x) \cup Packets(y)
  <1> DEFINE z == x \o y
             n == Len(x)
  <1>1. /\ \A i \in DOMAIN x : i \in DOMAIN z /\ z[i] = x[i]
        /\ \A j \in DOMAIN y : n + j \in DOMAIN z /\ z[n + j] = y[j]
        /\ \A i \in DOMAIN z : i \in DOMAIN x \/ (i - n \in DOMAIN y /\ n + (i - n) = i)
    BY JoinIs
  <1> HIDE DEF z, n
  <1>2. Packets(x) \subseteq Packets(z)
    BY <1>1 DEF Packets
  <1>3. Packets(y) \subseteq Packets(z)
    BY <1>1 DEF Packets
  <1>4. ASSUME NEW i \in DOMAIN z PROVE z[i].pkt \in Packets(x) \cup Packets(y)
    <2>1. CASE i \in DOMAIN x
      BY <1>1, <2>1 DEF Packets
    <2>2. CASE i - n \in DOMAIN y /\ n + (i - n) = i
      <3>1. z[i] = y[i - n]
        BY <1>1, <2>2
      <3> QED BY <2>2, <3>1 DEF Packets
    <2> QED BY <1>1, <2>1, <2>2
  <1>5. Packets(z) \subseteq Packets(x) \cup Packets(y)
    BY <1>4 DEF Packets
  <1> QED BY <1>2, <1>3, <1>5 DEF z

\* The packets of a slot are those of its queue.
LEMMA HeldIs ==
  ASSUME NEW s \in SlotRec
  PROVE  Packets(Queued(s)) = Packets(s.high) \cup Packets(s.low)
  BY SlotFields, PacketsJoin DEF Queued

-----------------------------------------------------------------------------
(* What a step does to the lists, the wire and the freed packets           *)

\* The step changes the lists of slot n only, in order; P came from the pipe.
Moves(n, P) ==
  /\ \A m \in Table : m # n => slot'[m] = slot[m]
  /\ \A i \in Ids : HASH_ID(i) # n => wire'[i] = wire[i]
  /\ ListOK(slot'[n])
  /\ slot'[n].fd # Nil =>
       HASH_ID(slot'[n].fd) = n /\ Good(wire'[slot'[n].fd] \o Queued(slot'[n]), FALSE)
  /\ \A i \in Ids : Good(wire'[i], FALSE)
  /\ Held(n)' \subseteq Held(n) \cup P
  /\ freed' \subseteq freed \cup Held(n) \cup P
  /\ \A i \in Ids : Packets(wire'[i]) \subseteq Packets(wire[i]) \cup Held(n) \cup P
  /\ freed' \cap Held(n)' = {}

\* A step on the lists of one slot keeps the invariant.
LEMMA MovesDone ==
  ASSUME TypeInv, OldInv, ListInv, OnceInv, NEW n \in Table, NEW P, Moves(n, P),
         \A x : Old(x) => Old(x)' /\ x \notin P, \A x \in P : Old(x)'
  PROVE  OldInv' /\ ListInv' /\ OnceInv'
  <1>1. \A m \in Table : m # n => slot'[m] = slot[m] /\ Held(m)' = Held(m)
    BY DEF Moves, Held
  <1>2. /\ Held(n)' \subseteq Held(n) \cup P /\ freed' \subseteq freed \cup Held(n) \cup P
        /\ \A i \in Ids : Packets(wire'[i]) \subseteq Packets(wire[i]) \cup Held(n) \cup P
        /\ freed' \cap Held(n)' = {}
    BY DEF Moves
  <1>3. /\ \A x \in freed : Old(x)
        /\ \A m \in Table : \A x \in Held(m) : Old(x)
        /\ \A i \in Ids : \A x \in Packets(wire[i]) : Old(x)
    BY DEF OldInv
  <1>4. OldInv'
    <2>1. \A x \in freed' : Old(x)'
      BY <1>2, <1>3
    <2>2. \A m \in Table : \A x \in Held(m)' : Old(x)'
      BY <1>1, <1>2, <1>3
    <2>3. \A i \in Ids : \A x \in Packets(wire'[i]) : Old(x)'
      BY <1>2, <1>3
    <2> QED BY <2>1, <2>2, <2>3 DEF OldInv
  <1>5. ListInv'
    <2>1. \A m \in Table : ListOK(slot'[m])
      BY <1>1 DEF Moves, ListInv
    <2>2. ASSUME NEW m \in Table, slot'[m].fd # Nil
          PROVE  HASH_ID(slot'[m].fd) = m /\ Good(wire'[slot'[m].fd] \o Queued(slot'[m]), FALSE)
      <3>1. CASE m = n
        BY <2>2, <3>1 DEF Moves
      <3>2. CASE m # n
        <4>1. slot'[m] = slot[m]
          BY <1>1, <3>2
        <4>2. HASH_ID(slot[m].fd) = m /\ Good(wire[slot[m].fd] \o Queued(slot[m]), FALSE)
          BY <2>2, <4>1 DEF ListInv
        <4>3. wire'[slot[m].fd] = wire[slot[m].fd]
          <5>1. slot[m].fd \in Ids
            BY <2>2, <4>1, SlotFields DEF TypeInv, SlotType
          <5> QED BY <3>2, <4>2, <5>1 DEF Moves
        <4> QED BY <4>1, <4>2, <4>3
      <3> QED BY <3>1, <3>2
    <2>3. \A i \in Ids : Good(wire'[i], FALSE)
      BY DEF Moves
    <2> QED BY <2>1, <2>2, <2>3 DEF ListInv
  <1>6. OnceInv'
    <2>1. \A m \in Table : Held(m) \cap freed = {} /\ Held(m) \cap P = {}
      BY <1>3 DEF OnceInv
    <2>2. \A m, k \in Table : m # k => Held(m) \cap Held(k) = {}
      BY DEF OnceInv
    <2>3. \A m \in Table : Held(m)' \cap freed' = {}
      BY <1>1, <1>2, <2>1, <2>2
    <2>4. \A m, k \in Table : m # k => Held(m)' \cap Held(k)' = {}
      BY <1>1, <1>2, <2>1, <2>2
    <2> QED BY <2>3, <2>4 DEF OnceInv
  <1> QED BY <1>4, <1>5, <1>6

\* Chunks go to the wire of slot n, which keeps its descriptor.
LEMMA StreamMoves ==
  ASSUME TypeInv, ListInv, HistType', SlotType', NEW n \in Table, NEW P, NEW out \in Seq(Chunk),
         \A m \in Table : m # n => slot'[m] = slot[m],
         \A i \in Ids : wire'[i] = IF i = slot[n].fd THEN wire[i] \o out ELSE wire[i],
         slot'[n].fd = slot[n].fd, ListOK(slot'[n]),
         slot[n].fd \in Ids => Good((wire[slot[n].fd] \o out) \o Queued(slot'[n]), FALSE),
         Packets(out) \subseteq Held(n) \cup P, Held(n)' \subseteq Held(n) \cup P,
         freed' \subseteq freed \cup Held(n) \cup P, freed' \cap Held(n)' = {}
  PROVE  Moves(n, P)
  <1> DEFINE f == slot[n].fd
             q == Queued(slot'[n])
  <1>1. f \in Ids \cup {Nil} /\ wire \in [Ids -> Seq(Chunk)] /\ q \in Seq(Chunk)
    <2>1. slot[n] \in SlotRec /\ slot'[n] \in SlotRec
      BY DEF TypeInv, SlotType
    <2> QED BY <2>1, SlotFields, QueuedType DEF TypeInv, HistType
  <1>2. f # Nil => f \in Ids /\ HASH_ID(f) = n
    BY <1>1 DEF ListInv
  <1>3. /\ \A i \in Ids : wire'[i] = IF i = f THEN wire[i] \o out ELSE wire[i]
        /\ f \in Ids => Good((wire[f] \o out) \o q, FALSE)
        /\ slot'[n].fd = f
    OBVIOUS
  <1> HIDE DEF f, q
  <1>4. Nil \notin Ids
    BY DEF Nil, Ids
  <1>5. \A i \in Ids : HASH_ID(i) # n => wire'[i] = wire[i]
    BY <1>2, <1>3, <1>4
  <1>6. f # Nil => HASH_ID(f) = n /\ Good(wire'[f] \o q, FALSE)
    BY <1>2, <1>3
  <1>7. ASSUME NEW i \in Ids
        PROVE  Good(wire'[i], FALSE) /\ Packets(wire'[i]) \subseteq Packets(wire[i]) \cup Held(n) \cup P
    <2>1. wire[i] \in Seq(Chunk) /\ Good(wire[i], FALSE) /\ wire[i] \o out \in Seq(Chunk)
      BY <1>1, JoinIs DEF ListInv
    <2>2. CASE i = f
      <3>1. Good((wire[i] \o out) \o q, FALSE) /\ wire'[i] = wire[i] \o out
        BY <1>3, <2>2
      <3>2. Good(wire[i] \o out, FALSE)
        BY <1>1, <2>1, <3>1, GoodSplit
      <3> QED BY <2>1, <3>1, <3>2, PacketsJoin, ZenonT(30)
    <2>3. CASE i # f
      BY <1>3, <2>1, <2>3
    <2> QED BY <2>2, <2>3
  <1> QED BY <1>3, <1>5, <1>6, <1>7 DEF Moves, f, q

\* Only the lists of a slot matter.
LEMMA SameLists ==
  ASSUME NEW s, NEW t, t.high = s.high, t.low = s.low, ListOK(s)
  PROVE  ListOK(t) /\ Queued(t) = Queued(s)
  <1>1. Queued(t) = Queued(s)
    BY DEF Queued
  <1>2. /\ Good(Queued(s), TRUE)
        /\ s.low # <<>> => s.low[1].at = 1
        /\ \A j \in DOMAIN s.low : s.low[j].low
        /\ \A i \in DOMAIN s.high, j \in DOMAIN s.low : s.high[i].pkt # s.low[j].pkt
    BY DEF ListOK
  <1>3. /\ t.low # <<>> => t.low[1].at = 1
        /\ \A j \in DOMAIN t.low : t.low[j].low
        /\ \A i \in DOMAIN t.high, j \in DOMAIN t.low : t.high[i].pkt # t.low[j].pkt
    BY <1>2
  <1>4. Good(Queued(t), TRUE)
    BY <1>1, <1>2
  <1> QED BY <1>1, <1>3, <1>4 DEF ListOK

\* The lists stay as they are; the descriptor stays, goes, or is a new one of
\* an empty slot.
LEMMA QuietMoves ==
  ASSUME TypeInv, ListInv, OnceInv, NEW n \in Table, UNCHANGED <<freed, wire>>,
         \A m \in Table : m # n => slot'[m] = slot[m],
         slot'[n].high = slot[n].high, slot'[n].low = slot[n].low,
         \/ slot'[n].fd \in {slot[n].fd, Nil}
         \/ slot'[n].fd \in Ids /\ HASH_ID(slot'[n].fd) = n /\ send_buffer_empty(slot[n])
  PROVE  Moves(n, {})
  <1>1. Queued(slot'[n]) = Queued(slot[n]) /\ Held(n)' = Held(n)
    BY DEF Queued, Held
  <1>2. ListOK(slot'[n])
    <2>1. ListOK(slot[n])
      BY DEF ListInv
    <2> QED BY <2>1, SameLists
  <1>3. ASSUME slot'[n].fd # Nil
        PROVE  HASH_ID(slot'[n].fd) = n /\ Good(wire'[slot'[n].fd] \o Queued(slot'[n]), FALSE)
    <2>1. CASE slot'[n].fd = slot[n].fd
      BY <1>1, <1>3, <2>1 DEF ListInv
    <2>2. CASE slot'[n].fd \in Ids /\ HASH_ID(slot'[n].fd) = n /\ send_buffer_empty(slot[n])
      <3> DEFINE g == slot'[n].fd
      <3>1. wire[g] \in Seq(Chunk) /\ Good(wire[g], FALSE)
        BY <2>2 DEF ListInv, TypeInv, HistType
      <3>2. Queued(slot[n]) = <<>>
        BY <2>2 DEF Queued, send_buffer_empty
      <3>3. wire[g] \o <<>> = wire[g]
        BY <3>1, ConcatEmptySeq
      <3> QED BY <1>1, <2>2, <3>1, <3>2, <3>3
    <2> QED BY <1>3, <2>1, <2>2
  <1>4. \A i \in Ids : Good(wire'[i], FALSE)
    BY DEF ListInv
  <1>5. freed' \cap Held(n)' = {}
    BY <1>1 DEF OnceInv
  <1> QED BY <1>1, <1>2, <1>3, <1>4, <1>5 DEF Moves

\* What force_close leaves of the slot, and what it frees and wrote.
LEMMA ForceCloseLists ==
  ASSUME TypeInv, NEW n \in Table, NEW out \in Seq(Chunk), force_close(n, slot[n], out)
  PROVE  LET s == slot[n] IN
         /\ slot'[n].fd = s.fd /\ slot'[n].high = <<>> /\ slot'[n].low = <<>>
         /\ freed' = freed \cup Held(n) /\ failed' = failed
         /\ \A i \in Ids : wire'[i] = IF i = s.fd THEN wire[i] \o out ELSE wire[i]
  <1> DEFINE s == slot[n]
             t == [s EXCEPT !.type = "INVALID", !.high = <<>>, !.low = <<>>]
  <1>1. s \in SlotRec /\ slot \in [Table -> SlotRec] /\ wire \in [Ids -> Seq(Chunk)]
    BY DEF TypeInv, SlotType, HistType
  <1>2. /\ slot' = [slot EXCEPT ![n] = t] /\ failed' = failed
        /\ freed' = freed \cup Packets(s.high) \cup Packets(s.low)
        /\ wire' = IF out = <<>> THEN wire ELSE [wire EXCEPT ![s.fd] = @ \o out]
    BY Zenon DEF force_close
  <1>3. <<>> \in Seq(Chunk) /\ "INVALID" \in Types
    BY DEF Types
  <1>4. t \in SlotRec /\ t.fd = s.fd /\ t.high = <<>> /\ t.low = <<>>
    BY <1>1, <1>3 DEF SlotRec
  <1> HIDE DEF t
  <1>5. slot'[n] = t
    BY <1>1, <1>2
  <1>6. freed' = freed \cup Held(n)
    BY <1>2 DEF Held
  <1>7. \A i \in Ids : wire'[i] = IF i = s.fd THEN wire[i] \o out ELSE wire[i]
    <2> DEFINE f == s.fd
    <2>1. wire' = IF out = <<>> THEN wire ELSE [wire EXCEPT ![f] = @ \o out]
      BY <1>2
    <2> HIDE DEF f
    <2>2. \A i \in Ids : wire[i] \in Seq(Chunk) /\ wire[i] \o <<>> = wire[i]
      BY <1>1, ConcatEmptySeq
    <2>3. \A i \in Ids : wire'[i] = IF i = f THEN wire[i] \o out ELSE wire[i]
      BY <1>1, <2>1, <2>2
    <2> QED BY <2>3 DEF f
  <1> QED BY <1>2, <1>4, <1>5, <1>6, <1>7

\* An assertion stops the program; no list has changed.
LEMMA AbortMoves ==
  ASSUME TypeInv, ListInv, OnceInv, NEW a, Abort(a), NEW n \in Table
  PROVE  Moves(n, {}) /\ failed' = a
  <1>1. UNCHANGED <<slot, freed, wire>> /\ failed' = a
    BY DEF Abort, histVars
  <1> QED BY <1>1, QuietMoves

\* force_close, called on any slot, after the beginning of its queue was written.
LEMMA CloseMoves ==
  ASSUME TypeInv, ListInv, OnceInv, NEW n \in Table, NEW out \in Seq(Chunk), NEW b \in Seq(Chunk),
         Queued(slot[n]) = out \o b, NEW t \in MsgTypes, NEW id \in Ids \cup {Nil},
         NEW pc \in {"loop", "clear"}, CloseSlot(n, out, t, id, pc)
  PROVE  Moves(n, {}) /\ failed' \in {failed, "reserve"}
  <1>1. /\ SlotType' /\ HistType'
        /\ \/ slot[n].type = "RESERVE" /\ Abort("reserve")
           \/ /\ slot[n].type = "INVALID" /\ Return(t, id, pc)
              /\ UNCHANGED <<slot, opened, epoll, freed, wire, failed>>
           \/ InUse(slot[n]) /\ force_close(n, slot[n], out) /\ Return(t, id, pc)
    BY CloseSlotIs
  <1>2. CASE Abort("reserve")
    BY <1>2, AbortMoves
  <1>3. CASE UNCHANGED <<slot, opened, epoll, freed, wire, failed>>
    BY <1>3, QuietMoves
  <1>4. CASE force_close(n, slot[n], out)
    <2> DEFINE f == slot[n].fd
               q == Queued(slot[n])
    <2>1. /\ slot'[n].fd = f /\ slot'[n].high = <<>> /\ slot'[n].low = <<>>
          /\ freed' = freed \cup Held(n) /\ failed' = failed
          /\ \A i \in Ids : wire'[i] = IF i = f THEN wire[i] \o out ELSE wire[i]
          /\ \A m \in Table : m # n => slot'[m] = slot[m]
      BY <1>4, ForceCloseLists, ForceCloseIs
    <2>2. slot[n] \in SlotRec /\ wire \in [Ids -> Seq(Chunk)] /\ q \in Seq(Chunk)
      BY QueuedType DEF TypeInv, SlotType, HistType
    <2>3. Held(n)' = {}
      BY <2>1 DEF Held, Packets
    <2>4. Packets(out) \subseteq Held(n)
      <3>1. Packets(out \o b) = Packets(out) \cup Packets(b)
        BY PacketsJoin
      <3>2. Packets(q) = Held(n)
        BY <2>2, HeldIs DEF Held
      <3> QED BY <3>1, <3>2
    <2>5. Queued(slot'[n]) = <<>>
      BY <2>1 DEF Queued
    <2>6. ListOK(slot'[n])
      BY <2>1, <2>5 DEF ListOK, Good
    <2>7. ASSUME f \in Ids PROVE Good((wire[f] \o out) \o Queued(slot'[n]), FALSE)
      <3>1. f # Nil /\ wire[f] \in Seq(Chunk)
        BY <2>2, <2>7 DEF Nil, Ids
      <3>2. Good(wire[f] \o (out \o b), FALSE)
        BY <3>1 DEF ListInv
      <3>3. wire[f] \o (out \o b) = (wire[f] \o out) \o b /\ wire[f] \o out \in Seq(Chunk)
        <4>1. wire[f] \o (out \o b) = (wire[f] \o out) \o b
          BY <3>1, JoinAgain
        <4>2. wire[f] \o out \in Seq(Chunk)
          BY <3>1, JoinIs
        <4> QED BY <4>1, <4>2
      <3>4. Good(wire[f] \o out, FALSE)
        BY <3>2, <3>3, GoodSplit
      <3>5. (wire[f] \o out) \o <<>> = wire[f] \o out
        BY <3>3, ConcatEmptySeq
      <3> QED BY <2>5, <3>4, <3>5
    <2>8. Moves(n, {})
      BY <1>1, <2>1, <2>3, <2>4, <2>6, <2>7, StreamMoves, ZenonT(30)
    <2> QED BY <2>1, <2>8
  <1> QED BY <1>1, <1>2, <1>3, <1>4

\* force_close after nothing was written.
LEMMA DropMoves ==
  ASSUME TypeInv, ListInv, OnceInv, NEW n \in Table, NEW t \in MsgTypes, NEW id \in Ids \cup {Nil},
         NEW pc \in {"loop", "clear"}, CloseSlot(n, <<>>, t, id, pc)
  PROVE  Moves(n, {}) /\ failed' \in {failed, "reserve"}
  <1>1. Queued(slot[n]) \in Seq(Chunk) /\ <<>> \in Seq(Chunk)
    BY QueuedType DEF TypeInv, SlotType
  <1>2. Queued(slot[n]) = <<>> \o Queued(slot[n])
    BY <1>1, ConcatEmptySeq
  <1> QED BY <1>1, <1>2, CloseMoves

\* send_list: k chunks of the queue of slot n go to its wire.
LEMMA WriteMoves ==
  ASSUME TypeInv, ListInv, OnceInv, NEW n \in Table, NEW k \in 0 .. Size(slot[n]),
         NEW next \in Types, WriteOut(n, k, next)
  PROVE  Moves(n, {}) /\ failed' = failed
  <1> DEFINE s == slot[n]
             q == Queued(s)
             f == s.fd
             w == Written(s, k)
             t == [w EXCEPT !.type = next]
             a == SubSeq(q, 1, k)
             b == SubSeq(q, k + 1, Len(q))
  <1>1. /\ SlotType' /\ HistType' /\ failed' = failed
        /\ \A m \in Table : m # n => slot'[m] = slot[m]
        /\ slot'[n].fd = f
    BY WriteOutIs
  <1>2. /\ s \in SlotRec /\ Counted(s) /\ slot \in [Table -> SlotRec] /\ wire \in [Ids -> Seq(Chunk)]
        /\ q \in Seq(Chunk) /\ Len(q) = Size(s) /\ ListOK(s)
    BY QueuedType DEF TypeInv, SlotType, HistType, ListInv
  <1>3. w \in SlotRec /\ Queued(w) = b /\ ListOK(w)
    BY <1>2, WrittenIs, WrittenLists
  <1>4. /\ slot' = [slot EXCEPT ![n] = t]
        /\ wire' = IF k = 0 THEN wire ELSE [wire EXCEPT ![f] = @ \o a]
        /\ freed' = freed \cup (Packets(q) \ Packets(Queued(t)))
    BY Zenon DEF WriteOut
  <1>5. a \in Seq(Chunk) /\ Len(a) = k /\ b \in Seq(Chunk) /\ a \o b = q
    <2>1. k \in 0 .. Len(q) /\ Good(q, TRUE)
      BY <1>2 DEF ListOK
    <2> QED BY <1>2, <2>1, GoodParts
  <1> HIDE DEF w, a, b
  <1>6. t \in SlotRec /\ t.high = w.high /\ t.low = w.low
    BY <1>3 DEF SlotRec
  <1> HIDE DEF t
  <1>7. slot'[n] = t
    BY <1>2, <1>4
  <1>8. ListOK(t) /\ Queued(t) = b
    BY <1>3, <1>6, SameLists
  <1>9. \A i \in Ids : wire'[i] = IF i = f THEN wire[i] \o a ELSE wire[i]
    <2>1. k = 0 => a = <<>>
      BY <1>5
    <2> HIDE DEF f
    <2>2. \A i \in Ids : wire[i] \in Seq(Chunk) /\ wire[i] \o <<>> = wire[i]
      BY <1>2, ConcatEmptySeq
    <2> QED BY <1>2, <1>4, <2>1, <2>2
  <1>10. Held(n) = Packets(q) /\ Held(n)' = Packets(b)
    BY <1>2, <1>6, <1>7, <1>8, HeldIs DEF Held
  <1>11. Packets(q) = Packets(a) \cup Packets(b)
    BY <1>5, PacketsJoin
  <1>12. freed \cap Held(n) = {}
    BY DEF OnceInv
  <1>13. freed' = freed \cup (Packets(q) \ Packets(b))
    BY <1>4, <1>8
  <1>14. ASSUME f \in Ids PROVE Good((wire[f] \o a) \o Queued(slot'[n]), FALSE)
    <2>1. f # Nil /\ wire[f] \in Seq(Chunk)
      BY <1>2, <1>14 DEF Nil, Ids
    <2>2. Good(wire[f] \o q, FALSE)
      BY <2>1 DEF ListInv
    <2>3. wire[f] \o (a \o b) = (wire[f] \o a) \o b
      BY <1>5, <2>1, JoinAgain
    <2> QED BY <1>5, <1>7, <1>8, <2>2, <2>3
  <1>15. Packets(a) \subseteq Held(n) /\ Held(n)' \subseteq Held(n)
         /\ freed' \subseteq freed \cup Held(n) /\ freed' \cap Held(n)' = {}
    BY <1>10, <1>11, <1>12, <1>13
  <1>16. ListOK(slot'[n])
    BY <1>7, <1>8
  <1>17. Moves(n, {})
    <2> HIDE DEF q
    <2> QED BY <1>1, <1>5, <1>9, <1>14, <1>15, <1>16, StreamMoves
  <1> QED BY <1>1, <1>17

\* Nothing that came from the pipe is less than nothing.
LEMMA MovesMore ==
  ASSUME NEW n, NEW P, Moves(n, {})
  PROVE  Moves(n, P)
  BY DEF Moves

\* A packet that is queued on slot n is the newest there.
LEMMA NewestIs ==
  ASSUME TypeInv, OldInv, NEW n \in Table, NEW p \in Nat, \A x : Old(x) => x < p
  PROVE  /\ Older(slot[n].high, p) /\ Older(slot[n].low, p) /\ Older(Queued(slot[n]), p)
         /\ \A i \in Ids : Older(wire[i], p)
         /\ p \notin freed /\ p \notin Held(n)
  <1>1. /\ \A x \in freed : x < p
        /\ \A x \in Packets(slot[n].high) \cup Packets(slot[n].low) : x < p
        /\ \A i \in Ids : \A x \in Packets(wire[i]) : x < p
    BY DEF OldInv, Held
  <1>2. Packets(Queued(slot[n])) = Packets(slot[n].high) \cup Packets(slot[n].low)
    BY HeldIs DEF TypeInv, SlotType
  <1>3. \A l : (\A x \in Packets(l) : x < p) => Older(l, p)
    BY DEF Packets, Older
  <1>4. p \notin freed /\ p \notin Held(n)
    BY <1>1 DEF Held
  <1> QED BY <1>1, <1>2, <1>3, <1>4

\* A chunk list and a packet put behind it.
LEMMA OlderJoin ==
  ASSUME NEW x \in Seq(Chunk), NEW y \in Seq(Chunk), NEW p, Older(x, p), Older(y, p)
  PROVE  Older(x \o y, p)
  <1> DEFINE z == x \o y
             n == Len(x)
  <1>1. /\ \A i \in DOMAIN x : i \in DOMAIN z /\ z[i] = x[i]
        /\ \A j \in DOMAIN y : n + j \in DOMAIN z /\ z[n + j] = y[j]
        /\ \A i \in DOMAIN z : i \in DOMAIN x \/ (i - n \in DOMAIN y /\ n + (i - n) = i)
    BY JoinIs
  <1> HIDE DEF z, n
  <1>2. ASSUME NEW i \in DOMAIN z PROVE z[i].pkt < p
    <2>1. CASE i \in DOMAIN x
      BY <1>1, <2>1 DEF Older
    <2>2. CASE i - n \in DOMAIN y /\ n + (i - n) = i
      <3>1. z[i] = y[i - n]
        BY <1>1, <2>2
      <3> QED BY <2>2, <3>1 DEF Older
    <2> QED BY <1>1, <2>1, <2>2
  <1> QED BY <1>2 DEF Older, z

\* The packets of a part of a packet.
LEMMA PartPackets ==
  ASSUME NEW l, NEW p, NEW low, Of(l, p, low)
  PROVE  Packets(l) \subseteq {p}
  BY DEF Packets, Of

\* The chunks of a packet of which nothing was written.
LEMMA WholeIs ==
  ASSUME NEW p \in 1 .. MaxSends, NEW low \in BOOLEAN, NEW fits \in BOOLEAN
  PROVE  LET c == Chunks(p, low, fits, 0) IN
         /\ c \in Seq(Chunk) /\ Len(c) = PktLen /\ Good(c, TRUE) /\ Of(c, p, low)
         /\ \A i \in DOMAIN c : c[i].at = i
  <1> DEFINE c == Chunks(p, low, fits, 0)
  <1>1. PktLen \in Nat \ {0} /\ 0 \in 0 .. PktLen
    BY Bounds
  <1>2. /\ c \in Seq(Chunk) /\ Len(c) = PktLen - 0 /\ Good(c, TRUE) /\ Of(c, p, low)
    BY <1>1, PacketIs, ZenonT(30)
  <1>3. \A i \in DOMAIN c : c[i].at = 0 + i
    <2>1. \A i \in 1 .. (PktLen - 0) :
            c[i] = [pkt |-> p, at |-> 0 + i, low |-> low, fits |-> fits]
      BY DEF Chunks
    <2>2. DOMAIN c = 1 .. (PktLen - 0)
      BY <1>2
    <2> HIDE DEF c
    <2> QED BY <2>1, <2>2
  <1>4. DOMAIN c \subseteq Nat
    BY <1>2
  <1> HIDE DEF c
  <1>5. Len(c) = PktLen /\ \A i \in DOMAIN c : c[i].at = i
    BY <1>1, <1>2, <1>3, <1>4
  <1> QED BY <1>2, <1>5 DEF c

\* A packet p goes to an idle connection: k chunks are written, the rest, if
\* any, is queued.
LEMMA PartMoves ==
  ASSUME TypeInv, OldInv, ListInv, OnceInv, HistType', SlotType', NEW n \in Table,
         NEW p \in 1 .. MaxSends, \A x : Old(x) => x < p,
         NEW low \in BOOLEAN, NEW fits \in BOOLEAN, NEW k \in 0 .. PktLen,
         send_buffer_empty(slot[n]),
         \A m \in Table : m # n => slot'[m] = slot[m],
         slot'[n].fd = slot[n].fd, slot'[n].low = <<>>,
         slot'[n].high = Chunks(p, low, fits, k),
         \A i \in Ids : wire'[i] = IF i = slot[n].fd
                                   THEN wire[i] \o SubSeq(Chunks(p, low, fits, 0), 1, k) ELSE wire[i],
         freed' = freed \/ (freed' = freed \cup {p} /\ k = PktLen)
  PROVE  Moves(n, {p})
  <1> DEFINE f == slot[n].fd
             a == Chunks(p, low, fits, 0)
             c == Chunks(p, low, fits, k)
             out == SubSeq(a, 1, k)
  <1>0. PktLen \in Nat \ {0} /\ 0 \in 0 .. PktLen /\ p \in Nat /\ k \in Nat /\ k <= PktLen
    BY Bounds
  <1>1. /\ a \in Seq(Chunk) /\ Len(a) = PktLen /\ Good(a, TRUE) /\ Of(a, p, low)
        /\ \A i \in DOMAIN a : a[i].at = i
    BY <1>0, WholeIs
  <1>2. /\ c \in Seq(Chunk) /\ Len(c) = PktLen - k /\ Good(c, TRUE) /\ Of(c, p, low)
        /\ c = SubSeq(a, k + 1, PktLen)
    BY PacketIs, ZenonT(60)
  <1> HIDE DEF a, c
  <1>3. out \in Seq(Chunk) /\ out \o c = a /\ \A i \in 1 .. k : out[i] = a[i] /\ Len(out) = k
    <2>1. Len(a) = PktLen /\ k \in 0 .. Len(a)
      BY <1>0, <1>1
    <2> QED BY <1>1, <1>2, <2>1, GoodParts, ZenonT(30)
  <1>4. Of(out, p, low)
    <2>1. DOMAIN out = 1 .. k /\ DOMAIN a = 1 .. PktLen
      <3>1. Len(a) = PktLen
        BY <1>0, <1>1
      <3> QED BY <1>1, <1>3, <3>1
    <2> HIDE DEF out
    <2> QED BY <1>0, <1>1, <1>3, <2>1 DEF Of
  <1> HIDE DEF out
  <1>5. Packets(out) \subseteq {p} /\ Packets(c) \subseteq {p}
    BY <1>2, <1>4, PartPackets
  <1>6. slot'[n].high = c /\ slot'[n].low = <<>>
    BY DEF c
  <1>7. Queued(slot'[n]) = c /\ Held(n)' = Packets(c)
    <2>1. c \o <<>> = c
      BY <1>2, ConcatEmptySeq
    <2>2. Packets(<<>>) = {}
      BY DEF Packets
    <2> QED BY <1>6, <2>1, <2>2 DEF Queued, Held
  <1>8. ListOK(slot'[n])
    <2>1. Good(Queued(slot'[n]), TRUE)
      BY <1>2, <1>7
    <2>2. DOMAIN slot'[n].low = {}
      <3>1. DOMAIN <<>> = {}
        OBVIOUS
      <3> QED BY <1>6, <3>1
    <2> QED BY <1>6, <2>1, <2>2 DEF ListOK
  <1>9. p \notin freed /\ p \notin Held(n) /\ \A i \in Ids : Older(wire[i], p)
    BY <1>0, NewestIs
  <1>10. ASSUME f \in Ids PROVE Good((wire[f] \o out) \o Queued(slot'[n]), FALSE)
    <2> DEFINE w == wire[f]
    <2>1. w \in Seq(Chunk) /\ Good(w, FALSE) /\ Older(w, p)
      BY <1>9, <1>10 DEF ListInv, TypeInv, HistType
    <2> HIDE DEF w
    <2>2. w \o <<>> = w /\ Older(<<>>, p) /\ <<>> \in Seq(Chunk)
      BY <2>1, ConcatEmptySeq DEF Older
    <2>3. a # <<>> => a[1].at = 1
      <3>1. a # <<>> => 1 \in DOMAIN a
        BY <1>1
      <3> QED BY <1>1, <3>1
    <2>4. Good((w \o a) \o <<>>, FALSE)
      BY <1>0, <1>1, <2>1, <2>2, <2>3, GoodInsert
    <2>5. (w \o a) \o <<>> = w \o a
      <3>1. w \o a \in Seq(Chunk)
        BY <1>1, <2>1, JoinIs
      <3> QED BY <3>1, ConcatEmptySeq
    <2>6. w \o (out \o c) = (w \o out) \o c
      BY <1>2, <1>3, <2>1, JoinAgain
    <2>7. Good((w \o out) \o c, FALSE)
      BY <1>3, <2>4, <2>5, <2>6
    <2> QED BY <1>7, <2>7 DEF w
  <1>11. freed' \cap Held(n)' = {}
    <2>1. CASE freed' = freed
      BY <1>5, <1>7, <1>9, <2>1
    <2>2. CASE k = PktLen
      <3>1. Len(c) = 0
        BY <1>0, <1>2, <2>2
      <3>2. c = <<>>
        BY <1>2, <3>1
      <3> QED BY <1>7, <3>2 DEF Packets
    <2> QED BY <2>1, <2>2
  <1>12. \A i \in Ids : wire'[i] = IF i = f THEN wire[i] \o out ELSE wire[i]
    BY DEF out, a
  <1> QED BY <1>3, <1>5, <1>7, <1>8, <1>10, <1>11, <1>12, StreamMoves, ZenonT(30)

\* A whole packet p goes to the end of one of the lists of slot n.
LEMMA QueueMoves ==
  ASSUME TypeInv, OldInv, ListInv, OnceInv, HistType', SlotType', NEW n \in Table,
         NEW p \in 1 .. MaxSends, \A x : Old(x) => x < p,
         NEW low \in BOOLEAN, NEW fits \in BOOLEAN,
         \A m \in Table : m # n => slot'[m] = slot[m],
         slot'[n].fd = slot[n].fd,
         \/ /\ slot'[n].high = slot[n].high \o Chunks(p, low, fits, 0) /\ slot'[n].low = slot[n].low
            /\ ~low \/ slot[n].low = <<>>
         \/ /\ slot'[n].high = slot[n].high /\ slot'[n].low = slot[n].low \o Chunks(p, low, fits, 0)
            /\ low,
         UNCHANGED <<freed, wire>>
  PROVE  Moves(n, {p})
  <1> DEFINE f == slot[n].fd
             h == slot[n].high
             l == slot[n].low
             a == Chunks(p, low, fits, 0)
             t == slot'[n]
             done == /\ ListOK(t) /\ Held(n)' \subseteq Held(n) \cup {p}
                     /\ f \in Ids => Good((wire[f] \o <<>>) \o Queued(t), FALSE)
  <1>0. p \in Nat
    BY Bounds
  <1>1. /\ a \in Seq(Chunk) /\ Len(a) = PktLen /\ Good(a, TRUE) /\ Of(a, p, low)
        /\ \A i \in DOMAIN a : a[i].at = i
    BY WholeIs
  <1>2. \/ t.high = h \o a /\ t.low = l /\ (~low \/ l = <<>>)
        \/ t.high = h /\ t.low = l \o a /\ low
    OBVIOUS
  <1>3. a # <<>> => a[1].at = 1
    <2>1. a # <<>> => 1 \in DOMAIN a
      BY <1>1
    <2> QED BY <1>1, <2>1
  <1>4. /\ h \in Seq(Chunk) /\ l \in Seq(Chunk) /\ Queued(slot[n]) = h \o l /\ h \o l \in Seq(Chunk)
        /\ t \in SlotRec
    BY SlotFields, JoinIs DEF TypeInv, SlotType, Queued
  <1>5. /\ Good(h \o l, TRUE) /\ (l # <<>> => l[1].at = 1) /\ (\A j \in DOMAIN l : l[j].low)
        /\ \A i \in DOMAIN h, j \in DOMAIN l : h[i].pkt # l[j].pkt
    BY <1>4 DEF ListInv, ListOK
  <1>6. /\ Older(h, p) /\ Older(l, p) /\ Older(h \o l, p) /\ p \notin freed /\ p \notin Held(n)
        /\ \A i \in Ids : Older(wire[i], p)
    BY <1>0, <1>4, NewestIs
  <1>7. Queued(t) = t.high \o t.low
    BY DEF Queued
  <1>8. Packets(a) \subseteq {p}
    BY <1>1, PartPackets
  <1>9. Held(n) = Packets(h) \cup Packets(l) /\ Held(n)' = Packets(t.high) \cup Packets(t.low)
    BY DEF Held
  <1>10. f \in Ids => /\ wire[f] \in Seq(Chunk) /\ Good(wire[f] \o (h \o l), FALSE)
                      /\ Older(wire[f], p)
    <2>1. Nil \notin Ids
      BY DEF Nil, Ids
    <2> QED BY <1>4, <1>6, <2>1 DEF ListInv, TypeInv, HistType
  <1>11. <<>> \in Seq(Chunk) /\ Older(<<>>, p) /\ Len(<<>>) = 0
    BY DEF Older
  <1> HIDE DEF f, h, l, a, t
  <1>12. ASSUME t.high = h \o a, t.low = l, ~low \/ l = <<>> PROVE done
    <2>1. Good((h \o a) \o l, TRUE)
      BY <1>0, <1>1, <1>3, <1>4, <1>5, <1>6, <1>12, GoodInsert
    <2>2. Queued(t) = (h \o a) \o l
      BY <1>7, <1>12
    <2>3. \A i \in DOMAIN (h \o a), j \in DOMAIN l : (h \o a)[i].pkt # l[j].pkt
      <3> SUFFICES ASSUME NEW i \in DOMAIN (h \o a), NEW j \in DOMAIN l PROVE (h \o a)[i].pkt # l[j].pkt
        OBVIOUS
      <3>1. CASE i \in DOMAIN h
        <4>1. (h \o a)[i] = h[i]
          BY <1>1, <1>4, <3>1, JoinIs
        <4> QED BY <1>5, <3>1, <4>1
      <3>2. CASE i - Len(h) \in DOMAIN a /\ Len(h) + (i - Len(h)) = i
        <4>1. (h \o a)[Len(h) + (i - Len(h))] = a[i - Len(h)]
          BY <1>1, <1>4, <3>2, JoinIs, SMTT(30)
        <4>2. (h \o a)[i].pkt = p
          BY <1>1, <3>2, <4>1 DEF Of
        <4>3. l[j].pkt < p /\ l[j].pkt \in Nat
          BY <1>4, <1>6, ChunkFields DEF Older
        <4> QED BY <1>0, <4>2, <4>3
      <3> QED BY <1>1, <1>4, <3>1, <3>2, JoinIs
    <2>4. ListOK(t)
      <3>1. Good(Queued(t), TRUE)
        BY <2>1, <2>2
      <3>2. (t.low # <<>> => t.low[1].at = 1) /\ \A j \in DOMAIN t.low : t.low[j].low
        BY <1>5, <1>12
      <3>3. \A i \in DOMAIN t.high, j \in DOMAIN t.low : t.high[i].pkt # t.low[j].pkt
        BY <1>12, <2>3
      <3> QED BY <3>1, <3>2, <3>3 DEF ListOK
    <2>5. Held(n)' \subseteq Held(n) \cup {p}
      BY <1>1, <1>4, <1>8, <1>9, <1>12, PacketsJoin
    <2>6. ASSUME f \in Ids PROVE Good((wire[f] \o <<>>) \o Queued(t), FALSE)
      <3> DEFINE w == wire[f]
      <3>1. w \in Seq(Chunk) /\ Good(w \o (h \o l), FALSE) /\ Older(w, p)
        BY <1>10, <2>6
      <3> HIDE DEF w
      <3>2. w \o (h \o l) = (w \o h) \o l /\ w \o h \in Seq(Chunk) /\ Older(w \o h, p)
        <4>1. w \o (h \o l) = (w \o h) \o l
          BY <1>4, <3>1, JoinAgain
        <4>2. w \o h \in Seq(Chunk)
          BY <1>4, <3>1, JoinIs
        <4>3. Older(w \o h, p)
          BY <1>4, <1>6, <3>1, OlderJoin
        <4> QED BY <4>1, <4>2, <4>3
      <3>3. Good(((w \o h) \o a) \o l, FALSE)
        <4>1. Good((w \o h) \o l, FALSE)
          BY <3>1, <3>2
        <4>2. l # <<>> => ~low /\ l[1].at = 1 /\ \A j \in DOMAIN l : l[j].low
          BY <1>5, <1>12
        <4> QED BY <1>0, <1>1, <1>3, <1>4, <1>6, <3>2, <4>1, <4>2, GoodInsert
      <3>4. (w \o h) \o a = w \o (h \o a) /\ h \o a \in Seq(Chunk)
        <4>1. w \o (h \o a) = (w \o h) \o a
          BY <1>1, <1>4, <3>1, JoinAgain, SMTT(30)
        <4>2. h \o a \in Seq(Chunk)
          BY <1>1, <1>4, JoinIs
        <4> QED BY <4>1, <4>2
      <3>5. (w \o (h \o a)) \o l = w \o ((h \o a) \o l)
        BY <1>4, <3>1, <3>4, JoinAgain
      <3>6. w \o <<>> = w
        BY <3>1, ConcatEmptySeq
      <3>7. Good((w \o <<>>) \o Queued(t), FALSE)
        BY <2>2, <3>3, <3>4, <3>5, <3>6
      <3> QED BY <3>7 DEF w
    <2> QED BY <2>4, <2>5, <2>6
  <1>13. ASSUME t.high = h, t.low = l \o a, low PROVE done
    <2>1. (h \o l) \o <<>> = h \o l /\ ((h \o l) \o a) \o <<>> = (h \o l) \o a
          /\ h \o (l \o a) = (h \o l) \o a
      <3>1. (h \o l) \o a \in Seq(Chunk)
        BY <1>1, <1>4, JoinIs
      <3> QED BY <1>1, <1>4, <3>1, ConcatEmptySeq, JoinAgain, SMTT(30)
    <2>2. Good(((h \o l) \o a) \o <<>>, TRUE)
      <3>1. Good((h \o l) \o <<>>, TRUE)
        BY <1>5, <2>1
      <3> QED BY <1>0, <1>1, <1>3, <1>4, <1>6, <1>11, <3>1, GoodInsert
    <2>3. Queued(t) = (h \o l) \o a
      BY <1>7, <1>13, <2>1
    <2>4. ASSUME NEW j \in DOMAIN (l \o a)
          PROVE  /\ (l \o a)[j].low
                 /\ j = 1 => (l \o a)[j].at = 1
                 /\ \A i \in DOMAIN h : h[i].pkt # (l \o a)[j].pkt
      <3>1. CASE j \in DOMAIN l
        <4>1. (l \o a)[j] = l[j] /\ l # <<>>
          BY <1>1, <1>4, <3>1, JoinIs
        <4> QED BY <1>5, <3>1, <4>1
      <3>2. CASE j - Len(l) \in DOMAIN a /\ Len(l) + (j - Len(l)) = j
        <4>1. (l \o a)[Len(l) + (j - Len(l))] = a[j - Len(l)]
          BY <1>1, <1>4, <3>2, JoinIs
        <4>2. (l \o a)[j] = a[j - Len(l)]
          BY <3>2, <4>1
        <4>3. (l \o a)[j].pkt = p /\ (l \o a)[j].low
          BY <1>1, <1>13, <3>2, <4>2 DEF Of
        <4>4. \A i \in DOMAIN h : h[i].pkt < p /\ h[i].pkt \in Nat
          BY <1>4, <1>6, ChunkFields DEF Older
        <4>5. ASSUME j = 1 PROVE (l \o a)[j].at = 1
          <5>1. Len(l) \in Nat /\ DOMAIN a = 1 .. Len(a) /\ Len(a) \in Nat
            BY <1>1, <1>4
          <5>2. j - Len(l) = 1
            BY <3>2, <4>5, <5>1
          <5> QED BY <1>1, <3>2, <4>2, <5>2
        <4> QED BY <1>0, <4>3, <4>4, <4>5
      <3> QED BY <1>1, <1>4, <3>1, <3>2, JoinIs, SMTT(30)
    <2>5. ListOK(t)
      <3>1. Good(Queued(t), TRUE)
        BY <2>1, <2>2, <2>3
      <3>2. l \o a # <<>> => 1 \in DOMAIN (l \o a)
        <4>1. l \o a \in Seq(Chunk)
          BY <1>1, <1>4, JoinIs
        <4> QED BY <4>1
      <3>3. t.low # <<>> => t.low[1].at = 1
        BY <1>13, <2>4, <3>2
      <3>4. (\A j \in DOMAIN t.low : t.low[j].low)
            /\ \A i \in DOMAIN t.high, j \in DOMAIN t.low : t.high[i].pkt # t.low[j].pkt
        BY <1>13, <2>4
      <3> QED BY <3>1, <3>3, <3>4 DEF ListOK
    <2>6. Held(n)' \subseteq Held(n) \cup {p}
      BY <1>1, <1>4, <1>8, <1>9, <1>13, PacketsJoin
    <2>7. ASSUME f \in Ids PROVE Good((wire[f] \o <<>>) \o Queued(t), FALSE)
      <3> DEFINE w == wire[f]
                 q == h \o l
      <3>1. w \in Seq(Chunk) /\ Good(w \o q, FALSE) /\ Older(w, p) /\ q \in Seq(Chunk) /\ Older(q, p)
        BY <1>4, <1>6, <1>10, <2>7
      <3>2. Queued(t) = q \o a
        BY <2>3
      <3> HIDE DEF w, q
      <3>3. w \o q \in Seq(Chunk) /\ Older(w \o q, p)
        BY <3>1, JoinIs, OlderJoin
      <3>4. (w \o q) \o <<>> = w \o q /\ w \o <<>> = w
        BY <3>1, <3>3, ConcatEmptySeq
      <3>5. Good(((w \o q) \o a) \o <<>>, FALSE)
        BY <1>0, <1>1, <1>3, <1>11, <3>1, <3>3, <3>4, GoodInsert
      <3>6. ((w \o q) \o a) \o <<>> = (w \o q) \o a
        <4>1. (w \o q) \o a \in Seq(Chunk)
          BY <1>1, <3>3, JoinIs
        <4> QED BY <4>1, ConcatEmptySeq
      <3>7. w \o (q \o a) = (w \o q) \o a
        BY <1>1, <3>1, JoinAgain
      <3>8. Good((w \o <<>>) \o Queued(t), FALSE)
        BY <3>2, <3>4, <3>5, <3>6, <3>7
      <3> QED BY <3>8 DEF w
    <2> QED BY <2>5, <2>6, <2>7
  <1>14. /\ ListOK(t) /\ Held(n)' \subseteq Held(n) \cup {p}
         /\ f \in Ids => Good((wire[f] \o <<>>) \o Queued(t), FALSE)
    BY <1>2, <1>12, <1>13
  <1>15. \A i \in Ids : wire'[i] = IF i = f THEN wire[i] \o <<>> ELSE wire[i]
    <2>1. \A i \in Ids : wire[i] \in Seq(Chunk) /\ wire[i] \o <<>> = wire[i]
      BY ConcatEmptySeq DEF TypeInv, HistType
    <2> QED BY <2>1
  <1>16. freed' \cap Held(n)' = {}
    BY <1>6, <1>14 DEF OnceInv
  <1>17. Packets(<<>>) = {}
    BY DEF Packets
  <1> QED BY <1>11, <1>14, <1>15, <1>16, <1>17, StreamMoves DEF f, t

\* Slot s with the rest of packet p, of which k chunks were written, on a list.
AddHigh(s, p, low, fits, k) ==
  [s EXCEPT !.high = @ \o Chunks(p, low, fits, k), !.wb_size = @ + PktLen - k]
AddLow(s, p, low, fits, k) ==
  [s EXCEPT !.low = @ \o Chunks(p, low, fits, k), !.wb_size = @ + PktLen - k]

\* send_socket drops packet p; writes k chunks of it; or queues it.
Drops(p) == freed' = freed \cup {p} /\ UNCHANGED <<slot, wire, failed>>
Writes(n, p, low, fits, k) ==
  /\ slot' = IF k = PktLen THEN slot
             ELSE [slot EXCEPT ![n] = IF slot[n].kind = "udp" /\ low
                                      THEN AddLow(slot[n], p, low, fits, k)
                                      ELSE AddHigh(slot[n], p, low, fits, k)]
  /\ freed' = IF k = PktLen THEN freed \cup {p} ELSE freed
  /\ wire' = [wire EXCEPT ![slot[n].fd] = @ \o SubSeq(Chunks(p, low, fits, 0), 1, k)]
  /\ failed' = failed
Puts(n, p, low, fits) ==
  /\ slot' = [slot EXCEPT ![n] = IF low THEN AddLow(slot[n], p, low, fits, 0)
                                       ELSE AddHigh(slot[n], p, low, fits, 0)]
  /\ UNCHANGED <<freed, wire, failed>>

\* What send_socket may do with its packet.
SendCase(n, p, low, fits) ==
  \/ Drops(p)
  \/ Abort("listen")
  \/ CloseSlot(n, <<>>, "CLOSE", slot[n].id, "clear")
  \/ /\ send_buffer_empty(slot[n])
     /\ \E k \in IF slot[n].kind # "udp" THEN 0 .. PktLen
                 ELSE IF fits THEN {0, PktLen} ELSE {0} : Writes(n, p, low, fits, k)
  \/ Puts(n, p, low, fits)

\* The cases of send_socket.
LEMMA SendCases ==
  ASSUME TypeInv, SendSocket, NEW n, NEW p, n = HASH_ID(Head(ctrl).id), p = Head(ctrl).pkt
  PROVE  \E low, fits \in BOOLEAN : SendCase(n, p, low, fits)
  <1> DEFINE r == Head(ctrl)
             s == slot[n]
             low == r.op = "P"
             udp == s.kind = "udp"
             fits == IF ~udp THEN TRUE ELSE IF r.op = "A" THEN r.fits ELSE s.peer
             pkt(k) == Chunks(p, low, fits, k)
             append(toLow, k) ==
               IF toLow THEN [s EXCEPT !.low = @ \o pkt(k), !.wb_size = @ + PktLen - k]
                        ELSE [s EXCEPT !.high = @ \o pkt(k), !.wb_size = @ + PktLen - k]
             drop == /\ freed' = freed \cup {p}
                     /\ Continue
                     /\ UNCHANGED <<alloc_id, slot, fdVars, wire, failed>>
             write(k) ==
               /\ slot' = IF k = PktLen THEN slot
                          ELSE [slot EXCEPT ![n] = append(udp /\ low, k)]
               /\ epoll' = IF k = PktLen THEN epoll ELSE Watch(s.fd, "INOUT")
               /\ freed' = IF k = PktLen THEN freed \cup {p} ELSE freed
               /\ wire' = [wire EXCEPT ![s.fd] = @ \o SubSeq(pkt(0), 1, k)]
               /\ Continue
               /\ UNCHANGED <<alloc_id, opened, failed>>
             queue == /\ slot' = [slot EXCEPT ![n] = append(low, 0)]
                      /\ Continue
                      /\ UNCHANGED <<alloc_id, fdVars, histVars, failed>>
             K == IF ~udp THEN 0 .. PktLen ELSE IF fits THEN {0, PktLen} ELSE {0}
             gone == Stale(s, r.id) \/ s.type \in {"HALFCLOSE", "PACCEPT"}
             listens == ~Stale(s, r.id) /\ s.type \in {"PLISTEN", "LISTEN"}
             idle == ~Stale(s, r.id) /\ s.type = "CONNECTED" /\ send_buffer_empty(s)
  <1>1. Cmd({"D", "P", "A"})
    BY DEF SendSocket
  <1>2. n \in Table /\ s \in SlotRec /\ r.fits \in BOOLEAN
    BY <1>1, CmdIs
  <1>3. low \in BOOLEAN /\ fits \in BOOLEAN
    BY <1>2, SlotFields
  <1>4. CASE gone
    <2>1. ~listens /\ ~idle
      BY <1>4
    <2>2. drop
      BY <1>4, <2>1, Zenon DEF SendSocket
    <2>3. Drops(p)
      BY <2>2 DEF Drops
    <2> QED BY <1>3, <2>3 DEF SendCase
  <1>5. CASE listens
    <2>1. ~gone /\ ~idle
      BY <1>5
    <2>2. Abort("listen")
      BY <1>5, <2>1, Zenon DEF SendSocket
    <2> QED BY <1>3, <2>2 DEF SendCase
  <1>6. CASE idle
    <2>1. ~gone /\ ~listens
      BY <1>6
    <2>2. CloseSlot(n, <<>>, "CLOSE", s.id, "clear") \/ \E k \in K : write(k)
      BY <1>6, <2>1, Zenon DEF SendSocket
    <2>3. ASSUME NEW k \in K, write(k) PROVE Writes(n, p, low, fits, k)
      BY <2>3, Zenon DEF Writes, AddLow, AddHigh
    <2> HIDE DEF write, low, fits
    <2> QED BY <1>3, <1>6, <2>2, <2>3 DEF SendCase
  <1>7. CASE ~gone /\ ~listens /\ ~idle
    <2>1. queue
      BY <1>7, Zenon DEF SendSocket
    <2>2. UNCHANGED <<freed, wire, failed>>
      BY <2>1 DEF histVars
    <2>3. slot' = [slot EXCEPT ![n] = IF low THEN AddLow(slot[n], p, low, fits, 0)
                                            ELSE AddHigh(slot[n], p, low, fits, 0)]
      BY <2>1, Zenon DEF AddLow, AddHigh
    <2> HIDE DEF queue, low, fits
    <2>4. Puts(n, p, low, fits)
      BY <2>2, <2>3 DEF Puts
    <2> QED BY <1>3, <2>4 DEF SendCase
  <1> HIDE DEF gone, listens, idle
  <1> QED BY <1>4, <1>5, <1>6, <1>7

\* The lists of a slot to which a packet was added.
LEMMA AddIs ==
  ASSUME NEW s \in SlotRec, NEW p \in 1 .. MaxSends, NEW low \in BOOLEAN, NEW fits \in BOOLEAN,
         NEW k \in 0 .. PktLen
  PROVE  LET x == AddHigh(s, p, low, fits, k)  y == AddLow(s, p, low, fits, k)
             c == Chunks(p, low, fits, k)
         IN /\ x.fd = s.fd /\ x.high = s.high \o c /\ x.low = s.low
            /\ y.fd = s.fd /\ y.high = s.high /\ y.low = s.low \o c
  <1> DEFINE c == Chunks(p, low, fits, k)
             w == s.wb_size
             b == w + PktLen - k
             h == s.high \o c
             l == s.low \o c
             x == AddHigh(s, p, low, fits, k)
             y == AddLow(s, p, low, fits, k)
  <1>1. c \in Seq(Chunk) /\ w \in Nat
    BY ChunksType, SlotFields
  <1>2. b \in Nat
    BY <1>1, Bounds
  <1>3. h \in Seq(Chunk) /\ l \in Seq(Chunk)
    BY <1>1, SlotFields, JoinIs
  <1>4. x = [s EXCEPT !.high = h, !.wb_size = b] /\ y = [s EXCEPT !.low = l, !.wb_size = b]
    BY Zenon DEF AddHigh, AddLow
  <1> HIDE DEF h, l, b, x, y
  <1>5. x \in SlotRec /\ y \in SlotRec
    BY <1>2, <1>3, <1>4 DEF SlotRec
  <1>6. x.high = h /\ x.low = s.low /\ x.fd = s.fd /\ y.high = s.high /\ y.low = l /\ y.fd = s.fd
    BY <1>2, <1>3, <1>4, <1>5 DEF SlotRec
  <1> QED BY <1>6 DEF h, l, x, y

\* send_socket puts its packet behind those it may not overtake.
LEMMA SendMoves ==
  ASSUME TypeInv, OldInv, ListInv, OnceInv, HistType', SlotType', NEW n \in Table,
         NEW p \in 1 .. MaxSends, \A x : Old(x) => x < p, NEW low \in BOOLEAN, NEW fits \in BOOLEAN,
         SendCase(n, p, low, fits)
  PROVE  Moves(n, {p}) /\ failed' \in {failed, "reserve", "listen"}
  <1> DEFINE s == slot[n]
             pkt(k) == Chunks(p, low, fits, k)
             K == IF s.kind # "udp" THEN 0 .. PktLen ELSE IF fits THEN {0, PktLen} ELSE {0}
             done == Moves(n, {p}) /\ failed' \in {failed, "reserve", "listen"}
  <1>1. slot \in [Table -> SlotRec] /\ wire \in [Ids -> Seq(Chunk)] /\ s \in SlotRec
    BY DEF TypeInv, SlotType, HistType
  <1>2. s.id \in Ids \cup {Nil} /\ "CLOSE" \in MsgTypes /\ p \in Nat
    BY <1>1, SlotFields, Bounds DEF MsgTypes
  <1>3. ASSUME Drops(p) PROVE done
    <2>1. freed' = freed \cup {p} /\ UNCHANGED <<slot, wire, failed>>
      BY <1>3 DEF Drops
    <2>2. p \notin Held(n) /\ Held(n)' = Held(n)
      <3>1. p \notin Held(n)
        BY <1>2, NewestIs
      <3> QED BY <2>1, <3>1 DEF Held
    <2>3. freed' \cap Held(n)' = {}
      BY <2>1, <2>2 DEF OnceInv
    <2>4. /\ ListOK(slot'[n])
          /\ slot'[n].fd # Nil =>
               HASH_ID(slot'[n].fd) = n /\ Good(wire'[slot'[n].fd] \o Queued(slot'[n]), FALSE)
          /\ \A i \in Ids : Good(wire'[i], FALSE)
      BY <2>1 DEF ListInv
    <2>5. Moves(n, {p})
      BY <2>1, <2>2, <2>3, <2>4 DEF Moves
    <2> QED BY <2>1, <2>5
  <1>4. ASSUME Abort("listen") PROVE done
    BY <1>4, AbortMoves, MovesMore
  <1>5. ASSUME CloseSlot(n, <<>>, "CLOSE", s.id, "clear") PROVE done
    <2>1. Moves(n, {}) /\ failed' \in {failed, "reserve"}
      BY <1>2, <1>5, DropMoves
    <2> QED BY <2>1, MovesMore
  <1>6. 0 \in 0 .. PktLen
    BY Bounds
  <1>7. ASSUME NEW x, slot' = [slot EXCEPT ![n] = x]
        PROVE  slot'[n] = x /\ \A m \in Table : m # n => slot'[m] = slot[m]
    BY <1>1, <1>7
  <1>b. ASSUME NEW k \in 0 .. PktLen
        PROVE  LET x == AddHigh(s, p, low, fits, k)
                   y == AddLow(s, p, low, fits, k)
               IN /\ x.fd = s.fd /\ x.high = s.high \o pkt(k) /\ x.low = s.low
                  /\ y.fd = s.fd /\ y.high = s.high /\ y.low = s.low \o pkt(k)
    <2> HIDE DEF K
    <2> QED BY <1>1, AddIs, SMTT(30)
  <1>8. ASSUME Puts(n, p, low, fits) PROVE done
    <2> DEFINE y == AddLow(s, p, low, fits, 0)
               z == AddHigh(s, p, low, fits, 0)
               x == IF low THEN y ELSE z
    <2>1. slot' = [slot EXCEPT ![n] = x] /\ UNCHANGED <<freed, wire, failed>>
      BY <1>8 DEF Puts
    <2>2. /\ x.fd = s.fd
          /\ ~low => x.high = s.high \o pkt(0) /\ x.low = s.low
          /\ low => x.high = s.high /\ x.low = s.low \o pkt(0)
      <3>1. /\ z.fd = s.fd /\ z.high = s.high \o pkt(0) /\ z.low = s.low
            /\ y.fd = s.fd /\ y.high = s.high /\ y.low = s.low \o pkt(0)
        BY <1>1, <1>6, AddIs, ZenonT(30)
      <3> HIDE DEF y, z
      <3> QED BY <3>1
    <2> HIDE DEF x
    <2>3. slot'[n] = x /\ \A m \in Table : m # n => slot'[m] = slot[m]
      BY <1>7, <2>1
    <2>4. \/ /\ slot'[n].high = s.high \o pkt(0) /\ slot'[n].low = s.low
             /\ ~low \/ s.low = <<>>
          \/ /\ slot'[n].high = s.high /\ slot'[n].low = s.low \o pkt(0)
             /\ low
      BY <2>2, <2>3
    <2>5. slot'[n].fd = s.fd
      BY <2>2, <2>3
    <2>6. Moves(n, {p})
      BY <2>1, <2>3, <2>4, <2>5, QueueMoves
    <2> QED BY <2>1, <2>6
  <1>9. ASSUME NEW k \in K, Writes(n, p, low, fits, k), send_buffer_empty(s) PROVE done
    <2>0. k \in 0 .. PktLen /\ s.high = <<>> /\ s.low = <<>>
      BY <1>9, Bounds DEF send_buffer_empty
    <2> DEFINE f == s.fd
               out == SubSeq(pkt(0), 1, k)
               udp == s.kind = "udp"
               y == AddLow(s, p, low, fits, k)
               x == AddHigh(s, p, low, fits, k)
    <2>1. /\ slot' = IF k = PktLen THEN slot ELSE [slot EXCEPT ![n] = IF udp /\ low THEN y ELSE x]
          /\ freed' = IF k = PktLen THEN freed \cup {p} ELSE freed
          /\ wire' = [wire EXCEPT ![f] = @ \o out] /\ failed' = failed
      BY <1>9 DEF Writes
    <2>2. \A i \in Ids : wire'[i] = IF i = f THEN wire[i] \o out ELSE wire[i]
      <3> HIDE DEF f, out
      <3> QED BY <1>1, <2>1
    <2>3. pkt(k) \in Seq(Chunk) /\ Len(pkt(k)) = PktLen - k /\ pkt(0) \in Seq(Chunk)
      BY <1>6, <2>0, ChunksType
    <2>4. CASE k = PktLen
      <3>1. slot' = slot /\ freed' = freed \cup {p}
        BY <2>1, <2>4
      <3>2. pkt(k) = <<>>
        <4>1. Len(pkt(k)) = 0
          BY <2>3, <2>4, Bounds
        <4> QED BY <2>3, <4>1
      <3>3. /\ slot'[n].fd = s.fd /\ slot'[n].low = <<>> /\ slot'[n].high = pkt(k)
            /\ \A m \in Table : m # n => slot'[m] = slot[m]
        BY <2>0, <3>1, <3>2
      <3>4. Moves(n, {p})
        BY <1>9, <2>0, <2>2, <2>4, <3>1, <3>3, PartMoves
      <3> QED BY <2>1, <3>4
    <2>5. CASE k # PktLen /\ ~(udp /\ low)
      <3>1. slot' = [slot EXCEPT ![n] = x] /\ freed' = freed
        BY <2>1, <2>5
      <3>2. x.fd = s.fd /\ x.high = s.high \o pkt(k) /\ x.low = s.low
        BY <1>b, <2>0, Zenon
      <3> HIDE DEF x
      <3>3. slot'[n] = x /\ \A m \in Table : m # n => slot'[m] = slot[m]
        BY <1>7, <3>1
      <3>4. <<>> \o pkt(k) = pkt(k)
        BY <2>3, ConcatEmptySeq
      <3>5. slot'[n].fd = s.fd /\ slot'[n].low = <<>> /\ slot'[n].high = pkt(k)
        BY <2>0, <3>2, <3>3, <3>4
      <3>6. Moves(n, {p})
        BY <1>9, <2>0, <2>2, <3>1, <3>3, <3>5, PartMoves
      <3> QED BY <2>1, <3>6
    <2>6. CASE k # PktLen /\ udp /\ low
      <3>0. k = 0
        BY <2>6
      <3>1. slot' = [slot EXCEPT ![n] = y] /\ freed' = freed
        BY <2>1, <2>6
      <3>2. y.fd = s.fd /\ y.high = s.high /\ y.low = s.low \o pkt(0)
        <4>1. y.fd = s.fd /\ y.high = s.high /\ y.low = s.low \o pkt(k)
          BY <1>b, <2>0, Zenon
        <4> QED BY <3>0, <4>1, Zenon
      <3> HIDE DEF y
      <3>3. slot'[n] = y /\ \A m \in Table : m # n => slot'[m] = slot[m]
        BY <1>7, <3>1
      <3>4. wire' = wire
        <4>1. out = <<>>
          <5>1. SubSeq(pkt(0), 1, 0) = <<>>
            BY SubSeqEmpty
          <5> QED BY <3>0, <5>1
        <4>2. \A i \in Ids : wire[i] \in Seq(Chunk) /\ wire[i] \o <<>> = wire[i]
          BY <1>1, ConcatEmptySeq
        <4> HIDE DEF f, out
        <4>3. \A i \in Ids : wire'[i] = wire[i]
          BY <2>2, <4>1, <4>2
        <4>4. wire' = [i \in Ids |-> wire'[i]]
          BY <1>1, <2>1
        <4> QED BY <1>1, <4>3, <4>4
      <3>5. slot'[n].high = s.high /\ slot'[n].low = s.low \o pkt(0) /\ slot'[n].fd = s.fd
        BY <3>2, <3>3
      <3>6. Moves(n, {p})
        BY <2>6, <3>1, <3>3, <3>4, <3>5, QueueMoves
      <3> QED BY <2>1, <3>6
    <2> QED BY <2>4, <2>5, <2>6
  <1>10. \/ Drops(p) \/ Abort("listen") \/ CloseSlot(n, <<>>, "CLOSE", s.id, "clear")
         \/ send_buffer_empty(s) /\ \E k \in K : Writes(n, p, low, fits, k)
         \/ Puts(n, p, low, fits)
    BY Zenon DEF SendCase
  <1> HIDE DEF K, s
  <1> QED BY <1>3, <1>4, <1>5, <1>8, <1>9, <1>10

-----------------------------------------------------------------------------
(* The packets in the pipe                                                 *)

\* A request that is taken from the pipe leaves the others in order.
LEMMA TakenPipe ==
  ASSUME TypeInv, PipeInv, ctrl # <<>>, ctrl' = Tail(ctrl), UNCHANGED used
  PROVE  /\ PipeInv' /\ \A x : Old(x) => Old(x)'
         /\ 1 \in DOMAIN ctrl /\ Head(ctrl) = ctrl[1]
         /\ \A p : p = Head(ctrl).pkt /\ p # Nil => Old(p)' /\ \A x : Old(x) => x < p
  <1>1. ctrl \in Seq(Request)
    BY DEF TypeInv, PipeType
  <1>2. /\ 1 \in DOMAIN ctrl /\ Head(ctrl) = ctrl[1]
        /\ \A i \in DOMAIN ctrl' : i \in Nat /\ i + 1 \in DOMAIN ctrl /\ ctrl'[i] = ctrl[i + 1] /\ 1 < i + 1
    BY <1>1
  <1>3. \A i, j \in DOMAIN ctrl' : i < j => i + 1 < j + 1
    BY <1>2
  <1>4. PipeInv'
    <2>1. \A i \in DOMAIN ctrl' : ctrl'[i].pkt <= used'["D"]
      BY <1>2 DEF PipeInv
    <2>2. ASSUME NEW i \in DOMAIN ctrl', NEW j \in DOMAIN ctrl', i < j, ctrl'[i].pkt # Nil,
                 ctrl'[j].pkt # Nil
          PROVE  ctrl'[i].pkt < ctrl'[j].pkt
      BY <1>2, <1>3, <2>2 DEF PipeInv
    <2> QED BY <2>1, <2>2 DEF PipeInv
  <1>5. ASSUME NEW x, Old(x) PROVE Old(x)'
    BY <1>2, <1>5 DEF Old
  <1>6. ASSUME ctrl[1].pkt # Nil, NEW p, p = ctrl[1].pkt PROVE Old(p)'
    <2>1. \A i \in DOMAIN ctrl' : ctrl'[i].pkt # Nil => ctrl[1].pkt < ctrl'[i].pkt
      BY <1>2, <1>6 DEF PipeInv
    <2>2. ctrl[1].pkt <= used["D"]
      BY <1>2 DEF PipeInv
    <2> QED BY <1>6, <2>1, <2>2 DEF Old
  <1>7. ASSUME ctrl[1].pkt # Nil, NEW x, Old(x) PROVE x < ctrl[1].pkt
    BY <1>2, <1>7 DEF Old
  <1> HIDE DEF Old
  <1> QED BY <1>2, <1>4, <1>5, <1>6, <1>7

\* A request behind the others, with no packet or with the next one.
LEMMA AddedPipe ==
  ASSUME TypeInv, PipeInv, NEW r \in Request, ctrl' = Append(ctrl, r), Len(ctrl) < PipeCap,
         r.op \in Sends => r.pkt # Nil,
         \/ r.pkt = Nil /\ UNCHANGED used
         \/ r.pkt = used["D"] + 1 /\ used'["D"] = used["D"] + 1
  PROVE  PipeInv' /\ \A x \in Nat : Old(x) => Old(x)'
  <1> DEFINE u == used["D"]
             v == used'["D"]
             l == Len(ctrl)
             p == r.pkt
  <1>1. u \in Nat
    BY CallKept DEF Used
  <1>2. (p = Nil /\ v = u) \/ (p = u + 1 /\ v = u + 1)
    OBVIOUS
  <1>3. /\ DOMAIN ctrl' = 1 .. (l + 1) /\ l \in Nat /\ DOMAIN ctrl = 1 .. l
        /\ ctrl'[l + 1] = r /\ \A i \in DOMAIN ctrl : ctrl'[i] = ctrl[i]
    BY PipeSet DEF TypeInv
  <1>4. \A i \in DOMAIN ctrl' : (i \in DOMAIN ctrl /\ ctrl'[i].pkt = ctrl[i].pkt) \/ (i = l + 1 /\ ctrl'[i].pkt = p)
    BY <1>3
  <1>5. \A i \in DOMAIN ctrl : ctrl[i].pkt \in Nat /\ ctrl[i].pkt <= u /\ i < l + 1
    <2>1. \A i \in DOMAIN ctrl : ctrl[i] \in Request /\ i < l + 1
      BY <1>3 DEF TypeInv, PipeType
    <2>2. \A i \in DOMAIN ctrl : ctrl[i].pkt \in 0 .. MaxSends
      BY <2>1 DEF Request
    <2> QED BY <2>1, <2>2, Bounds DEF PipeInv
  <1>6. \A i, j \in DOMAIN ctrl : i < j /\ ctrl[i].pkt # Nil /\ ctrl[j].pkt # Nil => ctrl[i].pkt < ctrl[j].pkt
    BY DEF PipeInv
  <1> HIDE DEF u, v, l, p
  <1>7. \A i \in DOMAIN ctrl' : ctrl'[i].pkt <= v
    BY <1>1, <1>2, <1>4, <1>5 DEF Nil
  <1>8. ASSUME NEW i \in DOMAIN ctrl', NEW j \in DOMAIN ctrl', i < j, ctrl'[i].pkt # Nil, ctrl'[j].pkt # Nil
        PROVE  ctrl'[i].pkt < ctrl'[j].pkt
    <2>0. i \in 1 .. l + 1 /\ j \in 1 .. l + 1 /\ l \in Nat
      BY <1>3
    <2>1. i \in DOMAIN ctrl /\ ctrl'[i].pkt = ctrl[i].pkt
      BY <1>4, <1>8, <2>0
    <2>2. CASE j \in DOMAIN ctrl /\ ctrl'[j].pkt = ctrl[j].pkt
      BY <1>6, <1>8, <2>1, <2>2
    <2>3. CASE ctrl'[j].pkt = p
      <3>1. p = u + 1 /\ ctrl[i].pkt \in Nat /\ ctrl[i].pkt <= u
        BY <1>2, <1>5, <1>8, <2>1, <2>3
      <3> QED BY <1>1, <2>1, <2>3, <3>1
    <2> QED BY <1>4, <2>2, <2>3
  <1>9. ASSUME NEW x \in Nat, Old(x) PROVE Old(x)'
    <2>1. x <= u /\ \A i \in DOMAIN ctrl : ctrl[i].pkt # Nil => x < ctrl[i].pkt
      BY <1>9 DEF Old, u
    <2>2. x <= v
      BY <1>1, <1>2, <2>1
    <2>3. p # Nil => x < p
      BY <1>1, <1>2, <2>1
    <2>4. \A i \in DOMAIN ctrl' : ctrl'[i].pkt # Nil => x < ctrl'[i].pkt
      BY <1>4, <2>1, <2>3
    <2> QED BY <2>2, <2>4 DEF Old, v
  <1> QED BY <1>7, <1>8, <1>9 DEF PipeInv, v

\* Lists that stay as they are, while the pipe goes on.
LEMMA OldKept ==
  ASSUME TypeInv, OldInv, ListInv, OnceInv, UNCHANGED <<slot, freed, wire>>,
         \A x \in Nat : Old(x) => Old(x)'
  PROVE  OldInv' /\ ListInv' /\ OnceInv'
  <1>1. ListInv' /\ OnceInv'
    BY DEF ListInv, OnceInv, Held
  <1>2. /\ freed \subseteq Nat
        /\ \A n \in Table : Held(n) \subseteq Nat
        /\ \A i \in Ids : Packets(wire[i]) \subseteq Nat
    <2>1. /\ freed \subseteq 1 .. MaxSends /\ wire \in [Ids -> Seq(Chunk)] /\ slot \in [Table -> SlotRec]
      BY DEF TypeInv, HistType, SlotType
    <2>2. \A n \in Table : Held(n) \subseteq 1 .. MaxSends
      BY <2>1, SlotFields, PacketsType DEF Held
    <2>3. \A i \in Ids : Packets(wire[i]) \subseteq 1 .. MaxSends
      BY <2>1, PacketsType
    <2> QED BY <2>1, <2>2, <2>3, Bounds
  <1>3. \A x \in freed' : Old(x)'
    BY <1>2 DEF OldInv
  <1>4. \A n \in Table : \A x \in Held(n)' : Old(x)'
    <2>1. \A n \in Table : Held(n)' = Held(n)
      BY DEF Held
    <2> QED BY <1>2, <2>1 DEF OldInv
  <1>5. \A i \in Ids : \A x \in Packets(wire'[i]) : Old(x)'
    BY <1>2 DEF OldInv
  <1> HIDE DEF Old, Held
  <1> QED BY <1>1, <1>3, <1>4, <1>5 DEF OldInv

\* A step on a slot that takes nothing from the pipe keeps the invariant.
LEMMA MovesQuiet ==
  ASSUME TypeInv, PipeInv, OldInv, ListInv, OnceInv, NEW n \in Table, Moves(n, {}),
         PipeInv', \A x : Old(x) => Old(x)'
  PROVE  OldInv' /\ ListInv' /\ OnceInv'
  BY MovesDone

\* What a caller's request adds to the pipe.
LEMMA RequestPacket ==
  ASSUME TypeInv, NEW u \in Users, SendRequest(u)
  PROVE  /\ \E q \in Request :
              /\ ctrl' = Append(ctrl, q) /\ Len(ctrl) < PipeCap /\ (q.op \in Sends => q.pkt # Nil)
              /\ \/ q.pkt = Nil /\ UNCHANGED used
                 \/ q.pkt = used["D"] + 1 /\ used'["D"] = used["D"] + 1
         /\ UNCHANGED <<slot, freed, wire, failed>>
  <1> DEFINE r == user[u].req
             send == r.op \in {"D", "P", "A"}
             d == used["D"]
             p == IF send THEN d + 1 ELSE Nil
             q == [r EXCEPT !.pkt = p]
  <1>1. /\ Call(u, "request") /\ Len(ctrl) < PipeCap /\ (send => d < MaxSends)
        /\ ctrl' = Append(ctrl, q)
        /\ used' = IF send THEN [used EXCEPT !["D"] = d + 1] ELSE used
        /\ UNCHANGED slot
    BY DEF SendRequest
  <1>2. r \in Req /\ r.id \in Ids /\ used \in [Used -> Nat] /\ d \in Nat /\ "D" \in Used
    BY <1>1, CallFields, CallKept DEF Call, Used
  <1>3. UNCHANGED <<freed, wire, failed>>
    BY <1>1 DEF Call, histVars
  <1>4. (send /\ p = d + 1 /\ used' = [used EXCEPT !["D"] = d + 1] /\ d < MaxSends) \/ (~send /\ p = Nil /\ used' = used)
    BY <1>1
  <1>5. p \in 0 .. MaxSends
    <2> HIDE DEF d, p
    <2> QED BY <1>2, <1>4, Bounds DEF Nil
  <1>6. (p = Nil /\ UNCHANGED used) \/ (p = d + 1 /\ used'["D"] = d + 1)
    <2> HIDE DEF d, p
    <2> QED BY <1>2, <1>4
  <1>7. send => p # Nil
    <2> HIDE DEF d, p
    <2> QED BY <1>2, <1>4 DEF Nil
  <1> HIDE DEF p
  <1>8. q \in Request /\ q.op = r.op /\ q.pkt = p
    BY <1>2, <1>5 DEF Req, Request, Ops
  <1> HIDE DEF q, d
  <1>9. q.op \in Sends => q.pkt # Nil
    BY <1>7, <1>8 DEF Sends
  <1> QED BY <1>1, <1>3, <1>6, <1>8, <1>9 DEF d

\* No call of the interface disturbs the lists or the order of the packets.
LEMMA CallerWrites ==
  ASSUME WriteInv, NEW u \in Users, Caller(u)
  PROVE  PipeInv' /\ OldInv' /\ ListInv' /\ OnceInv' /\ failed' = failed
  <1>0. TypeInv /\ PipeInv /\ OldInv /\ ListInv /\ OnceInv
    BY DEF WriteInv
  <1>1. CASE SendRequest(u)
    <2>1. PICK q \in Request :
              /\ ctrl' = Append(ctrl, q) /\ Len(ctrl) < PipeCap /\ (q.op \in Sends => q.pkt # Nil)
              /\ \/ q.pkt = Nil /\ UNCHANGED used
                 \/ q.pkt = used["D"] + 1 /\ used'["D"] = used["D"] + 1
      BY <1>0, <1>1, RequestPacket
    <2>2. UNCHANGED <<slot, freed, wire, failed>>
      BY <1>0, <1>1, RequestPacket
    <2>3. PipeInv' /\ \A x \in Nat : Old(x) => Old(x)'
      BY <1>0, <2>1, AddedPipe
    <2> QED BY <1>0, <2>2, <2>3, OldKept
  <1>2. ASSUME UNCHANGED ctrl, used'["D"] = used["D"]
        PROVE  PipeInv' /\ \A x : Old(x) => Old(x)'
    BY <1>0, <1>2 DEF PipeInv, Old
  <1>3. CASE ReserveCas(u)
    <2>1. PICK n \in Table : n = HASH_ID(user[u].req.id)
      BY <1>0, <1>3, ReserveCasIs
    <2>2. UNCHANGED <<ctrl, used, failed, freed, wire>>
      BY <1>0, <1>3, ReserveCasIs DEF ReserveCas, Call, histVars
    <2>3. /\ \A m \in Table : m # n => slot'[m] = slot[m]
          /\ slot'[n].high = slot[n].high /\ slot'[n].low = slot[n].low /\ slot'[n].fd = slot[n].fd
      BY <1>0, <1>3, <2>1, ReserveCasIs
    <2>4. Moves(n, {})
      BY <1>0, <2>2, <2>3, QuietMoves
    <2>5. PipeInv' /\ \A x : Old(x) => Old(x)'
      BY <1>2, <2>2
    <2> QED BY <1>0, <2>2, <2>4, <2>5, MovesQuiet
  <1>4. CASE ReserveSetId(u)
    <2>1. PICK n \in Table : n = HASH_ID(user[u].req.id)
      BY <1>0, <1>4, ReserveSetIdIs
    <2>2. UNCHANGED <<ctrl, used, failed, freed, wire>>
      BY <1>0, <1>4, ReserveSetIdIs DEF ReserveSetId, histVars
    <2>3. /\ \A m \in Table : m # n => slot'[m] = slot[m]
          /\ slot'[n].high = slot[n].high /\ slot'[n].low = slot[n].low /\ slot'[n].fd = Nil
      BY <1>0, <1>4, <2>1, ReserveSetIdIs
    <2>4. Moves(n, {})
      BY <1>0, <2>2, <2>3, QuietMoves
    <2>5. PipeInv' /\ \A x : Old(x) => Old(x)'
      BY <1>2, <2>2
    <2> QED BY <1>0, <2>2, <2>4, <2>5, MovesQuiet
  <1>5. ASSUME UNCHANGED <<slot, freed, wire, failed, ctrl>>, used'["D"] = used["D"]
        PROVE  PipeInv' /\ OldInv' /\ ListInv' /\ OnceInv' /\ failed' = failed
    BY <1>0, <1>2, <1>5, OldKept
  <1>6. used \in [Used -> Nat]
    BY <1>0, CallKept
  <1>7. CASE Listen(u) \/ Connect(u) \/ Udp(u) \/ Bind(u)
    <2>1. PICK op \in Opens : Open(u, op)
      BY <1>7 DEF Listen, Connect, Udp, Bind, Opens
    <2>2. UNCHANGED <<slot, freed, wire, failed, ctrl>> /\ used' = [used EXCEPT ![op] = @ + 1]
      BY <2>1 DEF Open, Call, histVars
    <2>3. used'["D"] = used["D"]
      BY <1>6, <2>2 DEF Opens, Used
    <2> QED BY <1>5, <2>2, <2>3
  <1>8. CASE ReserveFetch(u) \/ ReserveLook(u)
    <2>1. UNCHANGED <<slot, freed, wire, failed, ctrl, used>>
      BY <1>8 DEF ReserveFetch, ReserveLook, Call, histVars
    <2> QED BY <1>5, <2>1
  <1>9. CASE Send(u, "D", TRUE) \/ Send(u, "P", TRUE) \/ \E fits \in BOOLEAN : Send(u, "A", fits)
    <2>1. UNCHANGED <<slot, freed, wire, failed, ctrl, used>>
      BY <1>9 DEF Send, Call, histVars
    <2> QED BY <1>5, <2>1
  <1>10. CASE Close(u) \/ \E fits \in BOOLEAN : UdpConnect(u, fits)
    <2>1. /\ UNCHANGED <<slot, freed, wire, failed, ctrl>>
          /\ used' = [used EXCEPT !["K"] = @ + 1] \/ used' = [used EXCEPT !["C"] = @ + 1]
      BY <1>10 DEF Close, UdpConnect, Call, histVars
    <2>2. used'["D"] = used["D"]
      BY <1>6, <2>1 DEF Used
    <2> QED BY <1>5, <2>1, <2>2
  <1> QED BY <1>1, <1>3, <1>4, <1>7, <1>8, <1>9, <1>10 DEF Caller

-----------------------------------------------------------------------------
(* Steps of the poll thread                                                *)

\* A step that leaves the lists, the wire and the freed packets alone.
LEMMA StillMoves ==
  ASSUME TypeInv, ListInv, OnceInv, UNCHANGED <<slot, freed, wire>>
  PROVE  \E n \in Table : Moves(n, {})
  <1>1. 0 \in Table
    BY SlotAssumption DEF Table
  <1>2. Moves(0, {})
    BY <1>1, QuietMoves
  <1> QED BY <1>1, <1>2

\* A slot that changes its type keeps its lists.
LEMMA TypeMoves ==
  ASSUME TypeInv, ListInv, OnceInv, NEW n \in Table, NEW t \in Types,
         slot' = [slot EXCEPT ![n].type = t], UNCHANGED <<freed, wire>>
  PROVE  Moves(n, {})
  <1>1. /\ \A m \in Table : m # n => slot'[m] = slot[m]
        /\ slot'[n].fd = slot[n].fd /\ slot'[n].high = slot[n].high /\ slot'[n].low = slot[n].low
    BY SetTypeIs DEF TypeInv
  <1> QED BY <1>1, QuietMoves

\* A slot that is given up keeps its lists.
LEMMA DiscardMoves ==
  ASSUME TypeInv, ListInv, OnceInv, NEW id \in Ids, NEW closes, Discard(id, closes)
  PROVE  failed' = failed /\ \E n \in Table : Moves(n, {})
  <1>1. PICK n \in Table : n = HASH_ID(id)
    BY HashType, Bounds DEF Ids
  <1>2. /\ \A m \in Table : m # n => slot'[m] = slot[m] /\ UNCHANGED <<freed, wire, failed>>
        /\ slot'[n].fd = slot[n].fd /\ slot'[n].high = slot[n].high /\ slot'[n].low = slot[n].low
    BY <1>1, DiscardIs
  <1>3. UNCHANGED <<freed, wire, failed>>
    BY DiscardIs
  <1> QED BY <1>2, <1>3, QuietMoves

\* new_fd asserts that the lists of the slot are empty.
LEMMA NewMoves ==
  ASSUME TypeInv, ListInv, OnceInv, NEW id \in Ids, NEW t \in Types, NEW w \in {"NONE", "IN", "INOUT"},
         NEW k \in Kinds, send_buffer_empty(slot[HASH_ID(id)]), new_fd(id, t, w, k),
         UNCHANGED <<freed, wire>>
  PROVE  \E n \in Table : Moves(n, {})
  <1>1. PICK n \in Table : n = HASH_ID(id)
    BY HashType, Bounds DEF Ids
  <1>2. /\ \A m \in Table : m # n => slot'[m] = slot[m]
        /\ slot'[n].fd = id /\ send_buffer_empty(slot'[n])
    BY <1>1, NewFdIs
  <1>3. send_buffer_empty(slot[n])
    BY <1>1
  <1>4. slot'[n].high = slot[n].high /\ slot'[n].low = slot[n].low
    BY <1>2, <1>3 DEF send_buffer_empty
  <1>5. slot'[n].fd \in Ids /\ HASH_ID(slot'[n].fd) = n
    BY <1>1, <1>2
  <1> QED BY <1>2, <1>3, <1>4, <1>5, QuietMoves

\* A step of the poll thread that takes no packet from the pipe.
Calm == failed' # "uncomplete" /\ \E n \in Table : Moves(n, {})

\* A write that fails after some chunks.
LEMMA FailMoves ==
  ASSUME TypeInv, ListInv, OnceInv, NEW n \in Table, WriteFails(n)
  PROVE  Moves(n, {}) /\ failed' \in {failed, "reserve"}
  <1> DEFINE q == Queued(slot[n])
  <1>1. slot[n] \in SlotRec /\ ListOK(slot[n])
    BY DEF TypeInv, SlotType, ListInv
  <1>2. q \in Seq(Chunk) /\ Good(q, TRUE) /\ Len(q) \in Nat
    BY <1>1, QueuedType, QueuedIs DEF ListOK
  <1>3. slot[n].id \in Ids \cup {Nil} /\ "CLOSE" \in MsgTypes
    BY <1>1, SlotFields DEF MsgTypes
  <1>4. PICK k \in 0 .. (Len(q) - 1) : CloseSlot(n, SubSeq(q, 1, k), "CLOSE", slot[n].id, "clear")
    BY DEF WriteFails
  <1>5. k \in 0 .. Len(q)
    BY <1>2
  <1> DEFINE a == SubSeq(q, 1, k)
             b == SubSeq(q, k + 1, Len(q))
  <1> HIDE DEF q
  <1>6. a \in Seq(Chunk) /\ b \in Seq(Chunk) /\ q = a \o b
    BY <1>2, <1>5, GoodParts
  <1> HIDE DEF a, b
  <1>7. CloseSlot(n, a, "CLOSE", slot[n].id, "clear")
    BY <1>4 DEF a
  <1>8. Queued(slot[n]) = a \o b
    BY <1>6 DEF q
  <1> QED BY <1>3, <1>6, <1>7, <1>8, CloseMoves

\* A partly written packet is never at the head of the low list.
LEMMA LowWhole ==
  ASSUME TypeInv, ListInv, NEW n \in Table
  PROVE  ~list_uncomplete(slot[n].low)
  <1>1. slot[n] \in SlotRec /\ ListOK(slot[n])
    BY DEF TypeInv, SlotType, ListInv
  <1>2. slot[n].low \in Seq(Chunk)
    BY <1>1, SlotFields
  <1>3. slot[n].low # <<>> => Head(slot[n].low) = slot[n].low[1]
    BY <1>2
  <1> QED BY <1>1, <1>3 DEF list_uncomplete, ListOK

\* start_socket
LEMMA StartCalm ==
  ASSUME TypeInv, ListInv, OnceInv, StartSocket
  PROVE  Calm
  <1>1. Cmd({"S"})
    BY DEF StartSocket
  <1>2. failed = "NONE"
    BY <1>1 DEF Cmd
  <1>3. PICK id \in Ids, n \in Table : id = Head(ctrl).id /\ n = HASH_ID(id)
    BY <1>1, CmdIs
  <1>4. CASE UNCHANGED <<alloc_id, slot, fdVars, histVars, failed>>
    BY <1>2, <1>4, StillMoves DEF Calm, histVars
  <1>5. CASE Discard(id, {})
    BY <1>2, <1>5, DiscardMoves DEF Calm
  <1>6. CASE /\ slot' = [slot EXCEPT ![n].type = IF @ = "PACCEPT" THEN "CONNECTED" ELSE "LISTEN"]
             /\ UNCHANGED <<alloc_id, opened, histVars, failed>>
    <2> DEFINE t == IF slot[n].type = "PACCEPT" THEN "CONNECTED" ELSE "LISTEN"
    <2>1. slot' = [slot EXCEPT ![n].type = t] /\ UNCHANGED <<freed, wire, failed>>
      BY <1>6 DEF histVars
    <2>2. t \in Types
      BY DEF Types
    <2> HIDE DEF t
    <2>3. Moves(n, {})
      BY <2>1, <2>2, TypeMoves
    <2> QED BY <1>2, <2>1, <2>3 DEF Calm
  <1>7. \/ UNCHANGED <<alloc_id, slot, fdVars, histVars, failed>>
        \/ Discard(id, {})
        \/ /\ slot' = [slot EXCEPT ![n].type = IF @ = "PACCEPT" THEN "CONNECTED" ELSE "LISTEN"]
           /\ UNCHANGED <<alloc_id, opened, histVars, failed>>
    BY <1>3, Zenon DEF StartSocket
  <1> QED BY <1>4, <1>5, <1>6, <1>7

\* The requests that make a socket.
LEMMA MakeCalm ==
  ASSUME TypeInv, ListInv, OnceInv, ListenSocket \/ OpenSocket \/ BindSocket \/ AddUdpSocket
  PROVE  Calm
  <1>1. PICK op : Cmd(op)
    BY DEF ListenSocket, OpenSocket, BindSocket, AddUdpSocket
  <1>2. failed = "NONE"
    BY <1>1 DEF Cmd
  <1>3. PICK id \in Ids, n \in Table : id = Head(ctrl).id /\ n = HASH_ID(id)
    BY <1>1, CmdIs
  <1> DEFINE a == NewFdAsserts(slot[n])
  <1>4. a # "uncomplete"
    BY DEF NewFdAsserts
  <1>5. ASSUME NEW t \in Types, NEW w \in {"NONE", "IN", "INOUT"}, NEW k \in Kinds, a = "NONE",
               new_fd(id, t, w, k), UNCHANGED <<histVars, failed>>
        PROVE  Calm
    <2>1. send_buffer_empty(slot[HASH_ID(id)])
      BY <1>3, <1>5, AssertsIs
    <2> QED BY <1>2, <1>5, <2>1, NewMoves DEF Calm, histVars
  <1>6. /\ {"PLISTEN", "CONNECTED", "CONNECTING", "BIND", "INVALID"} \subseteq Types
        /\ {"tcp", "bound", "udp"} \subseteq Kinds
    BY DEF Types, Kinds
  <1>7. CASE failed' = a /\ UNCHANGED <<slot, histVars>>
    <2>1. UNCHANGED <<slot, freed, wire>> /\ failed' # "uncomplete"
      BY <1>4, <1>7 DEF histVars
    <2> QED BY <2>1, StillMoves DEF Calm
  <1>8. CASE \E closes : Discard(id, closes)
    BY <1>2, <1>8, DiscardMoves DEF Calm
  <1>9. CASE slot' = [slot EXCEPT ![n].type = "INVALID"] /\ UNCHANGED <<histVars, failed>>
    BY <1>2, <1>6, <1>9, TypeMoves DEF Calm, histVars
  <1>10. CASE a = "NONE" /\ new_fd(id, "PLISTEN", "NONE", "tcp") /\ UNCHANGED <<histVars, failed>>
    BY <1>5, <1>6, <1>10
  <1>11. CASE a = "NONE" /\ new_fd(id, "CONNECTED", "IN", "tcp") /\ UNCHANGED <<histVars, failed>>
    BY <1>5, <1>6, <1>11
  <1>12. CASE a = "NONE" /\ new_fd(id, "CONNECTING", "INOUT", "tcp") /\ UNCHANGED <<histVars, failed>>
    BY <1>5, <1>6, <1>12
  <1>13. CASE a = "NONE" /\ new_fd(id, "BIND", "IN", "bound") /\ UNCHANGED <<histVars, failed>>
    BY <1>5, <1>6, <1>13
  <1>14. CASE a = "NONE" /\ new_fd(id, "CONNECTED", "IN", "udp") /\ UNCHANGED <<histVars, failed>>
    BY <1>5, <1>6, <1>14
  <1>15. a = NewFdAsserts(slot[HASH_ID(Head(ctrl).id)])
    BY <1>3
  <1> HIDE DEF a
  <1>16. CASE ListenSocket
    BY <1>3, <1>7, <1>10, <1>15, <1>16, Zenon DEF ListenSocket, Abort, Calm
  <1>17. CASE OpenSocket
    BY <1>3, <1>7, <1>8, <1>11, <1>12, <1>15, <1>17, Zenon DEF OpenSocket, Abort, Calm
  <1>18. CASE BindSocket
    BY <1>3, <1>7, <1>8, <1>13, <1>15, <1>18, Zenon DEF BindSocket, Abort, Calm
  <1>19. CASE AddUdpSocket
    BY <1>3, <1>7, <1>9, <1>14, <1>15, <1>19, Zenon DEF AddUdpSocket, Calm
  <1> QED BY <1>16, <1>17, <1>18, <1>19

\* set_udp_address
LEMMA SetAddressCalm ==
  ASSUME TypeInv, ListInv, OnceInv, SetUdpAddress
  PROVE  Calm
  <1>1. Cmd({"C"}) /\ UNCHANGED <<freed, wire, failed>>
    BY DEF SetUdpAddress, histVars
  <1>2. PICK n \in Table : n = HASH_ID(Head(ctrl).id)
    BY <1>1, CmdIs
  <1>3. failed' # "uncomplete"
    BY <1>1 DEF Cmd
  <1>4. /\ \A m \in Table : m # n => slot'[m] = slot[m]
        /\ Alike(slot'[n], slot[n])
    BY <1>2, SetUdpAddressIs
  <1>5. slot'[n].high = slot[n].high /\ slot'[n].low = slot[n].low /\ slot'[n].fd = slot[n].fd
    BY <1>4 DEF Alike
  <1>6. Moves(n, {})
    BY <1>1, <1>4, <1>5, QuietMoves
  <1> QED BY <1>3, <1>6 DEF Calm

\* close_socket
LEMMA CloseCalm ==
  ASSUME TypeInv, ListInv, OnceInv, CloseSocket
  PROVE  Calm
  <1>1. Cmd({"K"})
    BY DEF CloseSocket
  <1>2. failed = "NONE"
    BY <1>1 DEF Cmd
  <1>3. PICK id \in Ids, n \in Table : id = Head(ctrl).id /\ n = HASH_ID(id)
    BY <1>1, CmdIs
  <1> DEFINE s == slot[n]
  <1>4. s \in SlotRec /\ ~list_uncomplete(s.low)
    BY LowWhole DEF TypeInv, SlotType
  <1>5. "CLOSE" \in MsgTypes /\ "HALFCLOSE" \in Types
    BY DEF MsgTypes, Types
  <1>6. CASE UNCHANGED <<alloc_id, slot, fdVars, histVars, failed>>
    BY <1>2, <1>6, StillMoves DEF Calm, histVars
  <1>7. CASE WriteFails(n)
    BY <1>2, <1>7, FailMoves DEF Calm
  <1>8. CASE CloseSlot(n, Queued(s), "CLOSE", id, "clear")
    <2> DEFINE q == Queued(s)
    <2>1. q \in Seq(Chunk)
      BY <1>4, QueuedType
    <2> HIDE DEF q
    <2>2. <<>> \in Seq(Chunk) /\ q = q \o <<>>
      BY <2>1, ConcatEmptySeq
    <2>3. Queued(slot[n]) = q \o <<>> /\ CloseSlot(n, q, "CLOSE", id, "clear")
      BY <1>8, <2>2 DEF q
    <2>4. Moves(n, {}) /\ failed' \in {failed, "reserve"}
      BY <1>5, <2>1, <2>2, <2>3, CloseMoves
    <2> QED BY <1>2, <2>4 DEF Calm
  <1>9. ASSUME NEW k \in Takes(s), WriteOut(n, k, "HALFCLOSE")
        PROVE  Calm
    <2>1. k \in 0 .. Size(s)
      BY <1>4, TakesIs
    <2> QED BY <1>2, <1>5, <1>9, <2>1, WriteMoves DEF Calm
  <1>10. \/ UNCHANGED <<alloc_id, slot, fdVars, histVars, failed>>
         \/ WriteFails(n)
         \/ CloseSlot(n, Queued(s), "CLOSE", id, "clear")
         \/ \E k \in Takes(s) : WriteOut(n, k, "HALFCLOSE")
    BY <1>3, <1>4, Zenon DEF CloseSocket
  <1> HIDE DEF s
  <1> QED BY <1>6, <1>7, <1>8, <1>9, <1>10

\* send_buffer
LEMMA BufferCalm ==
  ASSUME TypeInv, ListInv, OnceInv, SendBuffer
  PROVE  Calm
  <1>1. Event(Streams)
    BY DEF SendBuffer
  <1>2. failed = "NONE"
    BY <1>1 DEF Event
  <1>3. PICK n \in Table : n = Head(ev).s
    BY <1>1, EventIs
  <1> DEFINE s == slot[n]
  <1>4. s \in SlotRec /\ ~list_uncomplete(s.low)
    BY LowWhole DEF TypeInv, SlotType
  <1>5. "CLOSE" \in MsgTypes /\ s.type \in Types /\ s.id \in Ids \cup {Nil}
    BY <1>4, SlotFields DEF MsgTypes
  <1>6. CASE WriteFails(n)
    BY <1>2, <1>6, FailMoves DEF Calm
  <1>7. CASE CloseSlot(n, s.high, "CLOSE", s.id, "clear")
    <2>1. s.high \in Seq(Chunk) /\ s.low \in Seq(Chunk)
      BY <1>4, SlotFields
    <2>2. Queued(slot[n]) = s.high \o s.low
      BY DEF Queued
    <2>3. Moves(n, {}) /\ failed' \in {failed, "reserve"}
      BY <1>5, <1>7, <2>1, <2>2, CloseMoves
    <2> QED BY <1>2, <2>3 DEF Calm
  <1>8. ASSUME NEW k \in Takes(s), WriteOut(n, k, s.type)
        PROVE  Calm
    <2>1. k \in 0 .. Size(s)
      BY <1>4, TakesIs
    <2>2. Moves(n, {}) /\ failed' = failed
      BY <1>5, <1>8, <2>1, WriteMoves
    <2> QED BY <1>2, <2>2 DEF Calm
  <1>9. \/ WriteFails(n)
        \/ CloseSlot(n, s.high, "CLOSE", s.id, "clear")
        \/ \E k \in Takes(s) : WriteOut(n, k, s.type)
    BY <1>3, <1>4, Zenon DEF SendBuffer
  <1> HIDE DEF s
  <1> QED BY <1>6, <1>7, <1>8, <1>9

\* report_connect and the handlers of read events
LEMMA EventCalm ==
  ASSUME TypeInv, ListInv, OnceInv, ReportConnect \/ ForwardMessage \/ ForwardMessageUdp
  PROVE  Calm
  <1>1. PICK types : Event(types)
    BY DEF ReportConnect, ForwardMessage, ForwardMessageUdp
  <1>2. failed = "NONE"
    BY <1>1 DEF Event
  <1>3. PICK n \in Table : n = Head(ev).s
    BY <1>1, EventIs
  <1> DEFINE s == slot[n]
  <1>4. s.id \in Ids \cup {Nil} /\ {"ERROR", "CLOSE"} \subseteq MsgTypes /\ "CONNECTED" \in Types
    BY <1>1, <1>3, EventIs DEF MsgTypes, Types
  <1>5. CASE \E t \in {"ERROR", "CLOSE"}, pc \in {"loop", "clear"} : CloseSlot(n, <<>>, t, s.id, pc)
    BY <1>2, <1>4, <1>5, DropMoves DEF Calm
  <1>6. CASE UNCHANGED <<alloc_id, slot, fdVars, histVars, failed>>
    BY <1>2, <1>6, StillMoves DEF Calm, histVars
  <1>7. CASE slot' = [slot EXCEPT ![n].type = "CONNECTED"] /\ UNCHANGED <<histVars, failed>>
    BY <1>2, <1>4, <1>7, TypeMoves DEF Calm, histVars
  <1>8. \/ \E t \in {"ERROR", "CLOSE"}, pc \in {"loop", "clear"} : CloseSlot(n, <<>>, t, s.id, pc)
        \/ UNCHANGED <<alloc_id, slot, fdVars, histVars, failed>>
        \/ slot' = [slot EXCEPT ![n].type = "CONNECTED"] /\ UNCHANGED <<histVars, failed>>
    BY <1>3, Zenon DEF ReportConnect, ForwardMessage, ForwardMessageUdp
  <1> HIDE DEF s
  <1> QED BY <1>5, <1>6, <1>7, <1>8

\* report_accept
LEMMA AcceptCalm ==
  ASSUME TypeInv, ListInv, OnceInv, ReportAccept
  PROVE  Calm
  <1>1. failed' # "uncomplete"
    BY DEF ReportAccept, Event
  <1>2. UNCHANGED <<freed, wire>>
    BY DEF ReportAccept, histVars
  <1>3. CASE UNCHANGED slot
    BY <1>1, <1>2, <1>3, StillMoves DEF Calm
  <1>4. ASSUME NEW id \in Ids, send_buffer_empty(slot[HASH_ID(id)]), new_fd(id, "PACCEPT", "NONE", "tcp")
        PROVE  Calm
    <2>1. "PACCEPT" \in Types /\ "tcp" \in Kinds
      BY DEF Types, Kinds
    <2> QED BY <1>1, <1>2, <1>4, <2>1, NewMoves DEF Calm
  <1> QED BY <1>3, <1>4, ReportAcceptIs

\* The steps between two requests or two events.
LEMMA LoopCalm ==
  ASSUME TypeInv, ListInv, OnceInv, NoCmd \/ Wait \/ SkipEvent \/ ClearClosedEvent
  PROVE  Calm
  <1>1. UNCHANGED <<slot, freed, wire, failed>> /\ failed = "NONE"
    BY DEF NoCmd, Wait, SkipEvent, ClearClosedEvent, histVars
  <1> QED BY <1>1, StillMoves DEF Calm

\* send_socket takes its packet from the pipe.
LEMMA SendWrites ==
  ASSUME WriteInv, SendSocket
  PROVE  PipeInv' /\ OldInv' /\ ListInv' /\ OnceInv' /\ LowComplete'
  <1>1. TypeInv /\ PipeInv /\ OldInv /\ ListInv /\ OnceInv /\ Cmd({"D", "P", "A"})
    BY DEF WriteInv, SendSocket
  <1>2. ctrl # <<>> /\ ctrl' = Tail(ctrl) /\ UNCHANGED used /\ failed = "NONE"
    BY <1>1 DEF Cmd, callVars
  <1>3. PICK n \in Table, p \in 1 .. MaxSends : n = HASH_ID(Head(ctrl).id) /\ p = Head(ctrl).pkt
    BY <1>1, CmdIs DEF Sends
  <1>4. p # Nil
    BY Bounds DEF Nil
  <1>5. PipeInv' /\ (\A x : Old(x) => Old(x)') /\ Old(p)' /\ \A x : Old(x) => x < p
    BY <1>1, <1>2, <1>3, <1>4, TakenPipe
  <1>6. SlotType' /\ HistType'
    BY <1>1, SendSocketIs DEF TypeInv
  <1>7. PICK low \in BOOLEAN, fits \in BOOLEAN : SendCase(n, p, low, fits)
    BY <1>1, <1>3, SendCases
  <1>8. Moves(n, {p}) /\ failed' \in {failed, "reserve", "listen"}
    BY <1>1, <1>5, <1>6, <1>7, SendMoves
  <1>9. \A x : Old(x) => x # p
    <2>1. ~(p < p)
      OBVIOUS
    <2> QED BY <1>5, <2>1
  <1>10. OldInv' /\ ListInv' /\ OnceInv'
    BY <1>1, <1>5, <1>8, <1>9, MovesDone
  <1> QED BY <1>2, <1>5, <1>8, <1>10 DEF LowComplete

\* Every step of the poll thread keeps the lists and the order of the packets.
LEMMA PollWrites ==
  ASSUME WriteInv, PollThread
  PROVE  PipeInv' /\ OldInv' /\ ListInv' /\ OnceInv' /\ LowComplete'
  <1>1. TypeInv /\ PipeInv /\ OldInv /\ ListInv /\ OnceInv
    BY DEF WriteInv
  <1>2. CASE SendSocket
    BY <1>2, SendWrites
  <1>3. CASE StartAccepted
    <2> DEFINE r == [op |-> "S", id |-> msg.id, pkt |-> Nil, fits |-> TRUE]
    <2>1. /\ r \in Request /\ Len(ctrl) < PipeCap /\ ctrl' = Append(ctrl, r) /\ UNCHANGED <<slot, used>>
          /\ r.op = "S" /\ r.pkt = Nil
      BY <1>1, <1>3, StartAcceptedIs
    <2>2. UNCHANGED <<freed, wire, failed>> /\ failed = "NONE"
      BY <1>3 DEF StartAccepted, histVars
    <2> HIDE DEF r
    <2>3. PipeInv' /\ \A x \in Nat : Old(x) => Old(x)'
      BY <1>1, <2>1, AddedPipe DEF Sends
    <2> QED BY <1>1, <2>1, <2>2, <2>3, OldKept DEF LowComplete
  <1>4. CASE ~SendSocket /\ ~StartAccepted
    <2>1. Calm
      BY <1>1, <1>4, StartCalm, MakeCalm, SetAddressCalm, CloseCalm, BufferCalm, EventCalm, AcceptCalm,
         LoopCalm, Zenon DEF PollThread
    <2>2. UNCHANGED used /\ (UNCHANGED ctrl \/ (ctrl # <<>> /\ ctrl' = Tail(ctrl)))
      BY <1>1, <1>4, PollFrame
    <2>3. PipeInv' /\ \A x : Old(x) => Old(x)'
      <3>1. CASE UNCHANGED ctrl
        BY <1>1, <2>2, <3>1 DEF PipeInv, Old
      <3>2. CASE ctrl # <<>> /\ ctrl' = Tail(ctrl)
        BY <1>1, <2>2, <3>2, TakenPipe
      <3> QED BY <2>2, <3>1, <3>2
    <2>4. PICK n \in Table : Moves(n, {})
      BY <2>1 DEF Calm
    <2>5. OldInv' /\ ListInv' /\ OnceInv'
      BY <1>1, <2>3, <2>4, MovesQuiet
    <2> QED BY <2>1, <2>3, <2>5 DEF Calm, LowComplete
  <1> QED BY <1>2, <1>3, <1>4

\* Empty lists, an empty pipe and nothing written.
LEMMA InitWrites == Init => WriteInv
  <1> SUFFICES ASSUME Init PROVE WriteInv
    OBVIOUS
  <1>1. TypeInv
    BY InitType
  <1>2. /\ \A n \in Table : slot[n].high = <<>> /\ slot[n].low = <<>> /\ slot[n].fd = Nil
        /\ ctrl = <<>> /\ freed = {} /\ failed = "NONE" /\ \A i \in Ids : wire[i] = <<>>
    BY DEF Init
  <1>3. Packets(<<>>) = {} /\ Good(<<>>, TRUE) /\ Good(<<>>, FALSE)
    BY DEF Packets, Good
  <1>4. PipeInv
    BY <1>2 DEF PipeInv
  <1>5. \A n \in Table : Held(n) = {}
    BY <1>2, <1>3 DEF Held
  <1>6. OldInv
    BY <1>2, <1>3, <1>5 DEF OldInv
  <1>7. OnceInv
    BY <1>2, <1>5 DEF OnceInv
  <1>8. \A n \in Table : ListOK(slot[n])
    <2> SUFFICES ASSUME NEW n \in Table PROVE ListOK(slot[n])
      OBVIOUS
    <2>1. <<>> \o <<>> = <<>> /\ DOMAIN <<>> = {}
      OBVIOUS
    <2>2. Queued(slot[n]) = <<>>
      BY <1>2, <2>1 DEF Queued
    <2>3. slot[n].low = <<>> /\ DOMAIN slot[n].low = {}
      BY <1>2, <2>1
    <2>4. Good(Queued(slot[n]), TRUE)
      BY <1>3, <2>2, Zenon
    <2> QED BY <2>3, <2>4, Zenon DEF ListOK
  <1>9. ListInv
    BY <1>2, <1>3, <1>8 DEF ListInv
  <1> QED BY <1>1, <1>2, <1>4, <1>6, <1>7, <1>9 DEF WriteInv, LowComplete

\* Every step keeps the lists and the order of the packets.
LEMMA NextWrites == WriteInv /\ [Next]_vars => WriteInv'
  <1> SUFFICES ASSUME WriteInv, [Next]_vars PROVE WriteInv'
    OBVIOUS
  <1>1. TypeInv'
    BY NextType DEF WriteInv
  <1>2. CASE PollThread
    BY <1>1, <1>2, PollWrites DEF WriteInv
  <1>3. CASE \E u \in Users : Caller(u)
    BY <1>1, <1>3, CallerWrites DEF WriteInv, LowComplete
  <1>4. CASE UNCHANGED vars
    <2>1. UNCHANGED <<slot, freed, wire, ctrl, used, failed>>
      BY <1>4 DEF vars, histVars, callVars
    <2>2. PipeInv' /\ \A x \in Nat : Old(x) => Old(x)'
      BY <2>1 DEF WriteInv, PipeInv, Old
    <2>3. OldInv' /\ ListInv' /\ OnceInv'
      BY <2>1, <2>2, OldKept DEF WriteInv
    <2> QED BY <1>1, <2>1, <2>2, <2>3 DEF WriteInv, LowComplete
  <1> QED BY <1>2, <1>3, <1>4 DEF Next

\* What the lists and the order of the packets are for.
LEMMA WriteInvIs == WriteInv => PacketsWhole /\ PriorityOrder /\ BufferOnce /\ LowComplete
  <1> SUFFICES ASSUME WriteInv PROVE PacketsWhole /\ PriorityOrder /\ BufferOnce /\ LowComplete
    OBVIOUS
  <1>1. TypeInv /\ PipeInv /\ OldInv /\ ListInv /\ OnceInv /\ LowComplete
    BY DEF WriteInv
  <1>2. /\ wire \in [Ids -> Seq(Chunk)] /\ slot \in [Table -> SlotRec] /\ ctrl \in Seq(Request)
        /\ freed \subseteq 1 .. MaxSends
    BY <1>1 DEF TypeInv, HistType, SlotType, PipeType
  <1>3. \A i \in Ids : Good(wire[i], FALSE)
    BY <1>1 DEF ListInv
  <1>4. PacketsWhole
    <2> SUFFICES ASSUME NEW i \in Ids, NEW k \in DOMAIN wire[i], wire[i][k].at > 1
                 PROVE  k > 1 /\ wire[i][k - 1] = [wire[i][k] EXCEPT !.at = @ - 1]
      BY DEF PacketsWhole
    <2> DEFINE w == wire[i]
               c == w[k]
    <2>1. w \in Seq(Chunk) /\ k \in Nat /\ k >= 1 /\ c \in Chunk
      BY <1>2
    <2>2. k # 1 /\ w[k - 1] = Pred(c)
      BY <1>3 DEF Good
    <2>3. k > 1
      BY <2>1, <2>2
    <2>4. Pred(c) = [c EXCEPT !.at = @ - 1]
      <3> HIDE DEF c
      <3> QED BY <2>1 DEF Chunk, Pred
    <2> QED BY <2>2, <2>3, <2>4
  <1>5. PriorityOrder
    BY <1>3 DEF PriorityOrder, Good, Fine
  <1>6. BufferOnce
    <2> DEFINE piped == { ctrl[i].pkt : i \in DOMAIN ctrl } \ {Nil}
    <2>1. \A n \in Table : Packets(Queued(slot[n])) = Held(n)
      BY <1>2, HeldIs DEF Held
    <2>2. ASSUME NEW x \in Nat, Old(x) PROVE x \notin piped
      <3>1. \A i \in DOMAIN ctrl : ctrl[i].pkt # Nil => x < ctrl[i].pkt
        BY <2>2 DEF Old
      <3>2. ~(x < x)
        OBVIOUS
      <3> QED BY <3>1, <3>2
    <2>3. \A n \in Table : Held(n) \subseteq Nat
      <3>1. \A n \in Table : Held(n) \subseteq 1 .. MaxSends
        BY <1>2, SlotFields, PacketsType DEF Held
      <3> QED BY <3>1, Bounds
    <2>4. freed \subseteq Nat
      BY <1>2, Bounds
    <2> HIDE DEF piped
    <2>5. freed \cap piped = {} /\ \A n \in Table : Held(n) \cap piped = {}
      BY <1>1, <2>2, <2>3, <2>4 DEF OldInv
    <2>6. ASSUME NEW n \in Table PROVE Packets(slot[n].high) \cap Packets(slot[n].low) = {}
      <3>1. \A i \in DOMAIN slot[n].high, j \in DOMAIN slot[n].low : slot[n].high[i].pkt # slot[n].low[j].pkt
        BY <1>1, Zenon DEF ListInv, ListOK
      <3> QED BY <3>1 DEF Packets
    <2>7. \A m, n \in Table : m # n => Held(m) \cap Held(n) = {}
      BY <1>1 DEF OnceInv
    <2>8. \A n \in Table : Held(n) \cap (freed \cup piped) = {}
      BY <1>1, <2>5 DEF OnceInv
    <2> HIDE DEF Held
    <2>9. /\ \A m, n \in Table : m # n => Packets(Queued(slot[m])) \cap Packets(Queued(slot[n])) = {}
          /\ \A n \in Table : Packets(Queued(slot[n])) \cap (freed \cup piped) = {}
      BY <2>1, <2>7, <2>8
    <2> QED BY <2>5, <2>6, <2>9, Zenon DEF BufferOnce, piped
  <1> QED BY <1>1, <1>4, <1>5, <1>6

\* The inductive invariant of the lists holds in every reachable state.
LEMMA WritesInvariant == Spec => []WriteInv
  BY InitWrites, NextWrites, PTL DEF Spec

\* PacketsWhole, for every table, pipe and packet length and every use of the
\* interface: send_list, raise_uncomplete, close_socket and send_socket never
\* put the bytes of one packet between those of another.
THEOREM PacketsStayWhole == Spec => []PacketsWhole
  BY WritesInvariant, WriteInvIs, PTL

\* PriorityOrder, for every use: on a socket's wire packets of one priority
\* keep the order in which send_request numbered them, and only a packet of
\* high priority overtakes one of low priority.
THEOREM PrioritiesKept == Spec => []PriorityOrder
  BY WritesInvariant, WriteInvIs, PTL

\* BufferOnce, for every use: the pipe, the lists of all sockets and the freed
\* buffers have no packet in common, so no buffer is freed twice or written
\* after it was freed.
THEOREM BuffersOnce == Spec => []BufferOnce
  BY WritesInvariant, WriteInvIs, PTL

\* LowComplete, for every use: assert(!list_uncomplete(&s->low)) never fails.
THEOREM LowListComplete == Spec => []LowComplete
  BY WritesInvariant, WriteInvIs, PTL
=============================================================================
