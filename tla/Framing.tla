------------------------------ MODULE Framing ------------------------------
(***************************************************************************)
(* Packets out of a byte stream and back: what one client sends arrives in *)
(* pieces, is read into the fixed buffer of its context and cut into       *)
(* packets; the logic thread answers each packet, and the answer is framed *)
(* again.                                                                  *)
(*                                                                         *)
(* The two network modes read differently.  "libevent": the bufferevent    *)
(* collects what the kernel has, and its callback reads as much as fits,   *)
(* unpacks and reads again.  "socket": the poll thread hands over a        *)
(* message with what one read() brought, and the message is copied as a    *)
(* whole or not at all.                                                    *)
(*                                                                         *)
(* A byte is a cell: position `at' of frame number `f' of the client.  The *)
(* first HeaderSize cells of a frame are its header and carry its size.    *)
(***************************************************************************)
EXTENDS Integers, Sequences

CONSTANTS
  Modes,          \* network modes: a subset of {"libevent", "socket"}
  Sizes,          \* frame sizes that clients write, as they write them
  HeaderSize,     \* NETWORK_PACKET_HEADER_SIZE
  TailSize,       \* NETWORK_PACKET_TAIL_SIZE
  MaxBody,        \* NETWORK_PACKET_BUFFER_MAX_SIZE
  DefaultSize,    \* NETWORK_PACKET_BUFFER_DEFAULT_SIZE
  BufferCap,      \* sizeof(ST_ClientContextBuffer::m_chBuffer)
  IntMax,         \* greatest value of the int16_t that holds a frame's size
  MinRead,        \* MIN_READ_BUFFER
  Added,          \* bytes that the hello answer has more than its request
  MaxFrames       \* bound: frames the client sends

ASSUME ModeAssumption == Modes \subseteq {"libevent", "socket"}
ASSUME SizeAssumption ==
  /\ {HeaderSize, MinRead, MaxBody} \subseteq Nat \ {0}
  /\ {TailSize, DefaultSize, BufferCap, IntMax, Added, MaxFrames} \subseteq Nat
  /\ DefaultSize <= MaxBody
  /\ HeaderSize + MaxBody + TailSize <= IntMax
  /\ IntMax <= BufferCap
  /\ Sizes \subseteq 0 .. (2 * IntMax + 1)

Cell == [f : 1 .. MaxFrames, at : 1 .. (2 * IntMax + 1)]

VARIABLES
  mode,           \* which of the two ways the server was built
  frames,         \* sizes of the frames that the client has written
  net,            \* bytes between the client and the reader
  input,          \* evbuffer of the bufferevent, or the message not yet copied
  buffer,         \* m_chBuffer, the first m_iBufferSize bytes
  ptr,            \* pchBufferPtr: bytes of buffer already unpacked
  pc,             \* where the network thread is
  psize,          \* s->p.size: what the next read() asks for
  packets,        \* m_stNetPacketRecvPrepareQueue
  out,            \* answers framed and written: size in the header, and length
  failed          \* the assertion that stopped the program, if one did

readVars == <<net, input, psize>>
vars == <<mode, frames, readVars, buffer, ptr, pc, packets, out, failed>>

-----------------------------------------------------------------------------
(* The header                                                              *)

\* PackInt of a number as int16_t: the two bytes, as an unsigned number.
PackInt(n) == n % (2 * IntMax + 2)

\* UnpackInt: the same two bytes read as int16_t.
UnpackInt(n) == IF n > IntMax THEN n - (2 * IntMax + 2) ELSE n

\* The bytes of frame f of size n: a header at least.
Frame(f, n) == [i \in 1 .. (IF n > HeaderSize THEN n ELSE HeaderSize) |->
                  [f |-> f, at |-> i]]

\* iPacketSize of what begins with cell c; a byte of a body reads as 0.
PacketSize(c) == IF c.at = 1 THEN UnpackInt(frames[c.f]) ELSE 0

\* PrepareHeader of a packet with this body.
PrepareHeader(body) == PackInt(body + HeaderSize + TailSize)

-----------------------------------------------------------------------------
(* Reading                                                                 *)

Running == failed = "NONE"

Least(m, n) == IF m < n THEN m ELSE n

\* The client writes a frame.
ClientSend ==
  /\ Running /\ Len(frames) < MaxFrames
  /\ \E n \in Sizes :
       /\ frames' = Append(frames, n)
       /\ net' = net \o Frame(Len(frames) + 1, n)
  /\ UNCHANGED <<mode, input, psize, buffer, ptr, pc, packets, out, failed>>

\* n bytes arrive at the reader.
Arrive(n) == /\ input' = input \o SubSeq(net, 1, n)
             /\ net' = SubSeq(net, n + 1, Len(net))

\* libevent reads from the socket and calls OnBufferEventRead.
BuffereventRead ==
  /\ Running /\ mode = "libevent" /\ pc = "idle"
  /\ \E n \in 1 .. Len(net) : Arrive(n)
  /\ pc' = "read"
  /\ UNCHANGED <<mode, frames, psize, buffer, ptr, packets, out, failed>>

\* forward_message_tcp: the size of the next read().
NextSize(sz, n) ==
  IF n = sz THEN sz * 2
  ELSE IF sz > MinRead /\ n * 2 < sz THEN sz \div 2 ELSE sz

\* forward_message_tcp and SOCKET_DATA.
ForwardMessageTcp ==
  /\ Running /\ mode = "socket" /\ pc = "idle"
  /\ \E n \in 1 .. Least(psize, Len(net)) :
       /\ Arrive(n)
       /\ psize' = NextSize(psize, n)
  /\ pc' = "read"
  /\ UNCHANGED <<mode, frames, buffer, ptr, packets, out, failed>>

\* Fault: the limit of the buffer is not looked at.
ReadLenAll == Len(input)

\* PacketBufferRead: how much is copied.  The bufferevent gives what fits, a
\* message is copied as a whole.
ReadLen ==
  LET room == BufferCap - Len(buffer)
  IN IF mode = "libevent" THEN Least(room, Len(input))
     ELSE IF room < Len(input) THEN 0 ELSE Len(input)

PacketBufferRead ==
  /\ buffer' = buffer \o SubSeq(input, 1, ReadLen)
  /\ input' = SubSeq(input, ReadLen + 1, Len(input))
  /\ UNCHANGED <<mode, frames, net, psize, ptr, packets, out, failed>>

\* The read at the head of either loop.
ReadFirst ==
  /\ Running /\ pc = "read"
  /\ PacketBufferRead
  /\ pc' = "unpack"

\* Fault: the callback does not read again.
ReadAgainNever ==
  /\ Running /\ pc = "again"
  /\ pc' = "idle"
  /\ UNCHANGED <<mode, frames, readVars, buffer, ptr, packets, out, failed>>

\* The read at the end of OnBufferEventRead: if it brought something the loop
\* goes on.
ReadAgain ==
  /\ Running /\ pc = "again"
  /\ PacketBufferRead
  /\ pc' = IF ReadLen > 0 THEN "read" ELSE "idle"

-----------------------------------------------------------------------------
(* UnpackPacketToRecvQueue                                                 *)

Left == Len(buffer) - ptr

\* The loop ends: too little for a header, for the frame, or no frame at all.
Incomplete ==
  Left >= HeaderSize =>
    LET size == PacketSize(buffer[ptr + 1])
    IN Left < size \/ size < HeaderSize

BodySize == PacketSize(buffer[ptr + 1]) - HeaderSize
Refused == BodySize <= 0 \/ MaxBody < BodySize

\* Fault: the packet that is added begins with its header.
BodyWithHeader == SubSeq(buffer, ptr + 1, ptr + BodySize)

\* The bytes that AddPacket copies.
Body == SubSeq(buffer, ptr + HeaderSize + 1, ptr + HeaderSize + BodySize)

\* One turn of the loop that adds a packet.
UnpackOne ==
  /\ Running /\ pc = "unpack" /\ ~Incomplete /\ ~Refused
  /\ packets' = Append(packets, Body)
  /\ ptr' = ptr + HeaderSize + BodySize
  /\ UNCHANGED <<mode, frames, readVars, buffer, pc, out, failed>>

\* It returns -2 or -3 and the client is closed; what was added stays added.
UnpackRefuse ==
  /\ Running /\ pc = "unpack" /\ ~Incomplete /\ Refused
  /\ pc' = "closed"
  /\ UNCHANGED <<mode, frames, readVars, buffer, ptr, packets, out, failed>>

\* MoveBufferPtr: what was not unpacked moves to the front.
MoveBufferPtr == SubSeq(buffer, ptr + 1, Len(buffer))

\* It returns 0; OnBufferEventRead reads again, _ProcessMessageData goes on
\* while something of the message is left.
UnpackEnd ==
  /\ Running /\ pc = "unpack" /\ Incomplete
  /\ buffer' = MoveBufferPtr
  /\ ptr' = 0
  /\ pc' = IF mode = "libevent" THEN "again"
           ELSE IF input = <<>> THEN "idle" ELSE "read"
  /\ UNCHANGED <<mode, frames, readVars, packets, out, failed>>

-----------------------------------------------------------------------------
(* Answering                                                               *)

\* ST_PacketMemory::Init: the assertion for packets that need extra space.
MemoryInit(size) == size >= DefaultSize => MaxBody >= size

\* HandleCSProtoHello, AddPacket and PacketBufferSend: the answer repeats the
\* request and adds two timestamps.
Answer ==
  LET size == Len(packets[Len(out) + 1]) + Added
  IN /\ Running /\ Len(out) < Len(packets)
     /\ IF MemoryInit(size)
        THEN /\ out' = Append(out, [size |-> PrepareHeader(size),
                                    len |-> HeaderSize + size + TailSize])
             /\ UNCHANGED failed
        ELSE failed' = "buffer_max" /\ UNCHANGED out
     /\ UNCHANGED <<mode, frames, readVars, buffer, ptr, pc, packets>>

-----------------------------------------------------------------------------
Init ==
  /\ mode \in Modes
  /\ frames = <<>> /\ net = <<>> /\ input = <<>>
  /\ psize = MinRead
  /\ buffer = <<>> /\ ptr = 0 /\ pc = "idle"
  /\ packets = <<>> /\ out = <<>> /\ failed = "NONE"

NetThread ==
  \/ BuffereventRead \/ ForwardMessageTcp \/ ReadFirst \/ ReadAgain
  \/ UnpackOne \/ UnpackRefuse \/ UnpackEnd

Next == ClientSend \/ NetThread \/ Answer

Spec == Init /\ [][Next]_vars

\* The network thread runs, and what the client wrote arrives.
FairSpec == Spec /\ WF_vars(NetThread)

-----------------------------------------------------------------------------
(* Properties                                                              *)

\* The buffers hold bytes of the client, the context's buffer no more than
\* its size, and the unpack pointer stays inside what was read.
TypeOK ==
  /\ mode \in Modes /\ frames \in Seq(Sizes) /\ Len(frames) <= MaxFrames
  /\ net \in Seq(Cell) /\ input \in Seq(Cell) /\ psize \in Nat \ {0}
  /\ buffer \in Seq(Cell) /\ Len(buffer) <= BufferCap /\ ptr \in 0 .. Len(buffer)
  /\ pc \in {"idle", "read", "unpack", "again", "closed"}
  /\ packets \in Seq(Seq(Cell))
  /\ out \in Seq([size : 0 .. (2 * IntMax + 1), len : Nat])
  /\ failed \in {"NONE", "buffer_max"}

\* The n-th packet that UnpackPacketToRecvQueue adds is the body of the n-th
\* frame, byte for byte, however the stream was cut into reads and whenever
\* the buffer was full: no frame is skipped, doubled, shifted or joined.
PacketsAreFrames ==
  /\ Len(packets) <= Len(frames)
  /\ \A i \in DOMAIN packets :
       packets[i] = SubSeq(Frame(i, frames[i]), HeaderSize + 1, frames[i])

\* Between two reads nothing is overlooked: the buffer begins with a frame
\* that is not complete (or never will be), and bytes stay in the bufferevent
\* only while the buffer is full: libevent calls back for new bytes only.
NothingOverlooked ==
  pc = "idle" => /\ ptr = 0 /\ Incomplete
                 /\ input # <<>> => mode = "libevent" /\ Len(buffer) = BufferCap

\* A frame that ClientSend wrote after good ones, whose size is a frame's.
GoodSize(n) == HeaderSize < UnpackInt(n) /\ UnpackInt(n) <= HeaderSize + MaxBody
BadSize(n) == UnpackInt(n) >= HeaderSize /\ ~GoodSize(n)
After(f) == f <= Len(frames) /\ \A i \in 1 .. (f - 1) : GoodSize(frames[i])

\* _ProcessMessageData turns for ever: the message does not fit and nothing
\* can be unpacked to make room.
Spins == mode = "socket" /\ pc = "read" /\ Len(buffer) + Len(input) > BufferCap
         /\ ptr = 0 /\ Incomplete

\* A frame that follows good frames is dealt with: it becomes a packet, or the
\* client is closed when its size is out of range.  It is not, only when the
\* message loop spins or the program has stopped.
FramesResolved ==
  \A f \in 1 .. MaxFrames :
    /\ (After(f) /\ GoodSize(frames[f])) ~> (Len(packets) >= f \/ Spins \/ ~Running)
    /\ (After(f) /\ BadSize(frames[f])) ~> (pc = "closed" \/ Spins \/ ~Running)

\* assert(NETWORK_PACKET_BUFFER_MAX_SIZE >= iBufferSize) in
\* ST_PacketMemory::Init: the answer to a request that was accepted fits.
AnswerFits == failed # "buffer_max"
=============================================================================
