---------------------------- MODULE FramingProofs ----------------------------
(***************************************************************************)
(* Proofs about Framing, for both modes, every set of frame sizes, every   *)
(* buffer and header size and any number of frames.                        *)
(***************************************************************************)
EXTENDS Framing, SequenceTheorems, TLAPS

\* Bytes on the wire of a frame whose size field is n.
FrameLen(n) == IF n > HeaderSize THEN n ELSE HeaderSize

\* At place p of the stream u begins frame f of fr, l bytes long: all of it is
\* there, and the next frame follows it unless it is the last.
Begins(u, fr, p, f, l) ==
  /\ f \in 1 .. Len(fr)
  /\ p + l - 1 <= Len(u)
  /\ \A i \in 1 .. l : u[p + i - 1] = [f |-> f, at |-> i]
  /\ p + l - 1 = Len(u) => f = Len(fr)
  /\ p + l - 1 < Len(u) => u[p + l] = [f |-> f + 1, at |-> 1]

\* The stream u is made of whole frames: the frames of fr from number k to the
\* last.  Said of every place where a frame begins, not of the frames one after
\* the other, so that no induction is needed to use it.
Framed(u, fr, k) ==
  /\ u = <<>> => k = Len(fr) + 1
  /\ u # <<>> => u[1] = [f |-> k, at |-> 1]
  /\ \A p \in 1 .. Len(u) :
       u[p].at = 1 => Begins(u, fr, p, u[p].f, FrameLen(fr[u[p].f]))

\* What the client wrote and UnpackPacketToRecvQueue has not consumed, in
\* whichever of the three places it is.
Stream == MoveBufferPtr \o (input \o net)

StreamInv == Framed(Stream, frames, Len(packets) + 1)

\* What the ends of the two loops leave behind.
LoopInv ==
  /\ pc \in {"idle", "again"} => ptr = 0 /\ Incomplete
  /\ pc = "again" => mode = "libevent"
  /\ pc = "idle" /\ input # <<>> => mode = "libevent" /\ Len(buffer) = BufferCap

IInv == TypeOK /\ StreamInv /\ PacketsAreFrames /\ LoopInv
-----------------------------------------------------------------------------
(* Streams of frames                                                       *)

LEMMA Constants ==
  /\ HeaderSize \in Nat \ {0} /\ MinRead \in Nat \ {0} /\ MaxBody \in Nat \ {0}
  /\ TailSize \in Nat /\ BufferCap \in Nat /\ IntMax \in Nat /\ Added \in Nat
  /\ MaxFrames \in Nat /\ HeaderSize + MaxBody + TailSize <= IntMax
  /\ \A n \in Sizes : n \in Nat /\ n <= 2 * IntMax + 1
  BY SizeAssumption

LEMMA FrameLenType == \A n \in Sizes : FrameLen(n) \in Nat \ {0}
  BY Constants DEF FrameLen

\* The cells of a frame.
LEMMA FrameCells ==
  ASSUME NEW f \in 1 .. MaxFrames, NEW n \in Sizes
  PROVE  /\ Frame(f, n) \in Seq(Cell)
         /\ Len(Frame(f, n)) = FrameLen(n)
         /\ FrameLen(n) \in Nat \ {0}
         /\ \A i \in 1 .. FrameLen(n) : Frame(f, n)[i] = [f |-> f, at |-> i]
  <1>1. FrameLen(n) \in Nat \ {0} /\ FrameLen(n) <= 2 * IntMax + 1
    BY Constants DEF FrameLen
  <1>2. Frame(f, n) = [i \in 1 .. FrameLen(n) |-> [f |-> f, at |-> i]]
    BY DEF Frame, FrameLen
  <1>3. \A i \in 1 .. FrameLen(n) : [f |-> f, at |-> i] \in Cell
    BY <1>1, Constants DEF Cell
  <1> HIDE DEF Cell, FrameLen
  <1> QED BY <1>1, <1>2, <1>3

\* A stream cut in two and put together again.
LEMMA CutAndJoin ==
  ASSUME NEW S, NEW s \in Seq(S), NEW n \in 0 .. Len(s)
  PROVE  /\ SubSeq(s, 1, n) \in Seq(S) /\ Len(SubSeq(s, 1, n)) = n
         /\ SubSeq(s, n + 1, Len(s)) \in Seq(S) /\ Len(SubSeq(s, n + 1, Len(s))) = Len(s) - n
         /\ SubSeq(s, 1, n) \o SubSeq(s, n + 1, Len(s)) = s
  <1>1. \A i \in 1 .. Len(s) : s[i] \in S
    OBVIOUS
  <1>2. SubSeq(s, 1, n) \in Seq(S) /\ Len(SubSeq(s, 1, n)) = n
    BY <1>1, SubSeqProperties
  <1>3. SubSeq(s, n + 1, Len(s)) \in Seq(S) /\ Len(SubSeq(s, n + 1, Len(s))) = Len(s) - n
    BY <1>1, SubSeqProperties
  <1> DEFINE a == SubSeq(s, 1, n)
             b == SubSeq(s, n + 1, Len(s))
  <1>4. (\A i \in 1 .. n : a[i] = s[i]) /\ \A i \in 1 .. Len(s) - n : b[i] = s[n + i]
    OBVIOUS
  <1>5. a \in Seq(S) /\ b \in Seq(S) /\ Len(a) = n /\ Len(b) = Len(s) - n
    BY <1>2, <1>3
  <1> HIDE DEF a, b
  <1>6. a \o b \in Seq(S) /\ Len(a \o b) = Len(s)
    BY <1>5
  <1>7. \A i \in 1 .. Len(s) : (a \o b)[i] = s[i]
    <2> SUFFICES ASSUME NEW i \in 1 .. Len(s) PROVE (a \o b)[i] = s[i]
      OBVIOUS
    <2>1. CASE i <= n
      BY <1>4, <1>5, <2>1
    <2>2. CASE i > n
      <3> DEFINE j == i - n
      <3>1. j \in 1 .. Len(s) - n /\ n + j = i
        BY <2>2
      <3>2. (a \o b)[i] = b[j]
        BY <1>5, <2>2, <3>1
      <3> HIDE DEF j
      <3>3. b[j] = s[n + j]
        BY <1>4, <3>1
      <3> QED BY <3>1, <3>2, <3>3, Zenon
    <2>3. i <= n \/ i > n
      OBVIOUS
    <2> QED BY <2>1, <2>2, <2>3, Zenon
  <1>8. a \o b = s
    BY <1>6, <1>7, SeqEqual
  <1> QED BY <1>2, <1>3, <1>8 DEF a, b

\* The client appends a frame to the stream.
LEMMA FramedGrows ==
  ASSUME NEW u \in Seq(Cell), NEW fr \in Seq(Sizes), NEW k \in Nat, NEW n \in Sizes,
         Len(fr) < MaxFrames, Framed(u, fr, k)
  PROVE  Framed(u \o Frame(Len(fr) + 1, n), Append(fr, n), k)
  <1> DEFINE g == Len(fr) + 1
             w == Frame(g, n)
             v == u \o w
             fr2 == Append(fr, n)
  <1>1. g \in 1 .. MaxFrames
    BY Constants
  <1>2. /\ w \in Seq(Cell) /\ Len(w) = FrameLen(n) /\ FrameLen(n) \in Nat \ {0}
        /\ \A i \in 1 .. FrameLen(n) : w[i] = [f |-> g, at |-> i]
    BY <1>1, FrameCells
  <1>3. /\ fr2 \in Seq(Sizes) /\ Len(fr2) = g /\ fr2[g] = n
        /\ \A i \in 1 .. Len(fr) : fr2[i] = fr[i]
    BY AppendProperties
  <1>4. /\ v \in Seq(Cell) /\ Len(v) = Len(u) + FrameLen(n) /\ Len(u) \in Nat
        /\ \A i \in 1 .. Len(u) : v[i] = u[i]
        /\ \A i \in 1 .. FrameLen(n) : v[Len(u) + i] = [f |-> g, at |-> i]
    <2> HIDE DEF w, Cell, FrameLen
    <2>0. w \in Seq(Cell)
      BY <1>2
    <2>1. v \in Seq(Cell) /\ Len(v) = Len(u) + Len(w) /\ Len(u) \in Nat /\ Len(w) \in Nat
      BY <2>0
    <2>2. \A i \in 1 .. Len(u) : v[i] = u[i]
      BY <1>2
    <2>3. \A i \in 1 .. Len(w) : v[Len(u) + i] = w[i]
      BY <1>2
    <2> QED BY <1>2, <2>1, <2>2, <2>3
  <1> HIDE DEF w, v, fr2, Cell
  <1>5. v # <<>>
    BY <1>2, <1>4
  <1>6. v[1] = [f |-> k, at |-> 1]
    <2>1. CASE u = <<>>
      BY <1>2, <1>4, <2>1 DEF Framed
    <2>2. CASE u # <<>>
      <3>1. 1 \in 1 .. Len(u)
        BY <2>2
      <3> QED BY <1>4, <2>2, <3>1 DEF Framed
    <2> QED BY <2>1, <2>2
  <1>7. ASSUME NEW p \in 1 .. Len(v), v[p].at = 1
        PROVE  Begins(v, fr2, p, v[p].f, FrameLen(fr2[v[p].f]))
    <2>1. CASE p <= Len(u)
      <3> DEFINE f == u[p].f
                 l == FrameLen(fr[f])
      <3>1. p \in 1 .. Len(u) /\ v[p] = u[p]
        BY <1>4, <2>1
      <3>2. /\ f \in 1 .. Len(fr)
            /\ p + l - 1 <= Len(u)
            /\ \A i \in 1 .. l : u[p + i - 1] = [f |-> f, at |-> i]
            /\ p + l - 1 = Len(u) => f = Len(fr)
            /\ p + l - 1 < Len(u) => u[p + l] = [f |-> f + 1, at |-> 1]
        BY <1>7, <3>1 DEF Framed, Begins
      <3>3. fr2[f] = fr[f] /\ fr[f] \in Sizes
        BY <1>3, <3>2
      <3>4. l \in Nat \ {0}
        BY <3>3, FrameLenType
      <3> HIDE DEF f, l
      <3>5. \A i \in 1 .. l : v[p + i - 1] = [f |-> f, at |-> i]
        <4> SUFFICES ASSUME NEW i \in 1 .. l PROVE v[p + i - 1] = u[p + i - 1]
          BY <3>2
        <4>1. p + i - 1 \in 1 .. Len(u)
          BY <3>1, <3>2, <3>4, <1>4
        <4> QED BY <4>1, <1>4
      <3>6. p + l - 1 < Len(v)
        BY <1>2, <1>4, <3>1, <3>2, <3>4
      <3>7. v[p + l] = [f |-> f + 1, at |-> 1]
        <4>1. CASE p + l - 1 = Len(u)
          <5>1. p + l = Len(u) + 1 /\ 1 \in 1 .. FrameLen(n) /\ f + 1 = g
            BY <1>2, <1>4, <3>1, <3>2, <3>4, <4>1
          <5> QED BY <1>4, <5>1
        <4>2. CASE p + l - 1 < Len(u)
          <5>1. p + l \in 1 .. Len(u)
            BY <1>4, <3>1, <3>4, <4>2
          <5> QED BY <1>4, <3>2, <4>2, <5>1
        <4>3. p + l - 1 \in Int /\ Len(u) \in Int /\ p + l - 1 <= Len(u)
          BY <3>1, <3>2, <3>4, <1>4
        <4> QED BY <4>1, <4>2, <4>3
      <3>8. f \in 1 .. Len(fr2)
        BY <1>3, <3>2
      <3>9. p + l - 1 \in Int /\ Len(v) \in Int
        BY <1>2, <1>4, <3>4
      <3>10. Begins(v, fr2, p, f, l)
        BY <3>5, <3>6, <3>7, <3>8, <3>9 DEF Begins
      <3> QED BY <3>1, <3>3, <3>10 DEF f, l
    <2>2. CASE p > Len(u)
      <3>1. p - Len(u) \in 1 .. FrameLen(n) /\ p = Len(u) + (p - Len(u))
        BY <1>2, <1>4, <2>2
      <3>2. v[p] = [f |-> g, at |-> p - Len(u)]
        BY <1>4, <3>1
      <3>3. p = Len(u) + 1 /\ v[p].f = g
        BY <1>4, <1>7, <3>1, <3>2
      <3>4. \A i \in 1 .. FrameLen(n) : v[p + i - 1] = [f |-> g, at |-> i]
        BY <1>4, <3>3
      <3>5. p + FrameLen(n) - 1 = Len(v)
        BY <1>2, <1>4, <3>3
      <3>6. g \in 1 .. Len(fr2) /\ g = Len(fr2) /\ fr2[v[p].f] = n
        BY <1>3, <3>3
      <3>7. Begins(v, fr2, p, g, FrameLen(n))
        BY <3>4, <3>5, <3>6, <1>2, <1>4 DEF Begins
      <3> QED BY <3>3, <3>6, <3>7
    <2> QED BY <1>4, <2>1, <2>2
  <1> QED BY <1>5, <1>6, <1>7 DEF Framed, v, w, fr2

\* The first frame of the stream is taken off.
LEMMA FramedDrop ==
  ASSUME NEW u \in Seq(Cell), NEW fr \in Seq(Sizes), NEW k \in Nat, u # <<>>,
         Framed(u, fr, k), NEW l, l = FrameLen(fr[k])
  PROVE  /\ k \in 1 .. Len(fr) /\ l \in Nat \ {0} /\ l <= Len(u)
         /\ \A i \in 1 .. l : u[i] = [f |-> k, at |-> i]
         /\ Framed(SubSeq(u, l + 1, Len(u)), fr, k + 1)
  <1> HIDE DEF Cell
  <1>0. Len(u) \in Nat /\ 1 \in 1 .. Len(u)
    OBVIOUS
  <1>1. u[1].at = 1 /\ u[1].f = k
    BY DEF Framed
  <1>2. /\ k \in 1 .. Len(fr)
        /\ 1 + l - 1 <= Len(u)
        /\ \A i \in 1 .. l : u[1 + i - 1] = [f |-> k, at |-> i]
        /\ 1 + l - 1 = Len(u) => k = Len(fr)
        /\ 1 + l - 1 < Len(u) => u[1 + l] = [f |-> k + 1, at |-> 1]
    BY <1>0, <1>1 DEF Framed, Begins
  <1>3. l \in Nat \ {0}
    BY <1>2, FrameLenType
  <1> DEFINE v == SubSeq(u, l + 1, Len(u))
  <1>4. /\ v \in Seq(Cell) /\ Len(v) = Len(u) - l
        /\ \A i \in 1 .. Len(v) : v[i] = u[l + i]
    <2>1. \A i \in (l + 1) .. Len(u) : u[i] \in Cell
      BY <1>3
    <2>2. l + 1 \in Int /\ Len(u) \in Int /\ (l + 1 <= Len(u) \/ Len(u) = l)
      BY <1>0, <1>2, <1>3
    <2>3. v \in Seq(Cell) /\ Len(v) = IF l + 1 <= Len(u) THEN Len(u) - (l + 1) + 1 ELSE 0
      BY <2>1, <2>2, SubSeqProperties
    <2>4. \A i \in 1 .. Len(u) - l : v[i] = u[l + i]
      BY <1>0, <1>2, <1>3
    <2>5. Len(v) = Len(u) - l
      BY <1>0, <1>3, <2>2, <2>3
    <2> QED BY <2>3, <2>4, <2>5
  <1> HIDE DEF v
  <1>5. v = <<>> => k + 1 = Len(fr) + 1
    BY <1>0, <1>2, <1>3, <1>4
  <1>6. v # <<>> => v[1] = [f |-> k + 1, at |-> 1]
    BY <1>0, <1>2, <1>3, <1>4
  <1>7. ASSUME NEW p \in 1 .. Len(v), v[p].at = 1
        PROVE  Begins(v, fr, p, v[p].f, FrameLen(fr[v[p].f]))
    <2> DEFINE f == v[p].f
               m == FrameLen(fr[f])
               q == l + p
    <2>1. q \in 1 .. Len(u) /\ v[p] = u[q]
      BY <1>0, <1>2, <1>3, <1>4
    <2>2. /\ f \in 1 .. Len(fr)
          /\ q + m - 1 <= Len(u)
          /\ \A i \in 1 .. m : u[q + i - 1] = [f |-> f, at |-> i]
          /\ q + m - 1 = Len(u) => f = Len(fr)
          /\ q + m - 1 < Len(u) => u[q + m] = [f |-> f + 1, at |-> 1]
      BY <1>7, <2>1 DEF Framed, Begins
    <2>3. m \in Nat \ {0}
      BY <2>2, FrameLenType
    <2> HIDE DEF f, m
    <2>b. q = l + p
      OBVIOUS
    <2> HIDE DEF q
    <2>c. /\ Len(u) \in Nat /\ l \in Nat /\ l <= Len(u) /\ Len(v) = Len(u) - l
          /\ q + m - 1 <= Len(u)
      BY <1>0, <1>3, <1>2, <1>4, <2>2
    <2>a. /\ Len(v) \in Nat /\ q \in Nat /\ p + m - 1 <= Len(v)
          /\ \A i \in 1 .. m : p + i - 1 \in 1 .. Len(v) /\ l + (p + i - 1) = q + i - 1
          /\ p + m - 1 < Len(v) => p + m \in 1 .. Len(v) /\ l + (p + m) = q + m
          /\ p + m - 1 = Len(v) => q + m - 1 = Len(u)
          /\ p + m - 1 < Len(v) => q + m - 1 < Len(u)
      <3>1. p \in Nat \ {0} /\ p <= Len(v)
        BY <2>c
      <3>2. /\ l \in Nat /\ p \in Nat \ {0} /\ m \in Nat \ {0} /\ Len(u) \in Nat
            /\ q = l + p /\ Len(v) = Len(u) - l /\ p <= Len(v) /\ q + m - 1 <= Len(u)
        BY <2>b, <2>c, <2>3, <3>1
      <3> QED BY ONLY <3>2
    <2>4. \A i \in 1 .. m : v[p + i - 1] = [f |-> f, at |-> i]
      <3> SUFFICES ASSUME NEW i \in 1 .. m PROVE v[p + i - 1] = u[q + i - 1]
        BY <2>2
      <3>1. p + i - 1 \in 1 .. Len(v) /\ l + (p + i - 1) = q + i - 1
        BY <2>a
      <3>2. v[p + i - 1] = u[l + (p + i - 1)]
        BY <1>4, <3>1
      <3> QED BY <3>1, <3>2
    <2>5. p + m - 1 < Len(v) => v[p + m] = u[q + m]
      <3> SUFFICES ASSUME p + m - 1 < Len(v) PROVE v[p + m] = u[q + m]
        OBVIOUS
      <3>1. p + m \in 1 .. Len(v) /\ l + (p + m) = q + m
        BY <2>a
      <3>2. v[p + m] = u[l + (p + m)]
        BY <1>4, <3>1
      <3> QED BY <3>1, <3>2
    <2>7. Begins(v, fr, p, f, m)
      BY <2>2, <2>4, <2>5, <2>a DEF Begins
    <2> QED BY <2>7 DEF f, m
  <1>8. Framed(v, fr, k + 1)
    BY <1>5, <1>6, <1>7 DEF Framed
  <1>9. \A i \in 1 .. l : u[i] = [f |-> k, at |-> i]
    <2> SUFFICES ASSUME NEW i \in 1 .. l PROVE u[i] = [f |-> k, at |-> i]
      OBVIOUS
    <2>1. 1 + i - 1 = i
      BY <1>3
    <2> QED BY <1>2, <2>1
  <1> QED BY <1>2, <1>3, <1>8, <1>9 DEF v

-----------------------------------------------------------------------------
(* Where the stream is                                                     *)

\* The three parts of the stream.
LEMMA StreamParts ==
  ASSUME TypeOK
  PROVE  /\ MoveBufferPtr \in Seq(Cell) /\ Len(MoveBufferPtr) = Left /\ Left \in Nat
         /\ input \in Seq(Cell) /\ net \in Seq(Cell) /\ input \o net \in Seq(Cell)
         /\ Stream \in Seq(Cell) /\ Len(Stream) = Left + Len(input \o net)
         /\ Len(input \o net) \in Nat
         /\ \A i \in 1 .. Left : Stream[i] = buffer[ptr + i]
  <1>1. buffer \in Seq(Cell) /\ ptr \in 0 .. Len(buffer) /\ input \in Seq(Cell) /\ net \in Seq(Cell)
    BY DEF TypeOK
  <1> HIDE DEF Cell
  <1>2. /\ MoveBufferPtr \in Seq(Cell) /\ Len(MoveBufferPtr) = Left
        /\ \A i \in 1 .. Left : MoveBufferPtr[i] = buffer[ptr + i]
    BY <1>1, CutAndJoin DEF MoveBufferPtr, Left
  <1>3. Left \in Nat
    BY <1>1 DEF Left
  <1>4. input \o net \in Seq(Cell)
    BY <1>1
  <1> DEFINE m == MoveBufferPtr
             r == input \o net
  <1> HIDE DEF m, r
  <1>5. m \o r \in Seq(Cell) /\ Len(m \o r) = Len(m) + Len(r) /\ Len(r) \in Nat
    BY <1>2, <1>4 DEF m, r
  <1>6. \A i \in 1 .. Len(m) : (m \o r)[i] = m[i]
    BY <1>2, <1>4 DEF m, r
  <1> QED BY <1>1, <1>2, <1>3, <1>4, <1>5, <1>6 DEF m, r, Stream

\* Bytes that arrive stay in the stream.
LEMMA ArriveSame ==
  ASSUME TypeOK, NEW n \in 0 .. Len(net), Arrive(n), UNCHANGED <<buffer, ptr>>
  PROVE  Stream' = Stream /\ input' \in Seq(Cell) /\ net' \in Seq(Cell)
  <1> DEFINE a == SubSeq(net, 1, n)
             b == SubSeq(net, n + 1, Len(net))
  <1>1. input \in Seq(Cell) /\ net \in Seq(Cell)
    BY DEF TypeOK
  <1> HIDE DEF Cell
  <1>2. a \in Seq(Cell) /\ b \in Seq(Cell) /\ a \o b = net
    BY <1>1, CutAndJoin
  <1>3. input' = input \o a /\ net' = b
    BY DEF Arrive
  <1> HIDE DEF a, b
  <1>a. a \in Seq(Cell) /\ b \in Seq(Cell)
    BY <1>2
  <1>4. (input \o a) \o b = input \o (a \o b)
    BY <1>1, <1>a
  <1>5. input' \o net' = input \o net
    BY <1>2, <1>3, <1>4, Zenon
  <1>6. MoveBufferPtr' = MoveBufferPtr
    BY DEF MoveBufferPtr
  <1>7. input' \in Seq(Cell)
    BY <1>1, <1>2, <1>3
  <1> QED BY <1>2, <1>3, <1>5, <1>6, <1>7 DEF Stream

\* The part of the buffer that is not unpacked, when bytes are appended.
LEMMA MoveAppend ==
  ASSUME NEW S, NEW s \in Seq(S), NEW t \in Seq(S), NEW n \in 0 .. Len(s)
  PROVE  SubSeq(s \o t, n + 1, Len(s \o t)) = SubSeq(s, n + 1, Len(s)) \o t
  <1> DEFINE a == SubSeq(s, 1, n)
             b == SubSeq(s, n + 1, Len(s))
             v == b \o t
             w == SubSeq(a \o v, n + 1, Len(a \o v))
  <1>1. a \in Seq(S) /\ b \in Seq(S) /\ a \o b = s /\ Len(a) = n
    BY CutAndJoin
  <1> HIDE DEF a, b
  <1>c. a \in Seq(S) /\ b \in Seq(S)
    BY <1>1
  <1>a. (a \o b) \o t = a \o v
    BY <1>c, ConcatAssociative
  <1>b. s \o t = a \o v
    BY <1>1, <1>a, Zenon
  <1>2. v \in Seq(S)
    BY <1>c
  <1> HIDE DEF v
  <1>3. a \o v \in Seq(S) /\ Len(a \o v) = n + Len(v) /\ n \in Nat /\ Len(v) \in Nat
    <2>1. a \o v \in Seq(S) /\ Len(a \o v) = Len(a) + Len(v) /\ Len(v) \in Nat
      BY <1>c, <1>2
    <2>2. n \in Nat /\ Len(a) = n
      BY <1>1
    <2> QED BY <2>1, <2>2
  <1>4. w \in Seq(S) /\ Len(w) = Len(v)
    <2> DEFINE c == a \o v
    <2>1. c \in Seq(S) /\ n \in 0 .. Len(c) /\ Len(c) - n = Len(v)
      BY <1>3
    <2> HIDE DEF c
    <2>2. SubSeq(c, n + 1, Len(c)) \in Seq(S) /\ Len(SubSeq(c, n + 1, Len(c))) = Len(c) - n
      BY <2>1, CutAndJoin
    <2> QED BY <2>1, <2>2 DEF c
  <1>5. \A i \in 1 .. Len(v) : w[i] = v[i]
    <2> SUFFICES ASSUME NEW i \in 1 .. Len(v) PROVE w[i] = v[i]
      OBVIOUS
    <2> DEFINE c == a \o v
    <2>1. c \in Seq(S) /\ Len(c) = n + Len(v) /\ n \in Nat /\ Len(v) \in Nat /\ w = SubSeq(c, n + 1, Len(c))
      BY <1>3
    <2>2. c[Len(a) + i] = v[i] /\ Len(a) = n
      BY <1>c, <1>2, <1>1
    <2> HIDE DEF c, w
    <2>3. w[i] = c[n + i]
      BY <2>1
    <2> QED BY <2>2, <2>3, Zenon
  <1> HIDE DEF w
  <1>6. w = v
    BY <1>2, <1>4, <1>5, SeqEqual
  <1>7. w = SubSeq(s \o t, n + 1, Len(s \o t))
    BY <1>b, Zenon DEF w
  <1> QED BY <1>6, <1>7 DEF v, b

\* PacketBufferRead copies no more than there is and no more than fits.
LEMMA ReadLenRange ==
  ASSUME TypeOK
  PROVE  /\ ReadLen \in 0 .. Len(input)
         /\ Len(buffer) + ReadLen <= BufferCap
         /\ mode = "libevent" /\ ReadLen = 0 => input = <<>> \/ Len(buffer) = BufferCap
  <1>1. /\ Len(input) \in Nat /\ Len(buffer) \in Nat /\ Len(buffer) <= BufferCap
        /\ Len(input) = 0 => input = <<>>
    BY DEF TypeOK
  <1> QED BY <1>1, Constants DEF ReadLen, Least

LEMMA ReadSame ==
  ASSUME TypeOK, PacketBufferRead
  PROVE  /\ Stream' = Stream
         /\ input' \in Seq(Cell) /\ buffer' \in Seq(Cell)
         /\ Len(buffer') = Len(buffer) + ReadLen
  <1> DEFINE a == SubSeq(input, 1, ReadLen)
             b == SubSeq(input, ReadLen + 1, Len(input))
  <1>1. buffer \in Seq(Cell) /\ ptr \in 0 .. Len(buffer) /\ input \in Seq(Cell) /\ net \in Seq(Cell)
    BY DEF TypeOK
  <1> HIDE DEF Cell
  <1>2. a \in Seq(Cell) /\ b \in Seq(Cell) /\ a \o b = input /\ Len(a) = ReadLen
    BY <1>1, CutAndJoin, ReadLenRange
  <1>3. buffer' = buffer \o a /\ input' = b /\ net' = net /\ ptr' = ptr
    BY DEF PacketBufferRead
  <1> HIDE DEF a, b
  <1> DEFINE m == MoveBufferPtr
  <1>4. MoveBufferPtr' = m \o a
    BY <1>1, <1>2, <1>3, MoveAppend DEF MoveBufferPtr
  <1>5. m \in Seq(Cell)
    BY StreamParts
  <1> HIDE DEF m
  <1>a. a \in Seq(Cell) /\ b \in Seq(Cell)
    BY <1>2
  <1>6. (m \o a) \o (b \o net) = m \o (a \o (b \o net))
    <2> DEFINE r == b \o net
    <2>1. r \in Seq(Cell)
      BY <1>1, <1>a
    <2> HIDE DEF r
    <2>2. (m \o a) \o r = m \o (a \o r)
      BY <1>a, <1>5, <2>1, ConcatAssociative
    <2> QED BY <2>2 DEF r
  <1>7. a \o (b \o net) = (a \o b) \o net
    BY <1>1, <1>a
  <1>8. Stream' = m \o (input \o net)
    BY <1>2, <1>3, <1>4, <1>6, <1>7, Zenon DEF Stream
  <1>9. buffer' \in Seq(Cell) /\ Len(buffer') = Len(buffer) + ReadLen
    BY <1>1, <1>2, <1>3
  <1> QED BY <1>2, <1>3, <1>8, <1>9 DEF Stream, m

\* If the buffer holds anything, it begins with the next frame's header.
LEMMA NextFrame ==
  ASSUME TypeOK, StreamInv, Left >= 1
  PROVE  /\ Len(packets) + 1 \in 1 .. Len(frames)
         /\ frames[Len(packets) + 1] \in Sizes
         /\ buffer[ptr + 1] = [f |-> Len(packets) + 1, at |-> 1]
         /\ PacketSize(buffer[ptr + 1]) = UnpackInt(frames[Len(packets) + 1])
         /\ Stream # <<>>
  <1>0. Len(packets) + 1 \in Nat /\ frames \in Seq(Sizes)
    BY DEF TypeOK
  <1>1. Stream \in Seq(Cell) /\ Stream # <<>> /\ 1 \in 1 .. Left
    BY StreamParts
  <1>2. Len(packets) + 1 \in 1 .. Len(frames)
    BY <1>0, <1>1, FramedDrop DEF StreamInv
  <1>3. Stream[1] = [f |-> Len(packets) + 1, at |-> 1]
    BY <1>1 DEF StreamInv, Framed
  <1>4. Stream[1] = buffer[ptr + 1]
    BY <1>1, StreamParts
  <1>5. frames[Len(packets) + 1] \in Sizes
    BY <1>0, <1>2
  <1> QED BY <1>1, <1>2, <1>3, <1>4, <1>5 DEF PacketSize

\* A size that UnpackInt reads as at least a header is the one that was written.
LEMMA ReadSize ==
  ASSUME NEW n \in Sizes, UnpackInt(n) > 0
  PROVE  UnpackInt(n) = n /\ n <= IntMax
  BY Constants DEF UnpackInt

-----------------------------------------------------------------------------
(* The steps                                                               *)

\* The packets stay the bodies of their frames when neither is touched, or
\* when the client writes another frame.
LEMMA PacketsKept ==
  ASSUME TypeOK, PacketsAreFrames, UNCHANGED packets,
         UNCHANGED frames \/ \E n \in Sizes : frames' = Append(frames, n)
  PROVE  PacketsAreFrames'
  <1>1. /\ Len(frames) \in Nat /\ Len(packets) \in Nat /\ DOMAIN packets = 1 .. Len(packets)
        /\ frames \in Seq(Sizes)
    BY DEF TypeOK
  <1>2. Len(frames') >= Len(frames) /\ \A i \in 1 .. Len(frames) : frames'[i] = frames[i]
    BY <1>1
  <1>3. Len(packets') <= Len(frames')
    BY <1>1, <1>2 DEF PacketsAreFrames
  <1>4. ASSUME NEW i \in DOMAIN packets'
        PROVE  packets'[i] = SubSeq(Frame(i, frames'[i]), HeaderSize + 1, frames'[i])
    <2>1. i \in 1 .. Len(frames) /\ i \in DOMAIN packets
      BY <1>1 DEF PacketsAreFrames
    <2>2. packets[i] = SubSeq(Frame(i, frames[i]), HeaderSize + 1, frames[i])
      BY <2>1 DEF PacketsAreFrames
    <2> QED BY <1>2, <2>1, <2>2
  <1> QED BY <1>3, <1>4 DEF PacketsAreFrames

LEMMA ClientSendInv ==
  ASSUME IInv, ClientSend
  PROVE  IInv'
  <1> USE DEF IInv
  <1>1. PICK n \in Sizes : /\ frames' = Append(frames, n)
                           /\ net' = net \o Frame(Len(frames) + 1, n)
    BY DEF ClientSend
  <1>2. /\ Len(frames) < MaxFrames /\ frames \in Seq(Sizes) /\ Len(frames) \in Nat
        /\ UNCHANGED <<mode, input, psize, buffer, ptr, pc, packets, out, failed>>
    BY DEF ClientSend, TypeOK
  <1> DEFINE w == Frame(Len(frames) + 1, n)
             m == MoveBufferPtr
  <1>3. w \in Seq(Cell)
    <2>1. Len(frames) + 1 \in 1 .. MaxFrames
      BY <1>2, Constants
    <2> QED BY <2>1, FrameCells
  <1>4. m \in Seq(Cell) /\ input \in Seq(Cell) /\ net \in Seq(Cell) /\ Stream \in Seq(Cell)
    BY StreamParts
  <1> HIDE DEF w, m, Cell
  <1>5. TypeOK'
    <2>1. net' \in Seq(Cell)
      BY <1>1, <1>3, <1>4 DEF w
    <2>2. frames' \in Seq(Sizes) /\ Len(frames') = Len(frames) + 1
      BY <1>1, <1>2, AppendProperties
    <2>3. Len(frames') <= MaxFrames
      BY <1>2, <2>2, Constants
    <2> QED BY <1>2, <2>1, <2>2, <2>3 DEF TypeOK
  <1>6. Stream' = Stream \o w
    <2>1. Stream' = m \o (input \o (net \o w))
      BY <1>1, <1>2 DEF Stream, MoveBufferPtr, m, w
    <2>2. input \o (net \o w) = (input \o net) \o w
      BY <1>3, <1>4
    <2> DEFINE r == input \o net
    <2>3. r \in Seq(Cell)
      BY <1>4
    <2> HIDE DEF r
    <2>4. m \o (r \o w) = (m \o r) \o w
      BY <1>3, <1>4, <2>3
    <2> QED BY <2>1, <2>2, <2>4, Zenon DEF r, Stream, m
  <1>7. StreamInv'
    <2>1. Len(packets) + 1 \in Nat /\ Framed(Stream, frames, Len(packets) + 1)
      BY DEF TypeOK, StreamInv
    <2>2. Framed(Stream \o Frame(Len(frames) + 1, n), Append(frames, n), Len(packets) + 1)
      BY <1>2, <1>4, <2>1, FramedGrows
    <2> QED BY <1>1, <1>2, <1>6, <2>2, Zenon DEF StreamInv, w
  <1>8. PacketsAreFrames'
    BY <1>1, <1>2, PacketsKept
  <1>9. Incomplete => Incomplete'
    <2>1. UNCHANGED Left
      BY <1>2 DEF Left
    <2>2. ASSUME Left >= HeaderSize PROVE PacketSize(buffer[ptr + 1])' = PacketSize(buffer[ptr + 1])
      <3>1. Left >= 1
        BY <2>2, Constants, StreamParts
      <3>2. /\ buffer[ptr + 1] = [f |-> Len(packets) + 1, at |-> 1]
            /\ Len(packets) + 1 \in 1 .. Len(frames)
        BY <3>1, NextFrame
      <3>3. frames'[Len(packets) + 1] = frames[Len(packets) + 1]
        BY <1>1, <1>2, <3>2
      <3> QED BY <1>2, <3>2, <3>3 DEF PacketSize
    <2> QED BY <2>1, <2>2 DEF Incomplete
  <1>10. LoopInv'
    BY <1>2, <1>9 DEF LoopInv
  <1> QED BY <1>5, <1>7, <1>8, <1>10

\* The size of the next read() stays positive.
LEMMA NextSizeType ==
  ASSUME NEW sz \in Nat \ {0}, NEW n \in Nat
  PROVE  NextSize(sz, n) \in Nat \ {0}
  <1>1. sz > MinRead => sz \div 2 \in Nat \ {0}
    <2>1. sz > MinRead => sz >= 2
      BY Constants
    <2>2. sz >= 2 => sz \div 2 >= 1
      OBVIOUS
    <2> QED BY <2>1, <2>2
  <1> QED BY <1>1 DEF NextSize

LEMMA ArriveInv ==
  ASSUME IInv, BuffereventRead \/ ForwardMessageTcp
  PROVE  IInv'
  <1> USE DEF IInv
  <1>1. PICK n \in 0 .. Len(net) : Arrive(n)
    <2>1. Len(net) \in Nat /\ psize \in Nat
      BY DEF TypeOK
    <2> QED BY <2>1 DEF BuffereventRead, ForwardMessageTcp, Least
  <1>2. UNCHANGED <<mode, frames, buffer, ptr, packets, out, failed>> /\ pc' = "read"
    BY DEF BuffereventRead, ForwardMessageTcp
  <1>3. Stream' = Stream /\ input' \in Seq(Cell) /\ net' \in Seq(Cell)
    BY <1>1, <1>2, ArriveSame
  <1>4. psize' \in Nat \ {0}
    <2>1. psize \in Nat \ {0}
      BY DEF TypeOK
    <2>2. CASE BuffereventRead
      BY <2>1, <2>2 DEF BuffereventRead
    <2>3. CASE ForwardMessageTcp
      <3>1. PICK r \in 1 .. Least(psize, Len(net)) : psize' = NextSize(psize, r)
        BY <2>3 DEF ForwardMessageTcp
      <3>2. r \in Nat
        BY <3>1
      <3> QED BY <2>1, <3>1, <3>2, NextSizeType
    <2> QED BY <2>2, <2>3
  <1> HIDE DEF Cell
  <1>5. TypeOK'
    BY <1>2, <1>3, <1>4 DEF TypeOK
  <1>6. StreamInv' /\ PacketsAreFrames'
    BY <1>2, <1>3, PacketsKept DEF StreamInv
  <1>7. LoopInv'
    BY <1>2 DEF LoopInv
  <1> QED BY <1>5, <1>6, <1>7

\* Either read: the buffer stays within its size.
LEMMA ReadKeeps ==
  ASSUME IInv, PacketBufferRead, pc' \in {"unpack", "read", "idle"}
  PROVE  TypeOK' /\ StreamInv' /\ PacketsAreFrames'
  <1> USE DEF IInv
  <1>1. UNCHANGED <<mode, frames, net, psize, ptr, packets, out, failed>>
    BY DEF PacketBufferRead
  <1>2. /\ Stream' = Stream /\ input' \in Seq(Cell) /\ buffer' \in Seq(Cell)
        /\ Len(buffer') = Len(buffer) + ReadLen
    BY ReadSame
  <1>3. Len(buffer') <= BufferCap
    BY <1>2, ReadLenRange
  <1>4. ptr' \in 0 .. Len(buffer')
    <2>1. ptr \in 0 .. Len(buffer) /\ Len(buffer) \in Nat
      BY DEF TypeOK
    <2>2. ReadLen \in Nat
      <3>1. Len(input) \in Nat
        BY DEF TypeOK
      <3> QED BY <3>1, ReadLenRange
    <2> QED BY <1>1, <1>2, <2>1, <2>2
  <1> HIDE DEF Cell
  <1>5. TypeOK'
    BY <1>1, <1>2, <1>3, <1>4 DEF TypeOK
  <1> QED BY <1>1, <1>2, <1>5, PacketsKept DEF StreamInv

LEMMA ReadInv ==
  ASSUME IInv, ReadFirst \/ ReadAgain
  PROVE  IInv'
  <1> USE DEF IInv
  <1>1. CASE ReadFirst
    <2>1. LoopInv'
      BY <1>1 DEF ReadFirst, LoopInv
    <2> QED BY <1>1, <2>1, ReadKeeps DEF ReadFirst
  <1>2. CASE ReadAgain
    <2>1. PacketBufferRead /\ pc = "again" /\ pc' \in {"read", "idle"}
      BY <1>2 DEF ReadAgain
    <2>2. CASE pc' = "read"
      BY <2>1, <2>2, ReadKeeps DEF LoopInv
    <2>3. CASE pc' = "idle"
      <3>1. ReadLen = 0
        <4>1. ~(ReadLen > 0)
          BY <1>2, <2>3 DEF ReadAgain
        <4>2. Len(input) \in Nat
          BY DEF TypeOK
        <4> QED BY <4>1, <4>2, ReadLenRange
      <3>2. buffer' = buffer /\ input' = input
        <4>1. buffer \in Seq(Cell) /\ input \in Seq(Cell)
          BY DEF TypeOK
        <4> HIDE DEF Cell
        <4>2. SubSeq(input, 1, 0) = <<>> /\ SubSeq(input, 1, Len(input)) = input
          BY <4>1, SubSeqFull, SubSeqEmpty
        <4>3. buffer' = buffer \o SubSeq(input, 1, 0) /\ input' = SubSeq(input, 0 + 1, Len(input))
          BY <2>1, <3>1 DEF PacketBufferRead
        <4>4. buffer \o <<>> = buffer
          BY <4>1
        <4>5. 0 + 1 = 1
          OBVIOUS
        <4> QED BY <4>2, <4>3, <4>4, <4>5, Zenon
      <3>3. UNCHANGED <<mode, frames, ptr>>
        BY <2>1 DEF PacketBufferRead
      <3>4. LoopInv'
        <4>1. Incomplete' = Incomplete
          BY <3>2, <3>3 DEF Incomplete, Left, PacketSize
        <4>2. ptr = 0 /\ Incomplete /\ mode = "libevent"
          BY <2>1 DEF LoopInv
        <4>3. input # <<>> => Len(buffer) = BufferCap
          BY <3>1, <4>2, ReadLenRange
        <4> QED BY <2>3, <3>2, <3>3, <4>1, <4>2, <4>3 DEF LoopInv
      <3> QED BY <2>1, <3>4, ReadKeeps
    <2> QED BY <2>1, <2>2, <2>3
  <1> QED BY <1>1, <1>2

\* What a turn of the loop that adds a packet consumes: exactly the next frame.
LEMMA UnpackFrame ==
  ASSUME TypeOK, StreamInv, ~Incomplete, ~Refused
  PROVE  LET k == Len(packets) + 1
         IN /\ k \in 1 .. Len(frames) /\ frames[k] \in Sizes
            /\ HeaderSize + BodySize = frames[k] /\ BodySize = frames[k] - HeaderSize
            /\ frames[k] > HeaderSize /\ frames[k] <= Left
            /\ FrameLen(frames[k]) = frames[k]
            /\ Stream # <<>>
  <1> DEFINE k == Len(packets) + 1
             size == PacketSize(buffer[ptr + 1])
  <1>1. Left >= HeaderSize /\ ~(Left < size) /\ ~(size < HeaderSize)
    BY DEF Incomplete
  <1>2. Left >= 1
    BY <1>1, Constants, StreamParts
  <1>3. k \in 1 .. Len(frames) /\ frames[k] \in Sizes /\ size = UnpackInt(frames[k]) /\ Stream # <<>>
    BY <1>2, NextFrame
  <1>4. size \in Int
    BY <1>3, Constants DEF UnpackInt
  <1>5. size - HeaderSize > 0
    BY <1>4, Constants DEF Refused, BodySize
  <1>6. size = frames[k]
    BY <1>3, <1>4, <1>5, Constants, ReadSize
  <1>7. BodySize = size - HeaderSize
    BY DEF BodySize
  <1> HIDE DEF size
  <1>8. size > HeaderSize /\ size <= Left /\ HeaderSize + BodySize = size
    BY <1>1, <1>4, <1>5, <1>7, Constants, StreamParts
  <1> QED BY <1>3, <1>6, <1>7, <1>8 DEF FrameLen

\* Taking bytes off the buffer's part takes them off the stream.
LEMMA Consume ==
  ASSUME NEW S, NEW s \in Seq(S), NEW r \in Seq(S), NEW p \in 0 .. Len(s),
         NEW l \in 0 .. (Len(s) - p)
  PROVE  SubSeq(s, p + l + 1, Len(s)) \o r =
           SubSeq(SubSeq(s, p + 1, Len(s)) \o r, l + 1, Len(SubSeq(s, p + 1, Len(s)) \o r))
  <1> DEFINE a == SubSeq(s, p + 1, Len(s))
  <1>1. a \in Seq(S) /\ Len(a) = Len(s) - p
    BY CutAndJoin
  <1>2. l \in 0 .. Len(a)
    BY <1>1
  <1>3. SubSeq(a, l + 1, Len(a)) = SubSeq(s, p + l + 1, Len(s))
    <2> DEFINE b == SubSeq(a, l + 1, Len(a))
               c == SubSeq(s, p + l + 1, Len(s))
    <2>1. b \in Seq(S) /\ Len(b) = Len(a) - l
      BY <1>1, <1>2, CutAndJoin
    <2>2. c \in Seq(S) /\ Len(c) = Len(s) - (p + l)
      <3>1. p + l \in 0 .. Len(s)
        OBVIOUS
      <3> QED BY <3>1, CutAndJoin
    <2>3. ASSUME NEW i \in 1 .. Len(b) PROVE b[i] = c[i]
      <3>1. i \in 1 .. (Len(s) - (p + l)) /\ l + i \in 1 .. Len(s) - p
        BY <1>1, <2>1
      <3>2. c[i] = s[p + l + i]
        BY <3>1
      <3>3. a[l + i] = s[p + (l + i)]
        BY <3>1
      <3> HIDE DEF a
      <3>4. b[i] = a[l + i]
        BY <1>1, <1>2, <3>1
      <3>5. p + (l + i) = p + l + i
        BY <3>1
      <3> QED BY <3>2, <3>3, <3>4, <3>5
    <2>4. Len(b) = Len(c)
      BY <1>1, <2>1, <2>2
    <2> HIDE DEF b, c
    <2> QED BY <2>1, <2>2, <2>3, <2>4, SeqEqual DEF b, c
  <1> HIDE DEF a
  <1>4. SubSeq(a \o r, l + 1, Len(a \o r)) = SubSeq(a, l + 1, Len(a)) \o r
    BY <1>1, <1>2, MoveAppend
  <1> QED BY <1>3, <1>4, Zenon DEF a

LEMMA UnpackOneInv ==
  ASSUME IInv, UnpackOne
  PROVE  IInv'
  <1> USE DEF IInv
  <1> DEFINE k == Len(packets) + 1
             n == frames[k]
             r == input \o net
  <1>1. /\ pc = "unpack" /\ ~Incomplete /\ ~Refused
        /\ packets' = Append(packets, Body) /\ ptr' = ptr + HeaderSize + BodySize
        /\ UNCHANGED <<mode, frames, net, input, psize, buffer, pc, out, failed>>
    BY DEF UnpackOne, readVars
  <1>2. /\ k \in 1 .. Len(frames) /\ n \in Sizes
        /\ HeaderSize + BodySize = n /\ BodySize = n - HeaderSize
        /\ n > HeaderSize /\ n <= Left /\ FrameLen(n) = n /\ Stream # <<>>
    BY <1>1, UnpackFrame
  <1>3. /\ buffer \in Seq(Cell) /\ ptr \in 0 .. Len(buffer) /\ ptr \in Nat /\ Len(buffer) \in Nat
        /\ n \in Nat /\ r \in Seq(Cell) /\ Stream \in Seq(Cell) /\ k \in Nat
        /\ frames \in Seq(Sizes)
    <2>1. r \in Seq(Cell) /\ Stream \in Seq(Cell)
      BY StreamParts
    <2>2. n \in Nat
      BY <1>2, Constants
    <2>3. /\ buffer \in Seq(Cell) /\ ptr \in 0 .. Len(buffer) /\ ptr \in Nat /\ Len(buffer) \in Nat
          /\ k \in Nat /\ frames \in Seq(Sizes)
      BY DEF TypeOK
    <2> QED BY <2>1, <2>2, <2>3
  <1>4. ptr' = ptr + n /\ n <= Len(buffer) - ptr
    <2> HIDE DEF n
    <2>1. BodySize \in Int
      BY <1>2, <1>3, Constants
    <2>2. ptr + HeaderSize + BodySize = ptr + (HeaderSize + BodySize)
      BY <1>3, <2>1, Constants
    <2>3. n <= Len(buffer) - ptr
      BY <1>2 DEF Left
    <2> QED BY <1>1, <1>2, <2>2, <2>3
  <1>5. /\ n \in Nat \ {0} /\ \A i \in 1 .. n : Stream[i] = [f |-> k, at |-> i]
        /\ Framed(SubSeq(Stream, n + 1, Len(Stream)), frames, k + 1)
    BY <1>2, <1>3, FramedDrop DEF StreamInv
  <1> HIDE DEF Cell, n, k, r
  <1>6. Stream' = SubSeq(Stream, n + 1, Len(Stream))
    <2>1. Stream' = SubSeq(buffer, ptr + n + 1, Len(buffer)) \o r
      BY <1>1, <1>4 DEF Stream, MoveBufferPtr, r
    <2>2. Stream = SubSeq(buffer, ptr + 1, Len(buffer)) \o r
      BY DEF Stream, MoveBufferPtr, r
    <2>3. n \in 0 .. Len(buffer) - ptr
      BY <1>3, <1>4
    <2>4. SubSeq(buffer, ptr + n + 1, Len(buffer)) \o r = SubSeq(Stream, n + 1, Len(Stream))
      <3>1. /\ buffer \in Seq(Cell) /\ r \in Seq(Cell) /\ ptr \in 0 .. Len(buffer)
        BY <1>3
      <3>2. SubSeq(buffer, ptr + n + 1, Len(buffer)) \o r =
              SubSeq(SubSeq(buffer, ptr + 1, Len(buffer)) \o r, n + 1,
                     Len(SubSeq(buffer, ptr + 1, Len(buffer)) \o r))
        BY <2>3, <3>1, Consume
      <3> QED BY <2>2, <3>2, Zenon
    <2> QED BY <2>1, <2>4, Zenon
  <1>7. /\ Body \in Seq(Cell) /\ Len(Body) = n - HeaderSize
        /\ \A i \in 1 .. (n - HeaderSize) : Body[i] = [f |-> k, at |-> HeaderSize + i]
    <2>1. Body = SubSeq(buffer, ptr + HeaderSize + 1, ptr + n)
      <3>1. ptr + HeaderSize + BodySize = ptr + n
        BY <1>1, <1>4
      <3> QED BY <3>1 DEF Body
    <2>2. ptr + HeaderSize + 1 \in Int /\ ptr + n \in Int /\ ptr + HeaderSize + 1 <= ptr + n
      BY <1>2, <1>3, Constants
    <2>3. \A i \in (ptr + HeaderSize + 1) .. (ptr + n) : buffer[i] \in Cell
      BY <1>3, <1>4, Constants
    <2>4. /\ Body \in Seq(Cell) /\ Len(Body) = (ptr + n) - (ptr + HeaderSize + 1) + 1
          /\ \A i \in 1 .. (ptr + n) - (ptr + HeaderSize + 1) + 1 :
               Body[i] = buffer[(ptr + HeaderSize + 1) + i - 1]
      BY <2>1, <2>2, <2>3, SubSeqProperties
    <2>5. (ptr + n) - (ptr + HeaderSize + 1) + 1 = n - HeaderSize
      BY <1>3, Constants
    <2>6. ASSUME NEW i \in 1 .. (n - HeaderSize) PROVE Body[i] = [f |-> k, at |-> HeaderSize + i]
      <3>1. HeaderSize + i \in 1 .. n /\ HeaderSize + i \in 1 .. Left
        <4>1. n <= Left /\ Left \in Nat
          BY <1>2, StreamParts
        <4> QED BY <1>3, <4>1, Constants
      <3>2. (ptr + HeaderSize + 1) + i - 1 = ptr + (HeaderSize + i)
        BY <1>3, Constants
      <3>3. Body[i] = buffer[ptr + (HeaderSize + i)]
        BY <2>4, <2>5, <3>2
      <3>4. Stream[HeaderSize + i] = buffer[ptr + (HeaderSize + i)]
        BY <3>1, StreamParts
      <3> QED BY <1>5, <3>1, <3>3, <3>4
    <2> QED BY <2>4, <2>5, <2>6
  <1>8. Body = SubSeq(Frame(k, n), HeaderSize + 1, n)
    <2> DEFINE w == Frame(k, n)
    <2>0. n \in Sizes /\ k \in 1 .. Len(frames)
      BY <1>2 DEF n, k
    <2>1. k \in 1 .. MaxFrames
      BY <1>3, <2>0, Constants DEF TypeOK
    <2>2. w \in Seq(Cell) /\ Len(w) = n /\ \A i \in 1 .. n : w[i] = [f |-> k, at |-> i]
      BY <1>2, <2>0, <2>1, FrameCells DEF n
    <2> HIDE DEF w
    <2>3. n > HeaderSize
      BY <1>2 DEF n
    <2>4. HeaderSize + 1 \in Int /\ n \in Int /\ HeaderSize + 1 <= n
      BY <1>3, <2>3, Constants
    <2>5. \A i \in (HeaderSize + 1) .. n : w[i] \in Cell
      BY <1>3, <2>2, Constants
    <2> DEFINE v == SubSeq(w, HeaderSize + 1, n)
    <2>6. /\ v \in Seq(Cell) /\ Len(v) = n - (HeaderSize + 1) + 1
          /\ \A i \in 1 .. n - (HeaderSize + 1) + 1 : v[i] = w[(HeaderSize + 1) + i - 1]
      BY <2>4, <2>5, SubSeqProperties
    <2> HIDE DEF v
    <2>7. n - (HeaderSize + 1) + 1 = n - HeaderSize
      BY <1>3, Constants
    <2>8. ASSUME NEW i \in 1 .. (n - HeaderSize) PROVE v[i] = Body[i]
      <3>1. (HeaderSize + 1) + i - 1 = HeaderSize + i /\ HeaderSize + i \in 1 .. n
        BY <1>3, Constants
      <3>2. v[i] = w[HeaderSize + i]
        BY <2>6, <2>7, <3>1
      <3> QED BY <1>7, <2>2, <3>1, <3>2
    <2>9. v = Body
      BY <1>7, <2>6, <2>7, <2>8, SeqEqual
    <2> QED BY <2>9 DEF v, w
  <1> DEFINE B == Seq(Cell)
  <1>9. packets \in Seq(B) /\ Body \in B /\ Len(packets) \in Nat
    BY <1>7 DEF TypeOK
  <1>10. /\ packets' \in Seq(B) /\ Len(packets') = k /\ packets'[k] = Body
         /\ DOMAIN packets' = 1 .. k
         /\ \A i \in 1 .. Len(packets) : packets'[i] = packets[i]
    <2> HIDE DEF B
    <2>1. packets' = Append(packets, Body) /\ k = Len(packets) + 1
      BY <1>1 DEF k
    <2>2. Append(packets, Body) \in Seq(B) /\ Len(Append(packets, Body)) = Len(packets) + 1
      BY <1>9, AppendProperties
    <2>3. /\ \A i \in 1 .. Len(packets) : Append(packets, Body)[i] = packets[i]
          /\ Append(packets, Body)[Len(packets) + 1] = Body
      BY <1>9, AppendProperties
    <2>4. DOMAIN Append(packets, Body) = 1 .. Len(Append(packets, Body))
      BY <2>2
    <2> QED BY <2>1, <2>2, <2>3, <2>4
  <1>11. TypeOK'
    <2>1. ptr' \in 0 .. Len(buffer')
      BY <1>1, <1>3, <1>4
    <2> QED BY <1>1, <1>10, <2>1 DEF TypeOK
  <1>12. StreamInv'
    BY <1>1, <1>5, <1>6, <1>10 DEF StreamInv
  <1>13. PacketsAreFrames'
    <2>1. Len(packets') <= Len(frames')
      BY <1>1, <1>2, <1>10 DEF k
    <2>2. ASSUME NEW i \in DOMAIN packets'
          PROVE  packets'[i] = SubSeq(Frame(i, frames[i]), HeaderSize + 1, frames[i])
      <3>1. CASE i = k
        BY <1>8, <1>10, <3>1 DEF n
      <3>2. CASE i # k
        <4>1. i \in 1 .. Len(packets) /\ i \in DOMAIN packets
          BY <1>9, <1>10, <3>2 DEF k
        <4> QED BY <1>10, <4>1 DEF PacketsAreFrames
      <3> QED BY <3>1, <3>2
    <2> QED BY <1>1, <2>1, <2>2 DEF PacketsAreFrames
  <1>14. LoopInv'
    BY <1>1 DEF LoopInv
  <1> QED BY <1>11, <1>12, <1>13, <1>14

LEMMA UnpackRefuseInv ==
  ASSUME IInv, UnpackRefuse
  PROVE  IInv'
  <1> USE DEF IInv
  <1>1. /\ UNCHANGED <<mode, frames, net, input, psize, buffer, ptr, packets, out, failed>>
        /\ pc' = "closed"
    BY DEF UnpackRefuse, readVars
  <1>2. TypeOK' /\ LoopInv'
    BY <1>1 DEF TypeOK, LoopInv
  <1>3. StreamInv'
    BY <1>1 DEF StreamInv, Stream, MoveBufferPtr
  <1> QED BY <1>1, <1>2, <1>3, PacketsKept

LEMMA UnpackEndInv ==
  ASSUME IInv, UnpackEnd
  PROVE  IInv'
  <1> USE DEF IInv
  <1>1. /\ UNCHANGED <<mode, frames, net, input, psize, packets, out, failed>>
        /\ Incomplete /\ buffer' = MoveBufferPtr /\ ptr' = 0
        /\ pc' = IF mode = "libevent" THEN "again" ELSE IF input = <<>> THEN "idle" ELSE "read"
    BY DEF UnpackEnd, readVars
  <1>2. /\ MoveBufferPtr \in Seq(Cell) /\ Len(MoveBufferPtr) = Left /\ Left \in Nat
        /\ Left <= BufferCap
    <2>1. /\ ptr \in Nat /\ Len(buffer) \in Nat /\ Len(buffer) <= BufferCap
      BY DEF TypeOK
    <2>2. Left <= BufferCap
      BY <2>1, Constants DEF Left
    <2> QED BY <2>2, StreamParts
  <1>3. MoveBufferPtr' = MoveBufferPtr
    <2> DEFINE m == MoveBufferPtr
    <2>1. MoveBufferPtr' = SubSeq(m, 0 + 1, Len(m))
      BY <1>1 DEF MoveBufferPtr
    <2>2. m \in Seq(Cell)
      BY <1>2
    <2> HIDE DEF m
    <2>3. SubSeq(m, 1, Len(m)) = m
      BY <2>2, SubSeqFull
    <2>4. 0 + 1 = 1
      OBVIOUS
    <2> QED BY <2>1, <2>3, <2>4, Zenon DEF m
  <1>4. StreamInv'
    BY <1>1, <1>3 DEF StreamInv, Stream
  <1> HIDE DEF Cell
  <1>5. TypeOK'
    <2>1. buffer' \in Seq(Cell) /\ Len(buffer') <= BufferCap /\ ptr' \in 0 .. Len(buffer')
      BY <1>1, <1>2
    <2>2. pc' \in {"idle", "read", "unpack", "again", "closed"}
      BY <1>1
    <2> QED BY <1>1, <2>1, <2>2 DEF TypeOK
  <1>6. Incomplete'
    <2>1. Left' = Left
      BY <1>1, <1>2 DEF Left
    <2> SUFFICES ASSUME Left >= HeaderSize
                 PROVE  LET size == PacketSize(buffer[ptr + 1])
                        IN (Left < size \/ size < HeaderSize)'
      BY <2>1 DEF Incomplete
    <2>2. 1 \in 1 .. Left
      BY <1>2, Constants
    <2>3. buffer'[1] = buffer[ptr + 1]
      <3>1. buffer \in Seq(Cell) /\ ptr \in 0 .. Len(buffer)
        BY DEF TypeOK
      <3> QED BY <1>1, <2>2, <3>1 DEF MoveBufferPtr, Left
    <2>4. ptr' + 1 = 1
      BY <1>1
    <2>5. PacketSize(buffer[ptr + 1])' = PacketSize(buffer[ptr + 1])
      BY <1>1, <2>3, <2>4 DEF PacketSize
    <2> QED BY <1>1, <2>1, <2>5 DEF Incomplete
  <1>7. LoopInv'
    BY <1>1, <1>6, ModeAssumption DEF LoopInv, TypeOK
  <1> QED BY <1>1, <1>4, <1>5, <1>7, PacketsKept

LEMMA AnswerInv ==
  ASSUME IInv, Answer
  PROVE  IInv'
  <1> USE DEF IInv
  <1> DEFINE size == Len(packets[Len(out) + 1]) + Added
             head == [size |-> PrepareHeader(size), len |-> HeaderSize + size + TailSize]
             Heads == [size : 0 .. (2 * IntMax + 1), len : Nat]
  <1>1. /\ UNCHANGED <<mode, frames, net, input, psize, buffer, ptr, pc, packets>>
        /\ Len(out) < Len(packets)
        /\ \/ out' = Append(out, head) /\ UNCHANGED failed
           \/ failed' = "buffer_max" /\ UNCHANGED out
    BY DEF Answer, readVars
  <1>2. size \in Nat
    <2> DEFINE B == Seq(Cell)
    <2>1. packets \in Seq(B) /\ Len(out) \in Nat
      BY DEF TypeOK
    <2>2. packets[Len(out) + 1] \in B
      <3> HIDE DEF B
      <3> QED BY <1>1, <2>1
    <2>3. Len(packets[Len(out) + 1]) \in Nat
      BY <2>2
    <2> QED BY <2>3, Constants
  <1> HIDE DEF size
  <1>3. head \in Heads
    <2>1. PrepareHeader(size) \in 0 .. (2 * IntMax + 1)
      <3> DEFINE x == size + HeaderSize + TailSize
                 m == 2 * IntMax + 2
      <3>1. x \in Nat /\ m \in Nat \ {0}
        BY <1>2, Constants
      <3> HIDE DEF x, m
      <3>2. x % m \in 0 .. (m - 1)
        BY <3>1
      <3> QED BY <3>2, Constants DEF PrepareHeader, PackInt, x, m
    <2>2. HeaderSize + size + TailSize \in Nat
      BY <1>2, Constants
    <2> QED BY <2>1, <2>2
  <1>4. out' \in Seq(Heads)
    <2>1. out \in Seq(Heads)
      BY DEF TypeOK
    <2> HIDE DEF head, Heads
    <2> QED BY <1>1, <1>3, <2>1
  <1> HIDE DEF Cell
  <1>5. TypeOK'
    <2>1. failed' \in {"NONE", "buffer_max"}
      BY <1>1 DEF TypeOK
    <2> QED BY <1>1, <1>4, <2>1 DEF TypeOK
  <1>6. StreamInv'
    BY <1>1 DEF StreamInv, Stream, MoveBufferPtr
  <1>7. LoopInv'
    BY <1>1 DEF LoopInv, Incomplete, Left, PacketSize
  <1> QED BY <1>1, <1>5, <1>6, <1>7, PacketsKept

LEMMA InitInv == Init => IInv
  <1> SUFFICES ASSUME Init PROVE IInv
    OBVIOUS
  <1> USE DEF Init
  <1>1. TypeOK
    BY Constants DEF TypeOK
  <1>2. Stream = <<>>
    BY DEF Stream, MoveBufferPtr
  <1>3. StreamInv
    BY <1>2 DEF StreamInv, Framed
  <1>4. PacketsAreFrames
    BY DEF PacketsAreFrames
  <1>5. LoopInv
    BY Constants DEF LoopInv, Incomplete, Left
  <1> QED BY <1>1, <1>3, <1>4, <1>5 DEF IInv

\* However the bytes are read, unpacked and moved, what is left of the stream
\* begins with the first frame that was not unpacked.
THEOREM Invariance == Spec => []IInv
  <1>1. IInv /\ [Next]_vars => IInv'
    <2> SUFFICES ASSUME IInv, [Next]_vars PROVE IInv'
      OBVIOUS
    <2>1. CASE Next
      BY <2>1, ClientSendInv, ArriveInv, ReadInv, UnpackOneInv, UnpackRefuseInv, UnpackEndInv,
         AnswerInv
      DEF Next, NetThread
    <2>2. CASE UNCHANGED vars
      <3>1. /\ UNCHANGED <<mode, frames, net, input, psize, buffer, ptr, pc, packets, out, failed>>
        BY <2>2 DEF vars, readVars
      <3>2. TypeOK' /\ StreamInv'
        BY <3>1 DEF IInv, TypeOK, StreamInv, Stream, MoveBufferPtr
      <3>3. LoopInv'
        BY <3>1 DEF IInv, LoopInv, Incomplete, Left, PacketSize
      <3> QED BY <3>1, <3>2, <3>3, PacketsKept DEF IInv
    <2> QED BY <2>1, <2>2
  <1> QED BY <1>1, InitInv, PTL DEF Spec

\* The buffer of a context is never overrun and the unpack pointer never leaves
\* what was read, whatever sizes the client writes.
THEOREM TypeCorrect == Spec => []TypeOK
  <1>1. IInv => TypeOK
    BY DEF IInv
  <1> QED BY <1>1, Invariance, PTL

\* The n-th packet is the body of the n-th frame, for every way of cutting the
\* stream into reads and every buffer that can hold a frame.
THEOREM PacketsAreTheFrames == Spec => []PacketsAreFrames
  <1>1. IInv => PacketsAreFrames
    BY DEF IInv
  <1> QED BY <1>1, Invariance, PTL

\* Between two reads there is no complete frame in the buffer, and nothing is
\* left in the bufferevent that would have fitted.
THEOREM NothingIsOverlooked == Spec => []NothingOverlooked
  <1>1. IInv => NothingOverlooked
    BY DEF IInv, LoopInv, NothingOverlooked
  <1> QED BY <1>1, Invariance, PTL
==============================================================================
