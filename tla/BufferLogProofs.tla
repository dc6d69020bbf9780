-------------------------- MODULE BufferLogProofs ---------------------------
(***************************************************************************)
(* Proofs about BufferLog, for every ring size, counter width, header size *)
(* and set of message lengths.                                             *)
(***************************************************************************)
EXTENDS BufferLog, SequenceTheorems, TLAPS

-----------------------------------------------------------------------------
(* Unsigned arithmetic                                                     *)

\* x % m for the values that occur: below m, one wrap above, one below.
LEMMA ModSmall ==
  ASSUME NEW m \in Nat \ {0}, NEW x \in Nat, x < m
  PROVE  x % m = x
  OBVIOUS

LEMMA ModAbove ==
  ASSUME NEW m \in Nat \ {0}, NEW x \in Nat, m <= x, x < 2 * m
  PROVE  x % m = x - m
  OBVIOUS

LEMMA ModBelow ==
  ASSUME NEW m \in Nat \ {0}, NEW x \in Int, x < 0, -m <= x
  PROVE  x % m = x + m
  OBVIOUS

\* The distance of two counters as a case distinction.
LEMMA Distance ==
  ASSUME NEW m \in Nat \ {0}, NEW a \in 0..(m - 1), NEW b \in 0..(m - 1)
  PROVE  /\ (a - b) % m = IF a >= b THEN a - b ELSE a - b + m
         /\ (a - b) % m \in 0..(m - 1)
  <1>1. CASE a >= b
    BY <1>1, ModSmall
  <1>2. CASE a < b
    BY <1>2, ModBelow
  <1> QED BY <1>1, <1>2

\* A counter advanced by less than a full turn.
LEMMA Advance ==
  ASSUME NEW m \in Nat \ {0}, NEW a \in 0..(m - 1), NEW n \in 0..(m - 1)
  PROVE  /\ (a + n) % m = IF a + n < m THEN a + n ELSE a + n - m
         /\ (a + n) % m \in 0..(m - 1)
  <1>1. CASE a + n < m
    BY <1>1, ModSmall
  <1>2. CASE a + n >= m
    BY <1>2, ModAbove
  <1> QED BY <1>1, <1>2

\* Advancing in adds to the length, advancing out takes from it.
LEMMA LenAfterIn ==
  ASSUME NEW m \in Nat \ {0}, NEW a \in 0..(m - 1), NEW b \in 0..(m - 1),
         NEW n \in Nat, ((a - b) % m) + n < m
  PROVE  (((a + n) % m) - b) % m = ((a - b) % m) + n
  <1>1. n \in 0..(m - 1)
    BY Distance
  <1> DEFINE c == (a + n) % m
             d == (a - b) % m
  <1>2. c \in 0..(m - 1) /\ c = IF a + n < m THEN a + n ELSE a + n - m
    BY <1>1, Advance
  <1>3. d = IF a >= b THEN a - b ELSE a - b + m
    BY Distance
  <1>4. (c - b) % m = IF c >= b THEN c - b ELSE c - b + m
    BY <1>2, Distance
  <1>5. d + n < m
    OBVIOUS
  <1> HIDE DEF c, d
  <1>6. (c - b) % m = d + n
    BY <1>1, <1>2, <1>3, <1>4, <1>5
  <1> QED BY <1>6 DEF c, d

LEMMA LenAfterOut ==
  ASSUME NEW m \in Nat \ {0}, NEW a \in 0..(m - 1), NEW b \in 0..(m - 1),
         NEW n \in Nat, n <= (a - b) % m
  PROVE  (a - ((b + n) % m)) % m = ((a - b) % m) - n
  <1>1. n \in 0..(m - 1)
    BY Distance
  <1> DEFINE c == (b + n) % m
             d == (a - b) % m
  <1>2. c \in 0..(m - 1) /\ c = IF b + n < m THEN b + n ELSE b + n - m
    BY <1>1, Advance
  <1>3. d = IF a >= b THEN a - b ELSE a - b + m
    BY Distance
  <1>4. (a - c) % m = IF a >= c THEN a - c ELSE a - c + m
    BY <1>2, Distance
  <1>5. n <= d
    OBVIOUS
  <1> HIDE DEF c, d
  <1>6. (a - c) % m = d - n
    BY <1>1, <1>2, <1>3, <1>4, <1>5
  <1> QED BY <1>6 DEF c, d

\* Two positions less than a turn apart have different addresses.
LEMMA Multiple ==
  ASSUME NEW m \in Nat \ {0}, NEW k \in Int, k >= 1
  PROVE  m * k >= m
  <1>1. k - 1 \in Nat /\ m * (k - 1) >= 0
    OBVIOUS
  <1>2. m * k = m * (k - 1) + m
    OBVIOUS
  <1> QED BY <1>1, <1>2

LEMMA AddressesDiffer ==
  ASSUME NEW m \in Nat \ {0}, NEW a \in Nat, NEW b \in Nat, a < b, b < a + m
  PROVE  a % m # b % m
  <1> SUFFICES ASSUME a % m = b % m PROVE FALSE
    OBVIOUS
  <1> DEFINE x == a \div m
             y == b \div m
  <1>1. x \in Int /\ a = m * x + (a % m)
    OBVIOUS
  <1>2. y \in Int /\ b = m * y + (b % m)
    OBVIOUS
  <1>3. a % m \in Int /\ b % m \in Int
    OBVIOUS
  <1> HIDE DEF x, y
  <1>4. m * x \in Int /\ m * y \in Int
    BY <1>1, <1>2
  <1>5. b - a = m * y - m * x
    BY <1>1, <1>2, <1>3, <1>4
  <1>6. m * y - m * x = m * (y - x)
    BY <1>1, <1>2
  <1>7. CASE y - x >= 1
    BY <1>1, <1>2, <1>5, <1>6, <1>7, Multiple
  <1>8. CASE y - x <= 0
    <2>1. m * y <= m * x
      BY <1>1, <1>2, <1>8
    <2> QED BY <2>1, <1>4, <1>5
  <1> QED BY <1>1, <1>2, <1>7, <1>8

\* Division with remainder is unique.
LEMMA Remainder ==
  ASSUME NEW m \in Nat \ {0}, NEW k \in Int, NEW r \in 0..(m - 1), NEW z \in Int,
         z = m * k + r
  PROVE  z % m = r
  <1> DEFINE x == z \div m
             w == z % m
  <1>1. x \in Int /\ z = m * x + w /\ w \in 0..(m - 1)
    OBVIOUS
  <1> HIDE DEF x, w
  <1>2. m * x \in Int /\ m * k \in Int
    BY <1>1
  <1>a. m * k - m * x = m * (k - x) /\ m * x - m * k = m * (x - k)
    BY <1>1
  <1>b. m * k - m * x = w - r /\ m * x - m * k = r - w
    BY <1>1, <1>2
  <1>3. CASE k - x >= 1
    <2>1. k - x \in Int
      BY <1>1
    <2>2. m * (k - x) >= m
      BY <1>3, <2>1, Multiple
    <2> QED BY <2>2, <1>1, <1>a, <1>b
  <1>4. CASE x - k >= 1
    <2>1. x - k \in Int
      BY <1>1
    <2>2. m * (x - k) >= m
      BY <1>4, <2>1, Multiple
    <2> QED BY <2>2, <1>1, <1>a, <1>b
  <1>5. CASE x = k
    <2>1. m * x = m * k
      BY <1>5
    <2>2. w - r = 0
      BY <2>1, <1>2, <1>b
    <2> QED BY <2>2, <1>1
  <1>6. w = r
    BY <1>1, <1>3, <1>4, <1>5
  <1> QED BY <1>6 DEF w

\* A full turn of the counters does not move an address.
LEMMA TurnKeepsAddress ==
  ASSUME NEW s \in Nat \ {0}, NEW m \in Nat \ {0}, m % s = 0, NEW a \in Nat
  PROVE  (a + m) % s = a % s
  <1> DEFINE t == m \div s
             x == a \div s
             r == a % s
  <1>1. t \in Int /\ m = s * t + (m % s)
    OBVIOUS
  <1>2. x \in Int /\ a = s * x + r /\ r \in 0..(s - 1)
    OBVIOUS
  <1> HIDE DEF t, x, r
  <1>3. s * t \in Int /\ s * x \in Int /\ s * t + s * x = s * (t + x)
    BY <1>1, <1>2
  <1>4. a + m = s * (t + x) + r
    BY <1>1, <1>2, <1>3
  <1>5. t + x \in Int
    BY <1>1, <1>2
  <1>6. a + m \in Int
    OBVIOUS
  <1>7. (a + m) % s = r
    BY <1>2, <1>4, <1>5, <1>6, Remainder
  <1> QED BY <1>7 DEF r

-----------------------------------------------------------------------------
(* The inductive invariant                                                 *)

\* The body the log thread is copying is in the ring, and its header is in
\* the thread's own block.
BodyThere ==
  /\ consPc \in {"body", "log"} => Len(buf) >= HeaderLen
  /\ consPc = "body" => kfifo_len >= buf[1].len

RingInv == PushFits /\ copied <= want /\ BodyThere

LEMMA Constants ==
  /\ Size \in Nat \ {0} /\ Word \in Nat \ {0} /\ Size < Word
  /\ HeaderLen \in Nat \ {0} /\ HeaderLen < Size
  /\ MaxLen \in Nat \ {0} /\ MaxMsgs \in Nat
  BY SizeAssumption, WordAssumption, HeaderAssumption, MaxLenAssumption, MsgsAssumption

\* kfifo_len is a number below Word.
LEMMA LenType == TypeOK => kfifo_len \in 0..(Word - 1)
  <1> SUFFICES ASSUME TypeOK PROVE kfifo_len \in 0..(Word - 1)
    OBVIOUS
  <1>1. Word \in Nat \ {0} /\ in \in 0..(Word - 1) /\ out \in 0..(Word - 1)
    BY Constants DEF TypeOK
  <1> QED BY <1>1, Distance DEF kfifo_len

\* The first cell of the log thread's block, once it has one.
LEMMA BufHead ==
  ASSUME TypeOK, Len(buf) >= HeaderLen
  PROVE  buf[1].len \in Nat /\ \A c : Append(buf, c)[1] = buf[1]
  <1>1. buf \in Seq(Cell) /\ 1 \in 1..Len(buf)
    BY Constants DEF TypeOK
  <1>2. buf[1] \in Cell
    BY <1>1
  <1>3. buf[1].len \in Nat
    BY <1>2 DEF Cell
  <1>4. \A c : Append(buf, c)[1] = buf[1]
    BY <1>1
  <1> QED BY <1>3, <1>4

LEMMA SlotType ==
  ASSUME NEW c \in Nat, NEW i \in Nat
  PROVE  Slot(c, i) \in 0..(Size - 1)
  BY Constants DEF Slot

LEMMA LineType ==
  ASSUME NEW id \in 0..MaxMsgs, NEW len \in Nat, NEW type \in LogTypes
  PROVE  Line(id, len, type) \in Seq(Cell)
  <1>1. HeaderLen + len \in Nat
    BY Constants
  <1>2. \A i \in 1..(HeaderLen + len) : [id |-> id, k |-> i, len |-> len, type |-> type] \in Cell
    BY <1>1 DEF Cell
  <1> QED BY <1>1, <1>2 DEF Line

LEMMA CutType ==
  ASSUME NEW len \in Lengths
  PROVE  Cut(len) \in Nat
  BY Constants, LengthsAssumption DEF Cut

-----------------------------------------------------------------------------
(* Initially                                                               *)

LEMMA InitRing == Init => TypeOK /\ RingInv
  <1> SUFFICES ASSUME Init PROVE TypeOK /\ RingInv
    OBVIOUS
  <1>1. Blank \in Cell
    BY Constants DEF Blank, Cell, LogTypes
  <1>2. TypeOK
    BY <1>1, Constants DEF Init, TypeOK, LogTypes
  <1>3. kfifo_len = 0
    BY Constants, ModSmall DEF Init, kfifo_len
  <1>4. RingInv
    BY <1>3, Constants DEF Init, RingInv, PushFits, Pending, BodyThere
  <1> QED BY <1>2, <1>4

-----------------------------------------------------------------------------
(* The logic thread                                                        *)

\* A step that moves neither counter keeps the length.
LEMMA SameLen == UNCHANGED <<in, out>> => kfifo_len' = kfifo_len
  BY DEF kfifo_len

LEMMA LogRing ==
  ASSUME TypeOK, RingInv, NEW len \in Lengths, NEW type \in LogTypes, Log(len, type)
  PROVE  TypeOK' /\ RingInv'
  <1>1. kfifo_len' = kfifo_len /\ kfifo_len \in 0..(Word - 1)
    BY SameLen, LenType DEF Log
  <1>2. Cut(len) \in Nat
    BY CutType
  <1>3. kfifo_len + HeaderLen + Cut(len) < Size
    BY <1>1, <1>2, Constants DEF Log, kfifo_unused
  <1>4. Clamp(HeaderLen) = HeaderLen
    BY <1>1, <1>2, <1>3, Constants DEF Clamp, kfifo_unused
  <1>5. TypeOK'
    BY <1>2, <1>4, Constants DEF Log, TypeOK, consVars
  <1>6. PushFits' /\ (copied <= want)'
    <2>1. prodPc' = "header" /\ want' = HeaderLen /\ msgLen' = Cut(len) /\ copied' = 0
      BY <1>4 DEF Log
    <2>2. Pending' = HeaderLen + Cut(len)
      BY <2>1 DEF Pending
    <2> QED BY <2>1, <2>2, <1>1, <1>2, <1>3, Constants DEF PushFits
  <1>7. BodyThere'
    BY <1>1 DEF Log, RingInv, BodyThere, consVars
  <1> QED BY <1>5, <1>6, <1>7 DEF RingInv

LEMMA CopyInRing ==
  ASSUME TypeOK, RingInv, kfifo_copy_in
  PROVE  TypeOK' /\ RingInv'
  <1>1. kfifo_len' = kfifo_len
    BY SameLen DEF kfifo_copy_in
  <1>2. in \in Nat /\ copied \in Nat /\ want \in Nat /\ msgLen \in Nat /\ count \in 0..MaxMsgs
    BY Constants DEF TypeOK
  <1>3. Slot(in, copied) \in 0..(Size - 1)
    BY <1>2, SlotType
  <1>4. NextCell \in Cell
    BY <1>2, Constants DEF NextCell, Cell, TypeOK
  <1>5. TypeOK'
    BY <1>2, <1>3, <1>4 DEF kfifo_copy_in, TypeOK, consVars
  <1>6. (copied <= want)'
    BY <1>2 DEF kfifo_copy_in
  <1>7. PushFits' /\ BodyThere'
    BY <1>1 DEF kfifo_copy_in, RingInv, PushFits, Pending, BodyThere, consVars
  <1> QED BY <1>5, <1>6, <1>7 DEF RingInv

\* A completed kfifo_in makes the ring longer by what was copied, which the
\* test in _DoKFiFoPushMsg has set aside.
LEMMA InAdvances ==
  ASSUME TypeOK, RingInv, prodPc \in {"header", "body"}, in' = (in + want) % Word, out' = out
  PROVE  /\ in' \in 0..(Word - 1)
         /\ kfifo_len' = kfifo_len + want
         /\ want <= Pending /\ kfifo_len + Pending < Size
         /\ kfifo_len \in Nat /\ want \in Nat /\ msgLen \in Nat
  <1>1. kfifo_len \in 0..(Word - 1) /\ want \in Nat /\ msgLen \in Nat
    BY LenType DEF TypeOK
  <1>2. kfifo_len + Pending < Size /\ want <= Pending
    BY <1>1, Constants DEF RingInv, PushFits, Pending
  <1>3. Pending \in Nat
    BY <1>1, Constants DEF Pending
  <1>4. kfifo_len + want < Word /\ want \in 0..(Word - 1)
    BY <1>1, <1>2, <1>3, Constants
  <1>5. Word \in Nat \ {0} /\ in \in 0..(Word - 1) /\ out \in 0..(Word - 1)
    BY Constants DEF TypeOK
  <1>6. in' \in 0..(Word - 1)
    BY <1>4, <1>5, Advance
  <1>7. (((in + want) % Word) - out) % Word = ((in - out) % Word) + want
    BY <1>1, <1>4, <1>5, LenAfterIn DEF kfifo_len
  <1>8. kfifo_len' = kfifo_len + want
    BY <1>7 DEF kfifo_len
  <1> QED BY <1>1, <1>2, <1>6, <1>8

LEMMA HeaderInRing ==
  ASSUME TypeOK, RingInv, HeaderIn
  PROVE  TypeOK' /\ RingInv'
  <1>1. /\ in' \in 0..(Word - 1) /\ kfifo_len' = kfifo_len + want
        /\ kfifo_len + Pending < Size
        /\ kfifo_len \in Nat /\ want \in Nat /\ msgLen \in Nat
    BY InAdvances DEF HeaderIn
  <1>2. want = HeaderLen /\ Pending = HeaderLen + msgLen
    BY DEF HeaderIn, RingInv, PushFits, Pending
  <1>3. kfifo_len' + msgLen < Size
    BY <1>1, <1>2, Constants
  <1>4. want' = IF msgLen > Size - kfifo_len' THEN Size - kfifo_len' ELSE msgLen
    BY DEF HeaderIn, kfifo_len
  <1>5. want' = msgLen
    BY <1>1, <1>3, <1>4, Constants
  <1>6. TypeOK'
    BY <1>1, <1>5, Constants DEF HeaderIn, TypeOK, consVars
  <1>7. prodPc' = "body" /\ msgLen' = msgLen /\ copied' = 0
    BY DEF HeaderIn
  <1>8. PushFits' /\ (copied <= want)'
    BY <1>1, <1>3, <1>5, <1>7 DEF PushFits, Pending
  <1>9. BodyThere'
    <2>1. UNCHANGED <<consPc, buf>> /\ kfifo_len' >= kfifo_len
      BY <1>1 DEF HeaderIn, consVars
    <2>2. consPc = "body" => buf[1].len \in Nat
      BY BufHead DEF RingInv, BodyThere
    <2> QED BY <1>1, <2>1, <2>2 DEF RingInv, BodyThere
  <1> QED BY <1>6, <1>8, <1>9 DEF RingInv

LEMMA BodyInRing ==
  ASSUME TypeOK, RingInv, BodyIn
  PROVE  TypeOK' /\ RingInv'
  <1>1. /\ in' \in 0..(Word - 1) /\ kfifo_len' = kfifo_len + want
        /\ kfifo_len + Pending < Size /\ want <= Pending
        /\ kfifo_len \in Nat /\ want \in Nat /\ msgLen \in Nat
    BY InAdvances DEF BodyIn
  <1>2. Line(count, msgLen, msgType) \in Seq(Cell)
    BY <1>1, LineType DEF TypeOK
  <1>3. TypeOK'
    BY <1>1, <1>2 DEF BodyIn, TypeOK, consVars
  <1>4. prodPc' = "idle" /\ Pending = msgLen /\ copied' = 0 /\ want' = want
    BY DEF BodyIn, Pending
  <1>5. PushFits' /\ (copied <= want)'
    BY <1>1, <1>4, Constants DEF PushFits, Pending
  <1>6. BodyThere'
    <2>1. UNCHANGED <<consPc, buf>> /\ kfifo_len' >= kfifo_len
      BY <1>1 DEF BodyIn, consVars
    <2>2. consPc = "body" => buf[1].len \in Nat
      BY BufHead DEF RingInv, BodyThere
    <2> QED BY <1>1, <2>1, <2>2 DEF RingInv, BodyThere
  <1> QED BY <1>3, <1>5, <1>6 DEF RingInv

LEMMA ProducerRing == TypeOK /\ RingInv /\ Producer => TypeOK' /\ RingInv'
  <1> SUFFICES ASSUME TypeOK, RingInv, Producer PROVE TypeOK' /\ RingInv'
    OBVIOUS
  <1>1. ASSUME NEW len \in Lengths, LogDropped(len) PROVE TypeOK' /\ RingInv'
    <2>1. kfifo_len' = kfifo_len
      BY <1>1, SameLen DEF LogDropped
    <2>2. TypeOK'
      BY <1>1, Constants DEF LogDropped, TypeOK, consVars
    <2>3. RingInv'
      BY <1>1, <2>1 DEF LogDropped, RingInv, PushFits, Pending, BodyThere, consVars
    <2> QED BY <2>2, <2>3
  <1> QED BY <1>1, LogRing, CopyInRing, HeaderInRing, BodyInRing DEF Producer, Push, CallLog

-----------------------------------------------------------------------------
(* The log thread                                                          *)

\* A cell read from the ring keeps the block well typed.
LEMMA ReadType ==
  ASSUME TypeOK, NEW i \in Nat
  PROVE  Append(buf, data[Slot(out, i)]) \in Seq(Cell)
  <1>1. out \in Nat /\ buf \in Seq(Cell) /\ data \in [0..(Size - 1) -> Cell]
    BY Constants DEF TypeOK
  <1>2. data[Slot(out, i)] \in Cell
    BY <1>1, SlotType
  <1> QED BY <1>1, <1>2

LEMMA Shorter ==
  ASSUME NEW a \in Nat, NEW b \in Nat, NEW p \in Nat, NEW s \in Nat, b <= a, a + p < s
  PROVE  b + p < s
  OBVIOUS

LEMMA CheckHeaderRing ==
  ASSUME TypeOK, RingInv, CheckHeader
  PROVE  TypeOK' /\ RingInv'
  <1>1. /\ UNCHANGED <<in, data, prodPc, count, msgLen, msgType, want, copied, published, buf, disk>>
        /\ Len(buf) = HeaderLen
        /\ consPc' \in {"idle", "body"}
    BY DEF CheckHeader, prodVars
  <1>2. kfifo_len \in 0..(Word - 1) /\ buf[1].len \in Nat /\ HeaderLen \in Nat
        /\ Word \in Nat \ {0} /\ in \in 0..(Word - 1) /\ out \in 0..(Word - 1)
    BY <1>1, LenType, BufHead, Constants DEF TypeOK
  <1>3. /\ out' \in 0..(Word - 1) /\ kfifo_len' \in Nat /\ kfifo_len' <= kfifo_len
        /\ consPc' = "body" => kfifo_len' >= buf[1].len
    <2>1. CASE out' = in /\ consPc' = "idle"
      <3>1. kfifo_len' = 0
        BY <2>1, <1>1, <1>2, ModSmall DEF kfifo_len
      <3> QED BY <3>1, <2>1, <1>2
    <2>2. CASE out' = out /\ consPc' = "idle"
      <3>1. kfifo_len' = kfifo_len
        BY <2>2, <1>1, SameLen
      <3> QED BY <3>1, <2>2, <1>2
    <2>3. CASE /\ out' = (out + HeaderLen) % Word
               /\ ~(kfifo_len < buf[1].len + HeaderLen)
      <3>1. HeaderLen <= kfifo_len /\ HeaderLen \in 0..(Word - 1)
        BY <2>3, <1>2
      <3>2. (in - ((out + HeaderLen) % Word)) % Word = ((in - out) % Word) - HeaderLen
        BY <3>1, <1>2, LenAfterOut DEF kfifo_len
      <3>3. kfifo_len' = kfifo_len - HeaderLen
        BY <3>2, <2>3, <1>1 DEF kfifo_len
      <3>4. out' \in 0..(Word - 1)
        BY <2>3, <3>1, <1>2, Advance
      <3> QED BY <3>1, <3>3, <3>4, <2>3, <1>2
    <2> QED BY <2>1, <2>2, <2>3 DEF CheckHeader
  <1>4. TypeOK'
    BY <1>1, <1>3 DEF TypeOK
  <1>5. Pending' = Pending /\ Pending \in Nat
    BY <1>1, Constants DEF Pending, TypeOK
  <1>6. PushFits'
    <2>1. kfifo_len + Pending < Size
      BY DEF RingInv, PushFits
    <2>a. kfifo_len' <= kfifo_len /\ kfifo_len' \in Nat
      BY <1>3
    <2>b. kfifo_len \in Nat /\ Size \in Nat
      BY <1>2, Constants
    <2>c. kfifo_len' + Pending < Size
      BY <2>1, <2>a, <2>b, <1>5, Shorter
    <2>2. kfifo_len' + Pending' < Size
      BY <2>c, <1>5
    <2> QED BY <2>2, <1>1 DEF RingInv, PushFits
  <1>7. BodyThere'
    BY <1>1, <1>2, <1>3 DEF BodyThere
  <1> QED BY <1>1, <1>4, <1>6, <1>7 DEF RingInv

LEMMA BodyOutRing ==
  ASSUME TypeOK, RingInv, BodyOut
  PROVE  TypeOK' /\ RingInv'
  <1>1. /\ UNCHANGED <<in, data, prodPc, count, msgLen, msgType, want, copied, published, buf, disk>>
        /\ consPc = "body" /\ consPc' = "log" /\ out' = (out + buf[1].len) % Word
    BY DEF BodyOut, prodVars
  <1>2. Len(buf) >= HeaderLen /\ buf[1].len <= kfifo_len /\ buf[1].len \in Nat
    <2>1. Len(buf) >= HeaderLen /\ kfifo_len >= buf[1].len
      BY <1>1 DEF RingInv, BodyThere
    <2>2. buf[1].len \in Nat
      BY <2>1, BufHead
    <2>3. kfifo_len \in 0..(Word - 1)
      BY LenType
    <2> QED BY <2>1, <2>2, <2>3
  <1>3. kfifo_len \in 0..(Word - 1) /\ Word \in Nat \ {0}
        /\ in \in 0..(Word - 1) /\ out \in 0..(Word - 1)
    BY LenType, Constants DEF TypeOK
  <1>4. buf[1].len \in 0..(Word - 1)
    BY <1>2, <1>3
  <1>5. out' \in 0..(Word - 1)
    BY <1>1, <1>3, <1>4, Advance
  <1>6. (in - ((out + buf[1].len) % Word)) % Word = ((in - out) % Word) - buf[1].len
    <2>1. PICK n \in Nat : n = buf[1].len
      BY <1>2
    <2>2. n <= (in - out) % Word
      BY <1>2, <2>1 DEF kfifo_len
    <2>3. (in - ((out + n) % Word)) % Word = ((in - out) % Word) - n
      BY <1>3, <2>2, LenAfterOut
    <2> QED BY <2>1, <2>3
  <1>7. kfifo_len' = kfifo_len - buf[1].len
    BY <1>6, <1>1 DEF kfifo_len
  <1>8. TypeOK'
    BY <1>1, <1>5 DEF TypeOK
  <1>9. Pending' = Pending /\ Pending \in Nat
    <2>1. msgLen \in Nat /\ HeaderLen \in Nat
      BY Constants DEF TypeOK
    <2> QED BY <1>1, <2>1 DEF Pending
  <1>10. PushFits'
    <2>1. kfifo_len + Pending < Size
      BY DEF RingInv, PushFits
    <2>2. kfifo_len \in Nat /\ kfifo_len' \in Nat /\ kfifo_len' <= kfifo_len /\ Size \in Nat
      BY <1>2, <1>3, <1>7, Constants
    <2>3. kfifo_len' + Pending < Size
      BY <1>9, <2>1, <2>2, Shorter
    <2>4. kfifo_len' + Pending' < Size
      BY <1>9, <2>3
    <2> QED BY <1>1, <2>4 DEF RingInv, PushFits
  <1>11. BodyThere'
    BY <1>1, <1>2 DEF BodyThere
  <1> QED BY <1>1, <1>8, <1>10, <1>11 DEF RingInv

LEMMA ConsumerRing == TypeOK /\ RingInv /\ Consumer => TypeOK' /\ RingInv'
  <1> SUFFICES ASSUME TypeOK, RingInv, Consumer PROVE TypeOK' /\ RingInv'
    OBVIOUS
  <1> USE DEF prodVars
  <1>1. CASE PopBegin \/ DoLog
    <2>1. kfifo_len' = kfifo_len
      BY <1>1, SameLen DEF PopBegin, DoLog
    <2>2. disk' \in Seq(Seq(Cell)) /\ buf' \in Seq(Cell)
      <3> DEFINE S == Seq(Cell)
      <3>1. disk \in Seq(S) /\ buf \in S
        BY DEF TypeOK
      <3>2. <<>> \in S
        OBVIOUS
      <3>3. (disk' = disk \/ disk' = Append(disk, buf)) /\ buf' = <<>>
        BY <1>1 DEF PopBegin, DoLog
      <3> HIDE DEF S
      <3>4. disk' \in Seq(S) /\ buf' \in S
        BY <3>1, <3>2, <3>3, AppendProperties
      <3> QED BY <3>4 DEF S
    <2>4. TypeOK'
      BY <1>1, <2>2 DEF PopBegin, DoLog, TypeOK
    <2>3. RingInv'
      BY <1>1, <2>1 DEF PopBegin, DoLog, RingInv, PushFits, Pending, BodyThere
    <2> QED BY <2>4, <2>3
  <1>2. CASE PeekHeader
    <2>1. kfifo_len' = kfifo_len
      BY <1>2, SameLen DEF PeekHeader
    <2>2. Len(buf) \in Nat
      BY DEF TypeOK
    <2>3. TypeOK'
      BY <1>2, <2>2, ReadType DEF PeekHeader, TypeOK
    <2>4. RingInv'
      BY <1>2, <2>1 DEF PeekHeader, RingInv, PushFits, Pending, BodyThere
    <2> QED BY <2>3, <2>4
  <1>3. CASE CopyBody
    <2>1. kfifo_len' = kfifo_len /\ consPc = "body" /\ consPc' = "body"
      BY <1>3, SameLen DEF CopyBody
    <2>2. Len(buf) >= HeaderLen /\ kfifo_len >= buf[1].len
      BY <2>1 DEF RingInv, BodyThere
    <2>3. Len(buf) \in Nat /\ Len(buf) - HeaderLen \in Nat /\ buf \in Seq(Cell)
      BY <2>2, Constants DEF TypeOK
    <2>4. buf' \in Seq(Cell) /\ buf'[1] = buf[1] /\ Len(buf') = Len(buf) + 1
      <3>1. buf' = Append(buf, data[Slot(out, Len(buf) - HeaderLen)])
        BY <1>3 DEF CopyBody
      <3>2. buf' \in Seq(Cell)
        BY <3>1, <2>3, ReadType
      <3>3. buf'[1] = buf[1]
        BY <3>1, <2>2, BufHead
      <3>4. Len(buf') = Len(buf) + 1
        BY <3>1, <2>3
      <3> QED BY <3>2, <3>3, <3>4
    <2>5. TypeOK'
      BY <1>3, <2>4 DEF CopyBody, TypeOK
    <2>6. BodyThere'
      BY <2>1, <2>2, <2>3, <2>4, Constants DEF BodyThere
    <2>7. PushFits' /\ (copied <= want)'
      BY <1>3, <2>1 DEF CopyBody, RingInv, PushFits, Pending
    <2> QED BY <2>5, <2>6, <2>7 DEF RingInv
  <1> QED BY <1>1, <1>2, <1>3, CheckHeaderRing, BodyOutRing DEF Consumer

\* Types, reservation and body availability are inductive together.
THEOREM LogRingInductive == Spec => [](TypeOK /\ RingInv)
  <1>1. TypeOK /\ RingInv /\ [Next]_vars => TypeOK' /\ RingInv'
    <2> SUFFICES ASSUME TypeOK, RingInv, [Next]_vars PROVE TypeOK' /\ RingInv'
      OBVIOUS
    <2>1. CASE UNCHANGED vars
      <3>1. kfifo_len' = kfifo_len
        BY <2>1, SameLen DEF vars
      <3>2. TypeOK'
        BY <2>1 DEF vars, TypeOK, prodVars, consVars
      <3>3. RingInv'
        BY <2>1, <3>1 DEF vars, RingInv, PushFits, Pending, BodyThere, prodVars, consVars
      <3> QED BY <3>2, <3>3
    <2> QED BY <2>1, ProducerRing, ConsumerRing DEF Next
  <1> QED BY <1>1, InitRing, PTL DEF Spec

\* Every variable of the logger keeps its type: in particular no read or
\* write leaves the ring.
THEOREM LogTypeOK == Spec => []TypeOK
  BY LogRingInductive, PTL

\* A push that has begun fits, whatever the log thread does meanwhile and
\* wherever the counters wrap.
THEOREM LogPushFits == Spec => []PushFits
  <1>1. RingInv => PushFits
    BY DEF RingInv
  <1> QED BY <1>1, LogRingInductive, PTL

\* The address of the cell a push writes next, counted from out.
LEMMA WriteAddress ==
  ASSUME TypeOK, NEW i \in Nat
  PROVE  Slot(in, i) = Slot(out, kfifo_len + i)
  <1> DEFINE d == kfifo_len
  <1>1. in \in Nat /\ out \in Nat /\ in < Word /\ out < Word /\ Word \in Nat \ {0}
        /\ Size \in Nat \ {0} /\ Word % Size = 0 /\ d \in Nat
    BY Constants, WordAssumption, LenType DEF TypeOK
  <1>2. d = IF in >= out THEN in - out ELSE in - out + Word
    BY <1>1, Distance DEF kfifo_len
  <1> HIDE DEF d
  <1>3. CASE in >= out
    <2>1. in + i = out + (d + i)
      BY <1>1, <1>2, <1>3
    <2> QED BY <2>1 DEF Slot, d
  <1>4. CASE in < out
    <2>1. (in + i) + Word = out + (d + i) /\ in + i \in Nat
      BY <1>1, <1>2, <1>4
    <2>2. ((in + i) + Word) % Size = (in + i) % Size
      BY <1>1, <2>1, TurnKeepsAddress
    <2> QED BY <2>1, <2>2 DEF Slot, d
  <1> QED BY <1>1, <1>3, <1>4

\* The producer never writes a cell the log thread has not given back.
THEOREM LogNoOverwrite == Spec => []NoOverwrite
  <1>1. TypeOK /\ RingInv => NoOverwrite
    <2> SUFFICES ASSUME TypeOK, RingInv, prodPc \in {"header", "body"}, copied < want,
                        NEW i \in 0..(Size - 1), i < kfifo_len
                 PROVE  Slot(out, i) # Slot(in, copied)
      BY DEF NoOverwrite
    <2> DEFINE d == kfifo_len
    <2>1. d \in Nat /\ copied \in Nat /\ want \in Nat /\ msgLen \in Nat /\ out \in Nat
      BY Constants, LenType DEF TypeOK
    <2>2. want <= Pending /\ d + Pending < Size /\ Pending \in Nat
      BY <2>1, Constants DEF RingInv, PushFits, Pending
    <2>3. Slot(in, copied) = Slot(out, d + copied)
      BY <2>1, WriteAddress
    <2>4. i < d
      OBVIOUS
    <2> HIDE DEF d
    <2>5. out + i \in Nat /\ out + (d + copied) \in Nat /\ out + i < out + (d + copied)
          /\ out + (d + copied) < (out + i) + Size
      BY <2>1, <2>2, <2>4, Constants
    <2>6. (out + i) % Size # (out + (d + copied)) % Size
      BY <2>5, Constants, AddressesDiffer
    <2> QED BY <2>3, <2>6 DEF Slot
  <1> QED BY <1>1, LogRingInductive, PTL

-----------------------------------------------------------------------------
(* The ring as a stream of lines                                           *)

\* Line number j: those published, and then the one that is being pushed.
LineAt(j) == IF j <= Len(published) THEN published[j] ELSE Line(count, msgLen, msgType)

\* The next line for the file, which may be the one that is being pushed.
NextLine == IF Len(disk) < Len(published) THEN published[Len(disk) + 1]
                                          ELSE Line(count, msgLen, msgType)

\* What of the next line for the file is no longer in the ring, and what of
\* the line that is being pushed is in it.
Taken == CASE consPc = "body" -> HeaderLen [] consPc = "log" -> Len(buf) [] OTHER -> 0
Given == IF prodPc = "body" THEN HeaderLen ELSE 0

\* S[j] is the number of cells that were pushed before line number j.
Offsets(S) ==
  /\ S \in [1..(Len(published) + 1) -> Nat]
  /\ \A j \in 1..Len(published) :
       S[j + 1] = S[j] + Len(published[j]) /\ S[j + 1] <= S[Len(published) + 1]

\* The ring holds what was pushed and not taken, and each cell of it, with
\* those that the running kfifo_in has copied, is the one of its line.
Unread(S) == S[Len(disk) + 1] + Taken + kfifo_len = S[Len(published) + 1] + Given

Content(S) ==
  \A j \in 1..(Len(published) + 1) : \A p \in 1..Len(LineAt(j)) : \A x \in Nat :
    S[j] + p = S[Len(disk) + 1] + Taken + x + 1 /\ x < kfifo_len + copied =>
      data[Slot(out, x)] = LineAt(j)[p]

\* What the log thread has copied is the beginning of the next line, which is
\* published before its header is skipped.
ReadInv ==
  /\ consPc = "peek" => kfifo_len >= HeaderLen /\ Len(buf) <= HeaderLen
  /\ consPc \in {"body", "log"} =>
       Len(disk) < Len(published) /\ Len(buf) <= Len(NextLine)
  /\ consPc = "log" => Len(buf) = Len(NextLine)
  /\ consPc # "idle" => \A i \in 1..Len(buf) : buf[i] = NextLine[i]

PushInv ==
  /\ prodPc # "idle" => count >= 1 /\ msgLen \in 1..(MaxLen - 1)
  /\ prodPc = "idle" => copied = 0

Published(line) ==
  \E id \in 1..MaxMsgs, len \in 1..(MaxLen - 1), type \in LogTypes : line = Line(id, len, type)

LineInv ==
  /\ \A j \in 1..Len(published) : Published(published[j])
  /\ Len(disk) <= Len(published)

Stream(S) == Offsets(S) /\ Unread(S) /\ Content(S)

StreamInv == LineInv /\ PushInv /\ ReadInv /\ \E S : Stream(S)

\* Lengths and cells of a line.
LEMMA LineCells ==
  ASSUME NEW id, NEW len \in Nat, NEW type
  PROVE  /\ Len(Line(id, len, type)) = HeaderLen + len
         /\ \A p \in 1..(HeaderLen + len) :
              Line(id, len, type)[p] = [id |-> id, k |-> p, len |-> len, type |-> type]
  <1>1. HeaderLen + len \in Nat
    BY Constants
  <1> QED BY <1>1 DEF Line

LEMMA PublishedLine ==
  ASSUME NEW line, Published(line)
  PROVE  /\ line \in Seq(Cell) /\ line[1].len \in 1..(MaxLen - 1) /\ line[1].id \in 1..MaxMsgs
         /\ line = Line(line[1].id, line[1].len, line[1].type)
         /\ Len(line) = HeaderLen + line[1].len
  <1>1. PICK id \in 1..MaxMsgs, len \in 1..(MaxLen - 1), type \in LogTypes : line = Line(id, len, type)
    BY DEF Published
  <1>2. id \in 0..MaxMsgs /\ len \in Nat /\ 1 \in 1..(HeaderLen + len)
    BY Constants
  <1>3. line \in Seq(Cell)
    BY <1>1, <1>2, LineType
  <1>4. line[1] = [id |-> id, k |-> 1, len |-> len, type |-> type] /\ Len(line) = HeaderLen + len
    BY <1>1, <1>2, LineCells
  <1>5. line[1].id = id /\ line[1].len = len /\ line[1].type = type
    BY <1>4
  <1> QED BY <1>1, <1>3, <1>4, <1>5

\* The line that is being pushed is one that may be published.
LEMMA RunningLine ==
  ASSUME TypeOK, PushInv, prodPc # "idle"
  PROVE  Published(Line(count, msgLen, msgType))
  <1>1. count \in 1..MaxMsgs /\ msgLen \in 1..(MaxLen - 1) /\ msgType \in LogTypes
    BY Constants DEF TypeOK, PushInv
  <1> QED BY <1>1 DEF Published

\* The numbers that the stream is about.
LEMMA StreamTypes ==
  ASSUME TypeOK, LineInv, NEW S, Offsets(S)
  PROVE  /\ Len(published) \in Nat /\ Len(disk) \in Nat /\ Len(buf) \in Nat
         /\ Len(disk) <= Len(published)
         /\ S[Len(published) + 1] \in Nat /\ S[Len(disk) + 1] \in Nat
         /\ \A j \in 1..(Len(published) + 1) : S[j] \in Nat
         /\ Taken \in Nat /\ Given \in Nat /\ kfifo_len \in Nat
         /\ copied \in Nat /\ want \in Nat /\ msgLen \in Nat /\ HeaderLen \in Nat \ {0}
  <1>1. /\ Len(published) \in Nat /\ Len(disk) \in Nat /\ Len(buf) \in Nat
        /\ copied \in Nat /\ want \in Nat /\ msgLen \in Nat /\ HeaderLen \in Nat \ {0}
        /\ Len(disk) <= Len(published)
    BY Constants DEF TypeOK, LineInv
  <1>2. \A j \in 1..(Len(published) + 1) : S[j] \in Nat
    BY DEF Offsets
  <1>3. Len(published) + 1 \in 1..(Len(published) + 1) /\ Len(disk) + 1 \in 1..(Len(published) + 1)
    BY <1>1
  <1>4. Taken \in Nat /\ Given \in Nat
    BY <1>1 DEF Taken, Given
  <1>5. kfifo_len \in Nat
    BY LenType, Constants
  <1> QED BY <1>1, <1>2, <1>3, <1>4, <1>5

\* The address of a cell after out has moved by n.
LEMMA SlotAfterOut ==
  ASSUME NEW o \in 0..(Word - 1), NEW n \in 0..(Word - 1), NEW x \in Nat
  PROVE  Slot((o + n) % Word, x) = Slot(o, n + x)
  <1> DEFINE c == (o + n) % Word
  <1>1. Word \in Nat \ {0} /\ Size \in Nat \ {0} /\ Word % Size = 0
    BY Constants, WordAssumption
  <1>2. c = IF o + n < Word THEN o + n ELSE o + n - Word
    BY <1>1, Advance
  <1> HIDE DEF c
  <1>3. CASE o + n < Word
    <2>1. c + x = o + (n + x)
      BY <1>1, <1>2, <1>3
    <2> QED BY <2>1 DEF Slot, c
  <1>4. CASE o + n >= Word
    <2>1. (c + x) + Word = o + (n + x) /\ c + x \in Nat
      BY <1>1, <1>2, <1>4
    <2>2. ((c + x) + Word) % Size = (c + x) % Size
      BY <1>1, <2>1, TurnKeepsAddress
    <2> QED BY <2>1, <2>2 DEF Slot, c
  <1> QED BY <1>1, <1>3, <1>4

LEMMA InitStream == Init => StreamInv
  <1> SUFFICES ASSUME Init PROVE StreamInv
    OBVIOUS
  <1>1. Len(published) = 0 /\ Len(disk) = 0 /\ kfifo_len = 0 /\ copied = 0 /\ Taken = 0 /\ Given = 0
    BY Constants, ModSmall DEF Init, kfifo_len, Taken, Given
  <1>2. LineInv /\ PushInv /\ ReadInv
    BY <1>1 DEF Init, LineInv, PushInv, ReadInv
  <1> DEFINE T == [j \in 1..1 |-> 0]
  <1>3. Offsets(T)
    BY <1>1 DEF Offsets
  <1>4. Unread(T)
    BY <1>1 DEF Unread
  <1>5. Content(T)
    BY <1>1 DEF Content
  <1> QED BY <1>2, <1>3, <1>4, <1>5 DEF StreamInv, Stream

-----------------------------------------------------------------------------
(* The stream under the steps of the logic thread                          *)

\* A cell that begins where the ring ends is not in the ring.
LEMMA NotInRing ==
  ASSUME NEW a \in Nat, NEW l \in Nat, NEW s \in Nat, NEW p \in Int, NEW x \in Nat,
         a + l = s, s + p = a + x + 1, x < l, p >= 1
  PROVE  FALSE
  OBVIOUS

\* Before a push begins, what can be read is published.
LEMMA IdleReads ==
  ASSUME TypeOK, StreamInv, Alive, prodPc = "idle", consPc # "idle"
  PROVE  Len(disk) + 1 <= Len(published)
  <1>1. PICK S : Stream(S)
    BY DEF StreamInv
  <1>2. Offsets(S) /\ Unread(S) /\ LineInv /\ ReadInv
    BY <1>1 DEF Stream, StreamInv
  <1>3. /\ Len(published) \in Nat /\ Len(disk) \in Nat /\ Len(disk) <= Len(published)
        /\ S[Len(published) + 1] \in Nat /\ S[Len(disk) + 1] \in Nat
        /\ kfifo_len \in Nat /\ HeaderLen \in Nat \ {0}
    BY <1>2, StreamTypes
  <1>4. CASE consPc = "peek"
    <2>1. Taken = 0 /\ Given = 0
      BY <1>4 DEF Taken, Given
    <2>2. kfifo_len >= HeaderLen
      BY <1>2, <1>4 DEF ReadInv
    <2>3. S[Len(disk) + 1] + kfifo_len = S[Len(published) + 1]
      BY <1>2, <1>3, <2>1 DEF Unread
    <2>4. Len(disk) # Len(published)
      BY <1>3, <2>2, <2>3
    <2> QED BY <1>3, <2>4
  <1>5. CASE consPc # "peek"
    BY <1>2, <1>3, <1>5 DEF ReadInv, TypeOK, Alive
  <1> QED BY <1>4, <1>5

\* Steps that begin or drop a message change only the line that has nothing
\* in the ring yet.
LEMMA IdleStream ==
  ASSUME TypeOK, StreamInv, Alive, prodPc = "idle", PushInv', copied' = copied, Given' = Given,
         UNCHANGED <<in, out, data, published, consPc, buf, disk>>
  PROVE  StreamInv'
  <1>1. PICK S : Stream(S)
    BY DEF StreamInv
  <1>2. Offsets(S) /\ Unread(S) /\ Content(S) /\ LineInv /\ ReadInv /\ PushInv
    BY <1>1 DEF Stream, StreamInv
  <1>3. /\ Len(published) \in Nat /\ Len(disk) \in Nat /\ Len(disk) <= Len(published)
        /\ S[Len(published) + 1] \in Nat /\ S[Len(disk) + 1] \in Nat
        /\ \A j \in 1..(Len(published) + 1) : S[j] \in Nat
        /\ kfifo_len \in Nat /\ HeaderLen \in Nat \ {0} /\ Taken \in Nat
    BY <1>2, StreamTypes
  <1>4. kfifo_len' = kfifo_len /\ Taken' = Taken /\ copied = 0 /\ Given = 0
    BY <1>2, SameLen DEF Taken, PushInv, Given
  <1>5. \A j : j <= Len(published) => LineAt(j)' = LineAt(j)
    BY DEF LineAt
  <1>6. LineInv'
    BY <1>2 DEF LineInv
  <1>7. ReadInv'
    <2>1. CASE consPc = "idle"
      BY <2>1 DEF ReadInv
    <2>2. CASE consPc # "idle"
      <3>1. Len(disk) + 1 <= Len(published)
        BY <2>2, IdleReads
      <3>2. NextLine' = NextLine
        BY <1>3, <3>1 DEF NextLine
      <3> QED BY <1>2, <1>4, <3>2 DEF ReadInv
    <2> QED BY <2>1, <2>2
  <1>8. Offsets(S)' /\ Unread(S)'
    BY <1>2, <1>4 DEF Offsets, Unread
  <1>a. /\ S[Len(disk) + 1] + Taken \in Nat
        /\ \A j \in 1..(Len(published) + 1) : j <= Len(published) \/ j = Len(published) + 1
    BY <1>3
  <1>9. Content(S)'
    <2> SUFFICES ASSUME NEW j \in 1..(Len(published) + 1), NEW p \in 1..Len(LineAt(j)'), NEW x \in Nat,
                        S[j] + p = S[Len(disk) + 1] + Taken + x + 1, x < kfifo_len
                 PROVE  data[Slot(out, x)] = LineAt(j)'[p]
      BY <1>3, <1>4 DEF Content
    <2>1. CASE j <= Len(published)
      <3>1. LineAt(j)' = LineAt(j)
        BY <1>5, <2>1
      <3>2. p \in 1..Len(LineAt(j)) /\ x < kfifo_len + copied
        BY <1>3, <1>4, <3>1
      <3>3. data[Slot(out, x)] = LineAt(j)[p]
        BY <1>2, <3>2 DEF Content
      <3> QED BY <3>1, <3>3
    <2>2. CASE j = Len(published) + 1
      <3>1. S[Len(disk) + 1] + Taken + kfifo_len = S[j]
        BY <1>2, <1>3, <1>4, <2>2 DEF Unread
      <3>2. S[j] \in Nat
        BY <1>3, <2>2
      <3>3. p >= 1 /\ p \in Int
        OBVIOUS
      <3>4. FALSE
        BY <1>3, <1>a, <3>1, <3>2, <3>3, NotInRing
      <3> QED BY <3>4
    <2> QED BY <1>a, <2>1, <2>2
  <1> QED BY <1>6, <1>7, <1>8, <1>9 DEF StreamInv, Stream

LEMMA LogStream ==
  ASSUME TypeOK, StreamInv, Alive, NEW len \in Lengths,
         (\E type \in LogTypes : Log(len, type)) \/ LogDropped(len)
  PROVE  StreamInv'
  <1>1. Cut(len) \in Nat /\ Cut(len) <= MaxLen - 1
    BY Constants, LengthsAssumption DEF Cut
  <1>2. PushInv /\ count \in Nat /\ prodPc = "idle" /\ copied = 0 /\ Given = 0
    BY DEF StreamInv, TypeOK, PushInv, Log, LogDropped, Given
  <1>3. ASSUME NEW type \in LogTypes, Log(len, type) PROVE StreamInv'
    <2>1. PushInv' /\ copied' = 0 /\ Given' = 0
      BY <1>1, <1>2, <1>3, Constants DEF Log, PushInv, Given
    <2>2. UNCHANGED <<in, out, data, published, consPc, buf, disk>>
      BY <1>3 DEF Log, consVars
    <2> QED BY <1>2, <2>1, <2>2, IdleStream
  <1>4. CASE LogDropped(len)
    <2>1. PushInv' /\ copied' = 0 /\ Given' = 0
      BY <1>2, <1>4 DEF LogDropped, PushInv, Given
    <2>2. UNCHANGED <<in, out, data, published, consPc, buf, disk>>
      BY <1>4 DEF LogDropped, consVars
    <2> QED BY <1>2, <2>1, <2>2, IdleStream
  <1> QED BY <1>3, <1>4

\* A step that leaves the lines, what was dumped and the log thread alone
\* keeps what that thread has read.
LEMMA ReadKept ==
  ASSUME TypeOK, ReadInv, kfifo_len' \in Nat, kfifo_len' >= kfifo_len,
         UNCHANGED <<published, count, msgLen, msgType, consPc, buf, disk>>
  PROVE  ReadInv'
  <1>2. NextLine' = NextLine
    BY DEF NextLine
  <1>3. kfifo_len \in Nat /\ HeaderLen \in Nat
    BY LenType, Constants
  <1> QED BY <1>2, <1>3 DEF ReadInv

\* The cell that is copied into the ring is the next one of its line, and it
\* goes to an address that none of the others has.
LEMMA CopyInStream ==
  ASSUME TypeOK, RingInv, StreamInv, kfifo_copy_in
  PROVE  StreamInv'
  <1>1. PICK S : Stream(S)
    BY DEF StreamInv
  <1>2. Offsets(S) /\ Unread(S) /\ Content(S) /\ LineInv /\ ReadInv /\ PushInv
    BY <1>1 DEF Stream, StreamInv
  <1>3. /\ Len(published) \in Nat /\ Len(disk) \in Nat /\ Len(disk) <= Len(published)
        /\ S[Len(published) + 1] \in Nat /\ S[Len(disk) + 1] \in Nat
        /\ \A j \in 1..(Len(published) + 1) : S[j] \in Nat
        /\ kfifo_len \in Nat /\ HeaderLen \in Nat \ {0} /\ Taken \in Nat /\ Given \in Nat
        /\ copied \in Nat /\ want \in Nat /\ msgLen \in Nat
    BY <1>2, StreamTypes
  <1>4. /\ UNCHANGED <<in, out, prodPc, count, msgLen, msgType, want, published, consPc, buf, disk>>
        /\ prodPc \in {"header", "body"} /\ copied < want /\ copied' = copied + 1
        /\ data' = [data EXCEPT ![Slot(in, copied)] = NextCell]
    BY DEF kfifo_copy_in, consVars
  <1>5. kfifo_len' = kfifo_len /\ Taken' = Taken /\ Given' = Given
    BY <1>4, SameLen DEF Taken, Given
  <1>6. \A j : LineAt(j)' = LineAt(j)
    BY <1>4 DEF LineAt
  <1>7. LineInv' /\ PushInv'
    BY <1>2, <1>4 DEF LineInv, PushInv
  <1>8. ReadInv'
    BY <1>2, <1>3, <1>4, <1>5, ReadKept
  <1>9. Offsets(S)' /\ Unread(S)'
    BY <1>2, <1>4, <1>5 DEF Offsets, Unread
  <1> DEFINE n == kfifo_len + copied
             m == Len(published)
             at == S[Len(disk) + 1] + Taken
  <1>10. Slot(in, copied) = Slot(out, n) /\ n < Size /\ n \in Nat
    <2>1. kfifo_len + Pending < Size /\ want <= Pending /\ Pending \in Nat
      <3>1. kfifo_len + Pending < Size /\ (prodPc = "header" => want = HeaderLen)
            /\ (prodPc = "body" => want = msgLen)
        BY DEF RingInv, PushFits
      <3>2. (prodPc = "header" => Pending = HeaderLen + msgLen)
            /\ (prodPc = "body" => Pending = msgLen)
        BY DEF Pending
      <3> QED BY <1>3, <1>4, <3>1, <3>2
    <2>2. n \in Nat /\ n < Size
      BY <1>3, <1>4, <2>1, Constants
    <2>3. Slot(in, copied) = Slot(out, kfifo_len + copied)
      BY <1>3, WriteAddress
    <2> QED BY <2>2, <2>3
  <1>11. at \in Nat /\ at + n = S[m + 1] + Given + copied
    <2>1. at \in Nat /\ at + kfifo_len = S[m + 1] + Given
      BY <1>2, <1>3 DEF Unread
    <2>2. S[m + 1] \in Nat
      BY <1>3
    <2> HIDE DEF at, m
    <2> QED BY <1>3, <2>1, <2>2
  <1>12. NextCell = LineAt(m + 1)[Given + copied + 1]
    <2>1. LineAt(m + 1) = Line(count, msgLen, msgType)
      BY <1>3 DEF LineAt
    <2>2. Given + copied + 1 \in 1..(HeaderLen + msgLen)
      BY <1>3, <1>4 DEF RingInv, PushFits, Given
    <2>3. Line(count, msgLen, msgType)[Given + copied + 1]
            = [id |-> count, k |-> Given + copied + 1, len |-> msgLen, type |-> msgType]
      BY <1>3, <2>2, LineCells
    <2>4. NextCell = [id |-> count, k |-> Given + copied + 1, len |-> msgLen, type |-> msgType]
      BY <1>3, <1>4 DEF NextCell, Given
    <2> QED BY <2>1, <2>3, <2>4
  <1>13. Slot(out, n) \in 0..(Size - 1) /\ data \in [0..(Size - 1) -> Cell] /\ out \in Nat
    BY <1>10, SlotType, Constants DEF TypeOK
  <1>14. data'[Slot(out, n)] = NextCell
    BY <1>4, <1>10, <1>13
  <1>15. ASSUME NEW x \in Nat, x < n
         PROVE  data'[Slot(out, x)] = data[Slot(out, x)]
    <2>1. Slot(out, x) \in 0..(Size - 1)
      BY <1>13, SlotType
    <2>2. out + x \in Nat /\ out + n \in Nat /\ out + x < out + n /\ out + n < (out + x) + Size
      BY <1>10, <1>13, <1>15, Constants
    <2>3. (out + x) % Size # (out + n) % Size
      BY <2>2, Constants, AddressesDiffer
    <2>4. Slot(out, x) # Slot(out, n)
      BY <2>3 DEF Slot
    <2> QED BY <1>4, <1>10, <1>13, <2>1, <2>4
  <1>16. ASSUME NEW j \in 1..(m + 1), NEW p \in 1..Len(LineAt(j)), NEW x \in Nat,
                S[j] + p = at + x + 1, x < n + 1
         PROVE  data'[Slot(out, x)] = LineAt(j)[p]
    <2>1. CASE x < n
      <3>1. data[Slot(out, x)] = LineAt(j)[p]
        BY <1>2, <1>16, <2>1 DEF Content
      <3> QED BY <1>15, <2>1, <3>1
    <2>2. CASE x = n
      <3>1. S[j] + p = S[m + 1] + Given + copied + 1 /\ p \in Int /\ S[j] \in Nat
        BY <1>3, <1>11, <1>16, <2>2
      <3>2. j = m + 1
        <4> SUFFICES ASSUME j \in 1..m PROVE FALSE
          BY <1>3
        <4>1. S[j] + Len(published[j]) = S[j + 1] /\ S[j + 1] <= S[m + 1]
          BY <1>2 DEF Offsets
        <4>2. LineAt(j) = published[j]
          BY <1>3 DEF LineAt
        <4>3. j + 1 \in 1..(m + 1)
          BY <1>3
        <4>4. S[j + 1] \in Nat
          BY <1>3, <4>3
        <4>5. p <= Len(published[j]) /\ Len(published[j]) \in Nat
          BY <4>2 DEF TypeOK
        <4>6. S[m + 1] \in Nat /\ Given + copied \in Nat
          BY <1>3
        <4> HIDE DEF m, n, at
        <4>7. S[j] + p <= S[m + 1]
          BY <3>1, <4>1, <4>4, <4>5, <4>6
        <4>8. S[j] + p = S[m + 1] + (Given + copied) + 1
          BY <1>3, <3>1, <4>6
        <4> QED BY <4>6, <4>7, <4>8
      <3>3. p = Given + copied + 1
        BY <1>3, <3>1, <3>2
      <3> QED BY <1>12, <1>14, <2>2, <3>2, <3>3
    <2> QED BY <1>10, <1>16, <2>1, <2>2
  <1>17. Content(S)'
    <2>1. kfifo_len' + copied' = n + 1
      BY <1>3, <1>4, <1>5
    <2> SUFFICES ASSUME NEW j \in 1..(m + 1), NEW p \in 1..Len(LineAt(j)'), NEW x \in Nat,
                        S[j] + p = at + x + 1, x < n + 1
                 PROVE  data'[Slot(out, x)] = LineAt(j)'[p]
      BY <1>4, <1>5, <2>1 DEF Content
    <2> QED BY <1>6, <1>16
  <1> QED BY <1>7, <1>8, <1>9, <1>17 DEF StreamInv, Stream

\* The end of kfifo_in for the header gives the log thread what was copied.
LEMMA HeaderInStream ==
  ASSUME TypeOK, RingInv, StreamInv, HeaderIn
  PROVE  StreamInv'
  <1>1. PICK S : Stream(S)
    BY DEF StreamInv
  <1>2. Offsets(S) /\ Unread(S) /\ Content(S) /\ LineInv /\ ReadInv /\ PushInv
    BY <1>1 DEF Stream, StreamInv
  <1>3. /\ S[Len(published) + 1] \in Nat /\ S[Len(disk) + 1] \in Nat
        /\ kfifo_len \in Nat /\ HeaderLen \in Nat \ {0} /\ Taken \in Nat
    BY <1>2, StreamTypes
  <1>4. /\ UNCHANGED <<out, data, count, msgLen, msgType, published, consPc, buf, disk>>
        /\ prodPc = "header" /\ prodPc' = "body" /\ copied = want /\ copied' = 0
    BY DEF HeaderIn, consVars
  <1>5. kfifo_len' = kfifo_len + want
    BY InAdvances DEF HeaderIn
  <1>6. want = HeaderLen
    BY <1>4 DEF RingInv, PushFits
  <1>7. Taken' = Taken /\ Given = 0 /\ Given' = HeaderLen
    BY <1>4 DEF Taken, Given
  <1>8. \A j : LineAt(j)' = LineAt(j)
    BY <1>4 DEF LineAt
  <1>9. LineInv' /\ PushInv'
    BY <1>2, <1>4 DEF LineInv, PushInv
  <1>10. ReadInv'
    BY <1>2, <1>3, <1>4, <1>5, <1>6, ReadKept
  <1>11. Offsets(S)'
    BY <1>2, <1>4 DEF Offsets
  <1>12. Unread(S)'
    <2>1. S[Len(disk) + 1] + Taken + kfifo_len = S[Len(published) + 1] + 0
      BY <1>2, <1>7 DEF Unread
    <2>2. S[Len(disk) + 1] + Taken + (kfifo_len + HeaderLen) = S[Len(published) + 1] + HeaderLen
      BY <1>3, <2>1
    <2> QED BY <1>4, <1>5, <1>6, <1>7, <2>2 DEF Unread
  <1>13. Content(S)'
    <2>1. kfifo_len' + copied' = kfifo_len + copied
      BY <1>3, <1>4, <1>5, <1>6
    <2> SUFFICES ASSUME NEW j \in 1..(Len(published) + 1), NEW p \in 1..Len(LineAt(j)'), NEW x \in Nat,
                        S[j] + p = S[Len(disk) + 1] + Taken + x + 1, x < kfifo_len + copied
                 PROVE  data[Slot(out, x)] = LineAt(j)'[p]
      BY <1>4, <1>7, <2>1 DEF Content
    <2>2. LineAt(j)' = LineAt(j)
      BY <1>8
    <2>3. data[Slot(out, x)] = LineAt(j)[p]
      BY <1>2, <2>2 DEF Content
    <2> QED BY <2>2, <2>3
  <1> QED BY <1>9, <1>10, <1>11, <1>12, <1>13 DEF StreamInv, Stream

\* The end of kfifo_in for the body: the line is published.
LEMMA BodyInStream ==
  ASSUME TypeOK, RingInv, StreamInv, BodyIn
  PROVE  StreamInv'
  <1>1. PICK S : Stream(S)
    BY DEF StreamInv
  <1>2. Offsets(S) /\ Unread(S) /\ Content(S) /\ LineInv /\ ReadInv /\ PushInv
    BY <1>1 DEF Stream, StreamInv
  <1>3. /\ Len(published) \in Nat /\ Len(disk) \in Nat /\ Len(disk) <= Len(published)
        /\ S[Len(published) + 1] \in Nat /\ S[Len(disk) + 1] \in Nat
        /\ \A j \in 1..(Len(published) + 1) : S[j] \in Nat
        /\ kfifo_len \in Nat /\ HeaderLen \in Nat \ {0} /\ Taken \in Nat /\ msgLen \in Nat
    BY <1>2, StreamTypes
  <1>4. /\ UNCHANGED <<out, data, count, msgLen, msgType, want, consPc, buf, disk>>
        /\ prodPc = "body" /\ prodPc' = "idle" /\ copied = want /\ copied' = 0
        /\ published' = Append(published, Line(count, msgLen, msgType))
    BY DEF BodyIn, consVars
  <1>5. kfifo_len' = kfifo_len + want
    BY InAdvances DEF BodyIn
  <1>6. want = msgLen
    BY <1>4 DEF RingInv, PushFits
  <1>7. Taken' = Taken /\ Given = HeaderLen /\ Given' = 0
    BY <1>4 DEF Taken, Given
  <1> DEFINE m == Len(published)
             line == Line(count, msgLen, msgType)
  <1>8. /\ Published(line) /\ line \in Seq(Cell) /\ Len(line) = HeaderLen + msgLen
    <2>1. Published(line)
      BY <1>2, <1>4, RunningLine
    <2>2. Len(line) = HeaderLen + msgLen
      BY <1>3, LineCells
    <2>3. line \in Seq(Cell)
      BY <2>1, PublishedLine
    <2> QED BY <2>1, <2>2, <2>3
  <1>9. /\ Len(published') = m + 1 /\ published'[m + 1] = line
        /\ \A j \in 1..m : published'[j] = published[j]
    <2> DEFINE C == Seq(Cell)
    <2>1. published \in Seq(C) /\ line \in C
      BY <1>8 DEF TypeOK
    <2> HIDE DEF C, line
    <2> QED BY <1>4, <2>1, AppendProperties DEF line
  <1>10. \A j \in 1..(m + 1) : LineAt(j)' = LineAt(j)
    BY <1>3, <1>4, <1>9 DEF LineAt
  <1>11. LineInv' /\ PushInv'
    <2>1. ASSUME NEW j \in 1..(m + 1) PROVE Published(published'[j])
      <3>1. CASE j \in 1..m
        BY <1>2, <1>9, <3>1 DEF LineInv
      <3>2. CASE j = m + 1
        BY <1>8, <1>9, <3>2
      <3> QED BY <1>3, <3>1, <3>2
    <2>2. LineInv'
      BY <1>3, <1>4, <1>9, <2>1 DEF LineInv, Published
    <2> QED BY <1>4, <2>2 DEF PushInv
  <1>12. ReadInv'
    <2>1. NextLine' = NextLine
      BY <1>3, <1>4, <1>9 DEF NextLine
    <2> QED BY <1>2, <1>3, <1>4, <1>5, <1>6, <1>9, <2>1 DEF ReadInv
  <1> DEFINE end == S[m + 1] + Len(line)
  <1>13. PICK T : T = [j \in 1..(m + 2) |-> IF j = m + 2 THEN end ELSE S[j]]
    OBVIOUS
  <1>14. /\ end \in Nat /\ end >= S[m + 1]
         /\ T[m + 2] = end /\ \A j \in 1..(m + 1) : T[j] = S[j]
    BY <1>3, <1>8, <1>13
  <1>15. Offsets(T)'
    <2>1. T \in [1..(m + 2) -> Nat]
      BY <1>3, <1>13, <1>14
    <2>2. ASSUME NEW j \in 1..(m + 1)
          PROVE  T[j + 1] = T[j] + Len(published'[j]) /\ T[j + 1] <= T[m + 2]
      <3>1. CASE j = m + 1
        <4>1. j + 1 = m + 2 /\ T[j] = S[j]
          BY <1>3, <1>14, <3>1
        <4> QED BY <1>9, <1>14, <3>1, <4>1
      <3>2. CASE j \in 1..m
        <4>1. j + 1 \in 1..(m + 1)
          BY <1>3, <3>2
        <4>2. T[j] = S[j] /\ T[j + 1] = S[j + 1] /\ S[j + 1] \in Nat
          BY <1>3, <1>14, <4>1
        <4>3. S[j + 1] = S[j] + Len(published[j]) /\ S[j + 1] <= S[m + 1]
          BY <1>2, <3>2 DEF Offsets
        <4>4. S[j + 1] <= end
          BY <1>3, <1>14, <4>2, <4>3
        <4> QED BY <1>9, <1>14, <3>2, <4>2, <4>3, <4>4
      <3> QED BY <1>3, <3>1, <3>2
    <2>3. Len(published') + 1 = m + 2
      BY <1>3, <1>9
    <2> QED BY <1>9, <2>1, <2>2, <2>3 DEF Offsets
  <1>16. T[Len(disk) + 1] = S[Len(disk) + 1]
    BY <1>3, <1>14
  <1>17. S[Len(disk) + 1] + Taken + kfifo_len = S[m + 1] + HeaderLen
    BY <1>2, <1>7 DEF Unread
  <1>a. S[Len(disk) + 1] + Taken \in Nat /\ (S[Len(disk) + 1] + Taken) + (kfifo_len + msgLen) = end
    <2> DEFINE at == S[Len(disk) + 1] + Taken
               bt == S[m + 1]
    <2>1. at \in Nat /\ bt \in Nat /\ at + kfifo_len = bt + HeaderLen /\ end = bt + (HeaderLen + msgLen)
      <3>1. at \in Nat /\ bt \in Nat
        BY <1>3
      <3>2. at + kfifo_len = bt + HeaderLen
        BY <1>17
      <3>3. end = bt + (HeaderLen + msgLen)
        BY <1>8
      <3> QED BY <3>1, <3>2, <3>3
    <2> HIDE DEF at, bt, end, m
    <2>2. at + (kfifo_len + msgLen) = end
      BY <1>3, <2>1
    <2> QED BY <2>1, <2>2 DEF at
  <1>18. Unread(T)'
    <2>1. S[Len(disk) + 1] + Taken + (kfifo_len + msgLen) = end
      BY <1>a
    <2>2. T[Len(published') + 1] = end /\ end + 0 = end
      BY <1>3, <1>9, <1>14
    <2> HIDE DEF end
    <2> QED BY <1>4, <1>5, <1>6, <1>7, <1>16, <2>1, <2>2 DEF Unread
  <1>19. Content(T)'
    <2>1. kfifo_len' + copied' = kfifo_len + copied /\ kfifo_len + copied = kfifo_len + msgLen
      BY <1>3, <1>4, <1>5, <1>6
    <2>2. Len(published') + 1 = m + 2
      BY <1>3, <1>9
    <2> SUFFICES ASSUME NEW j \in 1..(m + 2), NEW p \in 1..Len(LineAt(j)'), NEW x \in Nat,
                        T[j] + p = S[Len(disk) + 1] + Taken + x + 1, x < kfifo_len + copied
                 PROVE  data[Slot(out, x)] = LineAt(j)'[p]
      BY <1>4, <1>7, <1>16, <2>1, <2>2 DEF Content
    <2>3. CASE j \in 1..(m + 1)
      <3>1. LineAt(j)' = LineAt(j) /\ T[j] = S[j]
        BY <1>10, <1>14, <2>3
      <3>2. data[Slot(out, x)] = LineAt(j)[p]
        BY <1>2, <2>3, <3>1 DEF Content
      <3> QED BY <3>1, <3>2
    <2>4. CASE j = m + 2
      <3>1. kfifo_len + msgLen \in Nat /\ p \in Int /\ p >= 1
        BY <1>3
      <3>2. end + p = (S[Len(disk) + 1] + Taken) + x + 1 /\ x < kfifo_len + msgLen
        BY <1>14, <2>1, <2>4
      <3> HIDE DEF end
      <3>3. FALSE
        BY <1>14, <1>a, <3>1, <3>2, NotInRing
      <3> QED BY <3>3
    <2> QED BY <1>3, <2>3, <2>4
  <1> QED BY <1>11, <1>12, <1>15, <1>18, <1>19 DEF StreamInv, Stream

-----------------------------------------------------------------------------
(* The stream under the steps of the log thread                            *)

\* The next line is one that may be published, when there is one to read.
LEMMA NextLinePublished ==
  ASSUME TypeOK, RingInv, StreamInv, Alive, consPc # "idle"
  PROVE  Published(NextLine)
  <1>1. LineInv /\ PushInv
    BY DEF StreamInv
  <1>2. Len(disk) \in Nat /\ Len(published) \in Nat
    BY DEF TypeOK
  <1>3. CASE Len(disk) < Len(published)
    <2>1. Len(disk) + 1 \in 1..Len(published)
      BY <1>2, <1>3
    <2> QED BY <1>1, <1>3, <2>1 DEF LineInv, NextLine
  <1>4. CASE ~(Len(disk) < Len(published))
    <2>1. prodPc # "idle"
      BY <1>2, <1>4, IdleReads
    <2>2. Published(Line(count, msgLen, msgType))
      BY <1>1, <2>1, RunningLine
    <2> QED BY <1>4, <2>2 DEF NextLine
  <1> QED BY <1>3, <1>4

\* The cell that is x away from out, for the log thread: that of the next line.
LEMMA NextCells ==
  ASSUME TypeOK, RingInv, StreamInv, consPc \in {"peek", "body"},
         NEW x \in Nat, x < kfifo_len, Taken + x + 1 <= Len(NextLine)
  PROVE  data[Slot(out, x)] = NextLine[Taken + x + 1]
  <1>1. PICK S : Stream(S)
    BY DEF StreamInv
  <1>2. Offsets(S) /\ Content(S) /\ LineInv
    BY <1>1 DEF Stream, StreamInv
  <1>3. /\ Len(published) \in Nat /\ Len(disk) \in Nat /\ Len(disk) <= Len(published)
        /\ S[Len(disk) + 1] \in Nat
        /\ kfifo_len \in Nat /\ Taken \in Nat /\ copied \in Nat
    BY <1>2, StreamTypes
  <1>4. PICK j : j = Len(disk) + 1
    OBVIOUS
  <1>5. j \in 1..(Len(published) + 1) /\ LineAt(j) = NextLine
    BY <1>3, <1>4 DEF LineAt, NextLine
  <1>6. PICK p : p = Taken + x + 1
    OBVIOUS
  <1>7. Len(NextLine) \in Nat
    <2>1. Published(NextLine)
      BY NextLinePublished DEF Alive
    <2> QED BY <2>1, PublishedLine
  <1>8. p \in 1..Len(LineAt(j))
    BY <1>3, <1>5, <1>6, <1>7
  <1>9. S[j] + p = S[Len(disk) + 1] + Taken + x + 1 /\ x < kfifo_len + copied
    BY <1>3, <1>4, <1>6
  <1>10. data[Slot(out, x)] = LineAt(j)[p]
    BY <1>2, <1>5, <1>8, <1>9 DEF Content
  <1> QED BY <1>5, <1>6, <1>10

\* A step of the log thread that does not move out: the stream stays.
LEMMA StreamKept ==
  ASSUME NEW S, Stream(S), Taken' = Taken,
         UNCHANGED <<in, out, data, prodPc, count, msgLen, msgType, copied, published, disk>>
  PROVE  Stream(S)'
  <1>1. kfifo_len' = kfifo_len /\ Given' = Given
    BY SameLen DEF Given
  <1>2. \A j : LineAt(j)' = LineAt(j)
    BY DEF LineAt
  <1>3. Offsets(S)' /\ Unread(S)'
    BY <1>1 DEF Stream, Offsets, Unread
  <1>4. Content(S)'
    <2> SUFFICES ASSUME NEW j \in 1..(Len(published) + 1), NEW p \in 1..Len(LineAt(j)'), NEW x \in Nat,
                        S[j] + p = S[Len(disk) + 1] + Taken + x + 1, x < kfifo_len + copied
                 PROVE  data[Slot(out, x)] = LineAt(j)'[p]
      BY <1>1 DEF Content
    <2>1. LineAt(j)' = LineAt(j)
      BY <1>2
    <2>2. data[Slot(out, x)] = LineAt(j)[p]
      BY <2>1 DEF Stream, Content
    <2> QED BY <2>1, <2>2
  <1> QED BY <1>3, <1>4 DEF Stream

\* A step that moves out by n: the log thread has taken n cells more.
LEMMA StreamTaken ==
  ASSUME TypeOK, LineInv, NEW S, Stream(S), NEW n \in Nat, n <= kfifo_len,
         out' = (out + n) % Word, Taken' = Taken + n,
         UNCHANGED <<in, data, prodPc, count, msgLen, msgType, copied, published, disk>>
  PROVE  Stream(S)' /\ kfifo_len' = kfifo_len - n
  <1>1. Offsets(S) /\ Unread(S) /\ Content(S)
    BY DEF Stream
  <1>2. /\ S[Len(published) + 1] \in Nat /\ S[Len(disk) + 1] \in Nat
        /\ kfifo_len \in Nat /\ Taken \in Nat /\ Given \in Nat /\ copied \in Nat
    BY <1>1, StreamTypes
  <1>3. Given' = Given
    BY DEF Given
  <1>4. /\ Word \in Nat \ {0} /\ in \in 0..(Word - 1) /\ out \in 0..(Word - 1)
        /\ kfifo_len \in 0..(Word - 1)
    BY Constants, LenType DEF TypeOK
  <1>5. n \in 0..(Word - 1)
    BY <1>2, <1>4
  <1>6. (in - ((out + n) % Word)) % Word = ((in - out) % Word) - n
    BY <1>4, LenAfterOut DEF kfifo_len
  <1>7. kfifo_len' = kfifo_len - n
    BY <1>6 DEF kfifo_len
  <1>8. \A j : LineAt(j)' = LineAt(j)
    BY DEF LineAt
  <1>9. Offsets(S)'
    BY <1>1 DEF Offsets
  <1>10. Unread(S)'
    <2> DEFINE a == S[Len(disk) + 1]
    <2>1. a + Taken + kfifo_len = S[Len(published) + 1] + Given /\ a \in Nat
      BY <1>1, <1>2 DEF Unread
    <2> HIDE DEF a
    <2>2. a + (Taken + n) + (kfifo_len - n) = a + Taken + kfifo_len
      BY <1>2, <2>1
    <2> QED BY <1>3, <1>7, <2>1, <2>2 DEF Unread, a
  <1>11. Content(S)'
    <2> DEFINE a == S[Len(disk) + 1]
    <2> SUFFICES ASSUME NEW j \in 1..(Len(published) + 1), NEW p \in 1..Len(LineAt(j)'), NEW x \in Nat,
                        S[j] + p = a + (Taken + n) + x + 1, x < (kfifo_len - n) + copied
                 PROVE  data[Slot((out + n) % Word, x)] = LineAt(j)'[p]
      BY <1>7 DEF Content
    <2>1. LineAt(j)' = LineAt(j)
      BY <1>8
    <2>2. a \in Nat
      BY <1>2
    <2> HIDE DEF a
    <2>3. a + (Taken + n) + x + 1 = a + Taken + (n + x) + 1 /\ n + x < kfifo_len + copied
          /\ n + x \in Nat
      BY <1>2, <2>2
    <2>4. PICK y \in Nat : y = n + x
      BY <2>3
    <2>5. S[j] + p = a + Taken + y + 1 /\ y < kfifo_len + copied
      BY <2>3, <2>4
    <2>6. data[Slot(out, y)] = LineAt(j)[p]
      BY <1>1, <2>1, <2>5 DEF Content, a
    <2>7. Slot((out + n) % Word, x) = Slot(out, y)
      BY <1>4, <1>5, <2>4, SlotAfterOut
    <2> QED BY <2>1, <2>6, <2>7
  <1> QED BY <1>7, <1>9, <1>10, <1>11 DEF Stream

\* A cell is added to what the log thread has read.
LEMMA ReadStream ==
  ASSUME TypeOK, RingInv, StreamInv, consPc \in {"peek", "body"},
         NEW x \in Nat, x < kfifo_len, Len(buf) = Taken + x,
         Len(buf) < (IF consPc = "peek" THEN HeaderLen ELSE Len(NextLine)),
         buf' = Append(buf, data[Slot(out, x)]),
         UNCHANGED <<in, out, data, prodVars, consPc, disk>>
  PROVE  StreamInv'
  <1>1. PICK S : Stream(S)
    BY DEF StreamInv
  <1>2. LineInv /\ PushInv /\ ReadInv
    BY DEF StreamInv
  <1>3. UNCHANGED <<prodPc, count, msgLen, msgType, want, copied, published>>
    BY DEF prodVars
  <1>4. Taken' = Taken
    BY DEF Taken
  <1>5. Stream(S)'
    BY <1>1, <1>3, <1>4, StreamKept
  <1>6. LineInv' /\ PushInv'
    BY <1>2, <1>3 DEF LineInv, PushInv
  <1>7. NextLine' = NextLine /\ kfifo_len' = kfifo_len
    BY <1>3, SameLen DEF NextLine
  <1>8. Len(NextLine) \in Nat /\ Len(NextLine) > HeaderLen /\ HeaderLen \in Nat
    <2>1. Published(NextLine)
      BY NextLinePublished DEF Alive
    <2> QED BY <2>1, PublishedLine, Constants
  <1>9. buf \in Seq(Cell) /\ Len(buf) \in Nat
    BY DEF TypeOK
  <1>10. Taken + x + 1 <= Len(NextLine)
    BY <1>8, <1>9
  <1>11. data[Slot(out, x)] = NextLine[Len(buf) + 1]
    BY <1>10, NextCells
  <1>12. /\ Len(buf') = Len(buf) + 1
         /\ \A i \in 1..Len(buf) : buf'[i] = buf[i]
         /\ buf'[Len(buf) + 1] = NextLine[Len(buf) + 1]
    <2>1. data[Slot(out, x)] \in Cell
      <3>1. out \in Nat /\ data \in [0..(Size - 1) -> Cell]
        BY Constants DEF TypeOK
      <3> QED BY <3>1, SlotType
    <2> QED BY <1>9, <1>11, <2>1
  <1>13. \A i \in 1..Len(buf') : buf'[i] = NextLine[i]
    <2>1. \A i \in 1..Len(buf) : buf[i] = NextLine[i]
      BY <1>2 DEF ReadInv
    <2> QED BY <1>9, <1>12, <2>1
  <1>14. ReadInv'
    <2>1. CASE consPc = "peek"
      <3>1. kfifo_len' >= HeaderLen /\ Len(buf') <= HeaderLen
        BY <1>2, <1>7, <1>8, <1>9, <1>12, <2>1 DEF ReadInv
      <3> QED BY <1>7, <1>13, <2>1, <3>1 DEF ReadInv
    <2>2. CASE consPc = "body"
      <3>1. Len(disk') < Len(published') /\ Len(buf') <= Len(NextLine)
        BY <1>2, <1>3, <1>8, <1>9, <1>12, <2>2 DEF ReadInv
      <3> QED BY <1>7, <1>13, <2>2, <3>1 DEF ReadInv
    <2> QED BY <2>1, <2>2
  <1> QED BY <1>5, <1>6, <1>14 DEF StreamInv

LEMMA PeekStream ==
  ASSUME TypeOK, RingInv, StreamInv, PeekHeader
  PROVE  StreamInv'
  <1>1. consPc = "peek" /\ Taken = 0
    BY DEF PeekHeader, Taken
  <1>2. PICK x : x = Len(buf)
    OBVIOUS
  <1>3. x \in Nat /\ x < kfifo_len /\ Len(buf) = Taken + x
    <2>1. kfifo_len >= HeaderLen /\ Len(buf) < HeaderLen
      BY <1>1 DEF StreamInv, ReadInv, PeekHeader
    <2>2. Len(buf) \in Nat /\ kfifo_len \in 0..(Word - 1)
      BY LenType DEF TypeOK
    <2> QED BY <1>1, <1>2, <2>1, <2>2, Constants
  <1>4. Len(buf) < (IF consPc = "peek" THEN HeaderLen ELSE Len(NextLine))
    BY <1>1 DEF PeekHeader
  <1>5. /\ buf' = Append(buf, data[Slot(out, x)])
        /\ UNCHANGED <<in, out, data, prodVars, consPc, disk>>
    BY <1>2 DEF PeekHeader
  <1> QED BY <1>1, <1>3, <1>4, <1>5, ReadStream

LEMMA CopyBodyStream ==
  ASSUME TypeOK, RingInv, StreamInv, CopyBody
  PROVE  StreamInv'
  <1>1. consPc = "body" /\ Taken = HeaderLen
    BY DEF CopyBody, Taken
  <1>2. Len(buf) >= HeaderLen /\ kfifo_len >= buf[1].len /\ Len(buf) < HeaderLen + buf[1].len
    BY <1>1 DEF RingInv, BodyThere, CopyBody
  <1>3. buf[1].len \in Nat /\ Len(buf) \in Nat /\ kfifo_len \in Nat /\ HeaderLen \in Nat \ {0}
    BY <1>2, BufHead, LenType, Constants DEF TypeOK
  <1>4. Len(NextLine) = HeaderLen + buf[1].len
    <2>1. buf[1] = NextLine[1]
      BY <1>1, <1>2, <1>3 DEF StreamInv, ReadInv
    <2>2. Published(NextLine)
      BY <1>1, NextLinePublished DEF Alive
    <2> QED BY <2>1, <2>2, PublishedLine
  <1>5. PICK x : x = Len(buf) - HeaderLen
    OBVIOUS
  <1>6. x \in Nat /\ x < kfifo_len /\ Len(buf) = Taken + x
    BY <1>1, <1>2, <1>3, <1>5
  <1>7. Len(buf) < (IF consPc = "peek" THEN HeaderLen ELSE Len(NextLine))
    BY <1>1, <1>2, <1>4
  <1>8. /\ buf' = Append(buf, data[Slot(out, x)])
        /\ UNCHANGED <<in, out, data, prodVars, consPc, disk>>
    BY <1>5 DEF CopyBody
  <1> QED BY <1>1, <1>6, <1>7, <1>8, ReadStream

\* The first k elements of a sequence are a sequence of k elements.
LEMMA Prefix ==
  ASSUME NEW T, NEW s \in Seq(T), NEW k \in 0..Len(s)
  PROVE  /\ SubSeq(s, 1, k) \in Seq(T) /\ Len(SubSeq(s, 1, k)) = k
         /\ \A i \in 1..k : SubSeq(s, 1, k)[i] = s[i]
  <1>1. k \in Nat /\ Len(s) \in Nat /\ k <= Len(s)
    OBVIOUS
  <1>2. SubSeq(s, 1, k) \in Seq(T)
    BY <1>1
  <1>3. Len(SubSeq(s, 1, k)) = k
    BY <1>1
  <1>4. \A i \in 1..k : SubSeq(s, 1, k)[i] = s[i]
    BY <1>1
  <1> QED BY <1>2, <1>3, <1>4

\* A header that was read is valid, and its body is waited for until the line
\* is published.
LEMMA HeaderValid ==
  ASSUME TypeOK, RingInv, StreamInv, consPc = "peek", Len(buf) = HeaderLen
  PROVE  /\ ValidHeader(buf) /\ buf[1] = NextLine[1]
         /\ kfifo_len >= buf[1].len + HeaderLen => Len(disk) < Len(published)
  <1>1. ReadInv /\ LineInv
    BY DEF StreamInv
  <1>2. PICK line : line = NextLine
    OBVIOUS
  <1>3. /\ line \in Seq(Cell) /\ line[1].len \in 1..(MaxLen - 1) /\ line[1].id \in 1..MaxMsgs
        /\ line = Line(line[1].id, line[1].len, line[1].type) /\ Len(line) = HeaderLen + line[1].len
    BY <1>2, NextLinePublished, PublishedLine DEF Alive
  <1>4. HeaderLen \in Nat \ {0} /\ MaxLen \in Nat /\ buf \in Seq(Cell) /\ kfifo_len \in Nat
    BY Constants, LenType DEF TypeOK
  <1>5. \A i \in 1..HeaderLen : buf[i] = line[i]
    BY <1>1, <1>2 DEF ReadInv
  <1>6. buf = SubSeq(line, 1, HeaderLen)
    <2>1. SubSeq(line, 1, HeaderLen) \in Seq(Cell) /\ Len(SubSeq(line, 1, HeaderLen)) = HeaderLen
          /\ \A i \in 1..HeaderLen : SubSeq(line, 1, HeaderLen)[i] = line[i]
      <3>1. HeaderLen \in 0..Len(line)
        BY <1>3, <1>4
      <3> QED BY <1>3, <3>1, Prefix
    <2> QED BY <1>4, <1>5, <2>1, SeqEqual
  <1>7. buf[1] = line[1]
    BY <1>4, <1>5
  <1>8. ValidHeader(buf)
    <2>1. Line(buf[1].id, buf[1].len, buf[1].type) = line
      BY <1>3, <1>7
    <2>2. buf[1].id # 0
      BY <1>3, <1>7
    <2> QED BY <1>6, <2>1, <2>2 DEF ValidHeader
  <1>9. ASSUME kfifo_len >= buf[1].len + HeaderLen
        PROVE  Len(disk) < Len(published)
    <2>1. PICK S : Stream(S)
      BY DEF StreamInv
    <2>2. /\ Len(published) \in Nat /\ Len(disk) \in Nat /\ Len(disk) <= Len(published)
          /\ S[Len(published) + 1] \in Nat /\ S[Len(disk) + 1] \in Nat
      BY <1>1, <2>1, StreamTypes DEF Stream
    <2>3. Taken = 0 /\ Given <= HeaderLen /\ Given \in Nat
      BY <1>4 DEF Taken, Given
    <2>4. S[Len(disk) + 1] + 0 + kfifo_len = S[Len(published) + 1] + Given
      BY <2>1, <2>3 DEF Stream, Unread
    <2>5. kfifo_len > HeaderLen
      BY <1>3, <1>4, <1>7, <1>9
    <2>6. Len(disk) # Len(published)
      BY <1>4, <2>2, <2>3, <2>4, <2>5
    <2> QED BY <2>2, <2>6
  <1> QED BY <1>2, <1>7, <1>8, <1>9

LEMMA CheckHeaderStream ==
  ASSUME TypeOK, RingInv, StreamInv, CheckHeader
  PROVE  StreamInv'
  <1>1. PICK S : Stream(S)
    BY DEF StreamInv
  <1>2. LineInv /\ PushInv /\ ReadInv
    BY DEF StreamInv
  <1>3. /\ UNCHANGED <<in, data, prodPc, count, msgLen, msgType, want, copied, published, buf, disk>>
        /\ consPc = "peek" /\ Len(buf) = HeaderLen
    BY DEF CheckHeader, prodVars
  <1>4. LineInv' /\ PushInv' /\ NextLine' = NextLine
    BY <1>2, <1>3 DEF LineInv, PushInv, NextLine
  <1>5. /\ ValidHeader(buf) /\ buf[1] = NextLine[1]
        /\ kfifo_len >= buf[1].len + HeaderLen => Len(disk) < Len(published)
    BY <1>3, HeaderValid
  <1>6. CASE kfifo_len < buf[1].len + HeaderLen
    <2>1. out' = out /\ consPc' = "idle"
      BY <1>5, <1>6 DEF CheckHeader
    <2>2. Taken' = Taken
      BY <1>3, <2>1 DEF Taken
    <2>3. Stream(S)'
      BY <1>1, <1>3, <2>1, <2>2, StreamKept
    <2>4. ReadInv'
      BY <2>1 DEF ReadInv
    <2> QED BY <1>4, <2>3, <2>4 DEF StreamInv
  <1>7. CASE ~(kfifo_len < buf[1].len + HeaderLen)
    <2>1. out' = (out + HeaderLen) % Word /\ consPc' = "body"
      BY <1>5, <1>7 DEF CheckHeader
    <2>2. Taken = 0 /\ Taken' = HeaderLen /\ HeaderLen \in Nat \ {0}
      BY <1>3, <2>1, Constants DEF Taken
    <2>3. kfifo_len \in Nat /\ buf[1].len \in Nat
      BY <1>3, <2>2, LenType, BufHead, Constants
    <2>4. HeaderLen <= kfifo_len /\ Taken' = Taken + HeaderLen /\ kfifo_len >= buf[1].len + HeaderLen
      BY <1>7, <2>2, <2>3
    <2>5. Stream(S)'
      BY <1>1, <1>2, <1>3, <2>1, <2>2, <2>4, StreamTaken
    <2>6. Len(NextLine) = HeaderLen + buf[1].len
      <3>1. Published(NextLine)
        BY <1>3, NextLinePublished DEF Alive
      <3> QED BY <1>5, <3>1, PublishedLine
    <2>7. ReadInv'
      <3>1. Len(disk) < Len(published) /\ Len(buf) <= Len(NextLine)
        BY <1>3, <1>5, <2>2, <2>3, <2>4, <2>6
      <3>2. \A i \in 1..Len(buf) : buf[i] = NextLine[i]
        BY <1>2, <1>3 DEF ReadInv
      <3> QED BY <1>3, <1>4, <2>1, <3>1, <3>2 DEF ReadInv
    <2> QED BY <1>4, <2>5, <2>7 DEF StreamInv
  <1> QED BY <1>6, <1>7

LEMMA BodyOutStream ==
  ASSUME TypeOK, RingInv, StreamInv, BodyOut
  PROVE  StreamInv'
  <1>1. PICK S : Stream(S)
    BY DEF StreamInv
  <1>2. LineInv /\ PushInv /\ ReadInv
    BY DEF StreamInv
  <1>3. /\ UNCHANGED <<in, data, prodPc, count, msgLen, msgType, want, copied, published, buf, disk>>
        /\ consPc = "body" /\ consPc' = "log" /\ Len(buf) = HeaderLen + buf[1].len
        /\ out' = (out + buf[1].len) % Word
    BY DEF BodyOut, prodVars
  <1>4. LineInv' /\ PushInv' /\ NextLine' = NextLine
    BY <1>2, <1>3 DEF LineInv, PushInv, NextLine
  <1>5. /\ Len(buf) >= HeaderLen /\ buf[1].len <= kfifo_len
        /\ buf[1].len \in Nat /\ HeaderLen \in Nat \ {0}
    <2>1. Len(buf) >= HeaderLen /\ kfifo_len >= buf[1].len
      BY <1>3 DEF RingInv, BodyThere
    <2> QED BY <2>1, BufHead, LenType, Constants
  <1>6. Taken' = Taken + buf[1].len
    BY <1>3 DEF Taken
  <1>7. PICK n : n = buf[1].len
    OBVIOUS
  <1>8. Stream(S)'
    BY <1>1, <1>2, <1>3, <1>5, <1>6, <1>7, StreamTaken
  <1>9. buf[1] = NextLine[1]
    <2>1. 1 \in 1..Len(buf)
      BY <1>3, <1>5
    <2> QED BY <1>2, <1>3, <2>1 DEF ReadInv
  <1>10. Len(NextLine) = Len(buf)
    <2>1. Published(NextLine)
      BY <1>3, NextLinePublished DEF Alive
    <2> QED BY <1>3, <1>9, <2>1, PublishedLine
  <1>11. ReadInv'
    BY <1>2, <1>3, <1>4, <1>5, <1>10 DEF ReadInv
  <1> QED BY <1>4, <1>8, <1>11 DEF StreamInv

\* What is given to the file is the next line, whole and published.
LEMMA DumpedLine ==
  ASSUME TypeOK, RingInv, StreamInv, DoLog
  PROVE  /\ Len(disk) < Len(published)
         /\ buf = published[Len(disk) + 1]
  <1>1. ReadInv /\ consPc = "log"
    BY DEF StreamInv, DoLog
  <1>2. Len(disk) < Len(published) /\ Len(buf) = Len(NextLine)
        /\ \A i \in 1..Len(buf) : buf[i] = NextLine[i]
    BY <1>1 DEF ReadInv
  <1>3. Published(NextLine)
    BY <1>1, NextLinePublished DEF Alive
  <1>4. PICK line : line = NextLine
    OBVIOUS
  <1>5. line \in Seq(Cell) /\ buf \in Seq(Cell)
    BY <1>3, <1>4, PublishedLine DEF TypeOK
  <1>6. buf = line
    BY <1>2, <1>4, <1>5, SeqEqual
  <1> QED BY <1>2, <1>4, <1>6 DEF NextLine

LEMMA DoLogStream ==
  ASSUME TypeOK, RingInv, StreamInv, DoLog
  PROVE  StreamInv'
  <1>1. PICK S : Stream(S)
    BY DEF StreamInv
  <1>2. LineInv /\ PushInv /\ Offsets(S) /\ Unread(S) /\ Content(S)
    BY <1>1 DEF StreamInv, Stream
  <1>3. /\ UNCHANGED <<in, out, data, prodPc, count, msgLen, msgType, want, copied, published>>
        /\ consPc = "log" /\ consPc' \in {"idle", "exit"} /\ buf' = <<>>
        /\ disk' = Append(disk, buf)
    BY DEF DoLog, prodVars
  <1>4. /\ Len(published) \in Nat /\ Len(disk) \in Nat
        /\ S[Len(disk) + 1] \in Nat /\ Taken \in Nat
    BY <1>2, StreamTypes
  <1>5. Len(disk) < Len(published) /\ buf = published[Len(disk) + 1]
    BY DumpedLine
  <1>6. Len(disk') = Len(disk) + 1
    BY <1>3 DEF TypeOK
  <1>7. PICK j : j = Len(disk) + 1
    OBVIOUS
  <1>8. j \in 1..Len(published) /\ Len(disk') + 1 = j + 1
    BY <1>4, <1>5, <1>6, <1>7
  <1>9. S[j + 1] = S[j] + Len(published[j])
    BY <1>2, <1>8 DEF Offsets
  <1>10. Taken = Len(published[j]) /\ Taken' = 0
    BY <1>3, <1>5, <1>7 DEF Taken
  <1>11. S[Len(disk') + 1] + Taken' = S[Len(disk) + 1] + Taken
    <2>1. S[j + 1] = S[Len(disk) + 1] + Taken
      BY <1>7, <1>9, <1>10
    <2>2. S[Len(disk) + 1] + Taken \in Nat
      BY <1>4
    <2> QED BY <1>8, <1>10, <2>1, <2>2
  <1>12. kfifo_len' = kfifo_len /\ Given' = Given
    BY <1>3, SameLen DEF Given
  <1>13. \A i : LineAt(i)' = LineAt(i)
    BY <1>3 DEF LineAt
  <1>14. Offsets(S)' /\ Unread(S)'
    BY <1>2, <1>3, <1>11, <1>12 DEF Offsets, Unread
  <1>15. Content(S)'
    <2> SUFFICES ASSUME NEW i \in 1..(Len(published) + 1), NEW p \in 1..Len(LineAt(i)'), NEW x \in Nat,
                        S[i] + p = S[Len(disk) + 1] + Taken + x + 1, x < kfifo_len + copied
                 PROVE  data[Slot(out, x)] = LineAt(i)'[p]
      BY <1>3, <1>11, <1>12 DEF Content
    <2>1. LineAt(i)' = LineAt(i)
      BY <1>13
    <2>2. data[Slot(out, x)] = LineAt(i)[p]
      BY <1>2, <2>1 DEF Content
    <2> QED BY <2>1, <2>2
  <1>16. LineInv' /\ PushInv'
    BY <1>2, <1>3, <1>4, <1>5, <1>6 DEF LineInv, PushInv
  <1>17. ReadInv'
    BY <1>3 DEF ReadInv
  <1> QED BY <1>14, <1>15, <1>16, <1>17 DEF StreamInv, Stream

LEMMA PopBeginStream ==
  ASSUME TypeOK, RingInv, StreamInv, PopBegin
  PROVE  StreamInv'
  <1>1. PICK S : Stream(S)
    BY DEF StreamInv
  <1>2. LineInv /\ PushInv
    BY DEF StreamInv
  <1>3. /\ UNCHANGED <<in, out, data, prodPc, count, msgLen, msgType, want, copied, published, disk>>
        /\ consPc = "idle" /\ consPc' = "peek" /\ buf' = <<>> /\ kfifo_len >= HeaderLen
    BY DEF PopBegin, prodVars
  <1>4. Taken' = Taken /\ kfifo_len' = kfifo_len
    BY <1>3, SameLen DEF Taken
  <1>5. Stream(S)'
    BY <1>1, <1>3, <1>4, StreamKept
  <1>6. LineInv' /\ PushInv'
    BY <1>2, <1>3 DEF LineInv, PushInv
  <1>7. ReadInv'
    BY <1>3, <1>4, Constants DEF ReadInv
  <1> QED BY <1>5, <1>6, <1>7 DEF StreamInv

\* The ring is the stream of the lines, in every state.
THEOREM LogStreamInductive == Spec => [](TypeOK /\ RingInv /\ StreamInv)
  <1>1. TypeOK /\ RingInv /\ StreamInv /\ [Next]_vars => StreamInv'
    <2> SUFFICES ASSUME TypeOK, RingInv, StreamInv, [Next]_vars PROVE StreamInv'
      OBVIOUS
    <2>1. CASE UNCHANGED vars
      <3>1. PICK S : Stream(S)
        BY DEF StreamInv
      <3>2. UNCHANGED <<in, out, data, prodPc, count, msgLen, msgType, want, copied, published, consPc, buf, disk>>
        BY <2>1 DEF vars, prodVars, consVars
      <3>3. Taken' = Taken /\ NextLine' = NextLine /\ kfifo_len' = kfifo_len
        BY <3>2, SameLen DEF Taken, NextLine
      <3>4. Stream(S)'
        BY <3>1, <3>2, <3>3, StreamKept
      <3>5. LineInv' /\ PushInv' /\ ReadInv'
        BY <3>2, <3>3 DEF StreamInv, LineInv, PushInv, ReadInv
      <3> QED BY <3>4, <3>5 DEF StreamInv
    <2>2. CASE Producer
      BY <2>2, LogStream, CopyInStream, HeaderInStream, BodyInStream DEF Producer, Push, CallLog
    <2>3. CASE Consumer
      BY <2>3, PopBeginStream, PeekStream, CheckHeaderStream, CopyBodyStream, BodyOutStream, DoLogStream
         DEF Consumer
    <2> QED BY <2>1, <2>2, <2>3 DEF Next
  <1> QED BY <1>1, InitStream, LogRingInductive, PTL DEF Spec

-----------------------------------------------------------------------------
(* The refinement                                                          *)

\* A line that is published joins the lines that are not in the file yet.
LEMMA PushWaiting ==
  ASSUME NEW M, NEW s \in Seq(M), NEW k \in Nat, k <= Len(s), NEW e \in M
  PROVE  SubSeq(Append(s, e), k + 1, Len(Append(s, e))) = Append(SubSeq(s, k + 1, Len(s)), e)
  <1> DEFINE L == SubSeq(Append(s, e), k + 1, Len(Append(s, e)))
             R == Append(SubSeq(s, k + 1, Len(s)), e)
  <1>1. Len(Append(s, e)) = Len(s) + 1 /\ Append(s, e) \in Seq(M) /\ Len(s) \in Nat
    OBVIOUS
  <1>2. L \in Seq(M) /\ Len(L) = Len(s) + 1 - k
        /\ \A i \in 1..Len(L) : L[i] = Append(s, e)[k + i]
    BY <1>1
  <1>3. R \in Seq(M) /\ Len(R) = Len(s) + 1 - k
    OBVIOUS
  <1>4. \A i \in 1..Len(L) : L[i] = R[i]
    BY <1>1, <1>2
  <1> QED BY <1>2, <1>3, <1>4, SeqEqual

\* The oldest of them, and the rest.
LEMMA DumpWaiting ==
  ASSUME NEW M, NEW s \in Seq(M), NEW k \in Nat, k < Len(s)
  PROVE  /\ SubSeq(s, k + 1, Len(s)) # <<>>
         /\ Head(SubSeq(s, k + 1, Len(s))) = s[k + 1]
         /\ Tail(SubSeq(s, k + 1, Len(s))) = SubSeq(s, k + 2, Len(s))
  <1>1. k + 1 \in 1..Len(s) /\ Len(s) \in (k + 1)..Len(s) /\ (k + 1) + 1 = k + 2
    OBVIOUS
  <1>2. Len(SubSeq(s, k + 1, Len(s))) = Len(s) - k /\ Len(s) - k # 0
    OBVIOUS
  <1>3. SubSeq(s, k + 1, Len(s)) # <<>>
    <2>1. Len(<<>>) = 0
      OBVIOUS
    <2> QED BY <1>2, <2>1, Zenon
  <1>4. /\ Head(SubSeq(s, k + 1, Len(s))) = s[k + 1]
        /\ Tail(SubSeq(s, k + 1, Len(s))) = SubSeq(s, (k + 1) + 1, Len(s))
    BY <1>1, HeadTailOfSubSeq
  <1> QED BY <1>1, <1>3, <1>4

\* The file ends with a line of LOGCRITICAL only when the process has ended.
EndInv == disk # <<>> /\ disk[Len(disk)][1].type = "CRITICAL" => ~Alive

LEMMA LogEnds == Spec => []EndInv
  <1>1. Init => EndInv
    BY DEF Init, EndInv
  <1>2. TypeOK /\ EndInv /\ [Next]_vars => EndInv'
    <2> SUFFICES ASSUME TypeOK, EndInv, [Next]_vars PROVE EndInv'
      OBVIOUS
    <2>1. CASE DoLog
      <3> DEFINE C == Seq(Cell)
      <3>1. disk \in Seq(C) /\ buf \in C /\ disk' = Append(disk, buf)
        BY <2>1 DEF TypeOK, DoLog
      <3> HIDE DEF C
      <3>2. disk'[Len(disk')] = buf
        BY <3>1
      <3>3. buf[1].type = "CRITICAL" => consPc' = "exit"
        BY <2>1 DEF DoLog
      <3> QED BY <3>2, <3>3 DEF EndInv, Alive
    <2>2. CASE disk' = disk /\ (Alive \/ consPc' = consPc)
      BY <2>2 DEF EndInv, Alive
    <2>3. Next => DoLog \/ (disk' = disk /\ Alive)
      <3>1. Producer => disk' = disk /\ Alive
        BY DEF Producer, Push, CallLog, Log, LogDropped, kfifo_copy_in, HeaderIn, BodyIn, consVars
      <3>2. Consumer => DoLog \/ (disk' = disk /\ Alive)
        BY DEF Consumer, PopBegin, PeekHeader, CheckHeader, CopyBody, BodyOut, Alive
      <3> QED BY <3>1, <3>2 DEF Next
    <2>4. UNCHANGED vars => disk' = disk /\ consPc' = consPc
      BY DEF vars, consVars
    <2> QED BY <2>1, <2>2, <2>3, <2>4
  <1> QED BY <1>1, <1>2, LogTypeOK, PTL DEF Spec

\* As long as the process runs, the service it implements has not ended.
LEMMA QueueRuns ==
  ASSUME EndInv, Alive
  PROVE  ~Queue!Ended
  <1>1. ASSUME NEW line \in LinesOf({"CRITICAL"}) PROVE line[1].type = "CRITICAL"
    <2>1. PICK id \in 1..MaxMsgs, len \in 1..(MaxLen - 1) : line = Line(id, len, "CRITICAL")
      BY DEF LinesOf
    <2>2. len \in Nat /\ 1 \in 1..(HeaderLen + len)
      BY Constants
    <2>3. line[1] = [id |-> id, k |-> 1, len |-> len, type |-> "CRITICAL"]
      BY <2>1, <2>2, LineCells
    <2> QED BY <2>3
  <1> QED BY <1>1 DEF EndInv, Queue!Ended

\* The logger implements the safety part of LogQueue: the end of a push is
\* the only step that adds a line, DoLog the only one that dumps one, and
\* what it dumps is the oldest line, whole, however the steps of the two
\* threads on the ring interleave and wherever the counters wrap; after a line
\* of LOGCRITICAL there is neither.
THEOREM LogImplementsQueue == Spec => Queue!LogSafety
  <1>1. Init => Queue!Init
    BY DEF Init, Queue!Init
  <1>2. TypeOK /\ RingInv /\ StreamInv /\ EndInv /\ [Next]_vars => [Queue!Next]_(Queue!vars)
    <2> SUFFICES ASSUME TypeOK, RingInv, StreamInv, EndInv, [Next]_vars
                 PROVE  [Queue!Next]_(Queue!vars)
      OBVIOUS
    <2> DEFINE C == Seq(Cell)
    <2>1. published \in Seq(C) /\ disk \in Seq(C) /\ Len(disk) \in Nat
          /\ Len(disk) <= Len(published)
      BY DEF TypeOK, StreamInv, LineInv
    <2>2. CASE UNCHANGED <<published, disk>>
      BY <2>2 DEF Queue!vars
    <2>3. CASE BodyIn /\ Alive
      <3> DEFINE line == Line(count, msgLen, msgType)
      <3>1. disk' = disk /\ published' = Append(published, line) /\ prodPc # "idle"
        BY <2>3 DEF BodyIn, consVars
      <3>2. Published(line)
        BY <3>1, RunningLine DEF StreamInv
      <3>3. line \in C
        BY <3>2, PublishedLine
      <3>4. line \in LinesOf(LogTypes)
        BY <3>2 DEF Published, LinesOf
      <3> HIDE DEF C, line
      <3>5. SubSeq(published', Len(disk') + 1, Len(published'))
              = Append(SubSeq(published, Len(disk) + 1, Len(published)), line)
        BY <2>1, <3>1, <3>3, PushWaiting
      <3>6. Queue!Push(line)
        BY <2>3, <3>1, <3>5, QueueRuns DEF Queue!Push
      <3> QED BY <3>4, <3>6 DEF Queue!Next
    <2>4. CASE DoLog
      <3>1. published' = published /\ disk' = Append(disk, buf)
        BY <2>4 DEF DoLog, prodVars
      <3>2. Len(disk) < Len(published) /\ buf = published[Len(disk) + 1]
        BY <2>4, DumpedLine
      <3>3. Len(disk') = Len(disk) + 1 /\ Len(disk') + 1 = Len(disk) + 2
        BY <2>1, <3>1
      <3> HIDE DEF C
      <3>4. /\ SubSeq(published, Len(disk) + 1, Len(published)) # <<>>
            /\ Head(SubSeq(published, Len(disk) + 1, Len(published))) = buf
            /\ Tail(SubSeq(published, Len(disk) + 1, Len(published)))
                 = SubSeq(published, Len(disk) + 2, Len(published))
        BY <2>1, <3>2, DumpWaiting
      <3>5. Queue!Dump
        BY <2>4, <3>1, <3>3, <3>4, QueueRuns DEF Queue!Dump, DoLog, Alive
      <3> QED BY <3>5 DEF Queue!Next
    <2>5. Next => (BodyIn /\ Alive) \/ DoLog \/ UNCHANGED <<published, disk>>
      BY DEF Next, Producer, Push, CallLog, Consumer, Log, LogDropped, kfifo_copy_in, HeaderIn,
             PopBegin, PeekHeader, CheckHeader, CopyBody, BodyOut, prodVars, consVars
    <2>6. UNCHANGED vars => UNCHANGED <<published, disk>>
      BY DEF vars, prodVars, consVars
    <2> QED BY <2>2, <2>3, <2>4, <2>5, <2>6
  <1> QED BY <1>1, <1>2, LogStreamInductive, LogEnds, PTL DEF Spec, Queue!LogSafety
=============================================================================
