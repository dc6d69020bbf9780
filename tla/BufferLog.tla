----------------------------- MODULE BufferLog ------------------------------
(***************************************************************************)
(* The asynchronous logger: the logic thread pushes a header block and a   *)
(* message body into a kfifo ring without taking a lock, and the log       *)
(* thread peeks the header, waits for the body and writes the line.        *)
(*                                                                         *)
(* A byte of the ring is a cell that remembers which byte of which message *)
(* it is, so a torn or overwritten message can be told from a whole one.   *)
(* memcpy is one step per cell: the other thread may run in between.       *)
(*                                                                         *)
(* A line keeps its type on the way.  For a line of LOGCRITICAL the log    *)
(* thread calls exit(2) once it has written it, and that is the end of     *)
(* both threads and of whatever is still in the ring.                      *)
(***************************************************************************)
EXTENDS Integers, Sequences

CONSTANTS
  Size,           \* kfifo_size: cells in the ring (2^28 bytes in the code)
  Word,           \* range of unsigned int: in and out count modulo Word
  HeaderLen,      \* sizeof(ST_BufferLogBlock)
  MaxLen,         \* BUFFER_LOG_BLOCK_MAX_SIZE
  Lengths,        \* lengths of the formatted messages
  MaxMsgs         \* bound: messages logged in a run

ASSUME SizeAssumption == Size \in Nat \ {0}
\* The size is a power of two, so it divides the range of the counters.
ASSUME WordAssumption == Word \in Nat /\ Word > Size /\ Word % Size = 0
ASSUME HeaderAssumption == HeaderLen \in Nat \ {0} /\ HeaderLen < Size
ASSUME MaxLenAssumption == MaxLen \in Nat \ {0} /\ MaxLen < Size
ASSUME LengthsAssumption == Lengths \subseteq Nat
ASSUME MsgsAssumption == MaxMsgs \in Nat

\* E_BUFFER_LOG_TYPE: the one that ends the process, and all the others.
LogTypes == {"INFO", "CRITICAL"}

Cell == [id : 0..MaxMsgs, k : Nat, len : Nat, type : LogTypes]
Blank == [id |-> 0, k |-> 0, len |-> 0, type |-> "INFO"]       \* the zeroed ring

\* The bytes of message id of a type with a body of len cells: header, then body.
Line(id, len, type) ==
  [i \in 1..(HeaderLen + len) |-> [id |-> id, k |-> i, len |-> len, type |-> type]]

VARIABLES
  in, out,        \* the counters of struct __kfifo
  data,           \* its buffer
  prodPc,         \* the logic thread inside Log
  count,          \* messages logged so far
  msgLen,         \* m_iMsgLen of the message being pushed
  msgType,        \* its m_iLogType
  want,           \* elements the running kfifo_in is going to copy
  copied,         \* elements it has copied
  consPc,         \* the log thread inside DoDumpLogToDisk; "exit": no process
  buf,            \* header block and receive buffer of the log thread
  published,      \* history: lines whose push is complete
  disk            \* lines given to the log file

prodVars == <<prodPc, count, msgLen, msgType, want, copied, published>>
consVars == <<consPc, buf, disk>>
vars == <<in, out, data, prodVars, consVars>>

-----------------------------------------------------------------------------
(* kfifo                                                                   *)

\* kfifo_len: the unsigned difference of the counters.
kfifo_len == (in - out) % Word

\* kfifo_avail and kfifo_unused.
kfifo_unused == Size - kfifo_len

\* Fault: the mask is used as a modulus.
SlotModMask(c, i) == (c + i) % (Size - 1)

\* The address of element number i from counter c: off & mask.
Slot(c, i) == (c + i) % Size

\* What __kfifo_in is willing to copy.
Clamp(n) == IF n > kfifo_unused THEN kfifo_unused ELSE n

-----------------------------------------------------------------------------
(* Logic thread                                                            *)

\* Log cuts a long message to the buffer, terminator included.
Cut(len) == IF len >= MaxLen THEN MaxLen - 1 ELSE len

\* Fault: only the body is checked against the free space.
LogNoHeaderSpace(len, type) ==
  /\ prodPc = "idle"
  /\ count < MaxMsgs
  /\ Cut(len) > 0
  /\ kfifo_unused > Cut(len)
  /\ count' = count + 1
  /\ msgLen' = Cut(len)
  /\ msgType' = type
  /\ want' = Clamp(HeaderLen)
  /\ copied' = 0
  /\ prodPc' = "header"
  /\ UNCHANGED <<in, out, data, published, consVars>>

\* Log and the test of _DoKFiFoPushMsg; __kfifo_in of the header begins.
Log(len, type) ==
  /\ prodPc = "idle"
  /\ count < MaxMsgs
  /\ Cut(len) > 0
  /\ kfifo_unused > Cut(len) + HeaderLen
  /\ count' = count + 1
  /\ msgLen' = Cut(len)
  /\ msgType' = type
  /\ want' = Clamp(HeaderLen)
  /\ copied' = 0
  /\ prodPc' = "header"
  /\ UNCHANGED <<in, out, data, published, consVars>>

\* An empty message is skipped, one that does not fit is dropped: SPD_LOGFATAL
\* reports it and does not exit, whatever the type of the message.
LogDropped(len) ==
  /\ prodPc = "idle"
  /\ count < MaxMsgs
  /\ Cut(len) = 0 \/ kfifo_unused <= Cut(len) + HeaderLen
  /\ count' = count + 1
  /\ UNCHANGED <<in, out, data, prodPc, msgLen, msgType, want, copied, published, consVars>>

\* The byte of the message that goes in next.
NextCell == [id |-> count, len |-> msgLen, type |-> msgType,
             k |-> IF prodPc = "header" THEN copied + 1 ELSE HeaderLen + copied + 1]

\* kfifo_copy_in, one cell.
kfifo_copy_in ==
  /\ prodPc \in {"header", "body"}
  /\ copied < want
  /\ data' = [data EXCEPT ![Slot(in, copied)] = NextCell]
  /\ copied' = copied + 1
  /\ UNCHANGED <<in, out, prodPc, count, msgLen, msgType, want, published, consVars>>

\* The end of __kfifo_in for the header, and the beginning of the body's.
HeaderIn ==
  /\ prodPc = "header"
  /\ copied = want
  /\ in' = (in + want) % Word
  /\ prodPc' = "body"
  /\ want' = LET used == (in' - out) % Word
             IN IF msgLen > Size - used THEN Size - used ELSE msgLen
  /\ copied' = 0
  /\ UNCHANGED <<out, data, count, msgLen, msgType, published, consVars>>

BodyIn ==
  /\ prodPc = "body"
  /\ copied = want
  /\ in' = (in + want) % Word
  /\ prodPc' = "idle"
  /\ copied' = 0
  /\ published' = Append(published, Line(count, msgLen, msgType))
  /\ UNCHANGED <<out, data, count, msgLen, msgType, want, consVars>>

-----------------------------------------------------------------------------
(* Log thread                                                              *)

\* _DoKFiFoPopMsg finds at least a header; otherwise it returns 0.
PopBegin ==
  /\ consPc = "idle"
  /\ kfifo_len >= HeaderLen
  /\ consPc' = "peek"
  /\ buf' = <<>>
  /\ UNCHANGED <<in, out, data, prodVars, disk>>

\* kfifo_copy_out of kfifo_out_peek, one cell.
PeekHeader ==
  /\ consPc = "peek"
  /\ Len(buf) < HeaderLen
  /\ buf' = Append(buf, data[Slot(out, Len(buf))])
  /\ UNCHANGED <<in, out, data, prodVars, consPc, disk>>

\* The tokens and the length are those of one header block.
ValidHeader(h) ==
  h = SubSeq(Line(h[1].id, h[1].len, h[1].type), 1, HeaderLen) /\ h[1].id # 0

\* Fault: the body is not waited for.
CheckHeaderNoWait ==
  /\ consPc = "peek"
  /\ Len(buf) = HeaderLen
  /\ IF ~ValidHeader(buf)
       THEN out' = in /\ consPc' = "idle"
       ELSE out' = (out + HeaderLen) % Word /\ consPc' = "body"
  /\ UNCHANGED <<in, data, prodVars, buf, disk>>

\* The checks between peek and skip: broken data empties the fifo, a body
\* that is not complete is waited for, otherwise the header is skipped.
CheckHeader ==
  /\ consPc = "peek"
  /\ Len(buf) = HeaderLen
  /\ IF ~ValidHeader(buf)
       THEN out' = in /\ consPc' = "idle"
       ELSE IF kfifo_len < buf[1].len + HeaderLen
              THEN out' = out /\ consPc' = "idle"
              ELSE out' = (out + HeaderLen) % Word /\ consPc' = "body"
  /\ UNCHANGED <<in, data, prodVars, buf, disk>>

\* kfifo_copy_out of the body, one cell.
CopyBody ==
  /\ consPc = "body"
  /\ Len(buf) < HeaderLen + buf[1].len
  /\ buf' = Append(buf, data[Slot(out, Len(buf) - HeaderLen)])
  /\ UNCHANGED <<in, out, data, prodVars, consPc, disk>>

\* Fault: a counter wider than the other.
BodyOutWide ==
  /\ consPc = "body"
  /\ Len(buf) = HeaderLen + buf[1].len
  /\ out' = out + buf[1].len
  /\ consPc' = "log"
  /\ UNCHANGED <<in, data, prodVars, buf, disk>>

\* The end of __kfifo_out.
BodyOut ==
  /\ consPc = "body"
  /\ Len(buf) = HeaderLen + buf[1].len
  /\ out' = (out + buf[1].len) % Word
  /\ consPc' = "log"
  /\ UNCHANGED <<in, data, prodVars, buf, disk>>

\* _DoLog: the line goes to the file, and after one of LOGCRITICAL exit(2).
DoLog ==
  /\ consPc = "log"
  /\ disk' = Append(disk, buf)
  /\ consPc' = IF buf[1].type = "CRITICAL" THEN "exit" ELSE "idle"
  /\ buf' = <<>>
  /\ UNCHANGED <<in, out, data, prodVars>>

-----------------------------------------------------------------------------
\* InitGameLogger: INIT_KFIFO, and the log thread starts.  (Startup has the
\* case that it does not.)
Init ==
  /\ in = 0 /\ out = 0
  /\ data = [a \in 0..(Size - 1) |-> Blank]
  /\ prodPc = "idle" /\ count = 0 /\ msgLen = 0 /\ msgType = "INFO"
  /\ want = 0 /\ copied = 0
  /\ consPc = "idle" /\ buf = <<>>
  /\ published = <<>> /\ disk = <<>>

\* The logic thread runs as long as there is a process.
Alive == consPc # "exit"

Push == Alive /\ (kfifo_copy_in \/ HeaderIn \/ BodyIn)
CallLog == Alive /\ \E len \in Lengths : (\E type \in LogTypes : Log(len, type)) \/ LogDropped(len)
Producer == Push \/ CallLog
Consumer == PopBegin \/ PeekHeader \/ CheckHeader \/ CopyBody \/ BodyOut \/ DoLog

Next == Producer \/ Consumer

Spec == Init /\ [][Next]_vars

\* The log thread polls until the process ends, and a push that has begun
\* goes on.
FairSpec == Spec /\ WF_vars(Push) /\ WF_vars(Consumer)

-----------------------------------------------------------------------------
(* Properties                                                              *)

\* The counters stay unsigned ints and the ring holds cells of real messages.
TypeOK ==
  /\ in \in 0..(Word - 1) /\ out \in 0..(Word - 1)
  /\ data \in [0..(Size - 1) -> Cell]
  /\ prodPc \in {"idle", "header", "body"}
  /\ count \in 0..MaxMsgs
  /\ msgLen \in Nat /\ msgType \in LogTypes /\ want \in Nat /\ copied \in Nat
  /\ consPc \in {"idle", "peek", "body", "log", "exit"}
  /\ buf \in Seq(Cell)
  /\ published \in Seq(Seq(Cell))
  /\ disk \in Seq(Seq(Cell))

\* What the running push still has to put into the ring.
Pending == CASE prodPc = "header" -> HeaderLen + msgLen
             [] prodPc = "body" -> msgLen
             [] OTHER -> 0

\* The ring never holds more than its size, across any wrap of the counters,
\* and a push that has begun fits completely: header and body go in without
\* either kfifo_in cutting them short.
PushFits ==
  /\ kfifo_len + Pending < Size
  /\ prodPc = "header" => want = HeaderLen
  /\ prodPc = "body" => want = msgLen

\* The cell the producer writes next is none of the unread ones, which the
\* log thread may be copying at that moment.
NoOverwrite ==
  prodPc \in {"header", "body"} /\ copied < want =>
    \A i \in 0..(Size - 1) : i < kfifo_len => Slot(out, i) # Slot(in, copied)

\* The lines of a set of types.
LinesOf(types) ==
  { Line(id, len, type) : id \in 1..MaxMsgs, len \in 1..(MaxLen - 1), type \in types }

Queue == INSTANCE LogQueue
  WITH Messages <- LinesOf(LogTypes),
       Critical <- LinesOf({"CRITICAL"}),
       queue <- SubSeq(published, Len(disk) + 1, Len(published))

\* Lines whose push is complete reach the file whole, once and in order; all of
\* them in the end, unless the process ends at a line of LOGCRITICAL that was
\* pushed before them.
ImplementsLogQueue == Queue!LogSpec
=============================================================================
