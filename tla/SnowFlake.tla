------------------------------ MODULE SnowFlake ------------------------------
(***************************************************************************)
(* SnowFlakeUUID: the generator of the sequence numbers that name clients  *)
(* and connectors.  An id is the low bits of the clock in microseconds and *)
(* a counter of the ids given in that microsecond; the host and server     *)
(* numbers between them are the same in every id of a process and are left *)
(* out.                                                                    *)
(*                                                                         *)
(* GenerateSeqID takes no lock, and the threads that accept and connect    *)
(* share the one generator: every read and write of its two fields is a    *)
(* step of its own.                                                        *)
(***************************************************************************)
EXTENDS Integers, Sequences

CONSTANTS
  Callers,        \* threads that call GenerateSeqID
  SeqMod,         \* 2^12: the counter wraps (& 0xFFF)
  TsMod,          \* 2^25: the clock is cut (& 0x1FFFFFF)
  MaxClock        \* bound: the clock goes on after it only for a call that waits

ASSUME ModAssumption == SeqMod \in Nat \ {0} /\ TsMod \in Nat \ {0}
ASSUME ClockAssumption == MaxClock \in Nat

VARIABLES
  clock,          \* GetMicroSecond: CLOCK_MONOTONIC
  last,           \* m_ulLastTimestamp
  sequence,       \* m_ulSequenceID
  call,           \* where each thread is in GenerateSeqID
  raced,          \* history: microseconds of calls that ran at the same time
  drawn           \* history: ids returned, with the microsecond of each

seqVars == <<clock, last, sequence, call, raced, drawn>>

\* now is ulNowTimestamp; arg the new counter or the argument of _WaitNextTimestamp.
Frame(l, now, arg) == [pc |-> l, now |-> now, arg |-> arg]
NotCalled == Frame("idle", 0, 0)

Calling(t) == call[t].pc # "idle"
Step(t, l) == call' = [call EXCEPT ![t] = Frame(l, @.now, @.arg)]

\* Calls that another thread is in while t reads the clock.
Overlap(t) == { u \in Callers \ {t} : Calling(u) }
Raced(t) == raced' = IF Overlap(t) = {} THEN raced
                     ELSE raced \cup {clock} \cup { call[u].now : u \in Overlap(t) }

-----------------------------------------------------------------------------
SeqInit ==
  /\ clock = 1 /\ last = 0 /\ sequence = 0
  /\ call = [t \in Callers |-> NotCalled]
  /\ raced = {} /\ drawn = <<>>

\* Time passes.
Tick ==
  /\ clock < MaxClock \/ \E t \in Callers : call[t].pc = "wait" /\ clock <= call[t].arg
  /\ clock' = clock + 1
  /\ UNCHANGED <<last, sequence, call, raced, drawn>>

\* size_t ulNowTimestamp = GetMicroSecond();
SeqBegin(t) ==
  /\ ~Calling(t)
  /\ call' = [call EXCEPT ![t] = Frame("compare", clock, 0)]
  /\ Raced(t)
  /\ UNCHANGED <<clock, last, sequence, drawn>>

\* if (m_ulLastTimestamp == ulNowTimestamp), and the load of the counter.
Compare(t) ==
  /\ call[t].pc = "compare"
  /\ call' = [call EXCEPT ![t] =
       IF last = @.now THEN Frame("bump", @.now, (sequence + 1) % SeqMod)
                       ELSE Frame("zero", @.now, @.arg)]
  /\ UNCHANGED <<clock, last, sequence, raced, drawn>>

\* m_ulSequenceID = (m_ulSequenceID + 1) & 0xFFF;
Bump(t) ==
  /\ call[t].pc = "bump"
  /\ sequence' = call[t].arg
  /\ Step(t, "test")
  /\ UNCHANGED <<clock, last, raced, drawn>>

\* Fault: the counter wraps and the call does not wait for the next microsecond.
TestZeroNever(t) ==
  /\ call[t].pc = "test"
  /\ Step(t, "stamp")
  /\ UNCHANGED <<clock, last, sequence, raced, drawn>>

\* if (m_ulSequenceID == 0) _WaitNextTimestamp(m_ulLastTimestamp), which reads
\* the field again: another thread may have changed it.
TestZero(t) ==
  /\ call[t].pc = "test"
  /\ call' = [call EXCEPT ![t] =
       IF sequence = 0 THEN Frame("wait", @.now, last)
                       ELSE Frame("stamp", @.now, @.arg)]
  /\ UNCHANGED <<clock, last, sequence, raced, drawn>>

\* _WaitNextTimestamp sees a later time.
WaitNextTimestamp(t) ==
  /\ call[t].pc = "wait" /\ clock > call[t].arg
  /\ call' = [call EXCEPT ![t] = Frame("stamp", clock, 0)]
  /\ Raced(t)
  /\ UNCHANGED <<clock, last, sequence, drawn>>

\* m_ulSequenceID = 0;
Zero(t) ==
  /\ call[t].pc = "zero"
  /\ sequence' = 0
  /\ Step(t, "stamp")
  /\ UNCHANGED <<clock, last, raced, drawn>>

\* m_ulLastTimestamp = ulNowTimestamp;
Stamp(t) ==
  /\ call[t].pc = "stamp"
  /\ last' = call[t].now
  /\ call' = [call EXCEPT ![t] = Frame("return", @.now, 0)]
  /\ UNCHANGED <<clock, sequence, raced, drawn>>

SeqId(now) == <<now % TsMod, sequence>>

SeqReturn(t) ==
  /\ call[t].pc = "return"
  /\ drawn' = Append(drawn, [by |-> t, now |-> call[t].now, id |-> SeqId(call[t].now)])
  /\ call' = [call EXCEPT ![t] = NotCalled]
  /\ UNCHANGED <<clock, last, sequence, raced>>

\* The steps of GenerateSeqID between the call and its return.
GenerateSeqID(t) ==
  Compare(t) \/ Bump(t) \/ TestZero(t) \/ WaitNextTimestamp(t) \/ Zero(t) \/ Stamp(t)

-----------------------------------------------------------------------------
\* The two ways the generator gives one id twice are calls that run at the same
\* time and the clock's 25 bits, which come round after 33 seconds.  Apart from
\* them ids differ: of two calls in microseconds that no overlapping calls
\* share, closer than the cut clock can tell apart, and however often the
\* counter wraps in between.
SeqDistinct ==
  \A i, j \in 1 .. Len(drawn) :
    LET a == drawn[i]
        b == drawn[j]
    IN (i < j /\ {a.now, b.now} \cap raced = {} /\ b.now - a.now < TsMod) => a.id # b.id
==============================================================================
