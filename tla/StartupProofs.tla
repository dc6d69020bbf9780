---------------------------- MODULE StartupProofs ----------------------------
(***************************************************************************)
(* Proofs about Startup and the generator it composes, SnowFlake, for      *)
(* every width of the counter and of the cut clock, and every bound.       *)
(***************************************************************************)
EXTENDS Startup, TLAPS

-----------------------------------------------------------------------------
(* The invariant of the generator                                          *)

CallPcs == {"idle", "compare", "bump", "test", "wait", "zero", "stamp", "return"}

SeqType ==
  /\ clock \in Nat /\ last \in Nat /\ sequence \in 0 .. (SeqMod - 1)
  /\ call \in [Callers -> [pc : CallPcs, now : Nat, arg : Nat]]
  /\ raced \in SUBSET Nat
  /\ drawn \in Seq([by : Callers, now : Nat, id : Nat \X Nat])

\* Ids drawn in a microsecond that no overlapping calls share.
Lone == { i \in DOMAIN drawn : drawn[i].now \notin raced }

\* The clock is ahead of everything that was read from it.
ClockInv ==
  /\ last <= clock
  /\ \A i \in DOMAIN drawn : drawn[i].now <= clock /\ drawn[i].id[1] = drawn[i].now % TsMod
  /\ \A i \in Lone : drawn[i].now <= last

\* Two calls that overlap are both in raced microseconds.
OverlapInv ==
  \A t, u \in Callers : t # u /\ Calling(t) /\ Calling(u) => call[t].now \in raced

\* No lone id of microsecond now has the counter value or a later one.
Fresh(now) ==
  \A i \in Lone : drawn[i].now < now \/ (drawn[i].now = now /\ drawn[i].id[2] < sequence)

\* The counter is at or above every lone id of the last microsecond.
Top == \A i \in Lone : drawn[i].now = last => drawn[i].id[2] <= sequence

\* What a call knows at each of its steps; more if it is alone.
CallInv(t) ==
  Calling(t) =>
    /\ call[t].now <= clock
    /\ \A i \in Lone : drawn[i].now <= call[t].now
    /\ call[t].pc = "bump" => call[t].arg \in 0 .. (SeqMod - 1)
    /\ call[t].pc = "wait" => \A i \in Lone : drawn[i].now <= call[t].arg
    /\ call[t].pc = "return" => last \in raced \cup {call[t].now}
    /\ call[t].now \notin raced =>
         /\ last <= call[t].now
         /\ call[t].pc = "compare" => Top
         /\ call[t].pc = "bump" => last = call[t].now /\ Top /\ call[t].arg = (sequence + 1) % SeqMod
         /\ call[t].pc = "test" => last = call[t].now /\ (sequence = 0 \/ Fresh(call[t].now))
         /\ call[t].pc = "zero" => last < call[t].now
         /\ call[t].pc \in {"stamp", "return"} => Fresh(call[t].now)
         /\ call[t].pc = "return" => last = call[t].now

\* Lone ids are drawn in the order of microsecond and counter.
OrderInv ==
  \A i, j \in Lone : i < j =>
    \/ drawn[i].now < drawn[j].now
    \/ drawn[i].now = drawn[j].now /\ drawn[i].id[2] < drawn[j].id[2]

\* Between calls the counter covers the last microsecond.
IdleInv == (\A t \in Callers : ~Calling(t)) => Top

SeqInv ==
  /\ SeqType /\ ClockInv /\ OverlapInv /\ OrderInv
  /\ \A t \in Callers : CallInv(t)

Labels == {"off", "conf", "create", "create2", "create3", "join", "init", "inited", "publish",
           "loop", "bind", "wait", "connector", "thread", "connect", "closed"}

StartInv ==
  /\ pc \in [Threads -> Labels]
  /\ server \subseteq Servers /\ signal \subseteq server
  /\ \A s \in Servers : pc[s] = "loop" => s \in server

IInv == SeqInv /\ (exited \/ IdleInv) /\ StartInv

-----------------------------------------------------------------------------
(* Arithmetic of the cut counter and the cut clock                         *)

\* The counter advances by one or wraps to zero.
LEMMA NextCount ==
  ASSUME NEW m \in Nat \ {0}, NEW n \in 0 .. (m - 1)
  PROVE  /\ (n + 1) % m \in 0 .. (m - 1)
         /\ (n + 1) % m = 0 \/ (n + 1) % m = n + 1
  <1>1. CASE n + 1 < m
    BY <1>1
  <1>2. CASE n + 1 = m
    BY <1>2
  <1> QED BY <1>1, <1>2

LEMMA Multiple ==
  ASSUME NEW m \in Nat \ {0}, NEW k \in Int, k >= 1
  PROVE  m * k >= m
  <1>1. k - 1 \in Nat /\ m * (k - 1) >= 0
    OBVIOUS
  <1>2. m * k = m * (k - 1) + m
    OBVIOUS
  <1> QED BY <1>1, <1>2

\* Microseconds less than a turn of the cut clock apart stay apart.
LEMMA CutsDiffer ==
  ASSUME NEW m \in Nat \ {0}, NEW a \in Nat, NEW b \in Nat, a < b, b - a < m
  PROVE  a % m # b % m
  <1> SUFFICES ASSUME a % m = b % m PROVE FALSE
    OBVIOUS
  <1> DEFINE x == a \div m
             y == b \div m
  <1>1. x \in Int /\ a = m * x + (a % m)
    OBVIOUS
  <1>2. y \in Int /\ b = m * y + (b % m)
    OBVIOUS
  <1>3. a % m \in Int /\ b % m \in Int
    OBVIOUS
  <1> HIDE DEF x, y
  <1>4. m * x \in Int /\ m * y \in Int
    BY <1>1, <1>2
  <1>5. b - a = m * (y - x)
    BY <1>1, <1>2, <1>3, <1>4
  <1>6. CASE y - x >= 1
    BY <1>1, <1>2, <1>5, <1>6, Multiple
  <1>7. CASE y - x <= 0
    <2>1. m * y <= m * x
      BY <1>1, <1>2, <1>7
    <2> QED BY <2>1, <1>1, <1>2, <1>3, <1>4
  <1> QED BY <1>1, <1>2, <1>6, <1>7

-----------------------------------------------------------------------------
(* The steps of the generator                                              *)

LEMMA SeqInitInv == SeqInit => SeqInv /\ IdleInv
  <1> SUFFICES ASSUME SeqInit PROVE SeqInv /\ IdleInv
    OBVIOUS
  <1> USE DEF SeqInit, NotCalled, Frame, Calling, Lone
  <1>1. SeqType
    BY ModAssumption DEF SeqType, CallPcs
  <1>2. ClockInv /\ OverlapInv /\ OrderInv /\ IdleInv
    BY DEF ClockInv, OverlapInv, OrderInv, IdleInv, Top
  <1>3. \A t \in Callers : CallInv(t)
    BY DEF CallInv
  <1> QED BY <1>1, <1>2, <1>3 DEF SeqInv

\* The fields of a drawn id.
LEMMA DrawnFields ==
  ASSUME SeqType
  PROVE  /\ DOMAIN drawn = 1 .. Len(drawn)
         /\ \A i \in DOMAIN drawn : drawn[i].now \in Nat /\ drawn[i].id[2] \in Nat
  <1> DEFINE Ids == [by : Callers, now : Nat, id : Nat \X Nat]
  <1>1. DOMAIN drawn = 1 .. Len(drawn) /\ \A i \in DOMAIN drawn : drawn[i] \in Ids
    <2> HIDE DEF Ids
    <2>1. drawn \in Seq(Ids)
      BY DEF SeqType, Ids
    <2> QED BY <2>1
  <1>2. \A d \in Ids : d.now \in Nat /\ d.id \in Nat \X Nat
    OBVIOUS
  <1> QED BY <1>1, <1>2

\* The numbers of a state.
LEMMA Numbers ==
  ASSUME SeqType
  PROVE  /\ clock \in Nat /\ last \in Nat /\ sequence \in Nat
         /\ \A t \in Callers : call[t].now \in Nat /\ call[t].arg \in Nat
         /\ \A i \in DOMAIN drawn : drawn[i].now \in Nat /\ drawn[i].id[2] \in Nat
         /\ Lone \subseteq DOMAIN drawn
  <1>1. clock \in Nat /\ last \in Nat /\ sequence \in Nat
    BY DEF SeqType
  <1>2. \A t \in Callers : call[t].now \in Nat /\ call[t].arg \in Nat
    BY DEF SeqType
  <1> QED BY <1>1, <1>2, DrawnFields DEF Lone

LEMMA TickInv == SeqInv /\ IdleInv /\ Tick => SeqInv' /\ IdleInv'
  <1> SUFFICES ASSUME SeqInv, IdleInv, Tick PROVE SeqInv' /\ IdleInv'
    OBVIOUS
  <1>0. /\ clock \in Nat /\ clock' = clock + 1
        /\ UNCHANGED <<last, sequence, call, raced, drawn>>
    BY DEF SeqInv, SeqType, Tick
  <1>a. UNCHANGED Lone /\ UNCHANGED Top /\ \A n : Fresh(n)' = Fresh(n)
    BY <1>0 DEF Lone, Top, Fresh
  <1>1. SeqType'
    BY <1>0 DEF SeqInv, SeqType
  <1>2. ClockInv'
    BY <1>0, <1>a, Numbers DEF SeqInv, ClockInv
  <1>3. OverlapInv' /\ OrderInv' /\ IdleInv'
    BY <1>0, <1>a DEF SeqInv, OverlapInv, OrderInv, IdleInv, Calling
  <1>4. ASSUME NEW t \in Callers PROVE CallInv(t)'
    <2>1. CallInv(t) /\ call[t].now \in Nat
      BY DEF SeqInv, SeqType
    <2> QED BY <1>0, <1>a, <2>1 DEF CallInv, Calling
  <1> QED BY <1>1, <1>2, <1>3, <1>4 DEF SeqInv

\* Calls that overlap share no microsecond with a lone one.
LEMMA OthersRaced ==
  ASSUME SeqInv, NEW t \in Callers, Calling(t), NEW u \in Callers, u # t, Calling(u)
  PROVE  call[u].now \in raced /\ call[t].now \in raced
  BY DEF SeqInv, OverlapInv

LEMMA CompareInv ==
  ASSUME SeqInv, IdleInv, NEW t \in Callers, Compare(t)
  PROVE  SeqInv' /\ IdleInv'
  <1> USE DEF SeqInv, Frame
  <1>0. /\ SeqType /\ Calling(t) /\ CallInv(t) /\ call[t].pc = "compare"
        /\ UNCHANGED <<clock, last, sequence, raced, drawn>>
        /\ \A u \in Callers : u # t => call'[u] = call[u]
        /\ call'[t] = IF last = call[t].now
              THEN Frame("bump", call[t].now, (sequence + 1) % SeqMod)
              ELSE Frame("zero", call[t].now, call[t].arg)
    BY DEF Compare, SeqType, Calling
  <1>a. UNCHANGED Lone /\ UNCHANGED Top /\ \A n : Fresh(n)' = Fresh(n)
    BY <1>0 DEF Lone, Top, Fresh
  <1>b. (sequence + 1) % SeqMod \in 0 .. (SeqMod - 1)
    BY <1>0, NextCount, ModAssumption DEF SeqType
  <1>c. /\ call'[t].now = call[t].now /\ call'[t].pc \in {"bump", "zero"}
        /\ last = call[t].now => call'[t].pc = "bump" /\ call'[t].arg = (sequence + 1) % SeqMod
        /\ last # call[t].now => call'[t].pc = "zero" 
    BY <1>0 DEF SeqType
  <1>1. SeqType'
    BY <1>0, <1>b, ModAssumption DEF SeqType, CallPcs, Compare
  <1>2. ClockInv' /\ OrderInv'
    BY <1>0, <1>a DEF ClockInv, OrderInv
  <1>3. OverlapInv' /\ IdleInv'
    BY <1>0, <1>c DEF OverlapInv, IdleInv, Calling
  <1>4. CallInv(t)'
    BY <1>0, <1>a, <1>b, <1>c DEF CallInv, SeqType, Calling
  <1>5. ASSUME NEW u \in Callers, u # t PROVE CallInv(u)'
    BY <1>0, <1>5, <1>a DEF CallInv, Calling
  <1> QED BY <1>1, <1>2, <1>3, <1>4, <1>5
LEMMA BumpInv ==
  ASSUME SeqInv, IdleInv, NEW t \in Callers, Bump(t)
  PROVE  SeqInv' /\ IdleInv'
  <1> USE DEF SeqInv, Frame
  <1>0. /\ SeqType /\ ClockInv /\ Calling(t) /\ CallInv(t) /\ call[t].pc = "bump"
        /\ UNCHANGED <<clock, last, raced, drawn>>
        /\ \A u \in Callers : u # t => call'[u] = call[u]
        /\ call'[t] = Frame("test", call[t].now, call[t].arg)
        /\ sequence' = call[t].arg
    BY DEF Bump, SeqType, Calling, Step
  <1>a. UNCHANGED Lone
    BY <1>0 DEF Lone
  <1>b. sequence' \in 0 .. (SeqMod - 1)
    BY <1>0 DEF CallInv
  <1>1. SeqType'
    BY <1>0, <1>b DEF SeqType, CallPcs, Bump, Step
  <1>2. ClockInv' /\ OrderInv'
    BY <1>0, <1>a DEF ClockInv, OrderInv
  <1>3. OverlapInv' /\ IdleInv'
    BY <1>0 DEF OverlapInv, IdleInv, Calling
  <1>4. CallInv(t)'
    <2>1. ASSUME call[t].now \notin raced, sequence' # 0 PROVE Fresh(call[t].now)'
      <3>1. sequence' = sequence + 1 /\ Top /\ last = call[t].now
        BY <1>0, <2>1, NextCount, ModAssumption DEF CallInv, SeqType
      <3> QED BY <1>0, <1>a, <3>1, Numbers DEF Fresh, Top, ClockInv
    <2> QED BY <1>0, <1>a, <2>1 DEF CallInv, Calling
  <1>5. ASSUME NEW u \in Callers, u # t PROVE CallInv(u)'
    BY <1>0, <1>5, <1>a, OthersRaced DEF CallInv, Calling
  <1> QED BY <1>1, <1>2, <1>3, <1>4, <1>5

LEMMA TestZeroInv ==
  ASSUME SeqInv, IdleInv, NEW t \in Callers, TestZero(t)
  PROVE  SeqInv' /\ IdleInv'
  <1> USE DEF SeqInv, Frame
  <1>0. /\ SeqType /\ ClockInv /\ Calling(t) /\ CallInv(t) /\ call[t].pc = "test"
        /\ UNCHANGED <<clock, last, sequence, raced, drawn>>
        /\ \A u \in Callers : u # t => call'[u] = call[u]
        /\ call'[t] = IF sequence = 0 THEN Frame("wait", call[t].now, last)
                                       ELSE Frame("stamp", call[t].now, call[t].arg)
    BY DEF TestZero, SeqType, Calling, Step
  <1>a. UNCHANGED Lone /\ UNCHANGED Top /\ \A n : Fresh(n)' = Fresh(n)
    BY <1>0 DEF Lone, Top, Fresh
  <1>1. SeqType'
    BY <1>0 DEF SeqType, CallPcs, TestZero
  <1>2. ClockInv' /\ OrderInv'
    BY <1>0, <1>a DEF ClockInv, OrderInv
  <1>3. OverlapInv' /\ IdleInv'
    BY <1>0, <1>a DEF OverlapInv, IdleInv, Calling
  <1>4. CallInv(t)'
    BY <1>0, <1>a DEF CallInv, Calling, ClockInv
  <1>5. ASSUME NEW u \in Callers, u # t PROVE CallInv(u)'
    BY <1>0, <1>5, <1>a DEF CallInv, Calling
  <1> QED BY <1>1, <1>2, <1>3, <1>4, <1>5

LEMMA ZeroInv ==
  ASSUME SeqInv, IdleInv, NEW t \in Callers, Zero(t)
  PROVE  SeqInv' /\ IdleInv'
  <1> USE DEF SeqInv, Frame
  <1>0. /\ SeqType /\ ClockInv /\ Calling(t) /\ CallInv(t) /\ call[t].pc = "zero"
        /\ UNCHANGED <<clock, last, raced, drawn>>
        /\ \A u \in Callers : u # t => call'[u] = call[u]
        /\ call'[t] = Frame("stamp", call[t].now, call[t].arg)
        /\ sequence' = 0
    BY DEF Zero, SeqType, Calling, Step
  <1>a. UNCHANGED Lone
    BY <1>0 DEF Lone
  <1>1. SeqType'
    BY <1>0, ModAssumption DEF SeqType, CallPcs, Zero, Step
  <1>2. ClockInv' /\ OrderInv'
    BY <1>0, <1>a DEF ClockInv, OrderInv
  <1>3. OverlapInv' /\ IdleInv'
    BY <1>0 DEF OverlapInv, IdleInv, Calling
  <1>4. CallInv(t)'
    <2>1. ASSUME call[t].now \notin raced PROVE Fresh(call[t].now)'
      BY <1>0, <1>a, <2>1, Numbers DEF Fresh, CallInv, ClockInv
    <2> QED BY <1>0, <1>a, <2>1 DEF CallInv, Calling
  <1>5. ASSUME NEW u \in Callers, u # t PROVE CallInv(u)'
    BY <1>0, <1>5, <1>a, OthersRaced DEF CallInv, Calling
  <1> QED BY <1>1, <1>2, <1>3, <1>4, <1>5

LEMMA StampInv ==
  ASSUME SeqInv, IdleInv, NEW t \in Callers, Stamp(t)
  PROVE  SeqInv' /\ IdleInv'
  <1> USE DEF SeqInv, Frame
  <1>0. /\ SeqType /\ ClockInv /\ Calling(t) /\ CallInv(t) /\ call[t].pc = "stamp"
        /\ UNCHANGED <<clock, sequence, raced, drawn>>
        /\ \A u \in Callers : u # t => call'[u] = call[u]
        /\ call'[t] = Frame("return", call[t].now, 0)
        /\ last' = call[t].now
    BY DEF Stamp, SeqType, Calling, Step
  <1>a. UNCHANGED Lone /\ \A n : Fresh(n)' = Fresh(n)
    BY <1>0 DEF Lone, Fresh
  <1>1. SeqType'
    BY <1>0 DEF SeqType, CallPcs, Stamp
  <1>2. ClockInv' /\ OrderInv'
    BY <1>0, <1>a DEF ClockInv, OrderInv, CallInv
  <1>3. OverlapInv' /\ IdleInv'
    BY <1>0 DEF OverlapInv, IdleInv, Calling
  <1>4. CallInv(t)'
    BY <1>0, <1>a DEF CallInv, Calling, SeqType
  <1>5. ASSUME NEW u \in Callers, u # t PROVE CallInv(u)'
    BY <1>0, <1>5, <1>a, OthersRaced DEF CallInv, Calling
  <1> QED BY <1>1, <1>2, <1>3, <1>4, <1>5
\* A call that reads the clock, at its start or at the end of its wait: what
\* it races with, and that the lone ids can only become fewer.
LEMMA ReadClock ==
  ASSUME SeqInv, NEW t \in Callers, Raced(t), UNCHANGED <<clock, last, sequence, drawn>>,
         \A u \in Callers : u # t => call'[u] = call[u],
         call'[t].now = clock, call'[t].pc # "idle"
  PROVE  /\ raced \subseteq raced' /\ raced' \in SUBSET Nat
         /\ Lone' \subseteq Lone
         /\ ClockInv' /\ OrderInv' /\ OverlapInv'
         /\ clock \notin raced' => \A u \in Callers : u # t => ~Calling(u)
         /\ \A u \in Callers : u # t => CallInv(u)'
         /\ (Top => Top') /\ \A n : Fresh(n) => Fresh(n)'
  <1> USE DEF SeqInv
  <1>0. SeqType /\ raced \in SUBSET Nat
    BY DEF SeqType
  <1>1. raced \subseteq raced' /\ raced' \in SUBSET Nat
    BY <1>0, Numbers DEF Raced, Overlap
  <1>2. Lone' \subseteq Lone
    BY <1>1 DEF Lone
  <1>3. \A u \in Callers : u # t /\ Calling(u) => call[u].now \in raced' /\ clock \in raced'
    BY DEF Raced, Overlap
  <1>4. ClockInv' /\ OrderInv'
    BY <1>2 DEF ClockInv, OrderInv
  <1>5. OverlapInv'
    BY <1>1, <1>3 DEF OverlapInv, Calling
  <1>6. (Top => Top') /\ \A n : Fresh(n) => Fresh(n)'
    BY <1>2 DEF Top, Fresh
  <1>7. ASSUME NEW u \in Callers, u # t PROVE CallInv(u)'
    BY <1>1, <1>2, <1>3, <1>7 DEF CallInv, Calling
  <1> QED BY <1>1, <1>2, <1>3, <1>4, <1>5, <1>6, <1>7

LEMMA SeqBeginInv ==
  ASSUME SeqInv, IdleInv, NEW t \in Callers, SeqBegin(t)
  PROVE  SeqInv' /\ IdleInv'
  <1> USE DEF SeqInv, Frame
  <1>0. /\ SeqType /\ ClockInv /\ ~Calling(t)
        /\ UNCHANGED <<clock, last, sequence, drawn>>
        /\ \A u \in Callers : u # t => call'[u] = call[u]
        /\ call'[t] = Frame("compare", clock, 0) /\ Raced(t)
    BY DEF SeqBegin, SeqType
  <1>a. /\ raced' \in SUBSET Nat /\ Lone' \subseteq Lone
        /\ ClockInv' /\ OrderInv' /\ OverlapInv'
        /\ clock \notin raced' => \A u \in Callers : u # t => ~Calling(u)
        /\ \A u \in Callers : u # t => CallInv(u)'
        /\ (Top => Top')
    BY <1>0, ReadClock
  <1>1. SeqType'
    BY <1>0, <1>a DEF SeqType, CallPcs, SeqBegin
  <1>2. IdleInv'
    BY <1>0 DEF IdleInv, Calling
  <1>3. clock \notin raced' => Top'
    BY <1>0, <1>a DEF IdleInv
  <1>4. \A i \in Lone' : drawn[i].now <= clock
    BY <1>0, <1>a DEF ClockInv, Lone
  <1>5. CallInv(t)'
    BY <1>0, <1>3, <1>4, Numbers DEF CallInv, Calling, ClockInv
  <1> QED BY <1>1, <1>2, <1>5, <1>a

LEMMA WaitNextTimestampInv ==
  ASSUME SeqInv, IdleInv, NEW t \in Callers, WaitNextTimestamp(t)
  PROVE  SeqInv' /\ IdleInv'
  <1> USE DEF SeqInv, Frame
  <1>0. /\ SeqType /\ ClockInv /\ Calling(t) /\ CallInv(t)
        /\ call[t].pc = "wait" /\ clock > call[t].arg
        /\ UNCHANGED <<clock, last, sequence, drawn>>
        /\ \A u \in Callers : u # t => call'[u] = call[u]
        /\ call'[t] = Frame("stamp", clock, 0) /\ Raced(t)
    BY DEF WaitNextTimestamp, SeqType, Calling
  <1>a. /\ raced' \in SUBSET Nat /\ Lone' \subseteq Lone
        /\ ClockInv' /\ OrderInv' /\ OverlapInv'
        /\ \A u \in Callers : u # t => CallInv(u)'
    BY <1>0, ReadClock
  <1>1. SeqType'
    BY <1>0, <1>a DEF SeqType, CallPcs, WaitNextTimestamp
  <1>2. IdleInv'
    BY <1>0 DEF IdleInv, Calling
  <1>3. \A i \in Lone : drawn[i].now < clock
    BY <1>0, Numbers DEF CallInv
  <1>4. CallInv(t)'
    <2>1. Fresh(clock)'
      BY <1>0, <1>3, <1>a DEF Fresh
    <2> QED BY <1>0, <1>3, <1>a, <2>1, Numbers DEF CallInv, Calling, ClockInv
  <1> QED BY <1>1, <1>2, <1>4, <1>a

LEMMA SeqReturnInv ==
  ASSUME SeqInv, IdleInv, NEW t \in Callers, SeqReturn(t)
  PROVE  SeqInv' /\ IdleInv'
  <1> USE DEF SeqInv, Frame, NotCalled
  <1> DEFINE d == [by |-> t, now |-> call[t].now, id |-> SeqId(call[t].now)]
             Ids == [by : Callers, now : Nat, id : Nat \X Nat]
             n == Len(drawn) + 1
  <1>0. /\ SeqType /\ ClockInv /\ Calling(t) /\ CallInv(t) /\ call[t].pc = "return"
        /\ UNCHANGED <<clock, last, sequence, raced>>
        /\ \A u \in Callers : u # t => call'[u] = call[u]
        /\ call'[t] = NotCalled /\ drawn' = Append(drawn, d)
    BY DEF SeqReturn, SeqType, Calling
  <1>a. d \in Ids /\ d.now = call[t].now /\ d.id[2] = sequence /\ d.id[1] = d.now % TsMod
    BY <1>0, Numbers, ModAssumption DEF SeqId
  <1>b. drawn \in Seq(Ids)
    BY <1>0 DEF SeqType
  <1>c. /\ drawn' \in Seq(Ids) /\ drawn'[n] = d /\ n \in Nat
        /\ DOMAIN drawn' = DOMAIN drawn \cup {n} /\ DOMAIN drawn = 1 .. (n - 1)
        /\ \A i \in DOMAIN drawn : drawn'[i] = drawn[i]
    <2> HIDE DEF d, Ids
    <2> QED BY <1>0, <1>a, <1>b
  <1> HIDE DEF d, Ids, n
  <1>d. /\ \A i \in Lone' : i \in Lone \/ (i = n /\ call[t].now \notin raced)
        /\ \A i \in Lone : drawn'[i] = drawn[i] /\ i < n
    BY <1>0, <1>a, <1>c DEF Lone
  <1>1. SeqType'
    BY <1>0, <1>c, Numbers DEF SeqType, CallPcs, SeqReturn, Ids
  <1>2. ClockInv'
    <2>1. \A i \in DOMAIN drawn' : drawn'[i].now <= clock /\ drawn'[i].id[1] = drawn'[i].now % TsMod
      BY <1>0, <1>a, <1>c DEF ClockInv, CallInv
    <2>2. \A i \in Lone' : drawn'[i].now <= last
      BY <1>0, <1>a, <1>c, <1>d, Numbers DEF ClockInv, CallInv
    <2> QED BY <1>0, <2>1, <2>2 DEF ClockInv
  <1>3. OverlapInv'
    BY <1>0 DEF OverlapInv, Calling
  <1>4. OrderInv'
    <2> SUFFICES ASSUME NEW i \in Lone', NEW j \in Lone', i < j
                 PROVE  \/ drawn'[i].now < drawn'[j].now
                        \/ drawn'[i].now = drawn'[j].now /\ drawn'[i].id[2] < drawn'[j].id[2]
      BY DEF OrderInv
    <2>1. CASE j \in Lone
      <3>1. i \in Lone
        BY <1>c, <1>d, <2>1 DEF Lone
      <3> QED BY <1>d, <2>1, <3>1 DEF OrderInv
    <2>2. CASE j = n /\ call[t].now \notin raced
      <3>1. i \in Lone
        BY <1>c, <1>d, <2>2 DEF Lone
      <3>2. Fresh(call[t].now)
        BY <1>0, <2>2 DEF CallInv
      <3> QED BY <1>a, <1>c, <1>d, <2>2, <3>1, <3>2 DEF Fresh
    <2> QED BY <1>d, <2>1, <2>2
  <1>5. ASSUME NEW u \in Callers PROVE CallInv(u)'
    <2>1. CASE u = t
      BY <1>0, <2>1 DEF CallInv, Calling
    <2>2. CASE u # t /\ ~Calling(u)
      BY <1>0, <2>2 DEF CallInv, Calling
    <2>3. CASE u # t /\ Calling(u)
      <3>1. call[u].now \in raced /\ call[t].now \in raced
        BY <1>0, <2>3, OthersRaced
      <3>2. \A i \in Lone' : i \in Lone /\ drawn'[i] = drawn[i]
        BY <1>d, <3>1
      <3> QED BY <1>0, <2>3, <3>1, <3>2 DEF CallInv, Calling
    <2> QED BY <2>1, <2>2, <2>3
  <1>6. IdleInv'
    <2> SUFFICES ASSUME NEW i \in Lone', drawn'[i].now = last
                 PROVE  drawn'[i].id[2] <= sequence
      BY <1>0 DEF IdleInv, Top
    <2>1. call[t].now \notin raced
      BY <1>0, <1>a, <1>c, <1>d DEF CallInv, Lone
    <2>2. Fresh(call[t].now) /\ last = call[t].now
      BY <1>0, <2>1 DEF CallInv
    <2> QED BY <1>0, <1>a, <1>c, <1>d, <2>2, Numbers DEF Fresh
  <1> QED BY <1>1, <1>2, <1>3, <1>4, <1>5, <1>6
-----------------------------------------------------------------------------
(* The start of the process                                                *)

\* A step of the generator: time, or a thread in GenerateSeqID.
SeqStep ==
  \/ Tick
  \/ \E t \in Callers : SeqBegin(t) \/ GenerateSeqID(t) \/ SeqReturn(t)

LEMMA SeqStepInv == SeqInv /\ IdleInv /\ SeqStep => SeqInv' /\ IdleInv'
  BY TickInv, SeqBeginInv, CompareInv, BumpInv, TestZeroInv, WaitNextTimestampInv, ZeroInv,
     StampInv, SeqReturnInv
  DEF SeqStep, GenerateSeqID

\* Every step of the process leaves the generator alone, is a step of it, or
\* ends the process.
LEMMA StepKinds ==
  ASSUME Next
  PROVE  ~exited /\ (Exit \/ (UNCHANGED exited /\ (UNCHANGED seqVars \/ SeqStep)))
  <1> USE DEF At, Critical, Create, Goto, exited
  <1>1. CASE MainThread \/ CreateServers
    BY <1>1 DEF MainThread, InitGameSvrConf, CreateThreads, CreateServers
  <1>2. CASE LogicThread
    BY <1>2, CallersAssumption
    DEF LogicThread, InitPythonBinding, WaitInited, CreateConnector, StartMainThread,
        ProcessOneLoop, SeqStep
  <1>3. CASE ConnectorThread
    BY <1>3, CallersAssumption
    DEF ConnectorThread, ConnectFails, ConnectBegin, ConnectEnd, OnRefused, SeqStep
  <1>4. CASE TimePasses \/ DumpCritical
    BY <1>4 DEF TimePasses, SeqStep, DumpCritical
  <1>5. ASSUME NEW s \in Servers, ServerThread(s)
        PROVE  ~exited /\ (Exit \/ (UNCHANGED exited /\ (UNCHANGED seqVars \/ SeqStep)))
    BY <1>5, CallersAssumption
    DEF ServerThread, ServerInit, Inited, Publish, Accept, AcceptEnd, Receive, SeqStep
  <1>6. CASE \E t \in Callers : Draw(t)
    BY <1>6 DEF Draw, SeqStep
  <1> QED BY <1>1, <1>2, <1>3, <1>4, <1>5, <1>6 DEF Next

\* The exit forgets the calls that were under way and nothing else.
LEMMA ExitInv == SeqInv /\ Exit => SeqInv'
  <1> SUFFICES ASSUME SeqInv, Exit PROVE SeqInv'
    OBVIOUS
  <1>0. /\ UNCHANGED <<clock, last, sequence, raced, drawn>>
        /\ \A t \in Callers : call'[t] = NotCalled
        /\ call' = [t \in Callers |-> NotCalled]
    BY DEF Exit
  <1>1. SeqType'
    BY <1>0 DEF SeqInv, SeqType, CallPcs, NotCalled, Frame
  <1>2. ClockInv' /\ OrderInv'
    BY <1>0 DEF SeqInv, ClockInv, OrderInv, Lone
  <1>3. OverlapInv' /\ \A t \in Callers : CallInv(t)'
    BY <1>0 DEF OverlapInv, CallInv, Calling, NotCalled, Frame
  <1> QED BY <1>1, <1>2, <1>3 DEF SeqInv

\* The pointer of a server is set before its loop runs, and only the loop
\* gives the signal.
LEMMA StartInvStep ==
  ASSUME StartInv, Next
  PROVE  StartInv'
  <1> USE DEF At, Critical, Create, Goto, StartInv, Exit, startVars, Labels
  <1>a. /\ Servers \subseteq Threads
        /\ {"main", "net", "timer", "logic", "connector", "log"} \subseteq Threads \ Servers
    BY DEF Servers, Threads
  <1>1. CASE MainThread \/ CreateServers
    <2>1. CASE InitGameSvrConf
      BY <2>1, <1>a DEF InitGameSvrConf
    <2>2. CASE CreateThreads
      BY <2>2, <1>a DEF CreateThreads
    <2>3. CASE CreateServers
      BY <2>3, <1>a DEF CreateServers, Servers
    <2> QED BY <1>1, <2>1, <2>2, <2>3 DEF MainThread
  <1>2. CASE LogicThread
    BY <1>2, <1>a
    DEF LogicThread, InitPythonBinding, WaitInited, CreateConnector, StartMainThread,
        ProcessOneLoop
  <1>3. CASE ConnectorThread
    BY <1>3, <1>a DEF ConnectorThread, ConnectFails, ConnectBegin, ConnectEnd, OnRefused
  <1>4. CASE TimePasses \/ DumpCritical
    BY <1>4, <1>a DEF TimePasses, DumpCritical
  <1>5. ASSUME NEW s \in Servers, ServerThread(s)
        PROVE  StartInv'
    BY <1>5, <1>a DEF ServerThread, ServerInit, Inited, Publish, Accept, AcceptEnd, Receive
  <1>6. CASE \E t \in Callers : Draw(t)
    BY <1>6 DEF Draw
  <1> QED BY <1>1, <1>2, <1>3, <1>4, <1>5, <1>6 DEF Next

\* The inductive invariant of the process: the generator's, which needs the
\* idle part only while there is a process, and that of the start.
THEOREM Invariance == Spec => []IInv
  <1>1. Init => IInv
    <2> SUFFICES ASSUME Init PROVE IInv
      OBVIOUS
    <2>1. StartInv
      BY DEF Init, StartInv, Servers, Threads, Labels
    <2> QED BY <2>1, SeqInitInv DEF Init, IInv
  <1>2. IInv /\ [Next]_vars => IInv'
    <2> SUFFICES ASSUME IInv, [Next]_vars PROVE IInv'
      OBVIOUS
    <2>1. CASE Next
      <3>1. CASE Exit
        BY <2>1, <3>1, ExitInv, StartInvStep DEF IInv, Exit, exited
      <3>2. CASE UNCHANGED exited /\ SeqStep
        BY <2>1, <3>2, StepKinds, SeqStepInv, StartInvStep DEF IInv
      <3>3. CASE UNCHANGED exited /\ UNCHANGED seqVars
        <4>1. UNCHANGED SeqInv /\ UNCHANGED IdleInv
          BY <3>3
          DEF seqVars, SeqInv, IdleInv, SeqType, ClockInv, OverlapInv, OrderInv, CallInv, Top,
              Fresh, Lone, Calling
        <4> QED BY <2>1, <3>3, <4>1, StartInvStep DEF IInv
      <3> QED BY <2>1, <3>1, <3>2, <3>3, StepKinds
    <2>2. CASE UNCHANGED vars
      BY <2>2
      DEF vars, seqVars, startVars, exited, IInv, SeqInv, IdleInv, SeqType, ClockInv, OverlapInv,
          OrderInv, CallInv, Top, Fresh, Lone, Calling, StartInv
    <2> QED BY <2>1, <2>2
  <1> QED BY <1>1, <1>2, PTL DEF Spec

\* Ids of calls that did not overlap differ, within one turn of the cut clock
\* and however often the counter wraps: their order is strict in microsecond
\* and counter, and a cut clock tells microseconds of one turn apart.
THEOREM IdsDistinct == Spec => []SeqDistinct
  <1>1. IInv => SeqDistinct
    <2> SUFFICES ASSUME IInv, NEW i \in 1 .. Len(drawn), NEW j \in 1 .. Len(drawn), i < j,
                        {drawn[i].now, drawn[j].now} \cap raced = {},
                        drawn[j].now - drawn[i].now < TsMod
                 PROVE  drawn[i].id # drawn[j].id
      BY DEF SeqDistinct
    <2>1. SeqType /\ ClockInv /\ OrderInv
      BY DEF IInv, SeqInv
    <2>2. i \in DOMAIN drawn /\ j \in DOMAIN drawn
      BY <2>1, DrawnFields
    <2>3. i \in Lone /\ j \in Lone
      BY <2>2 DEF Lone
    <2>4. CASE drawn[i].now < drawn[j].now
      <3>1. drawn[i].now % TsMod # drawn[j].now % TsMod
        BY <2>1, <2>2, <2>4, Numbers, ModAssumption, CutsDiffer
      <3> QED BY <2>1, <2>2, <3>1 DEF ClockInv
    <2>5. CASE drawn[i].now = drawn[j].now /\ drawn[i].id[2] < drawn[j].id[2]
      BY <2>1, <2>2, <2>5, Numbers
    <2> QED BY <2>1, <2>3, <2>4, <2>5 DEF OrderInv
  <1> QED BY <1>1, Invariance, PTL

\* assert(m_pstServer) holds when the logic thread answers: whichever server
\* ended its wait, a signal only comes from a server that set its pointer.
THEOREM ServersReady == Spec => []ServerReady
  <1>1. IInv => ServerReady
    BY DEF IInv, StartInv, ServerReady
  <1> QED BY <1>1, Invariance, PTL
==============================================================================
