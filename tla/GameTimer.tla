----------------------------- MODULE GameTimer ------------------------------
(***************************************************************************)
(* The game timer: a hierarchical timing wheel driven by the timer thread, *)
(* the maps from key to handle and from handle to context, and the queue   *)
(* on which due contexts reach the logic thread.                           *)
(*                                                                         *)
(* The logic thread adds and removes timers under m_stLock (mLock) and     *)
(* touches the wheel under the wheel's own lock (tLock).  The timer thread *)
(* holds tLock while it looks at the wheel and gives it back before it     *)
(* calls TimerTimeout, which takes mLock.                                  *)
(***************************************************************************)
EXTENDS Integers, Sequences

CONSTANTS
  Keys,           \* timer keys
  Times,          \* delays the callers of AddTimer pass
  Near,           \* TIME_NEAR (256): slots of the first wheel
  Level,          \* TIME_LEVEL (64): slots of each of the four others
  HandleMax,      \* UINT32_MAX
  MaxAdds         \* bound: AddTimer calls of a run

\* The tick counter wraps where the wheel does: 8 + 4 * 6 = 32 bits.
TimeRange == Near * Level * Level * Level * Level

ASSUME KeysAssumption == Keys # {}
ASSUME WheelAssumption == Near \in Nat \ {0, 1} /\ Level \in Nat \ {0, 1}
\* A positive int, at most half of the counter's range.
ASSUME TimesAssumption == Times \subseteq 0 .. (TimeRange \div 2 - 1)
\* Fewer than UINT32_MAX AddTimer calls: no handle is given out twice.
ASSUME HandleAssumption == HandleMax \in Nat /\ MaxAdds \in Nat /\ MaxAdds < HandleMax

Handles == 1 .. (HandleMax - 1)
Ctx == 1 .. MaxAdds              \* contexts, in the order they are created
Nil == 0                         \* no such entry in a map
NoAdd == [time |-> 0, handle |-> Nil]

\* near[s] is slot <<0, s>>, t[i][s] is slot <<i + 1, s>>.
Slots == {<<0, s>> : s \in 0 .. (Near - 1)} \cup
         {<<i, s>> : i \in 1..4, s \in 0 .. (Level - 1)}
Node == [handle : Handles, ctx : Ctx, expire : 0 .. (TimeRange - 1)]

VARIABLES
  wheel,          \* the lists of struct timer, by slot
  time,           \* T->time
  tLock,          \* is T->lock held by the timer thread
  mLock,          \* is m_stLock held by the logic thread
  timerPc,        \* the timer thread inside TimerUpdate
  dispatching,    \* the list handed to dispatch_list, first node first
  counter,        \* m_dwCounter
  ctxMap,         \* m_mContextMap
  keyMap,         \* m_mTimerKeyMap
  keyOf,          \* m_achTimerKey of a context
  adds,           \* contexts created so far
  adding,         \* the delay of the timer AddTimer is putting on the wheel
  waitQueue,      \* m_stTimerWaitQueue
  execQueue,      \* m_stTimerExecuteQueue, from the iterator on
  left,           \* history: ticks until a context is due
  delivered       \* history: contexts given to the wait queue

timerVars == <<timerPc, dispatching>>
mapVars == <<counter, ctxMap, keyMap, keyOf, adds>>
vars == <<wheel, time, tLock, mLock, timerVars, mapVars, adding, waitQueue,
          execQueue, left, delivered>>

-----------------------------------------------------------------------------
(* The wheel                                                               *)

\* The width of a slot of level i: 1 for near, then NEAR, NEAR * LEVEL, ...
Width == <<1, Near, Near * Level, Near * Level * Level,
           Near * Level * Level * Level, TimeRange>>

\* Do a and b agree in all bits above the slots of level i?
SameBlock(a, b, i) == a \div Width[i + 2] = b \div Width[i + 2]

\* add_node: the list that a node expiring at e goes to at time now.
Place(e, now) ==
  LET at == [i \in 0..4 |-> <<i, (e \div Width[i + 1]) % (IF i = 0 THEN Near ELSE Level)>>]
      i == CHOOSE i \in 0..4 :
             /\ i = 4 \/ SameBlock(e, now, i)
             /\ \A j \in 0..(i - 1) : ~SameBlock(e, now, j)
  IN at[i]

\* The elements of list l at the places in K, in their order.
Pick(l, K) ==
  LET f == CHOOSE f \in UNION { [1..m -> K] : m \in 1..Len(l) } :
             /\ \A i, j \in DOMAIN f : i < j => f[i] < f[j]
             /\ \A k \in K : \E i \in DOMAIN f : f[i] = k
  IN IF K = {} THEN <<>> ELSE [i \in DOMAIN f |-> l[f[i]]]

\* move_list: the nodes of list s are added again, in order, at time now.
MoveList(s, now) ==
  LET to(x) == { i \in DOMAIN wheel[s] : Place(wheel[s][i].expire, now) = x }
  IN IF wheel[s] = <<>> THEN wheel
     ELSE [x \in Slots |-> (IF x = s THEN <<>> ELSE wheel[x]) \o Pick(wheel[s], to(x))]

\* Fault: the top wheel is forgotten when the counter wraps.
ShiftedNoWrap(now) ==
  LET levels == { i \in 1..4 : now % Width[i + 1] = 0 /\
                               (now \div Width[i + 1]) % Level # 0 }
  IN IF levels = {} THEN wheel
     ELSE LET i == CHOOSE i \in levels : \A j \in levels : i <= j
          IN MoveList(<<i, (now \div Width[i + 1]) % Level>>, now)

\* timer_shift: the list that is moved down when the counter becomes now, if
\* there is one.
Shifted(now) ==
  LET levels == { i \in 1..4 : now % Width[i + 1] = 0 /\
                               (now \div Width[i + 1]) % Level # 0 }
  IN IF now = 0 THEN MoveList(<<4, 0>>, now)
     ELSE IF levels = {} THEN wheel
     ELSE LET i == CHOOSE i \in levels : \A j \in levels : i <= j
          IN MoveList(<<i, (now \div Width[i + 1]) % Level>>, now)

NearNow == <<0, time % Near>>

-----------------------------------------------------------------------------
(* The maps                                                                *)

\* Fault: the lowest free handle.
NextHandleLowest(used) ==
  CHOOSE h \in Handles \ used : \A g \in Handles \ used : h <= g

\* _GenerateHandleID: the next handle after counter that no timer has; 0 and
\* UINT32_MAX are never used.
NextHandle(used) ==
  LET rank(h) == IF h > counter THEN h - counter ELSE h + HandleMax
      free == Handles \ used
  IN CHOOSE h \in free : \A g \in free : rank(h) <= rank(g)

\* Fault: the key map keeps the removed timer.
KeysWithStale(h) == keyMap

\* _RemoveTimerHandle: the two maps without handle h.
CtxWithout(h) == [ctxMap EXCEPT ![h] = Nil]

KeysWithout(h) ==
  IF ctxMap[h] = Nil THEN keyMap ELSE [keyMap EXCEPT ![keyOf[ctxMap[h]]] = Nil]

InUse(m) == { h \in Handles : m[h] # Nil }

-----------------------------------------------------------------------------
(* Logic thread                                                            *)

\* AddTimer under m_stLock: a timer of the same key is displaced, the new
\* one gets a handle and a context.
AddTimer(k, d) ==
  LET h0 == keyMap[k]
      ctx0 == IF h0 = Nil THEN ctxMap ELSE CtxWithout(h0)
      key0 == IF h0 = Nil THEN keyMap ELSE KeysWithout(h0)
      h == NextHandle(InUse(ctx0))
      c == adds + 1
  IN /\ ~mLock
     /\ adding = NoAdd
     /\ adds < MaxAdds
     /\ adds' = c
     /\ counter' = h
     /\ ctxMap' = [ctx0 EXCEPT ![h] = c]
     /\ keyMap' = [key0 EXCEPT ![k] = IF @ = Nil THEN h ELSE @]
     /\ keyOf' = [keyOf EXCEPT ![c] = k]
     /\ mLock' = TRUE
     /\ adding' = [time |-> d, handle |-> h]
     /\ UNCHANGED <<wheel, time, tLock, timerVars, waitQueue, execQueue, left,
                    delivered>>

\* Fault: expire is wider than the tick counter.
timer_addWide ==
  LET n == [handle |-> adding.handle, ctx |-> adds, expire |-> time + adding.time]
      s == Place(n.expire % TimeRange, time)
  IN /\ adding # NoAdd
     /\ adding.time > 0
     /\ ~tLock
     /\ wheel' = [wheel EXCEPT ![s] = Append(@, n)]
     /\ left' = [left EXCEPT ![adds] = adding.time]
     /\ adding' = NoAdd
     /\ mLock' = FALSE
     /\ UNCHANGED <<time, tLock, timerVars, mapVars, waitQueue, execQueue, delivered>>

\* _AddTimerHandle with a positive delay: timer_add under T->lock, then
\* AddTimer gives m_stLock back.
timer_add ==
  LET n == [handle |-> adding.handle, ctx |-> adds,
            expire |-> (time + adding.time) % TimeRange]
      s == Place(n.expire, time)
  IN /\ adding # NoAdd
     /\ adding.time > 0
     /\ ~tLock
     /\ wheel' = [wheel EXCEPT ![s] = Append(@, n)]
     /\ left' = [left EXCEPT ![adds] = adding.time]
     /\ adding' = NoAdd
     /\ mLock' = FALSE
     /\ UNCHANGED <<time, tLock, timerVars, mapVars, waitQueue, execQueue, delivered>>

RemoveTimer(k) ==
  /\ ~mLock
  /\ adding = NoAdd
  /\ keyMap[k] # Nil
  /\ ctxMap' = CtxWithout(keyMap[k])
  /\ keyMap' = [KeysWithout(keyMap[k]) EXCEPT ![k] = Nil]
  /\ UNCHANGED <<wheel, time, tLock, mLock, timerVars, counter, keyOf, adds, adding,
                 waitQueue, execQueue, left, delivered>>

\* _ProcessTimerCallback: PrepareExecute swaps the queues, then every
\* context is called; a callback may add and remove timers itself.
PrepareExecute ==
  /\ adding = NoAdd
  /\ execQueue = <<>>
  /\ waitQueue # <<>>
  /\ execQueue' = waitQueue
  /\ waitQueue' = <<>>
  /\ UNCHANGED <<wheel, time, tLock, mLock, timerVars, mapVars, adding, left, delivered>>

Callback ==
  /\ adding = NoAdd
  /\ execQueue # <<>>
  /\ execQueue' = Tail(execQueue)
  /\ UNCHANGED <<wheel, time, tLock, mLock, timerVars, mapVars, adding, waitQueue,
                 left, delivered>>

-----------------------------------------------------------------------------
(* Timer thread                                                            *)

\* TimerUpdate finds that the clock has moved: timer_update locks the wheel.
TimerUpdate ==
  /\ timerPc = "idle"
  /\ ~tLock
  /\ tLock' = TRUE
  /\ timerPc' = "execute0"
  /\ UNCHANGED <<wheel, time, mLock, dispatching, mapVars, adding, waitQueue, execQueue,
                 left, delivered>>

\* Fault: the wheel stays locked while the list is dispatched.
TimerExecuteLocked ==
  /\ timerPc \in {"execute0", "execute1"}
  /\ wheel[NearNow] # <<>>
  /\ dispatching' = wheel[NearNow]
  /\ wheel' = [wheel EXCEPT ![NearNow] = <<>>]
  /\ timerPc' = IF timerPc = "execute0" THEN "dispatch0" ELSE "dispatch1"
  /\ UNCHANGED <<time, tLock, mLock, mapVars, adding, waitQueue, execQueue, left, delivered>>

\* timer_execute takes the list that is due and unlocks the wheel.
timer_execute ==
  /\ timerPc \in {"execute0", "execute1"}
  /\ wheel[NearNow] # <<>>
  /\ dispatching' = wheel[NearNow]
  /\ wheel' = [wheel EXCEPT ![NearNow] = <<>>]
  /\ tLock' = FALSE
  /\ timerPc' = IF timerPc = "execute0" THEN "dispatch0" ELSE "dispatch1"
  /\ UNCHANGED <<time, mLock, mapVars, adding, waitQueue, execQueue, left, delivered>>

\* Fault: a handle that is gone is not looked up.
TimerTimeoutUnchecked ==
  /\ timerPc \in {"dispatch0", "dispatch1"}
  /\ dispatching # <<>>
  /\ ~mLock
  /\ LET n == Head(dispatching)
     IN /\ waitQueue' = Append(waitQueue, n.ctx)
        /\ delivered' = Append(delivered, n.ctx)
        /\ ctxMap' = CtxWithout(n.handle)
        /\ keyMap' = KeysWithout(n.handle)
  /\ dispatching' = Tail(dispatching)
  /\ UNCHANGED <<wheel, time, tLock, mLock, timerPc, counter, keyOf, adds, adding,
                 execQueue, left>>

\* dispatch_list calls TimerTimeout for one node and frees the node.
TimerTimeout ==
  /\ timerPc \in {"dispatch0", "dispatch1"}
  /\ dispatching # <<>>
  /\ ~mLock
  /\ LET n == Head(dispatching)
         known == ctxMap[n.handle] # Nil
     IN /\ waitQueue' = IF known THEN Append(waitQueue, n.ctx) ELSE waitQueue
        /\ delivered' = IF known THEN Append(delivered, n.ctx) ELSE delivered
        /\ ctxMap' = CtxWithout(n.handle)
        /\ keyMap' = KeysWithout(n.handle)
  /\ dispatching' = Tail(dispatching)
  /\ UNCHANGED <<wheel, time, tLock, mLock, timerPc, counter, keyOf, adds, adding,
                 execQueue, left>>

\* The list is done: timer_execute locks the wheel again.
DispatchDone ==
  /\ timerPc \in {"dispatch0", "dispatch1"}
  /\ dispatching = <<>>
  /\ ~tLock
  /\ tLock' = TRUE
  /\ timerPc' = IF timerPc = "dispatch0" THEN "execute0" ELSE "execute1"
  /\ UNCHANGED <<wheel, time, mLock, dispatching, mapVars, adding, waitQueue, execQueue,
                 left, delivered>>

timer_shift ==
  /\ timerPc = "execute0"
  /\ wheel[NearNow] = <<>>
  /\ time' = (time + 1) % TimeRange
  /\ wheel' = Shifted(time')
  /\ left' = [c \in Ctx |-> IF left[c] > 0 THEN left[c] - 1 ELSE left[c]]
  /\ timerPc' = "execute1"
  /\ UNCHANGED <<tLock, mLock, dispatching, mapVars, adding, waitQueue, execQueue, delivered>>

UpdateDone ==
  /\ timerPc = "execute1"
  /\ wheel[NearNow] = <<>>
  /\ tLock' = FALSE
  /\ timerPc' = "idle"
  /\ UNCHANGED <<wheel, time, mLock, dispatching, mapVars, adding, waitQueue, execQueue,
                 left, delivered>>

-----------------------------------------------------------------------------
\* TimerInit, on maps that are empty.
Init ==
  /\ wheel = [s \in Slots |-> <<>>]
  /\ time = 0
  /\ tLock = FALSE /\ mLock = FALSE
  /\ timerPc = "idle" /\ dispatching = <<>>
  /\ counter = 0
  /\ ctxMap = [h \in Handles |-> Nil]
  /\ keyMap = [k \in Keys |-> Nil]
  /\ keyOf = [c \in Ctx |-> CHOOSE k \in Keys : TRUE]
  /\ adds = 0 /\ adding = NoAdd
  /\ waitQueue = <<>> /\ execQueue = <<>>
  /\ left = [c \in Ctx |-> -1]
  /\ delivered = <<>>

TimerThread ==
  TimerUpdate \/ timer_execute \/ TimerTimeout \/ DispatchDone \/ timer_shift \/ UpdateDone
LogicLoop == timer_add \/ PrepareExecute \/ Callback
Callers == \E k \in Keys : RemoveTimer(k) \/ \E d \in Times : AddTimer(k, d)

Next == TimerThread \/ LogicLoop \/ Callers

Spec == Init /\ [][Next]_vars

\* Both threads run for ever; a spinlock that is free again and again is
\* taken in the end.
FairSpec == Spec /\ SF_vars(TimerThread) /\ SF_vars(LogicLoop)

-----------------------------------------------------------------------------
(* Properties                                                              *)

\* Expiry times and the tick counter stay in their width, and the wheel, maps
\* and queues hold what they are for.
TypeOK ==
  /\ wheel \in [Slots -> Seq(Node)]
  /\ time \in 0 .. (TimeRange - 1)
  /\ tLock \in BOOLEAN /\ mLock \in BOOLEAN
  /\ timerPc \in {"idle", "execute0", "dispatch0", "execute1", "dispatch1"}
  /\ dispatching \in Seq(Node)
  /\ counter \in 0 .. (HandleMax - 1)
  /\ ctxMap \in [Handles -> Ctx \cup {Nil}]
  /\ keyMap \in [Keys -> Handles \cup {Nil}]
  /\ keyOf \in [Ctx -> Keys]
  /\ adds \in 0..MaxAdds
  /\ adding = NoAdd \/ adding \in [time : Times, handle : Handles]
  /\ waitQueue \in Seq(Ctx) /\ execQueue \in Seq(Ctx)
  /\ left \in [Ctx -> Int]
  /\ delivered \in Seq(Ctx)

\* The two maps are mirror images: a key leads to the one timer that carries
\* it, through any displacement, removal and timeout.
MapsAgree ==
  /\ \A h \in InUse(ctxMap) : keyMap[keyOf[ctxMap[h]]] = h
  /\ \A k \in Keys : keyMap[k] # Nil =>
       ctxMap[keyMap[k]] # Nil /\ keyOf[ctxMap[keyMap[k]]] = k

\* A node outlives the timer it was made for, and its context is freed with
\* the timer.  The context is only touched when its handle is known, and
\* then it is the live one.
ContextAlive ==
  timerPc \in {"dispatch0", "dispatch1"} /\ dispatching # <<>> =>
    ctxMap[Head(dispatching).handle] \in {Nil, Head(dispatching).ctx}

\* Is c the context of a timer that is on the wheel?
OnWheel(c) == (\E h \in Handles : ctxMap[h] = c) /\ ~(adding # NoAdd /\ c = adds)

\* A timer is due in the very tick its delay ends: no cascade of the wheel
\* loses it, delays it or brings it forward, across the wrap of the counter.
FireOnTime ==
  /\ \A c \in Ctx : OnWheel(c) /\ left[c] <= 0 => timerPc \in {"execute1", "dispatch1"}
  /\ \A i \in 1..Len(dispatching) :
       OnWheel(dispatching[i].ctx) => left[dispatching[i].ctx] = 0

\* The timer of key k as TimerService sees it.
ArmedTimer(k) ==
  LET c == ctxMap[keyMap[k]]
  IN IF keyMap[k] # Nil /\ OnWheel(c) THEN [id |-> c, left |-> left[c]]
     ELSE [id |-> Nil, left |-> Nil]
Service == INSTANCE TimerService
  WITH Ids <- Ctx, Delays <- Times, NoTimer <- [id |-> Nil, left |-> Nil],
       armed <- [k \in Keys |-> ArmedTimer(k)]

\* The wheel, the two maps and the locks together are what TimerService
\* promises: delivery in the tick the delay ends, once, never after a removal
\* or a displacement, and in the end.
ImplementsTimer == Service!TimerSpec

\* What is handed over is called, and the queue drains.
CallbacksRun == waitQueue # <<>> ~> waitQueue = <<>> /\ execQueue = <<>>

\* "try to dispatch timeout 0": a timer added with delay 0 is handed over.
ZeroTimeoutDispatched ==
  \A c \in Ctx : (adding # NoAdd /\ adds = c) ~> \E i \in 1..Len(delivered) : delivered[i] = c
=============================================================================
