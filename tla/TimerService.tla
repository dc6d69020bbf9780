---------------------------- MODULE TimerService ----------------------------
(***************************************************************************)
(* What the game timer promises.  A key has at most one timer; arming it   *)
(* again displaces the old one; a timer is delivered exactly when its      *)
(* delay has passed, once, and not at all once it was displaced or         *)
(* removed.                                                                *)
(***************************************************************************)
EXTENDS Integers, Sequences

CONSTANTS Keys, Ids, Delays, NoTimer

VARIABLES
  armed,          \* the timer of each key: its id and the ticks left
  delivered       \* ids handed over for execution, oldest first

vars == <<armed, delivered>>

Init == armed = [k \in Keys |-> NoTimer] /\ delivered = <<>>

Arm(k, id, d) ==
  /\ armed' = [armed EXCEPT ![k] = [id |-> id, left |-> d]]
  /\ UNCHANGED delivered

Disarm(k) ==
  /\ armed[k] # NoTimer
  /\ armed' = [armed EXCEPT ![k] = NoTimer]
  /\ UNCHANGED delivered

\* A tick may not pass over a timer that is due.
Tick ==
  /\ \A k \in Keys : armed[k] # NoTimer => armed[k].left > 0
  /\ armed' = [k \in Keys |-> IF armed[k] = NoTimer THEN NoTimer
                              ELSE [id |-> armed[k].id, left |-> armed[k].left - 1]]
  /\ UNCHANGED delivered

Deliver(k) ==
  /\ armed[k] # NoTimer
  /\ armed[k].left = 0
  /\ delivered' = Append(delivered, armed[k].id)
  /\ armed' = [armed EXCEPT ![k] = NoTimer]

Next ==
  \/ Tick
  \/ \E k \in Keys : Disarm(k) \/ Deliver(k)
  \/ \E k \in Keys, id \in Ids, d \in Delays : Arm(k, id, d)

TimerSafety == Init /\ [][Next]_vars

\* Time goes on, so a timer that stays armed is delivered.
TimerSpec == TimerSafety /\ WF_vars(Tick) /\ \A k \in Keys : WF_vars(Deliver(k))
=============================================================================
