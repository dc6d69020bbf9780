--------------------------- MODULE ConnectorProofs ---------------------------
(***************************************************************************)
(* Proofs about Connector, for every number of attempts, heartbeats and    *)
(* messages.                                                               *)
(***************************************************************************)
EXTENDS Connector, TLAPS

\* The connector thread has not announced the connector yet, or has left its
\* loop for good.
Early == pc["connector"] \in {"connect", "setalive"}
Ended == pc["connector"] \in {"close", "setclosed", "done"}

Complete == \A p \in PartNames : ptr[p] /\ heap[p] = "live"

PcInv ==
  /\ pc \in [Threads -> ConnectorPcs \cup LogicPcs]
  /\ pc["connector"] \in ConnectorPcs /\ pc["logic"] \in LogicPcs

\* Until the connector thread has left its loop nothing of the connector is
\* closed, erased or deleted; before SetAlive nobody sends.
LifeInv ==
  /\ ~Ended => /\ status # "CLOSED" /\ pooled /\ ~deleted
               /\ pc["logic"] \notin {"close", "erased"}
  /\ Ended => status # "ALIVE"
  /\ Early => /\ status # "ALIVE" /\ sendQueue = 0 /\ pipe = 0
              /\ pc["logic"] \in {"pass", "sweep"}
  /\ pc["connector"] = "setalive" => Complete
  /\ status = "ALIVE" => Complete

\* While the connector is alive a filled send queue is matched by a thread that
\* will write a command or by a command, and a command by a thread that will
\* activate the event, by the active event or by the loop that reads commands.
SendInv ==
  status = "ALIVE" =>
    /\ sendQueue > 0 => pipe > 0 \/ \E th \in Threads : pc[th] = "write"
    /\ pipe > 0 => \/ active \/ pc["connector"] = "select"
                   \/ \E th \in Threads : pc[th] = "active"

IInv == TypeOK /\ PcInv /\ LifeInv /\ SendInv

-----------------------------------------------------------------------------
(* Steps                                                                   *)

LEMMA PartsFacts == Len(Parts) = 5 /\ Positions = 0 .. 11
  BY DEF Parts, Positions

\* A position in Close that is odd is not the last one.
LEMMA OddPosition ==
  ASSUME NEW i \in 1 .. 10, i % 2 = 1
  PROVE  i + 1 \in 0 .. 11 /\ i + 2 \in 0 .. 11
  <1>1. i # 10
    OBVIOUS
  <1> QED BY <1>1

\* A function keeps its type when one of its values is replaced.
LEMMA ExceptType ==
  ASSUME NEW S, NEW T, NEW f \in [S -> T], NEW x, NEW y \in T
  PROVE  [f EXCEPT ![x] = y] \in [S -> T]
  OBVIOUS

\* Every step keeps the fields in their ranges and the counters at or below
\* their limits; the position in Close stays within its eleven steps.
LEMMA TypeStep ==
  ASSUME TypeOK, PcInv, Next
  PROVE  TypeOK' /\ PcInv'
  <1> USE DEF TypeOK, PcInv, At, Goto, Fail, lifeVars, sendVars, recvVars, After, Statuses, Failures, ConnectorPcs, LogicPcs
  <1>a. Threads = {"connector", "logic"} /\ "connector" # "logic"
    BY DEF Threads
  <1>1. CASE ConnectorThread
    <2>1. CASE ConnectFails
      <3>1. tries' \in 0 .. MaxTries
        BY <2>1, <1>a, TriesAssumption DEF ConnectFails
      <3>2. ptr' \in [PartNames -> BOOLEAN] /\ heap' \in [PartNames -> {"none", "live", "freed"}]
        BY <2>1, <1>a DEF ConnectFails
      <3> QED BY <2>1, <1>a, <3>1, <3>2 DEF ConnectFails
    <2>2. CASE ConnectSucceeds
      BY <2>2, <1>a, TriesAssumption DEF ConnectSucceeds
    <2>3. CASE SetAlive
      BY <2>3, <1>a DEF SetAlive
    <2>4. CASE GiveUp
      BY <2>4, <1>a DEF GiveUp
    <2>5. CASE MainLoop
      BY <2>5, <1>a, BoundAssumption DEF MainLoop
    <2>6. CASE EventsEnd
      BY <2>6, <1>a DEF EventsEnd
    <2>7. CASE OnRead
      <3>1. PICK n \in 0 .. MaxKept : unpacked' = unpacked + n /\ kept' \in 0 .. MaxKept
        <4>1. CASE unpacked' = unpacked + 1 /\ UNCHANGED kept
          BY <4>1 DEF MaxKept
        <4>2. CASE /\ kept' \in IF kept = 0 THEN 1 .. MaxKept ELSE {kept}
                   /\ unpacked' = unpacked + kept' - 1
          <5>1. kept' - 1 \in 0 .. MaxKept /\ kept' \in 0 .. MaxKept
            BY <4>2 DEF MaxKept
          <5> QED BY <4>2, <5>1 DEF MaxKept
        <4> QED BY <2>7, <4>1, <4>2 DEF OnRead
      <3>2. unpacked' \in Nat /\ kept' \in 0 .. MaxKept
        BY <3>1 DEF MaxKept
      <3>3. recvs' \in 0 .. MaxRecvs
        BY <2>7, BoundAssumption DEF OnRead
      <3> QED BY <2>7, <1>a, <3>2, <3>3 DEF OnRead
    <2>8. CASE Publish
      BY <2>8, <1>a DEF Publish
    <2>9. CASE Emit
      BY <2>9, <1>a DEF Emit
    <2>10. CASE OnTrigger
      BY <2>10, <1>a DEF OnTrigger
    <2>11. CASE OnWrite
      BY <2>11, <1>a DEF OnWrite
    <2>12. CASE ExecuteCmd
      BY <2>12, <1>a DEF ExecuteCmd
    <2>13. CASE SelectEnd
      BY <2>13, <1>a DEF SelectEnd
    <2>14. CASE SetClosedAgain
      BY <2>14, <1>a DEF SetClosedAgain
    <2> QED BY <1>1, <2>1, <2>2, <2>3, <2>4, <2>5, <2>6, <2>7, <2>8, <2>9, <2>10, <2>11, <2>12, <2>13, <2>14 DEF ConnectorThread
  <1>2. CASE LogicThread
    <2>1. CASE FindAlive("pass", "check") \/ FindAlive("check", "ctx")
      BY <2>1, <1>a DEF FindAlive
    <2>2. CASE GetCtx
      BY <2>2, <1>a DEF GetCtx
    <2>3. CASE TakeSignal
      <3>1. CASE Fail("freed")
        BY <3>1
      <3>2. CASE signal' = FALSE /\ Goto("logic", "copy") /\ ~Fail("freed")
        BY <2>3, <3>2, <1>a DEF TakeSignal
      <3>3. CASE signal' = FALSE /\ Goto("logic", "sweep") /\ ~Fail("freed")
        BY <2>3, <3>3, <1>a DEF TakeSignal
      <3> QED BY <2>3, <3>1, <3>2, <3>3 DEF TakeSignal
    <2>4. CASE CopyPackets
      BY <2>4, <1>a DEF CopyPackets
    <2>5. CASE Handle
      BY <2>5, <1>a DEF Handle
    <2>6. CASE Sweep
      BY <2>6, <1>a DEF Sweep
    <2>7. CASE UseErased
      BY <2>7, <1>a DEF UseErased
    <2> QED BY <1>2, <2>1, <2>2, <2>3, <2>4, <2>5, <2>6, <2>7 DEF LogicThread
  <1>3. ASSUME NEW th \in Threads, Shared(th)
        PROVE  TypeOK' /\ PcInv'
    <2>1. CASE CloseBegin(th)
      <3>1. CASE Fail("freed")
        BY <3>1
      <3>2. CASE /\ status' = "CLOSED"
                 /\ closing' = [closing EXCEPT ![th] = 1]
                 /\ UNCHANGED <<ptr, heap, deleted, pooled, tries, pc, sendVars, recvVars, beats, failed>>
        <4>1. closing' \in [Threads -> Positions]
          <5>1. 1 \in Positions
            BY PartsFacts
          <5> QED BY <3>2, <5>1, ExceptType
        <4> QED BY <3>2, <4>1
      <3> QED BY <2>1, <3>1, <3>2 DEF CloseBegin
    <2>2. CASE CloseFree(th)
      <3> DEFINE i == closing[th]
                 p == Parts[(i + 1) \div 2]
      <3>1. i \in 1 .. 10 /\ i % 2 = 1
        BY <2>2, <1>a, PartsFacts DEF CloseFree
      <3>2. CASE Fail("freed") \/ Fail("order")
        BY <3>2
      <3>3. CASE /\ heap' = IF ptr[p] THEN [heap EXCEPT ![p] = "freed"] ELSE heap
                 /\ closing' = [closing EXCEPT ![th] = IF ptr[p] THEN i + 1 ELSE i + 2]
                 /\ UNCHANGED <<status, ptr, deleted, pooled, tries, pc, sendVars, recvVars, beats, failed>>
        <4>1. i + 1 \in 0 .. 11 /\ i + 2 \in 0 .. 11
          BY <3>1, OddPosition
        <4>2. closing' \in [Threads -> Positions]
          <5> HIDE DEF i, p
          <5> QED BY <3>3, <4>1, PartsFacts
        <4>3. heap' \in [PartNames -> {"none", "live", "freed"}]
          <5> HIDE DEF i, p
          <5> QED BY <3>3
        <4> QED BY <3>3, <4>2, <4>3
      <3> QED BY <2>2, <3>2, <3>3 DEF CloseFree
    <2>3. CASE CloseNull(th)
      <3> DEFINE i == closing[th]
                 p == Parts[i \div 2]
      <3>1. i \in 1 .. 10
        BY <2>3, <1>a, PartsFacts DEF CloseNull
      <3>2. CASE Fail("freed")
        BY <3>2
      <3>3. CASE /\ ptr' = [ptr EXCEPT ![p] = FALSE]
                 /\ closing' = [closing EXCEPT ![th] = i + 1]
                 /\ UNCHANGED <<status, heap, deleted, pooled, tries, pc, sendVars, recvVars, beats, failed>>
        <4>1. closing' \in [Threads -> Positions]
          <5> HIDE DEF i, p
          <5>1. i + 1 \in 0 .. 11
            BY <3>1
          <5> QED BY <3>3, <5>1, PartsFacts
        <4>2. ptr' \in [PartNames -> BOOLEAN]
          <5>1. ptr \in [PartNames -> BOOLEAN]
            OBVIOUS
          <5>2. ptr' = [ptr EXCEPT ![p] = FALSE]
            BY <3>3
          <5> HIDE DEF i, p, TypeOK, PcInv
          <5> QED BY <5>1, <5>2
        <4>3. UNCHANGED <<status, heap, deleted, pooled, tries, pc, sendVars, recvVars, beats, failed>>
          BY <3>3
        <4> HIDE DEF i, p
        <4> QED BY <4>1, <4>2, <4>3
      <3> QED BY <2>3, <3>2, <3>3 DEF CloseNull
    <2>4. CASE CloseEnd(th)
      BY <2>4, <1>a DEF CloseEnd
    <2>5. CASE Produce(th)
      BY <2>5, <1>a DEF Produce
    <2>6. CASE SendBegin(th)
      BY <2>6, <1>a DEF SendBegin
    <2>7. CASE SendPrepare(th)
      BY <2>7, <1>a DEF SendPrepare
    <2>8. CASE SendWrite(th)
      BY <2>8, <1>a DEF SendWrite
    <2>9. CASE SendActive(th)
      BY <2>9, <1>a DEF SendActive
    <2> QED BY <1>3, <2>1, <2>2, <2>3, <2>4, <2>5, <2>6, <2>7, <2>8, <2>9 DEF Shared
  <1> QED BY <1>1, <1>2, <1>3 DEF Next

\* The parts are live from SetAlive until the status is left, and nothing is
\* erased before the connector thread has ended.
LEMMA LifeStep ==
  ASSUME TypeOK, PcInv, LifeInv, Next
  PROVE  LifeInv'
  <1> USE DEF TypeOK, PcInv, LifeInv, Early, Ended, Complete, At, Goto, Fail, lifeVars, sendVars, recvVars, After, ConnectorPcs, LogicPcs
  <1>a. Threads = {"connector", "logic"} /\ "connector" # "logic"
    BY DEF Threads
  <1>1. CASE ConnectorThread
    <2>1. CASE ConnectFails
      BY <2>1, <1>a DEF ConnectFails
    <2>2. CASE ConnectSucceeds
      BY <2>2, <1>a DEF ConnectSucceeds
    <2>3. CASE SetAlive
      BY <2>3, <1>a DEF SetAlive
    <2>4. CASE GiveUp
      BY <2>4, <1>a DEF GiveUp
    <2>5. CASE MainLoop
      BY <2>5, <1>a DEF MainLoop
    <2>6. CASE EventsEnd
      BY <2>6, <1>a DEF EventsEnd
    <2>7. CASE OnRead
      BY <2>7, <1>a DEF OnRead
    <2>8. CASE Publish
      BY <2>8, <1>a DEF Publish
    <2>9. CASE Emit
      BY <2>9, <1>a DEF Emit
    <2>10. CASE OnTrigger
      BY <2>10, <1>a DEF OnTrigger
    <2>11. CASE OnWrite
      BY <2>11, <1>a DEF OnWrite
    <2>12. CASE ExecuteCmd
      BY <2>12, <1>a DEF ExecuteCmd
    <2>13. CASE SelectEnd
      BY <2>13, <1>a DEF SelectEnd
    <2>14. CASE SetClosedAgain
      BY <2>14, <1>a DEF SetClosedAgain
    <2> QED BY <1>1, <2>1, <2>2, <2>3, <2>4, <2>5, <2>6, <2>7, <2>8, <2>9, <2>10, <2>11, <2>12, <2>13, <2>14 DEF ConnectorThread
  <1>2. CASE LogicThread
    <2>1. CASE FindAlive("pass", "check") \/ FindAlive("check", "ctx")
      BY <2>1, <1>a DEF FindAlive
    <2>2. CASE GetCtx
      BY <2>2, <1>a DEF GetCtx
    <2>3. CASE TakeSignal
      BY <2>3, <1>a DEF TakeSignal
    <2>4. CASE CopyPackets
      BY <2>4, <1>a DEF CopyPackets
    <2>5. CASE Handle
      BY <2>5, <1>a DEF Handle
    <2>6. CASE Sweep
      BY <2>6, <1>a DEF Sweep
    <2>7. CASE UseErased
      BY <2>7, <1>a DEF UseErased
    <2> QED BY <1>2, <2>1, <2>2, <2>3, <2>4, <2>5, <2>6, <2>7 DEF LogicThread
  <1>3. ASSUME NEW th \in Threads, Shared(th)
        PROVE  LifeInv'
    <2>1. CASE CloseBegin(th)
      BY <2>1, <1>a DEF CloseBegin
    <2>2. CASE CloseFree(th)
      BY <2>2, <1>a DEF CloseFree
    <2>3. CASE CloseNull(th)
      BY <2>3, <1>a DEF CloseNull
    <2>4. CASE CloseEnd(th)
      BY <2>4, <1>a DEF CloseEnd
    <2>5. CASE Produce(th)
      BY <2>5, <1>a DEF Produce
    <2>6. CASE SendBegin(th)
      BY <2>6, <1>a DEF SendBegin
    <2>7. CASE SendPrepare(th)
      BY <2>7, <1>a DEF SendPrepare
    <2>8. CASE SendWrite(th)
      BY <2>8, <1>a DEF SendWrite
    <2>9. CASE SendActive(th)
      BY <2>9, <1>a DEF SendActive
    <2> QED BY <1>3, <2>1, <2>2, <2>3, <2>4, <2>5, <2>6, <2>7, <2>8, <2>9 DEF Shared
  <1> QED BY <1>1, <1>2, <1>3 DEF Next

\* A packet in the send queue keeps its command, and a command its wake-up,
\* across the steps of both threads.
LEMMA SendStep ==
  ASSUME TypeOK, PcInv, LifeInv, SendInv, Next
  PROVE  SendInv'
  <1> USE DEF TypeOK, PcInv, LifeInv, SendInv, Early, Ended, At, Goto, Fail, lifeVars, sendVars, recvVars, After, ConnectorPcs, LogicPcs
  <1>a. Threads = {"connector", "logic"} /\ "connector" # "logic"
    BY DEF Threads
  <1>1. CASE ConnectorThread
    <2>1. CASE ConnectFails
      BY <2>1, <1>a DEF ConnectFails
    <2>2. CASE ConnectSucceeds
      BY <2>2, <1>a DEF ConnectSucceeds
    <2>3. CASE SetAlive
      BY <2>3, <1>a DEF SetAlive
    <2>4. CASE GiveUp
      BY <2>4, <1>a DEF GiveUp
    <2>5. CASE MainLoop
      BY <2>5, <1>a DEF MainLoop
    <2>6. CASE EventsEnd
      BY <2>6, <1>a DEF EventsEnd
    <2>7. CASE OnRead
      BY <2>7, <1>a DEF OnRead
    <2>8. CASE Publish
      BY <2>8, <1>a DEF Publish
    <2>9. CASE Emit
      BY <2>9, <1>a DEF Emit
    <2>10. CASE OnTrigger
      BY <2>10, <1>a DEF OnTrigger
    <2>11. CASE OnWrite
      BY <2>11, <1>a DEF OnWrite
    <2>12. CASE ExecuteCmd
      BY <2>12, <1>a DEF ExecuteCmd
    <2>13. CASE SelectEnd
      BY <2>13, <1>a DEF SelectEnd
    <2>14. CASE SetClosedAgain
      BY <2>14, <1>a DEF SetClosedAgain
    <2> QED BY <1>1, <2>1, <2>2, <2>3, <2>4, <2>5, <2>6, <2>7, <2>8, <2>9, <2>10, <2>11, <2>12, <2>13, <2>14 DEF ConnectorThread
  <1>2. CASE LogicThread
    <2>1. CASE FindAlive("pass", "check") \/ FindAlive("check", "ctx")
      BY <2>1, <1>a DEF FindAlive
    <2>2. CASE GetCtx
      BY <2>2, <1>a DEF GetCtx
    <2>3. CASE TakeSignal
      BY <2>3, <1>a DEF TakeSignal
    <2>4. CASE CopyPackets
      BY <2>4, <1>a DEF CopyPackets
    <2>5. CASE Handle
      BY <2>5, <1>a DEF Handle
    <2>6. CASE Sweep
      BY <2>6, <1>a DEF Sweep
    <2>7. CASE UseErased
      BY <2>7, <1>a DEF UseErased
    <2> QED BY <1>2, <2>1, <2>2, <2>3, <2>4, <2>5, <2>6, <2>7 DEF LogicThread
  <1>3. ASSUME NEW th \in Threads, Shared(th)
        PROVE  SendInv'
    <2>1. CASE CloseBegin(th)
      BY <2>1, <1>a DEF CloseBegin
    <2>2. CASE CloseFree(th)
      BY <2>2, <1>a DEF CloseFree
    <2>3. CASE CloseNull(th)
      BY <2>3, <1>a DEF CloseNull
    <2>4. CASE CloseEnd(th)
      BY <2>4, <1>a DEF CloseEnd
    <2>5. CASE Produce(th)
      BY <2>5, <1>a DEF Produce
    <2>6. CASE SendBegin(th)
      BY <2>6, <1>a DEF SendBegin
    <2>7. CASE SendPrepare(th)
      BY <2>7, <1>a DEF SendPrepare
    <2>8. CASE SendWrite(th)
      BY <2>8, <1>a DEF SendWrite
    <2>9. CASE SendActive(th)
      BY <2>9, <1>a DEF SendActive
    <2> QED BY <1>3, <2>1, <2>2, <2>3, <2>4, <2>5, <2>6, <2>7, <2>8, <2>9 DEF Shared
  <1> QED BY <1>1, <1>2, <1>3 DEF Next

\* The connector's parts are made, used and freed in step with its status and
\* with where each thread is, through every failed attempt and both Closes.
THEOREM Invariance == Spec => []IInv
  <1>1. Init => IInv
    <2> SUFFICES ASSUME Init PROVE IInv
      OBVIOUS
    <2>1. TypeOK /\ PcInv
      <3>1. /\ ptr \in [PartNames -> BOOLEAN]
            /\ heap \in [PartNames -> {"none", "live", "freed"}]
        BY DEF Init
      <3>2. closing \in [Threads -> Positions]
        BY PartsFacts DEF Init
      <3>3. PcInv
        BY DEF Init, PcInv, ConnectorPcs, LogicPcs, Threads
      <3>4. tries \in 0 .. MaxTries /\ beats \in 0 .. MaxBeats /\ recvs \in 0 .. MaxRecvs
        BY TriesAssumption, BoundAssumption DEF Init
      <3>5. /\ prepare \in Nat /\ sendQueue \in Nat /\ pipe \in Nat
            /\ unpacked \in Nat /\ received \in Nat /\ handling \in Nat /\ kept \in 0 .. MaxKept
        BY DEF Init, MaxKept
      <3>6. /\ status \in Statuses /\ failed \in Failures
            /\ {deleted, pooled, active, signal} \subseteq BOOLEAN
        BY DEF Init, Statuses, Failures
      <3> QED BY <3>1, <3>2, <3>3, <3>4, <3>5, <3>6 DEF TypeOK, PcInv
    <2>2. LifeInv /\ SendInv
      BY DEF Init, LifeInv, SendInv, Early, Ended, Threads
    <2> QED BY <2>1, <2>2 DEF IInv
  <1>2. IInv /\ [Next]_vars => IInv'
    <2> SUFFICES ASSUME IInv, [Next]_vars PROVE IInv'
      OBVIOUS
    <2>1. CASE Next
      BY <2>1, TypeStep, LifeStep, SendStep DEF IInv
    <2>2. CASE UNCHANGED vars
      BY <2>2
      DEF vars, lifeVars, sendVars, recvVars, IInv, TypeOK, PcInv, LifeInv, SendInv, Early,
          Ended, Complete
    <2> QED BY <2>1, <2>2
  <1> QED BY <1>1, <1>2, PTL DEF Spec

\* The connector's fields stay in their ranges, whichever thread frees, fails
\* or retries, and the attempts to connect stop at MaxTries.
THEOREM TypeCorrect == Spec => []TypeOK
  <1>1. IInv => TypeOK
    BY DEF IInv
  <1> QED BY <1>1, Invariance, PTL

\* A thread that reads ALIVE finds every part made and none freed, the
\* connector in the pool and not deleted.
THEOREM AliveIsComplete == Spec => []AliveComplete
  <1>1. IInv => AliveComplete
    BY DEF IInv, LifeInv, AliveComplete, Complete, Early, Ended
  <1> QED BY <1>1, Invariance, PTL

\* No packet is left in the send queue of a connector that is alive without a
\* command for it and without someone who will read that command.
THEOREM SendsNotStuck == Spec => []SendNotStuck
  <1>1. IInv => SendNotStuck
    BY DEF IInv, SendInv, SendNotStuck
  <1> QED BY <1>1, Invariance, PTL
==============================================================================
