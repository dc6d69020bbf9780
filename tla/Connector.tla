------------------------------ MODULE Connector -----------------------------
(***************************************************************************)
(* A connector to another server: the object, its own main thread, and the *)
(* logic thread, which answers what the connector received, sends through  *)
(* it and deletes it once it is closed.  The pool holds the one connector  *)
(* that StartProxyConnector makes.                                         *)
(*                                                                         *)
(* m_iStatus and the pointers of the object are plain fields that both     *)
(* threads use: a step ends where the other thread may change the status,  *)
(* free a part or use the prepare queue.                                   *)
(***************************************************************************)
EXTENDS Integers, Sequences

CONSTANTS
  MaxTries,       \* 30: attempts to connect
  MaxBeats,       \* bound: heartbeats
  MaxRecvs        \* bound: messages received from the peer

ASSUME TriesAssumption == MaxTries \in Nat \ {0}
ASSUME BoundAssumption == MaxBeats \in Nat /\ MaxRecvs \in Nat

\* What Close frees, in its order.
Parts == <<"bufferEvt", "eventBase", "writeEvent", "clientCtx", "connectorCtx">>
PartNames == { Parts[i] : i \in DOMAIN Parts }
Positions == 0 .. (2 * Len(Parts) + 1)
Threads == {"connector", "logic"}

MaxKept == 2    \* bound: frames up to a refused one

Statuses == {"UNCONNECT", "ALIVE", "DEAD", "CLOSED"}
Failures == {"NONE", "ctx", "freed", "order", "race", "iterator"}
ConnectorPcs == {"connect", "setalive", "loop", "produce", "send", "prepare", "write",
                 "active", "events", "publish", "emit", "select", "close", "setclosed", "done"}
LogicPcs == {"pass", "check", "ctx", "signal", "copy", "handle", "produce", "send",
             "prepare", "write", "active", "sweep", "close", "erased"}

VARIABLES
  status,         \* m_iStatus
  ptr,            \* which pointers of the object are not NULL
  heap,           \* what became of the objects they point to
  deleted,        \* has the connector itself been deleted
  pooled,         \* is it in m_stConnectorPool
  tries,          \* attempts to connect so far
  pc,             \* program counters of the two threads
  closing,        \* where each thread is in Close
  prepare,        \* packets in m_stNetPacketSendPrepareQueue
  sendQueue,      \* packets in m_stNetPacketSendQueue
  pipe,           \* commands in the control pipe
  active,         \* is the write event active
  unpacked,       \* messages in m_stNetPacketRecvPrepareQueue
  kept,           \* frames in the buffer up to one that was refused, 0 if none was
  received,       \* messages in m_stNetPacketRecvQueue
  signal,         \* m_stSignalExec
  handling,       \* messages the logic thread has copied and not handled
  beats, recvs,   \* heartbeats and messages so far
  failed          \* what stopped the program, if anything did

lifeVars == <<status, ptr, heap, deleted, pooled, tries, closing>>
sendVars == <<prepare, sendQueue, pipe, active>>
recvVars == <<unpacked, kept, received, signal, handling, recvs>>
vars == <<lifeVars, pc, sendVars, recvVars, beats, failed>>

Goto(th, l) == pc' = [pc EXCEPT ![th] = l]
At(th, l) == failed = "NONE" /\ pc[th] = l
Fail(f) == failed' = f /\ UNCHANGED <<lifeVars, pc, sendVars, recvVars, beats>>

\* th uses a part through its pointer: NULL or freed memory stops the program.
Usable(p) == ~deleted /\ ptr[p] /\ heap[p] = "live"

-----------------------------------------------------------------------------
(* Close, which the connector thread runs at its end and the destructor    *)
(* runs in the logic thread                                                *)

\* SetClosed, before anything is freed.
CloseBegin(th) ==
  /\ At(th, "close") /\ closing[th] = 0
  /\ IF deleted THEN Fail("freed")
     ELSE /\ status' = "CLOSED"
          /\ closing' = [closing EXCEPT ![th] = 1]
          /\ UNCHANGED <<ptr, heap, deleted, pooled, tries, pc, sendVars, recvVars, beats, failed>>

\* What freeing p uses: event_free the base of the event, and the destructor
\* of the client context frees the bufferevent once more.
FreeUses(p) == CASE p = "writeEvent" -> {"eventBase"}
                 [] p = "clientCtx" -> {"bufferEvt"}
                 [] OTHER -> {}

\* A pointer that is not NULL is freed; it is set to NULL in the next step.
\* Freeing something that uses freed memory is undefined: it may go well.
CloseFree(th) ==
  LET i == closing[th]
      p == Parts[(i + 1) \div 2]
  IN /\ At(th, "close") /\ i \in 1 .. 2 * Len(Parts) /\ i % 2 = 1
     /\ IF deleted \/ (ptr[p] /\ heap[p] = "freed") THEN Fail("freed")
        ELSE \/ ptr[p] /\ (\E u \in FreeUses(p) : heap[u] = "freed") /\ Fail("order")
             \/ /\ heap' = IF ptr[p] THEN [heap EXCEPT ![p] = "freed"] ELSE heap
                /\ closing' = [closing EXCEPT ![th] = IF ptr[p] THEN i + 1 ELSE i + 2]
                /\ UNCHANGED <<status, ptr, deleted, pooled, tries, pc, sendVars, recvVars,
                               beats, failed>>

CloseNull(th) ==
  LET i == closing[th]
      p == Parts[i \div 2]
  IN /\ At(th, "close") /\ i \in 1 .. 2 * Len(Parts) /\ i % 2 = 0
     /\ IF deleted THEN Fail("freed")
        ELSE /\ ptr' = [ptr EXCEPT ![p] = FALSE]
             /\ closing' = [closing EXCEPT ![th] = i + 1]
             /\ UNCHANGED <<status, heap, deleted, pooled, tries, pc, sendVars, recvVars, beats, failed>>

\* Close returns: to ConnectorMainThread, or to the end of the destructor.
CloseEnd(th) ==
  /\ At(th, "close") /\ closing[th] = 2 * Len(Parts) + 1
  /\ deleted' = (deleted \/ th = "logic")
  /\ Goto(th, IF th = "logic" THEN "erased" ELSE "setclosed")
  /\ UNCHANGED <<status, ptr, heap, pooled, tries, closing, sendVars, recvVars, beats, failed>>

-----------------------------------------------------------------------------
(* Sending, by either thread: PacketProduceProtobufPacket, which takes no  *)
(* lock, and SendNetworkPackets                                            *)

After(th) == IF th = "logic" THEN "sweep" ELSE "events"

Other(th) == IF th = "logic" THEN "connector" ELSE "logic"

\* A thread is inside AddPacket on the prepare queue while its pc is
\* "produce".  If the other one uses the queue too, the vector is undefined.
Racing(th) == pc[Other(th)] = "produce"

\* AddPacket returns; a packet that raced may be lost.
Produce(th) ==
  /\ At(th, "produce")
  /\ IF ~Usable("connectorCtx") THEN Fail("freed")
     ELSE \/ Racing(th) /\ Fail("race")
          \/ /\ prepare' \in (IF Racing(th) THEN {prepare, prepare + 1} ELSE {prepare + 1})
             /\ Goto(th, IF th = "logic" THEN "handle" ELSE "send")
             /\ UNCHANGED <<lifeVars, sendQueue, pipe, active, recvVars, beats, failed>>

\* SendNetworkPackets: if(false == IsAlive()) return;
SendBegin(th) ==
  /\ At(th, "send")
  /\ Goto(th, IF status = "ALIVE" THEN "prepare" ELSE After(th))
  /\ UNCHANGED <<lifeVars, sendVars, recvVars, beats, failed>>

\* Ctx.PacketSendPrepare(), under the lock of the send queue.
SendPrepare(th) ==
  /\ At(th, "prepare")
  /\ IF heap["connectorCtx"] # "live" THEN Fail("freed")
     ELSE \/ Racing(th) /\ Fail("race")
          \/ /\ sendQueue' = sendQueue + prepare /\ prepare' = 0
             /\ Goto(th, "write")
             /\ UNCHANGED <<lifeVars, pipe, active, recvVars, beats, failed>>

\* The command loop: IsAlive once more, then write.
SendWrite(th) ==
  /\ At(th, "write")
  /\ IF deleted THEN Fail("freed")
     ELSE /\ pipe' = IF status = "ALIVE" THEN pipe + 1 ELSE pipe
          /\ Goto(th, IF status = "ALIVE" THEN "active" ELSE After(th))
          /\ UNCHANGED <<lifeVars, prepare, sendQueue, active, recvVars, beats, failed>>

\* Fault: the write event is not made active.
SendActiveLost(th) ==
  /\ At(th, "active")
  /\ Goto(th, After(th))
  /\ UNCHANGED <<lifeVars, sendVars, recvVars, beats, failed>>

\* event_active(m_pstWriteEvent)
SendActive(th) ==
  /\ At(th, "active")
  /\ IF ~Usable("writeEvent") THEN Fail("freed")
     ELSE /\ active' = TRUE
          /\ Goto(th, After(th))
          /\ UNCHANGED <<lifeVars, prepare, sendQueue, pipe, recvVars, beats, failed>>


-----------------------------------------------------------------------------
(* Connector thread: ConnectorMainThread                                   *)

\* Fault: no end to the attempts.
ConnectFailsForever ==
  /\ At("connector", "connect")
  /\ tries' = tries + 1
  /\ ptr' = [ptr EXCEPT !["writeEvent"] = TRUE]
  /\ heap' = [heap EXCEPT !["writeEvent"] = "live"]
  /\ status' = "DEAD"
  /\ UNCHANGED <<deleted, pooled, closing, pc, sendVars, recvVars, beats, failed>>

\* Connect fails: the write event was made, the status is DEAD for now.
ConnectFails ==
  /\ At("connector", "connect") /\ tries < MaxTries
  /\ tries' = tries + 1
  /\ ptr' = [ptr EXCEPT !["writeEvent"] = TRUE]
  /\ heap' = [heap EXCEPT !["writeEvent"] = "live"]
  /\ status' = "DEAD"
  /\ UNCHANGED <<deleted, pooled, closing, pc, sendVars, recvVars, beats, failed>>

\* Fault: SetAlive before the contexts are made.
ConnectSucceedsEarly ==
  /\ At("connector", "connect") /\ tries < MaxTries
  /\ tries' = tries + 1
  /\ ptr' = [ptr EXCEPT !["writeEvent"] = TRUE]
  /\ heap' = [heap EXCEPT !["writeEvent"] = "live"]
  /\ status' = "ALIVE"
  /\ Goto("connector", "setalive")
  /\ UNCHANGED <<deleted, pooled, closing, sendVars, recvVars, beats, failed>>

\* Connect succeeds: the write event and the two contexts are made.
ConnectSucceeds ==
  /\ At("connector", "connect") /\ tries < MaxTries
  /\ tries' = tries + 1
  /\ ptr' = [p \in PartNames |-> TRUE]
  /\ heap' = [p \in PartNames |-> "live"]
  /\ Goto("connector", "setalive")
  /\ UNCHANGED <<status, deleted, pooled, closing, sendVars, recvVars, beats, failed>>

SetAlive ==
  /\ At("connector", "setalive")
  /\ status' = "ALIVE"
  /\ Goto("connector", "loop")
  /\ UNCHANGED <<ptr, heap, deleted, pooled, tries, closing, sendVars, recvVars, beats, failed>>

\* All attempts have failed.
GiveUp ==
  /\ At("connector", "connect") /\ tries = MaxTries
  /\ Goto("connector", "loop")
  /\ UNCHANGED <<lifeVars, sendVars, recvVars, beats, failed>>

\* StartMainLoop: one round, with or without a heartbeat, or the way out.
MainLoop ==
  /\ At("connector", "loop")
  /\ IF status # "ALIVE" THEN Goto("connector", "close") /\ UNCHANGED beats
     ELSE \/ Goto("connector", "events") /\ UNCHANGED beats
          \/ /\ beats < MaxBeats /\ beats' = beats + 1
             /\ Goto("connector", "produce")
  /\ UNCHANGED <<lifeVars, sendVars, recvVars, failed>>

\* event_base_loop returns.
EventsEnd ==
  /\ At("connector", "events")
  /\ Goto("connector", "loop")
  /\ UNCHANGED <<lifeVars, sendVars, recvVars, beats, failed>>

\* _OnConnectorBufferEventRead: a message is unpacked.  A frame of a bad size
\* ends the callback before the buffer is moved on: the connector stays alive,
\* every later read unpacks what is before that frame once more, and nothing is
\* published again.
OnRead ==
  /\ At("connector", "events") /\ recvs < MaxRecvs
  /\ recvs' = recvs + 1
  /\ \/ /\ kept = 0 /\ unpacked' = unpacked + 1
        /\ Goto("connector", "publish") /\ UNCHANGED kept
     \/ /\ kept' \in IF kept = 0 THEN 1 .. MaxKept ELSE {kept}
        /\ unpacked' = unpacked + kept' - 1 /\ UNCHANGED pc
  /\ UNCHANGED <<lifeVars, sendVars, received, signal, handling, beats, failed>>

\* PacketRecvPrepare, under the lock of the receive queue.
Publish ==
  /\ At("connector", "publish")
  /\ received' = received + unpacked /\ unpacked' = 0
  /\ Goto("connector", "emit")
  /\ UNCHANGED <<lifeVars, sendVars, kept, signal, handling, recvs, beats, failed>>

\* m_stSignalExec.Emit()
Emit ==
  /\ At("connector", "emit")
  /\ signal' = TRUE
  /\ Goto("connector", "events")
  /\ UNCHANGED <<lifeVars, sendVars, unpacked, kept, received, handling, recvs, beats, failed>>

\* _OnConnectorBufferEventTrigger: timeout, end of file or error.
OnTrigger ==
  /\ At("connector", "events")
  /\ status' = "DEAD"
  /\ UNCHANGED <<ptr, heap, deleted, pooled, tries, closing, pc, sendVars, recvVars, beats, failed>>

\* _OnConnectorBufferEventWrite: ProcessSendNetworkPackets, if still alive.
OnWrite ==
  /\ At("connector", "events") /\ active
  /\ active' = FALSE
  /\ Goto("connector", IF status = "ALIVE" THEN "select" ELSE "events")
  /\ UNCHANGED <<lifeVars, prepare, sendQueue, pipe, recvVars, beats, failed>>

\* A command was read: ExecuteCmdSendAllPacket writes the send queue out.
ExecuteCmd ==
  /\ At("connector", "select") /\ pipe > 0
  /\ pipe' = pipe - 1 /\ sendQueue' = 0
  /\ UNCHANGED <<lifeVars, pc, prepare, active, recvVars, beats, failed>>

\* Fault: the loop is left with commands in the pipe.
SelectEndEarly ==
  /\ At("connector", "select")
  /\ Goto("connector", "events")
  /\ UNCHANGED <<lifeVars, sendVars, recvVars, beats, failed>>

\* select times out, or select or read fails.
SelectEnd ==
  /\ At("connector", "select")
  /\ \/ pipe = 0 /\ UNCHANGED status
     \/ status' = "DEAD"
  /\ Goto("connector", "events")
  /\ UNCHANGED <<ptr, heap, deleted, pooled, tries, closing, sendVars, recvVars, beats, failed>>

\* SetClosed after Close.
SetClosedAgain ==
  /\ At("connector", "setclosed")
  /\ IF deleted THEN Fail("freed")
     ELSE /\ status' = "CLOSED"
          /\ Goto("connector", "done")
          /\ UNCHANGED <<ptr, heap, deleted, pooled, tries, closing, sendVars, recvVars, beats, failed>>

ConnectorThread ==
  \/ ConnectFails \/ ConnectSucceeds \/ SetAlive \/ GiveUp \/ MainLoop
  \/ EventsEnd \/ OnRead \/ Publish \/ Emit \/ OnTrigger \/ OnWrite \/ ExecuteCmd \/ SelectEnd
  \/ SetClosedAgain

-----------------------------------------------------------------------------
(* Logic thread: the connector part of _ProcessSSNetworkPacket             *)

\* ProcessAliveConnectors, and IsAlive for what it returned.
FindAlive(from, to) ==
  /\ At("logic", from)
  /\ Goto("logic", IF pooled /\ status = "ALIVE" THEN to ELSE "sweep")
  /\ UNCHANGED <<lifeVars, sendVars, recvVars, beats, failed>>

\* ConnectorCtx(): assert(m_pstConnectorCtx).
GetCtx ==
  /\ At("logic", "ctx")
  /\ IF ~ptr["connectorCtx"] THEN Fail("ctx")
     ELSE /\ Goto("logic", "signal")
          /\ UNCHANGED <<lifeVars, sendVars, recvVars, beats, failed>>

\* CheckAndSetSignalActived: the signal is cleared before the queue is copied.
TakeSignal ==
  /\ At("logic", "signal")
  /\ IF heap["connectorCtx"] # "live" THEN Fail("freed")
     ELSE /\ signal' = FALSE
          /\ Goto("logic", IF signal THEN "copy" ELSE "sweep")
          /\ UNCHANGED <<lifeVars, sendVars, unpacked, kept, received, handling, recvs, beats, failed>>

\* CopyPacketsFromNetToLogic, under the lock of the receive queue.
CopyPackets ==
  /\ At("logic", "copy")
  /\ IF heap["connectorCtx"] # "live" THEN Fail("freed")
     ELSE /\ handling' = received /\ received' = 0
          /\ Goto("logic", "handle")
          /\ UNCHANGED <<lifeVars, sendVars, unpacked, kept, signal, recvs, beats, failed>>

\* HandleSSProto for one message: a hello is answered, a response is not; both
\* ask the client context for its address.  Anything else is ignored.
\* After the last message SendNetworkPackets is called.
Handle ==
  /\ At("logic", "handle")
  /\ IF heap["connectorCtx"] # "live" THEN Fail("freed")
     ELSE \/ handling > 0 /\ heap["clientCtx"] # "live" /\ Fail("freed")
          \/ /\ \/ handling = 0 /\ Goto("logic", "send") /\ UNCHANGED handling
                \/ /\ handling > 0 /\ handling' = handling - 1
                   /\ (heap["clientCtx"] = "live" /\ Goto("logic", "produce")) \/ UNCHANGED pc
             /\ UNCHANGED <<lifeVars, sendVars, unpacked, kept, received, signal, recvs, beats, failed>>

\* Fault: dead connectors are looked for, not closed ones.
SweepDead ==
  LET dead == pooled /\ status = "DEAD"
  IN /\ At("logic", "sweep")
     /\ pooled' = (pooled /\ ~dead)
     /\ Goto("logic", IF dead THEN "close" ELSE "pass")
     /\ UNCHANGED <<status, ptr, heap, deleted, tries, closing, sendVars, recvVars, beats, failed>>

\* ProcessClosedConnectors: a closed connector is erased and deleted.
Sweep ==
  LET closed == pooled /\ status = "CLOSED"
  IN /\ At("logic", "sweep")
     /\ pooled' = (pooled /\ ~closed)
     /\ Goto("logic", IF closed THEN "close" ELSE "pass")
     /\ UNCHANGED <<status, ptr, heap, deleted, tries, closing, sendVars, recvVars, beats, failed>>

\* The loop goes on with the iterator that was erased: undefined.
UseErased ==
  /\ At("logic", "erased")
  /\ \/ Fail("iterator")
     \/ Goto("logic", "pass") /\ UNCHANGED <<lifeVars, sendVars, recvVars, beats, failed>>

LogicThread ==
  \/ FindAlive("pass", "check") \/ FindAlive("check", "ctx") \/ GetCtx \/ TakeSignal
  \/ CopyPackets \/ Handle \/ Sweep \/ UseErased

Shared(th) ==
  \/ CloseBegin(th) \/ CloseFree(th) \/ CloseNull(th) \/ CloseEnd(th)
  \/ Produce(th) \/ SendBegin(th) \/ SendPrepare(th) \/ SendWrite(th) \/ SendActive(th)

\* NewConnector has created the socket, the event base and the bufferevent;
\* StartMainThread has been called.
Init ==
  /\ status = "UNCONNECT"
  /\ ptr = [p \in PartNames |-> p \in {"bufferEvt", "eventBase"}]
  /\ heap = [p \in PartNames |-> IF p \in {"bufferEvt", "eventBase"} THEN "live" ELSE "none"]
  /\ deleted = FALSE /\ pooled = TRUE /\ tries = 0
  /\ pc = [th \in Threads |-> IF th = "logic" THEN "pass" ELSE "connect"]
  /\ closing = [th \in Threads |-> 0]
  /\ prepare = 0 /\ sendQueue = 0 /\ pipe = 0 /\ active = FALSE
  /\ unpacked = 0 /\ kept = 0 /\ received = 0 /\ signal = FALSE /\ handling = 0 /\ recvs = 0
  /\ beats = 0 /\ failed = "NONE"

Next == ConnectorThread \/ LogicThread \/ \E th \in Threads : Shared(th)

Spec == Init /\ [][Next]_vars

\* Both threads run, and event_base_loop runs the write event when active.
FairSpec ==
  /\ Spec
  /\ WF_vars(ConnectorThread \/ Shared("connector"))
  /\ WF_vars(LogicThread \/ Shared("logic"))
  /\ SF_vars(OnWrite) /\ SF_vars(ExecuteCmd)

-----------------------------------------------------------------------------
(* Properties                                                              *)

\* Every field has a value the code can give it; the attempts to connect stop
\* at their limit.
TypeOK ==
  /\ status \in Statuses
  /\ ptr \in [PartNames -> BOOLEAN]
  /\ heap \in [PartNames -> {"none", "live", "freed"}]
  /\ deleted \in BOOLEAN /\ pooled \in BOOLEAN /\ tries \in 0 .. MaxTries
  /\ pc["connector"] \in ConnectorPcs /\ pc["logic"] \in LogicPcs
  /\ closing \in [Threads -> Positions]
  /\ prepare \in Nat /\ sendQueue \in Nat /\ pipe \in Nat
  /\ unpacked \in Nat /\ received \in Nat /\ handling \in Nat
  /\ kept \in 0 .. MaxKept
  /\ active \in BOOLEAN /\ signal \in BOOLEAN
  /\ beats \in 0 .. MaxBeats /\ recvs \in 0 .. MaxRecvs
  /\ failed \in Failures

\* A connector whose status is ALIVE has everything that a thread which just
\* read the status goes on to use: the contexts are made before SetAlive, and
\* nothing is freed or erased before the status was left.
AliveComplete ==
  status = "ALIVE" =>
    pooled /\ ~deleted /\ \A p \in PartNames : ptr[p] /\ heap[p] = "live"

\* While the connector is alive, packets in the send queue are on their way:
\* when no thread is inside SendNetworkPackets there is a command for them in
\* the pipe, and the connector thread is reading commands or will be called.
SendNotStuck ==
  /\ failed = "NONE" /\ status = "ALIVE" /\ sendQueue > 0
  /\ \A th \in Threads : pc[th] \notin {"write", "active"}
  => pipe > 0 /\ (active \/ pc["connector"] = "select")

\* A connector that died is erased from the pool, unless it connects after
\* all or the program stops.
DeadRetired ==
  (status = "DEAD") ~> (status = "ALIVE" \/ ~pooled \/ failed # "NONE")

\* Packets in the send queue are written out while the connector is alive.
SendQueueDrains ==
  (sendQueue > 0) ~> (sendQueue = 0 \/ status # "ALIVE" \/ failed # "NONE")

\* assert(m_pstConnectorCtx) in ConnectorCtx(): the logic thread, which has
\* seen the connector alive, finds its context.
CtxFound == failed # "ctx"
=============================================================================
