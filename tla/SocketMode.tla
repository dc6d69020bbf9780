----------------------------- MODULE SocketMode -----------------------------
(***************************************************************************)
(* The game server on top of the epoll socket server: SocketServer         *)
(* composed with the code that handles its messages.  The poll thread      *)
(* calls socket_server_poll, and what it returns is handled before the     *)
(* next call: connections enter and leave the client pool, data becomes    *)
(* packets.  The command thread sends the answers, through the client that *)
(* it finds by the packet's sequence number.                               *)
(*                                                                         *)
(* The queues between the poll thread, the logic thread and the command    *)
(* thread are those of PacketPipeline; here they are one queue.            *)
(***************************************************************************)
EXTENDS SocketServer

CONSTANT MaxPackets       \* bound: packets that clients send

ASSUME PacketAssumption == MaxPackets \in Nat

VARIABLES
  todo,           \* the message that _ProcessOneLoop is about to handle
  pool,           \* m_stClientPool: ids of the clients that are in it
  refused,        \* history: clients dropped for a bad frame
  asked,          \* packets on their way through the logic to the command thread
  heard           \* packets unpacked so far

modeVars == <<todo, pool, refused, asked, heard>>

-----------------------------------------------------------------------------
(* Poll thread                                                             *)

\* A step of socket_server_poll; a message ends the call.
Poll ==
  /\ todo = NoMsg
  /\ PollThread /\ pollPc # "start"
  /\ todo' = IF pollPc' \in {"loop", "start"} /\ failed' = "NONE" THEN msg' ELSE NoMsg
  /\ UNCHANGED <<pool, refused, asked, heard>>

\* The second half of SOCKET_ACCEPT: socket_server_start.
StartClient == todo = NoMsg /\ StartAccepted /\ UNCHANGED modeVars

Handle(types) == /\ todo.type \in types
                 /\ todo' = NoMsg
                 /\ UNCHANGED vars

\* _ProcessNewClient
NewClient ==
  /\ Handle({"ACCEPT"})
  /\ pool' = pool \cup {todo.id}
  /\ UNCHANGED <<refused, asked, heard>>

\* Fault: the client is looked for by the slot of its id.
RemoveClientBySlot(id) == { i \in pool : HASH_ID(i) # HASH_ID(id) }

\* _ProcessCloseClient: GetClientByFd and RemoveClient.
RemoveClient(id) == pool \ {id}

CloseClient ==
  /\ Handle({"CLOSE", "ERROR"})
  /\ pool' = RemoveClient(todo.id)
  /\ UNCHANGED <<refused, asked, heard>>

\* m_stContextBuffer.m_ulClientSeq, which no constructor of this mode sets,
\* and m_ulClientUniqSeq, which the pool goes by.
BufferSeq(id) == Nil
UniqSeq(id) == id

\* _ProcessMessageData: k packets are unpacked, and the frame after them may
\* be refused.  Data of a client that is not in the pool is thrown away.
MessageData ==
  /\ Handle({"DATA"})
  /\ \E k \in 0 .. (IF todo.id \in pool THEN MaxPackets - heard ELSE 0) :
     \E bad \in (IF todo.id \in pool THEN BOOLEAN ELSE {FALSE}) :
       /\ asked' = asked \o [i \in 1 .. k |-> [seq |-> BufferSeq(todo.id), fd |-> todo.id]]
       /\ heard' = heard + k
       /\ pool' = IF bad THEN RemoveClient(todo.id) ELSE pool
       /\ refused' = IF bad THEN refused \cup {todo.id} ELSE refused

\* SOCKET_OPEN is logged; SOCKET_UDP is passed over, and its data not freed.
SocketOpen == Handle({"OPEN", "UDP"}) /\ UNCHANGED <<pool, refused, asked, heard>>

-----------------------------------------------------------------------------
(* Command thread                                                          *)

GetClient(seq) == { id \in pool : UniqSeq(id) = seq }

\* ExecuteCmdSendAllPacket: the answer is dropped unless its client is found.
SendAnswer(u) ==
  /\ Call(u, "idle") /\ asked # <<>>
  /\ asked' = Tail(asked)
  /\ LET p == Head(asked)
     IN user' = IF GetClient(p.seq) # {} /\ ~Stale(slot[HASH_ID(p.fd)], p.fd)
                THEN [user EXCEPT ![u] = [Idle EXCEPT !.pc = "request",
                        !.req = [op |-> "D", id |-> p.fd, pkt |-> Nil, fits |-> TRUE]]]
                ELSE user
  /\ UNCHANGED <<alloc_id, slot, ctrl, known, used, todo, pool, refused, heard>>

-----------------------------------------------------------------------------
ModeInit ==
  /\ Init
  /\ todo = NoMsg /\ pool = {} /\ refused = {} /\ asked = <<>> /\ heard = 0

\* SocketServer::Init listens; the other calls are those that the interface
\* offers to any thread.
ModeNext ==
  \/ Poll \/ StartClient \/ NewClient \/ CloseClient \/ MessageData \/ SocketOpen
  \/ \E u \in Users : SendAnswer(u) \/ (Caller(u) /\ UNCHANGED modeVars)

ModeSpec == ModeInit /\ [][ModeNext]_<<vars, modeVars>>

-----------------------------------------------------------------------------
(* Properties                                                              *)

\* The slot of id is a connection.
Connection(id) ==
  LET s == slot[HASH_ID(id)]
  IN s.id = id /\ s.type \in {"PACCEPT", "CONNECTED", "HALFCLOSE"}

\* Whenever _ProcessOneLoop is about to poll again, the clients in the pool are
\* the accepted connections, without those dropped for a bad frame: every way
\* in which the socket server closes a connection is told to the pool, and a
\* late message about an old id does not reach the client that has its slot.
PoolMatchesSlots ==
  todo = NoMsg /\ pollPc # "clear" /\ failed = "NONE" =>
    pool = { id \in Ids : Connection(id) } \ refused
=============================================================================
