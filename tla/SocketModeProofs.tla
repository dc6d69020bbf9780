-------------------------- MODULE SocketModeProofs --------------------------
(***************************************************************************)
(* Theorems about SocketMode: it implements SocketServer, so that whatever *)
(* is proved of the socket server holds under the game server; no answer   *)
(* reaches the socket server, because the packets do not carry the number  *)
(* that the pool goes by; and, for a program that opens one socket, the    *)
(* one it listens on, the client pool follows the table of slots.          *)
(***************************************************************************)
EXTENDS SocketMode, SocketServerProofs

-----------------------------------------------------------------------------
(* Types, and the socket server inside                                     *)

Packet == [seq : {Nil}, fd : Ids \cup {Nil}]
Gone == {"CLOSE", "ERROR"}

\* A handler that has events cleared said that a socket is gone.
MsgInv == failed = "NONE" /\ pollPc = "clear" => msg.type \in Gone

ModeType ==
  /\ todo \in [type : MsgTypes, id : Ids \cup {Nil}]
  /\ todo.type = "ACCEPT" => todo.id \in Ids
  /\ todo # NoMsg => pollPc \in {"loop", "start"}
  /\ pool \subseteq Ids /\ refused \subseteq Ids
  /\ asked \in Seq(Packet) /\ heard \in Nat

ModeBase == TypeInv /\ MsgInv /\ ModeType

\* What socket_server_poll says at the end of a step.
LEMMA Said ==
  ASSUME TypeInv, PollThread, pollPc # "start", failed' = "NONE"
  PROVE  \/ pollPc' = "event" /\ pollPc # "clear"
         \/ pollPc' = "clear" /\ msg'.type \in Gone
         \/ pollPc' = "start" /\ msg'.type = "ACCEPT"
         \/ pollPc' = "loop" /\ msg'.type \notin {"ACCEPT", "CLOSE", "ERROR"}
         \/ pollPc' = "loop" /\ ReportConnect
         \/ ClearClosedEvent
  <1> DEFINE P == \/ pollPc' = "event" /\ pollPc # "clear"
                  \/ pollPc' = "clear" /\ msg'.type \in Gone
                  \/ pollPc' = "start" /\ msg'.type = "ACCEPT"
                  \/ pollPc' = "loop" /\ msg'.type \notin {"ACCEPT", "CLOSE", "ERROR"}
                  \/ pollPc' = "loop" /\ ReportConnect
                  \/ ClearClosedEvent
  <1>1. Continue => P
    BY DEF Continue, NoMsg
  <1>2. /\ pollPc' = "clear" /\ msg'.type \in {"CLOSE", "ERROR"} => P
        /\ pollPc' = "loop" /\ msg'.type \in {"OPEN", "DATA", "UDP"} => P
        /\ pollPc' = "start" /\ msg'.type = "ACCEPT" => P
    BY DEF Gone
  <1>3. \A a : Abort(a) => a = "NONE"
    BY DEF Abort
  <1> SUFFICES P
    OBVIOUS
  <1> HIDE DEF P
  <1>4. ASSUME NEW t \in Gone, NEW n, NEW out, NEW id, CloseSlot(n, out, t, id, "clear")
        PROVE  P
    <2>1. Abort("reserve") \/ Return(t, id, "clear")
      BY <1>4 DEF CloseSlot
    <2> QED BY <1>2, <1>3, <2>1 DEF Return, Gone
  <1>5. "CLOSE" \in Gone /\ "ERROR" \in Gone
    BY DEF Gone
  <1>6. ASSUME NEW n, WriteFails(n)
        PROVE  P
    <2>1. PICK out, id : CloseSlot(n, out, "CLOSE", id, "clear")
      BY <1>6 DEF WriteFails
    <2> QED BY <1>4, <1>5, <2>1
  <1> DEFINE id == Head(ctrl).id
  <1>7. CASE StartSocket
    <2>1. \/ Return("ERROR", id, "clear") \/ Discard(id, {}) \/ Return("OPEN", id, "loop") \/ Continue
      BY <1>7 DEF StartSocket
    <2> QED BY <1>1, <1>2, <2>1 DEF Return, Discard
  <1>8. CASE ListenSocket
    <2>1. Continue \/ \E a : Abort(a) /\ a # "NONE"
      BY <1>8 DEF ListenSocket
    <2> QED BY <1>1, <1>3, <2>1
  <1>9. CASE OpenSocket \/ BindSocket
    <2>1. \/ Discard(id, {id}) \/ Discard(id, {}) \/ Continue \/ Return("OPEN", id, "loop")
          \/ \E a : Abort(a) /\ a # "NONE"
      BY <1>9 DEF OpenSocket, BindSocket
    <2> QED BY <1>1, <1>2, <1>3, <2>1 DEF Return, Discard
  <1>11. CASE AddUdpSocket \/ SkipEvent
    BY <1>1, <1>11 DEF AddUdpSocket, SkipEvent
  <1>12. CASE SetUdpAddress
    <2>1. Continue \/ Return("ERROR", id, "clear")
      BY <1>12 DEF SetUdpAddress
    <2> QED BY <1>1, <1>2, <2>1 DEF Return
  <1>13. CASE CloseSocket
    <2>1. PICK n, i : n = HASH_ID(id) /\ i = id
      OBVIOUS
    <2>2. \/ Continue \/ Return("CLOSE", id, "clear") \/ Abort("uncomplete") \/ WriteFails(n)
          \/ CloseSlot(n, Queued(slot[n]), "CLOSE", i, "clear")
      BY <1>13, <2>1, Zenon DEF CloseSocket
    <2>3. CASE CloseSlot(n, Queued(slot[n]), "CLOSE", i, "clear")
      <3>1. PICK out : out = Queued(slot[n])
        OBVIOUS
      <3>2. CloseSlot(n, out, "CLOSE", i, "clear")
        BY <2>3, <3>1, Zenon
      <3> QED BY <1>4, <1>5, <3>2
    <2> QED BY <1>1, <1>2, <1>3, <1>6, <2>2, <2>3 DEF Return
  <1>14. CASE SendSocket
    <2>1. PICK n, i : n = HASH_ID(id) /\ i = slot[n].id
      OBVIOUS
    <2>2. Continue \/ Abort("listen") \/ CloseSlot(n, <<>>, "CLOSE", i, "clear")
      BY <1>14, <2>1, SendSocketIs, Zenon
    <2> QED BY <1>1, <1>3, <1>4, <1>5, <2>2
  <1>15. CASE NoCmd \/ Wait
    BY <1>15 DEF NoCmd, Wait, P
  <1>16. CASE ReportConnect
    <2>1. PICK n, i : n = Head(ev).s /\ i = slot[n].id
      OBVIOUS
    <2>2. CloseSlot(n, <<>>, "ERROR", i, "loop") \/ Return("OPEN", i, "loop")
      BY <1>16, <2>1, Zenon DEF ReportConnect
    <2>3. CASE CloseSlot(n, <<>>, "ERROR", i, "loop")
      <3>1. Abort("reserve") \/ Return("ERROR", i, "loop")
        BY <2>3 DEF CloseSlot
      <3> QED BY <1>3, <1>16, <3>1 DEF Return, P
    <2> QED BY <1>2, <2>2, <2>3 DEF Return
  <1>17. CASE ReportAccept
    <2>1. Continue \/ (\E i \in Ids : Return("ACCEPT", i, "start")) \/ failed' = "wb_list"
      BY <1>17 DEF ReportAccept
    <2> QED BY <1>1, <1>2, <2>1 DEF Return
  <1>18. CASE ForwardMessage \/ ForwardMessageUdp
    <2>1. PICK n, i : n = Head(ev).s /\ i = slot[n].id
      OBVIOUS
    <2>2. \/ Continue
          \/ CloseSlot(n, <<>>, "CLOSE", i, "clear") \/ CloseSlot(n, <<>>, "ERROR", i, "clear")
          \/ Return("DATA", i, "loop") \/ Return("UDP", i, "loop")
      BY <1>18, <2>1, Zenon DEF ForwardMessage, ForwardMessageUdp
    <2> QED BY <1>1, <1>2, <1>4, <1>5, <2>2 DEF Return
  <1>19. CASE SendBuffer
    <2>1. PICK n, i, out : n = Head(ev).s /\ i = slot[n].id /\ out = slot[n].high
      OBVIOUS
    <2>2. \/ Continue \/ Abort("uncomplete") \/ WriteFails(n)
          \/ CloseSlot(n, out, "CLOSE", i, "clear")
      BY <1>19, <2>1, Zenon DEF SendBuffer
    <2> QED BY <1>1, <1>3, <1>4, <1>5, <1>6, <2>2
  <1>20. CASE ClearClosedEvent
    BY <1>20 DEF P
  <1>21. ~StartAccepted
    BY DEF StartAccepted
  <1> QED
    BY <1>7, <1>8, <1>9, <1>11, <1>12, <1>13, <1>14, <1>15, <1>16, <1>17, <1>18, <1>19,
       <1>20, <1>21 DEF PollThread

\* A step of socket_server_poll keeps the types, and what it says is handled next.
LEMMA PollKeeps ==
  ASSUME ModeBase, Poll
  PROVE  ModeBase' /\ Next
  <1>1. /\ PollThread /\ todo = NoMsg /\ pollPc # "start"
        /\ todo' = IF pollPc' \in {"loop", "start"} /\ failed' = "NONE" THEN msg' ELSE NoMsg
        /\ UNCHANGED <<pool, refused, asked, heard>>
    BY DEF Poll
  <1>2. TypeInv /\ TypeInv'
    BY <1>1, PollType DEF ModeBase
  <1>3. ClearClosedEvent => pollPc = "clear" /\ pollPc' = "loop" /\ failed = "NONE" /\ UNCHANGED msg
    BY DEF ClearClosedEvent
  <1>4. ReportConnect /\ pollPc' = "loop" /\ failed' = "NONE" => msg'.type # "ACCEPT"
    <2> SUFFICES ASSUME ReportConnect, pollPc' = "loop", failed' = "NONE" PROVE msg'.type # "ACCEPT"
      OBVIOUS
    <2>1. PICK n, i : n = Head(ev).s /\ i = slot[n].id
      OBVIOUS
    <2>2. CloseSlot(n, <<>>, "ERROR", i, "loop") \/ Return("OPEN", i, "loop")
      BY <2>1, Zenon DEF ReportConnect
    <2>3. CloseSlot(n, <<>>, "ERROR", i, "loop") => Abort("reserve") \/ Return("ERROR", i, "loop")
      BY DEF CloseSlot
    <2> QED BY <2>2, <2>3 DEF Return, Abort
  <1>5. /\ failed' = "NONE" /\ pollPc' = "clear" => msg'.type \in Gone
        /\ failed' = "NONE" /\ pollPc' = "loop" => msg'.type # "ACCEPT"
    BY <1>1, <1>2, <1>3, <1>4, Said DEF ModeBase, MsgInv, Gone
  <1>6. MsgInv'
    BY <1>5 DEF MsgInv
  <1>7. msg' \in [type : MsgTypes, id : Ids \cup {Nil}] /\ (pollPc' = "start" => msg'.id \in Ids)
    BY <1>2 DEF TypeInv, MsgType
  <1>8. NoMsg \in [type : MsgTypes, id : Ids \cup {Nil}] /\ NoMsg.type = "NONE"
    BY DEF NoMsg, MsgTypes
  <1>9. /\ todo' \in [type : MsgTypes, id : Ids \cup {Nil}]
        /\ todo'.type = "ACCEPT" => todo'.id \in Ids
        /\ todo' # NoMsg => pollPc' \in {"loop", "start"}
    BY <1>1, <1>5, <1>7, <1>8
  <1>10. ModeType'
    BY <1>1, <1>9 DEF ModeBase, ModeType
  <1> QED BY <1>1, <1>2, <1>6, <1>10 DEF ModeBase, Next

\* What _ProcessMessageData adds to the queue are packets without a number.
LEMMA MessageDataIs ==
  ASSUME ModeBase, MessageData
  PROVE  /\ todo.type = "DATA" /\ todo' = NoMsg /\ UNCHANGED vars
         /\ asked' \in Seq(Packet) /\ heard' \in Nat
         /\ \/ UNCHANGED <<pool, refused>>
            \/ /\ todo.id \in pool /\ pool' = pool \ {todo.id}
               /\ refused' = refused \cup {todo.id}
  <1> DEFINE p == [seq |-> Nil, fd |-> todo.id]
  <1>1. /\ todo.type = "DATA" /\ todo' = NoMsg /\ UNCHANGED vars
    BY DEF MessageData, Handle
  <1>2. PICK k \in 0 .. (IF todo.id \in pool THEN MaxPackets - heard ELSE 0),
             bad \in (IF todo.id \in pool THEN BOOLEAN ELSE {FALSE}) :
          /\ asked' = asked \o [i \in 1 .. k |-> p]
          /\ heard' = heard + k
          /\ pool' = IF bad THEN pool \ {todo.id} ELSE pool
          /\ refused' = IF bad THEN refused \cup {todo.id} ELSE refused
    BY DEF MessageData, BufferSeq, RemoveClient
  <1>3. k \in Nat /\ heard \in Nat
    BY <1>2, PacketAssumption DEF ModeBase, ModeType
  <1>4. asked \in Seq(Packet) /\ p \in Packet
    <2>1. todo.id \in Ids \cup {Nil}
      BY DEF ModeBase, ModeType
    <2> QED BY <2>1 DEF ModeBase, ModeType, Packet
  <1> HIDE DEF p
  <1>5. [i \in 1 .. k |-> p] \in Seq(Packet)
    BY <1>3, <1>4
  <1>6. asked' \in Seq(Packet)
    BY <1>2, <1>4, <1>5
  <1>7. \/ UNCHANGED <<pool, refused>>
        \/ /\ todo.id \in pool /\ pool' = pool \ {todo.id}
           /\ refused' = refused \cup {todo.id}
    BY <1>2
  <1> QED BY <1>1, <1>2, <1>3, <1>6, <1>7

\* The command thread finds no client for the answer and sends nothing.
LEMMA SendAnswerIs ==
  ASSUME ModeBase, NEW u \in Users, SendAnswer(u)
  PROVE  /\ asked # <<>> /\ asked' = Tail(asked) /\ asked' \in Seq(Packet)
         /\ UNCHANGED <<vars, todo, pool, refused, heard>>
  <1>1. asked \in Seq(Packet) /\ asked # <<>> /\ asked' = Tail(asked)
    BY DEF SendAnswer, ModeBase, ModeType
  <1>2. Head(asked) \in Packet /\ asked' \in Seq(Packet)
    BY <1>1
  <1>3. Head(asked).seq = Nil
    BY <1>2 DEF Packet
  <1>4. Nil \notin pool
    BY DEF ModeBase, ModeType, Nil, Ids
  <1>5. GetClient(Head(asked).seq) = {}
    BY <1>3, <1>4 DEF GetClient, UniqSeq
  <1>6. UNCHANGED user
    BY <1>5, Zenon DEF SendAnswer
  <1>7. UNCHANGED <<alloc_id, slot, ctrl, known, used, todo, pool, refused, heard,
                    fdVars, pollVars, histVars, failed>>
    BY DEF SendAnswer, Call
  <1> QED BY <1>1, <1>2, <1>6, <1>7 DEF vars, callVars

\* Every step of the game server keeps the types and is a step of the socket
\* server or leaves it alone.
LEMMA ModeStep == ModeBase /\ [ModeNext]_<<vars, modeVars>> => ModeBase' /\ [Next]_vars
  <1> SUFFICES ASSUME ModeBase, [ModeNext]_<<vars, modeVars>> PROVE ModeBase' /\ [Next]_vars
    OBVIOUS
  <1> DEFINE Msg == [type : MsgTypes, id : Ids \cup {Nil}]
  <1>1. TypeInv /\ MsgInv /\ ModeType
    BY DEF ModeBase
  <1>2. NoMsg \in Msg /\ NoMsg.type = "NONE"
    BY DEF NoMsg, MsgTypes
  <1>3. UNCHANGED vars => TypeInv' /\ MsgInv' /\ UNCHANGED pollPc
    BY <1>1, NextType DEF vars, pollVars, MsgInv
  <1>4. ASSUME Next, UNCHANGED modeVars, UNCHANGED <<pollPc, msg, failed>>
        PROVE  ModeBase'
    <2>1. TypeInv'
      BY <1>1, <1>4, NextType
    <2>2. MsgInv' /\ ModeType'
      BY <1>1, <1>4 DEF MsgInv, ModeType, modeVars
    <2> QED BY <2>1, <2>2 DEF ModeBase
  <1>5. CASE Poll
    BY <1>5, PollKeeps
  <1>6. CASE StartClient
    <2>1. /\ todo = NoMsg /\ UNCHANGED <<todo, pool, refused, asked, heard>>
          /\ StartAccepted /\ pollPc' = "loop"
      BY <1>6 DEF StartClient, StartAccepted, modeVars
    <2>2. TypeInv' /\ Next
      BY <1>1, <2>1, PollType DEF Next, PollThread
    <2>3. MsgInv' /\ ModeType'
      BY <1>1, <2>1 DEF MsgInv, ModeType
    <2> QED BY <2>2, <2>3 DEF ModeBase
  <1>7. CASE NewClient
    <2>1. /\ todo.type = "ACCEPT" /\ todo' = NoMsg /\ UNCHANGED vars
          /\ pool' = pool \cup {todo.id} /\ UNCHANGED <<refused, asked, heard>>
      BY <1>7 DEF NewClient, Handle
    <2>2. ModeType'
      BY <1>1, <1>2, <2>1 DEF ModeType
    <2> QED BY <1>3, <2>1, <2>2 DEF ModeBase
  <1>8. CASE CloseClient \/ SocketOpen
    <2>1. /\ todo' = NoMsg /\ UNCHANGED vars /\ pool' \subseteq pool
          /\ UNCHANGED <<refused, asked, heard>>
      BY <1>8 DEF CloseClient, SocketOpen, Handle, RemoveClient
    <2>2. ModeType'
      BY <1>1, <1>2, <2>1 DEF ModeType
    <2> QED BY <1>3, <2>1, <2>2 DEF ModeBase
  <1>9. CASE MessageData
    <2>1. /\ todo' = NoMsg /\ UNCHANGED vars /\ asked' \in Seq(Packet) /\ heard' \in Nat
          /\ pool' \subseteq pool /\ refused' \subseteq refused \cup pool
      BY <1>9, MessageDataIs
    <2>2. ModeType'
      BY <1>1, <1>2, <2>1 DEF ModeType
    <2> QED BY <1>3, <2>1, <2>2 DEF ModeBase
  <1>10. ASSUME NEW u \in Users, SendAnswer(u)
         PROVE  ModeBase' /\ UNCHANGED vars
    <2>1. asked' \in Seq(Packet) /\ UNCHANGED <<vars, todo, pool, refused, heard>>
      BY <1>10, SendAnswerIs
    <2>2. ModeType'
      BY <1>1, <1>3, <2>1 DEF ModeType
    <2> QED BY <1>3, <2>1, <2>2 DEF ModeBase
  <1>11. ASSUME NEW u \in Users, Caller(u), UNCHANGED modeVars
         PROVE  ModeBase' /\ Next
    <2>1. UNCHANGED <<pollPc, msg, failed>>
      BY <1>11 DEF Caller, Listen, Connect, Udp, Bind, Open, ReserveFetch, ReserveLook, ReserveCas,
                   ReserveSetId, Send, Close, SendRequest, UdpConnect, Call, pollVars
    <2> QED BY <1>4, <1>11, <2>1 DEF Next
  <1>12. CASE UNCHANGED <<vars, modeVars>>
    <2>1. TypeInv' /\ MsgInv' /\ UNCHANGED vars /\ ModeType'
      BY <1>1, <1>3, <1>12 DEF ModeType, modeVars
    <2> QED BY <2>1 DEF ModeBase
  <1> QED BY <1>5, <1>6, <1>7, <1>8, <1>9, <1>10, <1>11, <1>12 DEF ModeNext

\* The initial state of the game server is one of the socket server.
LEMMA ModeStart == ModeInit => ModeBase /\ Init
  <1> SUFFICES ASSUME ModeInit PROVE ModeBase /\ Init
    OBVIOUS
  <1>1. Init /\ TypeInv
    BY InitType DEF ModeInit
  <1>2. MsgInv
    BY <1>1 DEF Init, MsgInv
  <1>3. NoMsg \in [type : MsgTypes, id : Ids \cup {Nil}] /\ NoMsg.type = "NONE"
    BY DEF NoMsg, MsgTypes
  <1>4. ModeType
    BY <1>3 DEF ModeInit, ModeType
  <1> QED BY <1>1, <1>2, <1>4 DEF ModeBase

\* The types hold in every state.
LEMMA ModeTyped == ModeSpec => []ModeBase
  BY ModeStart, ModeStep, PTL DEF ModeSpec

\* The game server uses the socket server as its interface allows: every
\* behaviour of SocketMode is one of SocketServer, and what is proved of the
\* socket server holds under the game server too.
THEOREM ModeImplementsServer == ModeSpec => Spec
  BY ModeStart, ModeStep, ModeTyped, PTL DEF ModeSpec, Spec

\* ExecuteCmdSendAllPacket never sends in this mode: SocketClientCtx does not
\* give its buffer the client's sequence number, so that no packet has the
\* number of a client, and taking a packet changes nothing but the queue.
THEOREM AnswersDropped == ModeSpec => [][\A u \in Users : SendAnswer(u) => UNCHANGED vars]_<<vars, modeVars>>
  <1>1. ModeBase => [\A u \in Users : SendAnswer(u) => UNCHANGED vars]_<<vars, modeVars>>
    BY SendAnswerIs
  <1> QED BY <1>1, ModeTyped, PTL

-----------------------------------------------------------------------------
(* The connections in the table, for a program that opens one socket, the  *)
(* one it listens on                                                       *)

OneListener == MaxOpens <= 1 /\ MaxConnects = 0 /\ MaxUdps = 0 /\ MaxBinds = 0

Calls == {"L", "S", "K", "D", "P"}
Conns == {"PACCEPT", "CONNECTED", "HALFCLOSE"}

\* Nothing was connected to, bound or opened for datagrams.
CallsInv ==
  /\ used["O"] = 0 /\ used["U"] = 0 /\ used["B"] = 0
  /\ \A u \in Users : user[u].req.op \in Calls
  /\ \A i \in DOMAIN ctrl : ctrl[i].op \in Calls
Accepts == \A n \in Table : slot[n].type \notin {"CONNECTING", "BIND"}

Live == { id \in Ids : Connection(id) }

\* The poll thread says what it does to the connections: one is new, one is
\* gone, or they are the same.
Told ==
  /\ Accepts'
  /\ \/ pollPc' \in {"loop", "event"} /\ Live' = Live
     \/ pollPc' = "clear" /\ Live' = Live \ {msg'.id}
     \/ /\ pollPc' = "start" /\ Live' = Live \cup {msg'.id}
        /\ alloc_id < msg'.id /\ msg'.id <= alloc_id'

\* The slots that an id can have.
LEMMA IdSlots == \A id \in Ids : HASH_ID(id) \in Table /\ id # Nil
  BY HashType DEF Ids, Nil

\* The other slots hold the same connections.
LEMMA OtherSlots ==
  ASSUME NEW n, \A m \in Table : m # n => slot'[m] = slot[m]
  PROVE  \A id \in Ids : HASH_ID(id) # n => (Connection(id)' <=> Connection(id))
  BY IdSlots DEF Connection

\* Connection, by the types that count.
LEMMA ConnectionIs ==
  /\ \A id : Connection(id) <=> slot[HASH_ID(id)].id = id /\ slot[HASH_ID(id)].type \in Conns
  /\ \A id : Connection(id)' <=> slot'[HASH_ID(id)].id = id /\ slot'[HASH_ID(id)].type \in Conns
  BY DEF Connection, Conns

\* A slot that stays, or stays out of, a connection.
LEMMA LiveKept ==
  ASSUME Accepts, NEW n \in Table, \A m \in Table : m # n => slot'[m] = slot[m],
         slot'[n].type \notin {"CONNECTING", "BIND"},
         \/ slot'[n].id = slot[n].id /\ (slot'[n].type \in Conns <=> slot[n].type \in Conns)
         \/ slot'[n].type \notin Conns /\ slot[n].type \notin Conns
  PROVE  Accepts' /\ Live' = Live
  <1>1. \A id \in Ids : HASH_ID(id) = n => (Connection(id)' <=> Connection(id))
    BY ConnectionIs
  <1>2. \A id \in Ids : Connection(id)' <=> Connection(id)
    BY <1>1, OtherSlots
  <1>3. Live' = Live
    BY <1>2 DEF Live
  <1> QED BY <1>3 DEF Accepts

\* Nothing changes in the table.
LEMMA LiveSame ==
  ASSUME Accepts, UNCHANGED slot
  PROVE  Accepts' /\ Live' = Live
  BY DEF Accepts, Live, Connection

\* A slot in use is given up.
LEMMA LiveLess ==
  ASSUME Accepts, NEW n \in Table, \A m \in Table : m # n => slot'[m] = slot[m],
         HASH_ID(slot[n].id) = n, slot'[n].type = "INVALID"
  PROVE  Accepts' /\ Live' = Live \ {slot[n].id}
  <1>1. slot'[n].type \notin Conns
    BY DEF Conns
  <1>2. \A id \in Ids : HASH_ID(id) = n => ~Connection(id)' /\ (Connection(id) => id = slot[n].id)
    BY <1>1, ConnectionIs
  <1>3. \A id \in Ids : Connection(id)' <=> Connection(id) /\ id # slot[n].id
    BY <1>2, OtherSlots
  <1>4. Live' = Live \ {slot[n].id}
    BY <1>3 DEF Live
  <1> QED BY <1>4 DEF Accepts

\* An id that is stale is no connection.
LEMMA StaleIs == \A id \in Ids : Stale(slot[HASH_ID(id)], id) => Live \ {id} = Live
  BY DEF Stale, Live, Connection

\* force_close, called for a slot that is not empty.
LEMMA CloseTold ==
  ASSUME IInv, Accepts, failed' = "NONE", NEW n \in Table, NEW out \in Seq(Chunk), NEW t \in MsgTypes,
         slot[n].type # "INVALID", CloseSlot(n, out, t, slot[n].id, "clear")
  PROVE  Told
  <1>1. TypeInv /\ SlotOK(n)
    BY DEF IInv
  <1>2. slot[n].id \in Ids \cup {Nil}
    BY <1>1, SlotFields DEF TypeInv, SlotType
  <1>3. ~Abort("reserve")
    BY DEF Abort
  <1>4. InUse(slot[n]) /\ force_close(n, slot[n], out) /\ Return(t, slot[n].id, "clear")
    BY <1>1, <1>2, <1>3, CloseSlotIs
  <1>5. /\ \A m \in Table : m # n => slot'[m] = slot[m]
        /\ slot'[n].type = "INVALID"
    BY <1>1, <1>4, ForceCloseIs
  <1>6. HASH_ID(slot[n].id) = n
    BY <1>1, <1>4 DEF SlotOK
  <1>7. Accepts' /\ Live' = Live \ {slot[n].id}
    BY <1>5, <1>6, LiveLess
  <1>8. pollPc' = "clear" /\ msg'.id = slot[n].id
    BY <1>4 DEF Return
  <1> QED BY <1>7, <1>8 DEF Told

\* Which requests the pipe can hold.
LEMMA CmdCalls ==
  ASSUME TypeInv, CallsInv, NEW op, Cmd(op)
  PROVE  op \cap Calls # {}
  <1>1. ctrl \in Seq(Request) /\ ctrl # <<>> /\ Head(ctrl).op \in op
    BY DEF Cmd, TypeInv, PipeType
  <1>2. Head(ctrl) = ctrl[1] /\ 1 \in DOMAIN ctrl
    BY <1>1
  <1> QED BY <1>1, <1>2 DEF CallsInv

\* start_socket
LEMMA StartSocketTold ==
  ASSUME IInv, Accepts, StartSocket
  PROVE  Told
  <1>1. TypeInv /\ Cmd({"S"})
    BY DEF StartSocket, IInv
  <1>2. PICK id \in Ids : id = Head(ctrl).id
    BY <1>1, CmdIs
  <1> DEFINE n == HASH_ID(id)
             s == slot[n]
  <1>3. n \in Table /\ s \in SlotRec /\ SlotOK(n)
    BY <1>1, <1>2, CmdIs DEF IInv
  <1>4. \/ Stale(s, id) /\ UNCHANGED slot /\ Return("ERROR", id, "clear")
        \/ ~Stale(s, id) /\ s.type \in {"PACCEPT", "PLISTEN"} /\ Discard(id, {})
        \/ /\ s.type \in {"PACCEPT", "PLISTEN"}
           /\ slot' = [slot EXCEPT ![n].type = IF @ = "PACCEPT" THEN "CONNECTED" ELSE "LISTEN"]
           /\ Return("OPEN", id, "loop")
        \/ UNCHANGED slot /\ (Return("OPEN", id, "loop") \/ Continue)
    BY <1>2, Zenon DEF StartSocket
  <1>5. CASE Stale(s, id) /\ UNCHANGED slot /\ Return("ERROR", id, "clear")
    BY <1>5, LiveSame, StaleIs DEF Told, Return
  <1>6. CASE ~Stale(s, id) /\ s.type \in {"PACCEPT", "PLISTEN"} /\ Discard(id, {})
    <2>1. s.id = id
      BY <1>6 DEF Stale
    <2>2. /\ \A m \in Table : m # n => slot'[m] = slot[m]
          /\ slot'[n].type = "INVALID" /\ pollPc' = "clear" /\ msg'.id = id
      BY <1>1, <1>6, DiscardIs
    <2>3. HASH_ID(slot[n].id) = n
      BY <2>1
    <2>4. Accepts' /\ Live' = Live \ {slot[n].id}
      BY <1>3, <2>2, <2>3, LiveLess
    <2> QED BY <2>1, <2>2, <2>4 DEF Told
  <1>7. CASE /\ s.type \in {"PACCEPT", "PLISTEN"}
             /\ slot' = [slot EXCEPT ![n].type = IF @ = "PACCEPT" THEN "CONNECTED" ELSE "LISTEN"]
             /\ Return("OPEN", id, "loop")
    <2> DEFINE t == IF s.type = "PACCEPT" THEN "CONNECTED" ELSE "LISTEN"
    <2>1. slot' = [slot EXCEPT ![n].type = t]
      BY <1>7
    <2>2. t \in Types /\ t \notin {"CONNECTING", "BIND"} /\ (t \in Conns <=> s.type \in Conns)
      BY <1>7 DEF Types, Conns
    <2> HIDE DEF t
    <2>3. /\ \A m \in Table : m # n => slot'[m] = slot[m]
          /\ slot'[n].type = t /\ slot'[n].id = s.id
      BY <1>1, <1>3, <2>1, <2>2, SetTypeIs DEF TypeInv
    <2>4. Accepts' /\ Live' = Live
      BY <1>3, <2>2, <2>3, LiveKept
    <2> QED BY <1>7, <2>4 DEF Told, Return
  <1>8. CASE UNCHANGED slot /\ (Return("OPEN", id, "loop") \/ Continue)
    BY <1>8, LiveSame DEF Told, Return, Continue
  <1> QED BY <1>4, <1>5, <1>6, <1>7, <1>8

\* listen_socket
LEMMA ListenSocketTold ==
  ASSUME IInv, Accepts, failed' = "NONE", ListenSocket
  PROVE  Told
  <1>1. TypeInv /\ Cmd({"L"})
    BY DEF ListenSocket, IInv
  <1>2. PICK id \in Ids : id = Head(ctrl).id
    BY <1>1, CmdIs
  <1> DEFINE n == HASH_ID(id)
  <1>3. NewFdAsserts(slot[n]) = "NONE" /\ new_fd(id, "PLISTEN", "NONE", "tcp") /\ Continue
    <2>1. \/ NewFdAsserts(slot[n]) # "NONE" /\ Abort(NewFdAsserts(slot[n]))
          \/ NewFdAsserts(slot[n]) = "NONE" /\ new_fd(id, "PLISTEN", "NONE", "tcp") /\ Continue
      BY <1>2, Zenon DEF ListenSocket
    <2> QED BY <2>1 DEF Abort
  <1>4. slot[n].type = "RESERVE" /\ send_buffer_empty(slot[n])
    BY <1>3, AssertsIs
  <1>5. "PLISTEN" \in Types /\ "tcp" \in Kinds /\ "PLISTEN" \notin Conns /\ "RESERVE" \notin Conns
    BY DEF Types, Kinds, Conns
  <1>6. /\ n \in Table /\ slot'[n].type = "PLISTEN"
        /\ \A m \in Table : m # n => slot'[m] = slot[m]
    BY <1>1, <1>3, <1>4, <1>5, NewFdIs
  <1>7. Accepts' /\ Live' = Live
    BY <1>4, <1>5, <1>6, LiveKept
  <1> QED BY <1>3, <1>7 DEF Told, Continue

\* What is written out of slot n leaves it the connection that it is.
LEMMA WriteTold ==
  ASSUME IInv, Accepts, NEW n \in Table, NEW k \in Takes(slot[n]), NEW next \in Types,
         WriteOut(n, k, next), Continue,
         next = slot[n].type \/ (next = "HALFCLOSE" /\ k # Size(slot[n]))
  PROVE  Told
  <1> DEFINE s == slot[n]
  <1>1. TypeInv /\ SlotOK(n) /\ s \in SlotRec
    BY DEF IInv, TypeInv, SlotType
  <1>2. k \in 0 .. Size(s)
    BY <1>1, TakesIs
  <1>3. /\ \A m \in Table : m # n => slot'[m] = slot[m]
        /\ slot'[n].type = next /\ slot'[n].id = s.id
    BY <1>1, <1>2, WriteOutIs
  <1>4. k # Size(s) => s.type \in {"CONNECTING", "CONNECTED", "HALFCLOSE", "BIND"}
    <2>1. Size(s) \in Nat /\ (send_buffer_empty(s) <=> Size(s) = 0)
      BY <1>1, QueuedType
    <2>2. k # Size(s) => ~send_buffer_empty(s)
      BY <1>2, <2>1
    <2> QED BY <1>1, <2>2 DEF SlotOK
  <1>5. next \notin {"CONNECTING", "BIND"} /\ (next \in Conns <=> s.type \in Conns)
    BY <1>4 DEF Conns, Accepts
  <1>6. Accepts' /\ Live' = Live
    BY <1>3, <1>5, LiveKept
  <1> QED BY <1>6 DEF Told, Continue

\* close_socket
LEMMA CloseSocketTold ==
  ASSUME IInv, Accepts, failed' = "NONE", CloseSocket
  PROVE  Told
  <1>1. TypeInv /\ Cmd({"K"})
    BY DEF CloseSocket, IInv
  <1>2. PICK id \in Ids : id = Head(ctrl).id
    BY <1>1, CmdIs
  <1> DEFINE n == HASH_ID(id)
             s == slot[n]
  <1>3. n \in Table /\ s \in SlotRec
    BY <1>1, <1>2, CmdIs
  <1>4. "CLOSE" \in MsgTypes /\ "HALFCLOSE" \in Types /\ ~Abort("uncomplete")
    BY DEF MsgTypes, Types, Abort
  <1>5. \/ Stale(s, id) /\ Return("CLOSE", id, "clear") /\ UNCHANGED slot
        \/ Abort("uncomplete")
        \/ /\ ~Stale(s, id)
           /\ \/ WriteFails(n)
              \/ \E k \in Takes(s) :
                   \/ CloseSlot(n, Queued(s), "CLOSE", id, "clear")
                   \/ k # Len(Queued(s)) /\ WriteOut(n, k, "HALFCLOSE") /\ Continue
    BY <1>2, Zenon DEF CloseSocket
  <1>6. CASE Stale(s, id) /\ Return("CLOSE", id, "clear") /\ UNCHANGED slot
    BY <1>6, LiveSame, StaleIs DEF Told, Return
  <1>7. ~Stale(s, id) => s.id = id /\ s.type # "INVALID"
    BY DEF Stale
  <1>8. CASE ~Stale(s, id) /\ WriteFails(n)
    <2>1. PICK out \in Seq(Chunk) : CloseSlot(n, out, "CLOSE", s.id, "clear")
      BY <1>1, <1>3, <1>8, WriteFailsIs
    <2> HIDE DEF n
    <2> QED BY <1>3, <1>4, <1>7, <1>8, <2>1, CloseTold
  <1>9. CASE ~Stale(s, id) /\ CloseSlot(n, Queued(s), "CLOSE", id, "clear")
    <2>1. Queued(s) \in Seq(Chunk) /\ CloseSlot(n, Queued(s), "CLOSE", s.id, "clear")
      BY <1>3, <1>7, <1>9, QueuedType
    <2> HIDE DEF n
    <2> QED BY <1>3, <1>4, <1>7, <1>9, <2>1, CloseTold
  <1>10. ASSUME NEW k \in Takes(s), k # Len(Queued(s)), WriteOut(n, k, "HALFCLOSE"), Continue
         PROVE  Told
    <2>1. k # Size(s)
      BY <1>3, <1>10, QueuedType
    <2> HIDE DEF n
    <2> QED BY <1>3, <1>4, <1>10, <2>1, WriteTold
  <1> QED BY <1>4, <1>5, <1>6, <1>8, <1>9, <1>10

\* send_socket
LEMMA SendSocketTold ==
  ASSUME IInv, Accepts, failed' = "NONE", SendSocket
  PROVE  Told
  <1>1. TypeInv /\ Cmd({"D", "P", "A"})
    BY DEF SendSocket, IInv
  <1>2. PICK n \in Table : n = HASH_ID(Head(ctrl).id)
    BY <1>1, CmdIs
  <1> DEFINE s == slot[n]
  <1>3. slot[n].type = "INVALID" => Continue /\ UNCHANGED slot
    BY <1>2, Zenon DEF SendSocket, Stale
  <1>4. \/ Continue /\ UNCHANGED slot
        \/ Abort("listen")
        \/ CloseSlot(n, <<>>, "CLOSE", s.id, "clear")
        \/ Continue /\ \E t : Queues(n, t)
    BY <1>1, <1>2, SendSocketIs
  <1>5. CASE Continue /\ UNCHANGED slot
    BY <1>5, LiveSame DEF Told, Continue
  <1>6. CASE s.type # "INVALID" /\ CloseSlot(n, <<>>, "CLOSE", s.id, "clear")
    <2>1. <<>> \in Seq(Chunk) /\ "CLOSE" \in MsgTypes
      BY DEF MsgTypes
    <2> QED BY <1>6, <2>1, CloseTold
  <1>7. ASSUME Continue, NEW t, Queues(n, t)
        PROVE  Told
    <2>1. /\ \A m \in Table : m # n => slot'[m] = slot[m]
          /\ slot'[n].type = s.type /\ slot'[n].id = s.id
      BY <1>1, <1>7 DEF Queues, SameSlot, TypeInv, SlotType
    <2>2. Accepts' /\ Live' = Live
      BY <2>1, LiveKept DEF Accepts
    <2> QED BY <1>7, <2>2 DEF Told, Continue
  <1>8. ~Abort("listen")
    BY DEF Abort
  <1> QED BY <1>3, <1>4, <1>5, <1>6, <1>7, <1>8

\* report_accept
LEMMA ReportAcceptTold ==
  ASSUME IInv, Accepts, failed' = "NONE", ReportAccept
  PROVE  Told
  <1>1. TypeInv /\ alloc_id \in Nat
    BY DEF IInv, TypeInv, CallType
  <1>2. \/ Continue /\ UNCHANGED slot
        \/ \E id \in FreeId(alloc_id) \cap Ids :
             /\ alloc_id' = id
             /\ \/ /\ send_buffer_empty(slot[HASH_ID(id)])
                   /\ new_fd(id, "PACCEPT", "NONE", "tcp")
                   /\ Return("ACCEPT", id, "start")
                \/ failed' = "wb_list"
    BY DEF ReportAccept
  <1>3. CASE Continue /\ UNCHANGED slot
    BY <1>3, LiveSame DEF Told, Continue
  <1>4. ASSUME NEW id \in FreeId(alloc_id) \cap Ids, alloc_id' = id, send_buffer_empty(slot[HASH_ID(id)]),
               new_fd(id, "PACCEPT", "NONE", "tcp"), Return("ACCEPT", id, "start")
        PROVE  Told
    <2> DEFINE n == HASH_ID(id)
    <2>1. id \in Ids /\ slot[n].type = "INVALID" /\ alloc_id < id /\ id <= alloc_id'
      <3>1. id \in (alloc_id + 1) .. (alloc_id + MaxSocket) /\ slot[n].type = "INVALID"
        BY <1>4 DEF FreeId
      <3>2. MaxSocket \in Nat
        BY SlotAssumption
      <3> QED BY <1>1, <1>4, <3>1, <3>2
    <2>2. "PACCEPT" \in Types /\ "tcp" \in Kinds /\ "PACCEPT" \in Conns /\ "INVALID" \notin Conns
      BY DEF Types, Kinds, Conns
    <2>3. /\ n \in Table /\ slot'[n].type = "PACCEPT" /\ slot'[n].id = id
          /\ \A m \in Table : m # n => slot'[m] = slot[m]
      BY <1>1, <1>4, <2>1, <2>2, NewFdIs
    <2>4. \A i \in Ids : HASH_ID(i) = n => ~Connection(i) /\ (Connection(i)' <=> i = id)
      BY <2>1, <2>2, <2>3, ConnectionIs
    <2>5. \A i \in Ids : Connection(i)' <=> Connection(i) \/ i = id
      BY <2>3, <2>4, OtherSlots
    <2>6. Live' = Live \cup {id}
      BY <2>1, <2>5 DEF Live
    <2>7. Accepts'
      BY <2>3 DEF Accepts
    <2>8. pollPc' = "start" /\ msg'.id = id
      BY <1>4 DEF Return
    <2> QED BY <2>1, <2>6, <2>7, <2>8 DEF Told
  <1> QED BY <1>2, <1>3, <1>4

\* forward_message_tcp and forward_message_udp
LEMMA ForwardMessageTold ==
  ASSUME IInv, Accepts, failed' = "NONE", ForwardMessage \/ ForwardMessageUdp
  PROVE  Told
  <1>1. TypeInv /\ Event(Streams)
    BY DEF ForwardMessage, ForwardMessageUdp, IInv
  <1>2. PICK n \in Table : n = Head(ev).s /\ slot[n].type \in Streams
    BY <1>1, EventIs
  <1>3. \/ CloseSlot(n, <<>>, "ERROR", slot[n].id, "clear")
        \/ CloseSlot(n, <<>>, "CLOSE", slot[n].id, "clear")
        \/ /\ UNCHANGED slot
           /\ \/ Continue \/ Return("DATA", slot[n].id, "loop") \/ Return("UDP", slot[n].id, "loop")
    BY <1>2, Zenon DEF ForwardMessage, ForwardMessageUdp
  <1>4. <<>> \in Seq(Chunk) /\ "ERROR" \in MsgTypes /\ "CLOSE" \in MsgTypes /\ slot[n].type # "INVALID"
    BY <1>2 DEF MsgTypes, Streams
  <1>5. CASE \/ CloseSlot(n, <<>>, "ERROR", slot[n].id, "clear")
             \/ CloseSlot(n, <<>>, "CLOSE", slot[n].id, "clear")
    BY <1>4, <1>5, CloseTold
  <1>6. CASE /\ UNCHANGED slot
             /\ \/ Continue \/ Return("DATA", slot[n].id, "loop") \/ Return("UDP", slot[n].id, "loop")
    BY <1>6, LiveSame DEF Told, Continue, Return
  <1> QED BY <1>3, <1>5, <1>6

\* send_buffer
LEMMA SendBufferTold ==
  ASSUME IInv, Accepts, failed' = "NONE", SendBuffer
  PROVE  Told
  <1>1. TypeInv /\ Event(Streams)
    BY DEF SendBuffer, IInv
  <1>2. PICK n \in Table : n = Head(ev).s /\ slot[n].type \in Streams /\ slot[n] \in SlotRec
    BY <1>1, EventIs
  <1> DEFINE s == slot[n]
  <1>3. s.high \in Seq(Chunk) /\ s.type \in Types /\ s.type # "INVALID"
    BY <1>2, SlotFields DEF Streams
  <1>4. "CLOSE" \in MsgTypes /\ ~Abort("uncomplete")
    BY DEF MsgTypes, Abort
  <1>5. \/ Abort("uncomplete") \/ WriteFails(n)
        \/ CloseSlot(n, s.high, "CLOSE", s.id, "clear")
        \/ \E k \in Takes(s) : WriteOut(n, k, s.type) /\ Continue
    BY <1>2, Zenon DEF SendBuffer
  <1>6. CASE WriteFails(n)
    <2>1. PICK out \in Seq(Chunk) : CloseSlot(n, out, "CLOSE", s.id, "clear")
      BY <1>1, <1>6, WriteFailsIs
    <2> QED BY <1>3, <1>4, <2>1, CloseTold
  <1>7. CASE CloseSlot(n, s.high, "CLOSE", s.id, "clear")
    BY <1>3, <1>4, <1>7, CloseTold
  <1>8. CASE \E k \in Takes(s) : WriteOut(n, k, s.type) /\ Continue
    BY <1>3, <1>8, WriteTold
  <1> QED BY <1>4, <1>5, <1>6, <1>7, <1>8

\* Every step of the poll thread says what it does to the connections.
LEMMA PollTold ==
  ASSUME IInv, CallsInv, Accepts, failed' = "NONE", pollPc # "start", PollThread
  PROVE  Told
  <1>1. TypeInv
    BY DEF IInv
  <1>2. ~OpenSocket /\ ~BindSocket /\ ~AddUdpSocket /\ ~SetUdpAddress
    BY <1>1, CmdCalls DEF OpenSocket, BindSocket, AddUdpSocket, SetUdpAddress, Calls
  <1>3. ~ReportConnect
    <2> SUFFICES ASSUME ReportConnect PROVE FALSE
      OBVIOUS
    <2>1. Event({"CONNECTING"})
      BY DEF ReportConnect
    <2> QED BY <1>1, <2>1, EventIs DEF Accepts
  <1>4. CASE NoCmd \/ Wait \/ SkipEvent \/ ClearClosedEvent
    <2>1. UNCHANGED slot /\ pollPc' \in {"loop", "event"}
      BY <1>4 DEF NoCmd, Wait, SkipEvent, ClearClosedEvent, Continue
    <2> QED BY <2>1, LiveSame DEF Told
  <1>5. ~StartAccepted
    BY DEF StartAccepted
  <1> QED BY <1>2, <1>3, <1>4, <1>5, StartSocketTold, ListenSocketTold, CloseSocketTold,
             SendSocketTold, ReportAcceptTold, ForwardMessageTold, SendBufferTold DEF PollThread

\* Only report_accept gives out ids on the poll thread.
LEMMA PollAlloc ==
  ASSUME PollThread
  PROVE  UNCHANGED alloc_id \/ ReportAccept
  <1>3. CASE StartSocket \/ ListenSocket \/ OpenSocket \/ BindSocket \/ AddUdpSocket
    BY <1>3 DEF StartSocket, ListenSocket, OpenSocket, BindSocket, AddUdpSocket, Discard, Abort
  <1>4. CASE CloseSocket
    BY <1>4, Zenon DEF CloseSocket, WriteFails, CloseSlot, force_close, Abort, WriteOut
  <1>5. CASE SendSocket
    BY <1>5, Zenon DEF SendSocket, CloseSlot, force_close, Abort
  <1>6. CASE ReportConnect \/ ForwardMessage \/ ForwardMessageUdp
    BY <1>6, Zenon DEF ReportConnect, ForwardMessage, ForwardMessageUdp, CloseSlot, force_close, Abort
  <1>7. CASE SendBuffer
    BY <1>7, Zenon DEF SendBuffer, WriteFails, CloseSlot, force_close, Abort, WriteOut
  <1>8. CASE SetUdpAddress \/ NoCmd \/ Wait \/ SkipEvent \/ ClearClosedEvent \/ StartAccepted
    BY <1>8 DEF SetUdpAddress, NoCmd, Wait, SkipEvent, ClearClosedEvent, StartAccepted
  <1> QED BY <1>3, <1>4, <1>5, <1>6, <1>7, <1>8 DEF PollThread

\* An append of one of the requests keeps the pipe to them.
LEMMA PipeCalls ==
  ASSUME NEW q, NEW r, q \in Seq(Request), r \in Request, r.op \in Calls,
         \A i \in DOMAIN q : q[i].op \in Calls
  PROVE  \A i \in DOMAIN Append(q, r) : Append(q, r)[i].op \in Calls
  <1>1. /\ Len(q) \in Nat /\ DOMAIN q = 1 .. Len(q) /\ DOMAIN Append(q, r) = 1 .. (Len(q) + 1)
        /\ \A i \in 1 .. Len(q) : Append(q, r)[i] = q[i]
        /\ Append(q, r)[Len(q) + 1] = r
    OBVIOUS
  <1>2. \A i \in DOMAIN Append(q, r) : i \in DOMAIN q \/ i = Len(q) + 1
    BY <1>1
  <1> QED BY <1>1, <1>2

\* The poll thread makes no other requests.
LEMMA PollCalls ==
  ASSUME TypeInv, CallsInv, PollThread
  PROVE  CallsInv'
  <1>1. ctrl \in Seq(Request)
    BY DEF TypeInv, PipeType
  <1>2. UNCHANGED <<user, used>>
    BY PollFrame
  <1>3. CASE UNCHANGED ctrl
    BY <1>2, <1>3 DEF CallsInv
  <1>4. CASE ctrl # <<>> /\ ctrl' = Tail(ctrl)
    <2>1. \A i \in DOMAIN Tail(ctrl) : i + 1 \in DOMAIN ctrl /\ Tail(ctrl)[i] = ctrl[i + 1]
      BY <1>1, <1>4
    <2> QED BY <1>2, <1>4, <2>1 DEF CallsInv
  <1>5. CASE StartAccepted
    <2> DEFINE r == [op |-> "S", id |-> msg.id, pkt |-> Nil, fits |-> TRUE]
    <2>1. r \in Request /\ ctrl' = Append(ctrl, r)
      BY <1>5, StartAcceptedIs
    <2>2. r.op \in Calls
      BY DEF Calls
    <2> HIDE DEF r
    <2>3. \A i \in DOMAIN ctrl' : ctrl'[i].op \in Calls
      BY <1>1, <2>1, <2>2, PipeCalls DEF CallsInv
    <2> QED BY <1>2, <2>3 DEF CallsInv
  <1> QED BY <1>3, <1>4, <1>5, PollFrame

\* Nor do the callers, and they leave the connections alone.
LEMMA CallerTold ==
  ASSUME OneListener, IInv, CallsInv, Accepts, NEW u \in Users, Caller(u)
  PROVE  /\ CallsInv' /\ Accepts' /\ Live' = Live
         /\ alloc_id' \in Nat /\ alloc_id <= alloc_id'
         /\ failed = "NONE" /\ UNCHANGED <<pollPc, msg, failed>>
  <1>1. TypeInv /\ TypeInv'
    BY CallerType DEF IInv
  <1>2. alloc_id \in Nat /\ alloc_id' \in Nat /\ used \in [Used -> Nat]
    BY <1>1 DEF TypeInv, CallType
  <1>3. failed = "NONE" /\ UNCHANGED <<pollPc, msg, failed>>
    BY DEF Caller, Listen, Connect, Udp, Bind, Open, ReserveFetch, ReserveLook, ReserveCas,
           ReserveSetId, Send, Close, SendRequest, UdpConnect, Call, pollVars
  <1>4. user[u].req.op \in Calls /\ "S" \in Calls /\ "K" \in Calls /\ "L" \in Calls
    BY DEF CallsInv, Calls
  <1>5. ~Connect(u) /\ ~Udp(u) /\ ~Bind(u)
        /\ ~(used["U"] > 0 /\ \E fits \in BOOLEAN : Send(u, "A", fits) \/ UdpConnect(u, fits))
    BY DEF OneListener, CallsInv, Connect, Udp, Bind
  <1>6. ASSUME NEW c, user' = [user EXCEPT ![u] = c], c.req.op \in Calls,
               used'["O"] = 0, used'["U"] = 0, used'["B"] = 0,
               \A i \in DOMAIN ctrl' : ctrl'[i].op \in Calls
        PROVE  CallsInv'
    <2>1. user \in [Users -> CallRec]
      BY <1>1 DEF TypeInv, CallType
    <2>2. \A v \in Users : user'[v] = IF v = u THEN c ELSE user[v]
      BY <1>6, <2>1
    <2> QED BY <1>6, <2>2 DEF CallsInv
  <1>7. CASE Listen(u)
    <2>1. /\ user' = [user EXCEPT ![u] = [Idle EXCEPT !.pc = "fetch", !.req.op = "L"]]
          /\ used' = [used EXCEPT !["L"] = @ + 1] /\ UNCHANGED <<alloc_id, slot, ctrl>>
      BY <1>7 DEF Listen, Open
    <2>2. used'["O"] = 0 /\ used'["U"] = 0 /\ used'["B"] = 0
      BY <1>2, <2>1 DEF CallsInv, Used
    <2>3. [Idle EXCEPT !.pc = "fetch", !.req.op = "L"].req.op \in Calls
      BY <1>4 DEF Idle
    <2>4. CallsInv'
      BY <1>6, <2>1, <2>2, <2>3 DEF CallsInv
    <2> QED BY <1>2, <1>3, <2>1, <2>4, LiveSame
  <1>8. CASE ReserveFetch(u)
    <2>1. /\ UNCHANGED <<slot, ctrl, used>> /\ alloc_id' \in {alloc_id, alloc_id + 1}
          /\ \/ user' = [user EXCEPT ![u] = Idle]
             \/ user' = [user EXCEPT ![u] = [user[u] EXCEPT !.pc = "look", !.req.id = alloc_id + 1]]
      BY <1>8 DEF ReserveFetch
    <2>2. /\ Idle.req.op \in Calls
          /\ [user[u] EXCEPT !.pc = "look", !.req.id = alloc_id + 1].req.op \in Calls
      <3>1. user[u] \in CallRec /\ user[u].req \in Req
        BY <1>1, CallFields
      <3> QED BY <1>4, <3>1 DEF Idle, CallRec, Req
    <2>3. CallsInv'
      BY <1>6, <2>1, <2>2 DEF CallsInv
    <2> QED BY <1>2, <1>3, <2>1, <2>3, LiveSame
  <1>9. ASSUME user'[u].req = user[u].req, \A v \in Users : v # u => user'[v] = user[v],
               UNCHANGED <<ctrl, used>>
        PROVE  CallsInv'
    BY <1>9 DEF CallsInv
  <1>10. CASE ReserveLook(u)
    <2>1. UNCHANGED <<slot, alloc_id>>
      BY <1>10 DEF ReserveLook
    <2>2. CallsInv'
      BY <1>1, <1>9, <1>10, ReserveLookIs
    <2> QED BY <1>2, <1>3, <2>1, <2>2, LiveSame
  <1>11. CASE ReserveCas(u)
    <2> DEFINE n == HASH_ID(user[u].req.id)
    <2>1. UNCHANGED alloc_id
      BY <1>11 DEF ReserveCas
    <2>2. /\ n \in Table /\ user'[u].req = user[u].req /\ UNCHANGED <<ctrl, used>>
          /\ \A v \in Users : v # u => user'[v] = user[v]
          /\ \/ /\ slot[n].type = "INVALID" /\ slot'[n].type = "RESERVE"
                /\ \A m \in Table : m # n => slot'[m] = slot[m]
             \/ UNCHANGED slot
      BY <1>1, <1>11, ReserveCasIs
    <2>3. CallsInv'
      BY <1>9, <2>2
    <2>4. "INVALID" \notin Conns /\ "RESERVE" \notin Conns
      BY DEF Conns
    <2> HIDE DEF n
    <2>5. Accepts' /\ Live' = Live
      BY <2>2, <2>4, LiveKept, LiveSame
    <2> QED BY <1>2, <1>3, <2>1, <2>3, <2>5
  <1>12. CASE ReserveSetId(u)
    <2> DEFINE n == HASH_ID(user[u].req.id)
    <2>1. UNCHANGED alloc_id
      BY <1>12 DEF ReserveSetId
    <2>2. /\ n \in Table /\ user[u].pc = "setid" /\ user'[u].req = user[u].req
          /\ UNCHANGED <<ctrl, used>> /\ slot'[n].type = slot[n].type
          /\ \A v \in Users : v # u => user'[v] = user[v]
          /\ \A m \in Table : m # n => slot'[m] = slot[m]
      BY <1>1, <1>12, ReserveSetIdIs
    <2>3. slot[n].type = "RESERVE"
      <3>1. InCall(u)
        BY <2>2 DEF IInv, Phase, Start, InCall, InPipe, After, Opening
      <3> QED BY <2>2, <3>1 DEF InCall, Reserved
    <2>4. CallsInv'
      BY <1>9, <2>2
    <2>5. "RESERVE" \notin Conns
      BY DEF Conns
    <2> HIDE DEF n
    <2>6. Accepts' /\ Live' = Live
      BY <2>2, <2>3, <2>5, LiveKept
    <2> QED BY <1>2, <1>3, <2>1, <2>4, <2>6
  <1>13. CASE Send(u, "D", TRUE) \/ Send(u, "P", TRUE) \/ Close(u)
    <2>1. UNCHANGED <<slot, alloc_id, ctrl>> /\ \A k \in {"O", "U", "B"} : used'[k] = used[k]
      BY <1>2, <1>13 DEF Send, Close, Used
    <2>2. \E id \in known : \E op \in {"D", "P"} :
             \/ user' = [user EXCEPT ![u] = [Idle EXCEPT !.pc = "request",
                            !.req = [op |-> op, id |-> id, pkt |-> Nil, fits |-> TRUE]]]
             \/ user' = [user EXCEPT ![u] = [Idle EXCEPT !.pc = "request", !.req.id = id]]
      BY <1>13 DEF Send, Close
    <2>3. \A id, op : op \in {"D", "P"} =>
            /\ [Idle EXCEPT !.pc = "request",
                   !.req = [op |-> op, id |-> id, pkt |-> Nil, fits |-> TRUE]].req.op \in Calls
            /\ [Idle EXCEPT !.pc = "request", !.req.id = id].req.op \in Calls
      BY DEF Idle, Calls
    <2>4. CallsInv'
      BY <1>6, <2>1, <2>2, <2>3 DEF CallsInv
    <2> QED BY <1>2, <1>3, <2>1, <2>4, LiveSame
  <1>14. CASE SendRequest(u)
    <2>1. UNCHANGED <<slot, alloc_id>> /\ \A k \in {"O", "U", "B"} : used'[k] = used[k]
      BY <1>2, <1>14 DEF SendRequest, Used
    <2>2. user' = [user EXCEPT ![u] = IF user[u].req.op = "L" THEN [user[u] EXCEPT !.req.op = "S"]
                                                             ELSE Idle]
      BY <1>14 DEF SendRequest
    <2>3. (IF user[u].req.op = "L" THEN [user[u] EXCEPT !.req.op = "S"] ELSE Idle).req.op \in Calls
      <3>1. user[u] \in CallRec /\ user[u].req \in Req
        BY <1>1, CallFields
      <3> QED BY <1>4, <3>1 DEF Idle, CallRec, Req
    <2>4. PICK q \in Request : q.op = user[u].req.op /\ ctrl' = Append(ctrl, q)
      BY <1>1, <1>14, SendRequestIs
    <2>5. \A i \in DOMAIN ctrl' : ctrl'[i].op \in Calls
      <3>1. ctrl \in Seq(Request)
        BY <1>1 DEF TypeInv, PipeType
      <3> QED BY <1>4, <2>4, <3>1, PipeCalls DEF CallsInv
    <2>6. CallsInv'
      BY <1>6, <2>1, <2>2, <2>3, <2>5 DEF CallsInv
    <2> QED BY <1>2, <1>3, <2>1, <2>6, LiveSame
  <1> QED BY <1>5, <1>7, <1>8, <1>10, <1>11, <1>12, <1>13, <1>14 DEF Caller

-----------------------------------------------------------------------------
(* The client pool                                                         *)

\* How the pool lags behind the table: by the message that waits to be
\* handled, or by the socket whose events are being cleared.
PoolInv ==
  LET clients == Live \ refused IN
    /\ todo.type = "ACCEPT" => pool \cup {todo.id} = clients
    /\ todo.type \in Gone => pool \ {todo.id} = clients
    /\ todo.type \notin Gone \cup {"ACCEPT"} =>
         /\ pollPc = "clear" => pool \ {msg.id} = clients
         /\ pollPc # "clear" => pool = clients

\* Ids that the pool has seen were given out.
SeenInv ==
  /\ \A id \in pool \cup refused : id <= alloc_id
  /\ todo.type = "ACCEPT" => todo.id <= alloc_id

ModeInv == failed = "NONE" => CallsInv /\ Accepts /\ SeenInv /\ PoolInv

\* A step of socket_server_poll: the pool will hear of what it did.
LEMMA PollPool ==
  ASSUME IInv, ModeBase, ModeInv, Poll
  PROVE  ModeInv'
  <1> SUFFICES ASSUME failed' = "NONE" PROVE CallsInv' /\ Accepts' /\ SeenInv' /\ PoolInv'
    BY DEF ModeInv
  <1>1. /\ PollThread /\ todo = NoMsg /\ pollPc # "start" /\ failed = "NONE"
        /\ todo' = IF pollPc' \in {"loop", "start"} THEN msg' ELSE NoMsg
        /\ UNCHANGED <<pool, refused>>
    <2>1. PollThread => failed = "NONE"
      BY DEF PollThread, StartSocket, ListenSocket, OpenSocket, BindSocket, AddUdpSocket,
             SetUdpAddress, CloseSocket, SendSocket, NoCmd, Wait, SkipEvent, ReportConnect,
             ReportAccept, ForwardMessage, ForwardMessageUdp, SendBuffer, ClearClosedEvent,
             StartAccepted, Cmd, Event
    <2> QED BY <2>1 DEF Poll
  <1>2. CallsInv /\ Accepts /\ SeenInv /\ PoolInv /\ TypeInv /\ TypeInv' /\ MsgInv /\ MsgInv'
    BY <1>1, PollKeeps DEF ModeInv, ModeBase
  <1>3. CallsInv'
    BY <1>1, <1>2, PollCalls
  <1>4. Told
    BY <1>1, <1>2, PollTold
  <1>5. todo.type = "NONE" /\ NoMsg.type = "NONE"
    BY <1>1 DEF NoMsg
  <1>6. "NONE" \notin Gone \cup {"ACCEPT"} /\ "ACCEPT" \notin Gone
    BY DEF Gone
  <1>7. /\ pollPc # "clear" => pool = Live \ refused
        /\ pollPc = "clear" => pool \ {msg.id} = Live \ refused
    BY <1>2, <1>5, <1>6 DEF PoolInv
  <1>8. pollPc = "clear" => ClearClosedEvent
    BY <1>1 DEF PollThread, StartSocket, ListenSocket, OpenSocket, BindSocket, AddUdpSocket,
             SetUdpAddress, CloseSocket, SendSocket, NoCmd, Wait, SkipEvent, ReportConnect,
             ReportAccept, ForwardMessage, ForwardMessageUdp, SendBuffer,
             StartAccepted, Cmd, Event
  <1>9. alloc_id \in Nat /\ alloc_id' \in Nat /\ alloc_id <= alloc_id'
    <2>1. alloc_id \in Nat /\ alloc_id' \in Nat
      BY <1>2 DEF TypeInv, CallType
    <2>2. ReportAccept => alloc_id' \in {alloc_id, alloc_id + MaxSocket} \/ alloc_id' \in FreeId(alloc_id)
      BY DEF ReportAccept
    <2>3. MaxSocket \in Nat
      BY SlotAssumption
    <2>4. \A i \in FreeId(alloc_id) : alloc_id <= i
      BY <2>1, <2>3 DEF FreeId
    <2> QED BY <1>1, <2>1, <2>2, <2>3, <2>4, PollAlloc
  <1>10. \A id \in pool \cup refused : id \in Nat /\ id <= alloc_id
    BY <1>2 DEF SeenInv, ModeBase, ModeType, Ids
  <1>11. \A id \in pool' \cup refused' : id <= alloc_id'
    BY <1>1, <1>9, <1>10
  <1>12. CASE pollPc' = "event"
    <2>1. pollPc # "clear" /\ todo' = NoMsg
      BY <1>1, <1>8, <1>12 DEF ClearClosedEvent
    <2>2. Live' = Live
      BY <1>4, <1>12 DEF Told
    <2>3. SeenInv' /\ PoolInv'
      BY <1>1, <1>5, <1>6, <1>7, <1>11, <1>12, <2>1, <2>2 DEF SeenInv, PoolInv
    <2> QED BY <1>3, <1>4, <2>3 DEF Told
  <1>13. CASE pollPc' = "clear"
    <2>1. pollPc # "clear" /\ todo' = NoMsg
      BY <1>1, <1>8, <1>13 DEF ClearClosedEvent
    <2>2. Live' = Live \ {msg'.id}
      BY <1>4, <1>13 DEF Told
    <2>3. pool \ {msg'.id} = Live' \ refused
      BY <1>7, <2>1, <2>2
    <2>4. SeenInv' /\ PoolInv'
      BY <1>1, <1>5, <1>6, <1>11, <1>13, <2>1, <2>3 DEF SeenInv, PoolInv
    <2> QED BY <1>3, <1>4, <2>4 DEF Told
  <1>14. CASE pollPc' = "start"
    <2>1. pollPc # "clear" /\ todo' = msg'
      BY <1>1, <1>8, <1>14 DEF ClearClosedEvent
    <2>2. Live' = Live \cup {msg'.id} /\ alloc_id < msg'.id /\ msg'.id <= alloc_id'
      BY <1>4, <1>14 DEF Told
    <2>3. msg'.type = "ACCEPT" /\ msg'.id \in Ids
      <3>1. msg'.id \in Ids
        BY <1>2, <1>14 DEF TypeInv, MsgType
      <3>2. ~ClearClosedEvent
        BY <1>14 DEF ClearClosedEvent
      <3> QED BY <1>1, <1>2, <1>14, <3>1, <3>2, Said
    <2>4. msg'.id \notin refused
      <3>1. msg'.id \in Nat
        BY <2>3 DEF Ids
      <3> QED BY <1>9, <1>10, <2>2, <3>1
    <2>5. pool \cup {msg'.id} = Live' \ refused
      BY <1>7, <2>1, <2>2, <2>4
    <2>6. SeenInv' /\ PoolInv'
      BY <1>1, <1>6, <1>11, <2>1, <2>2, <2>3, <2>5 DEF SeenInv, PoolInv
    <2> QED BY <1>3, <1>4, <2>6 DEF Told
  <1>15. CASE pollPc' = "loop"
    <2>1. todo' = msg' /\ Live' = Live
      BY <1>1, <1>4, <1>15 DEF Told
    <2>2. CASE ClearClosedEvent
      <3>1. pollPc = "clear" /\ UNCHANGED msg
        BY <2>2 DEF ClearClosedEvent
      <3>2. msg.type \in Gone
        BY <1>1, <1>2, <3>1 DEF MsgInv
      <3>3. SeenInv' /\ PoolInv'
        BY <1>1, <1>6, <1>7, <1>11, <2>1, <3>1, <3>2 DEF SeenInv, PoolInv
      <3> QED BY <1>3, <1>4, <3>3 DEF Told
    <2>3. CASE ~ClearClosedEvent
      <3>1. pollPc # "clear"
        BY <1>8, <2>3
      <3>2. ~ReportConnect
        BY <1>2, EventIs DEF ReportConnect, Accepts
      <3>3. msg'.type \notin Gone \cup {"ACCEPT"}
        BY <1>1, <1>2, <1>15, <2>3, <3>2, Said DEF Gone
      <3>4. SeenInv' /\ PoolInv'
        BY <1>1, <1>7, <1>11, <1>15, <2>1, <3>1, <3>3 DEF SeenInv, PoolInv
      <3> QED BY <1>3, <1>4, <3>4 DEF Told
    <2> QED BY <2>2, <2>3
  <1>16. pollPc' \in {"loop", "event", "clear", "start"}
    BY <1>2 DEF TypeInv, MsgType
  <1> QED BY <1>12, <1>13, <1>14, <1>15, <1>16

\* Every step of the game server keeps the pool and the table together.
LEMMA ModeStepPool ==
  OneListener /\ IInv /\ ModeBase /\ ModeInv /\ [ModeNext]_<<vars, modeVars>> => ModeInv'
  <1> SUFFICES ASSUME OneListener, IInv, ModeBase, ModeInv, [ModeNext]_<<vars, modeVars>>
               PROVE  ModeInv'
    OBVIOUS
  <1>1. UNCHANGED vars => /\ UNCHANGED <<failed, alloc_id, pollPc, msg>> /\ Live' = Live
                          /\ CallsInv => CallsInv'
                          /\ Accepts => Accepts'
    BY DEF vars, pollVars, callVars, Live, Connection, CallsInv, Accepts
  <1>2. NoMsg.type = "NONE" /\ "NONE" \notin Gone \cup {"ACCEPT"} /\ "ACCEPT" \notin Gone
        /\ {"DATA", "OPEN", "UDP"} \cap (Gone \cup {"ACCEPT"}) = {}
    BY DEF NoMsg, Gone
  <1>3. ModeType /\ TypeInv
    BY DEF ModeBase
  <1>4. todo # NoMsg => pollPc # "clear"
    BY <1>3 DEF ModeType
  <1>5. CASE Poll
    BY <1>5, PollPool
  <1>6. CASE StartClient
    <2>1. /\ UNCHANGED <<todo, pool, refused, slot, alloc_id, user, used, msg>>
          /\ todo = NoMsg /\ StartAccepted /\ failed = "NONE" /\ pollPc = "start" /\ pollPc' = "loop"
      BY <1>6 DEF StartClient, StartAccepted, modeVars, callVars
    <2>2. CallsInv' /\ Accepts' /\ Live' = Live
      BY <1>3, <2>1, PollCalls, LiveSame DEF ModeInv, PollThread
    <2>3. SeenInv' /\ PoolInv'
      BY <1>2, <2>1, <2>2 DEF ModeInv, SeenInv, PoolInv
    <2> QED BY <2>2, <2>3 DEF ModeInv
  <1>7. CASE NewClient
    <2>1. /\ todo.type = "ACCEPT" /\ todo' = NoMsg /\ UNCHANGED vars
          /\ pool' = pool \cup {todo.id} /\ UNCHANGED refused
      BY <1>7 DEF NewClient, Handle
    <2>2. SUFFICES ASSUME failed = "NONE" PROVE SeenInv' /\ PoolInv'
      BY <1>1, <2>1 DEF ModeInv
    <2>3. pollPc # "clear"
      BY <1>2, <1>4, <2>1
    <2>4. SeenInv'
      BY <1>1, <1>2, <2>1, <2>2 DEF ModeInv, SeenInv
    <2>5. PoolInv'
      BY <1>1, <1>2, <2>1, <2>2, <2>3 DEF ModeInv, PoolInv
    <2> QED BY <2>4, <2>5
  <1>8. CASE CloseClient
    <2>1. /\ todo.type \in Gone /\ todo' = NoMsg /\ UNCHANGED vars
          /\ pool' = pool \ {todo.id} /\ UNCHANGED refused
      BY <1>8 DEF CloseClient, Handle, RemoveClient, Gone
    <2>2. SUFFICES ASSUME failed = "NONE" PROVE SeenInv' /\ PoolInv'
      BY <1>1, <2>1 DEF ModeInv
    <2>3. pollPc # "clear"
      BY <1>2, <1>4, <2>1
    <2>4. SeenInv'
      BY <1>1, <1>2, <2>1, <2>2 DEF ModeInv, SeenInv
    <2>5. PoolInv'
      BY <1>1, <1>2, <2>1, <2>2, <2>3 DEF ModeInv, PoolInv
    <2> QED BY <2>4, <2>5
  <1>9. CASE MessageData \/ SocketOpen
    <2>1. /\ todo.type \in {"DATA", "OPEN", "UDP"} /\ todo' = NoMsg /\ UNCHANGED vars
          /\ \/ UNCHANGED <<pool, refused>>
             \/ /\ todo.id \in pool /\ pool' = pool \ {todo.id}
                /\ refused' = refused \cup {todo.id}
      BY <1>9, MessageDataIs DEF SocketOpen, Handle
    <2>2. SUFFICES ASSUME failed = "NONE" PROVE SeenInv' /\ PoolInv'
      BY <1>1, <2>1 DEF ModeInv
    <2>3. pollPc # "clear" /\ todo.type \notin Gone \cup {"ACCEPT"}
      BY <1>2, <1>4, <2>1
    <2>4. SeenInv'
      BY <1>1, <1>2, <2>1, <2>2 DEF ModeInv, SeenInv
    <2>5. pool = Live \ refused
      BY <2>2, <2>3 DEF ModeInv, PoolInv
    <2>6. pool' = Live \ refused'
      BY <2>1, <2>5
    <2>7. PoolInv'
      BY <1>1, <1>2, <2>1, <2>3, <2>6 DEF PoolInv
    <2> QED BY <2>4, <2>7
  <1>10. CASE UNCHANGED <<vars, todo, pool, refused>>
    BY <1>1, <1>10 DEF ModeInv, SeenInv, PoolInv
  <1>11. ASSUME NEW u \in Users, SendAnswer(u)
         PROVE  ModeInv'
    BY <1>10, <1>11, SendAnswerIs
  <1>12. ASSUME NEW u \in Users, Caller(u), UNCHANGED modeVars
         PROVE  ModeInv'
    <2>1. failed = "NONE"
      BY <1>12 DEF Caller, Listen, Connect, Udp, Bind, Open, ReserveFetch, ReserveLook, ReserveCas,
                   ReserveSetId, Send, Close, SendRequest, UdpConnect, Call
    <2>2. CallsInv /\ Accepts /\ SeenInv /\ PoolInv
      BY <2>1 DEF ModeInv
    <2>3. /\ CallsInv' /\ Accepts' /\ Live' = Live
          /\ alloc_id' \in Nat /\ alloc_id <= alloc_id'
          /\ UNCHANGED <<pollPc, msg, failed>>
      BY <1>12, <2>2, CallerTold
    <2>4. UNCHANGED <<todo, pool, refused>>
      BY <1>12 DEF modeVars
    <2>5. alloc_id \in Nat /\ (\A id \in pool \cup refused : id \in Nat)
          /\ (todo.type = "ACCEPT" => todo.id \in Nat)
      BY <1>3 DEF TypeInv, CallType, ModeType, Ids
    <2>6. SeenInv'
      BY <2>2, <2>3, <2>4, <2>5 DEF SeenInv
    <2>7. PoolInv'
      BY <2>2, <2>3, <2>4 DEF PoolInv
    <2> QED BY <2>3, <2>6, <2>7 DEF ModeInv
  <1>13. CASE UNCHANGED <<vars, modeVars>>
    BY <1>10, <1>13 DEF modeVars
  <1> QED BY <1>5, <1>6, <1>7, <1>8, <1>9, <1>11, <1>12, <1>13 DEF ModeNext

\* At the start the pool and the table are empty.
LEMMA ModeStartPool == ModeInit => ModeInv
  <1> SUFFICES ASSUME ModeInit PROVE ModeInv
    OBVIOUS
  <1>1. Init /\ todo = NoMsg /\ pool = {} /\ refused = {}
    BY DEF ModeInit
  <1>2. CallsInv
    BY <1>1, IdleIs DEF Init, CallsInv, Calls
  <1>3. Accepts /\ Live = {}
    <2>1. \A n \in Table : slot[n].type = "INVALID"
      BY <1>1 DEF Init
    <2>2. \A id \in Ids : ~Connection(id)
      BY <2>1, IdSlots DEF Connection
    <2> QED BY <2>1, <2>2 DEF Accepts, Live
  <1>4. SeenInv /\ PoolInv
    BY <1>1, <1>3 DEF SeenInv, PoolInv, NoMsg, Gone, Init
  <1> QED BY <1>2, <1>3, <1>4 DEF ModeInv

\* For a program that opens one socket, the one it listens on, the clients in
\* the pool are the accepted connections whenever _ProcessOneLoop is about to
\* poll again, without those dropped for a bad frame.
THEOREM PoolFollowsSlots == OneListener => (ModeSpec => []PoolMatchesSlots)
  <1> SUFFICES ASSUME OneListener PROVE ModeSpec => []PoolMatchesSlots
    OBVIOUS
  <1>1. IInv /\ [Next]_vars => IInv'
    BY NextPhase DEF OneListener
  <1>2. ModeSpec => []IInv
    BY <1>1, InitPhase, ModeImplementsServer, PTL DEF Spec
  <1>3. IInv /\ ModeBase /\ ModeInv /\ [ModeNext]_<<vars, modeVars>> => ModeInv'
    BY ModeStepPool
  <1>4. ModeSpec => []ModeInv
    BY <1>2, <1>3, ModeStartPool, ModeTyped, PTL DEF ModeSpec
  <1>5. ModeInv => PoolMatchesSlots
    <2> SUFFICES ASSUME ModeInv, todo = NoMsg, pollPc # "clear", failed = "NONE"
                 PROVE  pool = { id \in Ids : Connection(id) } \ refused
      BY DEF PoolMatchesSlots
    <2>1. todo.type \notin Gone \cup {"ACCEPT"}
      BY DEF NoMsg, Gone
    <2> QED BY <2>1 DEF ModeInv, PoolInv, Live
  <1> QED BY <1>4, <1>5, PTL
=============================================================================
