---------------------------- MODULE SocketServer ----------------------------
(***************************************************************************)
(* The epoll socket server: a table of slots, a pipe of control requests   *)
(* written by any thread, and one poll thread that executes the requests   *)
(* and the events of a batch that epoll_wait returned.  Sockets are TCP,   *)
(* UDP or a foreign descriptor that was bound; no user objects (packets    *)
(* sent with sz < 0).                                                      *)
(*                                                                         *)
(* A slot belongs to the poll thread, except that any thread may turn it   *)
(* from INVALID to RESERVE (reserve_id) and then write its id.  What the   *)
(* poll thread does between two such points is one step.                   *)
(*                                                                         *)
(* A descriptor is named by the id of its socket.  A write buffer is kept  *)
(* as the chunks of its packet that are still to be written, so that a     *)
(* list of write buffers is a sequence of chunks.  A datagram has an       *)
(* address; what matters of it is whether it fits the protocol of the      *)
(* socket, since sendto() fails when it does not.                          *)
(***************************************************************************)
EXTENDS Integers, Sequences, FiniteSets

CONSTANTS
  Users,          \* threads that call the socket_server_* interface
  MaxSocket,      \* MAX_SOCKET: slots
  PipeCap,        \* requests the control pipe holds
  MaxEvent,       \* MAX_EVENT: events of one batch
  PktLen,         \* chunks of a packet
  MaxId,          \* bound: ids given out
  MaxOpens,       \* bound: sockets that the callers make, of all kinds
  MaxListens,     \* bound: socket_server_listen calls
  MaxConnects,    \* bound: socket_server_connect calls
  MaxUdps,        \* bound: socket_server_udp and socket_server_udp_connect calls
  MaxBinds,       \* bound: socket_server_bind calls
  MaxSends,       \* bound: send requests
  MaxCloses       \* bound: socket_server_close calls

ASSUME SlotAssumption == MaxSocket \in Nat \ {0} /\ MaxEvent \in Nat \ {0}
ASSUME PipeAssumption == PipeCap \in Nat \ {0} /\ PktLen \in Nat \ {0}
ASSUME BoundAssumption ==
  {MaxId, MaxOpens, MaxListens, MaxConnects, MaxUdps, MaxBinds, MaxSends, MaxCloses}
    \subseteq Nat

Ids == 1 .. MaxId
Nil == 0                                  \* no id, no packet, fd = -1
Table == 0 .. (MaxSocket - 1)
HASH_ID(id) == id % MaxSocket
NoSlot == MaxSocket                       \* e->s = NULL

Types == {"INVALID", "RESERVE", "PLISTEN", "LISTEN", "CONNECTING",
          "CONNECTED", "HALFCLOSE", "PACCEPT", "BIND"}
Kinds == {"tcp", "udp", "bound"}
Chunk == [pkt : 1 .. MaxSends, at : 1 .. PktLen, low : BOOLEAN, fits : BOOLEAN]
Request == [op : {"S", "L", "K", "O", "U", "B", "C", "D", "P", "A"}, id : Ids,
            pkt : 0 .. MaxSends, fits : BOOLEAN]
NoMsg == [type |-> "NONE", id |-> Nil]

VARIABLES
  alloc_id,       \* ss->alloc_id
  slot,           \* ss->slot
  opened,         \* descriptors that are open
  epoll,          \* what epoll watches a descriptor for
  ctrl,           \* requests in the control pipe
  checkctrl,      \* ss->checkctrl
  ev,             \* ss->ev from event_index on; fd: who the event is about (history)
  pollPc,         \* poll thread: in the loop, or at the end of a handler
  msg,            \* the message socket_server_poll returned last
  user,           \* calls in progress
  known,          \* ids of connections that the callers have seen
  used,           \* calls made so far, by kind
  freed,          \* history: packets freed by the poll thread
  wire,           \* history: chunks written to a descriptor
  failed          \* the assertion that stopped the program, if one did

fdVars == <<opened, epoll>>
pollVars == <<checkctrl, ev, pollPc, msg>>
callVars == <<user, known, used>>
histVars == <<freed, wire>>
vars == <<alloc_id, slot, fdVars, ctrl, pollVars, callVars, histVars, failed>>

-----------------------------------------------------------------------------
(* Write buffers                                                           *)

\* append_sendbuffer_: packet p without its first n chunks.
Chunks(p, low, fits, n) ==
  [i \in 1 .. (PktLen - n) |-> [pkt |-> p, at |-> n + i, low |-> low, fits |-> fits]]

Packets(list) == { list[i].pkt : i \in DOMAIN list }

\* Fault: the low list is not looked at.
SendBufferEmptyHigh(s) == s.high = <<>>

send_buffer_empty(s) == s.high = <<>> /\ s.low = <<>>

\* Fault: a partly written buffer is not noticed.
ListNeverUncomplete(list) == FALSE

\* list_uncomplete: ptr is not at the start of buffer.
list_uncomplete(list) == list # <<>> /\ Head(list).at # 1

\* Fault: the raised buffer stays on the low list too.
RaiseKeepsLow(s) ==
  LET n == Cardinality({ i \in DOMAIN s.low : s.low[i].pkt = Head(s.low).pkt })
  IN [s EXCEPT !.high = SubSeq(s.low, 1, n)]

\* Fault: the partly written buffer stays on the low list.
RaiseNothing(s) == s

\* raise_uncomplete: the head of low is moved to the empty high list.
raise_uncomplete(s) ==
  LET n == Cardinality({ i \in DOMAIN s.low : s.low[i].pkt = Head(s.low).pkt })
  IN [s EXCEPT !.high = SubSeq(s.low, 1, n),
               !.low = SubSeq(s.low, n + 1, Len(s.low))]

\* Fault: wb_size loses the length of the whole queue.
WrittenForgets(s, n) ==
  LET h == Len(s.high)
  IN [s EXCEPT !.high = IF n < h THEN SubSeq(s.high, n + 1, h) ELSE <<>>,
               !.low = IF n > h THEN SubSeq(s.low, n - h + 1, Len(s.low)) ELSE s.low,
               !.wb_size = @ - h - Len(s.low) - 1]

\* send_list on high and then, if all of it went, on low: n chunks go.
Written(s, n) ==
  LET h == Len(s.high)
      t == [s EXCEPT !.high = IF n < h THEN SubSeq(s.high, n + 1, h) ELSE <<>>,
                     !.low = IF n > h THEN SubSeq(s.low, n - h + 1, Len(s.low))
                                      ELSE s.low,
                     !.wb_size = @ - n]
  IN IF t.high = <<>> /\ s.low # <<>> /\ list_uncomplete(t.low)
     THEN raise_uncomplete(t) ELSE t

-----------------------------------------------------------------------------
(* Steps of the poll thread are built from these                           *)

\* The handler returned -1: the loop of socket_server_poll goes on.
Continue == pollPc' = "loop" /\ msg' = NoMsg

\* The handler returned type t for id; pc is what the poll thread does next.
Return(t, id, pc) == pollPc' = pc /\ msg' = [type |-> t, id |-> id]

\* assert(...): the program stops.
Abort(a) ==
  /\ failed' = a
  /\ UNCHANGED <<alloc_id, slot, fdVars, pollPc, msg, histVars>>

\* force_close of slot n, which held t, after it wrote the chunks out.  The
\* descriptor of a BIND socket stays open.
force_close(n, t, out) ==
  /\ slot' = [slot EXCEPT ![n] = [t EXCEPT !.type = "INVALID", !.high = <<>>,
                                           !.low = <<>>]]
  /\ opened' = IF t.type = "BIND" THEN opened ELSE opened \ {t.fd}
  /\ epoll' = IF t.fd = Nil THEN epoll ELSE [epoll EXCEPT ![t.fd] = "NONE"]
  /\ freed' = freed \cup Packets(slot[n].high) \cup Packets(slot[n].low)
  /\ wire' = IF out = <<>> THEN wire ELSE [wire EXCEPT ![t.fd] = @ \o out]
  /\ UNCHANGED <<alloc_id, failed>>

\* force_close called on slot n in any state, and what the caller is told.
CloseSlot(n, out, t, id, pc) ==
  CASE slot[n].type = "RESERVE" -> Abort("reserve")
    [] slot[n].type = "INVALID" ->
         /\ Return(t, id, pc)
         /\ UNCHANGED <<alloc_id, slot, fdVars, histVars, failed>>
    [] OTHER -> force_close(n, slot[n], out) /\ Return(t, id, pc)

\* Fault: write interest is never switched on.
WatchNever(fd, w) == epoll

\* sp_write and sp_del: epoll_ctl fails on a descriptor it does not know.
Watch(fd, w) ==
  IF fd # Nil /\ epoll[fd] # "NONE" THEN [epoll EXCEPT ![fd] = w] ELSE epoll

Queued(s) == s.high \o s.low

\* send_list_udp: datagrams go whole, and the first one that sendto() does not
\* take stays at the head, whatever the error.
TakesUdp(s) ==
  { k \in 0 .. Len(Queued(s)) :
      k % PktLen = 0 /\ \A i \in 1 .. k : Queued(s)[i].fits }

\* How many chunks may be taken from the queue of s without closing it.  A
\* close may find a connection that was made after the last look at the events.
Takes(s) ==
  { k \in 0 .. Len(Queued(s)) :
      /\ send_buffer_empty(s) \/ s.fd \in opened
      /\ s.kind = "udp" => k \in TakesUdp(s) }

\* send_list: n goes on with type next after k chunks were written.
WriteOut(n, k, next) ==
  LET s == slot[n]
      t == [Written(s, k) EXCEPT !.type = next]
  IN /\ slot' = [slot EXCEPT ![n] = t]
     /\ wire' = IF k = 0 THEN wire
                ELSE [wire EXCEPT ![s.fd] = @ \o SubSeq(Queued(s), 1, k)]
     /\ freed' = freed \cup (Packets(Queued(s)) \ Packets(Queued(t)))
     /\ UNCHANGED <<alloc_id, opened, failed>>

\* send_list_tcp: a write() fails after k chunks, and the slot is closed.
WriteFails(n) ==
  /\ slot[n].kind # "udp"
  /\ \E k \in 0 .. (Len(Queued(slot[n])) - 1) :
       /\ k = 0 \/ k \in Takes(slot[n])
       /\ CloseSlot(n, SubSeq(Queued(slot[n]), 1, k), "CLOSE", slot[n].id, "clear")

-----------------------------------------------------------------------------
(* Poll thread: control requests                                           *)

Cmd(op) == /\ failed = "NONE" /\ pollPc = "loop" /\ checkctrl
           /\ ctrl # <<>> /\ Head(ctrl).op \in op
           /\ ctrl' = Tail(ctrl)
           /\ UNCHANGED <<checkctrl, ev, callVars>>

\* type == SOCKET_TYPE_INVALID || s->id != id
Stale(s, id) == s.type = "INVALID" \/ s.id # id

\* Fault: the slot keeps the descriptor it had.
NewFdKeepsFd(id, t, w, k) ==
  slot' = [slot EXCEPT ![HASH_ID(id)] =
             [@ EXCEPT !.type = t, !.id = id, !.wb_size = 0, !.kind = k, !.peer = FALSE]]
  /\ epoll' = [epoll EXCEPT ![id] = w]

\* new_fd on the slot of id, registered with epoll as w, then given type t.
new_fd(id, t, w, k) ==
  slot' = [slot EXCEPT ![HASH_ID(id)] =
             [@ EXCEPT !.type = t, !.id = id, !.fd = id, !.wb_size = 0,
                       !.kind = k, !.peer = FALSE]]
  /\ epoll' = [epoll EXCEPT ![id] = w]

\* The assertions of new_fd.
NewFdAsserts(s) ==
  IF s.type # "RESERVE" THEN "new_fd" ELSE IF ~send_buffer_empty(s) THEN "wb_list" ELSE "NONE"

\* The slot is given up and the caller told.
Discard(id, closes) ==
  /\ slot' = [slot EXCEPT ![HASH_ID(id)].type = "INVALID"]
  /\ opened' = opened \ closes
  /\ Return("ERROR", id, "clear")
  /\ UNCHANGED <<alloc_id, epoll, histVars, failed>>

\* start_socket; when sp_add fails the descriptor stays open.
StartSocket ==
  /\ Cmd({"S"})
  /\ LET id == Head(ctrl).id
         s == slot[HASH_ID(id)]
     IN \/ /\ Stale(s, id)
           /\ Return("ERROR", id, "clear")
           /\ UNCHANGED <<alloc_id, slot, fdVars, histVars, failed>>
        \/ /\ ~Stale(s, id) /\ s.type \in {"PACCEPT", "PLISTEN"}
           /\ \/ Discard(id, {})
              \/ /\ slot' = [slot EXCEPT ![HASH_ID(id)].type =
                               IF @ = "PACCEPT" THEN "CONNECTED" ELSE "LISTEN"]
                 /\ epoll' = [epoll EXCEPT ![s.fd] = "IN"]
                 /\ Return("OPEN", id, "loop")
                 /\ UNCHANGED <<alloc_id, opened, histVars, failed>>
        \/ /\ ~Stale(s, id) /\ s.type = "CONNECTED"
           /\ Return("OPEN", id, "loop")
           /\ UNCHANGED <<alloc_id, slot, fdVars, histVars, failed>>
        \/ /\ ~Stale(s, id) /\ s.type \notin {"PACCEPT", "PLISTEN", "CONNECTED"}
           /\ Continue
           /\ UNCHANGED <<alloc_id, slot, fdVars, histVars, failed>>

\* listen_socket
ListenSocket ==
  /\ Cmd({"L"})
  /\ LET id == Head(ctrl).id
         a == NewFdAsserts(slot[HASH_ID(id)])
     IN IF a # "NONE" THEN Abort(a)
        ELSE /\ new_fd(id, "PLISTEN", "NONE", "tcp")
             /\ Continue
             /\ UNCHANGED <<alloc_id, opened, histVars, failed>>

\* open_socket: connect() fails, is done at once, or is in progress.
OpenSocket ==
  /\ Cmd({"O"})
  /\ LET id == Head(ctrl).id
         a == NewFdAsserts(slot[HASH_ID(id)])
     IN \/ Discard(id, {id})
        \/ IF a # "NONE" THEN Abort(a)
           ELSE /\ \/ new_fd(id, "CONNECTED", "IN", "tcp") /\ Return("OPEN", id, "loop")
                   \/ new_fd(id, "CONNECTING", "INOUT", "tcp") /\ Continue
                /\ opened' = opened \cup {id}
                /\ UNCHANGED <<alloc_id, histVars, failed>>

\* bind_socket; sp_add comes between the two assertions of new_fd.
BindSocket ==
  /\ Cmd({"B"})
  /\ LET id == Head(ctrl).id
         s == slot[HASH_ID(id)]
         a == NewFdAsserts(s)
     IN \/ s.type = "RESERVE" /\ Discard(id, {})
        \/ IF a # "NONE" THEN Abort(a)
           ELSE /\ new_fd(id, "BIND", "IN", "bound")
                /\ Return("OPEN", id, "loop")
                /\ UNCHANGED <<alloc_id, opened, histVars, failed>>

\* add_udp_socket: when sp_add fails nobody is told.
AddUdpSocket ==
  /\ Cmd({"U"})
  /\ Continue
  /\ LET id == Head(ctrl).id
         s == slot[HASH_ID(id)]
         a == NewFdAsserts(s)
     IN \/ /\ s.type = "RESERVE"
           /\ slot' = [slot EXCEPT ![HASH_ID(id)].type = "INVALID"]
           /\ opened' = opened \ {id}
           /\ UNCHANGED <<alloc_id, epoll, histVars, failed>>
        \/ IF a # "NONE" THEN failed' = a /\ UNCHANGED <<alloc_id, slot, fdVars, histVars>>
           ELSE /\ new_fd(id, "CONNECTED", "IN", "udp")
                /\ UNCHANGED <<alloc_id, opened, histVars, failed>>

\* set_udp_address: an address of another protocol is an error.
SetUdpAddress ==
  /\ Cmd({"C"})
  /\ LET r == Head(ctrl)
         s == slot[HASH_ID(r.id)]
     IN CASE Stale(s, r.id) -> Continue /\ UNCHANGED slot
          [] ~Stale(s, r.id) /\ s.kind = "udp" /\ r.fits ->
               slot' = [slot EXCEPT ![HASH_ID(r.id)].peer = TRUE] /\ Continue
          [] OTHER -> Return("ERROR", r.id, "clear") /\ UNCHANGED slot
  /\ UNCHANGED <<alloc_id, fdVars, histVars, failed>>

\* close_socket: what is queued is written first; the rest keeps the socket
\* half closed.
CloseSocket ==
  /\ Cmd({"K"})
  /\ LET id == Head(ctrl).id
         n == HASH_ID(id)
         s == slot[n]
     IN IF Stale(s, id)
        THEN /\ Return("CLOSE", id, "clear")
             /\ UNCHANGED <<alloc_id, slot, fdVars, histVars, failed>>
        ELSE IF list_uncomplete(s.low) THEN Abort("uncomplete")
        ELSE \/ WriteFails(n)
             \/ \E k \in Takes(s) :
                  IF k = Len(Queued(s))
                  THEN CloseSlot(n, Queued(s), "CLOSE", id, "clear")
                  ELSE /\ WriteOut(n, k, "HALFCLOSE")
                       /\ Continue
                       /\ UNCHANGED epoll

\* send_socket.  A write that fails at once loses the buffer; a sendto() that
\* fails leaves the datagram to the write events.
SendSocket ==
  /\ Cmd({"D", "P", "A"})
  /\ LET r == Head(ctrl)
         n == HASH_ID(r.id)
         s == slot[n]
         low == r.op = "P"
         udp == s.kind = "udp"
         fits == IF ~udp THEN TRUE ELSE IF r.op = "A" THEN r.fits ELSE s.peer
         pkt(k) == Chunks(r.pkt, low, fits, k)
         append(toLow, k) ==
           IF toLow THEN [s EXCEPT !.low = @ \o pkt(k), !.wb_size = @ + PktLen - k]
                    ELSE [s EXCEPT !.high = @ \o pkt(k), !.wb_size = @ + PktLen - k]
     IN CASE Stale(s, r.id) \/ s.type \in {"HALFCLOSE", "PACCEPT"} ->
               /\ freed' = freed \cup {r.pkt}
               /\ Continue
               /\ UNCHANGED <<alloc_id, slot, fdVars, wire, failed>>
          [] ~Stale(s, r.id) /\ s.type \in {"PLISTEN", "LISTEN"} -> Abort("listen")
          [] ~Stale(s, r.id) /\ s.type = "CONNECTED" /\ send_buffer_empty(s) ->
               \/ ~udp /\ CloseSlot(n, <<>>, "CLOSE", s.id, "clear")
               \/ \E k \in IF ~udp THEN 0 .. PktLen
                           ELSE IF fits THEN {0, PktLen} ELSE {0} :
                    /\ slot' = IF k = PktLen THEN slot
                               ELSE [slot EXCEPT ![n] = append(udp /\ low, k)]
                    /\ epoll' = IF k = PktLen THEN epoll ELSE Watch(s.fd, "INOUT")
                    /\ freed' = IF k = PktLen THEN freed \cup {r.pkt} ELSE freed
                    /\ wire' = [wire EXCEPT ![s.fd] = @ \o SubSeq(pkt(0), 1, k)]
                    /\ Continue
                    /\ UNCHANGED <<alloc_id, opened, failed>>
          [] OTHER ->
               /\ slot' = [slot EXCEPT ![n] = append(low, 0)]
               /\ Continue
               /\ UNCHANGED <<alloc_id, fdVars, histVars, failed>>

-----------------------------------------------------------------------------
(* Poll thread: events                                                     *)

\* has_cmd said no, or was not asked.
NoCmd ==
  /\ failed = "NONE" /\ pollPc = "loop" /\ (checkctrl => ctrl = <<>>)
  /\ checkctrl' = FALSE /\ pollPc' = "event" /\ msg' = NoMsg
  /\ UNCHANGED <<alloc_id, slot, fdVars, ctrl, ev, callVars, histVars, failed>>

\* What epoll can say of descriptor fd (Nil: the control pipe).  sp_wait keeps
\* EPOLLIN and EPOLLOUT only, so an error or a hangup alone sets neither flag.
Reports(fd) ==
  IF fd = Nil THEN {[s |-> NoSlot, fd |-> Nil, read |-> TRUE, write |-> FALSE]}
  ELSE { e \in [s : {HASH_ID(fd)}, fd : {fd}, read : BOOLEAN, write : BOOLEAN] :
           e.write => epoll[fd] = "INOUT" }

\* sp_wait: a batch of events, each about another descriptor.
Wait ==
  LET ready == { fd \in Ids : epoll[fd] # "NONE" } \cup
               (IF ctrl = <<>> THEN {} ELSE {Nil})
  IN /\ failed = "NONE" /\ pollPc = "event" /\ ev = <<>>
     /\ \E n \in 1 .. MaxEvent : \E fds \in [1 .. n -> ready] :
          /\ \A i, j \in 1 .. n : fds[i] = fds[j] => i = j
          /\ ev' \in { b \in [1 .. n -> UNION { Reports(fd) : fd \in ready }] :
                         \A i \in 1 .. n : b[i].fd = fds[i] }
     /\ checkctrl' = TRUE
     /\ UNCHANGED <<alloc_id, slot, fdVars, ctrl, pollPc, msg, callVars, histVars, failed>>

Event(types) == /\ failed = "NONE" /\ pollPc = "event" /\ ev # <<>>
                /\ Head(ev).s # NoSlot /\ slot[Head(ev).s].type \in types
                /\ UNCHANGED <<ctrl, checkctrl>>

\* What the switch of socket_server_poll treats as a stream.
Streams == Types \ {"INVALID", "CONNECTING", "LISTEN"}

\* An event of the pipe, of a closed socket, or about neither read nor write.
SkipEvent ==
  /\ failed = "NONE" /\ pollPc = "event" /\ ev # <<>>
  /\ \/ Head(ev).s = NoSlot
     \/ Head(ev).s # NoSlot /\ slot[Head(ev).s].type = "INVALID"
     \/ /\ Head(ev).s # NoSlot /\ slot[Head(ev).s].type \in Streams
        /\ ~Head(ev).read /\ ~Head(ev).write
  /\ ev' = Tail(ev)
  /\ Continue
  /\ UNCHANGED <<alloc_id, slot, fdVars, ctrl, checkctrl, callVars, histVars, failed>>

\* report_connect
ReportConnect ==
  /\ Event({"CONNECTING"})
  /\ ev' = Tail(ev)
  /\ LET n == Head(ev).s
         s == slot[n]
     IN \/ CloseSlot(n, <<>>, "ERROR", s.id, "loop")
        \/ /\ slot' = [slot EXCEPT ![n].type = "CONNECTED"]
           /\ epoll' = IF send_buffer_empty(s) THEN Watch(s.fd, "IN") ELSE epoll
           /\ Return("OPEN", s.id, "loop")
           /\ UNCHANGED <<alloc_id, opened, histVars, failed>>
  /\ UNCHANGED callVars

\* reserve_id, called by the poll thread: the first id whose slot is free.
FreeId(from) ==
  { i \in (from + 1) .. (from + MaxSocket) :
      /\ slot[HASH_ID(i)].type = "INVALID"
      /\ \A j \in (from + 1) .. (i - 1) : slot[HASH_ID(j)].type # "INVALID" }

\* report_accept: accept() fails, no slot is free, or a connection is there.
ReportAccept ==
  /\ Event({"LISTEN"})
  /\ ev' = Tail(ev)
  /\ \/ Continue /\ UNCHANGED <<alloc_id, slot, fdVars, known, failed>>
     \/ /\ FreeId(alloc_id) = {} /\ alloc_id + MaxSocket <= MaxId
        /\ alloc_id' = alloc_id + MaxSocket
        /\ Continue
        /\ UNCHANGED <<slot, fdVars, known, failed>>
     \/ \E id \in FreeId(alloc_id) \cap Ids :
          /\ alloc_id' = id
          /\ IF send_buffer_empty(slot[HASH_ID(id)])
             THEN /\ new_fd(id, "PACCEPT", "NONE", "tcp")
                  /\ opened' = opened \cup {id}
                  /\ known' = known \cup {id}
                  /\ Return("ACCEPT", id, "start")
                  /\ UNCHANGED failed
             ELSE failed' = "wb_list" /\ UNCHANGED <<slot, fdVars, pollPc, msg, known>>
  /\ UNCHANGED <<user, used, histVars>>

\* forward_message_tcp.  A write flag leaves the event for the next round.
ForwardMessage ==
  /\ Event(Streams) /\ Head(ev).read /\ slot[Head(ev).s].kind # "udp"
  /\ ev' = IF Head(ev).write THEN [ev EXCEPT ![1].read = FALSE] ELSE Tail(ev)
  /\ LET n == Head(ev).s
         s == slot[n]
         canRead == s.fd \in opened /\ s.type # "PLISTEN"
     IN \/ CloseSlot(n, <<>>, "ERROR", s.id, "clear")
        \/ canRead /\ CloseSlot(n, <<>>, "CLOSE", s.id, "clear")
        \/ /\ canRead
           /\ \/ Continue
              \/ s.type # "HALFCLOSE" /\ Return("DATA", s.id, "loop")
           /\ UNCHANGED <<alloc_id, slot, fdVars, histVars, failed>>
  /\ UNCHANGED callVars

\* forward_message_udp.  After a datagram the event stays, to read the next.
ForwardMessageUdp ==
  /\ Event(Streams) /\ Head(ev).read /\ slot[Head(ev).s].kind = "udp"
  /\ LET n == Head(ev).s
         next == IF Head(ev).write THEN [ev EXCEPT ![1].read = FALSE] ELSE Tail(ev)
     IN \/ /\ CloseSlot(n, <<>>, "ERROR", slot[n].id, "clear")
           /\ ev' = next
        \/ /\ \/ Continue /\ ev' = next
              \/ Return("UDP", slot[n].id, "loop") /\ UNCHANGED ev
           /\ UNCHANGED <<alloc_id, slot, fdVars, histVars, failed>>
  /\ UNCHANGED callVars

\* send_buffer, called for a write event.
SendBuffer ==
  /\ Event(Streams) /\ ~Head(ev).read /\ Head(ev).write
  /\ ev' = Tail(ev)
  /\ LET n == Head(ev).s
         s == slot[n]
     IN IF list_uncomplete(s.low) THEN Abort("uncomplete")
        ELSE \/ WriteFails(n)
             \/ \E k \in Takes(s) :
                  IF s.low = <<>> /\ k = Len(s.high)
                  THEN IF s.type = "HALFCLOSE"
                       THEN CloseSlot(n, s.high, "CLOSE", s.id, "clear")
                       ELSE /\ WriteOut(n, k, s.type)
                            /\ epoll' = Watch(s.fd, "IN")
                            /\ Continue
                  ELSE WriteOut(n, k, s.type) /\ Continue /\ UNCHANGED epoll
  /\ UNCHANGED callVars

\* Fault: the events of the closed socket stay in the batch.
ClearNothing ==
  /\ failed = "NONE" /\ pollPc = "clear"
  /\ pollPc' = "loop"
  /\ UNCHANGED <<alloc_id, slot, fdVars, ctrl, checkctrl, ev, msg, callVars, histVars, failed>>

\* clear_closed_event: what is left of the batch forgets the closed socket.
ClearClosedEvent ==
  /\ failed = "NONE" /\ pollPc = "clear"
  /\ ev' = [i \in DOMAIN ev |->
              IF /\ ev[i].s # NoSlot
                 /\ slot[ev[i].s].type = "INVALID" /\ slot[ev[i].s].id = msg.id
              THEN [ev[i] EXCEPT !.s = NoSlot] ELSE ev[i]]
  /\ pollPc' = "loop"
  /\ UNCHANGED <<alloc_id, slot, fdVars, ctrl, checkctrl, msg, callVars, histVars, failed>>

\* _ProcessOneLoop, SOCKET_ACCEPT: the poll thread itself writes to the pipe.
StartAccepted ==
  /\ failed = "NONE" /\ pollPc = "start" /\ Len(ctrl) < PipeCap
  /\ ctrl' = Append(ctrl, [op |-> "S", id |-> msg.id, pkt |-> Nil, fits |-> TRUE])
  /\ pollPc' = "loop"
  /\ UNCHANGED <<alloc_id, slot, fdVars, checkctrl, ev, msg, callVars, histVars, failed>>

-----------------------------------------------------------------------------
(* Calling threads                                                         *)

Idle == [pc |-> "idle", tries |-> 0,
         req |-> [op |-> "K", id |-> Nil, pkt |-> Nil, fits |-> TRUE]]

Call(u, pc) == /\ failed = "NONE" /\ user[u].pc = pc
               /\ UNCHANGED <<fdVars, pollVars, histVars, failed>>

\* socket_server_listen and socket_server_udp (the descriptor is there),
\* socket_server_connect and socket_server_bind begin with reserve_id.
Open(u, op) ==
  /\ Call(u, "idle")
  /\ used["L"] + used["O"] + used["U"] + used["B"] < MaxOpens
  /\ used' = [used EXCEPT ![op] = @ + 1]
  /\ user' = [user EXCEPT ![u] = [Idle EXCEPT !.pc = "fetch", !.req.op = op]]
  /\ UNCHANGED <<alloc_id, slot, ctrl, known>>

Listen(u) == used["L"] < MaxListens /\ Open(u, "L")
Connect(u) == used["O"] < MaxConnects /\ Open(u, "O")
Udp(u) == used["U"] < MaxUdps /\ Open(u, "U")
Bind(u) == used["B"] < MaxBinds /\ Open(u, "B")

\* reserve_id: __sync_add_and_fetch; MAX_SOCKET tries and then -1.
ReserveFetch(u) ==
  /\ Call(u, "fetch") /\ alloc_id < MaxId
  /\ IF user[u].tries = MaxSocket
     THEN user' = [user EXCEPT ![u] = Idle] /\ UNCHANGED alloc_id
     ELSE /\ alloc_id' = alloc_id + 1
          /\ user' = [user EXCEPT ![u] = [@ EXCEPT !.pc = "look", !.req.id = alloc_id + 1]]
  /\ UNCHANGED <<slot, ctrl, known, used>>

\* reserve_id: is the slot free?  If not, one try is used up.
ReserveLook(u) ==
  /\ Call(u, "look")
  /\ user' = IF slot[HASH_ID(user[u].req.id)].type = "INVALID"
             THEN [user EXCEPT ![u].pc = "cas"]
             ELSE [user EXCEPT ![u].pc = "fetch", ![u].tries = @ + 1]
  /\ UNCHANGED <<alloc_id, slot, ctrl, known, used>>

\* reserve_id: the slot is taken, unless the other thread was faster; then the
\* next id is tried and the try does not count.
ReserveCas(u) ==
  LET n == HASH_ID(user[u].req.id)
      free == slot[n].type = "INVALID"
  IN /\ Call(u, "cas")
     /\ slot' = IF free THEN [slot EXCEPT ![n].type = "RESERVE"] ELSE slot
     /\ user' = [user EXCEPT ![u].pc = IF free THEN "setid" ELSE "fetch"]
     /\ UNCHANGED <<alloc_id, ctrl, known, used>>

\* reserve_id: s->id and s->fd are written after the slot was taken.
ReserveSetId(u) ==
  LET r == user[u].req
  IN /\ failed = "NONE" /\ user[u].pc = "setid"
     /\ slot' = [slot EXCEPT ![HASH_ID(r.id)] = [@ EXCEPT !.id = r.id, !.fd = Nil]]
     /\ opened' = IF r.op \in {"L", "U", "B"} THEN opened \cup {r.id} ELSE opened
     /\ user' = [user EXCEPT ![u].pc = "request"]
     /\ UNCHANGED <<alloc_id, epoll, ctrl, pollVars, known, used, histVars, failed>>

\* socket_server_send, _lowpriority and _udp_send: the slot is looked at before
\* the request is written; if it is stale the caller's buffer is freed.
Send(u, op, fits) ==
  /\ Call(u, "idle") /\ used["D"] < MaxSends
  /\ \E id \in known :
       /\ ~Stale(slot[HASH_ID(id)], id)
       /\ user' = [user EXCEPT ![u] = [Idle EXCEPT !.pc = "request",
                    !.req = [op |-> op, id |-> id, pkt |-> Nil, fits |-> fits]]]
  /\ UNCHANGED <<alloc_id, slot, ctrl, known, used>>

\* socket_server_udp_connect: fits says if the address found has the socket's
\* protocol.
UdpConnect(u, fits) ==
  /\ Call(u, "idle") /\ used["C"] < MaxUdps
  /\ \E id \in known :
       user' = [user EXCEPT ![u] = [Idle EXCEPT !.pc = "request",
                  !.req = [op |-> "C", id |-> id, pkt |-> Nil, fits |-> fits]]]
  /\ used' = [used EXCEPT !["C"] = @ + 1]
  /\ UNCHANGED <<alloc_id, slot, ctrl, known>>

\* socket_server_close
Close(u) ==
  /\ Call(u, "idle") /\ used["K"] < MaxCloses
  /\ \E id \in known :
       user' = [user EXCEPT ![u] = [Idle EXCEPT !.pc = "request", !.req.id = id]]
  /\ used' = [used EXCEPT !["K"] = @ + 1]
  /\ UNCHANGED <<alloc_id, slot, ctrl, known>>

\* send_request: it blocks while the pipe is full.  The packets are numbered
\* here.  SocketServer::Init starts what it listens on.
SendRequest(u) ==
  LET r == user[u].req
      send == r.op \in {"D", "P", "A"}
  IN /\ Call(u, "request") /\ Len(ctrl) < PipeCap
     /\ send => used["D"] < MaxSends
     /\ ctrl' = Append(ctrl, [r EXCEPT !.pkt = IF send THEN used["D"] + 1 ELSE Nil])
     /\ used' = IF send THEN [used EXCEPT !["D"] = @ + 1] ELSE used
     /\ known' = IF r.op \in {"O", "U", "B"} THEN known \cup {r.id} ELSE known
     /\ user' = [user EXCEPT ![u] =
                   IF r.op = "L" THEN [@ EXCEPT !.req.op = "S"] ELSE Idle]
     /\ UNCHANGED <<alloc_id, slot>>

-----------------------------------------------------------------------------
\* socket_server_create
Init ==
  /\ alloc_id = 0
  /\ slot = [n \in Table |-> [type |-> "INVALID", id |-> Nil, fd |-> Nil,
                              high |-> <<>>, low |-> <<>>, wb_size |-> 0,
                              kind |-> "tcp", peer |-> FALSE]]
  /\ opened = {} /\ epoll = [i \in Ids |-> "NONE"]
  /\ ctrl = <<>>
  /\ checkctrl = TRUE /\ ev = <<>> /\ pollPc = "loop" /\ msg = NoMsg
  /\ user = [u \in Users |-> Idle] /\ known = {}
  /\ used = [k \in {"L", "O", "U", "B", "C", "D", "K"} |-> 0]
  /\ freed = {} /\ wire = [i \in Ids |-> <<>>]
  /\ failed = "NONE"

PollThread ==
  \/ StartSocket \/ ListenSocket \/ OpenSocket \/ BindSocket \/ AddUdpSocket
  \/ SetUdpAddress \/ CloseSocket \/ SendSocket
  \/ NoCmd \/ Wait \/ SkipEvent \/ ReportConnect \/ ReportAccept
  \/ ForwardMessage \/ ForwardMessageUdp \/ SendBuffer \/ ClearClosedEvent \/ StartAccepted

Caller(u) ==
  \/ Listen(u) \/ Connect(u) \/ Udp(u) \/ Bind(u)
  \/ ReserveFetch(u) \/ ReserveLook(u) \/ ReserveCas(u) \/ ReserveSetId(u)
  \/ Send(u, "D", TRUE) \/ Send(u, "P", TRUE) \/ Close(u) \/ SendRequest(u)
  \/ \E fits \in BOOLEAN : used["U"] > 0 /\ (Send(u, "A", fits) \/ UdpConnect(u, fits))

Next == PollThread \/ \E u \in Users : Caller(u)

Spec == Init /\ [][Next]_vars

\* epoll is level triggered: room to write that lasts is reported.
WriteReported(i) == Wait /\ \E k \in DOMAIN ev' : ev'[k].fd = i /\ ev'[k].write

\* The peer reads: of the write events of a socket some write all there is.
WriteProgress(i) ==
  /\ SendBuffer
  /\ Head(ev).fd = i
  /\ send_buffer_empty(slot[HASH_ID(i)]')

\* Datagrams do not come faster than they are read: recvfrom() runs dry.
UdpDrained == ForwardMessageUdp /\ ev' # ev

\* The poll thread and the callers run; a caller need not call.
FairSpec ==
  /\ Spec
  /\ WF_vars(PollThread) /\ SF_vars(UdpDrained)
  /\ \A u \in Users : WF_vars(\/ ReserveFetch(u) \/ ReserveLook(u)
                                \/ ReserveCas(u) \/ ReserveSetId(u) \/ SendRequest(u))
  /\ \A i \in Ids : SF_vars(WriteReported(i)) /\ SF_vars(WriteProgress(i))

-----------------------------------------------------------------------------
(* Properties                                                              *)

\* Slots, descriptors, requests and events have values the code can give
\* them; wb_size never goes below zero.
TypeOK ==
  /\ alloc_id \in 0 .. MaxId
  /\ slot \in [Table -> [type : Types, id : Ids \cup {Nil}, fd : Ids \cup {Nil},
                         high : Seq(Chunk), low : Seq(Chunk), wb_size : Nat,
                         kind : Kinds, peer : BOOLEAN]]
  /\ opened \subseteq Ids /\ epoll \in [Ids -> {"NONE", "IN", "INOUT"}]
  /\ ctrl \in Seq(Request) /\ Len(ctrl) <= PipeCap
  /\ ev \in Seq([s : Table \cup {NoSlot}, fd : Ids \cup {Nil},
                 read : BOOLEAN, write : BOOLEAN])
  /\ pollPc \in {"loop", "event", "clear", "start"}
  /\ known \subseteq Ids /\ freed \subseteq 1 .. MaxSends
  /\ wire \in [Ids -> Seq(Chunk)]

\* A slot in use has its own open descriptor, which epoll watches exactly
\* when the socket was started: force_close, new_fd and start_socket keep the
\* table, the descriptors and epoll together.
SlotsOwnFds ==
  \A n \in Table : LET s == slot[n] IN
    s.type \notin {"INVALID", "RESERVE"} =>
      /\ HASH_ID(s.id) = n /\ s.fd = s.id /\ s.fd \in opened
      /\ (epoll[s.fd] = "NONE") <=> (s.type \in {"PLISTEN", "PACCEPT"})

\* An event that waits in the batch is about the socket that is now in its
\* slot, or finds the slot empty: a slot that is closed and given out again
\* inside a batch does not get the events of the old socket.
EventsFresh ==
  pollPc # "clear" =>
    \A i \in DOMAIN ev : ev[i].s # NoSlot =>
      \/ slot[ev[i].s].type = "INVALID"
      \/ slot[ev[i].s].id = ev[i].fd

\* While something is queued on a socket epoll watches for room to write it,
\* so that it is written without another request.  A bound descriptor is left
\* out: send_socket queues for it and never asks for write events.
WriteArmed ==
  \A n \in Table : LET s == slot[n] IN
    /\ s.type \in {"CONNECTED", "CONNECTING", "HALFCLOSE"} /\ s.kind # "bound"
    /\ ~send_buffer_empty(s)
    => epoll[s.fd] = "INOUT"

\* On the wire every packet is whole: two priorities and partial writes never
\* put the bytes of one packet between those of another.
PacketsWhole ==
  \A i \in Ids : \A k \in DOMAIN wire[i] :
    wire[i][k].at > 1 =>
      k > 1 /\ wire[i][k - 1] = [wire[i][k] EXCEPT !.at = @ - 1]

\* Packets are overtaken only by packets of high priority, and only those of
\* low priority are.
PriorityOrder ==
  \A i \in Ids : \A j, k \in DOMAIN wire[i] :
    j < k /\ wire[i][j].pkt > wire[i][k].pkt =>
      ~wire[i][j].low /\ wire[i][k].low

\* A packet is in one place: in the pipe, on one list of one socket, or freed.
BufferOnce ==
  LET queued(n) == Packets(Queued(slot[n]))
      piped == { ctrl[i].pkt : i \in DOMAIN ctrl } \ {Nil}
  IN /\ \A m, n \in Table : m # n => queued(m) \cap queued(n) = {}
     /\ \A n \in Table : /\ queued(n) \cap (freed \cup piped) = {}
                         /\ Packets(slot[n].high) \cap Packets(slot[n].low) = {}
     /\ freed \cap piped = {}

\* assert(!list_uncomplete(&s->low)) in send_buffer: a packet that is partly
\* written is never at the head of the low list.
LowComplete == failed # "uncomplete"

\* The queue of s can be written out: no datagram in it that sendto() refuses.
Sendable(s) ==
  s.kind # "bound" /\ \A i \in DOMAIN Queued(s) : Queued(s)[i].fits

\* A socket that is closing with data queued is closed in the end, once the
\* peer takes the data: the last write event finds both lists empty.  It is
\* not when a datagram at the head is refused for ever, or for a bound
\* descriptor, which epoll does not watch for room.
HalfCloseEnds ==
  \A i \in Ids : LET s == slot[HASH_ID(i)] IN
    (s.id = i /\ s.type = "HALFCLOSE" /\ Sendable(s)) ~>
      (s.id # i \/ s.type = "INVALID")
=============================================================================
