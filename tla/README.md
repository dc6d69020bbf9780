# A TLA+ model of GameServer

GameServer is a multi-threaded game server in C and C++: a network layer on
libevent or on its own epoll socket server, a logic thread, a timer thread, a
log thread, and connectors to other servers. This directory holds TLA+ modules
that model its concurrent core, the TLC configurations that check them, and
proofs checked by TLAPS. `PROJECT.json` lists the components, the runs, the
line-by-line map to the source, the mutants, the findings and the hazards.

    tlc -workers 2 -config Pipeline.cfg MCPacketPipeline
    tlapm PacketPipelineProofs.tla     # and the other *Proofs modules

## 1. Inventory

| Component | State | Operations | Talks to |
|---|---|---|---|
| Packet pipeline, libevent mode (`network/context.h`, `queue.h`, `packet_pool.h`, `libevent/*`, `common/signal.cpp`, `gamelogic.cpp`) | six packet queues with a counter each, the block pool, two client maps, the wakeup flag, the control pipe | accept, read and unpack, publish, emit; copy, handle, answer, flush, release; send | network thread and logic thread share three queues, the flag, the pipe and the pool |
| Log queue (`common/log`, `common/kfifo`) | ring buffer, two free-running counters | push header, push body; peek, check, copy, write | logic thread to log thread, without a lock |
| Game timer (`common/timer.cpp`) | five-level wheel, tick counter, two maps, queue of expired timers | AddTimer, RemoveTimer, TimerUpdate, PrepareExecute, Callback | logic thread and timer thread share the wheel (`T->lock`), the maps (`m_stLock`) and the queue |
| Epoll socket server (`network/socket/socket_server.c`) | slot table, request pipe, batch of epoll events, two write lists per socket | listen, connect, udp, bind, start, send, close; accept, read, write | any thread writes requests and reserves slots, one poll thread does everything else |
| Connectors (`network/connector.cpp`) | status, five owned objects, prepare and send queue, command pipe, pool | Create, Connect, HeartBeat, send, receive, Close, delete | connector thread and logic thread share all of it, without locks |
| Socket mode glue (`network/socket/server_logic.cpp`, `socket_ctx.h`) | client pool | new client, data, close, answers | poll thread handles the socket server's messages, command thread sends |
| Packet framing (`network/unpack.h`, `packet.h`, `context.h`) | bytes received and not yet unpacked | read, unpack, move, refuse; frame an answer | used by both network modes |
| Sequence numbers (`common/utils/uuid.h`) | last timestamp and counter, without a lock | GenerateSeqID | called by accepting threads, logic thread, connector thread |
| Process start (`gamesvr.cpp`, `gamenet.cpp`, `server.cpp`, `gamelogic.cpp`) | which threads run, `ServerMonitor`, the server pointers | main, the threads' beginnings, up to their loops | every component above |
| Configuration, Python binding | none that changes after start | read at start | their outcome is part of the start |
| Event listener (`common/event`) | listeners by event | register, emit, ProcessOnceLoop | nobody registers or emits |
| Utilities, examples | none | - | - |

What is hard here, and what makes each part correct:

* **Pipeline.** Wakeups cross threads through a flag and a pipe, and each is
  tested and cleared apart from the queue it is about. Descriptors are reused
  while answers of the old client are on their way. Packet memory is taken and
  released by both threads. Correct means: every request of a connected client
  is answered once, in order, on its own connection; every block has one owner.
* **Log queue.** Header and body become visible separately, and the counters
  wrap. A line of LOGCRITICAL ends the process when it is written, not when it
  is logged. Correct means: lines reach the file whole, once and in order, up to
  the first such line.
* **Timer.** A node on the wheel outlives its timer, the counter wraps, two
  locks are taken in both orders. Correct means: a timer is handed over in its
  tick, once, and not after it was removed or displaced.
* **Socket server.** A slot is closed and given out again while requests and
  events for its old owner are in flight; writes are partial. Correct means:
  events and requests reach only the socket they are about, packets are whole
  on the wire, a closing socket ends.
* **Socket mode.** The pool and the slot table are two records of the same
  connections, kept by messages. Correct means: they agree whenever the poll
  thread polls again.
* **Framing.** The stream is cut anywhere, the buffer is fixed, sizes are signed
  16 bit numbers that the client writes. Correct means: packets are exactly the
  bodies of the frames, and none that is complete is left lying.
* **Start and sequence numbers.** One flag stands for two servers, pointers are
  published after it, a failed step ends the process at once on some threads and
  through the log thread on another, and the generator has no lock. Correct
  means: nobody uses a server that is not there, all threads come to their loops
  or the process ends, the connector follows the servers, ids are distinct.
* **Connectors.** Status is read by one thread and changed by the other, and
  both may free. Correct means: what ALIVE promises exists, queued packets are
  sent, dead connectors leave the pool.

The full list of hazards, with the line each bites at and the properties that
cover it, is in `PROJECT.json`.

## 2. Modules

| Module | Models | Implements |
|---|---|---|
| `PacketPipeline` | the pipeline | `EchoService` |
| `BufferLog` | the log queue | `LogQueue` |
| `GameTimer` | the timer | `TimerService` |
| `SocketServer` | the epoll socket server: TCP, UDP, bound descriptors | |
| `SocketMode` | the game server on top of it; EXTENDS `SocketServer` | |
| `Framing` | byte stream to packets and back, both modes | |
| `SnowFlake` | the sequence number generator | |
| `Startup` | the start of all threads; EXTENDS `SnowFlake` | |
| `Connector` | one connector and the two threads that use it | |
| `PacketPipelineProofs`, `BufferLogProofs`, `GameTimerProofs`, `ConnectorProofs`, `FramingProofs`, `StartupProofs`, `SocketServerProofs`, `SocketModeProofs` | theorems about the module of that name | |
| `MC*` | sets of model values for TLC | |

`EchoService`, `LogQueue` and `TimerService` are abstract specifications with
no threads, queues or locks. The detailed module is shown to implement each by
a refinement mapping (`INSTANCE ... WITH`), as a property of a run.

**How steps are cut.** An action is what a thread does between two points where
another thread can see it: a section under a spinlock, one write to shared
state, or a run of steps on private state. Where the code takes no lock the cut
is as fine as the accesses: one memory cell in `BufferLog`, one pointer in
`Connector`'s Close. Threads are sequentially consistent; the kfifo barriers
(`smp_wmb`) are taken to do what they are for.

**Faults.** A definition preceded by a comment `Fault:` is a mutated form of
the definition after it. It is not part of the specification; `PROJECT.json`
says which property finds it.

### PacketPipeline

`q[x]` and `num[x]` are the vector and `m_iPacketNum` of queue x; they are kept
apart because `ReleaseAllPackets` clears one and not the other and `CopyFrom`
decides by the counter. A client is named by its `m_ulClientSeq`, which is
taken to be unique (how far it is, `SnowFlake` says: an id that repeats while its
first client is connected is outside this model); its descriptor is reused. Packets are `hello` (answered), `other` (no
handler) or `bad` (refused by the unpacker, which returns before it publishes
what it unpacked so far). `netPc` and `logicPc` are the two threads;
`OtherContextTakes/Releases` stand for the proxy server and the connectors,
which share the block pool. `asked` and `replied` are history.

### BufferLog

A byte of the ring is a record that remembers which byte of which message it
is, so that a torn line differs from a whole one. `in` and `out` count modulo
`Word`. The header is `HeaderLen` cells; `ValidHeader` stands for the start
and end tokens and the length test. A line that does not fit goes to no queue
(`LogDropped`). A cell also keeps the type of its line: when `DoLog` has written
a line of LOGCRITICAL it calls `exit(2)` (`bufferlog.cpp:116` and 12,
`bufferlog.h:159`), `consPc` is "exit" and neither thread takes another step.
`LogQueue` says the same of its queue: it takes and gives no line after a critical
one was given (`Ended`).

### GameTimer

The wheel has the code's five levels with `Near` and `Level` slots instead of
256 and 64, so that the counter wraps after `Near * Level^4` ticks. `AddTimer`
is the part under `m_stLock` up to `timer_add`, which takes `T->lock` on its
own. The timer thread ticks whenever it likes: how many ticks `TimerUpdate`
makes up for is the clock's choice. `Pick` takes the nodes of a moved list that go
to one slot, in their order. `left` and `delivered` are history.

### SocketServer

A descriptor has the id of its socket for a name. A list of write buffers is
the sequence of chunks that are still to be written, `at` being the position in
the packet. `ev` is the rest of the batch; each event also remembers which
descriptor it was about. `ReserveFetch`, `ReserveLook`, `ReserveCas` and
`ReserveSetId` are the four accesses of `reserve_id`. Assertions are modelled:
`failed` names the one that stopped the program. What the kernel does
(how much `write` takes, whether `connect`, `accept` or `epoll_ctl` succeed) is
a free choice. A datagram goes out whole or not at all; its address fits the
protocol of the socket or does not, in which case `sendto` fails every time and
the datagram stays where it is. `BindSocket` makes a slot of type BIND from a
foreign descriptor, which `force_close` gives up without closing.

### SocketMode

The composition: `Poll` is a step of `SocketServer`'s poll thread, and when
`socket_server_poll` returns a message (`todo`), `NewClient`, `CloseClient`,
`MessageData` or `SocketOpen` handles it before the next call. `pool` is
`m_stClientPool`. `SendAnswer` is the command thread: it looks the client up by
the packet's sequence number and calls `socket_server_send`. A client dropped
for a bad frame leaves the pool at once while its slot stays open (`refused`).

### Framing

One client and its stream. A byte is a cell that knows its frame and position,
so that a packet can be compared with the frame it should be. `net` is on its
way, `input` is the bufferevent's evbuffer or the message of `SOCKET_DATA`,
`buffer` and `ptr` are `m_chBuffer` and `pchBufferPtr`. Sizes are `int16_t` with
`IntMax` for 32767. `psize` is `s->p.size`, which doubles and halves. Whatever a
size field says, a client sends at least the header and at most that many
bytes. `Answer` is `HandleCSProtoHello` with the packet it adds: `Added` bytes
more than the request.

### SnowFlake and Startup

In `SnowFlake` each read and write of `m_ulLastTimestamp` and `m_ulSequenceID`
is a step. `raced` remembers the microseconds in which calls overlapped.
`Startup` has a program counter for each of the eight threads, up to "loop".
`Critical` is LOGCRITICAL: it exits, except on the logic thread once
`BindMainThread` has run, where it queues a line and goes on (`ending` is
"queued"); `DumpCritical` is the log thread, which comes to that line later and
exits. `InitGameSvrConf` makes the log thread, or none if the logger cannot be
made, since the result of `InitGameLogger` is not looked at. The accepting threads,
the logic thread (`CreateConnector`) and the connector thread call the
generator of `SnowFlake` meanwhile.

### Connector

The pool holds one connector, as `StartProxyConnector` makes one. `ptr` and
`heap` tell a NULL pointer from a dangling one. Both threads can run Close, one
pointer at a time. Use of freed memory, of an erased iterator or of a vector
that two threads change stops the program or goes well: `failed` says which.
A read that meets a frame of a bad size returns before it publishes and before
it moves the buffer on (`kept`): the connector stays alive and unpacks the same
frames again at every read, without ever publishing one.
The capacity of the command pipe is not modelled.

## 3. Runs

| Run | Checks | Distinct states | Bounds |
|---|---|---|---|
| Pipeline | TypeOK, RecvWakeup, SendWakeup, EchoFifo, PoolsAgree, MemoryOwned, ImplementsEchoSafety, ImplementsEcho | 486,069 | 2 connections on 1 descriptor, 2 frames and 1 frame, reads of up to 2, 1 block |
| BufferLog | TypeOK, PushFits, NoOverwrite, ImplementsLogQueue | 253,762 | ring of 8, counters modulo 16, 5 messages, of two types |
| GameTimer | TypeOK, MapsAgree, ContextAlive, FireOnTime, ImplementsTimer, CallbacksRun | 369,568 | counter of 5 bits, 2 keys, 2 adds |
| SocketMode | SlotsOwnFds, EventsFresh, PoolMatchesSlots | 645,723 | 2 slots, batches of 3, 5 ids, 1 listen, 1 packet |
| SocketWrites | TypeOK, WriteArmed, PacketsWhole, PriorityOrder, BufferOnce, LowComplete, HalfCloseEnds | 183,830 | 1 socket that callers make: listener with 1 client, outgoing, UDP or bound; 3 packets of 2 chunks |
| Connector | TypeOK, AliveComplete, SendNotStuck, DeadRetired, SendQueueDrains | 370,809 | 2 attempts, 2 heartbeats, 2 messages |
| Framing | TypeOK, PacketsAreFrames, NothingOverlooked, FramesResolved | 91,899 | 3 frames of 6 sizes, body up to 4, buffer of 10, both modes |
| Startup | SeqDistinct, ServerReady, AllStarted | 678,040 | 1 accepted client, clock to 3 of 1 bit, counter of 1 bit, 2 attempts |

The bounds are the smallest at which the case a property is about happens. A
second client on the same descriptor needs two connections and one descriptor.
A stale queue counter needs a second round through a queue, the order of answers
a client with two requests, and a bad frame behind a good one a read of two. Pool exhaustion
needs more packets than blocks. A wrap of the ring counters needs more than
`Word` cells pushed, and a wrap of the tick counter more than 32 ticks. An
event that outlives its socket needs a batch of three: one event to get past
`sp_wait`, a close request, an accept into the slot, and the old event. A
partly written low packet overtaken by a high one needs three packets. A client
pool that holds an old client of a reused slot needs more ids than slots. A
buffer that is full with a frame that is not complete needs three frames: what
came before leaves the buffer only in part. An id given twice needs a counter
that wraps within one tick, and a clock that comes round: three calls (client,
connector and its client context) on a counter and clock of one bit.

Every mutant in `PROJECT.json` is found by the run it names, so each of these
cases is reached.

Deadlock is not checked (`CHECK_DEADLOCK FALSE`): all inputs are bounded, so
every instance comes to rest. What must go on is stated as liveness.

### Findings

Four runs check a statement of the repository that the code does not keep.

| Run | Property | Statement | What happens |
|---|---|---|---|
| TimerZero | ZeroTimeoutDispatched | `timer.cpp:205`, "try to dispatch timeout 0" | `AddTimer` with time 0 takes `m_stLock` twice and waits for itself |
| ConnectorCtx | CtxFound | the assertion at `connector.cpp:211` | the connector thread closes between `IsAlive` and `ConnectorCtx` |
| AnswerFits | AnswerFits | the assertion at `packet_pool.h:59` | a request with a body of the largest size is accepted, and its answer, which adds two timestamps, is larger |
| ConnectorEarly | ConnectorAfterServers | the comment at `gamelogic.cpp:164`, "自己的服务启动后，才启动连接器" (the connector is started once our own services have started) | `ServerMonitor` is one flag for two servers: the main server sets it (`server.cpp:14`), and the connector starts while the proxy server, which it connects to, does not listen yet |

The last one has a consequence that `AllStarted` names: the connect is refused
(`OnRefused`), the connector closes, and it is not tried again, so the server runs
on without it.

A failed assertion or a use of freed memory stops the model, and the properties
of the passing runs hold up to there. The program itself makes no connects
through the socket server; SocketMode is the run that shows its own use. With
connects from another thread EventsFresh does not hold: a slot can be reserved
between `force_close` and `clear_closed_event`, which then leaves the old event
in the batch (a hazard in `PROJECT.json`).

Further behaviour that the models show and that no run is about:

* `reserve_id` names a slot after taking it. A close request for the slot's old
  id in between reaches `force_close` with a slot in reserve, where
  `socket_server.c:372` asserts that there is none (`failed = "reserve"`). With
  a listener and a connect the same window also breaks SlotsOwnFds: after a
  failed `sp_add` of an accepted socket its slot is free again, the connect
  reserves it, a send for the old id is queued on the slot, and a close for the
  old id then makes it HALFCLOSE with no descriptor of its own.
* The poll thread writes to the pipe that only it reads (`server_logic.cpp:93`,
  against the comment at line 74) and waits for itself when it is full
  (`StartAccepted`).
* Heartbeat and answer use a connector's prepare queue at once, without the lock
  that `queue.h:18` asks for (`failed = "race"`).
* `Close` sets CLOSED before it frees, so the logic thread can delete a connector
  whose own thread is still in `Close` (`failed = "freed"`); it frees the
  bufferevent again through the client context's destructor and the write event
  after its base (`failed = "order"`).
* In socket mode the context's buffer never gets its sequence number
  (`socket_ctx.h:28`), packets carry 0, and `SendAnswer` finds no client.
* `_ProcessMessageData` does not come out of its loop when a message does not
  fit the buffer and nothing can be unpacked (`Spins` in `Framing`): an
  undersized frame, or reads that have doubled beyond the buffer.
* LOGCRITICAL on the logic thread ends the process only when the log thread comes
  to the line. The logic thread goes on until then, and what it logs behind the
  line is lost. If the logger could not be made (`bufferlog.cpp:159`) there is no
  log thread, and a connector that cannot be made leaves a server without it
  (the last case of `ConnectorStarted`).

### Fairness

* `Framing`: weak fairness of the network thread. Bytes that were written
  arrive; whether the client writes more is its choice.
* `Startup`: weak fairness of each thread, the log thread among them, and of
  time. Clients need not come.
* `BufferLog`: weak fairness of the log thread, and of the logic thread inside a
  push. Both end with the process.
* Threads: weak fairness of each thread's steps. Each is a loop that never
  ends, and the scheduler runs every thread. Clients, callers of the timer and
  the socket interface, and other contexts need not do anything.
* `OnRecvNetCmdCtrl`: strong fairness. libevent serves all sources that are
  ready in a round, so a busy client cannot keep the control pipe waiting for
  ever.
* Timer threads: strong fairness, because both take spinlocks that the other
  gives up again and again.
* `OnWrite`, `ExecuteCmd` of the connector: strong fairness.
  `event_base_loop` runs an active event, and `select` reports a readable pipe.
* `WriteReported`, `WriteProgress` of the socket server: strong fairness. epoll
  is level triggered, and HalfCloseEnds is about a peer that takes the data.
* `UdpDrained`: strong fairness. `socket_server_poll` reads a UDP socket again
  and again until `recvfrom` has nothing; datagrams do not come faster than
  that for ever.

## 4. Proofs

The theorems hold for every value of the constants allowed by the named
assumptions of the modules: any number of connections, descriptors, blocks and
frames, any ring whose size divides the range of its counters, any number of
timers on a wheel of any `Near` and `Level`, any number of frames, attempts and
clients, any number of slots, callers and events in a batch. Two assumptions are limits of the code: a delay is at most half of the
range of the tick counter (a positive `int`), and `AddTimer` is called less
often than there are handles. TLC checked each inductive invariant on the run's
instance before it was proved.

**Pipeline.** `PipelineTypeOK` comes first. `RecvWakeup` and `SendWakeup` are
not inductive: a packet reaches `Recv` from `RecvPrepare`, so it has to be known
that a connected client's packet is in `RecvPrepare` only while that client is
being unpacked, after it was counted (`PrepareInv`); that the client being
unpacked is in the pool (`CurInv`); that a client that is accepted later has
no packet yet (`BornInv`); and that a zero counter means an empty vector, so
that a swap drops nothing (`CounterInv`). `WakeInv` is their conjunction with
`RecvWakeup`, `SendWakeup` and `PoolsAgree`; `PipelineWakeInductive` proves it
action by action, and `PipelineRecvWakeup`, `PipelineSendWakeup` and
`PipelinePoolsAgree` follow. `PipelineMemoryOwned` is proved on top of it:
three lemmas say what `AddPacket`, `CopyFrom` and `ReleaseHead` do to the
owners of blocks, and every action is one of the three, a transfer to another
context, or leaves the blocks alone.

`EchoFifo` says that what a client is still owed is in the pipeline once and in
order. Its invariant (`FifoInv`) adds that only answers travel back, that the
number of a packet is at most the number of frames read of its client, that
requests are numbered upwards, and that a client which is accepted later has
none. The packets of one client on their way, from the last queue to the first, are
read as one sequence. A `CopyFrom` between two queues keeps it, `Ask` appends to
it, and only a reply takes its head. On top of it, `PipelineImplementsEcho` is the refinement of
`EchoService` without its fairness: accepting and closing a client are `Open` and
`Close`, unpacking a request is an `Ask`, writing an answer to a client that is
still there is a `Reply` to its oldest request, and the other steps show nothing.

**Log ring.** `LogPushFits` needs that what the log thread copies is in the
ring (`BodyThere`), since `out` moves by the length in the header it peeked, and
that a copy does not run past its length. `RingInv` is that conjunction.
`LogNoOverwrite` then follows from arithmetic modulo `Size` and `Word`, for
which the module proves a few lemmas on remainders.
`LogImplementsQueue` is the refinement of `LogQueue` without its fairness. It
needs to know what is in every cell. `StreamInv` counts the cells pushed since
the start: line number j begins at `S[j]`, the log thread stands at the start of the
next line plus what it has taken of it, and the cell at `out + x` is the one of
that place in its line, up to those that the running `kfifo_in` has copied but
not given yet (`Content`, `Unread`). So a header that was read is always valid,
the body that is waited for is complete only when its line is published, and
what `DoLog` writes is that line, with its type. `EndInv` says that
once a line of LOGCRITICAL is the last one in the file the process has ended, so
that no step of either thread is left to show a step of `LogQueue` after its end.

**Timer.** `FireOnTime` says that a timer is dispatched in the very tick in which
its delay ends, after it has passed down up to five levels of the wheel. The
invariant (`WheelInv`) says so for every node at
every time: it is in the list where `add_node` would put it now, and its
`expire` is the counter plus the time it has left, modulo the range of the
counter. The heart of the proof is that a tick keeps this: the place of a node
does not change unless the node is in the list that `timer_shift` moves in this
tick (`PlaceStays`, and `PlaceWraps` for the wrap of the counter), and a node
with nothing left is in the near list of the current slot (`NearDue`). That
`Pick` neither loses nor adds a node is shown by induction over the length of
the moved list. `MapsAgree` and `ContextAlive` need to know that a handle is the
number of its context and never given twice (`HandleInv`); that between the maps
and the wheel there is at most one timer, the newest, and exactly while
`m_stLock` is held (`AddInv`); that what is being dispatched has no time left,
and that nothing is dispatched before the shift (`DispatchInv`); and that each
timer in the maps has a node somewhere (`NodesInv`). `ImplementsTimerSafety` is
the refinement of `TimerService` without its fairness, step by step:
`timer_shift` is a `Tick`, `timer_add` an `Arm`, `RemoveTimer` and an `AddTimer`
that displaces are a `Disarm`, `TimerTimeout` is a `Deliver` if the timer is
still in the maps, and the other steps show nothing.

**Connector.** `AliveComplete` relates the state word to the pointers that
`Close` frees one at a time. It rests on when each thread may close
(`LifeInv`): until the connector thread has left its loop nothing is closed,
erased or deleted, and the logic thread is not in `Close`; once it has left, the
connector is not alive; and at `SetAlive` all parts are there. `SendNotStuck` is
inductive only together with the path of a message: a filled send queue has a
command in the pipe or a thread about to write one, and a command in the pipe
has an active event, a thread about to activate it, or the loop that reads
commands (`SendInv`).

**Framing.** The invariant ties all bytes together: the buffer, the input and
the network, in this order, are what is left of the stream, and begin with the
first frame that was not unpacked (`StreamInv`). With the loop's intermediate
states (`LoopInv`) it gives `PacketsAreFrames`, that a packet is the frame that
was sent whatever the reads cut it into, in both modes, and
`NothingOverlooked`, that no whole frame stays in the buffer when the loop ends.

**Start and sequence numbers.** `SeqDistinct` is about calls of several threads
that share the generator without a lock. An id is *lone* when no calls
overlapped in its microsecond. `OrderInv` says that lone ids grow in the order of
time and counter. To keep it, the invariant follows each call through its reads
and writes (`CallInv`): no lone id is later than its microsecond, and if it is
alone the value it is about to use is above every lone id of that microsecond. Calls that overlap are both
marked (`OverlapInv`), the time of the last id is no later than the clock
(`ClockInv`), and between calls the counter covers the last microsecond
(`IdleInv`). `ServersReady` follows from `StartInv`: a server that is in its
loop has published itself, and only such a server signals packets.

**Socket server.** `TypeCorrect` holds for any use of the interface. It needs,
beyond the types, that a slot's `wb_size` is at least the number of queued
chunks, since the code subtracts what it wrote. `SlotsCorrect`, `WritesArmed` and
`EventsStayFresh` are for a program that opens one socket by itself (`MaxOpens <= 1`) and
has any number of accepted clients, sends and closes, as the game server
does: it listens once. The restriction is needed. With a second opened socket
`SlotsOwnFds` and `EventsFresh` are false (section 3), because `reserve_id`
shows a slot before it has its id.
The inductive invariant `IInv` says of every slot (`SlotOK`) that in use it has
its own open descriptor, that queued data is on a socket that can be written
and is watched for, and that epoll knows no descriptor of the slot's ids but
that of the slot; of the batch (`EventInv`), that an event is about the
socket in its slot or about the one just closed and about to be cleared, and that no
slot has two events; and where the program is in opening its socket (`Phase`): not begun, in
the call, in the pipe, or done. Until it is done the table is empty, and a
reserved slot is the one of the request; afterwards only the poll thread takes
slots, so no step of a caller can come between. Each poll step is
shown to change one slot and descriptors of that slot's ids only (`Effect`), and
to move the batch on by at most one event (`Shift`); `EffectDone` concludes for
all steps but `ClearClosedEvent`, which is what removes a closed socket's event
before the slot is reused.

`PacketsStayWhole`, `PrioritiesKept`, `BuffersOnce` and `LowListComplete` hold
again for any use of the interface, with any number of opened sockets. They
follow a packet from its request in the pipe through the two lists of a slot to
the wire. The invariant `WriteInv` says that packets in the pipe are numbered
in the order of the requests and above all that were taken out of it
(`PipeInv`, `OldInv`); that the two lists of a slot, after what is on the wire of its
descriptor, are a stream in which packets are whole and overtaken by packets of
high priority only (`ListInv`); and that a packet is in one place only, or freed (`OnceInv`).
Partial writes, failures, the change of priority of a half-written packet and
a slot's reuse each keep it. The restriction to one opened socket is not
needed: what is on the lists goes with the slot's descriptor, whoever reserves
slots meanwhile.

**Socket mode.** `ModeImplementsServer` says that every behaviour of `SocketMode`
is one of `SocketServer`, so that all of the above holds of the game server as
it uses the socket server. `PoolFollowsSlots` is `PoolMatchesSlots` for a program
that listens on one socket and neither connects nor uses UDP or bound
descriptors (`OneListener`), as the game server does and as its run has it. Its
invariant says how far the pool may lag behind the table of slots: by the
message that the poll returned and the loop has not handled, or by the socket
whose events are being cleared (`PoolInv`). It needs to know which requests such
a program can have in the pipe (`CallsInv`), that no slot is being connected or
is bound (`Accepts`), and that ids that were refused or seen were given out (`SeenInv`);
and it rests on `IInv` of the socket server. `AnswersDropped` proves what section 3 says of
`socket_ctx.h:28`: no step of the command thread ever changes the socket
server, for any number of clients and packets.

**Model-checked only.** Liveness under fairness is out of the prover's reach:
`ImplementsEcho`, `ImplementsLogQueue`, the liveness part of `ImplementsTimer`,
`HalfCloseEnds`, `DeadRetired`, `SendQueueDrains`, `CallbacksRun`,
`FramesResolved`, `AllStarted`. Every invariant of the runs, and the safety part of
each refinement, is stated by a theorem; `SlotsOwnFds`, `WriteArmed`,
`EventsFresh` and `PoolMatchesSlots` under the restrictions named above.
Induction is available in
the form of a set of naturals that holds 0 and with each number the next, which
is how `GameTimerProofs` reasons about lists of any length.

## 5. Not modelled

* Socket server: exit and release (the program never sends CLOSE_SERVER),
  `setopt` (it changes no state of the server), user objects (none are
  registered).
* Event listener: no part of the server registers a listener or emits an event.
* Configuration: the outcome of `InitGameSvrConf` is in `Startup`; the parser is
  a function of a file. A port is kept in a `short` (`gameconf.h:35`), so one
  above 32767 is negative.
* Python binding: its outcome at start is in `Startup`; the interpreter is
  foreign code.
* An error of `accept` ends a server's event loop while the process runs on
  (`libevent_handle.cpp:91`); nothing handles or describes the state after it.
* Unix signals, failure of `pthread_create` and of allocation, weak memory;
  crashes (nothing is persisted). Utilities wrap system calls; examples and
  scripts are no part of the server.

## 6. Plan

1. done: `PacketPipeline` against `EchoService`, with proofs of the wakeups, the
   client maps and the block pool.
2. done: `BufferLog` against `LogQueue`, with proofs of the ring.
3. done: `GameTimer` against `TimerService`; `SocketServer`; `Connector`.
4. done: `SocketMode`, the composition of `SocketServer` with the client pool and
   the command thread; UDP and bound descriptors; `Framing`; `SnowFlake`;
   `Startup`.
5. done: theorems about every invariant of `GameTimer`, `Connector`, `Framing`,
   `SnowFlake` and `Startup`, and the safety refinement of `TimerService`.
6. done: `TypeOK` of `SocketServer` for any use, and `SlotsOwnFds`, `WriteArmed` and
   `EventsFresh` for a program with one socket of its own.
7. done: `PacketsWhole`, `PriorityOrder`, `BufferOnce` and `LowComplete` of
   `SocketServer` for any use; `PoolMatchesSlots` of `SocketMode`; `EchoFifo` and
   the safety refinement of `EchoService`; the safety refinement of `LogQueue`.
8. left to TLC: what must happen in the end.
