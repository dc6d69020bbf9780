------------------------------- MODULE Startup -------------------------------
(***************************************************************************)
(* The start of the game server: main, the threads it makes and the ones   *)
(* those make, up to the loops that the other modules are about, and the   *)
(* clients and the connector that draw sequence numbers from SnowFlake     *)
(* while the others still start.                                           *)
(*                                                                         *)
(* LOGCRITICAL ends the process: at once, or, on the thread that is bound  *)
(* to the asynchronous log (the logic thread, which goes on meanwhile),    *)
(* when the log thread comes to the line (see BufferLog).                  *)
(***************************************************************************)
EXTENDS SnowFlake, FiniteSets

CONSTANTS
  MaxTries,       \* 30: attempts to connect
  MaxAccepts      \* bound: connections that the two servers accept

ASSUME TriesAssumption == MaxTries \in Nat \ {0}
ASSUME AcceptsAssumption == MaxAccepts \in Nat

Servers == {"mainServer", "proxyServer"}
ASSUME CallersAssumption == Callers = Servers \cup {"logic", "connector"}

Threads == Servers \cup {"main", "net", "timer", "logic", "connector", "log"}

VARIABLES
  pc,             \* where each thread is; "off" before it is made
  ending,         \* "no"; "queued": a line of LOGCRITICAL is on its way to the
                  \* log thread; "exited": exit() was called
  bound,          \* BindMainThread: is the logic thread bound to the log
  listening,      \* servers whose listener is open
  inited,         \* m_bInitSucc of the one ServerMonitor
  server,         \* servers whose m_pstServer is set
  signal,         \* servers whose m_stSignalExec is set
  tries,          \* failed attempts to connect
  refused         \* nothing listened when the connector connected

startVars == <<bound, listening, inited, server, signal, tries, refused>>
vars == <<seqVars, pc, ending, startVars>>

exited == ending = "exited"

At(th, l) == ~exited /\ pc[th] = l
Goto(th, l) == pc' = [pc EXCEPT ![th] = l]

\* exit(2) of LOGCRITICAL, or exit(1): every thread is gone.
Exit ==
  /\ ending' = "exited"
  /\ pc' = [th \in Threads |-> "off"]
  /\ call' = [t \in Callers |-> NotCalled]
  /\ UNCHANGED <<clock, last, sequence, raced, drawn, startVars>>

\* LOGCRITICAL(...); return; by th, which goes on at l if it is bound to the log:
\* its line is in the ring, which is far from full at the start.
Critical(th, l) ==
  IF bound /\ th = "logic"
  THEN ending' = "queued" /\ Goto(th, l) /\ UNCHANGED <<seqVars, startVars>>
  ELSE Exit

\* pthread_create by th of child, which starts at l; th goes on at next.
Create(th, child, l, next) ==
  /\ pc' = [pc EXCEPT ![th] = next, ![child] = l]
  /\ UNCHANGED <<seqVars, ending, startVars>>

-----------------------------------------------------------------------------
(* main                                                                    *)

\* InitGameSvrConf, where a missing file or a bad line ends the process, and
\* TimerInit.  InitGameLogger makes the log thread, or fails and makes none; its
\* result is not looked at.
InitGameSvrConf ==
  /\ At("main", "conf")
  /\ \/ Critical("main", "conf")
     \/ Create("main", "log", "loop", "create")
     \/ Goto("main", "create") /\ UNCHANGED <<seqVars, ending, startVars>>

CreateThreads ==
  \/ At("main", "create") /\ Create("main", "net", "create", "create2")
  \/ At("main", "create2") /\ Create("main", "logic", "bind", "create3")
  \/ At("main", "create3") /\ Create("main", "timer", "loop", "join")

\* GameNetwork::StartMainLoop
CreateServers ==
  \/ At("net", "create") /\ Create("net", "mainServer", "init", "create2")
  \/ At("net", "create2") /\ Create("net", "proxyServer", "init", "join")

-----------------------------------------------------------------------------
(* A server's thread: StartLibeventServer and what its loop does           *)

\* LibeventServer::Init: pipe, event base and listener, or LOGCRITICAL.
ServerInit(s) ==
  /\ At(s, "init")
  /\ \/ Critical(s, "inited")
     \/ /\ listening' = listening \cup {s}
        /\ Goto(s, "inited")
        /\ UNCHANGED <<seqVars, ending, bound, inited, server, signal, tries, refused>>

\* Fault: a server starts its loop and does not report it.
InitedUntold(s) ==
  /\ At(s, "inited")
  /\ Goto(s, "publish")
  /\ UNCHANGED <<seqVars, ending, startVars>>

\* ServerMonitor::Instance().Inited();
Inited(s) ==
  /\ At(s, "inited")
  /\ inited' = TRUE
  /\ Goto(s, "publish")
  /\ UNCHANGED <<seqVars, ending, bound, listening, server, signal, tries, refused>>

\* Fault: the event loop runs before the pointer is set.
PublishNever(s) ==
  /\ At(s, "publish")
  /\ Goto(s, "loop")
  /\ UNCHANGED <<seqVars, ending, startVars>>

\* m_pstServer = pstLibEventServer;
Publish(s) ==
  /\ At(s, "publish")
  /\ server' = server \cup {s}
  /\ Goto(s, "loop")
  /\ UNCHANGED <<seqVars, ending, bound, listening, inited, signal, tries, refused>>

\* A client is accepted: the constructor of its context draws an id.
Accepted(s) == { i \in DOMAIN drawn : drawn[i].by = s }
Clients == Cardinality(UNION { Accepted(s) : s \in Servers })
             + Cardinality({ s \in Servers : Calling(s) })

Accept(s) ==
  /\ At(s, "loop")
  /\ Clients < MaxAccepts
  /\ SeqBegin(s)
  /\ UNCHANGED <<pc, ending, startVars>>

AcceptEnd(s) ==
  /\ At(s, "loop")
  /\ SeqReturn(s)
  /\ UNCHANGED <<pc, ending, startVars>>

\* A client's packet is queued and the logic thread signalled.
Receive(s) ==
  /\ At(s, "loop") /\ ~Calling(s)
  /\ Accepted(s) # {}
  /\ signal' = signal \cup {s}
  /\ UNCHANGED <<seqVars, pc, ending, bound, listening, inited, server, tries, refused>>

ServerThread(s) ==
  \/ ServerInit(s) \/ Inited(s) \/ Publish(s) \/ Accept(s) \/ AcceptEnd(s) \/ Receive(s)

-----------------------------------------------------------------------------
(* The logic thread                                                        *)

\* BindMainThread and InitPythonBinding, which without the script module calls
\* exit(1).
InitPythonBinding ==
  /\ At("logic", "bind")
  /\ \/ Exit
     \/ /\ bound' = TRUE
        /\ Goto("logic", "wait")
        /\ UNCHANGED <<seqVars, ending, listening, inited, server, signal, tries, refused>>

\* while(false == ServerMonitor::Instance().IsInited());
WaitInited ==
  /\ At("logic", "wait") /\ inited
  /\ Goto("logic", "connector")
  /\ UNCHANGED <<seqVars, ending, startVars>>

\* NewConnector: socket() fails, or the connector draws its id.
CreateConnector ==
  /\ At("logic", "connector")
  /\ \/ ~Calling("logic") /\ Critical("logic", "loop")
     \/ SeqBegin("logic") /\ UNCHANGED <<pc, ending, startVars>>
     \/ SeqReturn("logic") /\ Goto("logic", "thread") /\ UNCHANGED <<ending, startVars>>

\* bufferevent_socket_new or the control pipe fails, or the connector is in the
\* pool and StartMainThread makes its thread.
StartMainThread ==
  /\ At("logic", "thread")
  /\ \/ Critical("logic", "loop")
     \/ Create("logic", "connector", "connect", "loop")

\* _ProcessOneLoop: CheckAndSetSignalActived, the packets, SendNetworkPackets,
\* which asserts m_pstServer.
ProcessOneLoop(s) ==
  /\ At("logic", "loop") /\ s \in signal
  /\ signal' = signal \ {s}
  /\ UNCHANGED <<seqVars, pc, ending, bound, listening, inited, server, tries, refused>>

LogicThread ==
  \/ InitPythonBinding \/ WaitInited \/ CreateConnector \/ StartMainThread
  \/ \E s \in Servers : ProcessOneLoop(s)

-----------------------------------------------------------------------------
(* The connector's thread                                                  *)

\* Connect: bufferevent_socket_connect fails at once, and after the last
\* attempt the thread goes on with a connector that is not alive.
ConnectFails ==
  /\ At("connector", "connect") /\ ~Calling("connector")
  /\ tries' = tries + 1
  /\ Goto("connector", IF tries' = MaxTries THEN "closed" ELSE "connect")
  /\ UNCHANGED <<seqVars, ending, bound, listening, inited, server, signal, refused>>

\* It is under way; LibeventClientCtx draws an id of its own.
ConnectBegin ==
  /\ At("connector", "connect")
  /\ SeqBegin("connector")
  /\ refused' = ("proxyServer" \notin listening)
  /\ UNCHANGED <<pc, ending, bound, listening, inited, server, signal, tries>>

ConnectEnd ==
  /\ At("connector", "connect")
  /\ SeqReturn("connector")
  /\ Goto("connector", "loop")
  /\ UNCHANGED <<ending, startVars>>

\* BEV_EVENT_ERROR: the proxy server did not listen yet.  There is no retry.
OnRefused ==
  /\ At("connector", "loop") /\ refused
  /\ Goto("connector", "closed")
  /\ UNCHANGED <<seqVars, ending, startVars>>

ConnectorThread == ConnectFails \/ ConnectBegin \/ ConnectEnd \/ OnRefused

-----------------------------------------------------------------------------
(* The log thread                                                          *)

\* DoDumpLogToDisk comes to the line of LOGCRITICAL, writes it and exits.
DumpCritical == At("log", "loop") /\ ending = "queued" /\ Exit

-----------------------------------------------------------------------------
Init ==
  /\ SeqInit
  /\ pc = [th \in Threads |-> IF th = "main" THEN "conf" ELSE "off"]
  /\ ending = "no" /\ bound = FALSE /\ inited = FALSE
  /\ listening = {} /\ server = {} /\ signal = {}
  /\ tries = 0 /\ refused = FALSE

MainThread == InitGameSvrConf \/ CreateThreads

Draw(t) == ~exited /\ GenerateSeqID(t) /\ UNCHANGED <<pc, ending, startVars>>
TimePasses == ~exited /\ Tick /\ UNCHANGED <<pc, ending, startVars>>

Next ==
  \/ MainThread \/ CreateServers \/ LogicThread \/ ConnectorThread \/ DumpCritical
  \/ TimePasses
  \/ \E s \in Servers : ServerThread(s)
  \/ \E t \in Callers : Draw(t)

Spec == Init /\ [][Next]_vars

\* The kernel runs every thread that can run, and time passes.  Whether clients
\* come, and what they send, is up to them.
Fairness ==
  /\ WF_vars(MainThread) /\ WF_vars(CreateServers)
  /\ WF_vars(LogicThread) /\ WF_vars(ConnectorThread) /\ WF_vars(DumpCritical)
  /\ WF_vars(TimePasses)
  /\ \A s \in Servers : WF_vars(ServerInit(s) \/ Inited(s) \/ Publish(s) \/ AcceptEnd(s))
  /\ \A t \in Callers : WF_vars(Draw(t))

FairSpec == Spec /\ Fairness

-----------------------------------------------------------------------------
\* assert(m_pstServer) in SendNetworkPackets holds whenever the logic thread is
\* about to answer a server's packets, though its wait ends with the first of
\* the two servers and the pointer is set after Inited().
ServerReady == At("logic", "loop") => signal \subseteq server

\* The connector is in its loop, or all attempts to connect failed.  It is
\* missing only where nobody reads the line that would end the process for it.
ConnectorStarted ==
  \/ pc["connector"] = "loop"
  \/ pc["connector"] = "closed" /\ tries = MaxTries
  \/ pc["connector"] = "off" /\ ending = "queued" /\ pc["log"] = "off"

\* Every thread reaches its loop, however the steps interleave and whichever
\* step fails, or the process ends: no thread waits for another that waits for
\* it, and a connector that cannot be made brings the process down, if only
\* later and by another thread.  A connector that came before the proxy server
\* is refused and does not start; ConnectorAfterServers is about that.
AllStarted ==
  <>[](exited \/ (/\ \A th \in Servers \cup {"timer", "logic"} : pc[th] = "loop"
                  /\ ConnectorStarted \/ refused))

\* "The connector is started only after our own services have started"
\* (gamelogic.cpp:164): its thread runs only once both servers listen.
ConnectorAfterServers == pc["connector"] # "off" => Servers \subseteq listening
==============================================================================
