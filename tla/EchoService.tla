---------------------------- MODULE EchoService ----------------------------
(***************************************************************************)
(* What the game server promises to a connected client, with no threads,   *)
(* queues or buffers: every hello request of an open connection is         *)
(* answered on that same connection, once, in the order the requests came. *)
(* A connection that closes keeps the answers it already got and gets no   *)
(* other one.  PacketPipeline is shown to implement this specification.    *)
(***************************************************************************)
EXTENDS Naturals, Sequences

CONSTANTS
  Conns,              \* the connections, each named by its m_ulClientSeq
  Requests            \* what a request can be

VARIABLES
  open,               \* connections the server serves now
  asked,              \* asked[c]: requests accepted from c, oldest first
  replied             \* replied[c]: requests answered on c, oldest first

echoVars == <<open, asked, replied>>

EchoInit ==
  /\ open = {}
  /\ asked = [c \in Conns |-> <<>>]
  /\ replied = [c \in Conns |-> <<>>]

Open(c) ==
  /\ c \notin open
  /\ asked[c] = <<>>
  /\ open' = open \cup {c}
  /\ UNCHANGED <<asked, replied>>

Ask(c, n) ==
  /\ c \in open
  /\ asked' = [asked EXCEPT ![c] = Append(@, n)]
  /\ UNCHANGED <<open, replied>>

\* The oldest unanswered request of an open connection is answered.
Reply(c) ==
  /\ c \in open
  /\ Len(replied[c]) < Len(asked[c])
  /\ replied' = [replied EXCEPT ![c] = Append(@, asked[c][Len(@) + 1])]
  /\ UNCHANGED <<open, asked>>

Close(c) ==
  /\ c \in open
  /\ open' = open \ {c}
  /\ UNCHANGED <<asked, replied>>

EchoNext == \E c \in Conns :
  \/ Open(c)
  \/ \E n \in Requests : Ask(c, n)
  \/ Reply(c)
  \/ Close(c)

\* An open connection with an unanswered request is served in the end.
EchoSpec == EchoInit /\ [][EchoNext]_echoVars /\ \A c \in Conns : WF_echoVars(Reply(c))

\* The safety part alone.
EchoSafety == EchoInit /\ [][EchoNext]_echoVars
=============================================================================
