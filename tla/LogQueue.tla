------------------------------ MODULE LogQueue ------------------------------
(***************************************************************************)
(* What the buffered logger promises: messages of the logic thread reach   *)
(* the log file whole, once and in the order they were taken.  A message   *)
(* that is not taken (the buffer is full) is simply never in the queue.    *)
(* A critical message is the last one: the process ends once it is         *)
(* written, and what was taken after it is lost.                           *)
(***************************************************************************)
EXTENDS Naturals, Sequences

CONSTANTS
  Messages,
  Critical        \* the messages that end the process

VARIABLES queue, disk

vars == <<queue, disk>>

Init == queue = <<>> /\ disk = <<>>

Ended == disk # <<>> /\ disk[Len(disk)] \in Critical

Push(m) ==
  /\ ~Ended
  /\ queue' = Append(queue, m)
  /\ UNCHANGED disk

Dump ==
  /\ ~Ended
  /\ queue # <<>>
  /\ disk' = Append(disk, Head(queue))
  /\ queue' = Tail(queue)

Next == Dump \/ \E m \in Messages : Push(m)

LogSafety == Init /\ [][Next]_vars

\* Whatever was taken is written in the end, or the process has ended.
LogSpec == LogSafety /\ WF_vars(Dump)
=============================================================================
