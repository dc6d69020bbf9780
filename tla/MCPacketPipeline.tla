-------------------------- MODULE MCPacketPipeline --------------------------
(* A small instance of PacketPipeline for TLC: two clients that get the one *)
(* descriptor in turn.                                                      *)
EXTENDS PacketPipeline

CONSTANTS c1, c2, f1

TwoConns == {c1, c2}
OneFd == {f1}
TwoAndOne == [c \in TwoConns |-> IF c = c1 THEN 2 ELSE 1]
=============================================================================
