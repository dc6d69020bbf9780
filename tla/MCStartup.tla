------------------------------ MODULE MCStartup ------------------------------
(* Startup for TLC: ids of two counter values and a clock of one bit.     *)
EXTENDS Startup

MCCallers == Servers \cup {"logic", "connector"}
==============================================================================
