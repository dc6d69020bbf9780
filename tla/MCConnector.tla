---------------------------- MODULE MCConnector -----------------------------
(* Connector for TLC: its constants are numbers, given in the cfg files.   *)
EXTENDS Connector
=============================================================================
