--------------------------- MODULE MCSocketServer ---------------------------
(* Small instances of SocketServer for TLC.                                *)
EXTENDS SocketServer

CONSTANT u1

OneUser == {u1}
=============================================================================
