---------------------------- MODULE MCSocketMode ----------------------------
(* Small instances of SocketMode for TLC.                                  *)
EXTENDS SocketMode

CONSTANT u1

OneUser == {u1}
=============================================================================
