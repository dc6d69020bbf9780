---------------------------- MODULE MCBufferLog -----------------------------
(* A small instance of BufferLog for TLC.                                  *)
EXTENDS BufferLog

SmallLengths == {0, 1, 2, 5}
=============================================================================
