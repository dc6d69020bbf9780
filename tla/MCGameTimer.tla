---------------------------- MODULE MCGameTimer -----------------------------
(* Small instances of GameTimer for TLC: a wheel of two slots per level,   *)
(* so that the tick counter has five bits.                                 *)
EXTENDS GameTimer

CONSTANTS k1, k2

OneKey == {k1}
TwoKeys == {k1, k2}
FewTimes == {1, 6, 15}
ZeroTime == {0}
=============================================================================
