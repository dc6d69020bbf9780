----------------------------- MODULE MCFraming -----------------------------
(* Small instances of Framing for TLC.                                     *)
EXTENDS Framing

BothModes == {"libevent", "socket"}
Libevent == {"libevent"}

\* Too small for a header, an empty body, small, the largest and too large a
\* body, and a size that is negative as int16_t.
AllSizes == {1, 2, 3, 6, 7, 15}
=============================================================================
