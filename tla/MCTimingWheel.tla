--------------------------- MODULE MCTimingWheel ---------------------------
(* Small wheels for TLC: the ring arithmetic is the code's, with two slots *)
(* and two or three levels in place of 256 and four.                       *)
EXTENDS TimingWheel, TLC
CONSTANTS e1, e2
=============================================================================
