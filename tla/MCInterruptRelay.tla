-------------------------- MODULE MCInterruptRelay --------------------------
(* Two drivers that hold one device in turn.                               *)
EXTENDS InterruptRelay, TLC
CONSTANTS d1, d2
=============================================================================
