------------------------------- MODULE MCSync -------------------------------
(* A small Sync for TLC: two waiters or guest threads, two notifiers.      *)
EXTENDS Sync, TLC
CONSTANTS w1, w2, n1, n2
=============================================================================
