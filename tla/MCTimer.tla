------------------------------ MODULE MCTimer ------------------------------
(* Small instances of Timer for TLC: an early and a late sleep.            *)
EXTENDS Timer, TLC
CONSTANTS s1, s2, cpu0, cpu1
AllDeadlines == (s1 :> 1 @@ s2 :> 2)
Deadlines == [s \in Sleeps |-> AllDeadlines[s]]
=============================================================================
