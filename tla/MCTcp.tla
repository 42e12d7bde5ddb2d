-------------------------------- MODULE MCTcp --------------------------------
(* One connection whose sequence numbers wrap within the first bytes of "a": *)
(* a window of four bytes in units of two, segments of two.  A plan says     *)
(* what the programs write and what the network may do.                      *)
EXTENDS Tcp

Both(x, y) == [e \in Ends |-> IF e = "a" THEN x ELSE y]
MCIss == Both(Wrap - 3, 4)

\* "a" writes, "b" reads to the end and closes; the window closes on the way.
Calm == [bytes |-> Both(6, 0), write |-> 3, read |-> 3, closesLast |-> {"b"}, drops |-> {},
         losses |-> 0, copies |-> 0, swaps |-> 0, early |-> 0]
Lossy == [Calm EXCEPT !.losses = 1]
Tangled == [Calm EXCEPT !.copies = 1, !.swaps = 1]
Hasty == [Calm EXCEPT !.bytes = Both(5, 0), !.losses = 1, !.early = 1]
Exchange == [Calm EXCEPT !.bytes = Both(2, 2), !.closesLast = {}]
Dropped == [Calm EXCEPT !.bytes = Both(3, 0), !.drops = Ends]

MCPlans == {Calm, Lossy, Tangled, Hasty, Exchange, Dropped}
CalmPlans == {Calm}
ExchangePlans == {Exchange}
=============================================================================
