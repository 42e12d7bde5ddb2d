------------------------------- MODULE MCVsock -------------------------------
(***************************************************************************)
(* What may be done with the link, one plan per behaviour: two handshakes  *)
(* for one place in the backlog; more bytes than the window holds, read a  *)
(* byte at a time, and so many that the counters wrap; the same read       *)
(* whole, while a byte comes back; shutdowns under a transfer; deadlines   *)
(* and closes under a transfer; a fault; two writers on one connection.    *)
(***************************************************************************)
EXTENDS Vsock, TLC

Bytes(ab, ba) == [c \in {1} |-> [e \in Ends |-> IF e = "a" THEN ab ELSE ba]]
Quiet == [bytes |-> Bytes(0, 0), writers |-> {"w1"}, readers |-> {"b"}, maxRead |-> Window, shuts |-> {},
          shutsWhileWriting |-> FALSE, impatient |-> FALSE, faults |-> 0]

Handshakes == [Quiet EXCEPT !.bytes = [c \in {1, 2} |-> [e \in Ends |-> 0]], !.readers = {}, !.impatient = TRUE]
Trickle == [Quiet EXCEPT !.bytes = Bytes(5, 0), !.maxRead = 1]
Exchange == [Quiet EXCEPT !.bytes = Bytes(5, 1)]
Shuts == [Quiet EXCEPT !.bytes = Bytes(2, 0),
              !.shuts = {<<"a", {"send"}>>, <<"a", Directions>>, <<"b", {"receive"}>>}]
Drops == [Quiet EXCEPT !.bytes = Bytes(2, 0), !.impatient = TRUE]
Faulty == [Quiet EXCEPT !.bytes = Bytes(2, 0), !.faults = 1]
Long == [Quiet EXCEPT !.bytes = Bytes(Wrap + 1, 0)]
Shared == [Quiet EXCEPT !.bytes = Bytes(5, 0), !.writers = Writers]
MCPlans == {Handshakes, Trickle, Long, Exchange, Shuts, Drops, Faulty, Shared}

\* Two writers share a connection.
SharedPlans == {Shared}
\* A stream is shut down under its own write.
HastyPlans == {[Shuts EXCEPT !.shutsWhileWriting = TRUE]}
\* Something fails, or the listener is closed.
FaultyPlans == {Faulty}
=============================================================================
