---- MODULE MCGuestThreads ----
\* The threads of a WASIX process, instantiated for TLC: time slices and unwinds
\* of main and a thread; a kill; a signal of the parent or of main; two threads
\* that spawn, join and end one another.
EXTENDS GuestThreads

CONSTANTS t1, t2

Alone == [threads |-> <<t1>>, raises |-> 0, kill |-> FALSE,
          unwinds |-> TRUE, slices |-> TRUE, parks |-> TRUE]
Killed == [Alone EXCEPT !.kill = TRUE, !.slices = FALSE]
Signalled == [Alone EXCEPT !.raises = 1, !.unwinds = FALSE, !.slices = FALSE]
Crowded == [Alone EXCEPT !.threads = <<t1, t2>>, !.unwinds = FALSE, !.slices = FALSE,
                         !.parks = FALSE]
MCPlans == {Alone, Killed, Signalled, Crowded}
====
