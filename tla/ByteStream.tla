----------------------------- MODULE ByteStream -----------------------------
(***************************************************************************)
(* What stream sockets promise about each direction of a connection: the   *)
(* reader is handed the bytes that were sent, each once and in order, and  *)
(* is told of the end only after the last of them.  Bytes are numbered by  *)
(* their place in the stream, so what was sent is a length.                *)
(*                                                                         *)
(* The vsock table and the TCP socket are shown to implement it.           *)
(***************************************************************************)
EXTENDS Integers, Sequences

CONSTANT Streams

VARIABLES
  sent,   \* sent[s]: bytes the sender has handed over
  got,    \* got[s]: the bytes the reader was handed
  ended   \* ended[s]: the reader was told that this is all

streamVars == <<sent, got, ended>>

Init ==
  /\ sent = [s \in Streams |-> 0]
  /\ got = [s \in Streams |-> <<>>]
  /\ ended = [s \in Streams |-> FALSE]

Send(s) ==
  /\ ~ended[s]
  /\ sent'[s] > sent[s]
  /\ sent' = [sent EXCEPT ![s] = sent'[s]]
  /\ UNCHANGED <<got, ended>>

\* The next bytes of the stream, as many as the reader takes.
Deliver(s) ==
  /\ ~ended[s]
  /\ \E upto \in Len(got[s]) + 1 .. sent[s] :
       got' = [got EXCEPT ![s] = [i \in 1 .. upto |-> i]]
  /\ UNCHANGED <<sent, ended>>

End(s) ==
  /\ Len(got[s]) = sent[s]
  /\ ended' = [ended EXCEPT ![s] = TRUE]
  /\ UNCHANGED <<sent, got>>

Next == \E s \in Streams : Send(s) \/ Deliver(s) \/ End(s)

Spec == Init /\ [][Next]_streamVars
=============================================================================
