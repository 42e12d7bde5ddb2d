---------------------------- MODULE MCSleepPool ----------------------------
(* Three sleeps over two slots, so that slots are recycled under handles.  *)
EXTENDS SleepPool, TLC
CONSTANTS s1, s2, s3, i1, i2
=============================================================================
