----------------------------- MODULE MCVirtQueue -----------------------------
(* Two tasks share a ring of two descriptors: in one load a request needs    *)
(* both of them, in the other an identifier comes round while its reply is   *)
(* still in the slot.                                                        *)
EXTENDS VirtQueue

MCTasks == {"t1", "t2"}
Each(x, y) == [t \in MCTasks |-> IF t = "t1" THEN x ELSE y]
MCLoads == {[buffers |-> Each(1, 2), rounds |-> Each(2, 1)],
            [buffers |-> Each(1, 1), rounds |-> Each(1, 2)]}
=============================================================================
