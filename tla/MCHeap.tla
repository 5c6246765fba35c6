------------------------------- MODULE MCHeap -------------------------------
(* Two CPUs on a heap of 11 units: a block and what is left of it, an      *)
(* aligned block that leaves a chunk in front, and three small blocks with *)
(* holes between them all fit.  The second range has the same start and    *)
(* another end, the third another start.                                   *)
EXTENDS Heap

MCRange == {[from |-> 2, to |-> 13], [from |-> 2, to |-> 8], [from |-> 20, to |-> 25]}
OneRange == {[from |-> 2, to |-> 8]}
=============================================================================
