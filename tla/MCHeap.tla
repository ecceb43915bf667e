------------------------------- MODULE MCHeap -------------------------------
(***************************************************************************)
(* An instance of Heap for TLC: eight frames of eight units, the first one *)
(* reserved, in three ranges of which two meet in the middle of a block.   *)
(***************************************************************************)
EXTENDS Heap

MCSizeClasses == <<3, 4>>

MCLayouts == {[size |-> 0, align |-> 8], [size |-> 2, align |-> 1], [size |-> 3, align |-> 2],
              [size |-> 8, align |-> 1], [size |-> 12, align |-> 1], [size |-> 1, align |-> 32]}

MCRanges == {<<1, 3>>, <<3, 6>>, <<6, 8>>}
=============================================================================
