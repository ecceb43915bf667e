------------------------------ MODULE MCRbTree ------------------------------
(* RbTree for TLC: two of the nodes have the same key. *)
EXTENDS RbTree

MCKey == [n \in 1 .. MaxNodes |-> IF n < 4 THEN n ELSE n - 1]
(* Runs of three keys are merged. *)
MCMerges(left, right) == left \div 3 = right \div 3
=============================================================================
