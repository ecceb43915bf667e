------------------------------- MODULE Queues -------------------------------
(* The queues of ids the kernel keeps (VecDeque), as sequences. *)
EXTENDS Naturals, Sequences

(* A queue that holds no value twice, and the values it holds. *)
Distinct(q) == \A i, j \in 1 .. Len(q) : q[i] = q[j] => i = j

Holds(q, e) == \E i \in 1 .. Len(q) : q[i] = e
=============================================================================
