------------------------------ MODULE Counting ------------------------------
(* Counting the positions at which a sequence does something. *)
EXTENDS Integers, FiniteSets

(* 1 if b holds, 0 otherwise. *)
One(b) == IF b THEN 1 ELSE 0

(* From each of n positions to the next, v falls by one at the positions   *)
(* in P and rises by one at those in Q.                                    *)
Tracks(n, v, P, Q) ==
  /\ n \in Nat /\ P \subseteq 1 .. n /\ Q \subseteq 1 .. n
  /\ v \in [1 .. n + 1 -> Int]
  /\ \A i \in 1 .. n : v[i] - v[i + 1] = One(i \in P) - One(i \in Q)

(* What counting shows: the falls less the rises are the fall from the     *)
(* first to the last position, and disjoint sets add up.                   *)
CountsAdd ==
  /\ \A n, v, P, Q :
       Tracks(n, v, P, Q) =>
         /\ IsFiniteSet(P) /\ Cardinality(P) \in Nat
         /\ Cardinality(Q) \in Nat
         /\ Cardinality(P) - Cardinality(Q) = v[1] - v[n + 1]
  /\ \A n, v, P :
       Tracks(n, v, P, {}) /\ v[n + 1] = 0 =>
         Cardinality(P) = v[1] /\ (P = {} <=> v[1] = 0)
  /\ \A R, I :
       IsFiniteSet(R \cup I) /\ R \cap I = {} =>
         /\ Cardinality(R \cup I) = Cardinality(R) + Cardinality(I)
         /\ Cardinality(R) \in Nat /\ Cardinality(I) \in Nat
=============================================================================
