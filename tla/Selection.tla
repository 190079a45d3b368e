------------------------------ MODULE Selection ------------------------------
(***************************************************************************)
(* Loops that walk through a list of relays and keep some of its elements  *)
(* (_active_chain and _sanitize_manual_branches of the packet runtime,     *)
(* sanitize_branches of netlab/topology.py), as functions of the positions *)
(* they keep.                                                              *)
(***************************************************************************)
EXTENDS Integers, FiniteSets

\* The numbers of a set in increasing order.
InOrder(S) ==
  CHOOSE seq \in [1..Cardinality(S) -> S] :
    \A i, j \in 1..Cardinality(S) : i < j => seq[i] < seq[j]

\* What a loop keeps of a sequence: the elements at these positions.
Kept(seq, positions) ==
  [i \in 1..Cardinality(positions) |-> seq[InOrder(positions)[i]]]
=============================================================================
