---------------------------- MODULE MCLinkedList -----------------------------
(* Model values and symmetry for the runs of LinkedList. *)
EXTENDS LinkedList, TLC

Symmetry == Permutations(Nodes)
=============================================================================
