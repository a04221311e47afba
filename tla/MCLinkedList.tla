---------------------------- MODULE MCLinkedList ----------------------------
(* The addresses new returns and the List objects are interchangeable.     *)
EXTENDS LinkedList, TLC

Symmetry == Permutations(Node) \cup Permutations(List)
=============================================================================
