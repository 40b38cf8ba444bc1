----------------------------- MODULE MCLinkedList -----------------------------
(***************************************************************************)
(* TLC instances of LinkedList.  Addresses and data pointers are           *)
(* interchangeable model values.                                           *)
(***************************************************************************)
EXTENDS LinkedList

Symmetry == Permutations(Nodes) \cup Permutations(Data)
===============================================================================
