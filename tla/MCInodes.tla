------------------------------ MODULE MCInodes ------------------------------
(* Inodes on a small instance.  The threads are interchangeable, and so are *)
(* the names: no action and no property tells one from another.             *)
EXTENDS Inodes, TLC

Symmetry == Permutations(Threads) \cup Permutations(Names)
=============================================================================
