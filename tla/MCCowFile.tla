----------------------------- MODULE MCCowFile -----------------------------
(* CowFile on small instances; the threads are interchangeable.             *)
EXTENDS CowFile, TLC

Symmetry == Permutations(Threads)
=============================================================================
