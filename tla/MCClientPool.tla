---------------------------- MODULE MCClientPool ----------------------------
(* ClientPool on a small instance; the threads are interchangeable.         *)
EXTENDS ClientPool, TLC

Symmetry == Permutations(Threads)
=============================================================================
