---------------------------- MODULE MCLifecycle ----------------------------
(* Lifecycle on small instances.  The runs are interchangeable: no action   *)
(* and no property names one of them.                                       *)
EXTENDS Lifecycle, TLC

Symmetry == Permutations(Runs)
=============================================================================
