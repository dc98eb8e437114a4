------------------------------ MODULE MCSetup ------------------------------
(***************************************************************************)
(* The runs of Setup are alike, so their states are explored up to         *)
(* renaming; the cleaner may be any of init, clean and purge.              *)
(***************************************************************************)
EXTENDS Setup, TLC

Symmetry == Permutations(Runs)
=============================================================================
