---------------------------- MODULE MCSyncServer ----------------------------
(* SyncServer with two directories and a name that both of them may have;   *)
(* the directories are interchangeable.                                     *)
EXTENDS SyncServer, TLC

CONSTANTS a, b, x

MCNames == {a, b, x}
MCPaths == {<<a>>, <<a, x>>, <<b>>, <<b, x>>}
MCKinds == {Whiteout}

Symmetry == Permutations({a, b})
=============================================================================
