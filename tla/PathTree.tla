------------------------------ MODULE PathTree ------------------------------
(***************************************************************************)
(* The closure table of the syncing daemon: for every path it has heard of *)
(* a row per ancestor, indexed by the ancestor and by the descendant, and  *)
(* an index of the direct children.                                        *)
(*                                                                         *)
(*   src/syncing/closure.rs                                                *)
(*                                                                         *)
(* A path is the sequence of its components, the root the empty sequence.  *)
(* An index is the set of its rows: the concurrent maps drop a key with    *)
(* its last row, and a row is added only for a path that has none.         *)
(***************************************************************************)
EXTENDS Naturals, Sequences

Depth(path) == Len(path)

\* The path itself and every path above it, Path::ancestors.
Ancestors(path) == {SubSeq(path, 1, n) : n \in 0 .. Depth(path)}

Parent(path) == SubSeq(path, 1, Depth(path) - 1)

EmptyTree == [by_ancestor |-> {}, by_descendant |-> {}, by_parent |-> {}]

\* ancestors_with_distance, as the rows they become.
RowsOf(path) ==
    {[ancestor |-> a, descendant |-> path, distance |-> Depth(path) - Depth(a)] :
        a \in Ancestors(path)}

\* insert_row, for a set of rows.
InsertRows(tree, rows) ==
    [by_ancestor   |-> tree.by_ancestor \cup rows,
     by_descendant |-> tree.by_descendant \cup rows,
     by_parent     |-> tree.by_parent \cup
                         {<<row.ancestor, row.descendant>> :
                             row \in {r \in rows : r.distance = 1}}]

Contains(tree, path) == \E row \in tree.by_descendant : row.descendant = path

\* insert adds the path and whatever is missing above it.  A prefix is
\* missing or not whatever is done about the others, so their order is left out.
Insert(tree, path) ==
    InsertRows(tree, UNION {RowsOf(p) : p \in {q \in Ancestors(path) : ~Contains(tree, q)}})

ChildrenOf(tree, path) == {row[2] : row \in {r \in tree.by_parent : r[1] = path}}

DescendantsOf(tree, path) ==
    {row.descendant : row \in {r \in tree.by_ancestor : r.ancestor = path /\ r.distance > 0}}

SubtreePaths(tree, path) ==
    IF Contains(tree, path) THEN {path} \cup DescendantsOf(tree, path) ELSE {}

\* Faulty: the index of the direct children keeps what was removed.
RemoveAllKeepChildren(tree, victims) ==
    LET gone == {row \in tree.by_descendant : row.descendant \in victims}
    IN [tree EXCEPT !.by_descendant = @ \ gone,
                    !.by_ancestor = {r \in @ \ gone : r.ancestor \notin victims}]

\* remove_one, for each of the victims: their rows go from by_descendant, from
\* the other two indexes at every ancestor those rows name, and the entries
\* the victims have as ancestors and parents go as a whole.
RemoveAll(tree, victims) ==
    LET gone == {row \in tree.by_descendant : row.descendant \in victims}
        cut  == {<<row.ancestor, row.descendant>> : row \in gone}
    IN [by_descendant |-> tree.by_descendant \ gone,
        by_ancestor   |-> {r \in tree.by_ancestor : /\ <<r.ancestor, r.descendant>> \notin cut
                                                    /\ r.ancestor \notin victims},
        by_parent     |-> {r \in tree.by_parent : r \notin cut /\ r[1] \notin victims}]

Remove(tree, path) == RemoveAll(tree, SubtreePaths(tree, path))

\* Where a path goes when what is at from moves to to.
Moved(path, from, to) == to \o SubSeq(path, Depth(from) + 1, Depth(path))

InsertAll(tree, paths) ==
    InsertRows(tree, UNION {RowsOf(p) : p \in {q \in UNION {Ancestors(r) : r \in paths} :
                                                  ~Contains(tree, q)}})

\* The daemon's rename_tree.
Rename(tree, from, to) ==
    InsertAll(Remove(tree, from), {Moved(p, from, to) : p \in SubtreePaths(tree, from)})

\* from_rows makes all indexes from the rows that were serialised, and from_paths
\* inserts one path after the other.
FromRows(rows) == InsertRows(EmptyTree, rows)
FromPaths(paths) == InsertAll(EmptyTree, paths)

-----------------------------------------------------------------------------
\* The tree of a set of paths that has every ancestor of its members.
IsTreeOf(tree, paths) ==
    /\ \A p \in paths : Ancestors(p) \subseteq paths
    /\ tree.by_descendant = UNION {RowsOf(p) : p \in paths}
    /\ tree.by_ancestor = tree.by_descendant
    /\ tree.by_parent = {<<Parent(p), p>> : p \in paths \ {<<>>}}

PathsIn(tree) == {row.descendant : row \in tree.by_descendant}

\* The same but for some paths, which may lack rows or be missing: every other
\* path has all its rows, and above it only these may be missing.
IsTreeBut(tree, loose) ==
    /\ tree.by_ancestor \subseteq tree.by_descendant
    /\ \A row \in tree.by_descendant : row \in RowsOf(row.descendant)
    /\ tree.by_parent = {<<row.ancestor, row.descendant>> :
                            row \in {r \in tree.by_ancestor : r.distance = 1}}
    /\ \A p \in PathsIn(tree) \ loose : /\ Ancestors(p) \subseteq PathsIn(tree) \cup loose
                                         /\ RowsOf(p) \subseteq tree.by_ancestor
=============================================================================
