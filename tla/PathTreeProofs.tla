--------------------------- MODULE PathTreeProofs ---------------------------
(***************************************************************************)
(* What the operations of the closure table do to the paths it holds, for  *)
(* paths of any names and depth.                                           *)
(***************************************************************************)
EXTENDS PathTree, SequenceTheorems, TLAPS

-----------------------------------------------------------------------------
(* Paths and the paths above them.                                         *)

LEMMA PrefixIs ==
    ASSUME NEW N, NEW p \in Seq(N), NEW n \in 0 .. Len(p)
    PROVE  /\ SubSeq(p, 1, n) \in Seq(N)
           /\ Len(SubSeq(p, 1, n)) = n
<1>1. \A i \in 1 .. n : p[i] \in N
  BY ElementOfSeq
<1> QED
  BY <1>1, SubSeqProperties

LEMMA AncestorIs ==
    ASSUME NEW N, NEW p \in Seq(N), NEW a
    PROVE  a \in Ancestors(p) <=>
               a \in Seq(N) /\ Len(a) <= Len(p) /\ a = SubSeq(p, 1, Len(a))
<1>1. ASSUME a \in Ancestors(p)
      PROVE  a \in Seq(N) /\ Len(a) <= Len(p) /\ a = SubSeq(p, 1, Len(a))
  <2>1. PICK n \in 0 .. Len(p) : a = SubSeq(p, 1, n)
    BY <1>1 DEF Ancestors, Depth
  <2> QED
    BY <2>1, PrefixIs
<1>2. ASSUME a \in Seq(N), Len(a) <= Len(p), a = SubSeq(p, 1, Len(a))
      PROVE  a \in Ancestors(p)
  <2>1. Len(a) \in 0 .. Len(p)
    BY <1>2, LenProperties
  <2> QED
    BY <1>2, <2>1 DEF Ancestors, Depth
<1> QED
  BY <1>1, <1>2

LEMMA AncestorSelf ==
    ASSUME NEW N, NEW p \in Seq(N)
    PROVE  p \in Ancestors(p)
  BY AncestorIs, SubSeqFull

\* What is above a path that is above another is above the other.
LEMMA AncestorTransitive ==
    ASSUME NEW N, NEW p \in Seq(N), NEW q \in Ancestors(p)
    PROVE  Ancestors(q) \subseteq Ancestors(p)
<1> SUFFICES ASSUME NEW a \in Ancestors(q) PROVE a \in Ancestors(p)
  OBVIOUS
<1>1. /\ q \in Seq(N) /\ Len(q) \in Nat /\ Len(q) <= Len(p)
      /\ q = SubSeq(p, 1, Len(q)) /\ Len(p) \in Nat
  BY AncestorIs, LenProperties
<1>2. a \in Seq(N) /\ Len(a) \in Nat /\ Len(a) <= Len(q) /\ a = SubSeq(q, 1, Len(a))
  BY <1>1, AncestorIs, LenProperties
<1>3. CASE Len(a) = 0
  BY <1>1, <1>2, <1>3, AncestorIs, SubSeqEmpty
<1>4. CASE Len(a) # 0
  <2>1. SubSeq(SubSeq(p, 1, Len(q)), 1, Len(a)) = SubSeq(p, 1 + 1 - 1, 1 + Len(a) - 1)
    BY <1>1, <1>2, <1>4, SubSeqOfSubSeq
  <2>2. a = SubSeq(p, 1, Len(a))
    BY <1>1, <1>2, <2>1
  <2> QED
    BY <1>1, <1>2, <2>2, AncestorIs
<1> QED
  BY <1>3, <1>4

\* The parent is the ancestor at distance 1.
LEMMA ParentIs ==
    ASSUME NEW N, NEW p \in Seq(N), NEW a \in Ancestors(p)
    PROVE  Depth(p) - Depth(a) = 1 <=> p # <<>> /\ a = Parent(p)
<1>1. /\ a \in Seq(N) /\ Len(a) \in Nat /\ Len(p) \in Nat /\ Len(a) <= Len(p)
      /\ a = SubSeq(p, 1, Len(a))
  BY AncestorIs, LenProperties
<1>2. p # <<>> => Len(p) - 1 \in 0 .. Len(p)
  BY <1>1, EmptySeq
<1>3. p # <<>> => Len(SubSeq(p, 1, Len(p) - 1)) = Len(p) - 1
  BY <1>2, PrefixIs
<1>4. ASSUME p # <<>>, a = Parent(p) PROVE Depth(p) - Depth(a) = 1
  BY <1>1, <1>3, <1>4 DEF Depth, Parent
<1>5. ASSUME Depth(p) - Depth(a) = 1 PROVE p # <<>> /\ a = Parent(p)
  <2>1. Len(p) # 0
    BY <1>1, <1>5 DEF Depth
  <2>2. Len(a) = Len(p) - 1
    BY <1>1, <1>5 DEF Depth
  <2> QED
    BY <1>1, <2>1, <2>2, EmptySeq DEF Depth, Parent
<1> QED
  BY <1>4, <1>5

LEMMA ParentAbove ==
    ASSUME NEW N, NEW p \in Seq(N), p # <<>>
    PROVE  Parent(p) \in Ancestors(p)
<1>1. Len(p) - 1 \in 0 .. Len(p)
  BY EmptySeq, LenProperties
<1> QED
  BY <1>1 DEF Parent, Ancestors, Depth

-----------------------------------------------------------------------------
(* The tree of a set of paths.                                             *)

RowsOfAll(paths) == UNION {RowsOf(p) : p \in paths}

Row(a, p) == [ancestor |-> a, descendant |-> p, distance |-> Depth(p) - Depth(a)]

LEMMA RowsAre ==
    ASSUME NEW paths, NEW r
    PROVE  r \in RowsOfAll(paths) <=> \E p \in paths : \E a \in Ancestors(p) : r = Row(a, p)
  BY DEF RowsOfAll, RowsOf, Row

LEMMA RowIs ==
    ASSUME NEW a, NEW p
    PROVE  /\ Row(a, p).ancestor = a /\ Row(a, p).descendant = p
           /\ Row(a, p).distance = Depth(p) - Depth(a)
  BY DEF Row

\* The rows of distance 1 are those of the parents.
LEMMA ParentRows ==
    ASSUME NEW N, NEW paths \in SUBSET Seq(N)
    PROVE  {<<row.ancestor, row.descendant>> : row \in {r \in RowsOfAll(paths) : r.distance = 1}}
               = {<<Parent(p), p>> : p \in paths \ {<<>>}}
<1> DEFINE rows == {r \in RowsOfAll(paths) : r.distance = 1}
           pairs == {<<row.ancestor, row.descendant>> : row \in rows}
<1>1. ASSUME NEW x \in pairs PROVE x \in {<<Parent(p), p>> : p \in paths \ {<<>>}}
  <2>1. PICK row \in rows : x = <<row.ancestor, row.descendant>>
    BY <1>1
  <2>2. PICK p \in paths : \E a \in Ancestors(p) : row = Row(a, p)
    BY <2>1, RowsAre
  <2> PICK a \in Ancestors(p) : row = Row(a, p)
    BY <2>2
  <2>3. x = <<a, p>> /\ Depth(p) - Depth(a) = 1
    BY <2>1, RowIs
  <2>4. p # <<>> /\ a = Parent(p)
    BY <2>3, ParentIs
  <2> QED
    BY <2>3, <2>4
<1>2. ASSUME NEW p \in paths \ {<<>>} PROVE <<Parent(p), p>> \in pairs
  <2>1. Parent(p) \in Ancestors(p)
    BY ParentAbove
  <2>2. Depth(p) - Depth(Parent(p)) = 1
    BY <2>1, ParentIs
  <2>3. Row(Parent(p), p) \in RowsOfAll(paths)
    BY <2>1, RowsAre
  <2>4. Row(Parent(p), p) \in rows
    BY <2>2, <2>3, RowIs
  <2> QED
    BY <2>4, RowIs
<1> QED
  BY <1>1, <1>2

LEMMA TreeOf ==
    ASSUME NEW tree, NEW paths
    PROVE  IsTreeOf(tree, paths) <=>
             /\ \A p \in paths : Ancestors(p) \subseteq paths
             /\ tree.by_descendant = RowsOfAll(paths)
             /\ tree.by_ancestor = RowsOfAll(paths)
             /\ tree.by_parent = {<<Parent(p), p>> : p \in paths \ {<<>>}}
  BY DEF IsTreeOf, RowsOfAll

\* The tree has the paths it is the tree of.
LEMMA PathsInTree ==
    ASSUME NEW N, NEW paths \in SUBSET Seq(N), NEW tree, IsTreeOf(tree, paths)
    PROVE  /\ PathsIn(tree) = paths
           /\ \A p : Contains(tree, p) <=> p \in paths
<1>1. tree.by_descendant = RowsOfAll(paths)
  BY TreeOf
<1>2. ASSUME NEW p \in paths PROVE \E row \in tree.by_descendant : row.descendant = p
  <2>1. Row(p, p) \in tree.by_descendant
    BY <1>1, AncestorSelf, RowsAre
  <2> QED
    BY <2>1, RowIs
<1>3. ASSUME NEW row \in tree.by_descendant PROVE row.descendant \in paths
  <2>1. PICK p \in paths : \E a \in Ancestors(p) : row = Row(a, p)
    BY <1>1, RowsAre
  <2> QED
    BY <2>1, RowIs
<1> QED
  BY <1>2, <1>3 DEF PathsIn, Contains

\* Adding the rows of paths, whose ancestors are there or are added.
LEMMA AddRows ==
    ASSUME NEW N, NEW paths \in SUBSET Seq(N), NEW tree, IsTreeOf(tree, paths),
           NEW more \in SUBSET Seq(N), \A p \in more : Ancestors(p) \subseteq paths \cup more
    PROVE  IsTreeOf(InsertRows(tree, RowsOfAll(more)), paths \cup more)
<1> DEFINE new == InsertRows(tree, RowsOfAll(more))
<1>1. /\ \A p \in paths : Ancestors(p) \subseteq paths
      /\ tree.by_descendant = RowsOfAll(paths)
      /\ tree.by_ancestor = RowsOfAll(paths)
      /\ tree.by_parent = {<<Parent(p), p>> : p \in paths \ {<<>>}}
  BY TreeOf
<1>2. RowsOfAll(paths) \cup RowsOfAll(more) = RowsOfAll(paths \cup more)
  BY RowsAre
<1>3. new.by_descendant = RowsOfAll(paths \cup more) /\ new.by_ancestor = RowsOfAll(paths \cup more)
  BY <1>1, <1>2 DEF InsertRows
<1>4. new.by_parent = {<<Parent(p), p>> : p \in (paths \cup more) \ {<<>>}}
  <2>1. new.by_parent = tree.by_parent \cup {<<Parent(p), p>> : p \in more \ {<<>>}}
    BY ParentRows DEF InsertRows
  <2> QED
    BY <1>1, <2>1
<1>5. \A p \in paths \cup more : Ancestors(p) \subseteq paths \cup more
  BY <1>1
<1> QED
  BY <1>3, <1>4, <1>5, TreeOf

LEMMA EmptyIsTree == IsTreeOf(EmptyTree, {})
  BY DEF IsTreeOf, EmptyTree

\* insert_all: the paths and all above them are there, and nothing else is new.
LEMMA InsertAllTree ==
    ASSUME NEW N, NEW paths \in SUBSET Seq(N), NEW tree, IsTreeOf(tree, paths),
           NEW new \in SUBSET Seq(N)
    PROVE  IsTreeOf(InsertAll(tree, new), paths \cup UNION {Ancestors(p) : p \in new})
<1> DEFINE above == UNION {Ancestors(p) : p \in new}
           missing == {p \in above : ~Contains(tree, p)}
<1>1. missing = above \ paths
  BY PathsInTree
<1>2. above \in SUBSET Seq(N)
  BY AncestorIs
<1>3. \A p \in above : Ancestors(p) \subseteq above
  BY AncestorTransitive
<1>4. InsertAll(tree, new) = InsertRows(tree, RowsOfAll(missing))
  BY DEF InsertAll, RowsOfAll
<1> HIDE DEF above, missing
<1>5. IsTreeOf(InsertRows(tree, RowsOfAll(missing)), paths \cup missing)
  BY <1>1, <1>2, <1>3, AddRows
<1>6. paths \cup missing = paths \cup above
  BY <1>1
<1> QED
  BY <1>4, <1>5, <1>6 DEF above

LEMMA InsertTree ==
    ASSUME NEW N, NEW paths \in SUBSET Seq(N), NEW tree, IsTreeOf(tree, paths),
           NEW path \in Seq(N)
    PROVE  IsTreeOf(Insert(tree, path), paths \cup Ancestors(path))
<1>1. UNION {Ancestors(p) : p \in {path}} = Ancestors(path)
  OBVIOUS
<1>2. Insert(tree, path) = InsertAll(tree, {path})
  BY <1>1 DEF Insert, InsertAll
<1>3. {path} \in SUBSET Seq(N)
  OBVIOUS
<1>4. IsTreeOf(InsertAll(tree, {path}), paths \cup UNION {Ancestors(p) : p \in {path}})
  BY <1>3, InsertAllTree
<1> QED
  BY <1>1, <1>2, <1>4

-----------------------------------------------------------------------------
(* Removing a subtree, and moving it.                                      *)

Below(paths, path) == {p \in paths : path \in Ancestors(p)}

\* The subtree of a path is every path that has it above it.
LEMMA SubtreeIs ==
    ASSUME NEW N, NEW paths \in SUBSET Seq(N), NEW tree, IsTreeOf(tree, paths),
           NEW path \in Seq(N)
    PROVE  SubtreePaths(tree, path) = Below(paths, path)
<1>1. /\ \A p \in paths : Ancestors(p) \subseteq paths
      /\ tree.by_ancestor = RowsOfAll(paths)
  BY TreeOf
<1>2. CASE path \notin paths
  BY <1>1, <1>2, PathsInTree DEF SubtreePaths, Below
<1>3. CASE path \in paths
  <2>1. ASSUME NEW p \in DescendantsOf(tree, path) PROVE p \in Below(paths, path)
    <3>1. PICK row \in RowsOfAll(paths) : row.ancestor = path /\ p = row.descendant
      BY <1>1, <2>1 DEF DescendantsOf
    <3>2. PICK q \in paths : \E a \in Ancestors(q) : row = Row(a, q)
      BY RowsAre
    <3> QED
      BY <3>1, <3>2, RowIs DEF Below
  <2>2. ASSUME NEW p \in Below(paths, path), p # path PROVE p \in DescendantsOf(tree, path)
    <3>1. p \in paths /\ path \in Ancestors(p) /\ p \in Seq(N)
      BY DEF Below
    <3>2. Row(path, p) \in RowsOfAll(paths)
      BY <3>1, RowsAre
    <3>3. Len(path) <= Len(p) /\ path = SubSeq(p, 1, Len(path)) /\ Len(p) \in Nat /\ Len(path) \in Nat
      BY <3>1, AncestorIs, LenProperties
    <3>4. Len(path) # Len(p)
      BY <2>2, <3>1, <3>3, SubSeqFull
    <3>5. Row(path, p).distance > 0
      BY <3>3, <3>4, RowIs DEF Depth
    <3> QED
      BY <1>1, <3>2, <3>5, RowIs DEF DescendantsOf
  <2>3. path \in Below(paths, path)
    BY <1>3, AncestorSelf DEF Below
  <2>4. SubtreePaths(tree, path) = {path} \cup DescendantsOf(tree, path)
    BY <1>3, PathsInTree DEF SubtreePaths
  <2> QED
    BY <2>1, <2>2, <2>3, <2>4
<1> QED
  BY <1>2, <1>3

\* Victims that have with every path all that is below it leave a tree behind.
LEMMA RemoveAllTree ==
    ASSUME NEW N, NEW paths \in SUBSET Seq(N), NEW tree, IsTreeOf(tree, paths),
           NEW victims \in SUBSET paths,
           \A p \in paths : \A v \in victims : v \in Ancestors(p) => p \in victims
    PROVE  IsTreeOf(RemoveAll(tree, victims), paths \ victims)
<1> DEFINE gone == {row \in tree.by_descendant : row.descendant \in victims}
           cut  == {<<row.ancestor, row.descendant>> : row \in gone}
           left == RemoveAll(tree, victims)
<1>1. /\ \A p \in paths : Ancestors(p) \subseteq paths
      /\ tree.by_descendant = RowsOfAll(paths)
      /\ tree.by_ancestor = RowsOfAll(paths)
      /\ tree.by_parent = {<<Parent(p), p>> : p \in paths \ {<<>>}}
  BY TreeOf
<1>2. \A p \in paths \ victims : Ancestors(p) \subseteq paths \ victims
  BY <1>1
<1>3. ASSUME NEW a, NEW p \in paths, a \in Ancestors(p)
      PROVE  <<a, p>> \in cut <=> p \in victims
  <2>1. Row(a, p) \in tree.by_descendant
    BY <1>1, <1>3, RowsAre
  <2>2. p \in victims => Row(a, p) \in gone
    BY <2>1, RowIs
  <2> QED
    BY <2>2, RowIs
<1>4. left.by_descendant = RowsOfAll(paths \ victims)
  <2>1. left.by_descendant = tree.by_descendant \ gone
    BY DEF RemoveAll
  <2>2. ASSUME NEW r PROVE r \in tree.by_descendant \ gone <=> r \in RowsOfAll(paths \ victims)
    BY <1>1, RowsAre, RowIs
  <2> QED
    BY <2>1, <2>2
<1>5. left.by_ancestor = RowsOfAll(paths \ victims)
  <2>1. left.by_ancestor = {r \in tree.by_ancestor : /\ <<r.ancestor, r.descendant>> \notin cut
                                                      /\ r.ancestor \notin victims}
    BY DEF RemoveAll
  <2>2. ASSUME NEW p \in paths, NEW a \in Ancestors(p)
        PROVE  Row(a, p) \in left.by_ancestor <=> p \notin victims
    <3>1. Row(a, p) \in tree.by_ancestor
      BY <1>1, RowsAre
    <3>2. a \in victims => p \in victims
      OBVIOUS
    <3>3. Row(a, p) \in left.by_ancestor <=> <<a, p>> \notin cut /\ a \notin victims
      BY <2>1, <3>1, RowIs
    <3> QED
      BY <1>3, <3>2, <3>3
  <2>3. left.by_ancestor \subseteq RowsOfAll(paths)
    BY <1>1, <2>1
  <2> HIDE DEF left, cut, gone
  <2>4. ASSUME NEW r \in left.by_ancestor PROVE r \in RowsOfAll(paths \ victims)
    <3>1. PICK p \in paths : \E a \in Ancestors(p) : r = Row(a, p)
      BY <2>3, RowsAre
    <3>2. p \notin victims
      BY <2>2, <3>1
    <3> QED
      BY <3>1, <3>2, RowsAre
  <2>5. ASSUME NEW r \in RowsOfAll(paths \ victims) PROVE r \in left.by_ancestor
    <3>1. PICK p \in paths \ victims : \E a \in Ancestors(p) : r = Row(a, p)
      BY RowsAre
    <3> QED
      BY <2>2, <3>1
  <2> QED
    BY <2>4, <2>5
<1>6. left.by_parent = {<<Parent(p), p>> : p \in (paths \ victims) \ {<<>>}}
  <2>1. left.by_parent = {r \in tree.by_parent : r \notin cut /\ r[1] \notin victims}
    BY DEF RemoveAll
  <2>2. ASSUME NEW p \in paths, p # <<>>
        PROVE  <<Parent(p), p>> \in left.by_parent <=> p \notin victims
    <3>1. Parent(p) \in Ancestors(p)
      BY <2>2, ParentAbove
    <3>2. <<Parent(p), p>> \in cut <=> p \in victims
      BY <1>3, <3>1
    <3>3. Parent(p) \in victims => p \in victims
      BY <3>1
    <3>4. <<Parent(p), p>> \in tree.by_parent /\ <<Parent(p), p>>[1] = Parent(p)
      BY <1>1, <2>2
    <3> QED
      BY <2>1, <3>2, <3>3, <3>4
  <2>3. left.by_parent \subseteq tree.by_parent
    BY <2>1
  <2> HIDE DEF left, cut, gone
  <2> QED
    BY <1>1, <2>2, <2>3
<1> QED
  BY <1>2, <1>4, <1>5, <1>6, TreeOf

LEMMA RemoveTree ==
    ASSUME NEW N, NEW paths \in SUBSET Seq(N), NEW tree, IsTreeOf(tree, paths),
           NEW path \in Seq(N)
    PROVE  IsTreeOf(Remove(tree, path), paths \ Below(paths, path))
<1>1. SubtreePaths(tree, path) = Below(paths, path)
  BY SubtreeIs
<1>2. \A p \in paths : \A v \in Below(paths, path) : v \in Ancestors(p) => p \in Below(paths, path)
  BY AncestorTransitive DEF Below
<1>3. Below(paths, path) \in SUBSET paths
  BY DEF Below
<1>4. IsTreeOf(RemoveAll(tree, Below(paths, path)), paths \ Below(paths, path))
  BY <1>2, <1>3, RemoveAllTree
<1> QED
  BY <1>1, <1>4 DEF Remove

LEMMA MovedIs ==
    ASSUME NEW N, NEW p \in Seq(N), NEW from \in Seq(N), NEW to \in Seq(N), from \in Ancestors(p)
    PROVE  Moved(p, from, to) \in Seq(N)
<1>1. \A i \in Len(from) + 1 .. Len(p) : p[i] \in N
  BY ElementOfSeq, LenProperties
<1>2. SubSeq(p, Len(from) + 1, Len(p)) \in Seq(N)
  BY <1>1, SubSeqProperties, LenProperties
<1> QED
  BY <1>2, ConcatProperties DEF Moved, Depth

\* rename_tree: the subtree is gone where it was, and is at the destination with all
\* above it.
Renamed(paths, from, to) ==
    (paths \ Below(paths, from))
        \cup UNION {Ancestors(q) : q \in {Moved(p, from, to) : p \in Below(paths, from)}}

LEMMA RenameTreeIs ==
    ASSUME NEW N, NEW paths \in SUBSET Seq(N), NEW tree, IsTreeOf(tree, paths),
           NEW from \in Seq(N), NEW to \in Seq(N)
    PROVE  IsTreeOf(Rename(tree, from, to), Renamed(paths, from, to))
<1> DEFINE moved == {Moved(p, from, to) : p \in Below(paths, from)}
<1>1. IsTreeOf(Remove(tree, from), paths \ Below(paths, from))
  BY RemoveTree
<1>2. moved \in SUBSET Seq(N)
  BY MovedIs DEF Below
<1>3. IsTreeOf(InsertAll(Remove(tree, from), moved),
               (paths \ Below(paths, from)) \cup UNION {Ancestors(q) : q \in moved})
  BY <1>1, <1>2, InsertAllTree
<1>4. Rename(tree, from, to) = InsertAll(Remove(tree, from), moved)
  BY SubtreeIs DEF Rename
<1> QED
  BY <1>3, <1>4 DEF Renamed

\* Moving back what was moved.
LEMMA MovedBack ==
    ASSUME NEW N, NEW p \in Seq(N), NEW from \in Seq(N), NEW to \in Seq(N), from \in Ancestors(p)
    PROVE  Moved(Moved(p, from, to), to, from) = p
<1> DEFINE rest == SubSeq(p, Len(from) + 1, Len(p))
<1>1. /\ Len(from) \in Nat /\ Len(p) \in Nat /\ Len(to) \in Nat /\ Len(from) <= Len(p)
      /\ from = SubSeq(p, 1, Len(from))
  BY AncestorIs, LenProperties
<1>2. rest \in Seq(N) /\ Len(rest) = Len(p) - Len(from)
  <2>1. \A i \in Len(from) + 1 .. Len(p) : p[i] \in N
    BY <1>1, ElementOfSeq
  <2> QED
    BY <1>1, <2>1, SubSeqProperties
<1>3. from \o rest = p
  <2>1. /\ 1 \in 1 .. Len(p) + 1 /\ Len(from) \in 1 - 1 .. Len(p) /\ Len(p) \in Len(from) .. Len(p)
    BY <1>1
  <2>2. SubSeq(p, 1, Len(from)) \o SubSeq(p, Len(from) + 1, Len(p)) = SubSeq(p, 1, Len(p))
    BY <2>1, ConcatAdjacentSubSeq
  <2> QED
    BY <1>1, <2>2, SubSeqFull
<1> HIDE DEF rest
<1>4. Moved(p, from, to) = to \o rest
  BY DEF Moved, Depth, rest
<1>5. Len(to \o rest) = Len(to) + Len(rest) /\ Len(rest) \in Nat
  BY <1>1, <1>2, ConcatProperties, LenProperties
<1>6. SubSeq(to \o rest, Len(to) + 1, Len(to) + Len(rest)) = rest
  <2>1. CASE Len(rest) = 0
    BY <1>1, <1>2, <2>1, SubSeqEmpty, EmptySeq
  <2>2. CASE Len(rest) # 0
    <3>1. /\ Len(to) + 1 \in Len(to) + 1 .. Len(to) + Len(rest)
          /\ Len(to) + Len(rest) \in Len(to) + 1 .. Len(to) + Len(rest)
      BY <1>1, <1>5, <2>2
    <3>2. SubSeq(to \o rest, Len(to) + 1, Len(to) + Len(rest))
              = SubSeq(rest, Len(to) + 1 - Len(to), Len(to) + Len(rest) - Len(to))
      BY <1>2, <3>1, SubSeqOfConcat2
    <3>3. Len(to) + 1 - Len(to) = 1 /\ Len(to) + Len(rest) - Len(to) = Len(rest)
      BY <1>1, <1>5
    <3> QED
      BY <1>2, <3>2, <3>3, SubSeqFull
  <2> QED
    BY <2>1, <2>2
<1> QED
  BY <1>3, <1>4, <1>5, <1>6 DEF Moved, Depth

\* What a path goes on with is below it.
LEMMA PrefixAbove ==
    ASSUME NEW N, NEW p \in Seq(N), NEW rest \in Seq(N)
    PROVE  p \in Ancestors(p \o rest)
<1>1. /\ p \o rest \in Seq(N) /\ Len(p \o rest) = Len(p) + Len(rest)
      /\ Len(p) \in Nat /\ Len(rest) \in Nat
  BY ConcatProperties, LenProperties
<1>2. SubSeq(p \o rest, 1, Len(p)) = p
  <2>1. CASE Len(p) = 0
    BY <1>1, <2>1, SubSeqEmpty, EmptySeq
  <2>2. CASE Len(p) # 0
    <3>1. 1 \in 1 .. Len(p) /\ Len(p) \in 1 .. Len(p)
      BY <1>1, <2>2
    <3>2. SubSeq(p \o rest, 1, Len(p)) = SubSeq(p, 1, Len(p))
      BY <3>1, SubSeqOfConcat1
    <3> QED
      BY <3>2, SubSeqFull
  <2> QED
    BY <2>1, <2>2
<1>3. Len(p) \in 0 .. Len(p \o rest)
  BY <1>1
<1> QED
  BY <1>2, <1>3 DEF Ancestors, Depth

\* What is moved ends up below the destination, and the source itself there.
LEMMA MovedUnder ==
    ASSUME NEW N, NEW p \in Seq(N), NEW from \in Seq(N), NEW to \in Seq(N), from \in Ancestors(p)
    PROVE  to \in Ancestors(Moved(p, from, to)) /\ Moved(from, from, to) = to
<1> DEFINE rest == SubSeq(p, Len(from) + 1, Len(p))
<1>1. /\ Len(from) \in Nat /\ Len(p) \in Nat /\ Len(to) \in Nat /\ Len(from) <= Len(p)
  BY AncestorIs, LenProperties
<1>2. rest \in Seq(N)
  <2>1. \A i \in Len(from) + 1 .. Len(p) : p[i] \in N
    BY <1>1, ElementOfSeq
  <2> QED
    BY <1>1, <2>1, SubSeqProperties
<1>3. to \in Ancestors(Moved(p, from, to))
  BY <1>2, PrefixAbove DEF Moved, Depth, rest
<1>4. Moved(from, from, to) = to
  <2>1. SubSeq(from, Len(from) + 1, Len(from)) = <<>>
    BY <1>1, SubSeqEmpty
  <2> QED
    BY <2>1, ConcatEmptySeq DEF Moved, Depth
<1> QED
  BY <1>3, <1>4

\* Of two paths above a third one is above the other.
LEMMA AncestorsNested ==
    ASSUME NEW N, NEW p \in Seq(N), NEW a \in Ancestors(p), NEW b \in Ancestors(p)
    PROVE  a \in Ancestors(b) \/ b \in Ancestors(a)
<1>1. ASSUME NEW c \in Ancestors(p), NEW d \in Ancestors(p), Len(c) <= Len(d)
      PROVE  c \in Ancestors(d)
  <2>1. /\ c \in Seq(N) /\ d \in Seq(N) /\ Len(c) \in Nat /\ Len(d) \in Nat /\ Len(d) <= Len(p)
        /\ c = SubSeq(p, 1, Len(c)) /\ d = SubSeq(p, 1, Len(d)) /\ Len(p) \in Nat
    BY AncestorIs, LenProperties
  <2>2. CASE Len(c) = 0
    BY <2>1, <2>2, AncestorIs, SubSeqEmpty
  <2>3. CASE Len(c) # 0
    <3>1. SubSeq(SubSeq(p, 1, Len(d)), 1, Len(c)) = SubSeq(p, 1 + 1 - 1, 1 + Len(c) - 1)
      BY <1>1, <2>1, <2>3, SubSeqOfSubSeq
    <3>2. 1 + 1 - 1 = 1 /\ 1 + Len(c) - 1 = Len(c)
      BY <2>1
    <3>3. SubSeq(d, 1, Len(c)) = SubSeq(p, 1, Len(c))
      BY <2>1, <3>1, <3>2
    <3> QED
      BY <1>1, <2>1, <3>3, AncestorIs
  <2> QED
    BY <2>2, <2>3
<1>2. Len(a) \in Nat /\ Len(b) \in Nat
  BY AncestorIs, LenProperties
<1> QED
  BY <1>1, <1>2

\* Moving keeps what is above what.
LEMMA MovedAbove ==
    ASSUME NEW N, NEW p \in Seq(N), NEW from \in Seq(N), NEW to \in Seq(N),
           NEW a \in Ancestors(p), from \in Ancestors(a)
    PROVE  Moved(a, from, to) \in Ancestors(Moved(p, from, to))
<1> DEFINE f == Len(from)
           head == SubSeq(p, f + 1, Len(a))
           tail == SubSeq(p, Len(a) + 1, Len(p))
<1>1. /\ a \in Seq(N) /\ f \in Nat /\ Len(a) \in Nat /\ Len(p) \in Nat
      /\ f <= Len(a) /\ Len(a) <= Len(p) /\ a = SubSeq(p, 1, Len(a))
  BY AncestorIs, LenProperties
<1>2. head \in Seq(N) /\ tail \in Seq(N)
  <2>1. \A i \in 1 .. Len(p) : p[i] \in N
    BY ElementOfSeq
  <2> QED
    BY <1>1, <2>1, SubSeqProperties
<1>3. SubSeq(a, f + 1, Len(a)) = head
  <2>1. CASE f = Len(a)
    BY <1>1, <2>1, SubSeqEmpty
  <2>2. CASE f # Len(a)
    <3>1. SubSeq(SubSeq(p, 1, Len(a)), f + 1, Len(a)) = SubSeq(p, 1 + (f + 1) - 1, 1 + Len(a) - 1)
      BY <1>1, <2>2, SubSeqOfSubSeq
    <3>2. 1 + (f + 1) - 1 = f + 1 /\ 1 + Len(a) - 1 = Len(a)
      BY <1>1
    <3> QED
      BY <1>1, <3>1, <3>2
  <2> QED
    BY <2>1, <2>2
<1>4. head \o tail = SubSeq(p, f + 1, Len(p))
  <2> DEFINE g == f + 1
  <2>1. /\ g \in 1 .. Len(p) + 1 /\ Len(a) \in g - 1 .. Len(p)
        /\ Len(p) \in Len(a) .. Len(p)
    BY <1>1
  <2> HIDE DEF g
  <2>2. SubSeq(p, g, Len(a)) \o SubSeq(p, Len(a) + 1, Len(p)) = SubSeq(p, g, Len(p))
    BY <2>1, ConcatAdjacentSubSeq
  <2> QED
    BY <2>2 DEF g
<1> HIDE DEF head, tail
<1>5. Moved(a, from, to) = to \o head /\ Moved(p, from, to) = to \o (head \o tail)
  BY <1>3, <1>4 DEF Moved, Depth
<1>6. to \o (head \o tail) = (to \o head) \o tail
  <2>1. ASSUME NEW h \in Seq(N), NEW t \in Seq(N) PROVE (to \o h) \o t = to \o (h \o t)
    BY ConcatAssociative, SMTT(30)
  <2> QED
    BY <1>2, <2>1, Zenon
<1>7. to \o head \in Seq(N)
  BY <1>2, ConcatProperties
<1> QED
  BY <1>2, <1>5, <1>6, <1>7, PrefixAbove

\* Two paths that are above each other are one path.
LEMMA AncestorOnce ==
    ASSUME NEW N, NEW p \in Seq(N), NEW a \in Ancestors(p), p \in Ancestors(a)
    PROVE  a = p
<1>1. a \in Seq(N) /\ Len(a) <= Len(p) /\ a = SubSeq(p, 1, Len(a))
  BY AncestorIs
<1>2. Len(p) <= Len(a) /\ p = SubSeq(a, 1, Len(p))
  BY <1>1, AncestorIs
<1>3. Len(a) \in Nat /\ Len(p) \in Nat
  BY <1>1, LenProperties
<1>4. Len(a) = Len(p)
  <2>1. Len(a) <= Len(p) /\ Len(p) <= Len(a)
    BY <1>1, <1>2
  <2>2. \A i, j \in Nat : i <= j /\ j <= i => i = j
    OBVIOUS
  <2> QED
    BY <1>3, <2>1, <2>2, Zenon
<1>5. SubSeq(p, 1, Len(p)) = p
  BY SubSeqFull
<1> QED
  BY <1>1, <1>4, <1>5

\* What is above a path is the path or above its parent.
LEMMA AboveParent ==
    ASSUME NEW N, NEW p \in Seq(N), p # <<>>, NEW a \in Ancestors(p), a # p
    PROVE  a \in Ancestors(Parent(p))
<1>1. Parent(p) \in Ancestors(p) /\ p \in Ancestors(p)
  BY ParentAbove, AncestorSelf
<1>2. /\ a \in Seq(N) /\ Len(a) \in Nat /\ Len(a) <= Len(p) /\ a = SubSeq(p, 1, Len(a))
      /\ Parent(p) \in Seq(N) /\ Len(Parent(p)) \in Nat
      /\ Parent(p) = SubSeq(p, 1, Len(Parent(p))) /\ Len(p) \in Nat
  BY <1>1, AncestorIs, LenProperties
<1>3. Len(p) - Len(Parent(p)) = 1
  BY <1>1, ParentIs DEF Depth
<1>4. Len(a) # Len(p)
  BY <1>2, SubSeqFull
<1>5. CASE Len(a) = Len(Parent(p))
  BY <1>2, <1>5, AncestorSelf
<1>6. CASE Len(a) # Len(Parent(p))
  <2>1. ~ Len(Parent(p)) <= Len(a)
    <3>1. Len(a) \in Nat /\ Len(p) \in Nat /\ Len(Parent(p)) \in Nat /\ Len(a) <= Len(p)
      BY <1>2
    <3> QED
      BY <1>3, <1>4, <1>6, <3>1
  <2>2. Parent(p) \notin Ancestors(a)
    BY <1>2, <2>1, AncestorIs
  <2> QED
    BY <1>1, <2>2, AncestorsNested
<1> QED
  BY <1>5, <1>6

\* The index of direct children lists a path under its parent exactly when the tree
\* has the path.
LEMMA ChildIs ==
    ASSUME NEW tree, NEW paths, IsTreeOf(tree, paths), NEW p, p # <<>>
    PROVE  p \in ChildrenOf(tree, Parent(p)) <=> p \in paths
<1>1. tree.by_parent = {<<Parent(q), q>> : q \in paths \ {<<>>}}
  BY TreeOf
<1>2. ASSUME p \in paths PROVE p \in ChildrenOf(tree, Parent(p))
  <2>1. <<Parent(p), p>> \in tree.by_parent
    BY <1>1, <1>2
  <2> QED
    BY <2>1 DEF ChildrenOf
<1>3. ASSUME p \in ChildrenOf(tree, Parent(p)) PROVE p \in paths
  <2>1. PICK row \in tree.by_parent : p = row[2]
    BY <1>3 DEF ChildrenOf
  <2>2. PICK q \in paths : row = <<Parent(q), q>>
    BY <1>1, <2>1
  <2> QED
    BY <2>1, <2>2
<1> QED
  BY <1>2, <1>3

-----------------------------------------------------------------------------
(* The same, for a tree that is the tree of its paths.                     *)

ExactFor(tree, N) == PathsIn(tree) \in SUBSET Seq(N) /\ IsTreeOf(tree, PathsIn(tree))

LEMMA ExactOf ==
    ASSUME NEW N, NEW paths \in SUBSET Seq(N), NEW tree, IsTreeOf(tree, paths)
    PROVE  ExactFor(tree, N) /\ PathsIn(tree) = paths
  BY PathsInTree DEF ExactFor

LEMMA InsertAllExact ==
    ASSUME NEW N, NEW tree, ExactFor(tree, N), NEW new \in SUBSET Seq(N)
    PROVE  /\ ExactFor(InsertAll(tree, new), N)
           /\ PathsIn(InsertAll(tree, new)) = PathsIn(tree) \cup UNION {Ancestors(p) : p \in new}
<1>1. PathsIn(tree) \cup UNION {Ancestors(p) : p \in new} \in SUBSET Seq(N)
  BY AncestorIs DEF ExactFor
<1>2. IsTreeOf(InsertAll(tree, new), PathsIn(tree) \cup UNION {Ancestors(p) : p \in new})
  BY InsertAllTree DEF ExactFor
<1> QED
  BY <1>1, <1>2, ExactOf

LEMMA InsertExact ==
    ASSUME NEW N, NEW tree, ExactFor(tree, N), NEW path \in Seq(N)
    PROVE  /\ ExactFor(Insert(tree, path), N)
           /\ PathsIn(Insert(tree, path)) = PathsIn(tree) \cup Ancestors(path)
<1>1. PathsIn(tree) \cup Ancestors(path) \in SUBSET Seq(N)
  BY AncestorIs DEF ExactFor
<1>2. IsTreeOf(Insert(tree, path), PathsIn(tree) \cup Ancestors(path))
  BY InsertTree DEF ExactFor
<1> QED
  BY <1>1, <1>2, ExactOf

LEMMA RemoveExact ==
    ASSUME NEW N, NEW tree, ExactFor(tree, N), NEW path \in Seq(N)
    PROVE  /\ ExactFor(Remove(tree, path), N)
           /\ PathsIn(Remove(tree, path)) = PathsIn(tree) \ Below(PathsIn(tree), path)
<1>1. PathsIn(tree) \ Below(PathsIn(tree), path) \in SUBSET Seq(N)
  BY DEF ExactFor
<1>2. IsTreeOf(Remove(tree, path), PathsIn(tree) \ Below(PathsIn(tree), path))
  BY RemoveTree DEF ExactFor
<1> QED
  BY <1>1, <1>2, ExactOf

LEMMA RenameExact ==
    ASSUME NEW N, NEW tree, ExactFor(tree, N), NEW from \in Seq(N), NEW to \in Seq(N)
    PROVE  /\ ExactFor(Rename(tree, from, to), N)
           /\ PathsIn(Rename(tree, from, to)) = Renamed(PathsIn(tree), from, to)
           /\ SubtreePaths(tree, from) = Below(PathsIn(tree), from)
<1>1. \A p \in Below(PathsIn(tree), from) : p \in Seq(N) /\ from \in Ancestors(p)
  BY DEF ExactFor, Below
<1>2. \A p \in Below(PathsIn(tree), from) : Moved(p, from, to) \in Seq(N)
  BY <1>1, MovedIs
<1>3. Renamed(PathsIn(tree), from, to) \in SUBSET Seq(N)
  BY <1>2, AncestorIs DEF Renamed, ExactFor
<1>4. IsTreeOf(Rename(tree, from, to), Renamed(PathsIn(tree), from, to))
  BY RenameTreeIs DEF ExactFor
<1> QED
  BY <1>3, <1>4, ExactOf, SubtreeIs DEF ExactFor

-----------------------------------------------------------------------------
(* The same, for a tree that some paths have come loose from.              *)

ExactBut(tree, loose, N) == PathsIn(tree) \in SUBSET Seq(N) /\ IsTreeBut(tree, loose)

\* Every row is the row of a path of the tree and of a path above it.
LEMMA RowsBut ==
    ASSUME NEW N, NEW tree, NEW loose, ExactBut(tree, loose, N), NEW row \in tree.by_descendant
    PROVE  /\ row.descendant \in PathsIn(tree) /\ row.ancestor \in Ancestors(row.descendant)
           /\ row = Row(row.ancestor, row.descendant)
<1>1. row \in RowsOf(row.descendant) /\ row.descendant \in PathsIn(tree)
  BY DEF ExactBut, IsTreeBut, PathsIn
<1>2. PICK a \in Ancestors(row.descendant) : row = Row(a, row.descendant)
  BY <1>1 DEF RowsOf, Row
<1> QED
  BY <1>1, <1>2, RowIs

LEMMA RowsOfIs ==
    ASSUME NEW p, NEW row
    PROVE  row \in RowsOf(p) <=> \E a \in Ancestors(p) : row = Row(a, p)
  BY DEF RowsOf, Row

LEMMA EmptyBut == \A N : ExactBut(EmptyTree, {}, N)
  BY DEF ExactBut, IsTreeBut, PathsIn, EmptyTree

LEMMA InsertAllBut ==
    ASSUME NEW N, NEW tree, NEW loose, ExactBut(tree, loose, N), NEW new \in SUBSET Seq(N)
    PROVE  /\ ExactBut(InsertAll(tree, new), loose, N)
           /\ PathsIn(InsertAll(tree, new)) = PathsIn(tree) \cup UNION {Ancestors(p) : p \in new}
<1> DEFINE above == UNION {Ancestors(p) : p \in new}
           missing == {p \in above : ~Contains(tree, p)}
           after == InsertAll(tree, new)
<1>1. above \in SUBSET Seq(N) /\ \A p \in above : Ancestors(p) \subseteq above
  BY AncestorIs, AncestorTransitive
<1>2. missing = above \ PathsIn(tree)
  BY DEF Contains, PathsIn
<1>3. /\ after.by_ancestor = tree.by_ancestor \cup RowsOfAll(missing)
      /\ after.by_descendant = tree.by_descendant \cup RowsOfAll(missing)
      /\ after.by_parent = tree.by_parent \cup
             {<<row.ancestor, row.descendant>> : row \in {r \in RowsOfAll(missing) : r.distance = 1}}
  BY DEF InsertAll, InsertRows, RowsOfAll
<1> HIDE DEF above, after
<1>4. ASSUME NEW row \in RowsOfAll(missing)
      PROVE  row \in RowsOf(row.descendant) /\ row.descendant \in missing
  <2>1. PICK p \in missing : \E a \in Ancestors(p) : row = Row(a, p)
    BY RowsAre
  <2>2. row.descendant = p /\ row \in RowsOf(p)
    BY <2>1, RowIs, RowsOfIs
  <2> QED
    BY <2>2
<1>5. ASSUME NEW p \in missing PROVE RowsOf(p) \subseteq RowsOfAll(missing)
  BY DEF RowsOfAll
<1>6. PathsIn(after) = PathsIn(tree) \cup missing
  <2>1. ASSUME NEW p \in missing PROVE p \in PathsIn(after)
    <3>1. Row(p, p) \in after.by_descendant
      BY <1>1, <1>3, AncestorSelf, RowsAre
    <3> QED
      BY <3>1, RowIs DEF PathsIn
  <2>2. PathsIn(tree) \subseteq PathsIn(after)
    BY <1>3 DEF PathsIn
  <2>3. PathsIn(after) \subseteq PathsIn(tree) \cup missing
    BY <1>3, <1>4 DEF PathsIn
  <2> QED
    BY <2>1, <2>2, <2>3
<1>7. /\ tree.by_ancestor \subseteq tree.by_descendant
      /\ \A row \in tree.by_descendant : row \in RowsOf(row.descendant)
      /\ tree.by_parent = {<<row.ancestor, row.descendant>> :
                              row \in {r \in tree.by_ancestor : r.distance = 1}}
      /\ PathsIn(tree) \in SUBSET Seq(N)
  BY DEF ExactBut, IsTreeBut
<1>8. after.by_parent = {<<row.ancestor, row.descendant>> :
                            row \in {r \in after.by_ancestor : r.distance = 1}}
  BY <1>3, <1>7
<1>9. ASSUME NEW p \in PathsIn(after) \ loose
      PROVE  Ancestors(p) \subseteq PathsIn(after) \cup loose /\ RowsOf(p) \subseteq after.by_ancestor
  <2>1. CASE p \in missing
    BY <1>1, <1>2, <1>3, <1>5, <1>6, <2>1
  <2>2. CASE p \notin missing
    BY <1>3, <1>6, <2>2 DEF ExactBut, IsTreeBut
  <2> QED
    BY <2>1, <2>2
<1>10. PathsIn(after) = PathsIn(tree) \cup above
  BY <1>2, <1>6
<1>11. IsTreeBut(after, loose)
  BY <1>3, <1>4, <1>7, <1>8, <1>9 DEF IsTreeBut
<1> QED
  BY <1>1, <1>7, <1>10, <1>11 DEF ExactBut, above, after

LEMMA InsertBut ==
    ASSUME NEW N, NEW tree, NEW loose, ExactBut(tree, loose, N), NEW path \in Seq(N)
    PROVE  /\ ExactBut(Insert(tree, path), loose, N)
           /\ PathsIn(Insert(tree, path)) = PathsIn(tree) \cup Ancestors(path)
<1>1. UNION {Ancestors(p) : p \in {path}} = Ancestors(path)
  OBVIOUS
<1>2. Insert(tree, path) = InsertAll(tree, {path})
  BY <1>1 DEF Insert, InsertAll
<1>3. {path} \in SUBSET Seq(N)
  OBVIOUS
<1> QED
  BY <1>1, <1>2, <1>3, InsertAllBut

\* The subtree of a path lies below it, and misses only loose paths.
LEMMA SubtreeBut ==
    ASSUME NEW N, NEW tree, NEW loose, ExactBut(tree, loose, N), NEW path \in Seq(N)
    PROVE  /\ SubtreePaths(tree, path) \subseteq Below(PathsIn(tree), path)
           /\ SubtreePaths(tree, path) # {} => path \in SubtreePaths(tree, path)
           /\ path \in PathsIn(tree) => path \in SubtreePaths(tree, path)
           /\ \A p \in PathsIn(tree) \ loose :
                  path \in PathsIn(tree) /\ path \in Ancestors(p) => p \in SubtreePaths(tree, path)
<1>1. tree.by_ancestor \subseteq tree.by_descendant /\ PathsIn(tree) \in SUBSET Seq(N)
  BY DEF ExactBut, IsTreeBut
<1>2. Contains(tree, path) <=> path \in PathsIn(tree)
  BY DEF Contains, PathsIn
<1>3. path \in Ancestors(path)
  BY AncestorSelf
<1>4. ASSUME NEW p \in DescendantsOf(tree, path) PROVE p \in Below(PathsIn(tree), path)
  BY <1>1, <1>4, RowsBut DEF DescendantsOf, Below
<1>5. ASSUME NEW p \in PathsIn(tree) \ loose, path \in Ancestors(p), p # path
      PROVE  p \in DescendantsOf(tree, path)
  <2>1. Row(path, p) \in tree.by_ancestor
    BY <1>5, RowsOfIs DEF ExactBut, IsTreeBut
  <2>2. /\ Len(path) <= Len(p) /\ path = SubSeq(p, 1, Len(path)) /\ p \in Seq(N)
        /\ Len(p) \in Nat /\ Len(path) \in Nat
    BY <1>1, <1>5, AncestorIs, LenProperties
  <2>3. Len(path) # Len(p)
    BY <1>5, <2>2, SubSeqFull
  <2>4. Row(path, p).distance > 0
    BY <2>2, <2>3, RowIs DEF Depth
  <2> QED
    BY <2>1, <2>4, RowIs DEF DescendantsOf
<1>6. SubtreePaths(tree, path) \subseteq Below(PathsIn(tree), path)
  BY <1>2, <1>3, <1>4 DEF SubtreePaths, Below
<1>7. /\ SubtreePaths(tree, path) # {} => path \in SubtreePaths(tree, path)
      /\ path \in PathsIn(tree) => path \in SubtreePaths(tree, path)
  BY <1>2 DEF SubtreePaths
<1>8. ASSUME NEW p \in PathsIn(tree) \ loose, path \in PathsIn(tree), path \in Ancestors(p)
      PROVE  p \in SubtreePaths(tree, path)
  BY <1>2, <1>5, <1>8 DEF SubtreePaths
<1> QED
  BY <1>6, <1>7, <1>8

\* Victims that have with every path all that is below it, but for loose paths.
LEMMA RemoveAllBut ==
    ASSUME NEW N, NEW tree, NEW loose, ExactBut(tree, loose, N), NEW victims,
           \A p \in PathsIn(tree) \ loose : \A v \in victims : v \in Ancestors(p) => p \in victims
    PROVE  /\ ExactBut(RemoveAll(tree, victims), loose, N)
           /\ PathsIn(RemoveAll(tree, victims)) = PathsIn(tree) \ victims
<1> DEFINE gone == {row \in tree.by_descendant : row.descendant \in victims}
           cut  == {<<row.ancestor, row.descendant>> : row \in gone}
           left == RemoveAll(tree, victims)
<1>1. /\ left.by_descendant = tree.by_descendant \ gone
      /\ left.by_ancestor = {r \in tree.by_ancestor : /\ <<r.ancestor, r.descendant>> \notin cut
                                                       /\ r.ancestor \notin victims}
      /\ left.by_parent = {r \in tree.by_parent : r \notin cut /\ r[1] \notin victims}
  BY DEF RemoveAll
<1>2. /\ tree.by_ancestor \subseteq tree.by_descendant
      /\ \A row \in tree.by_descendant : row \in RowsOf(row.descendant)
      /\ tree.by_parent = {<<row.ancestor, row.descendant>> :
                              row \in {r \in tree.by_ancestor : r.distance = 1}}
      /\ PathsIn(tree) \in SUBSET Seq(N)
  BY DEF ExactBut, IsTreeBut
<1>3. \A a, p : <<a, p>> \in cut => p \in victims
  OBVIOUS
<1>4. \A r \in gone : <<r.ancestor, r.descendant>> \in cut
  OBVIOUS
<1>5. PathsIn(left) = PathsIn(tree) \ victims
  BY <1>1 DEF PathsIn
<1> HIDE DEF left, cut
<1>6. left.by_ancestor \subseteq left.by_descendant
  BY <1>1, <1>2, <1>4
<1>7. left.by_parent = {<<row.ancestor, row.descendant>> :
                           row \in {r \in left.by_ancestor : r.distance = 1}}
  <2>1. ASSUME NEW x \in left.by_parent
        PROVE  \E row \in left.by_ancestor : row.distance = 1 /\ x = <<row.ancestor, row.descendant>>
    <3>1. PICK row \in tree.by_ancestor : row.distance = 1 /\ x = <<row.ancestor, row.descendant>>
      BY <1>1, <1>2
    <3>2. x \notin cut /\ x[1] \notin victims
      BY <1>1
    <3> QED
      BY <1>1, <3>1, <3>2
  <2>2. ASSUME NEW row \in left.by_ancestor, row.distance = 1
        PROVE  <<row.ancestor, row.descendant>> \in left.by_parent
    <3>1. <<row.ancestor, row.descendant>> \in tree.by_parent
      BY <1>1, <1>2, <2>2
    <3> QED
      BY <1>1, <3>1
  <2> QED
    BY <2>1, <2>2
<1>8. ASSUME NEW p \in PathsIn(left) \ loose
      PROVE  Ancestors(p) \subseteq PathsIn(left) \cup loose /\ RowsOf(p) \subseteq left.by_ancestor
  <2>1. /\ p \in PathsIn(tree) \ loose /\ p \notin victims
        /\ Ancestors(p) \subseteq PathsIn(tree) \cup loose /\ RowsOf(p) \subseteq tree.by_ancestor
    BY <1>5 DEF ExactBut, IsTreeBut
  <2>2. \A a \in Ancestors(p) : a \notin victims
    BY <2>1
  <2>3. ASSUME NEW row \in RowsOf(p) PROVE row \in left.by_ancestor
    <3>1. PICK a \in Ancestors(p) : row = Row(a, p)
      BY RowsOfIs
    <3>2. row.ancestor = a /\ row.descendant = p /\ row \in tree.by_ancestor
      BY <2>1, <3>1, RowIs
    <3> QED
      BY <1>1, <1>3, <2>1, <2>2, <3>2
  <2> QED
    BY <1>5, <2>1, <2>2, <2>3
<1>9. IsTreeBut(left, loose)
  BY <1>1, <1>2, <1>6, <1>7, <1>8 DEF IsTreeBut
<1> QED
  BY <1>2, <1>5, <1>9 DEF ExactBut, left

LEMMA RemoveBut ==
    ASSUME NEW N, NEW tree, NEW loose, ExactBut(tree, loose, N), NEW path \in Seq(N)
    PROVE  /\ ExactBut(Remove(tree, path), loose, N)
           /\ PathsIn(Remove(tree, path)) = PathsIn(tree) \ SubtreePaths(tree, path)
<1> DEFINE victims == SubtreePaths(tree, path)
<1>1. ASSUME NEW p \in PathsIn(tree) \ loose, NEW v \in victims, v \in Ancestors(p)
      PROVE  p \in victims
  <2>1. path \in Ancestors(v) /\ path \in PathsIn(tree)
    BY SubtreeBut DEF Below
  <2>2. p \in Seq(N)
    BY DEF ExactBut
  <2>3. path \in Ancestors(p)
    BY <1>1, <2>1, <2>2, AncestorTransitive
  <2> QED
    BY <2>1, <2>3, SubtreeBut
<1> HIDE DEF victims
<1>2. /\ ExactBut(RemoveAll(tree, victims), loose, N)
      /\ PathsIn(RemoveAll(tree, victims)) = PathsIn(tree) \ victims
  BY <1>1, RemoveAllBut
<1> QED
  BY <1>2 DEF Remove, victims

LEMMA RenameBut ==
    ASSUME NEW N, NEW tree, NEW loose, ExactBut(tree, loose, N), NEW from \in Seq(N),
           NEW to \in Seq(N)
    PROVE  /\ ExactBut(Rename(tree, from, to), loose, N)
           /\ PathsIn(Rename(tree, from, to)) =
                  (PathsIn(tree) \ SubtreePaths(tree, from))
                    \cup UNION {Ancestors(q) : q \in {Moved(p, from, to) :
                                                         p \in SubtreePaths(tree, from)}}
<1> DEFINE moved == {Moved(p, from, to) : p \in SubtreePaths(tree, from)}
<1>1. \A p \in SubtreePaths(tree, from) : p \in Seq(N) /\ from \in Ancestors(p)
  BY SubtreeBut DEF Below, ExactBut
<1>2. moved \in SUBSET Seq(N)
  BY <1>1, MovedIs
<1>3. Rename(tree, from, to) = InsertAll(Remove(tree, from), moved)
  BY DEF Rename
<1> HIDE DEF moved
<1>4. /\ ExactBut(Remove(tree, from), loose, N)
      /\ PathsIn(Remove(tree, from)) = PathsIn(tree) \ SubtreePaths(tree, from)
  BY RemoveBut
<1> QED
  BY <1>2, <1>3, <1>4, InsertAllBut DEF moved

\* A tree made of the rows that a walk has gathered while the tree changed.
LEMMA FromRowsBut ==
    ASSUME NEW N, NEW tree, NEW loose, ExactBut(tree, loose, N),
           NEW torn, loose \subseteq torn, NEW rows,
           \A row \in rows : row.descendant \in Seq(N) /\ row \in RowsOf(row.descendant),
           \A row : row.descendant \notin torn => (row \in rows <=> row \in tree.by_ancestor)
    PROVE  ExactBut(FromRows(rows), torn, N)
<1> DEFINE new == FromRows(rows)
<1>1. /\ new.by_ancestor = rows /\ new.by_descendant = rows
      /\ new.by_parent = {<<row.ancestor, row.descendant>> : row \in {r \in rows : r.distance = 1}}
  BY DEF FromRows, InsertRows, EmptyTree
<1>2. PathsIn(new) = {row.descendant : row \in rows}
  BY <1>1 DEF PathsIn
<1> HIDE DEF new
<1>3. tree.by_ancestor \subseteq tree.by_descendant /\ PathsIn(tree) \in SUBSET Seq(N)
  BY DEF ExactBut, IsTreeBut
<1>4. ASSUME NEW p \in PathsIn(tree), p \notin torn
      PROVE  RowsOf(p) \subseteq rows /\ Ancestors(p) \subseteq PathsIn(tree) \cup torn
             /\ p \in PathsIn(new)
  <2>1. RowsOf(p) \subseteq tree.by_ancestor /\ Ancestors(p) \subseteq PathsIn(tree) \cup loose
    BY <1>4 DEF ExactBut, IsTreeBut
  <2>2. \A row \in RowsOf(p) : row.descendant = p
    BY RowsOfIs, RowIs
  <2>3. RowsOf(p) \subseteq rows
    BY <1>4, <2>1, <2>2
  <2>4. Row(p, p) \in RowsOf(p) /\ Row(p, p).descendant = p
    BY <1>3, AncestorSelf, RowsOfIs, RowIs
  <2> QED
    BY <1>2, <2>1, <2>3, <2>4
<1>5. ASSUME NEW p \in PathsIn(new) \ torn
      PROVE  Ancestors(p) \subseteq PathsIn(new) \cup torn /\ RowsOf(p) \subseteq new.by_ancestor
  <2>1. p \in PathsIn(tree)
    BY <1>2, <1>3 DEF PathsIn
  <2> QED
    BY <1>1, <1>4, <2>1
<1>6. PathsIn(new) \in SUBSET Seq(N)
  BY <1>2
<1>7. IsTreeBut(new, torn)
  BY <1>1, <1>5 DEF IsTreeBut
<1> QED
  BY <1>6, <1>7 DEF ExactBut, new

\* A path that is not loose is listed under its parent exactly when the tree has it.
LEMMA ChildBut ==
    ASSUME NEW N, NEW tree, NEW loose, ExactBut(tree, loose, N), NEW p \in Seq(N), p # <<>>
    PROVE  /\ p \in ChildrenOf(tree, Parent(p)) <=> Row(Parent(p), p) \in tree.by_ancestor
           /\ p \in ChildrenOf(tree, Parent(p)) => p \in PathsIn(tree)
           /\ p \in PathsIn(tree) \ loose => p \in ChildrenOf(tree, Parent(p))
<1>1. /\ tree.by_ancestor \subseteq tree.by_descendant
      /\ tree.by_parent = {<<row.ancestor, row.descendant>> :
                              row \in {r \in tree.by_ancestor : r.distance = 1}}
  BY DEF ExactBut, IsTreeBut
<1>2. Parent(p) \in Ancestors(p) /\ Depth(p) - Depth(Parent(p)) = 1
  BY ParentAbove, ParentIs
<1>3. ASSUME p \in ChildrenOf(tree, Parent(p))
      PROVE  Row(Parent(p), p) \in tree.by_ancestor /\ p \in PathsIn(tree)
  <2>1. PICK x \in tree.by_parent : x[1] = Parent(p) /\ p = x[2]
    BY <1>3 DEF ChildrenOf
  <2>2. PICK row \in tree.by_ancestor : x = <<row.ancestor, row.descendant>>
    BY <1>1, <2>1
  <2>3. row = Row(Parent(p), p) /\ p \in PathsIn(tree)
    BY <1>1, <2>1, <2>2, RowsBut
  <2> QED
    BY <2>2, <2>3
<1>4. ASSUME Row(Parent(p), p) \in tree.by_ancestor PROVE p \in ChildrenOf(tree, Parent(p))
  <2>1. <<Parent(p), p>> \in tree.by_parent
    BY <1>1, <1>2, <1>4, RowIs
  <2> QED
    BY <2>1 DEF ChildrenOf
<1>5. ASSUME p \in PathsIn(tree) \ loose PROVE Row(Parent(p), p) \in tree.by_ancestor
  BY <1>2, <1>5, RowsOfIs DEF ExactBut, IsTreeBut
<1> QED
  BY <1>3, <1>4, <1>5

\* A path stays listed when others are added, and when neither it nor its parent is
\* removed.
LEMMA ChildStays ==
    ASSUME NEW tree, NEW p, p \in ChildrenOf(tree, Parent(p))
    PROVE  /\ \A new : p \in ChildrenOf(InsertAll(tree, new), Parent(p))
           /\ \A victims : p \notin victims /\ Parent(p) \notin victims =>
                  p \in ChildrenOf(RemoveAll(tree, victims), Parent(p))
<1>1. PICK row \in tree.by_parent : row[1] = Parent(p) /\ row[2] = p
  BY DEF ChildrenOf
<1>2. ASSUME NEW new PROVE p \in ChildrenOf(InsertAll(tree, new), Parent(p))
  BY <1>1 DEF ChildrenOf, InsertAll, InsertRows
<1>3. ASSUME NEW victims, p \notin victims, Parent(p) \notin victims
      PROVE  p \in ChildrenOf(RemoveAll(tree, victims), Parent(p))
  <2> DEFINE gone == {r \in tree.by_descendant : r.descendant \in victims}
             cut  == {<<r.ancestor, r.descendant>> : r \in gone}
  <2>1. \A x \in cut : x[2] \in victims
    OBVIOUS
  <2>2. row \notin cut
    BY <1>1, <1>3, <2>1
  <2>3. row \in RemoveAll(tree, victims).by_parent
    BY <1>1, <1>3, <2>2 DEF RemoveAll
  <2> QED
    BY <1>1, <2>3 DEF ChildrenOf
<1> QED
  BY <1>2, <1>3
=============================================================================
