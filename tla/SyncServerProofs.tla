-------------------------- MODULE SyncServerProofs --------------------------
(***************************************************************************)
(* For all paths and bounds: the path tree, and the objects of the map, in *)
(* the daemon and in whatever a restart would load.                        *)
(***************************************************************************)
EXTENDS SyncServer, PathTreeProofs

Known == Paths \cup {<<>>}

\* A tree of paths that the model knows, which some may have come loose from.
KnownBut(tree, loose) == IsTreeBut(tree, loose) /\ PathsIn(tree) \subseteq Known

LEMMA KnownIs ==
    /\ Known \in SUBSET Seq(Names)
    /\ \A p \in Known : Ancestors(p) \subseteq Known
<1>1. Known \in SUBSET Seq(Names)
  BY PathsAssumption, EmptySeq DEF Known
<1>2. Ancestors(<<>>) \subseteq {<<>>}
  <2>1. <<>> \in Seq(Names) /\ Len(<<>>) = 0
    BY EmptySeq
  <2>2. ASSUME NEW a \in Ancestors(<<>>) PROVE a = <<>>
    <3>1. a \in Seq(Names) /\ Len(a) <= 0
      BY <2>1, AncestorIs
    <3>2. Len(a) = 0
      BY <3>1, LenProperties
    <3> QED
      BY <3>1, <3>2, EmptySeq
  <2> QED
    BY <2>2
<1> QED
  BY <1>1, <1>2, PathsAssumption DEF Known

LEMMA KnownTree ==
    ASSUME NEW tree, NEW loose
    PROVE  KnownBut(tree, loose) <=> ExactBut(tree, loose, Names) /\ PathsIn(tree) \subseteq Known
  BY KnownIs DEF KnownBut, ExactBut

LEMMA KnownEmpty == \A loose : KnownBut(EmptyTree, loose)
  BY DEF KnownBut, IsTreeBut, EmptyTree, PathsIn

LEMMA KnownInsert ==
    ASSUME NEW tree, NEW loose, KnownBut(tree, loose), NEW path \in Paths
    PROVE  KnownBut(Insert(tree, path), loose)
<1>1. path \in Seq(Names) /\ Ancestors(path) \subseteq Known
  BY KnownIs DEF Known
<1> QED
  BY <1>1, InsertBut, KnownTree

LEMMA KnownRemove ==
    ASSUME NEW tree, NEW loose, KnownBut(tree, loose), NEW path \in Paths
    PROVE  KnownBut(Remove(tree, path), loose)
<1>1. path \in Seq(Names)
  BY KnownIs DEF Known
<1> QED
  BY <1>1, RemoveBut, KnownTree

LEMMA KnownRename ==
    ASSUME NEW tree, NEW loose, KnownBut(tree, loose), NEW from \in Paths, NEW to \in Paths,
           \A p \in SubtreePaths(tree, from) : Moved(p, from, to) \in Paths
    PROVE  KnownBut(Rename(tree, from, to), loose)
<1>1. from \in Seq(Names) /\ to \in Seq(Names)
  BY KnownIs DEF Known
<1>2. \A p \in SubtreePaths(tree, from) : Ancestors(Moved(p, from, to)) \subseteq Known
  BY KnownIs DEF Known
<1> QED
  BY <1>1, <1>2, RenameBut, KnownTree

LEMMA KnownPaths ==
    ASSUME NEW paths \in SUBSET Paths
    PROVE  KnownBut(FromPaths(paths), {})
<1>1. paths \in SUBSET Seq(Names) /\ \A p \in paths : Ancestors(p) \subseteq Known
  BY KnownIs DEF Known
<1>2. ExactBut(EmptyTree, {}, Names) /\ PathsIn(EmptyTree) = {}
  BY EmptyBut DEF PathsIn, EmptyTree
<1>3. /\ ExactBut(FromPaths(paths), {}, Names)
      /\ PathsIn(FromPaths(paths)) = {} \cup UNION {Ancestors(p) : p \in paths}
  BY <1>1, <1>2, InsertAllBut DEF FromPaths
<1> QED
  BY <1>1, <1>3, KnownTree

-----------------------------------------------------------------------------
(* The tree in memory, in a save and on the disk.                          *)

\* The rows of the tree are gathered as far as the walk has come, but for those of
\* some paths.
Gathered(but) ==
    {row \in snapshot.rows : row.descendant \notin but} =
        {row \in path_tree.by_ancestor : row.descendant \notin but /\ row.ancestor \notin unread}

Gathering == {"create_data", "write_map", "write_tree"}

\* A save has the rows of paths that the model knows, and none before it walks.
RowsGathered ==
    /\ \A row \in snapshot.rows : row.descendant \in Known /\ row \in RowsOf(row.descendant)
    /\ phase \notin Gathering \cup {"walk"} => snapshot.rows = {}
    /\ phase \in Gathering => unread = {}

\* What a walk finds is what the tree has, but for the paths that gained or lost rows
\* while it went on.
Walked ==
    phase = "walk" => /\ frayed.memory \subseteq frayed.saving
                      /\ Gathered(frayed.saving)

TreeInv ==
    /\ snapshot = [fuse_map |-> snapshot.fuse_map, next_id |-> snapshot.next_id,
                   rows |-> snapshot.rows]
    /\ frayed = [memory |-> frayed.memory, saving |-> frayed.saving, disk |-> frayed.disk]
    /\ KnownBut(path_tree, frayed.memory)
    /\ RowsGathered
    /\ Walked
    /\ phase \in Gathering => KnownBut(FromRows(snapshot.rows), frayed.saving)
    /\ phase = "write_map" => frayed.disk = {}
    /\ phase = "write_tree" => ~data_bin.whole
    /\ IF data_bin.whole THEN KnownBut(FromRows(data_bin.rows), frayed.disk) ELSE frayed.disk = {}

LEMMA TreeInit == Init => TreeInv
<1> SUFFICES ASSUME Init PROVE TreeInv
  OBVIOUS
<1>1. FromRows({}) = EmptyTree
  BY DEF FromRows, InsertRows, EmptyTree
<1> QED
  BY <1>1, KnownEmpty
  DEF Init, NoSnapshot, TreeInv, RowsGathered, Walked, Gathering

\* Whatever the disk has that can be loaded makes a tree.
LEMMA KnownLoaded == TreeInv => KnownBut(Loaded, frayed.disk)
  BY KnownPaths DEF TreeInv, Loaded

LEMMA TreeByRequest == TreeInv /\ Request => TreeInv'
<1> SUFFICES ASSUME TreeInv, Request PROVE TreeInv'
  OBVIOUS
<1>1. UNCHANGED <<phase, snapshot, unread, data_bin>>
  BY DEF Request, EnsureFileObject, EnsureFails, Put, DeleteWhiteout, DeleteFile, RenameFile,
     RenameTree, saving, disk
<1>2. /\ frayed' = [memory |-> frayed'.memory, saving |-> frayed'.saving, disk |-> frayed'.disk]
      /\ frayed'.memory = frayed.memory /\ frayed'.disk = frayed.disk
      /\ frayed'.saving = IF phase = "walk" THEN frayed.saving \cup Rerowed ELSE frayed.saving
  BY DEF Request, Stir, TreeInv
<1>3. ASSUME NEW p \in Paths, EnsureFileObject(p) \/ EnsureFails(p) \/ Put(p)
                              \/ DeleteWhiteout(p) \/ DeleteFile(p)
      PROVE  KnownBut(path_tree', frayed.memory)
  <2>1. path_tree' \in {path_tree, Insert(path_tree, p), Remove(path_tree, p)}
    BY <1>3 DEF EnsureFileObject, EnsureFails, Put, DeleteWhiteout, DeleteFile, Set
  <2> QED
    BY <2>1, KnownInsert, KnownRemove DEF TreeInv
<1>4. ASSUME NEW from \in Paths, NEW to \in Paths, RenameFile(from, to) \/ RenameTree(from, to)
      PROVE  KnownBut(path_tree', frayed.memory)
  <2>1. path_tree' = Rename(path_tree, from, to) /\ Fits(from, to)
    BY <1>4 DEF RenameFile, RenameTree
  <2> QED
    BY <2>1, KnownRename DEF TreeInv, Fits
<1>5. KnownBut(path_tree', frayed'.memory)
  BY <1>2, <1>3, <1>4 DEF Request
<1>6. RowsGathered'
  BY <1>1 DEF TreeInv, RowsGathered
<1>7. Walked'
  <2> SUFFICES ASSUME phase = "walk"
               PROVE  /\ frayed'.memory \subseteq frayed'.saving
                      /\ Gathered(frayed.saving)'
    BY <1>1 DEF Walked
  <2>1. \A row : row.descendant \notin Rerowed =>
                     (row \in path_tree.by_ancestor <=> row \in path_tree'.by_ancestor)
    BY DEF Rerowed
  <2> QED
    BY <1>1, <1>2, <2>1 DEF TreeInv, Walked, Gathered
<1>8. phase' \in Gathering => KnownBut(FromRows(snapshot'.rows), frayed'.saving)
  BY <1>1, <1>2 DEF TreeInv, Gathering
<1>9. IF data_bin'.whole THEN KnownBut(FromRows(data_bin'.rows), frayed'.disk) ELSE frayed'.disk = {}
  BY <1>1, <1>2 DEF TreeInv
<1> QED
  BY <1>1, <1>2, <1>5, <1>6, <1>7, <1>8, <1>9 DEF TreeInv

\* One key of by_ancestor more is read, perhaps the last.
LEMMA TreeByReadRows == \A p \in Known : TreeInv /\ ReadRows(p) => TreeInv'
<1> SUFFICES ASSUME NEW p \in Known, TreeInv, ReadRows(p) PROVE TreeInv'
  OBVIOUS
<1> DEFINE more == {row \in path_tree.by_ancestor : row.ancestor = p}
<1>1. /\ phase = "walk" /\ p \in unread /\ unread' = unread \ {p}
      /\ phase' = IF unread' = {} THEN "create_data" ELSE "walk"
      /\ UNCHANGED <<path_tree, frayed, data_bin>>
  BY DEF ReadRows, memory, disk, history
<1>2. snapshot' = [fuse_map |-> snapshot.fuse_map, next_id |-> snapshot.next_id,
                   rows |-> snapshot.rows \cup more]
  BY DEF ReadRows, TreeInv
<1>3. snapshot'.rows = snapshot.rows \cup more
  BY <1>2
<1> HIDE DEF more
<1>4. /\ ExactBut(path_tree, frayed.memory, Names) /\ PathsIn(path_tree) \subseteq Known
      /\ path_tree.by_ancestor \subseteq path_tree.by_descendant
      /\ frayed.memory \subseteq frayed.saving
  BY <1>1, KnownTree DEF TreeInv, Walked, ExactBut, IsTreeBut
<1>5. \A row \in path_tree.by_ancestor : row.descendant \in Known /\ row \in RowsOf(row.descendant)
  BY <1>4 DEF ExactBut, IsTreeBut, PathsIn
<1>6. \A row \in snapshot'.rows : row.descendant \in Known /\ row \in RowsOf(row.descendant)
  BY <1>3, <1>5 DEF TreeInv, RowsGathered, more
<1>7. Gathered(frayed.saving)'
  BY <1>1, <1>3 DEF TreeInv, Walked, Gathered, more
<1>8. phase' \in Gathering => KnownBut(FromRows(snapshot'.rows), frayed.saving)
  <2> SUFFICES ASSUME unread' = {} PROVE KnownBut(FromRows(snapshot'.rows), frayed.saving)
    BY <1>1 DEF Gathering
  <2>1. \A row : row.descendant \notin frayed.saving =>
                     (row \in snapshot'.rows <=> row \in path_tree.by_ancestor)
    BY <1>1, <1>7 DEF Gathered
  <2>2. \A row \in snapshot'.rows : row.descendant \in Seq(Names)
    BY <1>6, KnownIs
  <2>3. ExactBut(FromRows(snapshot'.rows), frayed.saving, Names)
    BY <1>4, <1>6, <2>1, <2>2, FromRowsBut
  <2>4. PathsIn(FromRows(snapshot'.rows)) \subseteq Known
    BY <1>6 DEF FromRows, InsertRows, EmptyTree, PathsIn
  <2> QED
    BY <2>3, <2>4, KnownTree
<1>9. RowsGathered'
  BY <1>1, <1>6 DEF RowsGathered, Gathering
<1>10. Walked'
  BY <1>1, <1>4, <1>7 DEF Walked
<1> QED
  BY <1>1, <1>2, <1>8, <1>9, <1>10 DEF TreeInv

LEMMA AncestorsKnown ==
    ASSUME TreeInv
    PROVE  \A row \in path_tree.by_ancestor : row.ancestor \in Known
<1> SUFFICES ASSUME NEW row \in path_tree.by_ancestor PROVE row.ancestor \in Known
  OBVIOUS
<1>1. /\ ExactBut(path_tree, frayed.memory, Names) /\ PathsIn(path_tree) \subseteq Known
      /\ row \in path_tree.by_descendant
  BY KnownTree DEF TreeInv, KnownBut, IsTreeBut
<1> QED
  BY <1>1, RowsBut, KnownIs

LEMMA TreeByEnd ==
    ASSUME TreeInv, End, frayed' = [memory |-> {}, saving |-> {}, disk |-> frayed'.disk],
           IF data_bin'.whole THEN KnownBut(FromRows(data_bin'.rows), frayed'.disk)
                              ELSE frayed'.disk = {}
    PROVE  TreeInv'
<1>1. frayed'.memory = {} /\ frayed'.saving = {}
  OBVIOUS
<1> QED
  BY <1>1, KnownEmpty DEF End, NoSnapshot, TreeInv, RowsGathered, Walked, Gathering

LEMMA TreeBySave == TreeInv /\ Save => TreeInv'
<1> SUFFICES ASSUME TreeInv, Save PROVE TreeInv'
  OBVIOUS
<1> USE DEF memory, disk, history, RowsGathered, Walked, Gathering
<1>1. CASE Flush
  BY <1>1 DEF Flush, ReadNextId, NoSnapshot, TreeInv
<1>2. ASSUME NEW p \in Paths, ReadEntry(p) PROVE TreeInv'
  <2>1. /\ snapshot' = [fuse_map |-> snapshot'.fuse_map, next_id |-> snapshot'.next_id,
                        rows |-> snapshot'.rows]
        /\ snapshot'.rows = snapshot.rows
    BY <1>2 DEF ReadEntry, TreeInv
  <2> QED
    BY <1>2, <2>1 DEF ReadEntry, TreeInv
<1>3. CASE CreateMeta
  BY <1>3 DEF CreateMeta, TreeInv
<1>4. CASE WriteMeta
  <2>1. /\ phase = "write_meta" /\ phase' = "walk" /\ unread' = Known
        /\ UNCHANGED <<path_tree, snapshot, data_bin>> /\ snapshot.rows = {}
    BY <1>4 DEF WriteMeta, TreeInv, Known
  <2>2. frayed' = [memory |-> frayed.memory, saving |-> frayed.memory, disk |-> frayed.disk]
    BY <1>4 DEF WriteMeta, TreeInv
  <2>3. frayed'.memory = frayed.memory /\ frayed'.saving = frayed.memory /\ frayed'.disk = frayed.disk
    BY <2>2
  <2>4. \A row \in path_tree.by_ancestor : row.ancestor \in Known
    BY AncestorsKnown
  <2>5. Gathered(frayed.saving)'
    BY <2>1, <2>4 DEF Gathered
  <2> QED
    BY <2>1, <2>2, <2>3, <2>5 DEF TreeInv
<1>5. ASSUME NEW p \in Paths \cup {<<>>}, ReadRows(p) PROVE TreeInv'
  BY <1>5, TreeByReadRows DEF Known
<1>6. CASE CreateData
  <2>1. /\ frayed' = [memory |-> frayed.memory, saving |-> frayed.saving, disk |-> {}]
        /\ ~data_bin'.whole
    BY <1>6 DEF CreateData, TornData, TreeInv
  <2>2. frayed'.memory = frayed.memory /\ frayed'.saving = frayed.saving /\ frayed'.disk = {}
    BY <2>1
  <2> QED
    BY <1>6, <2>1, <2>2 DEF CreateData, TreeInv
<1>7. CASE WriteMap
  <2>1. ~data_bin'.whole /\ frayed' = frayed /\ phase = "write_map"
    BY <1>7 DEF WriteMap
  <2> QED
    BY <1>7, <2>1 DEF WriteMap, TreeInv
<1>8. CASE WriteTree
  <2>1. /\ phase = "write_tree" /\ data_bin'.whole /\ data_bin'.rows = snapshot.rows
        /\ KnownBut(FromRows(snapshot.rows), frayed.saving)
    BY <1>8 DEF WriteTree, TreeInv
  <2>2. CASE round = 1
    <3>1. /\ frayed' = [memory |-> frayed.memory, saving |-> {}, disk |-> frayed.saving]
          /\ ReadNextId /\ UNCHANGED path_tree
      BY <1>8, <2>2 DEF WriteTree, TreeInv
    <3>2. frayed'.memory = frayed.memory /\ frayed'.disk = frayed.saving
      BY <3>1
    <3> QED
      BY <2>1, <3>1, <3>2 DEF ReadNextId, NoSnapshot, TreeInv
  <2>3. CASE round # 1
    <3>1. End /\ frayed' = [memory |-> {}, saving |-> {}, disk |-> frayed.saving]
      BY <1>8, <2>3 DEF WriteTree
    <3>2. frayed'.disk = frayed.saving
      BY <3>1
    <3> QED
      BY <2>1, <3>1, <3>2, TreeByEnd
  <2> QED
    BY <2>2, <2>3
<1> QED
  BY <1>1, <1>2, <1>3, <1>4, <1>5, <1>6, <1>7, <1>8 DEF Save

LEMMA TreeByOthers == TreeInv /\ (Start \/ Kill \/ UNCHANGED vars) => TreeInv'
<1> SUFFICES ASSUME TreeInv, Start \/ Kill \/ UNCHANGED vars PROVE TreeInv'
  OBVIOUS
<1>1. CASE Start
  <2>1. /\ frayed' = [memory |-> frayed.disk, saving |-> frayed.saving, disk |-> frayed.disk]
        /\ path_tree' = Loaded /\ phase = "down" /\ phase' = "serving"
        /\ UNCHANGED <<snapshot, unread, data_bin>>
    BY <1>1 DEF Start, TreeInv, disk
  <2>2. frayed'.memory = frayed.disk /\ frayed'.disk = frayed.disk
    BY <2>1
  <2> QED
    BY <2>1, <2>2, KnownLoaded DEF TreeInv, RowsGathered, Walked, Gathering
<1>2. CASE Kill
  <2>1. /\ End /\ data_bin' = data_bin
        /\ frayed' = [memory |-> {}, saving |-> {}, disk |-> frayed.disk]
    BY <1>2 DEF Kill, disk
  <2>2. frayed'.disk = frayed.disk
    BY <2>1
  <2> QED
    BY <2>1, <2>2, TreeByEnd DEF TreeInv
<1>3. CASE UNCHANGED vars
  BY <1>3 DEF TreeInv, RowsGathered, Walked, Gathered, Gathering, vars, memory, saving, disk, history
<1> QED
  BY <1>1, <1>2, <1>3

LEMMA TreeByNext == TreeInv /\ [Next]_vars => TreeInv'
  BY TreeByRequest, TreeBySave, TreeByOthers DEF Next

\* Whatever requests, saves, crashes and restarts do, the three indexes of the path
\* tree are the closure of its paths, and a walk of the tree that requests overtake
\* tears only the paths whose rows they changed (closure.rs, server.rs, disk.rs).
THEOREM TreeAlwaysExact == Spec => []TreeExact
<1>1. TreeInv => TreeExact
  BY KnownLoaded DEF TreeInv, TreeExact, KnownBut
<1> QED
  BY <1>1, TreeInit, TreeByNext, PTL DEF Spec

-----------------------------------------------------------------------------
(* The objects that the entries name.                                      *)

Maps == [Paths -> Entries]

Saved  == {"walk"} \cup Gathering
Saving == {"snapshot", "create_meta", "write_meta"} \cup Saved

TypeOK ==
    /\ fuse_map \in Maps
    /\ next_id \in Nat \ {0}
    /\ phase \in {"down", "serving"} \cup Saving
    /\ snapshot.fuse_map \in Maps /\ snapshot.next_id \in Nat \ {0}
    /\ meta_bin \in Nat
    /\ data_bin # TornData => data_bin.fuse_map \in Maps

\* While the map is read, an object that is not stirred was there when the next id
\* was read, and has not moved since.
Followed ==
    phase = "snapshot" =>
        /\ \A p \in Paths : fuse_map[p].type = "File" /\ fuse_map[p].object \notin stirred =>
               fuse_map[p].object < snapshot.next_id
        /\ \A p, q \in Paths :
               /\ snapshot.fuse_map[p].type = "File" /\ snapshot.fuse_map[p].object \notin stirred
               /\ fuse_map[q] = snapshot.fuse_map[p]
               => p = q

\* The ids on the disk are behind the next id in memory, and behind the one that is
\* about to be written.
Behind ==
    /\ snapshot.next_id <= next_id \/ phase \notin Saving
    /\ phase # "down" /\ data_bin # TornData => Unshared(data_bin.fuse_map, next_id)
    /\ phase \in Saving /\ data_bin # TornData => Unshared(data_bin.fuse_map, snapshot.next_id)
    /\ phase \in Saved => meta_bin = snapshot.next_id

ObjectInv ==
    /\ TypeOK
    /\ Unshared(fuse_map, next_id)
    /\ phase \in Saving => Unshared(snapshot.fuse_map, snapshot.next_id)
    /\ Followed
    /\ Behind
    /\ meta_bin # TornMeta /\ data_bin # TornData => Unshared(data_bin.fuse_map, meta_bin)

\* What Unshared says, for any exceptions.
NoSharing(map, id, but) ==
    /\ \A p \in Paths : map[p].type = "File" /\ map[p].object \notin but => map[p].object < id
    /\ \A p, q \in Paths :
          map[p].type = "File" /\ map[p].object \notin but /\ map[p] = map[q] => p = q

LEMMA UnsharedIs ==
    ASSUME NEW map, NEW id
    PROVE  Unshared(map, id) <=> NoSharing(map, id, stirred)
  BY DEF Unshared, NoSharing

LEMMA UnsharedGrows ==
    ASSUME NEW map \in Maps, NEW id \in Nat, NEW more \in Nat, id <= more, NEW but, NEW also,
           but \subseteq also, NoSharing(map, id, but)
    PROVE  NoSharing(map, more, also)
<1>1. \A p \in Paths : map[p].type = "File" => map[p].object \in Nat
  BY ObjectsAssumption DEF Maps, Entries, NoEntry, Whiteout, Dir, Symlink, File, NoObject
<1> QED
  BY <1>1 DEF NoSharing

LEMMA NothingUnshared ==
    /\ NoMap \in Maps
    /\ \A id, but : NoSharing(NoMap, id, but)
  BY DEF NoMap, Maps, Entries, NoSharing, NoEntry

LEMMA ObjectInit == Init => ObjectInv
<1> SUFFICES ASSUME Init PROVE ObjectInv
  OBVIOUS
<1>1. TypeOK
  BY NothingUnshared DEF Init, TypeOK, NoSnapshot
<1>2. \A id : Unshared(NoMap, id)
  BY NothingUnshared, UnsharedIs
<1> QED
  BY <1>1, <1>2 DEF Init, ObjectInv, Followed, Behind, Saving, Saved, Gathering

\* What holds of every request, once it keeps the entries in memory apart: an object
\* that moves while the map is read is stirred.
LEMMA ObjectByRequest ==
    ASSUME ObjectInv, Stir, UNCHANGED <<saving, disk>>, fuse_map' \in Maps,
           next_id' \in Nat, next_id <= next_id', NoSharing(fuse_map', next_id', stirred)
    PROVE  ObjectInv'
<1> USE DEF saving, disk
<1>1. stirred \subseteq stirred'
  BY DEF Stir
<1>2. TypeOK'
  BY DEF ObjectInv, TypeOK
<1>3. /\ NoSharing(fuse_map', next_id', stirred')
      /\ phase \in Saving => NoSharing(snapshot.fuse_map, snapshot.next_id, stirred')
      /\ phase # "down" /\ data_bin # TornData => NoSharing(data_bin.fuse_map, next_id', stirred')
      /\ phase \in Saving /\ data_bin # TornData =>
             NoSharing(data_bin.fuse_map, snapshot.next_id, stirred')
      /\ meta_bin # TornMeta /\ data_bin # TornData =>
             NoSharing(data_bin.fuse_map, meta_bin, stirred')
  BY <1>1, UnsharedGrows, UnsharedIs DEF ObjectInv, TypeOK, Behind
<1>4. Followed'
  <2> SUFFICES ASSUME phase = "snapshot" PROVE Followed'
    BY DEF Followed
  <2>1. ASSUME NEW p \in Paths, fuse_map'[p].type = "File", fuse_map'[p].object \notin stirred'
        PROVE  fuse_map[p] = fuse_map'[p]
    <3>1. PICK id \in 1 .. MaxObjects : fuse_map'[p] = File(id)
      BY <2>1 DEF Maps, Entries, NoEntry, Whiteout, Dir, Symlink, File
    <3>2. id \notin stirred'
      BY <2>1, <3>1 DEF File
    <3> QED
      BY <3>1, <3>2 DEF Stir
  <2>2. \A p \in Paths : fuse_map'[p].type = "File" /\ fuse_map'[p].object \notin stirred' =>
            fuse_map'[p].object < snapshot'.next_id
    BY <1>1, <2>1 DEF ObjectInv, Followed
  <2>3. \A p, q \in Paths :
            /\ snapshot'.fuse_map[p].type = "File" /\ snapshot'.fuse_map[p].object \notin stirred'
            /\ fuse_map'[q] = snapshot'.fuse_map[p]
            => p = q
    BY <1>1, <2>1 DEF ObjectInv, Followed
  <2> QED
    BY <2>2, <2>3 DEF Followed
<1>5. /\ Unshared(fuse_map, next_id)'
      /\ (phase \in Saving => Unshared(snapshot.fuse_map, snapshot.next_id))'
      /\ (phase # "down" /\ data_bin # TornData => Unshared(data_bin.fuse_map, next_id))'
      /\ (phase \in Saving /\ data_bin # TornData =>
             Unshared(data_bin.fuse_map, snapshot.next_id))'
      /\ (meta_bin # TornMeta /\ data_bin # TornData => Unshared(data_bin.fuse_map, meta_bin))'
  BY <1>3 DEF Unshared, NoSharing
<1>6. Behind'
  BY <1>5 DEF ObjectInv, TypeOK, Behind
<1> QED
  BY <1>2, <1>4, <1>5, <1>6 DEF ObjectInv

-----------------------------------------------------------------------------
(* What each request does to the entries in memory.                        *)

LEMMA EntryIs ==
    /\ NoEntry \in Entries /\ NoEntry.type # "File"
    /\ \A e \in Kinds : e \in Entries /\ e.type # "File"
    /\ \A id \in 1 .. MaxObjects :
           File(id) \in Entries /\ File(id).type = "File" /\ File(id).object = id
<1>1. NoEntry \in Entries /\ NoEntry.type # "File"
  BY DEF Entries, NoEntry
<1>2. \A e \in Kinds : e \in Entries /\ e.type # "File"
  <2>1. \A e \in {Dir, Symlink, Whiteout} : e \in Entries /\ e.type # "File"
    BY DEF Entries, Whiteout, Dir, Symlink
  <2> QED
    BY <2>1, KindsAssumption
<1>3. \A id \in 1 .. MaxObjects :
          File(id) \in Entries /\ File(id).type = "File" /\ File(id).object = id
  BY DEF Entries, File
<1> QED
  BY <1>1, <1>2, <1>3

LEMMA PutsNoFile ==
    ASSUME NEW map \in Maps, NEW id, NEW but, NoSharing(map, id, but),
           NEW p \in Paths, NEW e \in Entries, e.type # "File"
    PROVE  /\ [map EXCEPT ![p] = e] \in Maps
           /\ NoSharing([map EXCEPT ![p] = e], id, but)
<1>1. \A q \in Paths : [map EXCEPT ![p] = e][q] = IF q = p THEN e ELSE map[q]
  BY DEF Maps
<1>2. [map EXCEPT ![p] = e] \in Maps
  BY DEF Maps
<1> QED
  BY <1>1, <1>2 DEF NoSharing

LEMMA PutsFile ==
    ASSUME NEW map \in Maps, NEW id \in 1 .. MaxObjects, NEW but, NoSharing(map, id, but),
           NEW p \in Paths
    PROVE  /\ [map EXCEPT ![p] = File(id)] \in Maps
           /\ NoSharing([map EXCEPT ![p] = File(id)], id + 1, but)
<1> DEFINE new == [map EXCEPT ![p] = File(id)]
<1>1. \A q \in Paths : new[q] = IF q = p THEN File(id) ELSE map[q]
  BY DEF Maps
<1>2. new \in Maps
  BY EntryIs DEF Maps
<1>3. \A q \in Paths : map[q].type = "File" => map[q].object \in 1 .. MaxObjects
  BY DEF Maps, Entries, NoEntry, Whiteout, Dir, Symlink, File
<1> HIDE DEF new
<1>4. \A q \in Paths : new[q].type = "File" /\ new[q].object \notin but => new[q].object < id + 1
  BY <1>1, <1>3, EntryIs DEF NoSharing
<1>5. ASSUME NEW q \in Paths, NEW r \in Paths, new[q].type = "File", new[q].object \notin but,
             new[q] = new[r]
      PROVE  q = r
  <2>1. CASE q # p /\ r # p
    BY <1>1, <1>5, <2>1 DEF NoSharing
  <2>2. CASE q = p /\ r # p
    BY <1>1, <1>3, <1>5, <2>2, EntryIs DEF NoSharing
  <2>3. CASE q # p /\ r = p
    BY <1>1, <1>3, <1>5, <2>3, EntryIs DEF NoSharing
  <2> QED
    BY <2>1, <2>2, <2>3
<1> QED
  BY <1>2, <1>4, <1>5 DEF NoSharing, new

\* A map whose entries come from one, each from another path.
LEMMA Rearranged ==
    ASSUME NEW map \in Maps, NEW id, NEW but, NoSharing(map, id, but),
           NEW new \in Maps, NEW src,
           \A p \in Paths : new[p].type = "File" => src[p] \in Paths /\ new[p] = map[src[p]],
           \A p, q \in Paths : /\ new[p].type = "File" /\ new[q].type = "File"
                                /\ src[p] = src[q] => p = q
    PROVE  NoSharing(new, id, but)
  BY DEF NoSharing

\* The requests on one path.
LEMMA KeptApart ==
    ASSUME ObjectInv, NEW p \in Paths,
           \/ EnsureFileObject(p) \/ EnsureFails(p) \/ Put(p) \/ DeleteWhiteout(p) \/ DeleteFile(p)
    PROVE  /\ fuse_map' \in Maps /\ next_id' \in Nat /\ next_id <= next_id'
           /\ NoSharing(fuse_map', next_id', stirred)
<1>1. /\ fuse_map \in Maps /\ next_id \in Nat \ {0} /\ MaxObjects \in Nat
      /\ NoSharing(fuse_map, next_id, stirred)
  BY UnsharedIs, ObjectsAssumption DEF ObjectInv, TypeOK
<1>2. NoSharing(fuse_map, next_id + 1, stirred)
  BY <1>1, UnsharedGrows
<1>3. CASE EnsureFileObject(p)
  <2>1. CASE fuse_map[p].type = "File"
    <3>1. fuse_map' = fuse_map /\ next_id' = next_id
      BY <1>1, <1>3, <2>1 DEF EnsureFileObject, Set, Maps
    <3> QED
      BY <1>1, <3>1
  <2>2. CASE fuse_map[p].type # "File"
    <3>1. /\ next_id \in 1 .. MaxObjects /\ next_id' = next_id + 1
          /\ fuse_map' = [fuse_map EXCEPT ![p] = File(next_id)]
      BY <1>1, <1>3, <2>2 DEF EnsureFileObject, Set
    <3>2. /\ [fuse_map EXCEPT ![p] = File(next_id)] \in Maps
          /\ NoSharing([fuse_map EXCEPT ![p] = File(next_id)], next_id + 1, stirred)
      BY <1>1, <3>1, PutsFile
    <3> QED
      BY <1>1, <3>1, <3>2
  <2> QED
    BY <2>1, <2>2
<1>4. CASE EnsureFails(p)
  BY <1>1, <1>2, <1>4 DEF EnsureFails
<1>5. CASE Put(p)
  <2>1. PICK e \in Kinds : fuse_map' = [fuse_map EXCEPT ![p] = e]
    BY <1>5 DEF Put, Set
  <2>2. next_id' = next_id
    BY <1>5 DEF Put
  <2>3. /\ [fuse_map EXCEPT ![p] = e] \in Maps
        /\ NoSharing([fuse_map EXCEPT ![p] = e], next_id, stirred)
    BY <1>1, EntryIs, PutsNoFile
  <2> QED
    BY <1>1, <2>1, <2>2, <2>3
<1>6. CASE DeleteWhiteout(p) \/ DeleteFile(p)
  <2>1. fuse_map' = [fuse_map EXCEPT ![p] = NoEntry] /\ next_id' = next_id
    BY <1>6 DEF DeleteWhiteout, DeleteFile
  <2>2. /\ [fuse_map EXCEPT ![p] = NoEntry] \in Maps
        /\ NoSharing([fuse_map EXCEPT ![p] = NoEntry], next_id, stirred)
    BY <1>1, EntryIs, PutsNoFile
  <2> QED
    BY <1>1, <2>1, <2>2
<1> QED
  BY <1>3, <1>4, <1>5, <1>6

\* RenameFile takes the entry away from where it was.
LEMMA RenamedFileApart ==
    ASSUME ObjectInv, NEW from \in Paths, NEW to \in Paths, RenameFile(from, to)
    PROVE  /\ fuse_map' \in Maps /\ next_id' = next_id
           /\ NoSharing(fuse_map', next_id', stirred)
<1>1. /\ fuse_map \in Maps /\ NoSharing(fuse_map, next_id, stirred)
  BY UnsharedIs DEF ObjectInv, TypeOK
<1>2. from # to
  <2>1. from \in Ancestors(from)
    BY PathsAssumption, AncestorSelf
  <2> QED
    BY <2>1 DEF RenameFile, Apart
<1>3. fuse_map' = [fuse_map EXCEPT ![from] = NoEntry, ![to] = fuse_map[from]] /\ next_id' = next_id
  BY DEF RenameFile
<1> DEFINE new == [fuse_map EXCEPT ![from] = NoEntry, ![to] = fuse_map[from]]
           src == [p \in Paths |-> IF p = to THEN from ELSE p]
<1>4. \A p \in Paths : new[p] = IF p = to THEN fuse_map[from]
                                ELSE IF p = from THEN NoEntry ELSE fuse_map[p]
  BY <1>1, <1>2 DEF Maps
<1>5. new \in Maps
  BY <1>1, EntryIs DEF Maps
<1> HIDE DEF new
<1>6. \A p \in Paths : new[p].type = "File" => src[p] \in Paths /\ new[p] = fuse_map[src[p]]
  BY <1>4, EntryIs
<1>7. \A p, q \in Paths : new[p].type = "File" /\ new[q].type = "File" /\ src[p] = src[q] => p = q
  BY <1>2, <1>4, EntryIs
<1> HIDE DEF src
<1>8. NoSharing(new, next_id, stirred)
  BY <1>1, <1>5, <1>6, <1>7, Rearranged
<1> QED
  BY <1>3, <1>5, <1>8 DEF new

\* RenameTree moves every entry to a path of its own, and what is overwritten is gone.
LEMMA RenamedTreeApart ==
    ASSUME ObjectInv, TreeInv, NEW from \in Paths, NEW to \in Paths, RenameTree(from, to)
    PROVE  /\ fuse_map' \in Maps /\ next_id' = next_id
           /\ NoSharing(fuse_map', next_id', stirred)
<1> DEFINE old   == {p \in SubtreePaths(path_tree, from) : Exists(fuse_map[p])}
           dest  == {Moved(q, from, to) : q \in old}
           moved == [p \in dest |-> Moved(p, to, from)]
           new   == [p \in Paths |-> IF p \in DOMAIN moved THEN fuse_map[moved[p]]
                                     ELSE IF p \in old THEN NoEntry ELSE fuse_map[p]]
           src   == [p \in Paths |-> IF p \in dest THEN Moved(p, to, from) ELSE p]
<1>1. /\ fuse_map \in Maps /\ NoSharing(fuse_map, next_id, stirred)
      /\ fuse_map' = new /\ next_id' = next_id
  BY UnsharedIs DEF ObjectInv, TypeOK, RenameTree
<1>2. /\ from \in Seq(Names) /\ to \in Seq(Names) /\ from # <<>>
      /\ PathsIn(path_tree) \in SUBSET Seq(Names) /\ PathsIn(path_tree) \subseteq Known
      /\ ExactBut(path_tree, frayed.memory, Names)
  BY KnownIs, KnownTree, PathsAssumption DEF TreeInv, ExactBut
<1>3. SubtreePaths(path_tree, from) \subseteq Below(PathsIn(path_tree), from)
  BY <1>2, SubtreeBut
<1>4. \A q \in old : q \in Paths /\ q \in Seq(Names) /\ from \in Ancestors(q)
  <2>1. ASSUME NEW q \in old PROVE q \in Known /\ q \in Seq(Names) /\ from \in Ancestors(q)
    BY <1>2, <1>3 DEF Below
  <2>2. from \notin Ancestors(<<>>)
    <3>1. <<>> \in Seq(Names) /\ Len(<<>>) = 0
      BY EmptySeq
    <3>2. Len(from) # 0 /\ Len(from) \in Nat
      BY <1>2, EmptySeq, LenProperties
    <3>3. from \in Ancestors(<<>>) => Len(from) <= Len(<<>>)
      BY <3>1, AncestorIs
    <3> QED
      BY <3>1, <3>2, <3>3
  <2> QED
    BY <2>1, <2>2 DEF Known
<1>5. \A q \in old : Moved(Moved(q, from, to), to, from) = q
  BY <1>2, <1>4, MovedBack
<1> HIDE DEF old
<1>6. \A p \in dest : Moved(p, to, from) \in old /\ p = Moved(Moved(p, to, from), from, to)
  BY <1>5
<1>7. \A p \in Paths : new[p] = IF p \in dest THEN fuse_map[Moved(p, to, from)]
                                ELSE IF p \in old THEN NoEntry ELSE fuse_map[p]
  OBVIOUS
<1>8. new \in Maps
  BY <1>1, <1>4, <1>6, <1>7, EntryIs DEF Maps
<1>9. \A p \in Paths : src[p] = IF p \in dest THEN Moved(p, to, from) ELSE p
  OBVIOUS
<1> HIDE DEF new, src, dest
<1>10. \A p \in Paths : new[p].type = "File" => src[p] \in Paths /\ new[p] = fuse_map[src[p]]
  BY <1>4, <1>6, <1>7, <1>9, EntryIs
<1>11. ASSUME NEW p \in Paths, NEW q \in Paths, new[p].type = "File", new[q].type = "File",
              src[p] = src[q]
       PROVE  p = q
  BY <1>6, <1>7, <1>9, <1>11, EntryIs
<1>12. NoSharing(new, next_id, stirred)
  BY <1>1, <1>8, <1>10, <1>11, Rearranged
<1> QED
  BY <1>1, <1>8, <1>12

LEMMA ObjectRequest == ObjectInv /\ TreeInv /\ Request => ObjectInv'
<1> SUFFICES ASSUME ObjectInv, TreeInv, Request PROVE ObjectInv'
  OBVIOUS
<1>1. Stir /\ UNCHANGED <<saving, disk>>
  BY DEF Request, EnsureFileObject, EnsureFails, Put, DeleteWhiteout, DeleteFile, RenameFile,
     RenameTree, saving, disk
<1>2. next_id \in Nat
  BY DEF ObjectInv, TypeOK
<1>3. /\ fuse_map' \in Maps /\ next_id' \in Nat /\ next_id <= next_id'
      /\ NoSharing(fuse_map', next_id', stirred)
  BY <1>2, KeptApart, RenamedFileApart, RenamedTreeApart DEF Request
<1> QED
  BY <1>1, <1>3, ObjectByRequest

-----------------------------------------------------------------------------
(* Saving, ending and starting again.                                      *)

LEMMA ObjectInvIs ==
    /\ ObjectInv <=>
          /\ TypeOK /\ Followed
          /\ NoSharing(fuse_map, next_id, stirred)
          /\ phase \in Saving => /\ NoSharing(snapshot.fuse_map, snapshot.next_id, stirred)
                                 /\ snapshot.next_id <= next_id
          /\ phase # "down" /\ data_bin # TornData => NoSharing(data_bin.fuse_map, next_id, stirred)
          /\ phase \in Saving /\ data_bin # TornData =>
                 NoSharing(data_bin.fuse_map, snapshot.next_id, stirred)
          /\ phase \in Saved => meta_bin = snapshot.next_id
          /\ meta_bin # TornMeta /\ data_bin # TornData =>
                 NoSharing(data_bin.fuse_map, meta_bin, stirred)
    /\ ObjectInv' <=>
          /\ TypeOK' /\ Followed'
          /\ NoSharing(fuse_map', next_id', stirred')
          /\ phase' \in Saving => /\ NoSharing(snapshot'.fuse_map, snapshot'.next_id, stirred')
                                  /\ snapshot'.next_id <= next_id'
          /\ phase' # "down" /\ data_bin' # TornData =>
                 NoSharing(data_bin'.fuse_map, next_id', stirred')
          /\ phase' \in Saving /\ data_bin' # TornData =>
                 NoSharing(data_bin'.fuse_map, snapshot'.next_id, stirred')
          /\ phase' \in Saved => meta_bin' = snapshot'.next_id
          /\ meta_bin' # TornMeta /\ data_bin' # TornData =>
                 NoSharing(data_bin'.fuse_map, meta_bin', stirred')
  BY UnsharedIs DEF ObjectInv, Behind, Unshared, NoSharing

\* The snapshot begins: it knows nothing yet, and every object there is.
LEMMA ObjectByReadNextId ==
    ASSUME ObjectInv, phase # "down", ReadNextId, UNCHANGED <<memory, stirred>>,
           TypeOK', data_bin' # TornData => NoSharing(data_bin'.fuse_map, next_id, stirred),
           meta_bin' # TornMeta /\ data_bin' # TornData =>
               NoSharing(data_bin'.fuse_map, meta_bin', stirred)
    PROVE  ObjectInv'
<1>1. /\ phase' = "snapshot" /\ snapshot'.next_id = next_id /\ snapshot'.fuse_map = NoMap
      /\ next_id' = next_id /\ fuse_map' = fuse_map /\ stirred' = stirred
  BY DEF ReadNextId, NoSnapshot, memory
<1>2. NoSharing(NoMap, next_id, stirred) /\ \A p \in Paths : NoMap[p].type # "File"
  BY NothingUnshared, EntryIs DEF NoMap
<1>3. NoSharing(fuse_map, next_id, stirred) /\ next_id \in Nat
  BY ObjectInvIs DEF TypeOK
<1>4. Followed'
  BY <1>1, <1>2, <1>3 DEF Followed, NoSharing
<1> QED
  BY <1>1, <1>2, <1>3, <1>4, ObjectInvIs DEF Saved, Gathering

\* One entry more is read: it is of an object that was there when the next id was,
\* and that nothing read before names.
LEMMA ObjectByReadEntry == \A p \in Paths : ObjectInv /\ TreeInv /\ ReadEntry(p) => ObjectInv'
<1> SUFFICES ASSUME NEW p \in Paths, ObjectInv, TreeInv, ReadEntry(p) PROVE ObjectInv'
  OBVIOUS
<1>1. /\ phase = "snapshot" /\ phase' \in {"snapshot", "create_meta"}
      /\ snapshot'.next_id = snapshot.next_id
      /\ snapshot'.fuse_map = [snapshot.fuse_map EXCEPT ![p] = fuse_map[p]]
      /\ UNCHANGED <<fuse_map, next_id, meta_bin, data_bin, stirred>>
  BY DEF ReadEntry, TreeInv, memory, disk, history
<1>2. /\ snapshot.fuse_map \in Maps /\ fuse_map \in Maps
      /\ \A q \in Paths :
            snapshot'.fuse_map[q] = IF q = p THEN fuse_map[p] ELSE snapshot.fuse_map[q]
  BY <1>1 DEF ObjectInv, TypeOK, Maps
<1>3. TypeOK'
  <2>1. snapshot'.fuse_map \in Maps
    BY <1>1, <1>2 DEF Maps
  <2> QED
    BY <1>1, <2>1 DEF ObjectInv, TypeOK, Saving
<1>4. /\ NoSharing(fuse_map, next_id, stirred)
      /\ NoSharing(snapshot.fuse_map, snapshot.next_id, stirred)
  BY <1>1, ObjectInvIs DEF Saving
<1>5. Followed'
  BY <1>1, <1>2, <1>4 DEF ObjectInv, Followed, NoSharing
<1>6. NoSharing(snapshot'.fuse_map, snapshot.next_id, stirred)
  <2>1. \A q \in Paths : snapshot'.fuse_map[q].type = "File" /\ snapshot'.fuse_map[q].object \notin stirred
            => snapshot'.fuse_map[q].object < snapshot.next_id
    BY <1>1, <1>2, <1>4 DEF ObjectInv, Followed, NoSharing
  <2>2. ASSUME NEW q \in Paths, NEW r \in Paths, snapshot'.fuse_map[q].type = "File",
               snapshot'.fuse_map[q].object \notin stirred,
               snapshot'.fuse_map[q] = snapshot'.fuse_map[r]
        PROVE  q = r
    <3>1. CASE q # p /\ r # p
      BY <1>2, <1>4, <2>2, <3>1 DEF NoSharing
    <3>2. CASE q # p /\ r = p
      BY <1>1, <1>2, <2>2, <3>2 DEF ObjectInv, Followed
    <3>3. CASE q = p /\ r # p
      BY <1>1, <1>2, <2>2, <3>3 DEF ObjectInv, Followed
    <3> QED
      BY <3>1, <3>2, <3>3
  <2> QED
    BY <2>1, <2>2 DEF NoSharing
<1> QED
  BY <1>1, <1>3, <1>5, <1>6, ObjectInvIs DEF Saving, Saved, Gathering

LEMMA ObjectByEnd ==
    ASSUME ObjectInv, End, stirred' = stirred,
           meta_bin' \in Nat, data_bin' # TornData => data_bin'.fuse_map \in Maps,
           meta_bin' # TornMeta /\ data_bin' # TornData =>
               NoSharing(data_bin'.fuse_map, meta_bin', stirred)
    PROVE  ObjectInv'
<1>1. TypeOK'
  BY NothingUnshared DEF End, TypeOK, NoSnapshot
<1>2. NoSharing(NoMap, 1, stirred)
  BY NothingUnshared
<1>3. Followed' /\ phase' \notin Saving
  BY DEF End, Followed, Saving, Saved, Gathering
<1> QED
  BY <1>1, <1>2, <1>3, ObjectInvIs DEF End, Saving, Saved, Gathering

LEMMA ObjectByReadRows == \A p \in Known : ObjectInv /\ TreeInv /\ ReadRows(p) => ObjectInv'
<1> SUFFICES ASSUME NEW p \in Known, ObjectInv, TreeInv, ReadRows(p) PROVE ObjectInv'
  OBVIOUS
<1>1. /\ phase = "walk" /\ phase' \in {"walk", "create_data"}
      /\ snapshot'.next_id = snapshot.next_id /\ snapshot'.fuse_map = snapshot.fuse_map
      /\ UNCHANGED <<fuse_map, next_id, meta_bin, data_bin, stirred>>
  BY DEF ReadRows, TreeInv, memory, disk, history
<1>2. TypeOK' /\ Followed'
  BY <1>1 DEF ObjectInv, TypeOK, Followed, Saving, Saved, Gathering
<1> QED
  BY <1>1, <1>2, ObjectInvIs DEF Saving, Saved, Gathering

LEMMA ObjectBySave == ObjectInv /\ TreeInv /\ Save => ObjectInv'
<1> SUFFICES ASSUME ObjectInv, TreeInv, Save PROVE ObjectInv'
  OBVIOUS
<1> USE DEF memory, disk, history, Saved, Gathering
<1>1. CASE Flush
  <2>1. TypeOK'
    BY <1>1, NothingUnshared DEF Flush, ReadNextId, NoSnapshot, ObjectInv, TypeOK, Saving
  <2> QED
    BY <1>1, <2>1, ObjectByReadNextId, ObjectInvIs DEF Flush
<1>2. CASE \E p \in Paths : ReadEntry(p)
  BY <1>2, ObjectByReadEntry
<1>3. CASE CreateMeta
  <2>1. TypeOK' /\ Followed'
    BY <1>3 DEF CreateMeta, ObjectInv, TypeOK, Followed, Saving, TornMeta
  <2> QED
    BY <1>3, <2>1, ObjectInvIs DEF CreateMeta, Saving
<1>4. CASE WriteMeta
  <2>1. TypeOK' /\ Followed'
    BY <1>4 DEF WriteMeta, ObjectInv, TypeOK, Followed, Saving
  <2> QED
    BY <1>4, <2>1, ObjectInvIs DEF WriteMeta, Saving
<1>5. CASE \E p \in Paths \cup {<<>>} : ReadRows(p)
  BY <1>5, ObjectByReadRows DEF Known
<1>6. CASE CreateData
  <2>1. TypeOK' /\ Followed'
    BY <1>6 DEF CreateData, ObjectInv, TypeOK, Followed, Saving
  <2> QED
    BY <1>6, <2>1, ObjectInvIs DEF CreateData, Saving
<1>7. ASSUME phase \in Saved
      PROVE  /\ snapshot.fuse_map \in Maps /\ snapshot.next_id \in Nat /\ next_id \in Nat
             /\ meta_bin = snapshot.next_id /\ snapshot.next_id <= next_id
             /\ NoSharing(snapshot.fuse_map, snapshot.next_id, stirred)
             /\ NoSharing(snapshot.fuse_map, next_id, stirred)
  <2>1. /\ meta_bin = snapshot.next_id /\ snapshot.next_id <= next_id
        /\ snapshot.fuse_map \in Maps /\ snapshot.next_id \in Nat /\ next_id \in Nat
        /\ NoSharing(snapshot.fuse_map, snapshot.next_id, stirred)
    BY <1>7, ObjectInvIs DEF TypeOK, Saving
  <2> QED
    BY <2>1, UnsharedGrows
<1>8. CASE WriteMap
  <2>1. /\ phase = "write_map" /\ phase' = "write_tree" /\ data_bin'.fuse_map = snapshot.fuse_map
        /\ UNCHANGED <<fuse_map, next_id, snapshot, meta_bin, stirred>>
    BY <1>8 DEF WriteMap
  <2>2. TypeOK' /\ Followed'
    BY <1>7, <2>1 DEF ObjectInv, TypeOK, Followed, Saving
  <2> QED
    BY <1>7, <2>1, <2>2, ObjectInvIs DEF Saving
<1>9. CASE WriteTree
  <2>1. /\ phase = "write_tree" /\ data_bin'.fuse_map = snapshot.fuse_map /\ meta_bin' = meta_bin
        /\ stirred' = stirred
    BY <1>9 DEF WriteTree
  <2>2. CASE round = 1
    <3>1. ReadNextId /\ UNCHANGED memory
      BY <1>9, <2>2 DEF WriteTree
    <3>2. TypeOK'
      BY <1>7, <2>1, <3>1, NothingUnshared
      DEF ReadNextId, NoSnapshot, ObjectInv, TypeOK, Saving
    <3> QED
      BY <1>7, <2>1, <3>1, <3>2, ObjectByReadNextId
  <2>3. CASE round # 1
    <3>1. End
      BY <1>9, <2>3 DEF WriteTree
    <3> QED
      BY <1>7, <2>1, <3>1, ObjectByEnd
  <2> QED
    BY <2>2, <2>3
<1> QED
  BY <1>1, <1>2, <1>3, <1>4, <1>5, <1>6, <1>8, <1>9 DEF Save

LEMMA ObjectByOthers == ObjectInv /\ (Start \/ Kill \/ UNCHANGED vars) => ObjectInv'
<1> SUFFICES ASSUME ObjectInv, Start \/ Kill \/ UNCHANGED vars PROVE ObjectInv'
  OBVIOUS
<1>1. CASE Start
  <2>1. /\ meta_bin # TornMeta /\ data_bin # TornData /\ phase' = "serving"
        /\ fuse_map' = data_bin.fuse_map /\ next_id' = meta_bin
        /\ UNCHANGED <<snapshot, meta_bin, data_bin, stirred>>
    BY <1>1 DEF Start, disk
  <2>2. NoSharing(data_bin.fuse_map, meta_bin, stirred)
    BY <2>1, ObjectInvIs
  <2>3. TypeOK'
    BY <2>1 DEF ObjectInv, TypeOK, TornMeta
  <2>4. Followed' /\ phase' \notin Saving
    BY <2>1 DEF Followed, Saving, Saved, Gathering
  <2> QED
    BY <2>1, <2>2, <2>3, <2>4, ObjectInvIs DEF Saving, Saved, Gathering
<1>2. CASE Kill
  BY <1>2, ObjectByEnd, ObjectInvIs DEF Kill, disk, TypeOK
<1>3. CASE UNCHANGED vars
  <2>1. TypeOK' /\ Followed'
    BY <1>3 DEF ObjectInv, TypeOK, Followed, vars, memory, saving, disk, history
  <2> QED
    BY <1>3, <2>1, ObjectInvIs DEF vars, memory, saving, disk, history
<1> QED
  BY <1>1, <1>2, <1>3

\* Neither in memory nor in what a restart loads, after any crash, do two paths share
\* an object, save what moved while the map was read (snapshot_state, disk::flush).
THEOREM NeverShared == Spec => []ObjectsUnshared
<1>1. Init => ObjectInv /\ TreeInv
  BY ObjectInit, TreeInit
<1>2. (ObjectInv /\ TreeInv) /\ [Next]_vars => (ObjectInv /\ TreeInv)'
  BY ObjectRequest, ObjectBySave, ObjectByOthers, TreeByNext DEF Next
<1>3. ObjectInv => ObjectsUnshared
  BY DEF ObjectInv, ObjectsUnshared
<1> QED
  BY <1>1, <1>2, <1>3, PTL DEF Spec
-----------------------------------------------------------------------------
(* What ReadDirAll lists.                                                  *)

\* What the tree before a step and the tree after it have.
Before == PathsIn(path_tree)
After  == PathsIn(path_tree)'

\* Every path that the model knows is a sequence, and is above itself.
LEMMA TreeBefore ==
    ASSUME TreeInv
    PROVE  /\ ExactBut(path_tree, frayed.memory, Names)
           /\ Before \in SUBSET Seq(Names) /\ Before \subseteq Known
           /\ \A p \in Paths : p \in Seq(Names) /\ p # <<>> /\ p \in Ancestors(p)
  BY KnownIs, KnownTree, PathsAssumption, AncestorSelf DEF TreeInv, Before

\* What is listed the tree has, and a path that is not loose is listed when the tree
\* has it.
LEMMA ListedIs ==
    ASSUME TreeInv, TreeInv', NEW p \in Paths
    PROVE  /\ Listed(p) => Exists(fuse_map[p]) /\ p \in Before
           /\ Exists(fuse_map'[p]) /\ p \in After /\ p \notin frayed'.memory => Listed(p)'
<1>1. p # <<>> /\ p \in Seq(Names)
  BY PathsAssumption
<1>2. p \in ChildrenOf(path_tree, Parent(p)) => p \in Before
  BY <1>1, ChildBut, KnownTree DEF TreeInv, Before
<1>3. p \in After \ frayed'.memory => p \in ChildrenOf(path_tree', Parent(p))
  BY <1>1, ChildBut, KnownTree DEF TreeInv, After
<1> QED
  BY <1>2, <1>3 DEF Listed

\* What the tree has below a path, with it when there is anything.
LEMMA Subtree ==
    ASSUME TreeInv, NEW path \in Paths
    PROVE  /\ SubtreePaths(path_tree, path) \subseteq Below(Before, path)
           /\ SubtreePaths(path_tree, path) # {} => path \in Before
           /\ path \notin Before \ SubtreePaths(path_tree, path)
<1>1. /\ SubtreePaths(path_tree, path) \subseteq Below(Before, path)
      /\ SubtreePaths(path_tree, path) # {} => path \in SubtreePaths(path_tree, path)
      /\ path \in Before => path \in SubtreePaths(path_tree, path)
  BY TreeBefore, SubtreeBut DEF Before
<1> QED
  BY <1>1 DEF Below

\* What the requests on one path do to the paths of the tree.
LEMMA TreeAfterOne ==
    ASSUME TreeInv, NEW path \in Paths
    PROVE  /\ path_tree' = Insert(path_tree, path) => After = Before \cup Ancestors(path)
           /\ path_tree' = Remove(path_tree, path) =>
                  After = Before \ SubtreePaths(path_tree, path) /\ path \notin After
<1>1. path \in Seq(Names) /\ ExactBut(path_tree, frayed.memory, Names)
  BY TreeBefore
<1>2. path_tree' = Insert(path_tree, path) => After = Before \cup Ancestors(path)
  BY <1>1, InsertBut DEF Before, After
<1>3. path_tree' = Remove(path_tree, path) => After = Before \ SubtreePaths(path_tree, path)
  BY <1>1, RemoveBut DEF Before, After
<1> QED
  BY <1>2, <1>3, Subtree

\* After a rename the source is nowhere in the tree: no destination is below it.
LEMMA TreeAfterRename ==
    ASSUME TreeInv, NEW from \in Paths, NEW to \in Paths, Apart(from, to),
           path_tree' = Rename(path_tree, from, to)
    PROVE  /\ from \notin After
           /\ \A p \in SubtreePaths(path_tree, from) : Moved(p, from, to) \in After
           /\ Moved(from, from, to) = to
<1> DEFINE moved == {Moved(p, from, to) : p \in SubtreePaths(path_tree, from)}
<1>1. /\ from \in Seq(Names) /\ to \in Seq(Names) /\ Before \in SUBSET Seq(Names)
      /\ from \in Ancestors(from) /\ ExactBut(path_tree, frayed.memory, Names)
  BY TreeBefore
<1>2. ASSUME NEW p \in SubtreePaths(path_tree, from)
      PROVE  /\ Moved(p, from, to) \in Seq(Names)
             /\ to \in Ancestors(Moved(p, from, to))
             /\ Moved(p, from, to) \in Ancestors(Moved(p, from, to))
  <2>1. p \in Seq(Names) /\ from \in Ancestors(p)
    BY <1>1, Subtree DEF Below
  <2>2. Moved(p, from, to) \in Seq(Names)
    BY <1>1, <2>1, MovedIs
  <2> QED
    BY <1>1, <2>1, <2>2, MovedUnder, AncestorSelf
<1>3. After = (Before \ SubtreePaths(path_tree, from)) \cup UNION {Ancestors(q) : q \in moved}
  BY <1>1, RenameBut DEF Before, After
<1>4. ASSUME NEW p \in SubtreePaths(path_tree, from), from \in Ancestors(Moved(p, from, to))
      PROVE  FALSE
  BY <1>1, <1>2, <1>4, AncestorsNested DEF Apart
<1>5. from \notin After
  BY <1>3, <1>4, Subtree
<1>6. \A p \in SubtreePaths(path_tree, from) : Moved(p, from, to) \in After
  BY <1>2, <1>3
<1>7. Moved(from, from, to) = to
  BY <1>1, MovedUnder
<1> QED
  BY <1>5, <1>6, <1>7

\* What ListedStays says of one file and one path that names it after the step.
Stays(p, q) ==
    \/ Listed(q)'
    \/ p # q /\ q \in frayed.memory
    \/ p = q /\ \E r \in Ancestors(p) \ {p, <<>>} : r \in Before \ After

\* A file whose entry stays where it is stays listed while neither its path nor its
\* parent goes; if they go with the subtree of another path, that path is above it.
LEMMA StaysPut ==
    ASSUME TreeInv, NEW p \in Paths, Listed(p), fuse_map'[p] = fuse_map[p],
           NEW cut \in Paths, cut # p, cut \notin After,
           path_tree' = Remove(path_tree, cut)
             \/ \E new : path_tree' = InsertAll(Remove(path_tree, cut), new)
    PROVE  Stays(p, p)
<1> DEFINE victims == SubtreePaths(path_tree, cut)
<1>1. p \in ChildrenOf(path_tree, Parent(p)) /\ Exists(fuse_map'[p]) /\ cut # <<>>
  BY TreeBefore DEF Listed
<1>2. CASE p \in victims \/ Parent(p) \in victims
  <2>1. cut \in Before
    BY <1>2, Subtree
  <2>2. p \in Seq(Names) /\ p # <<>>
    BY TreeBefore
  <2>3. cut \in Ancestors(p)
    <3>1. cut \in Ancestors(p) \/ cut \in Ancestors(Parent(p))
      BY <1>2, Subtree DEF Below
    <3> QED
      BY <2>2, <3>1, ParentAbove, AncestorTransitive
  <2> QED
    BY <1>1, <2>1, <2>3 DEF Stays
<1>3. CASE p \notin victims /\ Parent(p) \notin victims
  <2>1. p \in ChildrenOf(Remove(path_tree, cut), Parent(p))
    BY <1>1, <1>3, ChildStays DEF Remove
  <2>2. p \in ChildrenOf(path_tree', Parent(p))
    BY <2>1, ChildStays
  <2> QED
    BY <1>1, <2>2 DEF Stays, Listed
<1> QED
  BY <1>2, <1>3

\* The files that ListedStays follows, and where the step puts them.
Followable(p) == fuse_map[p].type = "File" /\ fuse_map[p].object \notin stirred /\ Listed(p)

LEMMA FileIs ==
    ASSUME ObjectInv, NEW p \in Paths, Followable(p)
    PROVE  /\ fuse_map \in Maps /\ next_id \in Nat
           /\ Exists(fuse_map[p]) /\ fuse_map[p] # NoEntry
           /\ \A e \in Kinds : fuse_map[p] # e
           /\ fuse_map[p] # File(next_id)
           /\ \A q \in Paths : fuse_map[q] = fuse_map[p] => q = p
<1>1. fuse_map \in Maps /\ next_id \in Nat /\ NoSharing(fuse_map, next_id, stirred)
  BY UnsharedIs DEF ObjectInv, TypeOK
<1>2. fuse_map[p].object < next_id
  BY <1>1 DEF NoSharing, Followable
<1>3. fuse_map[p] # File(next_id)
  BY <1>1, <1>2 DEF File
<1>4. \A q \in Paths : fuse_map[q] = fuse_map[p] => q = p
  BY <1>1 DEF NoSharing, Followable
<1> QED
  BY <1>1, <1>3, <1>4, EntryIs DEF Followable, Exists

\* No request changes which paths the tree in memory has loose.
LEMMA SameMemory == TreeInv /\ Request => frayed'.memory = frayed.memory
  BY DEF TreeInv, Request, Stir

\* The requests on one path leave every other entry alone, and put no file of before
\* anywhere.
LEMMA StaysByOne ==
    ASSUME ObjectInv, TreeInv, TreeInv', NEW path \in Paths,
           \/ EnsureFileObject(path) \/ EnsureFails(path) \/ Put(path)
           \/ DeleteWhiteout(path) \/ DeleteFile(path),
           NEW p \in Paths, Followable(p), NEW q \in Paths, fuse_map'[q] = fuse_map[p]
    PROVE  Stays(p, q)
<1>1. /\ fuse_map \in Maps /\ Listed(p) /\ Exists(fuse_map[p]) /\ p \in Before
      /\ \A r \in Paths : fuse_map[r] = fuse_map[p] => r = p
  BY FileIs, ListedIs DEF Followable
<1>2. q = p /\ fuse_map'[p] = fuse_map[p]
  <2>1. CASE (EnsureFileObject(path) /\ fuse_map[path].type = "File") \/ EnsureFails(path)
    BY <1>1, <2>1 DEF EnsureFileObject, EnsureFails, Set, Maps
  <2>2. ASSUME NEW e, fuse_map' = [fuse_map EXCEPT ![path] = e], e # fuse_map[p]
        PROVE  q = p
    BY <1>1, <2>2 DEF Maps
  <2>3. CASE EnsureFileObject(path) /\ fuse_map[path].type # "File"
    <3>1. fuse_map' = [fuse_map EXCEPT ![path] = File(next_id)]
      BY <2>3 DEF EnsureFileObject, Set
    <3> QED
      BY <2>2, <3>1, FileIs
  <2>4. CASE Put(path)
    <3>1. PICK e \in Kinds : fuse_map' = [fuse_map EXCEPT ![path] = e]
      BY <2>4 DEF Put, Set
    <3> QED
      BY <2>2, <3>1, FileIs
  <2>5. CASE DeleteWhiteout(path) \/ DeleteFile(path)
    <3>1. fuse_map' = [fuse_map EXCEPT ![path] = NoEntry]
      BY <2>5 DEF DeleteWhiteout, DeleteFile
    <3> QED
      BY <2>2, <3>1, FileIs
  <2> QED
    BY <2>1, <2>3, <2>4, <2>5
<1>3. CASE DeleteFile(path)
  <2>1. fuse_map' = [fuse_map EXCEPT ![path] = NoEntry] /\ path_tree' = Remove(path_tree, path)
    BY <1>3 DEF DeleteFile
  <2>2. path # p
    BY <1>1, <1>2, <2>1, FileIs DEF Maps
  <2>3. path \notin After
    BY <2>1, TreeAfterOne
  <2> QED
    BY <1>1, <1>2, <2>1, <2>2, <2>3, StaysPut
<1>4. CASE ~DeleteFile(path)
  <2>1. path_tree' = path_tree \/ path_tree' = Insert(path_tree, path)
    BY <1>4 DEF EnsureFileObject, EnsureFails, Put, DeleteWhiteout, Set
  <2>2. p \in ChildrenOf(path_tree, Parent(p))
    BY <1>1 DEF Listed
  <2>3. Insert(path_tree, path) = InsertAll(path_tree, {path})
    BY DEF Insert, InsertAll
  <2>4. p \in ChildrenOf(path_tree', Parent(p))
    BY <2>1, <2>2, <2>3, ChildStays
  <2> QED
    BY <1>1, <1>2, <2>4 DEF Stays, Listed
<1> QED
  BY <1>3, <1>4

\* RenameFile: the file goes to the destination, which the tree learns.
LEMMA StaysByRenameFile ==
    ASSUME ObjectInv, TreeInv, TreeInv', NEW from \in Paths, NEW to \in Paths,
           RenameFile(from, to), Request,
           NEW p \in Paths, Followable(p), NEW q \in Paths, fuse_map'[q] = fuse_map[p]
    PROVE  Stays(p, q)
<1>1. /\ fuse_map \in Maps /\ Listed(p) /\ Exists(fuse_map[p]) /\ p \in Before
      /\ fuse_map[p] # NoEntry
      /\ \A r \in Paths : fuse_map[r] = fuse_map[p] => r = p
  BY FileIs, ListedIs DEF Followable
<1>2. /\ from \notin After /\ Moved(from, from, to) = to
      /\ \A r \in SubtreePaths(path_tree, from) : Moved(r, from, to) \in After
      /\ path_tree' = Rename(path_tree, from, to) /\ from \in Ancestors(from)
  BY TreeAfterRename, TreeBefore DEF RenameFile
<1>3. fuse_map'[q] = IF q = to THEN fuse_map[from]
                     ELSE IF q = from THEN NoEntry ELSE fuse_map[q]
  BY <1>1 DEF RenameFile, Maps
<1>4. CASE q = to
  <2>1. p = from /\ p # q
    BY <1>1, <1>2, <1>3, <1>4 DEF RenameFile, Apart
  <2>2. to \in After
    BY <1>1, <1>2, <2>1, Subtree
  <2> QED
    BY <1>1, <1>4, <2>1, <2>2, ListedIs, SameMemory DEF Stays
<1>5. CASE q # to
  <2>1. q = p /\ p # from /\ fuse_map'[p] = fuse_map[p]
    BY <1>1, <1>3, <1>5
  <2>2. \E new : path_tree' = InsertAll(Remove(path_tree, from), new)
    BY <1>2 DEF Rename
  <2> QED
    BY <1>1, <1>2, <2>1, <2>2, StaysPut
<1> QED
  BY <1>4, <1>5

\* RenameTree: what the tree has below the source goes with it, and the rest stays.
LEMMA StaysByRenameTree ==
    ASSUME ObjectInv, TreeInv, TreeInv', NEW from \in Paths, NEW to \in Paths,
           RenameTree(from, to), Request,
           NEW p \in Paths, Followable(p), NEW q \in Paths, fuse_map'[q] = fuse_map[p]
    PROVE  Stays(p, q)
<1> DEFINE old  == {r \in SubtreePaths(path_tree, from) : Exists(fuse_map[r])}
           dest == {Moved(r, from, to) : r \in old}
<1>1. /\ Listed(p) /\ Exists(fuse_map[p]) /\ p \in Before
      /\ fuse_map[p] # NoEntry
      /\ \A r \in Paths : fuse_map[r] = fuse_map[p] => r = p
  BY FileIs, ListedIs DEF Followable
<1>2. /\ from \notin After /\ from \in Ancestors(from)
      /\ \A r \in SubtreePaths(path_tree, from) : Moved(r, from, to) \in After
      /\ path_tree' = Rename(path_tree, from, to)
  BY TreeAfterRename, TreeBefore DEF RenameTree
<1>3. fuse_map'[q] = IF q \in dest THEN fuse_map[Moved(q, to, from)]
                     ELSE IF q \in old THEN NoEntry ELSE fuse_map[q]
  BY DEF RenameTree
<1>4. ASSUME NEW r \in old
      PROVE  /\ r \in Paths /\ Moved(Moved(r, from, to), to, from) = r
             /\ Moved(r, from, to) # r
  <2>1. r \in Seq(Names) /\ from \in Ancestors(r) /\ r \in Known
    BY TreeBefore, Subtree DEF Below
  <2>2. r # <<>>
    <3>1. from \in Seq(Names) /\ to \in Seq(Names) /\ from # <<>> /\ <<>> \in Seq(Names)
      BY TreeBefore, EmptySeq
    <3>2. Len(from) # 0 /\ Len(from) \in Nat /\ Len(<<>>) = 0
      BY <3>1, EmptySeq, LenProperties
    <3>3. from \in Ancestors(<<>>) => Len(from) <= Len(<<>>)
      BY <3>1, AncestorIs
    <3> QED
      BY <2>1, <3>2, <3>3
  <2>3. Moved(r, from, to) # r
    <3>1. from \in Seq(Names) /\ to \in Seq(Names) /\ from \notin Ancestors(to)
          /\ to \notin Ancestors(from)
      BY TreeBefore DEF RenameTree, Apart
    <3>2. to \in Ancestors(Moved(r, from, to))
      BY <2>1, <3>1, MovedUnder
    <3> QED
      BY <2>1, <3>1, <3>2, AncestorsNested
  <2> QED
    BY <2>1, <2>2, <2>3, TreeBefore, MovedBack DEF Known
<1>5. CASE q \in dest
  <2>1. PICK r \in old : q = Moved(r, from, to)
    BY <1>5
  <2>2. r = p
    BY <1>1, <1>3, <1>4, <1>5, <2>1
  <2>3. q \in After /\ p # q
    BY <1>2, <1>4, <2>1, <2>2
  <2> QED
    BY <1>1, <2>3, ListedIs, SameMemory DEF Stays
<1>6. CASE q \notin dest
  <2>1. q = p /\ p \notin old /\ fuse_map'[p] = fuse_map[p]
    BY <1>1, <1>3, <1>6
  <2>2. p # from
    BY <1>1, <2>1, TreeBefore, Subtree
  <2>3. \E new : path_tree' = InsertAll(Remove(path_tree, from), new)
    BY <1>2 DEF Rename
  <2> QED
    BY <1>1, <1>2, <2>1, <2>2, <2>3, StaysPut
<1> QED
  BY <1>5, <1>6

\* A file that ReadDirAll lists goes on being listed wherever a request moves its object,
\* unless the removal of a path above it takes the subtree from the tree.
THEOREM ListedAlwaysStays == Spec => ListedStays
<1> DEFINE Step == Serves /\ Serves' =>
                     \A p \in Paths : Followable(p) =>
                       \A q \in {r \in Paths : fuse_map'[r] = fuse_map[p]} : Stays(p, q)
<1>1. Init => ObjectInv /\ TreeInv
  BY ObjectInit, TreeInit
<1>2. (ObjectInv /\ TreeInv) /\ [Next]_vars => (ObjectInv /\ TreeInv)'
  BY ObjectRequest, ObjectBySave, ObjectByOthers, TreeByNext DEF Next
<1>3. (ObjectInv /\ TreeInv) /\ (ObjectInv /\ TreeInv)' /\ [Next]_vars => Step
  <2> SUFFICES ASSUME ObjectInv, TreeInv, TreeInv', [Next]_vars, Serves, Serves',
                      NEW p \in Paths, Followable(p), NEW q \in Paths, fuse_map'[q] = fuse_map[p]
               PROVE  Stays(p, q)
    OBVIOUS
  <2>1. CASE Request
    BY <2>1, StaysByOne, StaysByRenameFile, StaysByRenameTree DEF Request
  <2>2. CASE fuse_map' = fuse_map /\ path_tree' = path_tree
    <3>1. p = q
      BY <2>2, FileIs
    <3> QED
      BY <2>2, <3>1 DEF Stays, Followable, Listed
  <2>3. Save \/ Start \/ Kill \/ UNCHANGED vars => fuse_map' = fuse_map /\ path_tree' = path_tree
    BY DEF Save, Flush, ReadEntry, CreateMeta, WriteMeta, ReadRows, CreateData, WriteMap, WriteTree,
       Start, Kill, End, Serves, vars, memory
  <2> QED
    BY <2>1, <2>2, <2>3 DEF Next
<1>4. Step =>
        (Serves /\ Serves' =>
         \A p \in Paths :
           fuse_map[p].type = "File" /\ fuse_map[p].object \notin stirred /\ Listed(p) =>
           \A q \in {r \in Paths : fuse_map'[r] = fuse_map[p]} :
             \/ Listed(q)'
             \/ p # q /\ q \in frayed.memory
             \/ p = q /\ \E r \in Ancestors(p) \ {p, <<>>} :
                            r \in PathsIn(path_tree) \ PathsIn(path_tree'))
  BY DEF Followable, Stays, Before, After
<1> QED
  BY <1>1, <1>2, <1>3, <1>4, PTL DEF Spec, ListedStays

-----------------------------------------------------------------------------
(* What a save puts on the disk.                                           *)

\* Of the paths that have not changed since it began, a save has the entries and the
\* rows that the daemon has, as far as it has read them.
SavedInv ==
    /\ phase = "snapshot" =>
           \A p \in (Paths \ unread) \ changed : snapshot.fuse_map[p] = fuse_map[p]
    /\ phase \in {"create_meta", "write_meta"} \cup Saved =>
           \A p \in Paths \ changed : snapshot.fuse_map[p] = fuse_map[p]
    /\ phase \in Saved => Gathered(changed)

LEMMA SavedByRequest == SavedInv /\ TreeInv /\ Request => SavedInv'
<1> SUFFICES ASSUME SavedInv, TreeInv, Request PROVE SavedInv'
  OBVIOUS
<1>1. UNCHANGED <<phase, snapshot, unread>>
  BY DEF Request, EnsureFileObject, EnsureFails, Put, DeleteWhiteout, DeleteFile, RenameFile,
     RenameTree, saving
<1>2. changed' = IF phase = "serving" THEN changed
                 ELSE changed \cup {p \in Paths : fuse_map'[p] # fuse_map[p]} \cup Rerowed
  BY DEF Request, Stir
<1>3. \A row : row.descendant \notin Rerowed =>
                   (row \in path_tree.by_ancestor <=> row \in path_tree'.by_ancestor)
  BY DEF Rerowed
<1>4. ASSUME phase \in Saved PROVE Gathered(changed)'
  BY <1>1, <1>2, <1>3, <1>4 DEF SavedInv, Gathered, Saved, Gathering
<1>5. phase = "snapshot" =>
          \A p \in (Paths \ unread) \ changed' : snapshot.fuse_map[p] = fuse_map'[p]
  BY <1>2 DEF SavedInv
<1>6. phase \in {"create_meta", "write_meta"} \cup Saved =>
          \A p \in Paths \ changed' : snapshot.fuse_map[p] = fuse_map'[p]
  BY <1>2 DEF SavedInv, Saved, Gathering
<1> QED
  BY <1>1, <1>4, <1>5, <1>6 DEF SavedInv

LEMMA SavedBySave == SavedInv /\ TreeInv /\ ObjectInv /\ Save => SavedInv'
<1> SUFFICES ASSUME SavedInv, TreeInv, ObjectInv, Save PROVE SavedInv'
  OBVIOUS
<1> USE DEF memory, history, SavedInv, Saved, Gathering
<1>1. CASE Flush
  BY <1>1 DEF Flush, ReadNextId
<1>2. ASSUME NEW p \in Paths, ReadEntry(p) PROVE SavedInv'
  <2>1. /\ phase = "snapshot" /\ phase' \in {"snapshot", "create_meta"}
        /\ phase' = "create_meta" => unread' = {}
        /\ unread' = unread \ {p} /\ UNCHANGED <<fuse_map, changed>>
        /\ snapshot'.fuse_map = [snapshot.fuse_map EXCEPT ![p] = fuse_map[p]]
    BY <1>2 DEF ReadEntry, TreeInv
  <2>2. \A q \in Paths :
            snapshot'.fuse_map[q] = IF q = p THEN fuse_map[p] ELSE snapshot.fuse_map[q]
    BY <2>1 DEF ObjectInv, TypeOK, Maps
  <2>3. \A q \in (Paths \ unread') \ changed : snapshot'.fuse_map[q] = fuse_map[q]
    BY <2>1, <2>2
  <2> QED
    BY <2>1, <2>3
<1>3. CASE CreateMeta
  BY <1>3 DEF CreateMeta
<1>4. CASE WriteMeta
  <2>1. /\ phase = "write_meta" /\ phase' = "walk" /\ unread' = Known
        /\ UNCHANGED <<fuse_map, path_tree, snapshot, changed>> /\ snapshot.rows = {}
    BY <1>4 DEF WriteMeta, TreeInv, RowsGathered, Known
  <2>2. \A row \in path_tree.by_ancestor : row.ancestor \in Known
    BY AncestorsKnown
  <2>3. Gathered(changed)'
    BY <2>1, <2>2 DEF Gathered
  <2> QED
    BY <2>1, <2>3
<1>5. ASSUME NEW p \in Paths \cup {<<>>}, ReadRows(p) PROVE SavedInv'
  <2>1. /\ phase = "walk" /\ phase' \in {"walk", "create_data"} /\ unread' = unread \ {p}
        /\ p \in unread /\ UNCHANGED <<fuse_map, path_tree, changed>>
        /\ snapshot'.fuse_map = snapshot.fuse_map
        /\ snapshot'.rows = snapshot.rows \cup {row \in path_tree.by_ancestor : row.ancestor = p}
    BY <1>5 DEF ReadRows, TreeInv
  <2>2. Gathered(changed)'
    BY <2>1 DEF Gathered
  <2> QED
    BY <2>1, <2>2
<1>6. CASE CreateData \/ WriteMap
  <2>1. /\ phase \in {"create_data", "write_map"} /\ phase' \in {"write_map", "write_tree"}
        /\ UNCHANGED <<fuse_map, path_tree, snapshot, unread, changed>>
    BY <1>6 DEF CreateData, WriteMap
  <2>2. Gathered(changed)'
    BY <2>1 DEF Gathered
  <2> QED
    BY <2>1, <2>2
<1>7. CASE WriteTree
  BY <1>7 DEF WriteTree, ReadNextId, End
<1> QED
  BY <1>1, <1>2, <1>3, <1>4, <1>5, <1>6, <1>7 DEF Save

LEMMA SavedByOthers == SavedInv /\ (Start \/ Kill \/ UNCHANGED vars) => SavedInv'
<1> SUFFICES ASSUME SavedInv, Start \/ Kill \/ UNCHANGED vars PROVE SavedInv'
  OBVIOUS
<1>1. CASE Start \/ Kill
  BY <1>1 DEF Start, Kill, End, SavedInv, Saved, Gathering
<1>2. CASE UNCHANGED vars
  BY <1>2 DEF SavedInv, Gathered, vars, memory, saving, history
<1> QED
  BY <1>1, <1>2

\* The save that ends has the entry of every path that has not changed since it began,
\* and a restart lists the path exactly when the daemon does.
LEMMA SaveAgrees ==
    ASSUME SavedInv, TreeInv, TreeInv', Next, phase = "write_tree", data_bin'.whole,
           NEW p \in Paths \ changed
    PROVE  /\ data_bin'.fuse_map[p] = fuse_map[p]
           /\ p \in ChildrenOf(Loaded', Parent(p)) <=> p \in ChildrenOf(path_tree, Parent(p))
<1>1. CASE WriteTree
  <2>1. /\ data_bin'.fuse_map = snapshot.fuse_map /\ data_bin'.rows = snapshot.rows
        /\ Loaded' = FromRows(snapshot.rows) /\ unread = {}
    BY <1>1 DEF WriteTree, Loaded, TreeInv, RowsGathered, Gathering
  <2>2. data_bin'.fuse_map[p] = fuse_map[p]
    BY <2>1 DEF SavedInv, Saved, Gathering
  <2>3. p \in Seq(Names) /\ p # <<>>
    BY PathsAssumption
  <2>4. p \in ChildrenOf(path_tree, Parent(p)) <=> Row(Parent(p), p) \in path_tree.by_ancestor
    BY <2>3, ChildBut, KnownTree DEF TreeInv
  <2>5. p \in ChildrenOf(FromRows(snapshot.rows), Parent(p)) <=> Row(Parent(p), p) \in snapshot.rows
    <3>1. ExactBut(FromRows(snapshot.rows), frayed.saving, Names)
      BY KnownTree DEF TreeInv, Gathering
    <3>2. FromRows(snapshot.rows).by_ancestor = snapshot.rows
      BY DEF FromRows, InsertRows, EmptyTree
    <3> QED
      BY <2>3, <3>1, <3>2, ChildBut
  <2>6. Row(Parent(p), p) \in snapshot.rows <=> Row(Parent(p), p) \in path_tree.by_ancestor
    <3>1. Gathered(changed) /\ Row(Parent(p), p).descendant = p
      BY RowIs DEF SavedInv, Saved, Gathering
    <3> QED
      BY <2>1, <3>1 DEF Gathered
  <2> QED
    BY <2>1, <2>2, <2>4, <2>5, <2>6
<1>2. CASE ~WriteTree
  <2>1. ~data_bin.whole /\ UNCHANGED data_bin
    <3>1. ~data_bin.whole
      BY DEF TreeInv
    <3>2. UNCHANGED data_bin
      BY <1>2 DEF Next, Request, EnsureFileObject, EnsureFails, Put, DeleteWhiteout, DeleteFile,
         RenameFile, RenameTree, Save, Flush, ReadEntry, CreateMeta, WriteMeta, ReadRows,
         CreateData, WriteMap, Start, Kill, disk
    <3> QED
      BY <3>1, <3>2
  <2> QED
    BY <2>1
<1> QED
  BY <1>1, <1>2

\* However requests overtake the reading of the map and of the tree, what a save puts
\* on the disk is right of every path that they leave alone (snapshot_state, rows,
\* disk::flush).
THEOREM AlwaysSavedAsListed == Spec => SavedAsListed
<1> DEFINE Step == phase = "write_tree" /\ data_bin'.whole =>
                     \A p \in Paths \ changed :
                       /\ data_bin'.fuse_map[p] = fuse_map[p]
                       /\ p \in ChildrenOf(Loaded', Parent(p)) <=>
                              p \in ChildrenOf(path_tree, Parent(p))
<1>1. Init => ObjectInv /\ TreeInv /\ SavedInv
  BY ObjectInit, TreeInit DEF Init, SavedInv, Saved, Gathering
<1>2. (ObjectInv /\ TreeInv /\ SavedInv) /\ [Next]_vars => (ObjectInv /\ TreeInv /\ SavedInv)'
  BY ObjectRequest, ObjectBySave, ObjectByOthers, TreeByNext, SavedByRequest, SavedBySave,
     SavedByOthers DEF Next
<1>3. (ObjectInv /\ TreeInv /\ SavedInv) /\ TreeInv' /\ [Next]_vars => Step
  <2>1. ASSUME TreeInv, UNCHANGED vars PROVE Step
    BY <2>1 DEF TreeInv, vars, disk
  <2> QED
    BY <2>1, SaveAgrees
<1> QED
  BY <1>1, <1>2, <1>3, PTL DEF Spec, SavedAsListed
=============================================================================
