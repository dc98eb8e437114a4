----------------------------- MODULE SyncServer -----------------------------
(***************************************************************************)
(* The syncing daemon's own state over several paths: the map of entries,  *)
(* the path tree, the object ids, and the two files that outlive it.       *)
(* Connections go on being served while the daemon saves, and it may be    *)
(* killed at any moment.                                                   *)
(*                                                                         *)
(*   src/syncing/server.rs   dispatch, snapshot_state, run_async           *)
(*   src/syncing/object.rs   next_id                                       *)
(*   src/syncing/disk.rs     load, flush                                   *)
(*                                                                         *)
(* A request is one step here; CowFile takes requests apart.               *)
(***************************************************************************)
EXTENDS PathTree, Decision

CONSTANTS
    Names,       \* what the components of the paths are
    Paths,       \* the paths clients name; the root is not one of them
    Kinds,       \* the entries clients put that are no files
    MaxObjects,  \* bound on the object ids
    MaxStarts,   \* bound on how often a daemon is started
    MaxRequests, \* bound on the requests served
    MaxSaved,    \* bound on the requests and starts before a save begins
    MaxMeanwhile \* bound on those before a request meets a save

ASSUME PathsAssumption ==
    \A p \in Paths : /\ p \in Seq(Names) /\ p # <<>>
                      /\ Ancestors(p) \subseteq Paths \cup {<<>>}
ASSUME KindsAssumption == Kinds \subseteq {Dir, Symlink, Whiteout}
ASSUME ObjectsAssumption == MaxObjects \in Nat
ASSUME StartsAssumption == MaxStarts \in Nat
ASSUME RequestsAssumption == MaxRequests \in Nat /\ MaxSaved \in Nat /\ MaxMeanwhile \in Nat

VARIABLES
    fuse_map,   \* the entry of each path
    path_tree,  \* the closure table
    next_id,    \* the next id of the object store
    phase,      \* what the daemon is doing
    round,      \* which flush of a shutdown it is in
    snapshot,   \* what the save has read so far
    unread,     \* the keys of the map, and then of by_ancestor, that it has not
    meta_bin,   \* the next id in metadata.bin, or Torn
    data_bin,   \* the map and the rows in data.bin, or Torn
    starts,     \* daemons started so far
    requests,   \* requests served so far
    \* history
    stirred,    \* the objects that a snapshot may have missed or met twice
    frayed,     \* the paths whose rows a walk of the tree may have torn apart
    changed     \* the paths whose entry or rows changed since the save began

memory == <<fuse_map, path_tree, next_id>>
saving == <<phase, round, snapshot, unread>>
disk   == <<meta_bin, data_bin>>
bounds == <<starts, requests>>
history == <<stirred, frayed, changed>>
vars   == <<memory, saving, disk, bounds, history>>

Entries == {NoEntry, Whiteout, Dir, Symlink} \cup {File(id) : id \in 1 .. MaxObjects}

NoMap == [p \in Paths |-> NoEntry]

\* A file that has been truncated and not written: no id, no entry for any path.
TornMeta == 0
TornData == [fuse_map |-> <<>>, rows |-> {}, whole |-> FALSE]

\* The tree that load makes of data.bin: of the rows, or if the file ends before
\* them, of the paths in the map.
Loaded ==
    IF data_bin.whole THEN FromRows(data_bin.rows)
    ELSE FromPaths({p \in Paths : Exists(data_bin.fuse_map[p])})

\* The daemon's process is there.
Serves == phase # "down"

NoSnapshot == [fuse_map |-> NoMap, next_id |-> 1, rows |-> {}]

\* A sandbox that was just made, and nobody serves it.
Init ==
    /\ fuse_map = NoMap /\ path_tree = EmptyTree /\ next_id = 1
    /\ phase = "down" /\ round = 1
    /\ snapshot = NoSnapshot /\ unread = {}
    /\ stirred = {} /\ frayed = [memory |-> {}, saving |-> {}, disk |-> {}] /\ changed = {}
    /\ meta_bin = 1
    /\ data_bin = [fuse_map |-> NoMap, rows |-> {}, whole |-> TRUE]
    /\ starts = 0 /\ requests = 0

-----------------------------------------------------------------------------
(* Requests.                                                               *)

\* Connections are served until the process ends.
Served ==
    /\ Serves
    /\ requests < MaxRequests
    /\ phase = "serving" \/ requests + starts <= MaxMeanwhile
    /\ requests' = requests + 1

\* Insert an entry for the path, new or not, and put the path in the tree.
Set(path, entry) ==
    /\ fuse_map' = [fuse_map EXCEPT ![path] = entry]
    /\ path_tree' = Insert(path_tree, path)

\* EnsureFileObject and EnsureFileObjectFromReal keep the object there is.
EnsureFileObject(path) ==
    /\ Served
    /\ IF fuse_map[path].type = "File"
         THEN /\ Set(path, fuse_map[path])
              /\ UNCHANGED next_id
         ELSE /\ next_id <= MaxObjects
              /\ next_id' = next_id + 1
              /\ Set(path, File(next_id))
    /\ UNCHANGED <<saving, disk, starts>>

\* The object cannot be written: its id is used up.
EnsureFails(path) ==
    /\ Served
    /\ fuse_map[path].type # "File" /\ next_id <= MaxObjects
    /\ next_id' = next_id + 1
    /\ UNCHANGED <<fuse_map, path_tree, saving, disk, starts>>

\* PutDir, PutSymlink and PutWhiteout.
Put(path) ==
    /\ Served
    /\ \E entry \in Kinds : Set(path, entry)
    /\ UNCHANGED <<next_id, saving, disk, starts>>

\* DeleteWhiteout leaves the path in the tree.
DeleteWhiteout(path) ==
    /\ Served
    /\ IsWhiteout(fuse_map[path])
    /\ fuse_map' = [fuse_map EXCEPT ![path] = NoEntry]
    /\ UNCHANGED <<path_tree, next_id, saving, disk, starts>>

\* DeleteFile takes one entry from the map and the whole subtree from the tree.
DeleteFile(path) ==
    /\ Served
    /\ fuse_map' = [fuse_map EXCEPT ![path] = NoEntry]
    /\ path_tree' = Remove(path_tree, path)
    /\ UNCHANGED <<next_id, saving, disk, starts>>

\* The kernel refuses to move a path into itself or onto a path above it.
Apart(from, to) == from \notin Ancestors(to) /\ to \notin Ancestors(from)

\* Every move is to a path the model has.
Fits(from, to) == \A p \in SubtreePaths(path_tree, from) : Moved(p, from, to) \in Paths

\* Faulty: the source keeps its entry.
RenameFileCopies(from, to) ==
    /\ Served /\ Exists(fuse_map[from])
    /\ Apart(from, to) /\ Fits(from, to)
    /\ fuse_map' = [fuse_map EXCEPT ![to] = fuse_map[from]]
    /\ path_tree' = Rename(path_tree, from, to)
    /\ UNCHANGED <<next_id, saving, disk, starts>>

\* RenameFile moves one entry, and the whole subtree in the tree.
RenameFile(from, to) ==
    /\ Served /\ Exists(fuse_map[from])
    /\ Apart(from, to) /\ Fits(from, to)
    /\ fuse_map' = [fuse_map EXCEPT ![from] = NoEntry, ![to] = fuse_map[from]]
    /\ path_tree' = Rename(path_tree, from, to)
    /\ UNCHANGED <<next_id, saving, disk, starts>>

\* Faulty: the tree forgets the source and does not learn the destination.
RenameTreeForgets(from, to) ==
    /\ Served /\ Apart(from, to) /\ Fits(from, to)
    /\ LET old   == {p \in SubtreePaths(path_tree, from) : Exists(fuse_map[p])}
           moved == [p \in {Moved(q, from, to) : q \in old} |-> Moved(p, to, from)]
       IN fuse_map' = [p \in Paths |-> IF p \in DOMAIN moved THEN fuse_map[moved[p]]
                                       ELSE IF p \in old THEN NoEntry
                                       ELSE fuse_map[p]]
    /\ path_tree' = Remove(path_tree, from)
    /\ UNCHANGED <<next_id, saving, disk, starts>>

\* RenameTree moves the entries of the paths that the tree has below the
\* source, over whatever is at their destinations.
RenameTree(from, to) ==
    /\ Served /\ Apart(from, to) /\ Fits(from, to)
    /\ LET old   == {p \in SubtreePaths(path_tree, from) : Exists(fuse_map[p])}
           moved == [p \in {Moved(q, from, to) : q \in old} |-> Moved(p, to, from)]
       IN fuse_map' = [p \in Paths |-> IF p \in DOMAIN moved THEN fuse_map[moved[p]]
                                       ELSE IF p \in old THEN NoEntry
                                       ELSE fuse_map[p]]
    /\ path_tree' = Rename(path_tree, from, to)
    /\ UNCHANGED <<next_id, saving, disk, starts>>

-----------------------------------------------------------------------------
(* Starting, saving and stopping.                                          *)

\* load and build_server_state; a file torn before the end of the map is an error
\* and nothing starts.
Start ==
    /\ phase = "down" /\ starts < MaxStarts
    /\ meta_bin # TornMeta /\ data_bin # TornData
    /\ fuse_map' = data_bin.fuse_map
    /\ path_tree' = Loaded
    /\ next_id' = meta_bin
    /\ phase' = "serving" /\ round' = 1
    /\ starts' = starts + 1
    /\ frayed' = [frayed EXCEPT !.memory = frayed.disk]
    /\ UNCHANGED <<snapshot, unread, disk, requests, stirred, changed>>

\* Faulty: the rows are gathered into what the flush before has gathered.
ReadNextIdKeepsRows ==
    /\ phase' = "snapshot"
    /\ snapshot' = [snapshot EXCEPT !.next_id = next_id, !.fuse_map = NoMap]
    /\ unread' = Paths
    /\ changed' = {}

\* snapshot_state begins with the next id ...
ReadNextId ==
    /\ phase' = "snapshot"
    /\ snapshot' = [NoSnapshot EXCEPT !.next_id = next_id]
    /\ unread' = Paths
    /\ changed' = {}

\* flush_and_remove_socket: first in a shutdown and once more before the end.
Flush ==
    /\ phase = "serving"
    /\ requests + starts <= MaxSaved
    /\ ReadNextId
    /\ UNCHANGED <<memory, round, disk, bounds, stirred, frayed>>

\* ... and goes on with the map, entry by entry; iter locks a shard at a time
\* and follows no order of the paths.
ReadEntry(path) ==
    /\ phase = "snapshot" /\ path \in unread
    /\ snapshot' = [snapshot EXCEPT !.fuse_map[path] = fuse_map[path]]
    /\ unread' = unread \ {path}
    /\ phase' = IF unread' = {} THEN "create_meta" ELSE phase
    /\ UNCHANGED <<memory, round, disk, bounds, history>>

\* The process is gone with all it had in memory.
End ==
    /\ phase' = "down" /\ round' = 1 /\ snapshot' = NoSnapshot /\ unread' = {}
    /\ fuse_map' = NoMap /\ path_tree' = EmptyTree /\ next_id' = 1
    /\ changed' = {}

\* disk::flush.
CreateMeta ==
    /\ phase = "create_meta" /\ phase' = "write_meta"
    /\ meta_bin' = TornMeta
    /\ UNCHANGED <<memory, round, snapshot, unread, data_bin, bounds, history>>

\* With metadata.bin written, the live tree is serialised next to the snapshot of
\* the map: a key that is in no set of rows has none.
WriteMeta ==
    /\ phase = "write_meta" /\ phase' = "walk"
    /\ meta_bin' = snapshot.next_id
    /\ unread' = Paths \cup {<<>>}
    /\ frayed' = [frayed EXCEPT !.saving = frayed.memory]
    /\ UNCHANGED <<memory, round, snapshot, data_bin, bounds, stirred, changed>>

\* Faulty: a path's row with itself is left out, as descendants_of does.
ReadRowsBelow(path) ==
    /\ phase = "walk" /\ path \in unread
    /\ snapshot' = [snapshot EXCEPT !.rows =
                       @ \cup {row \in path_tree.by_ancestor :
                                  row.ancestor = path /\ row.distance > 0}]
    /\ unread' = unread \ {path}
    /\ phase' = IF unread' = {} THEN "create_data" ELSE phase
    /\ UNCHANGED <<memory, round, disk, bounds, history>>

\* rows walks by_ancestor as snapshot_state does the map: the rows of one ancestor
\* are read together, and those of another while the tree has changed.
ReadRows(path) ==
    /\ phase = "walk" /\ path \in unread
    /\ snapshot' = [snapshot EXCEPT !.rows =
                       @ \cup {row \in path_tree.by_ancestor : row.ancestor = path}]
    /\ unread' = unread \ {path}
    /\ phase' = IF unread' = {} THEN "create_data" ELSE phase
    /\ UNCHANGED <<memory, round, disk, bounds, history>>

CreateData ==
    /\ phase = "create_data" /\ phase' = "write_map"
    /\ data_bin' = TornData
    /\ frayed' = [frayed EXCEPT !.disk = {}]
    /\ UNCHANGED <<memory, round, snapshot, unread, meta_bin, bounds, stirred, changed>>

\* write_all may be cut off anywhere: after the map the file can be loaded.
WriteMap ==
    /\ phase = "write_map" /\ phase' = "write_tree"
    /\ data_bin' = [fuse_map |-> snapshot.fuse_map, rows |-> {}, whole |-> FALSE]
    /\ UNCHANGED <<memory, round, snapshot, unread, meta_bin, bounds, history>>

WriteTree ==
    /\ phase = "write_tree"
    /\ data_bin' = [fuse_map |-> snapshot.fuse_map, rows |-> snapshot.rows, whole |-> TRUE]
    /\ IF round = 1
         THEN /\ ReadNextId /\ round' = 2
              /\ frayed' = [frayed EXCEPT !.disk = frayed.saving, !.saving = {}]
              /\ UNCHANGED memory
         ELSE /\ End
              /\ frayed' = [memory |-> {}, saving |-> {}, disk |-> frayed.saving]
    /\ UNCHANGED <<meta_bin, bounds, stirred>>

\* SIGKILL, at any moment.
Kill ==
    /\ Serves
    /\ End
    /\ frayed' = [memory |-> {}, saving |-> {}, disk |-> frayed.disk]
    /\ UNCHANGED <<disk, bounds, stirred>>

\* The paths that gain a row in by_ancestor or lose one.
Rerowed ==
    {row.descendant : row \in (path_tree.by_ancestor \ path_tree'.by_ancestor)
                                \cup (path_tree'.by_ancestor \ path_tree.by_ancestor)}

\* What a request does behind the back of a save: an object gets another name while
\* the entries are read, with an id that the snapshot does not know, or met under
\* both names; a path gets rows or loses them while the tree is walked.
Stir ==
    /\ stirred' = IF phase = "snapshot"
                  THEN stirred \cup {id \in 1 .. MaxObjects : \E p \in Paths :
                           fuse_map'[p] = File(id) /\ fuse_map[p] # File(id)}
                  ELSE stirred
    /\ frayed' = IF phase = "walk" THEN [frayed EXCEPT !.saving = @ \cup Rerowed] ELSE frayed
    /\ changed' = IF phase = "serving" THEN changed
                  ELSE changed \cup {p \in Paths : fuse_map'[p] # fuse_map[p]} \cup Rerowed

Request ==
    /\ \/ \E p \in Paths : \/ EnsureFileObject(p) \/ EnsureFails(p) \/ Put(p)
                           \/ DeleteWhiteout(p) \/ DeleteFile(p)
       \/ \E from, to \in Paths : RenameFile(from, to) \/ RenameTree(from, to)
    /\ Stir

Save ==
    \/ Flush \/ (\E p \in Paths : ReadEntry(p))
    \/ CreateMeta \/ WriteMeta \/ (\E p \in Paths \cup {<<>>} : ReadRows(p))
    \/ CreateData \/ WriteMap \/ WriteTree

Next == Request \/ Save \/ Start \/ Kill

Spec == Init /\ [][Next]_vars

-----------------------------------------------------------------------------
\* The three indexes of the path tree, in memory and as a restart would make them
\* from whatever a save or a crash left on the disk, agree, and are the closure of
\* the paths they hold, whatever is inserted, removed and renamed while rows walks
\* the tree.  Only the paths that gained or lost rows during the walk that the tree
\* comes from may be there in part, or be missing above the others
\* (closure.rs:48-80, 131-221, disk.rs:104-112, 136; plan/modules/syncing/closure.md
\* "Track path ancestry and descendant relationships").
TreeExact ==
    /\ Serves => IsTreeBut(path_tree, frayed.memory)
    /\ ~Serves /\ data_bin # TornData => IsTreeBut(Loaded, frayed.disk)

\* No two paths of the map name one object, and no name is one that will be
\* handed out again.
Unshared(map, id) ==
    LET files == {p \in Paths : map[p].type = "File" /\ map[p].object \notin stirred}
    IN /\ \A p \in files : map[p].object < id
       /\ \A p, q \in files : map[p] = map[q] => p = q

\* Neither in the daemon nor in whatever a restart would load, after a shutdown
\* or a crash between any two steps of a flush, do two paths share an object or
\* will they: metadata.bin is written before data.bin (object.rs:42-78,
\* server.rs:434-442,514-529, disk.rs:132-140).  The exception is a file that
\* was made or renamed while snapshot_state read the map (server.rs:103-110).
ObjectsUnshared ==
    /\ Serves => Unshared(fuse_map, next_id)
    /\ ~Serves /\ meta_bin # TornMeta /\ data_bin # TornData =>
           Unshared(data_bin.fuse_map, meta_bin)

\* ReadDirAll of the parent lists the entry.
Listed(path) == Exists(fuse_map[path]) /\ path \in ChildrenOf(path_tree, Parent(path))

\* What a save puts on the disk is, of every path that no request changed since the
\* save began, what the daemon has: the map's entry, and from the tree that a restart
\* would make, whether the parent lists it.  It is not of the paths that changed: the
\* map and the tree are read one after the other, each piecemeal (server.rs:99-113,
\* 185-187, disk.rs:136, closure.rs:131-145).
SavedAsListed ==
    [][phase = "write_tree" /\ data_bin'.whole =>
         \A p \in Paths \ changed :
           /\ data_bin'.fuse_map[p] = fuse_map[p]
           /\ p \in ChildrenOf(Loaded', Parent(p)) <=> p \in ChildrenOf(path_tree, Parent(p))]_vars

\* A file that ReadDirAll lists goes on being listed wherever a request moves
\* its object to, as long as one path names it; only the removal of a directory
\* above it, which takes the subtree from the tree and one entry from the map,
\* may hide it, or a destination that was left in part by a walk of the tree
\* (server.rs:429-442, 493-529; plan/modules/syncing/closure.md "direct-child
\* lookup for ReadDirAll").
ListedStays ==
    [][Serves /\ Serves' =>
         \A p \in Paths :
           fuse_map[p].type = "File" /\ fuse_map[p].object \notin stirred /\ Listed(p) =>
           \A q \in {r \in Paths : fuse_map'[r] = fuse_map[p]} :
             \/ Listed(q)'
             \/ p # q /\ q \in frayed.memory
             \/ p = q /\ \E r \in Ancestors(p) \ {p, <<>>} :
                            r \in PathsIn(path_tree) \ PathsIn(path_tree')]_vars
=============================================================================
