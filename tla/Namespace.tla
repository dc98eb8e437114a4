----------------------------- MODULE Namespace -----------------------------
(***************************************************************************)
(* The file system that one run sees, over several paths: the requests of  *)
(* the kernel one after the other, with the host's files below, the        *)
(* entries and the path tree of the syncing daemon above them, and the     *)
(* inode numbers that the kernel remembers.                                *)
(*                                                                         *)
(*   src/fuse/fs.rs           the handlers                                 *)
(*   src/fuse/executor.rs     the requests they make of the daemon         *)
(*   src/syncing/server.rs    what those do                                *)
(*                                                                         *)
(* A handler is one step; CowFile, ClientPool and Inodes take handlers     *)
(* apart.  Served one after the other, get_or_insert gives each path one   *)
(* number: a number is written as its path.  What a file holds is the set  *)
(* of the operations that wrote it, 0 standing for the host.               *)
(***************************************************************************)
EXTENDS PathTree, Decision

CONSTANTS
    Names,    \* what the components of the paths are
    Paths,    \* the names the user has for files; the root is not one of them
    Hosts,    \* the host's files: for each path "None", "File" or "Dir"
    Modes,    \* the access modes, the same for all paths
    MaxOps,   \* bound on the operations that change something
    Nil

ASSUME PathsAssumption ==
    \A p \in Paths : /\ p \in Seq(Names) /\ p # <<>>
                      /\ Ancestors(p) \subseteq Paths \cup {<<>>}
\* What the host has below a path is below a directory.
ASSUME HostsAssumption ==
    \A h \in Hosts :
        /\ h \in [Paths -> {"None", "File", "Dir"}]
        /\ \A p \in Paths : h[p] # "None" => \A a \in Ancestors(p) \ {<<>>, p} : h[a] = "Dir"
ASSUME ModesAssumption == Modes \subseteq {"CopyOnWrite", "FuseOnly"}
ASSUME OpsAssumption == MaxOps \in Nat
ASSUME NilAssumption == Nil \notin [number : Paths, kind : {"File", "Dir", "Symlink"}]

VARIABLES
    mode,
    host,
    store,    \* the daemon's map, its path tree and its next object id
    content,  \* what each object holds
    dentry,   \* what the kernel has for a name: a number and a kind, or Nil
    ops,      \* operations so far
    \* history
    ref,      \* what a file system would have under each name
    astray    \* the names under which this one is known to have something else

fs_vars == <<mode, host, store, content, dentry, ops, ref, astray>>

Nothing == [kind |-> "None", chunks |-> {}]
Regular(chunks) == [kind |-> "File", chunks |-> chunks]
Directory == [kind |-> "Dir", chunks |-> {}]
Link == [kind |-> "Symlink", chunks |-> {}]

Under(path) == {p \in Paths : path \in Ancestors(p)}
Inside(path) == Under(path) \ {path}

-----------------------------------------------------------------------------
(* What the handlers answer about a path.                                  *)

HostHas(path) == host[path] # "None"

FromHost(path) == IF host[path] = "File" THEN Regular({0}) ELSE Directory

FromEntry(entry) ==
    CASE entry.type = "File" -> Regular(content[entry.object])
      [] entry.type = "Dir" -> Directory
      [] entry.type = "Symlink" -> Link

\* stat_path and, for a file, what reading it gives.
Shown(path) ==
    LET entry  == store.map[path]
        answer == DecideStat(mode, HostHas(path), entry)
    IN CASE answer = "NotFound" -> Nothing
         [] answer = "UseReal" -> FromHost(path)
         [] answer = "UseFuse" -> FromEntry(entry)

Found(path) == Shown(path) # Nothing

\* readdir of a directory: the host's names and those the daemon lists.
Listing(directory) ==
    {p \in Paths :
        /\ Parent(p) = directory
        /\ LET entry == IF p \in ChildrenOf(store.tree, directory) THEN store.map[p]
                        ELSE NoEntry
           IN VisibleChild(mode, HostHas(p), entry) # "nothing"}

\* recursive_real_descendants
RealDescendants(path) == {p \in Inside(path) : HostHas(p)}

-----------------------------------------------------------------------------
(* The daemon's requests, as functions of its state.                       *)

Set(s, path, entry) ==
    [s EXCEPT !.map = [@ EXCEPT ![path] = entry], !.tree = Insert(s.tree, path)]

EnsureFileObject(s, path) ==
    IF s.map[path].type = "File" THEN Set(s, path, s.map[path])
    ELSE [Set(s, path, File(s.next)) EXCEPT !.next = @ + 1]

DeleteFile(s, path) ==
    [s EXCEPT !.map = [@ EXCEPT ![path] = NoEntry], !.tree = Remove(s.tree, path)]

PutWhiteout(s, path) == Set(s, path, Whiteout)

\* For the host's files below a directory.
PutWhiteouts(s, paths) ==
    [s EXCEPT !.map = [p \in Paths |-> IF p \in paths THEN Whiteout ELSE @[p]],
              !.tree = InsertAll(s.tree, paths)]

DeleteWhiteout(s, path) ==
    IF IsWhiteout(s.map[path]) THEN [s EXCEPT !.map[path] = NoEntry] ELSE s

RenameFile(s, from, to) ==
    [s EXCEPT !.map = [@ EXCEPT ![from] = NoEntry, ![to] = s.map[from]],
              !.tree = Rename(s.tree, from, to)]

\* Faulty: the tree does not learn of the move.
RenameTreeUnlisted(s, from, to) ==
    LET old == {p \in SubtreePaths(s.tree, from) : Exists(s.map[p])}
        new == {Moved(p, from, to) : p \in old}
    IN [s EXCEPT !.map = [p \in Paths |-> IF p \in new THEN s.map[Moved(p, to, from)]
                                          ELSE IF p \in old THEN NoEntry
                                          ELSE s.map[p]]]

\* Faulty: only the directory itself moves.
RenameTreeAlone(s, from, to) == RenameFile(s, from, to)

RenameTree(s, from, to) ==
    LET old == {p \in SubtreePaths(s.tree, from) : Exists(s.map[p])}
        new == {Moved(p, from, to) : p \in old}
    IN [s EXCEPT !.map = [p \in Paths |-> IF p \in new THEN s.map[Moved(p, to, from)]
                                          ELSE IF p \in old THEN NoEntry
                                          ELSE s.map[p]],
                 !.tree = Rename(s.tree, from, to)]

-----------------------------------------------------------------------------
(* The kernel: names and numbers.                                          *)

NumberOf(directory) == IF directory = <<>> THEN <<>> ELSE dentry[directory].number

Is(name, kinds) ==
    IF name = <<>> THEN TRUE ELSE dentry[name] # Nil /\ dentry[name].kind \in kinds

\* get_path: the path a handler gets from the parent's number and the name.
PathOf(name) == NumberOf(Parent(name)) \o <<name[Depth(name)]>>

\* The name is in a directory the kernel knows, and means a path of the model.
Reaches(name) ==
    /\ Is(Parent(name), {"Dir"})
    /\ PathOf(name) \in Paths

IsNew(name) == dentry[name] = Nil /\ ~Found(PathOf(name))
Drop(d, name) == [n \in Paths |-> IF n \in Under(name) THEN Nil ELSE d[n]]

Knows(name, path, kind) ==
    [Drop(dentry, name) EXCEPT ![name] = [number |-> path, kind |-> kind]]

\* lookup, for a name the kernel does not have or has had for a second.
Lookup(name) ==
    /\ Reaches(name)
    /\ LET path == PathOf(name)
           has  == [number |-> path, kind |-> Shown(path).kind]
       IN dentry' = IF ~Found(path) THEN Drop(dentry, name)
                    ELSE IF dentry[name] = has THEN dentry
                    ELSE Knows(name, path, has.kind)
    /\ UNCHANGED <<mode, host, store, content, ops, ref, astray>>

-----------------------------------------------------------------------------
(* The handlers that change something.                                     *)

\* What the kernel has for the name is something else than is there.
Stale(name) ==
    name # <<>> /\ dentry[name] # Nil /\ dentry[name].kind # Shown(name).kind

\* The name has a number that is another path's, or it or a directory above it
\* was looked up when it had: after a rename the number keeps the old path.
Misled(name, path) ==
    IF name # path \/ \E a \in Ancestors(name) : Stale(a) THEN Under(name) \cup Under(path)
    ELSE {}

Changes(name, path, s, what, lost) ==
    /\ ops < MaxOps /\ ops' = ops + 1
    /\ store' = s
    /\ ref' = what
    /\ astray' = astray \cup Misled(name, path) \cup lost
    /\ UNCHANGED <<mode, host>>

\* What an object that did not exist before starts with.
Written(path, s, chunks) == [content EXCEPT ![s.map[path].object] = @ \cup chunks]

\* create, with a first write to the handle.
Create(name) ==
    LET path == PathOf(name)
        s    == DeleteWhiteout(EnsureFileObject(store, path), path)
    IN /\ Reaches(name) /\ IsNew(name)
       /\ Changes(name, path, s, [ref EXCEPT ![name] = Regular({ops + 1})], {})
       /\ content' = Written(path, s, {ops + 1})
       /\ dentry' = Knows(name, path, "File")

\* open for writing, which may copy the host's file, and a write.
OpenWrite(name) ==
    LET path   == dentry[name].number
        answer == DecideOpen(mode, store.map[path], TRUE, TRUE, FALSE, HostHas(path))
        s      == DeleteWhiteout(IF answer.needs_ensure THEN EnsureFileObject(store, path)
                                 ELSE store, path)
    IN /\ Is(name, {"File"})
       /\ answer.do = "OpenObject"
       /\ Changes(name, path, s, [ref EXCEPT ![name].chunks = @ \cup {ops + 1}], {})
       /\ content' = Written(path, s, {ops + 1} \cup
                              IF answer.copy_up_from_real /\ host[path] = "File" THEN {0} ELSE {})
       /\ UNCHANGED dentry

\* mkdir and symlink.
Make(name, entry, what) ==
    LET path == PathOf(name)
        s    == DeleteWhiteout(Set(store, path, entry), path)
    IN /\ Reaches(name) /\ IsNew(name)
       /\ Changes(name, path, s, [ref EXCEPT ![name] = what], {})
       /\ dentry' = Knows(name, path, what.kind)
       /\ UNCHANGED content

\* unlink.  DeleteFile takes from the tree whatever it has below the path:
\* whiteouts of a directory that was there before.
Unlink(name) ==
    LET path == PathOf(name)
    IN /\ Reaches(name) /\ Is(name, {"File", "Symlink"})
       /\ Changes(name, path, PutWhiteout(DeleteFile(store, path), path),
                  [ref EXCEPT ![name] = Nothing], RealDescendants(path))
       /\ dentry' = Drop(dentry, name)
       /\ UNCHANGED content

\* Faulty: the host's files below are left.
RmdirShallow(name) ==
    LET path == PathOf(name)
    IN /\ Reaches(name) /\ Is(name, {"Dir"})
       /\ Changes(name, path, PutWhiteout(DeleteFile(store, path), path),
                  [n \in Paths |-> IF n \in Under(name) THEN Nothing ELSE ref[n]],
                  {n \in Inside(name) : ref[n] # Nothing /\ ~HostHas(n)})
       /\ dentry' = Drop(dentry, name)
       /\ UNCHANGED content

\* rmdir does not ask whether the directory is empty: what the host has below
\* is hidden, what only the daemon has keeps its entries.
Rmdir(name) ==
    LET path == PathOf(name)
    IN /\ Reaches(name) /\ Is(name, {"Dir"})
       /\ Changes(name, path,
                  PutWhiteouts(PutWhiteout(DeleteFile(store, path), path), RealDescendants(path)),
                  [n \in Paths |-> IF n \in Under(name) THEN Nothing ELSE ref[n]],
                  {n \in Inside(name) : ref[n] # Nothing /\ ~HostHas(n)})
       /\ dentry' = Drop(dentry, name)
       /\ UNCHANGED content

\* The kernel refuses to move a name into itself or above itself, a directory
\* over a file or a file over a directory; names of one number are one file.
MayMove(from, to) ==
    /\ Reaches(from) /\ dentry[from] # Nil
    /\ Reaches(to) /\ (dentry[to] = Nil => ~Found(PathOf(to)))
    /\ from \notin Ancestors(to) /\ to \notin Ancestors(from)
    /\ PathOf(from) \notin Ancestors(PathOf(to)) /\ PathOf(to) \notin Ancestors(PathOf(from))
    /\ \A old \in {dentry[to]} \ {Nil} :
          /\ old.number # dentry[from].number
          /\ (old.kind = "Dir") <=> (dentry[from].kind = "Dir")

\* A bound: every name and path has a place to go.
Fits(from, to) ==
    /\ \A p \in SubtreePaths(store.tree, PathOf(from)) :
          Moved(p, PathOf(from), PathOf(to)) \in Paths
    /\ \A n \in Under(from) :
          ref[n] # Nothing \/ dentry[n] # Nil => Moved(n, from, to) \in Paths

MovedTo(f, from, to, none) ==
    [n \in Paths |-> IF n \in Under(from) THEN none
                     ELSE IF n \notin Under(to) THEN f[n]
                     ELSE IF Moved(n, to, from) \in Paths THEN f[Moved(n, to, from)]
                     ELSE none]

\* decide_rename: without an entry the daemon finds no source, and the rename
\* fails.  Nothing is put over a host's file at the source, and nothing asked
\* of a directory at the destination.
Move(from, to) ==
    LET source == PathOf(from)
        target == PathOf(to)
        entry  == store.map[source]
        s      == DeleteWhiteout(IF entry.type = "Dir" THEN RenameTree(store, source, target)
                                 ELSE RenameFile(store, source, target), target)
        both   == Under(from) \cup Under(to)
        misled == Misled(from, source) \cup Misled(to, target)
    IN /\ MayMove(from, to) /\ Fits(from, to)
       /\ Exists(entry)
       /\ Changes(from, source, s, MovedTo(ref, from, to, Nothing),
                  misled \cup
                  {n \in Under(from) : HostHas(n)} \cup
                  (IF \E n \in Inside(to) : ref[n] # Nothing THEN Inside(to) ELSE {}) \cup
                  (IF both \cap (astray \cup misled) # {} THEN both ELSE {}))
       /\ dentry' = MovedTo(dentry, from, to, Nil)
       /\ UNCHANGED content

FsInit ==
    /\ mode \in Modes /\ host \in Hosts
    /\ store = [map |-> [p \in Paths |-> NoEntry], tree |-> EmptyTree, next |-> 1]
    /\ content = [id \in 1 .. MaxOps |-> {}]
    /\ dentry = [p \in Paths |-> Nil]
    /\ ops = 0
    /\ ref = [p \in Paths |-> IF mode = "CopyOnWrite" /\ host[p] # "None"
                              THEN IF host[p] = "File" THEN Regular({0}) ELSE Directory
                              ELSE Nothing]
    /\ astray = {}

FsNext ==
    \/ \E n \in Paths : \/ Lookup(n) \/ Create(n) \/ OpenWrite(n) \/ Unlink(n) \/ Rmdir(n)
                        \/ Make(n, Dir, Directory) \/ Make(n, Symlink, Link)
    \/ \E from, to \in Paths : Move(from, to)

FsSpec == FsInit /\ [][FsNext]_fs_vars
-----------------------------------------------------------------------------
(* Properties.                                                             *)

\* A user sees under every name what a file system would have there: files
\* that he removed stay away, whatever the host has, and files that he moved
\* arrive with what they hold (fs.rs:111-122, 432-545; executor.rs:163-182;
\* server.rs:429-442, 514-529).
ShowsFiles == \A n \in Paths \ astray : Shown(n) = ref[n]

\* readdir lists the names that lookup finds: the daemon's path tree has every
\* name that its map and the host do not settle alone (fs.rs:1038-1101).
ListedIsFound == \A n \in Paths \ astray : n \in Listing(Parent(n)) <=> Found(n)
=============================================================================
