------------------------------- MODULE Inodes -------------------------------
(***************************************************************************)
(* The inode table of one FUSE process, used by all its worker threads     *)
(* without a lock: two concurrent maps and an atomic counter.              *)
(*                                                                         *)
(*   src/fuse/inode.rs  get_or_insert, get_path                            *)
(*   src/fuse/inner.rs  the calls of stat_path                             *)
(*   src/fuse/fs.rs     how a handler gets its path from a number, and     *)
(*                      which paths it asks numbers for                    *)
(*                                                                         *)
(* Each operation on a map or on the counter is one action.  Whether a     *)
(* path exists is left open: the table does not know.  Rename leaves the   *)
(* table alone (fs.rs:519-544) and has no action here.                     *)
(***************************************************************************)
EXTENDS Naturals, Sequences, FiniteSets

CONSTANTS
    Threads,   \* the FUSE worker threads
    Names,     \* the names of directory entries
    MaxDepth,  \* bound on the length of a path
    MaxIno     \* bound on the inode numbers handed out

ASSUME ThreadsAssumption == IsFiniteSet(Threads) /\ Threads # {}
ASSUME BoundsAssumption == MaxDepth \in Nat /\ MaxIno \in Nat \ {0}

VARIABLES
    ino_to_path,  \* DashMap<u64, PathBuf>
    path_to_ino,  \* DashMap<PathBuf, u64>
    next_ino,     \* AtomicU64
    pc,           \* where each thread is in get_or_insert
    reply,        \* what its handler will reply
    todo,         \* the paths its handler still wants a number for
    ino,          \* the number it got last, 0 for none
    known         \* the numbers the kernel has been told

table == <<ino_to_path, path_to_ino, next_ino>>
vars  == <<table, pc, reply, todo, ino, known>>

\* An absolute path is the sequence of its components.
Root  == <<>>
Paths == UNION {[1 .. d -> Names] : d \in 0 .. MaxDepth}

Parent(p) == SubSeq(p, 1, Len(p) - 1)

\* DashMap::insert.
Insert(f, k, v) == [x \in DOMAIN f \cup {k} |-> IF x = k THEN v ELSE f[x]]

States  == {"away", "asking", "minting", "minted", "stored", "answered"}

\* An entry tells the kernel a number, and so does that of a new directory;
\* attributes and listings do not make the kernel use theirs.
Replies == {"entry", "newDir", "attr", "list"}

\* Faulty: number 1 is not reserved for the root.
InitFromOne ==
    /\ ino_to_path = [n \in {1} |-> Root]
    /\ path_to_ino = [p \in {Root} |-> 1]
    /\ next_ino = 1
    /\ pc = [t \in Threads |-> "away"]
    /\ reply = [t \in Threads |-> "attr"]
    /\ todo = [t \in Threads |-> <<>>]
    /\ ino = [t \in Threads |-> 0]
    /\ known = {1}

\* InodeTable::new.
Init ==
    /\ ino_to_path = [n \in {1} |-> Root]
    /\ path_to_ino = [p \in {Root} |-> 1]
    /\ next_ino = 2
    /\ pc = [t \in Threads |-> "away"]
    /\ reply = [t \in Threads |-> "attr"]
    /\ todo = [t \in Threads |-> <<>>]
    /\ ino = [t \in Threads |-> 0]
    /\ known = {1}

-----------------------------------------------------------------------------
(* The handlers.  The kernel names a directory by a number it was told.    *)

\* A handler that has its paths starts to ask for their numbers.
Ask(t, what, paths) ==
    /\ pc[t] = "away"
    /\ pc' = [pc EXCEPT ![t] = "asking"]
    /\ reply' = [reply EXCEPT ![t] = what]
    /\ todo' = [todo EXCEPT ![t] = paths]
    /\ UNCHANGED <<table, ino, known>>

\* get_path!: the numbers that resolve, and the path of an entry below one.
Resolved    == known \cap DOMAIN ino_to_path
Child(n, c) == Append(ino_to_path[n], c)

\* lookup, symlink, and create: one number is asked for, by stat_path or, if
\* that fails in create, by create itself.
Lookup(t) ==
    \E n \in Resolved, c \in Names :
        Child(n, c) \in Paths /\ Ask(t, "entry", <<Child(n, c)>>)

\* Faulty: ".." is pushed like any name.
LookupParentPushes(t) ==
    \E n \in Resolved : Ask(t, "entry", <<Append(ino_to_path[n], "..")>>)

\* lookup of "..": PathBuf::pop, which leaves the root alone.
LookupParent(t) ==
    \E n \in Resolved : Ask(t, "entry", <<Parent(ino_to_path[n])>>)

\* mkdir asks itself, then stat_path asks again.
Mkdir(t) ==
    \E n \in Resolved, c \in Names :
        Child(n, c) \in Paths /\ Ask(t, "newDir", <<Child(n, c), Child(n, c)>>)

\* getattr and setattr: the number in the attributes is asked for anew.
Getattr(t) ==
    \E n \in Resolved : Ask(t, "attr", <<ino_to_path[n]>>)

\* readdir asks for the parent, then for each visible child (one here).
Readdir(t) ==
    \E n \in Resolved, c \in Names :
        Child(n, c) \in Paths
        /\ Ask(t, "list", <<Parent(ino_to_path[n]), Child(n, c)>>)

\* The handler of t replies; number is what an entry in the reply says.
Reply(t, tells, number) ==
    /\ known' = IF tells THEN known \cup {number} ELSE known
    /\ pc' = [pc EXCEPT ![t] = "away"]
    /\ todo' = [todo EXCEPT ![t] = <<>>]
    /\ ino' = [ino EXCEPT ![t] = 0]
    /\ UNCHANGED <<table, reply>>

\* stat_path finds no such path and asks for no number.  The reply is an
\* error, but mkdir falls back on the number it has asked for itself.
NotFound(t) ==
    /\ pc[t] = "asking" /\ Len(todo[t]) = 1 /\ reply[t] # "list"
    /\ Reply(t, reply[t] = "newDir", ino[t])

\* get_or_insert returns to a handler that wants another number.
ReturnToAsk(t) ==
    /\ pc[t] = "answered" /\ Len(todo[t]) > 1
    /\ pc' = [pc EXCEPT ![t] = "asking"]
    /\ todo' = [todo EXCEPT ![t] = Tail(@)]
    /\ UNCHANGED <<table, reply, ino, known>>

\* get_or_insert returns the last number its handler wants.
Return(t) ==
    /\ pc[t] = "answered" /\ Len(todo[t]) = 1
    /\ Reply(t, reply[t] \in {"entry", "newDir"}, ino[t])

-----------------------------------------------------------------------------
(* get_or_insert.                                                          *)

\* path_to_ino.get: the number is known, or the thread will make one.
ProbeHit(t) ==
    /\ pc[t] = "asking" /\ Head(todo[t]) \in DOMAIN path_to_ino
    /\ ino' = [ino EXCEPT ![t] = path_to_ino[Head(todo[t])]]
    /\ pc' = [pc EXCEPT ![t] = "answered"]
    /\ UNCHANGED <<table, reply, todo, known>>

ProbeMiss(t) ==
    /\ pc[t] = "asking" /\ Head(todo[t]) \notin DOMAIN path_to_ino
    /\ pc' = [pc EXCEPT ![t] = "minting"]
    /\ UNCHANGED <<table, reply, todo, ino, known>>

\* Faulty: the number is the size of the table plus one, and no counter.
MintBySize(t) ==
    /\ pc[t] = "minting" /\ next_ino <= MaxIno
    /\ ino' = [ino EXCEPT ![t] = Cardinality(DOMAIN ino_to_path) + 1]
    /\ next_ino' = next_ino + 1
    /\ pc' = [pc EXCEPT ![t] = "minted"]
    /\ UNCHANGED <<ino_to_path, path_to_ino, reply, todo, known>>

\* next_ino.fetch_add.
Mint(t) ==
    /\ pc[t] = "minting" /\ next_ino <= MaxIno
    /\ ino' = [ino EXCEPT ![t] = next_ino]
    /\ next_ino' = next_ino + 1
    /\ pc' = [pc EXCEPT ![t] = "minted"]
    /\ UNCHANGED <<ino_to_path, path_to_ino, reply, todo, known>>

\* Faulty: path_to_ino is filled first, so that another thread may tell the
\* kernel a number get_path does not know yet.
StoreSwapped(t) ==
    /\ \/ /\ pc[t] = "minted"
          /\ path_to_ino' = Insert(path_to_ino, Head(todo[t]), ino[t])
          /\ pc' = [pc EXCEPT ![t] = "stored"]
          /\ UNCHANGED ino_to_path
       \/ /\ pc[t] = "stored"
          /\ ino_to_path' = Insert(ino_to_path, ino[t], Head(todo[t]))
          /\ pc' = [pc EXCEPT ![t] = "answered"]
          /\ UNCHANGED path_to_ino
    /\ UNCHANGED <<next_ino, reply, todo, ino, known>>

\* Faulty: only a number the kernel is told is put under its path.
StoreEntriesOnly(t) ==
    /\ \/ /\ pc[t] = "minted"
          /\ ino_to_path' = Insert(ino_to_path, ino[t], Head(todo[t]))
          /\ pc' = [pc EXCEPT ![t] = "stored"]
          /\ UNCHANGED path_to_ino
       \/ /\ pc[t] = "stored"
          /\ path_to_ino' = IF reply[t] = "list" THEN path_to_ino
                            ELSE Insert(path_to_ino, Head(todo[t]), ino[t])
          /\ pc' = [pc EXCEPT ![t] = "answered"]
          /\ UNCHANGED ino_to_path
    /\ UNCHANGED <<next_ino, reply, todo, ino, known>>

\* The two inserts, in this order.
Store(t) ==
    /\ \/ /\ pc[t] = "minted"
          /\ ino_to_path' = Insert(ino_to_path, ino[t], Head(todo[t]))
          /\ pc' = [pc EXCEPT ![t] = "stored"]
          /\ UNCHANGED path_to_ino
       \/ /\ pc[t] = "stored"
          /\ path_to_ino' = Insert(path_to_ino, Head(todo[t]), ino[t])
          /\ pc' = [pc EXCEPT ![t] = "answered"]
          /\ UNCHANGED ino_to_path
    /\ UNCHANGED <<next_ino, reply, todo, ino, known>>

Handle(t) == Lookup(t) \/ LookupParent(t) \/ Mkdir(t) \/ Getattr(t) \/ Readdir(t)

get_or_insert(t) == ProbeHit(t) \/ ProbeMiss(t) \/ Mint(t) \/ Store(t)

Next == \E t \in Threads :
            Handle(t) \/ NotFound(t) \/ get_or_insert(t) \/ ReturnToAsk(t) \/ Return(t)

Spec == Init /\ [][Next]_vars

-----------------------------------------------------------------------------
PartialMap(f, K, V) == DOMAIN f \subseteq K /\ f \in [DOMAIN f -> V]

TypeOK ==
    /\ PartialMap(ino_to_path, Nat, Paths)
    /\ PartialMap(path_to_ino, Paths, Nat)
    /\ next_ino \in Nat
    /\ pc \in [Threads -> States] /\ reply \in [Threads -> Replies]
    /\ todo \in [Threads -> Seq(Paths)]
    /\ ino \in [Threads -> Nat]
    /\ known \subseteq Nat

\* A number the kernel was told leads back to a path, also when the thread
\* that told it got it from an insertion another thread has not finished
\* (inode.rs:33-43: ino_to_path is filled before path_to_ino).
KnownResolve == known \subseteq DOMAIN ino_to_path

\* What get_or_insert returns is a number of the path it was asked for, never
\* one that a second thread has drawn for another path (inode.rs:38-42).
AnswersMatch ==
    \A t \in Threads : pc[t] = "answered" =>
        /\ ino[t] \in DOMAIN ino_to_path
        /\ ino_to_path[ino[t]] = Head(todo[t])

\* A number keeps its path for ever, so a request the kernel sends later means
\* the path it meant when the number was told (inode.rs:48-51).
NumbersKeepPaths ==
    [][\A n \in DOMAIN ino_to_path :
          n \in DOMAIN ino_to_path' /\ ino_to_path'[n] = ino_to_path[n]]_vars

\* "The same path always yields the same ino" (plan/modules/fuse/inode.md:16)
\* holds but for threads that miss a path together: a path gets at most one
\* number from each thread, however often it is looked up or listed
\* (inode.rs:34-36).
NumbersOf(p) == {n \in DOMAIN ino_to_path : ino_to_path[n] = p}
OneNumberPerThread ==
    \A p \in Paths : Cardinality(NumbersOf(p)) <= Cardinality(Threads)
=============================================================================
