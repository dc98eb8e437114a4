---------------------------- MODULE InodesProofs ----------------------------
(***************************************************************************)
(* The inode table for any number of threads, names and inode numbers.     *)
(* First the types, where the paths need an argument; then an invariant    *)
(* that follows a number from the counter through the two maps; then the   *)
(* numbers of one path are counted against the threads that may still      *)
(* make one.                                                               *)
(***************************************************************************)
EXTENDS Inodes, SequenceTheorems, FiniteSetTheorems, TLAPS

\* A path is a sequence of names that is not too long.
LEMMA PathIsSeq == \A p : p \in Paths <=> p \in Seq(Names) /\ Len(p) <= MaxDepth
<1>1. ASSUME NEW p \in Paths PROVE p \in Seq(Names) /\ Len(p) <= MaxDepth
  <2>1. PICK d \in 0 .. MaxDepth : p \in [1 .. d -> Names]
    BY DEF Paths
  <2>2. p \in Seq(Names)
    BY <2>1, SeqDef, BoundsAssumption
  <2>3. 1 .. Len(p) = 1 .. d /\ Len(p) \in Nat
    BY <2>1, <2>2, LenProperties
  <2> QED
    BY <2>1, <2>2, <2>3, BoundsAssumption
<1>2. ASSUME NEW p \in Seq(Names), Len(p) <= MaxDepth PROVE p \in Paths
  <2>1. Len(p) \in 0 .. MaxDepth /\ p \in [1 .. Len(p) -> Names]
    BY <1>2, LenProperties, BoundsAssumption
  <2> QED
    BY <2>1 DEF Paths
<1> QED
  BY <1>1, <1>2

LEMMA RootIsPath == Root \in Paths
<1>1. Root \in Seq(Names) /\ Len(Root) = 0
  BY EmptySeq DEF Root
<1>2. Len(Root) <= MaxDepth
  BY <1>1, BoundsAssumption
<1> QED
  BY <1>1, <1>2, PathIsSeq, Zenon

\* PathBuf::pop yields a path, for the root too.
LEMMA ParentIsPath == \A p \in Paths : Parent(p) \in Paths
<1> TAKE p \in Paths
<1>1. p \in Seq(Names) /\ Len(p) <= MaxDepth /\ Len(p) \in Nat
  BY PathIsSeq, LenProperties
<1>2. \A i \in 1 .. Len(p) - 1 : p[i] \in Names
  BY <1>1, ElementOfSeq
<1>3. Parent(p) \in Seq(Names)
  BY <1>1, <1>2, SubSeqProperties DEF Parent
<1>4. Len(Parent(p)) <= MaxDepth
  BY <1>1, <1>2, SubSeqProperties, BoundsAssumption DEF Parent
<1> QED
  BY <1>3, <1>4, PathIsSeq

\* An insertion keeps the types of a map.
LEMMA InsertTyped ==
    \A f, k, v, K, V : PartialMap(f, K, V) /\ k \in K /\ v \in V =>
        PartialMap(Insert(f, k, v), K, V)
BY DEF Insert, PartialMap

-----------------------------------------------------------------------------
\* A handler asks for one or two paths; only mkdir and readdir for two.
LEMMA HandleAsks ==
    ASSUME TypeOK, NEW t \in Threads, Handle(t)
    PROVE  \E what \in Replies, paths \in Seq(Paths) :
               /\ Ask(t, what, paths)
               /\ Len(paths) \in {1, 2}
               /\ what = "newDir" => Len(paths) = 2
<1>1. \A p, q \in Paths : /\ <<p>> \in Seq(Paths) /\ Len(<<p>>) = 1
                          /\ <<p, q>> \in Seq(Paths) /\ Len(<<p, q>>) = 2
  OBVIOUS
<1>2. \A n \in Resolved : ino_to_path[n] \in Paths /\ Parent(ino_to_path[n]) \in Paths
  BY ParentIsPath DEF TypeOK, PartialMap, Resolved
<1>3. Replies = {"entry", "newDir", "attr", "list"}
  BY DEF Replies
<1>4. CASE Lookup(t)
  BY <1>1, <1>3, <1>4 DEF Lookup
<1>5. CASE LookupParent(t)
  BY <1>1, <1>2, <1>3, <1>5 DEF LookupParent
<1>6. CASE Mkdir(t)
  BY <1>1, <1>3, <1>6 DEF Mkdir
<1>7. CASE Getattr(t)
  BY <1>1, <1>2, <1>3, <1>7 DEF Getattr
<1>8. CASE Readdir(t)
  BY <1>1, <1>2, <1>3, <1>8 DEF Readdir
<1> QED
  BY <1>4, <1>5, <1>6, <1>7, <1>8 DEF Handle

\* A thread inside get_or_insert, or about to call it, has a path to ask for.
Busy == \A t \in Threads : pc[t] # "away" => todo[t] # <<>>

LEMMA HeadIsPath ==
    ASSUME TypeOK, Busy, NEW t \in Threads, pc[t] # "away"
    PROVE  /\ Head(todo[t]) \in Paths
           /\ Tail(todo[t]) \in Seq(Paths)
           /\ Len(todo[t]) \in Nat
           /\ Len(Tail(todo[t])) = Len(todo[t]) - 1
BY HeadTailProperties, LenProperties DEF TypeOK, Busy

LEMMA TypeInit == Init => TypeOK /\ Busy
<1> SUFFICES ASSUME Init PROVE TypeOK /\ Busy
  OBVIOUS
<1>1. PartialMap(ino_to_path, Nat, Paths) /\ PartialMap(path_to_ino, Paths, Nat)
  BY RootIsPath DEF Init, PartialMap
<1>2. <<>> \in Seq(Paths)
  BY EmptySeq
<1> QED
  BY <1>1, <1>2 DEF Init, TypeOK, Busy, States, Replies

LEMMA TypeNext == TypeOK /\ Busy /\ [Next]_vars => TypeOK' /\ Busy'
<1> SUFFICES ASSUME TypeOK, Busy, [Next]_vars PROVE TypeOK' /\ Busy'
  OBVIOUS
<1>0. <<>> \in Seq(Paths)
  BY EmptySeq
<1>1. ASSUME NEW t \in Threads, Handle(t) PROVE TypeOK' /\ Busy'
  <2>1. PICK what \in Replies, paths \in Seq(Paths) :
            Ask(t, what, paths) /\ Len(paths) \in {1, 2}
    BY <1>1, HandleAsks
  <2>2. paths # <<>>
    BY <2>1, EmptySeq
  <2> QED
    BY <2>1, <2>2 DEF Ask, table, TypeOK, Busy, States
<1>2. ASSUME NEW t \in Threads, NotFound(t) PROVE TypeOK' /\ Busy'
  BY <1>0, <1>2 DEF NotFound, Reply, table, TypeOK, Busy, States
<1>3. ASSUME NEW t \in Threads, Return(t) PROVE TypeOK' /\ Busy'
  BY <1>0, <1>3 DEF Return, Reply, table, TypeOK, Busy, States
<1>4. ASSUME NEW t \in Threads, ReturnToAsk(t) PROVE TypeOK' /\ Busy'
  <2>1. pc[t] = "answered" /\ Len(todo[t]) > 1
    BY <1>4 DEF ReturnToAsk
  <2>2. Tail(todo[t]) \in Seq(Paths) /\ Len(Tail(todo[t])) # 0
    <3> DEFINE n == Len(todo[t])
               m == Len(Tail(todo[t]))
    <3>1. Tail(todo[t]) \in Seq(Paths) /\ n \in Nat /\ m = n - 1 /\ n > 1
      BY <2>1, HeadIsPath
    <3> HIDE DEF n, m
    <3>2. m # 0
      BY <3>1
    <3> QED
      BY <3>1, <3>2 DEF m
  <2>3. Tail(todo[t]) # <<>>
    <3>1. Len(<<>>) = 0
      OBVIOUS
    <3> QED
      BY <2>2, <3>1, Zenon
  <2> QED
    BY <1>4, <2>2, <2>3 DEF ReturnToAsk, table, TypeOK, Busy, States
<1>5. ASSUME NEW t \in Threads, ProbeHit(t) PROVE TypeOK' /\ Busy'
  <2>1. path_to_ino[Head(todo[t])] \in Nat
    BY <1>5 DEF ProbeHit, TypeOK, PartialMap
  <2> QED
    BY <1>5, <2>1 DEF ProbeHit, table, TypeOK, Busy, States
<1>6. ASSUME NEW t \in Threads, ProbeMiss(t) PROVE TypeOK' /\ Busy'
  BY <1>6 DEF ProbeMiss, table, TypeOK, Busy, States
<1>7. ASSUME NEW t \in Threads, Mint(t) PROVE TypeOK' /\ Busy'
  BY <1>7 DEF Mint, TypeOK, Busy, States
<1>8. ASSUME NEW t \in Threads, Store(t) PROVE TypeOK' /\ Busy'
  <2>1. Head(todo[t]) \in Paths /\ ino[t] \in Nat
    BY <1>8, HeadIsPath DEF Store, TypeOK
  <2>2. /\ PartialMap(Insert(ino_to_path, ino[t], Head(todo[t])), Nat, Paths)
        /\ PartialMap(Insert(path_to_ino, Head(todo[t]), ino[t]), Paths, Nat)
    BY <2>1, InsertTyped DEF TypeOK
  <2> QED
    BY <1>8, <2>2 DEF Store, TypeOK, Busy, States
<1>9. UNCHANGED vars => TypeOK' /\ Busy'
  BY DEF vars, table, TypeOK, Busy
<1> QED
  BY <1>1, <1>2, <1>3, <1>4, <1>5, <1>6, <1>7, <1>8, <1>9 DEF Next, get_or_insert

\* The types hold, and paths stay paths, for every way to walk the tree
\* (fs.rs:212-241, inode.rs:34-43).
THEOREM TypeCorrect == Spec => []TypeOK
<1>1. Spec => [](TypeOK /\ Busy)
  BY TypeInit, TypeNext, PTL DEF Spec
<1> QED
  BY <1>1, PTL

-----------------------------------------------------------------------------
(* A number on its way from the counter through the two maps.              *)

\* Numbers in use are below the counter, and each of them leads to a path;
\* a number found under a path leads back to it.
Consistent ==
    /\ \A n \in DOMAIN ino_to_path : n < next_ino
    /\ \A p \in DOMAIN path_to_ino :
           path_to_ino[p] \in DOMAIN ino_to_path /\ ino_to_path[path_to_ino[p]] = p

\* A number just drawn belongs to one thread and is in no map.
Fresh ==
    \A t \in Threads : pc[t] = "minted" =>
        /\ ino[t] < next_ino /\ ino[t] \notin DOMAIN ino_to_path
        /\ \A s \in Threads \ {t} : pc[s] = "minted" => ino[s] # ino[t]

\* A number past the first insertion leads to the path asked for.
Leads ==
    \A t \in Threads : pc[t] \in {"stored", "answered"} =>
        ino[t] \in DOMAIN ino_to_path /\ ino_to_path[ino[t]] = Head(todo[t])

\* mkdir keeps the number it asked for while stat_path asks again.
Fallback ==
    \A t \in Threads : pc[t] = "asking" /\ reply[t] = "newDir" /\ Len(todo[t]) = 1 =>
        ino[t] \in DOMAIN ino_to_path

TableInv == TypeOK /\ Busy /\ Consistent /\ Fresh /\ Leads /\ Fallback /\ KnownResolve

LEMMA TableInit == Init => TableInv
<1> SUFFICES ASSUME Init PROVE TableInv
  OBVIOUS
<1>1. Consistent
  BY DEF Init, Consistent
<1>2. Fresh /\ Leads /\ Fallback /\ KnownResolve
  BY DEF Init, Fresh, Leads, Fallback, KnownResolve
<1> QED
  BY <1>1, <1>2, TypeInit DEF TableInv

\* The insertion of a fresh number keeps what is in the first map.
LEMMA FirstInsert ==
    ASSUME TableInv, NEW t \in Threads, pc[t] = "minted",
           ino_to_path' = Insert(ino_to_path, ino[t], Head(todo[t]))
    PROVE  /\ DOMAIN ino_to_path' = DOMAIN ino_to_path \cup {ino[t]}
           /\ ino_to_path'[ino[t]] = Head(todo[t])
           /\ \A n \in DOMAIN ino_to_path : ino_to_path'[n] = ino_to_path[n]
<1>1. ino[t] \notin DOMAIN ino_to_path
  BY DEF TableInv, Fresh
<1> QED
  BY <1>1 DEF Insert

LEMMA TableNext == TableInv /\ [Next]_vars => TableInv'
<1> SUFFICES ASSUME TableInv, [Next]_vars PROVE TableInv'
  OBVIOUS
<1>0. TypeOK' /\ Busy'
  BY TypeNext DEF TableInv
<1> DEFINE Rest == Consistent /\ Fresh /\ Leads /\ Fallback /\ KnownResolve
<1> USE DEF TableInv, TypeOK
<1>1. ASSUME NEW t \in Threads, Handle(t) PROVE Rest'
  <2>1. PICK what \in Replies, paths \in Seq(Paths) :
            Ask(t, what, paths) /\ (what = "newDir" => Len(paths) = 2)
    BY <1>1, HandleAsks
  <2>2. Consistent' /\ Fresh' /\ KnownResolve'
    BY <2>1 DEF Ask, table, Consistent, Fresh, KnownResolve
  <2>3. Leads'
    BY <2>1 DEF Ask, table, Leads
  <2>4. /\ todo'[t] = paths /\ reply'[t] = what /\ UNCHANGED <<ino_to_path, ino>>
        /\ \A s \in Threads \ {t} :
              todo'[s] = todo[s] /\ reply'[s] = reply[s] /\ pc'[s] = pc[s]
    BY <2>1 DEF Ask, table
  <2>5. ASSUME NEW s \in Threads, (pc[s] = "asking" /\ reply[s] = "newDir" /\ Len(todo[s]) = 1)'
        PROVE  (ino[s] \in DOMAIN ino_to_path)'
    <3> DEFINE n == Len(paths)
    <3>1. what = "newDir" => n = 2
      BY <2>1
    <3> HIDE DEF n
    <3>2. what = "newDir" => n # 1
      BY <3>1
    <3>3. what = "newDir" => Len(paths) # 1
      BY <3>2 DEF n
    <3>4. s # t
      BY <2>4, <2>5, <3>3, Zenon
    <3> QED
      BY <2>4, <2>5, <3>4 DEF Fallback
  <2>6. Fallback'
    BY <2>5, Zenon DEF Fallback
  <2> QED
    BY <2>2, <2>3, <2>6
<1>2. ASSUME NEW t \in Threads, NotFound(t) PROVE Rest'
  <2>1. /\ pc' = [pc EXCEPT ![t] = "away"]
        /\ \A s \in Threads \ {t} : todo'[s] = todo[s] /\ ino'[s] = ino[s]
        /\ UNCHANGED <<ino_to_path, path_to_ino, next_ino, reply>>
    BY <1>2 DEF NotFound, Reply, table
  <2>2. Consistent' /\ Fresh' /\ Leads'
    BY <2>1 DEF Consistent, Fresh, Leads
  <2>3. Fallback'
    BY <2>1 DEF Fallback
  <2>4. KnownResolve'
    BY <1>2, <2>1 DEF NotFound, Reply, Fallback, Leads, KnownResolve
  <2> QED
    BY <2>2, <2>3, <2>4
<1>3. ASSUME NEW t \in Threads, Return(t) PROVE Rest'
  <2>1. /\ pc' = [pc EXCEPT ![t] = "away"]
        /\ \A s \in Threads \ {t} : todo'[s] = todo[s] /\ ino'[s] = ino[s]
        /\ UNCHANGED <<ino_to_path, path_to_ino, next_ino, reply>>
    BY <1>3 DEF Return, Reply, table
  <2>2. Consistent' /\ Fresh' /\ Leads'
    BY <2>1 DEF Consistent, Fresh, Leads
  <2>3. Fallback'
    BY <2>1 DEF Fallback
  <2>4. KnownResolve'
    BY <1>3, <2>1 DEF Return, Reply, Fallback, Leads, KnownResolve
  <2> QED
    BY <2>2, <2>3, <2>4
<1>4. ASSUME NEW t \in Threads, ReturnToAsk(t) PROVE Rest'
  BY <1>4 DEF ReturnToAsk, table, Consistent, Fresh, Leads, Fallback, KnownResolve
<1>5. ASSUME NEW t \in Threads, ProbeHit(t) PROVE Rest'
  BY <1>5 DEF ProbeHit, table, Consistent, Fresh, Leads, Fallback, KnownResolve
<1>6. ASSUME NEW t \in Threads, ProbeMiss(t) PROVE Rest'
  BY <1>6 DEF ProbeMiss, table, Consistent, Fresh, Leads, Fallback, KnownResolve
<1>7. ASSUME NEW t \in Threads, Mint(t) PROVE Rest'
  <2>1. Consistent' /\ KnownResolve' /\ Leads' /\ Fallback'
    BY <1>7 DEF Mint, PartialMap, Consistent, Leads, Fallback, KnownResolve
  <2>2. Fresh'
    BY <1>7 DEF Mint, PartialMap, Consistent, Fresh
  <2> QED
    BY <2>1, <2>2
<1>8. ASSUME NEW t \in Threads, Store(t), pc[t] = "minted" PROVE Rest'
  <2>1. /\ ino_to_path' = Insert(ino_to_path, ino[t], Head(todo[t]))
        /\ pc' = [pc EXCEPT ![t] = "stored"]
        /\ UNCHANGED <<path_to_ino, next_ino, reply, todo, ino, known>>
    BY <1>8 DEF Store
  <2>2. /\ DOMAIN ino_to_path' = DOMAIN ino_to_path \cup {ino[t]}
        /\ ino_to_path'[ino[t]] = Head(todo[t])
        /\ \A n \in DOMAIN ino_to_path : ino_to_path'[n] = ino_to_path[n]
    BY <1>8, <2>1, FirstInsert
  <2>3. Consistent'
    BY <1>8, <2>1, <2>2 DEF Consistent, Fresh
  <2>4. Fresh'
    BY <1>8, <2>1, <2>2 DEF Fresh
  <2>5. Leads'
    BY <2>1, <2>2 DEF Leads
  <2>6. Fallback' /\ KnownResolve'
    BY <2>1, <2>2 DEF Fallback, KnownResolve
  <2> QED
    BY <2>3, <2>4, <2>5, <2>6
<1>9. ASSUME NEW t \in Threads, Store(t), pc[t] = "stored" PROVE Rest'
  <2>1. /\ path_to_ino' = Insert(path_to_ino, Head(todo[t]), ino[t])
        /\ pc' = [pc EXCEPT ![t] = "answered"]
        /\ UNCHANGED <<ino_to_path, next_ino, reply, todo, ino, known>>
    BY <1>9 DEF Store
  <2>2. /\ DOMAIN path_to_ino' = DOMAIN path_to_ino \cup {Head(todo[t])}
        /\ path_to_ino'[Head(todo[t])] = ino[t]
        /\ \A p \in DOMAIN path_to_ino \ {Head(todo[t])} : path_to_ino'[p] = path_to_ino[p]
    BY <2>1 DEF Insert
  <2>3. Consistent'
    <3>1. ino[t] \in DOMAIN ino_to_path /\ ino_to_path[ino[t]] = Head(todo[t])
      BY <1>9 DEF Leads
    <3>2. ASSUME NEW p \in DOMAIN path_to_ino'
          PROVE  /\ path_to_ino'[p] \in DOMAIN ino_to_path
                 /\ ino_to_path[path_to_ino'[p]] = p
      BY <2>2, <3>1, <3>2, Zenon DEF Consistent
    <3> QED
      BY <2>1, <3>2 DEF Consistent
  <2>4. Fresh' /\ Leads' /\ Fallback' /\ KnownResolve'
    BY <1>9, <2>1 DEF Fresh, Leads, Fallback, KnownResolve
  <2> QED
    BY <2>3, <2>4
<1>10. UNCHANGED vars => Rest'
  BY DEF vars, table, Consistent, Fresh, Leads, Fallback, KnownResolve
<1>11. \A t \in Threads : Store(t) => pc[t] \in {"minted", "stored"}
  BY DEF Store
<1> QED
  BY <1>0, <1>1, <1>2, <1>3, <1>4, <1>5, <1>6, <1>7, <1>8, <1>9, <1>10, <1>11
     DEF Next, get_or_insert

THEOREM TableInvariant == Spec => []TableInv
BY TableInit, TableNext, PTL DEF Spec

\* The kernel is never told a number that get_path does not know
\* (inode.rs:33-49).
THEOREM KnownAlwaysResolve == Spec => []KnownResolve
<1>1. TableInv => KnownResolve
  BY DEF TableInv
<1> QED
  BY <1>1, TableInvariant, PTL

\* What get_or_insert returns leads to the path it was asked for
\* (inode.rs:34-43).
THEOREM AnswersAlwaysMatch == Spec => []AnswersMatch
<1>1. TableInv => AnswersMatch
  BY DEF TableInv, Leads, AnswersMatch
<1> QED
  BY <1>1, TableInvariant, PTL

\* No insertion ever overwrites a number (inode.rs:39-40).
THEOREM PathsKept == Spec => NumbersKeepPaths
<1> DEFINE Keep == \A n \in DOMAIN ino_to_path :
                      n \in DOMAIN ino_to_path' /\ ino_to_path'[n] = ino_to_path[n]
<1>1. ASSUME TableInv, NEW t \in Threads, Store(t) PROVE Keep
  <2>1. CASE pc[t] = "minted"
    <3>1. ino_to_path' = Insert(ino_to_path, ino[t], Head(todo[t]))
      BY <1>1, <2>1 DEF Store
    <3> QED
      BY <1>1, <2>1, <3>1, FirstInsert
  <2>2. CASE pc[t] # "minted"
    BY <1>1, <2>2 DEF Store
  <2> QED
    BY <2>1, <2>2
<1>2. ASSUME NEW t \in Threads, \/ Handle(t) \/ NotFound(t) \/ ReturnToAsk(t) \/ Return(t)
                                \/ ProbeHit(t) \/ ProbeMiss(t) \/ Mint(t)
      PROVE  Keep
  BY <1>2 DEF Handle, Lookup, LookupParent, Mkdir, Getattr, Readdir, Ask, NotFound, Reply,
              ReturnToAsk, Return, ProbeHit, ProbeMiss, Mint, table
<1>3. TableInv /\ [Next]_vars => [Keep]_vars
  BY <1>1, <1>2 DEF Next, get_or_insert
<1> QED
  BY <1>3, TableInvariant, PTL DEF Spec, NumbersKeepPaths

-----------------------------------------------------------------------------
(* How many numbers a path gets.                                           *)

\* The threads that will make a number for p, and those that have made one
\* and not yet put it under p.
Pending(p) == {t \in Threads : pc[t] \in {"minting", "minted"} /\ Head(todo[t]) = p}
Storing(p) == {t \in Threads : pc[t] = "stored" /\ Head(todo[t]) = p}

Spare(p) ==
    /\ IsFiniteSet(NumbersOf(p))
    /\ Cardinality(NumbersOf(p)) + Cardinality(Pending(p)) <= Cardinality(Threads)
    /\ p \notin DOMAIN path_to_ino =>
           \A n \in NumbersOf(p) : \E t \in Storing(p) : ino[t] = n

SpareInv == \A p \in Paths : Spare(p)

LEMMA ThreadSets ==
    ASSUME NEW S, S \subseteq Threads
    PROVE  IsFiniteSet(S) /\ Cardinality(S) \in Nat /\ Cardinality(S) <= Cardinality(Threads)
BY ThreadsAssumption, FS_Subset, FS_CardinalityType

\* While p has no number in the second map, its numbers are those of the
\* threads at the second insertion, so all threads outside may be spared.
LEMMA NumbersFewerThanStoring ==
    ASSUME NEW p \in Paths, Spare(p), p \notin DOMAIN path_to_ino
    PROVE  Cardinality(NumbersOf(p)) <= Cardinality(Storing(p))
<1> DEFINE f == [t \in Storing(p) |-> ino[t]]
           Made == {ino[t] : t \in Storing(p)}
<1>1. IsFiniteSet(Storing(p)) /\ Cardinality(Storing(p)) \in Nat
  BY ThreadSets DEF Storing
<1>2. f \in Surjection(Storing(p), Made)
  BY DEF Surjection
<1>3. IsFiniteSet(Made) /\ Cardinality(Made) <= Cardinality(Storing(p))
  BY <1>1, <1>2, FS_Surjection
<1>4. NumbersOf(p) \subseteq Made
  BY DEF Spare
<1> HIDE DEF Made
<1>5. Cardinality(NumbersOf(p)) <= Cardinality(Made)
  BY <1>3, <1>4, FS_Subset
<1>6. Cardinality(NumbersOf(p)) \in Nat /\ Cardinality(Made) \in Nat
  BY <1>3, FS_CardinalityType DEF Spare
<1> QED
  BY <1>1, <1>3, <1>5, <1>6

LEMMA SpareInit == Init => SpareInv
<1> SUFFICES ASSUME Init, NEW p \in Paths PROVE Spare(p)
  BY DEF SpareInv
<1>1. Pending(p) = {} /\ Cardinality(Pending(p)) = 0
  BY FS_EmptySet DEF Init, Pending
<1>2. Cardinality(Threads) \in Nat \ {0}
  BY ThreadsAssumption, FS_CardinalityType, FS_EmptySet
<1>3. CASE p = Root
  <2>1. NumbersOf(p) = {1} /\ p \in DOMAIN path_to_ino
    BY <1>3 DEF Init, NumbersOf
  <2>2. IsFiniteSet(NumbersOf(p)) /\ Cardinality(NumbersOf(p)) = 1
    BY <2>1, FS_Singleton
  <2> QED
    BY <1>1, <1>2, <2>1, <2>2 DEF Spare
<1>4. CASE p # Root
  <2>1. NumbersOf(p) = {}
    BY <1>4 DEF Init, NumbersOf
  <2>2. IsFiniteSet(NumbersOf(p)) /\ Cardinality(NumbersOf(p)) = 0
    BY <2>1, FS_EmptySet
  <2> QED
    BY <1>1, <1>2, <2>1, <2>2 DEF Spare
<1> QED
  BY <1>3, <1>4

\* A step that makes no number and starts none keeps what is spared.
LEMMA SpareKept ==
    ASSUME NEW p \in Paths, Spare(p),
           ino_to_path' = ino_to_path, DOMAIN path_to_ino \subseteq DOMAIN path_to_ino',
           Pending(p)' = Pending(p),
           p \notin DOMAIN path_to_ino' =>
               Storing(p)' = Storing(p) /\ \A t \in Storing(p) : ino'[t] = ino[t]
    PROVE  Spare(p)'
<1>1. NumbersOf(p)' = NumbersOf(p)
  BY DEF NumbersOf
<1>2. /\ IsFiniteSet(NumbersOf(p)')
      /\ Cardinality(NumbersOf(p)') + Cardinality(Pending(p)') <= Cardinality(Threads)
  BY <1>1 DEF Spare
<1>3. p \notin DOMAIN path_to_ino' =>
          \A n \in NumbersOf(p)' : \E t \in Storing(p)' : ino'[t] = n
  BY <1>1 DEF Spare
<1> QED
  BY <1>2, <1>3 DEF Spare

\* A thread that misses p joins the pending ones: the numbers p has so far
\* are paid for by other threads.
LEMMA SpareMiss ==
    ASSUME TableInv, NEW t \in Threads, ProbeMiss(t), NEW p \in Paths, Spare(p)
    PROVE  Spare(p)'
<1>1. /\ ino_to_path' = ino_to_path /\ path_to_ino' = path_to_ino
      /\ pc[t] = "asking" /\ pc' = [pc EXCEPT ![t] = "minting"]
      /\ todo' = todo /\ ino' = ino /\ Head(todo[t]) \notin DOMAIN path_to_ino
  BY DEF ProbeMiss, table
<1>2. pc \in [Threads -> States]
  BY DEF TableInv, TypeOK
<1>3. Storing(p)' = Storing(p)
  BY <1>1, <1>2 DEF Storing
<1>4. CASE Head(todo[t]) # p
  <2>1. Pending(p)' = Pending(p)
    BY <1>1, <1>2, <1>4 DEF Pending
  <2> QED
    BY <1>1, <1>3, <2>1, SpareKept
<1>5. CASE Head(todo[t]) = p
  <2>1. Pending(p)' = Pending(p) \cup {t} /\ t \notin Pending(p)
    BY <1>1, <1>2, <1>5 DEF Pending
  <2>2. /\ Pending(p)' \subseteq Threads /\ Storing(p) \subseteq Threads
        /\ Pending(p)' \cap Storing(p) = {}
    BY <1>1, <1>2 DEF Pending, Storing
  <2>3. p \notin DOMAIN path_to_ino
    BY <1>1, <1>5
  <2>4. Cardinality(NumbersOf(p)) <= Cardinality(Storing(p)) /\ Cardinality(NumbersOf(p)) \in Nat
    BY <2>3, NumbersFewerThanStoring, FS_CardinalityType DEF Spare
  <2>5. Cardinality(Pending(p)') + Cardinality(Storing(p)) <= Cardinality(Threads)
    <3> DEFINE A == Pending(p)'
               B == Storing(p)
    <3>1. IsFiniteSet(A) /\ IsFiniteSet(B) /\ Cardinality(A) \in Nat /\ Cardinality(B) \in Nat
      BY <2>2, ThreadSets
    <3>2. A \cup B \subseteq Threads /\ A \cap B = {}
      BY <2>2
    <3> HIDE DEF A, B
    <3>3. Cardinality(A \cup B) = Cardinality(A) + Cardinality(B) - Cardinality(A \cap B)
      BY <3>1, FS_Union
    <3>4. Cardinality(A \cup B) <= Cardinality(Threads) /\ Cardinality(A \cap B) = 0
      BY <3>2, ThreadSets, FS_EmptySet
    <3>5. Cardinality(A) + Cardinality(B) <= Cardinality(Threads)
      BY <3>1, <3>3, <3>4
    <3> QED
      BY <3>5 DEF A, B
  <2>6. /\ Cardinality(Pending(p)') \in Nat /\ Cardinality(Storing(p)) \in Nat
        /\ Cardinality(Threads) \in Nat
    BY <2>2, ThreadSets
  <2>7. NumbersOf(p)' = NumbersOf(p)
    BY <1>1 DEF NumbersOf
  <2>8. Cardinality(NumbersOf(p)') + Cardinality(Pending(p)') <= Cardinality(Threads)
    BY <2>4, <2>5, <2>6, <2>7
  <2> QED
    BY <1>1, <1>3, <2>7, <2>8 DEF Spare
<1> QED
  BY <1>4, <1>5

\* The first insertion turns a pending thread into a number.
LEMMA SpareFirstInsert ==
    ASSUME TableInv, NEW t \in Threads, Store(t), pc[t] = "minted", NEW p \in Paths, Spare(p)
    PROVE  Spare(p)'
<1>1. /\ ino_to_path' = Insert(ino_to_path, ino[t], Head(todo[t]))
      /\ pc' = [pc EXCEPT ![t] = "stored"]
      /\ path_to_ino' = path_to_ino /\ todo' = todo /\ ino' = ino
  BY DEF Store
<1>2. /\ DOMAIN ino_to_path' = DOMAIN ino_to_path \cup {ino[t]}
      /\ ino_to_path'[ino[t]] = Head(todo[t])
      /\ \A n \in DOMAIN ino_to_path : ino_to_path'[n] = ino_to_path[n]
  BY <1>1, FirstInsert
<1>3. ino[t] \notin DOMAIN ino_to_path
  BY DEF TableInv, Fresh
<1>4. pc \in [Threads -> States]
  BY DEF TableInv, TypeOK
<1>5. CASE Head(todo[t]) # p
  <2>1. /\ NumbersOf(p)' = NumbersOf(p)
        /\ Pending(p)' = Pending(p) /\ Storing(p)' = Storing(p)
    BY <1>1, <1>2, <1>3, <1>4, <1>5 DEF NumbersOf, Pending, Storing
  <2> QED
    BY <1>1, <2>1 DEF Spare
<1>6. CASE Head(todo[t]) = p
  <2>1. NumbersOf(p)' = NumbersOf(p) \cup {ino[t]} /\ ino[t] \notin NumbersOf(p)
    BY <1>2, <1>3, <1>6 DEF NumbersOf
  <2>2. Pending(p)' = Pending(p) \ {t} /\ t \in Pending(p) /\ Pending(p) \subseteq Threads
    BY <1>1, <1>4, <1>6 DEF Pending
  <2>3. Storing(p)' = Storing(p) \cup {t}
    BY <1>1, <1>4, <1>6 DEF Storing
  <2>4. /\ IsFiniteSet(NumbersOf(p)')
        /\ Cardinality(NumbersOf(p)') = Cardinality(NumbersOf(p)) + 1
        /\ Cardinality(NumbersOf(p)) \in Nat
    BY <2>1, FS_AddElement, FS_CardinalityType DEF Spare
  <2>5. Cardinality(Pending(p)') = Cardinality(Pending(p)) - 1 /\ Cardinality(Pending(p)) \in Nat
    BY <2>2, ThreadSets, FS_RemoveElement
  <2>6. Cardinality(Threads) \in Nat
    BY ThreadSets
  <2>7. Cardinality(NumbersOf(p)') + Cardinality(Pending(p)') <= Cardinality(Threads)
    BY <2>4, <2>5, <2>6 DEF Spare
  <2>8. p \notin DOMAIN path_to_ino' => \A n \in NumbersOf(p)' : \E s \in Storing(p)' : ino'[s] = n
    BY <1>1, <2>1, <2>3 DEF Spare
  <2> QED
    BY <2>4, <2>7, <2>8 DEF Spare
<1> QED
  BY <1>5, <1>6

LEMMA SpareNext == TableInv /\ SpareInv /\ [Next]_vars => SpareInv'
<1> SUFFICES ASSUME TableInv, SpareInv, [Next]_vars, NEW p \in Paths PROVE Spare(p)'
  BY DEF SpareInv
<1>0. Spare(p) /\ pc \in [Threads -> States] /\ todo \in [Threads -> Seq(Paths)]
      /\ ino \in [Threads -> Nat]
  BY DEF SpareInv, TableInv, TypeOK
<1>1. ASSUME NEW t \in Threads, pc[t] \in {"away", "asking", "answered"}, pc' # pc,
             pc' = [pc EXCEPT ![t] = pc'[t]], pc'[t] \in {"away", "asking", "answered"},
             \A s \in Threads \ {t} : todo'[s] = todo[s] /\ ino'[s] = ino[s],
             UNCHANGED table
      PROVE  Spare(p)'
  <2>1. Pending(p)' = Pending(p) /\ Storing(p)' = Storing(p)
    BY <1>0, <1>1 DEF Pending, Storing
  <2>2. \A s \in Storing(p) : ino'[s] = ino[s]
    BY <1>1 DEF Storing
  <2> QED
    BY <1>0, <1>1, <2>1, <2>2, SpareKept DEF table
<1>2. ASSUME NEW t \in Threads, Handle(t) PROVE Spare(p)'
  BY <1>0, <1>1, <1>2
     DEF Handle, Lookup, LookupParent, Mkdir, Getattr, Readdir, Ask, table
<1>3. ASSUME NEW t \in Threads, NotFound(t) \/ Return(t) PROVE Spare(p)'
  BY <1>0, <1>1, <1>3 DEF NotFound, Return, Reply, table
<1>4. ASSUME NEW t \in Threads, ReturnToAsk(t) \/ ProbeHit(t) PROVE Spare(p)'
  BY <1>0, <1>1, <1>4 DEF ReturnToAsk, ProbeHit, table
<1>5. ASSUME NEW t \in Threads, ProbeMiss(t) PROVE Spare(p)'
  BY <1>0, <1>5, SpareMiss
<1>6. ASSUME NEW t \in Threads, Mint(t) PROVE Spare(p)'
  <2>1. Pending(p)' = Pending(p) /\ Storing(p)' = Storing(p)
    BY <1>0, <1>6 DEF Mint, Pending, Storing
  <2>2. \A s \in Storing(p) : ino'[s] = ino[s]
    BY <1>0, <1>6 DEF Mint, Storing
  <2> QED
    BY <1>0, <1>6, <2>1, <2>2, SpareKept DEF Mint
<1>7. ASSUME NEW t \in Threads, Store(t), pc[t] = "minted" PROVE Spare(p)'
  BY <1>0, <1>7, SpareFirstInsert
<1>8. ASSUME NEW t \in Threads, Store(t), pc[t] = "stored" PROVE Spare(p)'
  <2>1. /\ ino_to_path' = ino_to_path
        /\ path_to_ino' = Insert(path_to_ino, Head(todo[t]), ino[t])
        /\ pc' = [pc EXCEPT ![t] = "answered"] /\ todo' = todo /\ ino' = ino
    BY <1>8 DEF Store
  <2>2. DOMAIN path_to_ino' = DOMAIN path_to_ino \cup {Head(todo[t])}
    BY <2>1 DEF Insert
  <2>3. Pending(p)' = Pending(p)
    BY <1>0, <1>8, <2>1 DEF Pending
  <2>4. p # Head(todo[t]) => Storing(p)' = Storing(p)
    BY <1>0, <1>8, <2>1 DEF Storing
  <2> QED
    BY <1>0, <2>1, <2>2, <2>3, <2>4, SpareKept
<1>9. UNCHANGED vars => Spare(p)'
  <2>1. UNCHANGED vars =>
            Pending(p)' = Pending(p) /\ Storing(p)' = Storing(p) /\ ino' = ino
    BY DEF vars, Pending, Storing
  <2> QED
    BY <1>0, <2>1, SpareKept DEF vars, table
<1>10. \A t \in Threads : Store(t) => pc[t] \in {"minted", "stored"}
  BY DEF Store
<1> QED
  BY <1>2, <1>3, <1>4, <1>5, <1>6, <1>7, <1>8, <1>9, <1>10 DEF Next, get_or_insert

\* However often a path is looked up and listed, it has at most as many
\* numbers as there are threads (inode.rs:34-43).
THEOREM NumbersBounded == Spec => []OneNumberPerThread
<1>1. TableInv /\ SpareInv => OneNumberPerThread
  <2> SUFFICES ASSUME SpareInv, NEW p \in Paths
               PROVE  Cardinality(NumbersOf(p)) <= Cardinality(Threads)
    BY DEF OneNumberPerThread
  <2>1. Pending(p) \subseteq Threads /\ Spare(p)
    BY DEF Pending, SpareInv
  <2>2. /\ Cardinality(Pending(p)) \in Nat /\ Cardinality(Threads) \in Nat
        /\ Cardinality(NumbersOf(p)) \in Nat
    BY <2>1, ThreadSets, FS_CardinalityType DEF Spare
  <2> QED
    BY <2>1, <2>2 DEF Spare
<1> QED
  BY <1>1, SpareInit, SpareNext, TableInvariant, PTL DEF Spec
=============================================================================
