----------------------------- MODULE FuseProofs -----------------------------
(***************************************************************************)
(* The FUSE layer: the pool of connections to the daemon, and the file     *)
(* system that the handlers show.                                          *)
(*                                                                         *)
(* ClientPool, for any number of threads and any limit.  Its invariants    *)
(* are inductive together: the accounting bounds the clients to be had,    *)
(* the count of threads on their way to the loop covers them, and the      *)
(* place of a thread says which clients it holds.                          *)
(*                                                                         *)
(* Namespace, for any paths, any host and any number of operations.  That  *)
(* a path shows what it should is not inductive: what a rename or a        *)
(* removal reaches depends on which entries the path tree has, on what     *)
(* hides the host's file, and on what is above a path (FsInv).             *)
(***************************************************************************)
EXTENDS ClientPool, Namespace, PathTreeProofs, FiniteSetTheorems, TLAPS

-----------------------------------------------------------------------------
(* ClientPool.                                                             *)

\* How many threads the function f puts at s.
Count(f, s) == Cardinality({t \in Threads : f[t] = s})

Placement == [Threads -> States]

\* A thread holds a first client while it serves and none while it is away,
\* and it never asks for a third.
HoldsByPlace ==
    \A t \in Threads :
        /\ pc[t] = "serving" => t \in outer
        /\ pc[t] = "away" => t \notin outer
        /\ pc[t] \in {"asking", "connecting", "failing", "sleeping"} => t \notin inner

PoolInv == TypeOK /\ HoldsByPlace /\ Accounting /\ NoLostWakeup

-----------------------------------------------------------------------------
\* Counts of threads are natural numbers.
LEMMA CountNat == \A f, s : Count(f, s) \in Nat
<1> TAKE f, s
<1> {t \in Threads : f[t] = s} \subseteq Threads
  OBVIOUS
<1> QED
  BY ThreadsAssumption, FS_Subset, FS_CardinalityType DEF Count

\* A set of threads is finite, and its size is a natural number.
LEMMA HeldNat == ASSUME NEW S, S \subseteq Threads
                 PROVE  IsFiniteSet(S) /\ Cardinality(S) \in Nat
BY ThreadsAssumption, FS_Subset, FS_CardinalityType

\* A thread that moves from a to b is counted at b and no more at a.
LEMMA Moves ==
    ASSUME NEW f \in Placement, NEW t \in Threads, NEW a, NEW b \in States,
           f[t] = a, a # b, NEW g \in Placement,
           g[t] = b, \A x \in Threads \ {t} : g[x] = f[x]
    PROVE  /\ Count(g, b) = Count(f, b) + 1
           /\ Count(g, a) = Count(f, a) - 1
           /\ \A u : u # b /\ u # a => Count(g, u) = Count(f, u)
<1> DEFINE A(h, u) == {x \in Threads : h[x] = u}
<1>2. A(g, b) = A(f, b) \cup {t} /\ t \notin A(f, b)
  BY DEF Placement
<1>3. A(g, a) = A(f, a) \ {t} /\ t \in A(f, a)
  BY DEF Placement
<1>4. ASSUME NEW u, u # b, u # a PROVE A(g, u) = A(f, u)
  BY <1>4 DEF Placement
<1>5. \A u : IsFiniteSet(A(f, u))
  BY ThreadsAssumption, FS_Subset
<1> HIDE DEF A
<1>6. Cardinality(A(g, b)) = Cardinality(A(f, b)) + 1
  BY <1>2, <1>5, FS_AddElement
<1>7. Cardinality(A(g, a)) = Cardinality(A(f, a)) - 1
  BY <1>3, <1>5, FS_RemoveElement, ZenonT(40)
<1> QED
  BY <1>4, <1>6, <1>7 DEF Count, A

\* What that makes of the three counts the invariants use.
LEMMA MoveCounts ==
    \A f \in Placement, t \in Threads, b \in States :
        f[t] # b =>
          /\ [f EXCEPT ![t] = b] \in Placement
          /\ \A u \in {"asking", "connecting", "failing"} :
               Count([f EXCEPT ![t] = b], u) = IF u = b THEN Count(f, u) + 1
                                               ELSE IF u = f[t] THEN Count(f, u) - 1
                                               ELSE Count(f, u)
<1> SUFFICES ASSUME NEW f \in Placement, NEW t \in Threads, NEW b \in States, f[t] # b
             PROVE  /\ [f EXCEPT ![t] = b] \in Placement
                    /\ \A u \in {"asking", "connecting", "failing"} :
                         Count([f EXCEPT ![t] = b], u) =
                            IF u = b THEN Count(f, u) + 1
                            ELSE IF u = f[t] THEN Count(f, u) - 1
                            ELSE Count(f, u)
  OBVIOUS
<1> DEFINE g == [f EXCEPT ![t] = b]
<1>1. g \in Placement /\ g[t] = b /\ \A x \in Threads \ {t} : g[x] = f[x]
  BY DEF Placement
<1> HIDE DEF g
<1>2. /\ Count(g, b) = Count(f, b) + 1
      /\ Count(g, f[t]) = Count(f, f[t]) - 1
      /\ \A u : u # b /\ u # f[t] => Count(g, u) = Count(f, u)
  BY <1>1, Moves
<1>3. \A u : Count(g, u) = IF u = b THEN Count(f, u) + 1
                           ELSE IF u = f[t] THEN Count(f, u) - 1
                           ELSE Count(f, u)
  BY <1>2
<1> QED
  BY <1>1, <1>3 DEF g

\* notify_one moves one sleeper to the head of the loop, or nobody.
LEMMA Notifies ==
    ASSUME NEW p \in Placement, NotifyOne(p),
           pc \in Placement,
           \A t \in Threads : pc[t] = "sleeping" <=> p[t] = "sleeping"
    PROVE  /\ pc' \in Placement
           /\ \A t \in Threads : \/ pc'[t] = p[t]
                                 \/ p[t] = "sleeping" /\ pc'[t] = "asking"
           /\ Count(pc', "connecting") = Count(p, "connecting")
           /\ Count(pc', "failing") = Count(p, "failing")
           /\ At("sleeping")' # {} => /\ At("sleeping") # {}
                                      /\ Count(pc', "asking") = Count(p, "asking") + 1
<1>1. CASE At("sleeping") = {}
  <2>1. pc' = p
    BY <1>1 DEF NotifyOne
  <2>2. At("sleeping")' = {}
    BY <1>1, <2>1 DEF At
  <2> QED
    BY <2>1, <2>2
<1>2. CASE At("sleeping") # {}
  <2>1. PICK s \in At("sleeping") : pc' = [p EXCEPT ![s] = "asking"]
    BY <1>2 DEF NotifyOne
  <2>2. s \in Threads /\ p[s] = "sleeping"
    BY DEF At
  <2>3. /\ pc' \in Placement
        /\ Count(pc', "asking") = Count(p, "asking") + 1
        /\ Count(pc', "connecting") = Count(p, "connecting")
        /\ Count(pc', "failing") = Count(p, "failing")
    <3>1. "asking" \in States /\ p[s] # "asking"
      BY <2>2 DEF States
    <3>2. /\ pc' \in Placement
          /\ Count(pc', "asking") = Count(p, "asking") + 1
          /\ \A u : u # "asking" /\ u # "sleeping" => Count(pc', u) = Count(p, u)
      <4>1. pc' \in Placement /\ pc'[s] = "asking" /\ \A x \in Threads \ {s} : pc'[x] = p[x]
        BY <2>1, <2>2, <3>1 DEF Placement
      <4> QED
        BY <2>2, <3>1, <4>1, Moves
    <3> QED
      BY <3>2
  <2>4. \A t \in Threads : pc'[t] = p[t] \/ (p[t] = "sleeping" /\ pc'[t] = "asking")
    BY <2>1, <2>2 DEF Placement
  <2> QED
    BY <1>2, <2>3, <2>4
<1> QED
  BY <1>1, <1>2

-----------------------------------------------------------------------------
\* The counts of ClientPool are counts of the current placement.
LEMMA Counted == /\ Cardinality(At("asking")) = Count(pc, "asking")
                 /\ Cardinality(At("connecting")) = Count(pc, "connecting")
                 /\ Cardinality(At("failing")) = Count(pc, "failing")
BY DEF At, Count

\* The same of the next state.
LEMMA CountedNext == /\ Cardinality(At("asking"))' = Count(pc', "asking")
                     /\ Cardinality(At("connecting"))' = Count(pc', "connecting")
                     /\ Cardinality(At("failing"))' = Count(pc', "failing")
BY DEF At, Count

\* The empty pool.
LEMMA PoolInit == Init => PoolInv
<1> SUFFICES ASSUME Init PROVE PoolInv
  OBVIOUS
<1>1. TypeOK /\ HoldsByPlace
  BY DEF Init, TypeOK, HoldsByPlace, States
<1>2. \A s : s # "away" => At(s) = {}
  BY DEF Init, At
<1>3. Accounting
  BY <1>2, FS_EmptySet, SizeAssumption DEF Init, Accounting, Held, InTheMaking
<1>4. NoLostWakeup
  BY <1>2 DEF NoLostWakeup
<1> QED
  BY <1>1, <1>3, <1>4 DEF PoolInv

\* A client taken is held by one more thread or one more time.
LEMMA TakeHolds ==
    ASSUME TypeOK, NEW t \in Threads, Take(t), t \notin inner
    PROVE  /\ Held' = Held + 1
           /\ outer' \subseteq Threads /\ inner' \subseteq outer' /\ t \in outer'
           /\ \A u \in Threads \ {t} : /\ u \in outer' <=> u \in outer
                                       /\ u \in inner' <=> u \in inner
<1>1. IsFiniteSet(outer) /\ IsFiniteSet(inner) /\ Held \in Nat
  BY HeldNat DEF TypeOK, Held
<1>2. Cardinality(outer) \in Nat /\ Cardinality(inner) \in Nat
  BY HeldNat DEF TypeOK
<1>3. CASE t \in outer
  <2>1. outer' = outer /\ inner' = inner \cup {t}
    BY <1>3 DEF Take
  <2>2. Cardinality(inner') = Cardinality(inner) + 1
    BY <1>1, <2>1, FS_AddElement
  <2> QED
    BY <1>2, <1>3, <2>1, <2>2 DEF TypeOK, Held
<1>4. CASE t \notin outer
  <2>1. outer' = outer \cup {t} /\ inner' = inner
    BY <1>4 DEF Take
  <2>2. Cardinality(outer') = Cardinality(outer) + 1
    BY <1>1, <1>4, <2>1, FS_AddElement
  <2> QED
    BY <1>2, <1>4, <2>1, <2>2 DEF TypeOK, Held
<1> QED
  BY <1>3, <1>4

\* A client given back is held by one thread less or one time less.
LEMMA DropHolds ==
    ASSUME NEW S, NEW t \in S, S \subseteq Threads
    PROVE  Cardinality(S \ {t}) = Cardinality(S) - 1
BY HeldNat, FS_RemoveElement

\* Every step keeps PoolInv.  After each action: the thread's old and new
\* place, what became of the counts, and the arithmetic.
LEMMA PoolNext == PoolInv /\ [Next]_vars => PoolInv'
<1> SUFFICES ASSUME PoolInv, [Next]_vars PROVE PoolInv'
  OBVIOUS
<1> USE SizeAssumption
<1> DEFINE asking == Count(pc, "asking")
           connecting == Count(pc, "connecting")
           failing == Count(pc, "failing")
<1>0. /\ TypeOK /\ HoldsByPlace /\ Accounting /\ NoLostWakeup /\ pc \in Placement
      /\ asking \in Nat /\ connecting \in Nat /\ failing \in Nat /\ Held \in Nat
      /\ total = idle + Held + connecting + failing /\ total <= max_size
      /\ idle \in Nat /\ total \in Nat
      /\ At("sleeping") # {} => idle + (max_size - total) <= asking
  BY CountNat, HeldNat, Counted
     DEF PoolInv, TypeOK, Placement, Held, Accounting, NoLostWakeup, InTheMaking
<1>a. ASSUME TypeOK', HoldsByPlace',
             total' = idle' + Held' + Count(pc', "connecting") + Count(pc', "failing"),
             total' <= max_size,
             At("sleeping")' # {} => idle' + (max_size - total') <= Count(pc', "asking")
      PROVE  PoolInv'
  <2>1. Accounting'
    BY <1>a, CountedNext, CountNat, HeldNat DEF Accounting, InTheMaking, TypeOK, Held
  <2>2. NoLostWakeup'
    BY <1>a, CountedNext DEF NoLostWakeup
  <2> QED
    BY <1>a, <2>1, <2>2 DEF PoolInv
\* A thread that is not at "sleeping" and does not go there leaves the sleepers.
<1>b. ASSUME NEW t \in Threads, NEW s \in States, s # "sleeping", pc[t] # "sleeping",
             pc' = [pc EXCEPT ![t] = s]
      PROVE  At("sleeping")' = At("sleeping")
  BY <1>0, <1>b DEF At, Placement
<1>1. ASSUME NEW t \in Threads, Begin(t) PROVE PoolInv'
  <2>1. /\ pc' \in Placement /\ Count(pc', "asking") = asking + 1
        /\ Count(pc', "connecting") = connecting /\ Count(pc', "failing") = failing
    BY <1>0, <1>1, MoveCounts DEF Begin, States
  <2>2. At("sleeping")' = At("sleeping")
    BY <1>1, <1>b DEF Begin, States
  <2>3. TypeOK' /\ HoldsByPlace' /\ Held' = Held
    BY <1>0, <1>1, <2>1 DEF Begin, TypeOK, HoldsByPlace, Placement, Held
  <2> QED
    BY <1>0, <1>1, <1>a, <2>1, <2>2, <2>3 DEF Begin
<1>2. ASSUME NEW t \in Threads, Nest(t) PROVE PoolInv'
  <2>1. /\ pc' \in Placement /\ Count(pc', "asking") = asking + 1
        /\ Count(pc', "connecting") = connecting /\ Count(pc', "failing") = failing
    BY <1>0, <1>2, MoveCounts DEF Nest, States
  <2>2. At("sleeping")' = At("sleeping")
    BY <1>2, <1>b DEF Nest, States
  <2>3. TypeOK' /\ HoldsByPlace' /\ Held' = Held
    BY <1>0, <1>2, <2>1 DEF Nest, TypeOK, HoldsByPlace, Placement, Held
  <2> QED
    BY <1>0, <1>2, <1>a, <2>1, <2>2, <2>3 DEF Nest
<1>3. ASSUME NEW t \in Threads, TakeIdle(t) PROVE PoolInv'
  <2>1. /\ pc' \in Placement /\ Count(pc', "asking") = asking - 1
        /\ Count(pc', "connecting") = connecting /\ Count(pc', "failing") = failing
    BY <1>0, <1>3, MoveCounts DEF TakeIdle, Take, States
  <2>2. At("sleeping")' = At("sleeping")
    BY <1>3, <1>b DEF TakeIdle, Take, States
  <2>3. t \notin inner
    BY <1>0, <1>3 DEF TakeIdle, HoldsByPlace
  <2>4. /\ Held' = Held + 1
        /\ outer' \subseteq Threads /\ inner' \subseteq outer' /\ t \in outer'
        /\ \A u \in Threads \ {t} : /\ u \in outer' <=> u \in outer
                                    /\ u \in inner' <=> u \in inner
    BY <1>0, <1>3, <2>3, TakeHolds DEF TakeIdle
  <2>5. TypeOK' /\ HoldsByPlace'
    BY <1>0, <1>3, <2>1, <2>4 DEF TakeIdle, Take, TypeOK, HoldsByPlace, Placement
  <2> QED
    BY <1>0, <1>3, <1>a, <2>1, <2>2, <2>4, <2>5 DEF TakeIdle
<1>4. ASSUME NEW t \in Threads, Grow(t) PROVE PoolInv'
  <2>1. /\ pc' \in Placement /\ Count(pc', "asking") = asking - 1
        /\ Count(pc', "connecting") = connecting + 1 /\ Count(pc', "failing") = failing
    BY <1>0, <1>4, MoveCounts DEF Grow, States
  <2>2. At("sleeping")' = At("sleeping")
    BY <1>4, <1>b DEF Grow, States
  <2>3. TypeOK' /\ HoldsByPlace' /\ Held' = Held
    BY <1>0, <1>4, <2>1 DEF Grow, TypeOK, HoldsByPlace, Placement, Held
  <2> QED
    BY <1>0, <1>4, <1>a, <2>1, <2>2, <2>3 DEF Grow
<1>5. ASSUME NEW t \in Threads, Connected(t) PROVE PoolInv'
  <2>1. /\ pc' \in Placement /\ Count(pc', "asking") = asking
        /\ Count(pc', "connecting") = connecting - 1 /\ Count(pc', "failing") = failing
    BY <1>0, <1>5, MoveCounts DEF Connected, Take, States
  <2>2. At("sleeping")' = At("sleeping")
    BY <1>5, <1>b DEF Connected, Take, States
  <2>3. t \notin inner
    BY <1>0, <1>5 DEF Connected, HoldsByPlace
  <2>4. /\ Held' = Held + 1
        /\ outer' \subseteq Threads /\ inner' \subseteq outer' /\ t \in outer'
        /\ \A u \in Threads \ {t} : /\ u \in outer' <=> u \in outer
                                    /\ u \in inner' <=> u \in inner
    BY <1>0, <1>5, <2>3, TakeHolds DEF Connected
  <2>5. TypeOK' /\ HoldsByPlace'
    BY <1>0, <1>5, <2>1, <2>4 DEF Connected, Take, TypeOK, HoldsByPlace, Placement
  <2> QED
    BY <1>0, <1>5, <1>a, <2>1, <2>2, <2>4, <2>5 DEF Connected
<1>6. ASSUME NEW t \in Threads, ConnectFails(t) PROVE PoolInv'
  <2>1. /\ pc' \in Placement /\ Count(pc', "asking") = asking
        /\ Count(pc', "connecting") = connecting - 1 /\ Count(pc', "failing") = failing + 1
    BY <1>0, <1>6, MoveCounts DEF ConnectFails, States
  <2>2. At("sleeping")' = At("sleeping")
    BY <1>6, <1>b DEF ConnectFails, States
  <2>3. TypeOK' /\ HoldsByPlace' /\ Held' = Held
    BY <1>0, <1>6, <2>1 DEF ConnectFails, TypeOK, HoldsByPlace, Placement, Held
  <2> QED
    BY <1>0, <1>6, <1>a, <2>1, <2>2, <2>3 DEF ConnectFails
<1>7. ASSUME NEW t \in Threads, Rollback(t) PROVE PoolInv'
  <2> DEFINE p == AfterFailure(t)
             s == IF t \in outer THEN "serving" ELSE "away"
  <2>1. p = [pc EXCEPT ![t] = s] /\ s \in States /\ pc[t] = "failing" /\ s # "failing"
    BY <1>7 DEF Rollback, AfterFailure, States
  <2>2. /\ p \in Placement /\ Count(p, "asking") = asking
        /\ Count(p, "connecting") = connecting /\ Count(p, "failing") = failing - 1
    <3>1. CASE t \in outer
      BY <1>0, <1>7, <3>1, MoveCounts DEF Rollback, AfterFailure, States
    <3>2. CASE t \notin outer
      BY <1>0, <1>7, <3>2, MoveCounts DEF Rollback, AfterFailure, States
    <3> QED
      BY <3>1, <3>2
  <2>3. \A u \in Threads : pc[u] = "sleeping" <=> p[u] = "sleeping"
    BY <1>0, <2>1 DEF Placement
  <2>4. NotifyOne(p)
    BY <1>7 DEF Rollback
  <2> HIDE DEF p
  <2>5. /\ pc' \in Placement
        /\ \A u \in Threads : pc'[u] = p[u] \/ (p[u] = "sleeping" /\ pc'[u] = "asking")
        /\ Count(pc', "connecting") = Count(p, "connecting")
        /\ Count(pc', "failing") = Count(p, "failing")
        /\ At("sleeping")' # {} => /\ At("sleeping") # {}
                                   /\ Count(pc', "asking") = Count(p, "asking") + 1
    BY <1>0, <2>2, <2>3, <2>4, Notifies
  <2>6. TypeOK' /\ HoldsByPlace' /\ Held' = Held
    <3>1. total' \in Nat
      BY <1>0, <1>7, <2>2, CountNat DEF Rollback
    <3> QED
      BY <1>0, <1>7, <2>1, <2>5, <3>1 DEF Rollback, TypeOK, HoldsByPlace, Placement, Held
  <2> QED
    BY <1>0, <1>7, <1>a, <2>2, <2>5, <2>6 DEF Rollback
<1>8. ASSUME NEW t \in Threads, Sleep(t) PROVE PoolInv'
  <2>1. /\ pc' \in Placement /\ Count(pc', "asking") = asking - 1
        /\ Count(pc', "connecting") = connecting /\ Count(pc', "failing") = failing
    BY <1>0, <1>8, MoveCounts DEF Sleep, States
  <2>2. TypeOK' /\ HoldsByPlace' /\ Held' = Held
    BY <1>0, <1>8, <2>1 DEF Sleep, TypeOK, HoldsByPlace, Placement, Held
  <2>3. asking - 1 \in Nat
    BY <2>1, CountNat
  <2> QED
    BY <1>0, <1>8, <1>a, <2>1, <2>2, <2>3 DEF Sleep
<1>9. ASSUME NEW t \in Threads, WakeSpuriously(t) PROVE PoolInv'
  <2>1. /\ pc' \in Placement /\ Count(pc', "asking") = asking + 1
        /\ Count(pc', "connecting") = connecting /\ Count(pc', "failing") = failing
    BY <1>0, <1>9, MoveCounts DEF WakeSpuriously, States
  <2>2. At("sleeping") # {}
    BY <1>9 DEF WakeSpuriously, At
  <2>3. TypeOK' /\ HoldsByPlace' /\ Held' = Held
    BY <1>0, <1>9, <2>1 DEF WakeSpuriously, TypeOK, HoldsByPlace, Placement, Held
  <2> QED
    BY <1>0, <1>9, <1>a, <2>1, <2>2, <2>3 DEF WakeSpuriously
<1>10. ASSUME NEW t \in Threads, DropInner(t) PROVE PoolInv'
  <2>1. NotifyOne(pc)
    BY <1>10 DEF DropInner
  <2>2. /\ pc' \in Placement
        /\ \A u \in Threads : pc'[u] = pc[u] \/ (pc[u] = "sleeping" /\ pc'[u] = "asking")
        /\ Count(pc', "connecting") = connecting /\ Count(pc', "failing") = failing
        /\ At("sleeping")' # {} => /\ At("sleeping") # {}
                                   /\ Count(pc', "asking") = asking + 1
    BY <1>0, <2>1, Notifies
  <2>3. Held' = Held - 1
    <3>1. Cardinality(inner') = Cardinality(inner) - 1 /\ outer' = outer
      BY <1>0, <1>10, DropHolds DEF DropInner, TypeOK
    <3> QED
      BY <1>0, <3>1, HeldNat DEF TypeOK, Held
  <2>4. TypeOK' /\ HoldsByPlace'
    BY <1>0, <1>10, <2>2 DEF DropInner, TypeOK, HoldsByPlace, Placement
  <2> QED
    BY <1>0, <1>10, <1>a, <2>2, <2>3, <2>4 DEF DropInner
<1>11. ASSUME NEW t \in Threads, DropOuter(t) PROVE PoolInv'
  <2> DEFINE p == [pc EXCEPT ![t] = "away"]
  <2>1. /\ p \in Placement /\ Count(p, "asking") = asking
        /\ Count(p, "connecting") = connecting /\ Count(p, "failing") = failing
    BY <1>0, <1>11, MoveCounts DEF DropOuter, States
  <2>2. /\ \A u \in Threads : pc[u] = "sleeping" <=> p[u] = "sleeping"
        /\ \A u \in Threads : p[u] = IF u = t THEN "away" ELSE pc[u]
    BY <1>0, <1>11 DEF DropOuter, Placement
  <2>3. NotifyOne(p)
    BY <1>11 DEF DropOuter
  <2> HIDE DEF p
  <2>4. /\ pc' \in Placement
        /\ \A u \in Threads : pc'[u] = p[u] \/ (p[u] = "sleeping" /\ pc'[u] = "asking")
        /\ Count(pc', "connecting") = Count(p, "connecting")
        /\ Count(pc', "failing") = Count(p, "failing")
        /\ At("sleeping")' # {} => /\ At("sleeping") # {}
                                   /\ Count(pc', "asking") = Count(p, "asking") + 1
    BY <1>0, <2>1, <2>2, <2>3, Notifies
  <2>5. t \in outer /\ t \notin inner
    BY <1>0, <1>11 DEF DropOuter, HoldsByPlace
  <2>6. Held' = Held - 1
    <3>1. Cardinality(outer') = Cardinality(outer) - 1 /\ inner' = inner
      BY <1>0, <1>11, <2>5, DropHolds DEF DropOuter, TypeOK
    <3> QED
      BY <1>0, <3>1, HeldNat DEF TypeOK, Held
  <2>7. TypeOK' /\ HoldsByPlace'
    BY <1>0, <1>11, <2>2, <2>4, <2>5 DEF DropOuter, TypeOK, HoldsByPlace, Placement
  <2> QED
    BY <1>0, <1>11, <1>a, <2>1, <2>4, <2>6, <2>7 DEF DropOuter
<1>12. CASE UNCHANGED vars
  BY <1>0, <1>12 DEF vars, PoolInv, TypeOK, HoldsByPlace, Accounting, NoLostWakeup,
                     Held, InTheMaking, At
<1> QED
  BY <1>1, <1>2, <1>3, <1>4, <1>5, <1>6, <1>7, <1>8, <1>9, <1>10, <1>11, <1>12
     DEF Next, Step

\* PoolInv holds in every reachable state of the pool (pool.rs:43-117).
THEOREM PoolInvariant == Spec => []PoolInv
BY PoolInit, PoolNext, PTL DEF Spec

\* A thread is always at a known place, holds at most the clients it has asked for,
\* and the pool never counts more clients than its limit (Inner::new, get).
THEOREM TypeCorrect == Spec => []TypeOK
<1>1. PoolInv => TypeOK
  BY DEF PoolInv
<1> QED
  BY <1>1, PoolInvariant, PTL

\* The clients the pool counts are the idle, the held and those being made,
\* and never more than the limit (pool.rs:57-77, 106-117).
THEOREM PoolAccounted == Spec => []Accounting
<1>1. PoolInv => Accounting
  BY DEF PoolInv
<1> QED
  BY <1>1, PoolInvariant, PTL

\* No wake-up is lost (pool.rs:74, 79, 114).
THEOREM WakeupsKept == Spec => []NoLostWakeup
<1>1. PoolInv => NoLostWakeup
  BY DEF PoolInv
<1> QED
  BY <1>1, PoolInvariant, PTL

\* A pool nobody can leave: nothing is idle, everything is held, and only by
\* sleepers.
LEMMA GridlockIsNested == PoolInv => GridlockOnlyByNesting
<1> SUFFICES ASSUME PoolInv, Gridlock
             PROVE  inner = {} /\ Cardinality(outer \cap At("sleeping")) = max_size
  BY DEF GridlockOnlyByNesting
<1>1. \A t \in Threads : pc[t] = "sleeping" \/ pc[t] = "away"
  BY DEF Gridlock, At
<1>2. inner = {}
  BY <1>1 DEF PoolInv, TypeOK, HoldsByPlace
<1>3. outer \cap At("sleeping") = outer
  BY <1>1 DEF PoolInv, TypeOK, HoldsByPlace, At
<1>4. At("asking") = {} /\ At("connecting") = {} /\ At("failing") = {}
  BY <1>1 DEF At
<1>5. /\ Cardinality(inner) = 0 /\ Cardinality(At("asking")) = 0
      /\ Cardinality(At("connecting")) = 0 /\ Cardinality(At("failing")) = 0
  BY <1>2, <1>4, FS_EmptySet
<1>6. Cardinality(outer) \in Nat
  BY HeldNat DEF PoolInv, TypeOK
<1>7. idle = 0 /\ total = max_size
  BY <1>5, <1>6, SizeAssumption
     DEF PoolInv, TypeOK, Gridlock, NoLostWakeup, Accounting, Held, InTheMaking
<1>8. Cardinality(outer) = max_size
  BY <1>5, <1>6, <1>7 DEF PoolInv, Accounting, Held, InTheMaking
<1> QED
  BY <1>2, <1>3, <1>8

\* The pool gets stuck only when max_size handlers each hold a client and
\* sleep for a second one (fs.rs:317-407, 442-454, 556-572, 699-736).
THEOREM GridlockCause == Spec => []GridlockOnlyByNesting
BY PoolInvariant, GridlockIsNested, PTL

\* With fewer threads than clients the pool never gets stuck: on a machine
\* with up to eleven cores the nesting of fs.rs is harmless (inner.rs:100,
\* mount.rs:19-26).
THEOREM FewThreadsNeverStuck ==
    ASSUME Cardinality(Threads) < max_size
    PROVE  Spec => []NoGridlock
<1>1. PoolInv => NoGridlock
  <2> SUFFICES ASSUME PoolInv, Gridlock PROVE FALSE
    BY DEF NoGridlock
  <2>1. Cardinality(outer \cap At("sleeping")) = max_size
    BY GridlockIsNested DEF GridlockOnlyByNesting
  <2>2. /\ Cardinality(Threads) \in Nat
        /\ Cardinality(outer \cap At("sleeping")) <= Cardinality(Threads)
    BY ThreadsAssumption, FS_Subset, FS_CardinalityType DEF PoolInv, TypeOK
  <2> QED
    BY <2>1, <2>2, SizeAssumption
<1> QED
  BY <1>1, PoolInvariant, PTL

-----------------------------------------------------------------------------
(* Namespace: the daemon's requests.                                       *)

Entries == {NoEntry, Whiteout, Dir, Symlink} \cup {File(id) : id \in 1 .. MaxOps}
Maps == [Paths -> Entries]
Known == Paths \cup {<<>>}

\* An object has one name, and its id was handed out.
Owned(map, id) ==
    \A p, q \in Paths :
        map[p].type = "File" => map[p].object < id /\ (map[p] = map[q] => p = q)

StoreOK(s) ==
    /\ s = [map |-> s.map, tree |-> s.tree, next |-> s.next]
    /\ s.map \in Maps /\ s.next \in Nat \ {0}
    /\ ExactFor(s.tree, Names) /\ PathsIn(s.tree) \subseteq Known
    /\ Owned(s.map, s.next)

\* A path, what is above it and its parent are paths or the root.
LEMMA PathIs ==
    ASSUME NEW p \in Paths
    PROVE  /\ p \in Seq(Names) /\ p # <<>> /\ p \in Ancestors(p)
           /\ Ancestors(p) \subseteq Known /\ Parent(p) \in Known
           /\ Known \in SUBSET Seq(Names)
<1>1. p \in Seq(Names) /\ p # <<>> /\ Ancestors(p) \subseteq Known
  BY PathsAssumption DEF Known
<1>2. Known \in SUBSET Seq(Names)
  BY PathsAssumption, EmptySeq DEF Known
<1> QED
  BY <1>1, <1>2, AncestorSelf, ParentAbove

\* The type of an entry says which entry it is.
LEMMA KindsOfEntries ==
    /\ {NoEntry, Whiteout, Dir, Symlink} \subseteq Entries
    /\ \A e \in {NoEntry, Whiteout, Dir, Symlink} : e.type # "File"
    /\ \A id \in 1 .. MaxOps :
           File(id) \in Entries /\ File(id).type = "File" /\ File(id).object = id
    /\ \A e \in Entries :
           /\ e.type = "File" => \E id \in 1 .. MaxOps : e = File(id)
           /\ e.type = "None" => e = NoEntry
           /\ e.type = "Whiteout" => e = Whiteout
           /\ e.type = "Dir" => e = Dir
           /\ e.type = "Symlink" => e = Symlink
           /\ e.type \in {"File", "None", "Whiteout", "Dir", "Symlink"}
<1>1. /\ {NoEntry, Whiteout, Dir, Symlink} \subseteq Entries
      /\ \A e \in {NoEntry, Whiteout, Dir, Symlink} : e.type # "File"
  BY DEF Entries, NoEntry, Whiteout, Dir, Symlink
<1>2. \A id \in 1 .. MaxOps :
          File(id) \in Entries /\ File(id).type = "File" /\ File(id).object = id
  BY DEF Entries, File
<1>3. ASSUME NEW e \in Entries
      PROVE  /\ e.type = "File" => \E id \in 1 .. MaxOps : e = File(id)
             /\ e.type = "None" => e = NoEntry
             /\ e.type = "Whiteout" => e = Whiteout
             /\ e.type = "Dir" => e = Dir
             /\ e.type = "Symlink" => e = Symlink
             /\ e.type \in {"File", "None", "Whiteout", "Dir", "Symlink"}
  <2>1. CASE e \in {NoEntry, Whiteout, Dir, Symlink}
    BY <2>1 DEF NoEntry, Whiteout, Dir, Symlink
  <2>2. CASE \E id \in 1 .. MaxOps : e = File(id)
    BY <2>2 DEF File
  <2> QED
    BY <2>1, <2>2 DEF Entries
<1> QED
  BY <1>1, <1>2, <1>3

\* One entry is replaced by one that names no object, or the same one, or a new one.
LEMMA PutOne ==
    ASSUME NEW map \in Maps, NEW id \in Nat \ {0}, Owned(map, id), NEW path \in Paths,
           NEW e \in Entries, NEW more \in {id, id + 1},
           \/ e.type # "File" \/ e = map[path]
           \/ e.type = "File" /\ e.object = id /\ more = id + 1
    PROVE  /\ [map EXCEPT ![path] = e] \in Maps
           /\ \A p \in Paths : [map EXCEPT ![path] = e][p] = IF p = path THEN e ELSE map[p]
           /\ Owned([map EXCEPT ![path] = e], more)
<1> DEFINE new == [map EXCEPT ![path] = e]
<1>1. \A p \in Paths : new[p] = IF p = path THEN e ELSE map[p]
  BY DEF Maps
<1>2. new \in Maps
  BY DEF Maps
<1>3. \A p \in Paths : map[p].type = "File" => map[p].object \in Nat /\ map[p].object < id
  BY KindsOfEntries, OpsAssumption DEF Maps, Owned
<1> HIDE DEF new
<1>4. ASSUME NEW p \in Paths, new[p].type = "File" PROVE new[p].object < more
  BY <1>1, <1>3, <1>4
<1>5. ASSUME NEW p \in Paths, NEW q \in Paths, new[p].type = "File", new[p] = new[q]
      PROVE  p = q
  <2>1. CASE e.type # "File" \/ e = map[path]
    BY <1>1, <1>5, <2>1 DEF Owned
  <2>2. CASE e.type = "File" /\ e.object = id
    BY <1>1, <1>3, <1>5, <2>2 DEF Owned
  <2> QED
    BY <2>1, <2>2
<1> QED
  BY <1>1, <1>2, <1>4, <1>5 DEF Owned, new

\* A store with another map and another tree.
LEMMA StoreWith ==
    ASSUME NEW s, s = [map |-> s.map, tree |-> s.tree, next |-> s.next], NEW map, NEW tree,
           NEW t, t = [s EXCEPT !.map = map, !.tree = tree]
    PROVE  /\ t.map = map /\ t.tree = tree /\ t.next = s.next
           /\ t = [map |-> map, tree |-> tree, next |-> s.next]
  OBVIOUS

\* Set writes one entry and lists the path with all above it.
LEMMA SetIs ==
    ASSUME NEW s, StoreOK(s), NEW path \in Paths, NEW e \in Entries,
           e.type # "File" \/ e = s.map[path]
    PROVE  /\ StoreOK(Set(s, path, e))
           /\ \A p \in Paths : Set(s, path, e).map[p] = IF p = path THEN e ELSE s.map[p]
           /\ PathsIn(Set(s, path, e).tree) = PathsIn(s.tree) \cup Ancestors(path)
           /\ Set(s, path, e).next = s.next
<1>1. /\ Set(s, path, e).map = [s.map EXCEPT ![path] = e]
      /\ Set(s, path, e).tree = Insert(s.tree, path)
      /\ Set(s, path, e).next = s.next
      /\ Set(s, path, e) = [map |-> [s.map EXCEPT ![path] = e], tree |-> Insert(s.tree, path),
                            next |-> s.next]
  <2>1. s = [map |-> s.map, tree |-> s.tree, next |-> s.next]
    BY DEF StoreOK
  <2>2. Set(s, path, e)
            = [s EXCEPT !.map = [s.map EXCEPT ![path] = e], !.tree = Insert(s.tree, path)]
    BY Zenon DEF Set
  <2> QED
    BY <2>1, <2>2, StoreWith
<1>2. /\ [s.map EXCEPT ![path] = e] \in Maps
      /\ \A p \in Paths : [s.map EXCEPT ![path] = e][p] = IF p = path THEN e ELSE s.map[p]
      /\ Owned([s.map EXCEPT ![path] = e], s.next)
  BY PutOne DEF StoreOK
<1>3. /\ ExactFor(Insert(s.tree, path), Names)
      /\ PathsIn(Insert(s.tree, path)) = PathsIn(s.tree) \cup Ancestors(path)
  BY PathIs, InsertExact DEF StoreOK
<1>4. PathsIn(Insert(s.tree, path)) \subseteq Known
  BY <1>3, PathIs DEF StoreOK
<1> QED
  BY <1>1, <1>2, <1>3, <1>4 DEF StoreOK

\* EnsureFileObject keeps an object that is there, and gives a new one otherwise.
LEMMA EnsureIs ==
    ASSUME NEW s, StoreOK(s), NEW path \in Paths, s.next <= MaxOps
    PROVE  LET t == EnsureFileObject(s, path)
               had == s.map[path].type = "File"
           IN /\ StoreOK(t)
              /\ \A p \in Paths :
                     t.map[p] = IF p = path /\ ~had THEN File(s.next) ELSE s.map[p]
              /\ PathsIn(t.tree) = PathsIn(s.tree) \cup Ancestors(path)
              /\ t.next = IF had THEN s.next ELSE s.next + 1
<1>1. CASE s.map[path].type = "File"
  <2>1. s.map[path] \in Entries
    BY DEF StoreOK, Maps
  <2> QED
    BY <1>1, <2>1, SetIs DEF EnsureFileObject
<1>2. CASE s.map[path].type # "File"
  <2> DEFINE t == EnsureFileObject(s, path)
  <2>1. s.next \in 1 .. MaxOps /\ s.next \in Nat \ {0}
    BY OpsAssumption DEF StoreOK
  <2>2. File(s.next) \in Entries /\ File(s.next).type = "File" /\ File(s.next).object = s.next
    BY <2>1, KindsOfEntries
  <2>3. /\ t.map = [s.map EXCEPT ![path] = File(s.next)]
        /\ t.tree = Insert(s.tree, path)
        /\ t.next = s.next + 1
        /\ t = [map |-> [s.map EXCEPT ![path] = File(s.next)], tree |-> Insert(s.tree, path),
                next |-> s.next + 1]
    BY <1>2 DEF EnsureFileObject, Set, StoreOK
  <2>4. /\ [s.map EXCEPT ![path] = File(s.next)] \in Maps
        /\ \A p \in Paths :
               [s.map EXCEPT ![path] = File(s.next)][p]
                   = IF p = path THEN File(s.next) ELSE s.map[p]
        /\ Owned([s.map EXCEPT ![path] = File(s.next)], s.next + 1)
    BY <2>1, <2>2, PutOne DEF StoreOK
  <2>5. /\ ExactFor(Insert(s.tree, path), Names)
        /\ PathsIn(Insert(s.tree, path)) = PathsIn(s.tree) \cup Ancestors(path)
    BY PathIs, InsertExact DEF StoreOK
  <2>6. PathsIn(Insert(s.tree, path)) \subseteq Known
    BY <2>5, PathIs DEF StoreOK
  <2> HIDE DEF t
  <2>7. StoreOK(t)
    BY <2>1, <2>3, <2>4, <2>5, <2>6 DEF StoreOK
  <2> QED
    BY <1>2, <2>3, <2>4, <2>5, <2>7 DEF t
<1> QED
  BY <1>1, <1>2

\* DeleteWhiteout takes a whiteout away and leaves the tree.
LEMMA DeleteWhiteoutIs ==
    ASSUME NEW s, StoreOK(s), NEW path \in Paths
    PROVE  LET t == DeleteWhiteout(s, path)
           IN /\ StoreOK(t)
              /\ \A p \in Paths :
                     t.map[p] = IF p = path /\ s.map[p] = Whiteout THEN NoEntry ELSE s.map[p]
              /\ t.tree = s.tree /\ t.next = s.next
<1>1. s.map[path].type = "Whiteout" <=> s.map[path] = Whiteout
  BY KindsOfEntries DEF StoreOK, Maps, Whiteout
<1>2. CASE s.map[path] # Whiteout
  BY <1>1, <1>2 DEF DeleteWhiteout, IsWhiteout
<1>3. CASE s.map[path] = Whiteout
  <2> DEFINE t == DeleteWhiteout(s, path)
  <2>1. /\ t.map = [s.map EXCEPT ![path] = NoEntry]
        /\ t.tree = s.tree /\ t.next = s.next
        /\ t = [map |-> [s.map EXCEPT ![path] = NoEntry], tree |-> s.tree, next |-> s.next]
    BY <1>1, <1>3 DEF DeleteWhiteout, IsWhiteout, StoreOK
  <2>2. /\ [s.map EXCEPT ![path] = NoEntry] \in Maps
        /\ \A p \in Paths :
               [s.map EXCEPT ![path] = NoEntry][p] = IF p = path THEN NoEntry ELSE s.map[p]
        /\ Owned([s.map EXCEPT ![path] = NoEntry], s.next)
    BY KindsOfEntries, PutOne DEF StoreOK
  <2> HIDE DEF t
  <2>3. StoreOK(t)
    BY <2>1, <2>2 DEF StoreOK
  <2> QED
    BY <1>3, <2>1, <2>2, <2>3 DEF t
<1> QED
  BY <1>2, <1>3

\* DeleteFile takes one entry away, and the path and all below it from the tree.
LEMMA DeleteFileIs ==
    ASSUME NEW s, StoreOK(s), NEW path \in Paths
    PROVE  LET t == DeleteFile(s, path)
           IN /\ StoreOK(t)
              /\ \A p \in Paths : t.map[p] = IF p = path THEN NoEntry ELSE s.map[p]
              /\ PathsIn(t.tree) = PathsIn(s.tree) \ Below(PathsIn(s.tree), path)
              /\ t.next = s.next
<1> DEFINE t == DeleteFile(s, path)
<1>1. /\ t.map = [s.map EXCEPT ![path] = NoEntry]
      /\ t.tree = Remove(s.tree, path) /\ t.next = s.next
      /\ t = [map |-> [s.map EXCEPT ![path] = NoEntry], tree |-> Remove(s.tree, path),
              next |-> s.next]
  <2>1. s = [map |-> s.map, tree |-> s.tree, next |-> s.next]
    BY DEF StoreOK
  <2>2. t = [s EXCEPT !.map = [s.map EXCEPT ![path] = NoEntry], !.tree = Remove(s.tree, path)]
    BY Zenon DEF DeleteFile
  <2> QED
    BY <2>1, <2>2, StoreWith
<1>2. /\ [s.map EXCEPT ![path] = NoEntry] \in Maps
      /\ \A p \in Paths :
             [s.map EXCEPT ![path] = NoEntry][p] = IF p = path THEN NoEntry ELSE s.map[p]
      /\ Owned([s.map EXCEPT ![path] = NoEntry], s.next)
  BY KindsOfEntries, PutOne DEF StoreOK
<1>3. /\ ExactFor(Remove(s.tree, path), Names)
      /\ PathsIn(Remove(s.tree, path)) = PathsIn(s.tree) \ Below(PathsIn(s.tree), path)
  BY PathIs, RemoveExact DEF StoreOK
<1> HIDE DEF t
<1>4. StoreOK(t)
  BY <1>1, <1>2, <1>3 DEF StoreOK
<1> QED
  BY <1>1, <1>2, <1>3, <1>4 DEF t

\* Whiteouts at many paths, each of them listed.
LEMMA PutWhiteoutsIs ==
    ASSUME NEW s, StoreOK(s), NEW paths \in SUBSET Paths
    PROVE  LET t == PutWhiteouts(s, paths)
           IN /\ StoreOK(t)
              /\ \A p \in Paths : t.map[p] = IF p \in paths THEN Whiteout ELSE s.map[p]
              /\ PathsIn(t.tree) = PathsIn(s.tree) \cup UNION {Ancestors(p) : p \in paths}
              /\ t.next = s.next
<1> DEFINE t == PutWhiteouts(s, paths)
           new == [p \in Paths |-> IF p \in paths THEN Whiteout ELSE s.map[p]]
<1>1. /\ t.map = new /\ t.tree = InsertAll(s.tree, paths) /\ t.next = s.next
      /\ t = [map |-> new, tree |-> InsertAll(s.tree, paths), next |-> s.next]
  <2>1. s = [map |-> s.map, tree |-> s.tree, next |-> s.next]
    BY DEF StoreOK
  <2> HIDE DEF new
  <2>2. t = [s EXCEPT !.map = new, !.tree = InsertAll(s.tree, paths)]
    BY DEF PutWhiteouts, new
  <2> HIDE DEF t
  <2> QED
    BY <2>1, <2>2
<1>2. \A p \in Paths : new[p] = IF p \in paths THEN Whiteout ELSE s.map[p]
  OBVIOUS
<1>3. new \in Maps
  BY KindsOfEntries DEF StoreOK, Maps
<1> HIDE DEF new
<1>4. Owned(new, s.next)
  BY <1>2, KindsOfEntries DEF StoreOK, Owned
<1>5. /\ ExactFor(InsertAll(s.tree, paths), Names)
      /\ PathsIn(InsertAll(s.tree, paths)) = PathsIn(s.tree) \cup UNION {Ancestors(p) : p \in paths}
  <2>1. paths \in SUBSET Seq(Names)
    BY PathIs
  <2> QED
    BY <2>1, InsertAllExact DEF StoreOK
<1>6. PathsIn(InsertAll(s.tree, paths)) \subseteq Known
  BY <1>5, PathIs DEF StoreOK
<1> HIDE DEF t
<1>7. StoreOK(t)
  BY <1>1, <1>3, <1>4, <1>5, <1>6 DEF StoreOK
<1> QED
  BY <1>1, <1>2, <1>5, <1>7 DEF t

\* Every destination of a rename is a path of the model.
Room(tree, from, to) == \A p \in SubtreePaths(tree, from) : Moved(p, from, to) \in Paths

Apart(from, to) == from \notin Ancestors(to) /\ to \notin Ancestors(from)

\* What is under a path, and what is under that.
LEMMA UnderIs ==
    ASSUME NEW path \in Paths
    PROVE  /\ path \in Under(path) /\ Under(path) \subseteq Paths
           /\ Inside(path) \subseteq Under(path)
           /\ \A p \in Under(path), q \in Paths : p \in Ancestors(q) => q \in Under(path)
           /\ \A to \in Paths : Apart(path, to) => Under(path) \cap Under(to) = {}
<1>1. \A p \in Under(path), q \in Paths : p \in Ancestors(q) => q \in Under(path)
  BY PathIs, AncestorTransitive DEF Under
<1>2. ASSUME NEW to \in Paths, Apart(path, to), NEW q \in Under(path) \cap Under(to)
      PROVE  FALSE
  <2>1. q \in Seq(Names) /\ path \in Ancestors(q) /\ to \in Ancestors(q)
    BY PathIs DEF Under
  <2> QED
    BY <1>2, <2>1, AncestorsNested DEF Apart
<1> QED
  BY <1>1, <1>2, PathIs DEF Under, Inside

\* Moving what is under one path to under another, and back.
LEMMA MoveIs ==
    ASSUME NEW from \in Paths, NEW to \in Paths, NEW p \in Under(from)
    PROVE  /\ Moved(p, from, to) \in Seq(Names) /\ to \in Ancestors(Moved(p, from, to))
           /\ Moved(Moved(p, from, to), to, from) = p
           /\ Moved(from, from, to) = to
<1>1. /\ p \in Seq(Names) /\ from \in Seq(Names) /\ to \in Seq(Names) /\ from \in Ancestors(p)
  BY PathIs DEF Under
<1> QED
  BY <1>1, MovedIs, MovedUnder, MovedBack

\* The paths of the tree after a rename.
LEMMA RoomIs ==
    ASSUME NEW tree, ExactFor(tree, Names), PathsIn(tree) \subseteq Known,
           NEW from \in Paths, NEW to \in Paths, Apart(from, to), Room(tree, from, to)
    PROVE  /\ ExactFor(Rename(tree, from, to), Names)
           /\ PathsIn(Rename(tree, from, to)) \subseteq Known
           /\ SubtreePaths(tree, from) = PathsIn(tree) \cap Under(from)
           /\ \A p \in Known : p \in PathsIn(tree) /\ p \notin Under(from) =>
                  p \in PathsIn(Rename(tree, from, to))
           /\ \A p \in PathsIn(tree) \cap Under(from) :
                  /\ Moved(p, from, to) \in Under(to)
                  /\ Moved(p, from, to) \in PathsIn(Rename(tree, from, to))
           /\ PathsIn(Rename(tree, from, to)) \cap Under(from) = {}
<1> DEFINE paths == PathsIn(tree)
<1>1. /\ from \in Seq(Names) /\ to \in Seq(Names) /\ from # <<>> /\ Known \in SUBSET Seq(Names)
  BY PathIs
<1>2. /\ ExactFor(Rename(tree, from, to), Names)
      /\ PathsIn(Rename(tree, from, to)) = Renamed(paths, from, to)
      /\ SubtreePaths(tree, from) = Below(paths, from)
  BY <1>1, RenameExact
<1>3. from \notin Ancestors(<<>>)
  <2>1. <<>> \in Seq(Names) /\ Len(<<>>) = 0
    BY EmptySeq
  <2>2. Len(from) # 0 /\ Len(from) \in Nat
    BY <1>1, EmptySeq, LenProperties
  <2>3. from \in Ancestors(<<>>) => Len(from) <= Len(<<>>)
    BY <2>1, AncestorIs
  <2> QED
    BY <2>1, <2>2, <2>3
<1>4. Below(paths, from) = paths \cap Under(from)
  BY <1>3 DEF Below, Under, Known
<1>5. ASSUME NEW p \in paths \cap Under(from)
      PROVE  /\ Moved(p, from, to) \in Under(to)
             /\ Moved(p, from, to) \in Renamed(paths, from, to)
             /\ Ancestors(Moved(p, from, to)) \subseteq Known
             /\ from \notin Ancestors(Moved(p, from, to))
  <2>1. /\ Moved(p, from, to) \in Paths /\ to \in Ancestors(Moved(p, from, to))
    BY <1>2, <1>4, MoveIs DEF Room
  <2>2. /\ Moved(p, from, to) \in Seq(Names)
        /\ Moved(p, from, to) \in Ancestors(Moved(p, from, to))
        /\ Ancestors(Moved(p, from, to)) \subseteq Known
    BY <2>1, PathIs
  <2>3. from \notin Ancestors(Moved(p, from, to))
    BY <2>1, <2>2, AncestorsNested DEF Apart
  <2> QED
    BY <1>4, <2>1, <2>2, <2>3 DEF Under, Renamed
<1>6. Renamed(paths, from, to) \subseteq Known
  BY <1>4, <1>5 DEF Renamed
<1>7. Renamed(paths, from, to) \cap Under(from) = {}
  <2> SUFFICES ASSUME NEW q \in Renamed(paths, from, to), q \in Under(from) PROVE FALSE
    OBVIOUS
  <2>1. PICK p \in paths \cap Under(from) : q \in Ancestors(Moved(p, from, to))
    BY <1>4 DEF Renamed
  <2>2. Moved(p, from, to) \in Seq(Names) /\ from \in Ancestors(q)
    BY MoveIs DEF Under
  <2>3. from \in Ancestors(Moved(p, from, to))
    BY <2>1, <2>2, AncestorTransitive
  <2> QED
    BY <1>5, <2>3
<1>8. \A p \in Known : p \in paths /\ p \notin Under(from) => p \in Renamed(paths, from, to)
  BY <1>4 DEF Renamed
<1> HIDE DEF paths
<1> QED
  BY <1>2, <1>4, <1>5, <1>6, <1>7, <1>8 DEF paths

\* RenameFile moves one entry, and the subtree of paths.
LEMMA RenameFileIs ==
    ASSUME NEW s, StoreOK(s), NEW from \in Paths, NEW to \in Paths, Apart(from, to),
           Room(s.tree, from, to)
    PROVE  LET t == RenameFile(s, from, to)
           IN /\ StoreOK(t)
              /\ \A p \in Paths : t.map[p] = IF p = to THEN s.map[from]
                                             ELSE IF p = from THEN NoEntry ELSE s.map[p]
              /\ t.tree = Rename(s.tree, from, to) /\ t.next = s.next
<1> DEFINE t == RenameFile(s, from, to)
           new == [s.map EXCEPT ![from] = NoEntry, ![to] = s.map[from]]
<1>1. /\ t.map = new /\ t.tree = Rename(s.tree, from, to) /\ t.next = s.next
      /\ t = [map |-> new, tree |-> Rename(s.tree, from, to), next |-> s.next]
  <2>1. s = [map |-> s.map, tree |-> s.tree, next |-> s.next]
    BY DEF StoreOK
  <2>2. t = [s EXCEPT !.map = new, !.tree = Rename(s.tree, from, to)]
    BY Zenon DEF RenameFile
  <2> QED
    BY <2>1, <2>2, StoreWith
<1>2. from # to
  BY PathIs DEF Apart
<1>3. /\ new \in Maps
      /\ \A p \in Paths : new[p] = IF p = to THEN s.map[from]
                                   ELSE IF p = from THEN NoEntry ELSE s.map[p]
  BY <1>2, KindsOfEntries DEF StoreOK, Maps
<1> HIDE DEF new
<1>4. Owned(new, s.next)
  <2>1. \A p \in Paths : new[p].type = "File" => new[p].object < s.next
    BY <1>3, KindsOfEntries DEF StoreOK, Owned
  <2>2. ASSUME NEW p \in Paths, NEW q \in Paths, new[p].type = "File", new[p] = new[q]
        PROVE  p = q
    BY <1>2, <1>3, <2>2, KindsOfEntries DEF StoreOK, Owned
  <2> QED
    BY <2>1, <2>2 DEF Owned
<1>5. /\ ExactFor(Rename(s.tree, from, to), Names)
      /\ PathsIn(Rename(s.tree, from, to)) \subseteq Known
  BY RoomIs DEF StoreOK
<1> HIDE DEF t
<1>6. StoreOK(t)
  BY <1>1, <1>3, <1>4, <1>5 DEF StoreOK
<1> QED
  BY <1>1, <1>3, <1>6 DEF t

\* The entries that RenameTree moves, and where they come from.
OldEntries(s, from) == {p \in PathsIn(s.tree) \cap Under(from) : Exists(s.map[p])}

NewEntries(s, from, to) == {Moved(p, from, to) : p \in OldEntries(s, from)}

\* RenameTree moves the entries that the tree has below the source.
LEMMA RenameTreeMoves ==
    ASSUME NEW s, StoreOK(s), NEW from \in Paths, NEW to \in Paths, Apart(from, to),
           Room(s.tree, from, to)
    PROVE  LET t   == RenameTree(s, from, to)
               old == OldEntries(s, from)
               new == NewEntries(s, from, to)
           IN /\ StoreOK(t)
              /\ old \subseteq Under(from) /\ new \subseteq Under(to)
              /\ \A p \in new :
                     Moved(p, to, from) \in old /\ p = Moved(Moved(p, to, from), from, to)
              /\ \A p \in Paths : t.map[p] = IF p \in new THEN s.map[Moved(p, to, from)]
                                             ELSE IF p \in old THEN NoEntry ELSE s.map[p]
              /\ t.tree = Rename(s.tree, from, to) /\ t.next = s.next
<1> DEFINE t   == RenameTree(s, from, to)
           old == OldEntries(s, from)
           new == NewEntries(s, from, to)
           map == [p \in Paths |-> IF p \in new THEN s.map[Moved(p, to, from)]
                                   ELSE IF p \in old THEN NoEntry ELSE s.map[p]]
<1>1. /\ SubtreePaths(s.tree, from) = PathsIn(s.tree) \cap Under(from)
      /\ \A p \in PathsIn(s.tree) \cap Under(from) : Moved(p, from, to) \in Under(to)
      /\ ExactFor(Rename(s.tree, from, to), Names)
      /\ PathsIn(Rename(s.tree, from, to)) \subseteq Known
  BY RoomIs DEF StoreOK
<1>2. old = {p \in SubtreePaths(s.tree, from) : Exists(s.map[p])}
  BY <1>1 DEF OldEntries
<1>3. new = {Moved(p, from, to) : p \in old}
  BY DEF NewEntries
<1>4. /\ t.map = map /\ t.tree = Rename(s.tree, from, to) /\ t.next = s.next
      /\ t = [map |-> map, tree |-> Rename(s.tree, from, to), next |-> s.next]
  <2>1. s = [map |-> s.map, tree |-> s.tree, next |-> s.next]
    BY DEF StoreOK
  <2> HIDE DEF old, new
  <2>2. t = [s EXCEPT !.map = map, !.tree = Rename(s.tree, from, to)]
    BY <1>2, <1>3, Zenon DEF RenameTree
  <2> HIDE DEF t, map
  <2> QED
    BY <2>1, <2>2, StoreWith
<1>5. old \subseteq Under(from) /\ old \subseteq Paths
  BY DEF OldEntries, Under
<1>6. new \subseteq Under(to)
  BY <1>1, <1>3 DEF OldEntries
<1>7. \A p \in new : Moved(p, to, from) \in old /\ p = Moved(Moved(p, to, from), from, to)
  BY <1>3, <1>5, MoveIs
<1> HIDE DEF old, new
<1>8. \A p \in Paths : map[p] = IF p \in new THEN s.map[Moved(p, to, from)]
                                ELSE IF p \in old THEN NoEntry ELSE s.map[p]
  OBVIOUS
<1>9. map \in Maps
  BY <1>5, <1>7, KindsOfEntries DEF StoreOK, Maps
<1> HIDE DEF map
<1>10. Owned(map, s.next)
  <2>1. \A p \in Paths : map[p].type = "File" => map[p].object < s.next
    BY <1>5, <1>7, <1>8, KindsOfEntries DEF StoreOK, Owned
  <2>2. ASSUME NEW p \in Paths, NEW q \in Paths, map[p].type = "File", map[p] = map[q]
        PROVE  p = q
    <3> DEFINE src(x) == IF x \in new THEN Moved(x, to, from) ELSE x
    <3>1. /\ src(p) \in Paths /\ src(q) \in Paths
          /\ map[p] = s.map[src(p)] /\ map[q] = s.map[src(q)]
          /\ p \notin new => p \notin old
          /\ q \notin new => q \notin old
      BY <1>5, <1>7, <1>8, <2>2, KindsOfEntries
    <3>2. src(p) = src(q)
      BY <2>2, <3>1 DEF StoreOK, Owned
    <3> QED
      BY <1>7, <3>1, <3>2
  <2> QED
    BY <2>1, <2>2 DEF Owned
<1> HIDE DEF t
<1>11. StoreOK(t)
  BY <1>1, <1>4, <1>9, <1>10 DEF StoreOK
<1> QED
  BY <1>4, <1>5, <1>6, <1>7, <1>8, <1>11 DEF t, old, new

-----------------------------------------------------------------------------
(* What a path shows, and the invariant.                                   *)

\* What is shown, from the mode, the host's file, the daemon's entry and the objects.
View(md, h, e, c) ==
    IF e.type = "File" THEN Regular(c[e.object])
    ELSE IF e.type = "Dir" THEN Directory
    ELSE IF e.type = "Symlink" THEN Link
    ELSE IF md = "CopyOnWrite" /\ e.type = "None" /\ h = "File" THEN Regular({0})
    ELSE IF md = "CopyOnWrite" /\ e.type = "None" /\ h = "Dir" THEN Directory
    ELSE Nothing

Things == [kind : {"None", "File", "Dir", "Symlink"}, chunks : SUBSET Nat]
Dentries == [number : Paths, kind : {"File", "Dir", "Symlink"}]

\* What the daemon has and what it has written.
StoreTypes ==
    /\ StoreOK(store) /\ store.next <= ops + 1
    /\ content \in [1 .. MaxOps -> SUBSET Nat]
    /\ \A id \in 1 .. MaxOps : id >= store.next => content[id] = {}

FsTypes ==
    /\ mode \in Modes /\ host \in Hosts
    /\ StoreTypes
    /\ dentry \in [Paths -> Dentries \cup {Nil}]
    /\ ops \in 0 .. MaxOps
    /\ ref \in [Paths -> Things] /\ astray \in SUBSET Paths

\* What is above a path, but for the root.
Upward(n) == Ancestors(n) \ {<<>>, n}

\* What the kernel has is below directories that it has.
Rooted ==
    \A n \in Paths : dentry[n] # Nil =>
        \A a \in Upward(n) : dentry[a] # Nil /\ dentry[a].kind = "Dir"

\* A path is below directories.
InTree(n) == \A a \in Upward(n) : Shown(a).kind = "Dir"

\* What is shown is what should be, and is below directories; what the daemon has an
\* entry for is in its tree, whiteouts where the host has nothing excepted; and where the
\* host's file shows through there is no entry above.
Fine(n) ==
    /\ Shown(n) = ref[n]
    /\ ref[n] # Nothing => InTree(n)
    /\ Exists(store.map[n]) /\ n \notin PathsIn(store.tree) =>
           IsWhiteout(store.map[n]) /\ ~HostHas(n)
    /\ mode = "CopyOnWrite" /\ HostHas(n) /\ store.map[n] = NoEntry =>
           \A a \in Upward(n) : store.map[a] = NoEntry

FsInv ==
    /\ FsTypes
    /\ Rooted
    /\ \A n \in Paths \ astray : Fine(n)

-----------------------------------------------------------------------------
(* Facts about views.                                                      *)

\* What a view tells of the entry and the host.
LEMMA ViewIs ==
    ASSUME NEW md \in Modes, NEW h \in {"None", "File", "Dir"}, NEW e \in Entries,
           NEW c \in [1 .. MaxOps -> SUBSET Nat]
    PROVE  /\ View(md, h, e, c) \in Things
           /\ View(md, h, e, c) = Nothing <=>
                  e = Whiteout \/ (e = NoEntry /\ (md # "CopyOnWrite" \/ h = "None"))
           /\ View(md, h, e, c) = Nothing <=> View(md, h, e, c).kind = "None"
           /\ e.type \in {"File", "Dir", "Symlink"} => View(md, h, e, c).kind = e.type
           /\ e = NoEntry /\ md = "CopyOnWrite" => View(md, h, e, c).kind = h
           /\ \A h2 : e # NoEntry => View(md, h2, e, c) = View(md, h, e, c)
<1>1. CASE e.type = "File"
  <2>1. PICK id \in 1 .. MaxOps : e = File(id)
    BY <1>1, KindsOfEntries
  <2>2. c[e.object] \in SUBSET Nat
    BY <2>1, KindsOfEntries
  <2>3. View(md, h, e, c) = Regular(c[e.object])
    BY <1>1 DEF View
  <2> QED
    BY <1>1, <2>2, <2>3 DEF View, Things, Nothing, Regular, Whiteout, NoEntry
<1>2. CASE e = Whiteout
  <2>1. \A h2 : View(md, h2, e, c) = Nothing
    BY <1>2 DEF View, Whiteout
  <2> QED
    BY <1>2, <2>1 DEF Things, Nothing, Whiteout, NoEntry
<1>4. CASE e = Dir
  <2>1. \A h2 : View(md, h2, e, c) = Directory
    BY <1>4 DEF View, Dir
  <2> QED
    BY <1>4, <2>1 DEF Things, Nothing, Directory, Dir, Whiteout, NoEntry
<1>5. CASE e = Symlink
  <2>1. \A h2 : View(md, h2, e, c) = Link
    BY <1>5 DEF View, Symlink
  <2> QED
    BY <1>5, <2>1 DEF Things, Nothing, Link, Symlink, Whiteout, NoEntry
<1>3. CASE e = NoEntry
  <2>1. e.type = "None"
    BY <1>3 DEF NoEntry
  <2>2. View(md, h, e, c) = IF md = "CopyOnWrite" /\ h = "File" THEN Regular({0})
                            ELSE IF md = "CopyOnWrite" /\ h = "Dir" THEN Directory
                            ELSE Nothing
    BY <2>1 DEF View
  <2>3. /\ Regular({0}) \in Things /\ Directory \in Things /\ Nothing \in Things
        /\ Regular({0}).kind = "File" /\ Directory.kind = "Dir" /\ Nothing.kind = "None"
    BY DEF Things, Nothing, Directory, Regular
  <2>4. e # Whiteout
    BY <1>3 DEF Whiteout, NoEntry
  <2> QED
    BY <1>3, <2>1, <2>2, <2>3, <2>4
<1> QED
  BY <1>1, <1>2, <1>3, <1>4, <1>5, KindsOfEntries

\* What stat_path shows is the view.
LEMMA ShownIs ==
    ASSUME mode \in Modes, host \in Hosts, store.map \in Maps, NEW n \in Paths
    PROVE  Shown(n) = View(mode, host[n], store.map[n], content)
<1>1. mode \in {"CopyOnWrite", "FuseOnly"}
  BY ModesAssumption
<1>2. host[n] \in {"None", "File", "Dir"}
  BY HostsAssumption
<1>3. store.map[n] \in Entries
  BY DEF Maps
<1>4. store.map[n].type \in {"File", "None", "Whiteout", "Dir", "Symlink"}
  BY <1>3, KindsOfEntries
<1> QED
  BY <1>1, <1>2, <1>4 DEF Shown, View, DecideStat, HostHas, FromHost, FromEntry, Exists, IsWhiteout

\* The same after a step.
LEMMA ShownNext ==
    ASSUME mode' \in Modes, host' \in Hosts, store'.map \in Maps, NEW n \in Paths
    PROVE  Shown(n)' = View(mode', host'[n], store'.map[n], content')
<1>1. mode' \in {"CopyOnWrite", "FuseOnly"}
  BY ModesAssumption
<1>2. host'[n] \in {"None", "File", "Dir"}
  BY HostsAssumption
<1>3. store'.map[n] \in Entries
  BY DEF Maps
<1>4. store'.map[n].type \in {"File", "None", "Whiteout", "Dir", "Symlink"}
  BY <1>3, KindsOfEntries
<1> QED
  BY <1>1, <1>2, <1>4 DEF Shown, View, DecideStat, HostHas, FromHost, FromEntry, Exists, IsWhiteout

\* What is said of an entry by what is shown.
LEMMA ShownTells ==
    ASSUME FsTypes, NEW n \in Paths
    PROVE  /\ Shown(n) = View(mode, host[n], store.map[n], content)
           /\ store.map[n] \in Entries /\ host[n] \in {"None", "File", "Dir"}
           /\ Shown(n) \in Things
           /\ Shown(n) = Nothing <=> Shown(n).kind = "None"
           /\ Shown(n) = Nothing <=>
                  \/ store.map[n] = Whiteout
                  \/ store.map[n] = NoEntry /\ (mode # "CopyOnWrite" \/ ~HostHas(n))
           /\ store.map[n].type \in {"File", "Dir", "Symlink"} =>
                  Shown(n).kind = store.map[n].type
           /\ store.map[n] = NoEntry /\ mode = "CopyOnWrite" => Shown(n).kind = host[n]
<1>1. Shown(n) = View(mode, host[n], store.map[n], content)
  BY ShownIs DEF FsTypes, StoreTypes, StoreOK
<1>2. store.map[n] \in Entries
  BY DEF FsTypes, StoreTypes, StoreOK, Maps
<1>3. host[n] \in {"None", "File", "Dir"}
  BY HostsAssumption DEF FsTypes
<1>4. mode \in Modes /\ content \in [1 .. MaxOps -> SUBSET Nat]
  BY DEF FsTypes, StoreTypes
<1> QED
  BY <1>1, <1>2, <1>3, <1>4, ViewIs DEF HostHas

\* The same after a step.
LEMMA NextTells ==
    ASSUME FsTypes', NEW n \in Paths
    PROVE  /\ Shown(n)' = View(mode', host'[n], store'.map[n], content')
           /\ store'.map[n] \in Entries /\ host'[n] \in {"None", "File", "Dir"}
           /\ Shown(n)' = Nothing <=>
                  \/ store'.map[n] = Whiteout
                  \/ store'.map[n] = NoEntry /\ (mode' # "CopyOnWrite" \/ ~HostHas(n)')
<1>1. Shown(n)' = View(mode', host'[n], store'.map[n], content')
  BY ShownNext DEF FsTypes, StoreTypes, StoreOK
<1>2. store'.map[n] \in Entries
  BY DEF FsTypes, StoreTypes, StoreOK, Maps
<1>3. host'[n] \in {"None", "File", "Dir"}
  BY HostsAssumption DEF FsTypes
<1>4. mode' \in Modes /\ content' \in [1 .. MaxOps -> SUBSET Nat]
  BY DEF FsTypes, StoreTypes
<1> QED
  BY <1>1, <1>2, <1>3, <1>4, ViewIs DEF HostHas

-----------------------------------------------------------------------------
(* Paths that stay fine.                                                   *)

\* What is not at all changed, and has nothing above it that is.
LEMMA Kept ==
    ASSUME FsTypes, FsTypes', mode' = mode, host' = host,
           NEW W \in SUBSET Paths, \A p \in W, q \in Paths : p \in Ancestors(q) => q \in W,
           \A p \in Paths \ W :
               /\ store'.map[p] = store.map[p] /\ ref'[p] = ref[p]
               /\ store.map[p].type = "File" =>
                      content'[store.map[p].object] = content[store.map[p].object]
               /\ p \in PathsIn(store.tree) => p \in PathsIn(store'.tree),
           NEW n \in Paths \ W, Fine(n)
    PROVE  Fine(n)'
<1>1. ASSUME NEW p \in Paths \ W PROVE Shown(p)' = Shown(p)
  <2>1. View(mode', host'[p], store'.map[p], content') = View(mode, host[p], store.map[p], content)
    BY DEF View
  <2> QED
    BY <2>1, ShownTells, NextTells
<1>2. Upward(n) \subseteq Paths \ W
  BY PathIs DEF Upward, Known
<1>3. (ref[n] # Nothing => InTree(n)) => (ref[n] # Nothing => InTree(n))'
  BY <1>1, <1>2 DEF InTree
<1> QED
  BY <1>1, <1>2, <1>3 DEF Fine, HostHas

\* What is gone, unless it is a whiteout that is not in the tree.
LEMMA Gone ==
    ASSUME FsTypes', NEW n \in Paths, Shown(n)' = Nothing, ref'[n] = Nothing,
           store'.map[n] = Whiteout /\ HostHas(n)' => n \in PathsIn(store'.tree)
    PROVE  Fine(n)'
<1>1. \/ store'.map[n] = Whiteout
      \/ store'.map[n] = NoEntry /\ (mode' # "CopyOnWrite" \/ ~HostHas(n)')
  BY NextTells
<1>2. /\ Whiteout.type = "Whiteout" /\ NoEntry.type = "None" /\ Whiteout # NoEntry
  BY DEF Whiteout, NoEntry
<1>3. (ref[n] # Nothing => InTree(n))'
  OBVIOUS
<1> QED
  BY <1>1, <1>2, <1>3 DEF Fine, Exists, IsWhiteout

-----------------------------------------------------------------------------
(* Names and numbers.                                                      *)

\* What is above a path that is above another is above the other.
LEMMA UpwardIs ==
    ASSUME NEW p \in Paths
    PROVE  /\ Upward(p) \subseteq Paths
           /\ \A a \in Upward(p) : p \notin Ancestors(a) /\ Upward(a) \subseteq Upward(p)
           /\ \A q \in Paths : q \notin Ancestors(p) => Upward(p) \cap Under(q) = {}
           /\ Upward(p) \cap Under(p) = {}
<1>1. p \in Seq(Names) /\ Ancestors(p) \subseteq Known
  BY PathIs
<1>2. Upward(p) \subseteq Paths
  BY <1>1 DEF Upward, Known
<1>3. ASSUME NEW a \in Upward(p) PROVE p \notin Ancestors(a)
  BY <1>1, <1>3, AncestorOnce DEF Upward
<1>4. ASSUME NEW a \in Upward(p) PROVE Ancestors(a) \subseteq Ancestors(p)
  BY <1>1, <1>4, AncestorTransitive DEF Upward
<1>5. ASSUME NEW a \in Upward(p) PROVE Upward(a) \subseteq Upward(p)
  BY <1>3, <1>4 DEF Upward
<1> QED
  BY <1>2, <1>3, <1>4, <1>5 DEF Under

\* A name in a directory that the kernel knows is below directories it knows.
LEMMA ReachedThrough ==
    ASSUME Rooted, NEW name \in Paths, Is(Parent(name), {"Dir"}), NEW a \in Upward(name)
    PROVE  dentry[a] # Nil /\ dentry[a].kind = "Dir"
<1>1. name \in Seq(Names) /\ name # <<>> /\ Parent(name) \in Known
  BY PathIs
<1>2. a \in Ancestors(Parent(name)) /\ a # <<>>
  BY <1>1, AboveParent DEF Upward
<1>3. Parent(name) # <<>>
  <2>1. <<>> \in Seq(Names) /\ Len(<<>>) = 0
    BY EmptySeq
  <2>2. a \in Ancestors(<<>>) => a \in Seq(Names) /\ Len(a) <= 0
    BY <2>1, AncestorIs
  <2>3. a \in Seq(Names) /\ Len(a) <= 0 => a = <<>>
    BY EmptySeq, LenProperties
  <2> QED
    BY <1>2, <2>2, <2>3
<1>4. Parent(name) \in Paths /\ dentry[Parent(name)] # Nil /\ dentry[Parent(name)].kind = "Dir"
  BY <1>1, <1>3 DEF Is, Known
<1>5. CASE a = Parent(name)
  BY <1>4, <1>5
<1>6. CASE a # Parent(name)
  BY <1>2, <1>4, <1>6 DEF Rooted, Upward
<1> QED
  BY <1>5, <1>6

\* A name that leads nowhere else is its own path, and what the kernel has for it and
\* above it is what is shown.
LEMMA Straight ==
    ASSUME FsTypes, Rooted, NEW name \in Paths, NEW path, Misled(name, path) = {}
    PROVE  /\ path = name
           /\ dentry[name] # Nil => dentry[name].kind = Shown(name).kind
           /\ Is(Parent(name), {"Dir"}) => InTree(name)
<1>1. name \in Under(name) /\ name \in Ancestors(name) /\ name # <<>>
  BY UnderIs, PathIs
<1>2. path = name /\ \A a \in Ancestors(name) : ~Stale(a)
  BY <1>1 DEF Misled
<1>3. dentry[name] # Nil => dentry[name].kind = Shown(name).kind
  BY <1>1, <1>2 DEF Stale
<1>4. ASSUME Is(Parent(name), {"Dir"}), NEW a \in Upward(name) PROVE Shown(a).kind = "Dir"
  <2>1. dentry[a] # Nil /\ dentry[a].kind = "Dir"
    BY <1>4, ReachedThrough
  <2> QED
    BY <1>2, <2>1 DEF Stale, Upward
<1> QED
  BY <1>2, <1>3, <1>4 DEF InTree

\* A name and all below it are forgotten.
LEMMA RootedDrop ==
    ASSUME Rooted, NEW name \in Paths, dentry' = Drop(dentry, name)
    PROVE  Rooted'
<1> SUFFICES ASSUME NEW n \in Paths, dentry'[n] # Nil, NEW a \in Upward(n)
             PROVE  dentry'[a] # Nil /\ dentry'[a].kind = "Dir"
  BY DEF Rooted
<1>1. n \notin Under(name) /\ dentry[n] # Nil
  BY DEF Drop
<1>2. a \in Paths /\ a \notin Under(name)
  BY <1>1, UpwardIs DEF Under
<1>3. dentry'[a] = dentry[a]
  BY <1>2 DEF Drop
<1> QED
  BY <1>1, <1>3 DEF Rooted

\* A name is learnt in a directory that the kernel knows.
LEMMA RootedKnows ==
    ASSUME Rooted, NEW name \in Paths, Is(Parent(name), {"Dir"}), NEW path, NEW kind,
           dentry' = Knows(name, path, kind)
    PROVE  Rooted'
<1> SUFFICES ASSUME NEW n \in Paths, dentry'[n] # Nil, NEW a \in Upward(n)
             PROVE  dentry'[a] # Nil /\ dentry'[a].kind = "Dir"
  BY DEF Rooted
<1>1. \A p \in Paths : p # name => dentry'[p] = Drop(dentry, name)[p]
  BY DEF Knows, Drop
<1>2. CASE n = name
  <2>1. a \in Paths /\ a \notin Under(name)
    BY <1>2, UpwardIs
  <2>2. dentry'[a] = dentry[a]
    BY <1>1, <2>1, UnderIs DEF Drop
  <2> QED
    BY <1>2, <2>2, ReachedThrough
<1>3. CASE n # name
  <2>1. n \notin Under(name) /\ dentry[n] # Nil
    BY <1>1, <1>3 DEF Drop
  <2>2. a \in Paths /\ a \notin Under(name)
    BY <2>1, UpwardIs DEF Under
  <2>3. dentry'[a] = dentry[a]
    BY <1>1, <2>2, UnderIs DEF Drop
  <2> QED
    BY <2>1, <2>3 DEF Rooted
<1> QED
  BY <1>2, <1>3

\* What moves is below what it was below, or below what the destination is below.
LEMMA MovedUpward ==
    ASSUME NEW from \in Paths, NEW to \in Paths, Apart(from, to),
           NEW n \in Under(to), NEW m \in Paths, m = Moved(n, to, from), NEW a \in Upward(n)
    PROVE  /\ m \in Under(from)
           /\ \/ a \in Upward(to) /\ a \notin Under(from) /\ a \notin Under(to)
              \/ /\ a \in Under(to) /\ Moved(a, to, from) \in Under(from)
                 /\ Moved(a, to, from) \in Upward(m)
<1>1. /\ n \in Seq(Names) /\ to \in Seq(Names) /\ from \in Seq(Names) /\ to \in Ancestors(n)
      /\ n \in Paths /\ a \in Ancestors(n) /\ a # n /\ a # <<>>
  BY PathIs DEF Under, Upward
<1>2. a \in Paths /\ a \in Seq(Names)
  BY <1>1, UpwardIs, PathIs
<1>3. m \in Under(from)
  BY <1>1, MoveIs DEF Under
<1>4. CASE to \in Ancestors(a)
  <2> DEFINE b == Moved(a, to, from)
  <2>1. a \in Under(to)
    BY <1>2, <1>4 DEF Under
  <2>2. b \in Ancestors(m) /\ from \in Ancestors(b)
    BY <1>1, <1>4, <2>1, MovedAbove, MoveIs
  <2>3. b \in Known
    BY <2>2, PathIs
  <2>4. b # <<>>
    <3>1. from \in Seq(Names) /\ from # <<>> /\ Len(from) \in Nat /\ Len(from) # 0
      BY PathIs, EmptySeq, LenProperties
    <3>2. <<>> \in Seq(Names) /\ Len(<<>>) = 0
      BY EmptySeq
    <3>3. from \in Ancestors(<<>>) => Len(from) <= Len(<<>>)
      BY <3>2, AncestorIs
    <3> QED
      BY <2>2, <3>1, <3>2, <3>3
  <2>5. b # m
    <3>1. Moved(b, from, to) = a /\ Moved(m, from, to) = n
      BY <2>1, MoveIs
    <3> QED
      BY <1>1, <3>1
  <2> QED
    BY <1>3, <2>1, <2>2, <2>3, <2>4, <2>5 DEF Under, Upward, Known
<1>5. CASE to \notin Ancestors(a)
  <2>1. a \in Ancestors(to)
    BY <1>1, <1>5, AncestorsNested
  <2>2. from \notin Ancestors(a)
    BY <1>1, <2>1, AncestorTransitive DEF Apart
  <2>3. a # to
    BY <1>5, PathIs
  <2> QED
    BY <1>1, <1>3, <1>5, <2>1, <2>2, <2>3 DEF Under, Upward
<1> QED
  BY <1>4, <1>5

\* A name and all below it are moved to a directory that the kernel knows.
LEMMA RootedMove ==
    ASSUME Rooted, NEW from \in Paths, NEW to \in Paths, Apart(from, to),
           Is(Parent(to), {"Dir"}), dentry' = MovedTo(dentry, from, to, Nil)
    PROVE  Rooted'
<1> SUFFICES ASSUME NEW n \in Paths, dentry'[n] # Nil, NEW a \in Upward(n)
             PROVE  dentry'[a] # Nil /\ dentry'[a].kind = "Dir"
  BY DEF Rooted
<1>1. \A p \in Paths :
          dentry'[p] = IF p \in Under(from) THEN Nil
                       ELSE IF p \notin Under(to) THEN dentry[p]
                       ELSE IF Moved(p, to, from) \in Paths THEN dentry[Moved(p, to, from)]
                       ELSE Nil
  BY DEF MovedTo
<1>2. n \notin Under(from) /\ a \in Paths
  BY <1>1, UpwardIs
<1>3. CASE n \in Under(to)
  <2> DEFINE m == Moved(n, to, from)
  <2>1. m \in Paths /\ dentry[m] # Nil
    BY <1>1, <1>2, <1>3
  <2>2. CASE a \in Upward(to) /\ a \notin Under(from) /\ a \notin Under(to)
    BY <1>1, <1>2, <2>2, ReachedThrough
  <2>3. CASE /\ a \in Under(to) /\ Moved(a, to, from) \in Under(from)
             /\ Moved(a, to, from) \in Upward(m)
    <3>1. a \notin Under(from)
      BY <2>3, UnderIs
    <3>2. dentry'[a] = dentry[Moved(a, to, from)]
      BY <1>1, <1>2, <2>3, <3>1, UnderIs
    <3> QED
      BY <2>1, <2>3, <3>2 DEF Rooted
  <2> QED
    BY <1>3, <2>1, <2>2, <2>3, MovedUpward
<1>4. CASE n \notin Under(to)
  <2>1. dentry[n] # Nil /\ dentry'[a] = dentry[a]
    BY <1>1, <1>2, <1>4, UpwardIs DEF Under
  <2> QED
    BY <2>1 DEF Rooted
<1> QED
  BY <1>3, <1>4

-----------------------------------------------------------------------------
(* The handlers.                                                           *)

\* A handler that changes the entry of one path and what is under it, and what should
\* be under one name.
LEMMA Elsewhere ==
    ASSUME FsInv, FsTypes', mode' = mode, host' = host,
           NEW name \in Paths, NEW path \in Paths, NEW lost,
           astray' = astray \cup Misled(name, path) \cup lost,
           \A p \in Paths \ Under(path) :
               /\ store'.map[p] = store.map[p]
               /\ store.map[p].type = "File" =>
                      content'[store.map[p].object] = content[store.map[p].object]
               /\ p \in PathsIn(store.tree) => p \in PathsIn(store'.tree),
           \A p \in Paths \ Under(name) : ref'[p] = ref[p],
           Misled(name, path) = {} => \A n \in Under(name) \ astray' : Fine(n)'
    PROVE  \A n \in Paths \ astray' : Fine(n)'
<1> SUFFICES ASSUME NEW n \in Paths \ astray' PROVE Fine(n)'
  OBVIOUS
<1> DEFINE W == Under(name) \cup Under(path)
<1>1. W \in SUBSET Paths /\ \A p \in W, q \in Paths : p \in Ancestors(q) => q \in W
  BY UnderIs
<1>2. Fine(n)
  BY DEF FsInv
<1>3. CASE n \notin W
  <2> HIDE DEF W
  <2>1. \A p \in Paths \ W : p \in Paths \ Under(path) /\ p \in Paths \ Under(name)
    BY DEF W
  <2> QED
    BY <1>1, <1>2, <1>3, <2>1, Kept DEF FsInv
<1>4. CASE n \in W
  <2>1. Misled(name, path) = {}
    BY <1>4 DEF Misled
  <2>2. name = path
    BY <2>1, Straight DEF FsInv
  <2> QED
    BY <1>4, <2>1, <2>2
<1> QED
  BY <1>3, <1>4

\* A path below one that is no directory has nothing, and is nothing.
LEMMA NothingInside ==
    ASSUME FsInv, NEW p \in Paths, Shown(p).kind # "Dir", NEW n \in Inside(p) \ astray
    PROVE  /\ ref[n] = Nothing /\ Shown(n) = Nothing /\ n \in Paths
           /\ store.map[n] = Whiteout \/ store.map[n] = NoEntry
           /\ store.map[n] = Whiteout /\ HostHas(n) => n \in PathsIn(store.tree)
<1>1. n \in Paths /\ p \in Upward(n) /\ Fine(n)
  BY PathIs DEF Inside, Under, Upward, FsInv
<1>2. ref[n] = Nothing /\ Shown(n) = Nothing
  BY <1>1 DEF Fine, InTree
<1>3. Whiteout.type = "Whiteout"
  BY DEF Whiteout
<1> QED
  BY <1>1, <1>2, <1>3, ShownTells DEF FsInv, Fine, Exists

\* Only paths go astray.
LEMMA Misses ==
    ASSUME NEW name \in Paths, NEW path \in Paths
    PROVE  Misled(name, path) \in SUBSET Paths
  BY UnderIs DEF Misled

\* What is inside a path whose own entry is all that changes, and that was not a directory.
LEMMA InsideKept ==
    ASSUME FsInv, FsTypes', mode' = mode, host' = host, NEW p \in Paths, Shown(p).kind # "Dir",
           NEW n \in Inside(p), n \notin astray,
           store'.map[n] = store.map[n], ref'[n] = ref[n],
           HostHas(n) /\ n \in PathsIn(store.tree) => n \in PathsIn(store'.tree)
    PROVE  Fine(n)'
<1>1. /\ ref[n] = Nothing /\ Shown(n) = Nothing /\ n \in Paths
      /\ store.map[n] = Whiteout \/ store.map[n] = NoEntry
      /\ store.map[n] = Whiteout /\ HostHas(n) => n \in PathsIn(store.tree)
  BY NothingInside
<1>2. HostHas(n)' <=> HostHas(n)
  BY DEF HostHas
<1>3. Shown(n)' = Nothing
  BY <1>1, <1>2, ShownTells, NextTells DEF FsInv
<1> QED
  BY <1>1, <1>2, <1>3, Gone

\* The path of an entry that is put where something should be.
LEMMA PutHere ==
    ASSUME FsInv, FsTypes', mode' = mode, host' = host, NEW p \in Paths, InTree(p),
           \A a \in Paths \ {p} :
               /\ store'.map[a] = store.map[a]
               /\ store.map[a].type = "File" =>
                      content'[store.map[a].object] = content[store.map[a].object],
           store'.map[p] # NoEntry, p \in PathsIn(store'.tree), Shown(p)' = ref'[p]
    PROVE  Fine(p)'
<1>1. ASSUME NEW a \in Upward(p) PROVE Shown(a)' = Shown(a)
  <2>1. a \in Paths \ {p}
    BY UpwardIs DEF Upward
  <2>2. View(mode', host'[a], store'.map[a], content') = View(mode, host[a], store.map[a], content)
    BY <2>1 DEF View
  <2> QED
    BY <2>1, <2>2, ShownTells, NextTells DEF FsInv
<1>2. InTree(p)'
  BY <1>1 DEF InTree
<1> QED
  BY <1>2 DEF Fine

\* A name that is new has no entry but perhaps a whiteout, and is no directory.
LEMMA NewIs ==
    ASSUME FsTypes, NEW path \in Paths, ~Found(path)
    PROVE  /\ Shown(path).kind # "Dir"
           /\ store.map[path].type # "File" /\ store.map[path].type # "Dir"
           /\ store.map[path].type # "Symlink"
<1>1. Shown(path) = Nothing
  BY DEF Found
<1>2. Shown(path).kind = "None"
  BY <1>1, ShownTells
<1> QED
  BY <1>2, ShownTells

\* Only what the kernel knows changes.
LEMMA LookupStep ==
    ASSUME FsInv, NEW name \in Paths, Lookup(name)
    PROVE  FsInv'
<1> DEFINE path == PathOf(name)
           has  == [number |-> path, kind |-> Shown(path).kind]
<1>1. /\ Is(Parent(name), {"Dir"}) /\ path \in Paths
      /\ dentry' = IF ~Found(path) THEN Drop(dentry, name)
                   ELSE IF dentry[name] = has THEN dentry
                   ELSE Knows(name, path, has.kind)
      /\ UNCHANGED <<mode, host, store, content, ops, ref, astray>>
  BY DEF Lookup, Reaches
<1> HIDE DEF path
<1>2. Rooted'
  <2>1. CASE dentry' = dentry
    BY <2>1 DEF FsInv, Rooted
  <2> QED
    BY <1>1, <2>1, RootedDrop, RootedKnows DEF FsInv
<1>3. Found(path) => has.kind \in {"File", "Dir", "Symlink"}
  BY <1>1, ShownTells DEF FsInv, Found, Things
<1>4. dentry' \in [Paths -> Dentries \cup {Nil}]
  <2>1. dentry \in [Paths -> Dentries \cup {Nil}]
    BY DEF FsInv, FsTypes
  <2>2. Drop(dentry, name) \in [Paths -> Dentries \cup {Nil}]
    BY <2>1 DEF Drop
  <2>3. Found(path) => [number |-> path, kind |-> has.kind] \in Dentries
    BY <1>1, <1>3 DEF Dentries
  <2>4. Found(path) => Knows(name, path, has.kind) \in [Paths -> Dentries \cup {Nil}]
    BY <2>2, <2>3 DEF Knows
  <2> QED
    BY <1>1, <2>1, <2>2, <2>4
<1>5. FsTypes'
  BY <1>1, <1>4 DEF FsInv, FsTypes, StoreTypes
<1>6. ASSUME NEW n \in Paths \ astray' PROVE Fine(n)'
  <2>1. n \in Paths \ astray /\ Fine(n)
    BY <1>1 DEF FsInv
  <2> QED
    BY <1>1, <2>1 DEF Fine, InTree, Shown, HostHas, FromHost, FromEntry
<1> QED
  BY <1>2, <1>5, <1>6 DEF FsInv

\* What a handler that changes something leaves of the types.
LEMMA ChangesTypes ==
    ASSUME FsTypes, NEW name \in Paths, NEW path \in Paths, NEW s, NEW what,
           NEW lost \in SUBSET Paths,
           Changes(name, path, s, what, lost),
           StoreOK(s), s.next <= store.next + 1, what \in [Paths -> Things],
           content' \in [1 .. MaxOps -> SUBSET Nat],
           \A id \in 1 .. MaxOps : id >= s.next => content'[id] = {},
           dentry' \in [Paths -> Dentries \cup {Nil}]
    PROVE  FsTypes'
<1>1. /\ ops < MaxOps /\ ops' = ops + 1 /\ store' = s /\ ref' = what
      /\ astray' = astray \cup Misled(name, path) \cup lost
      /\ mode' = mode /\ host' = host
  BY DEF Changes
<1>2. StoreOK(store)'
  BY <1>1 DEF StoreOK, Owned
<1>3. store'.next <= ops' + 1 /\ ops' \in 0 .. MaxOps
  BY <1>1, OpsAssumption DEF FsTypes, StoreTypes, StoreOK
<1>4. astray' \in SUBSET Paths
  BY <1>1, Misses DEF FsTypes
<1> QED
  BY <1>1, <1>2, <1>3, <1>4 DEF FsTypes, StoreTypes

\* What the kernel learns or forgets is a number and a kind, or nothing.
LEMMA KnowsType ==
    ASSUME FsTypes, NEW name \in Paths, NEW path \in Paths, NEW kind \in {"File", "Dir", "Symlink"}
    PROVE  /\ Knows(name, path, kind) \in [Paths -> Dentries \cup {Nil}]
           /\ Drop(dentry, name) \in [Paths -> Dentries \cup {Nil}]
<1>1. Drop(dentry, name) \in [Paths -> Dentries \cup {Nil}]
  BY DEF FsTypes, Drop
<1>2. [number |-> path, kind |-> kind] \in Dentries
  BY DEF Dentries
<1> QED
  BY <1>1, <1>2 DEF Knows

\* create, for a name that is new.
LEMMA CreateStep ==
    ASSUME FsInv, NEW name \in Paths, Create(name)
    PROVE  FsInv'
<1>0. PICK path \in Paths : path = PathOf(name)
  BY DEF Create, Reaches
<1> DEFINE t == EnsureFileObject(store, path)
           s == DeleteWhiteout(t, path)
           what == [ref EXCEPT ![name] = Regular({ops + 1})]
<1>1. /\ Is(Parent(name), {"Dir"}) /\ ~Found(path)
      /\ Changes(name, path, s, what, {})
      /\ content' = Written(path, s, {ops + 1})
      /\ dentry' = Knows(name, path, "File")
  BY <1>0 DEF Create, Reaches, IsNew
<1>2. /\ ops < MaxOps /\ store' = s /\ ref' = what /\ mode' = mode /\ host' = host
      /\ astray' = astray \cup Misled(name, path) \cup {}
  BY <1>1 DEF Changes
<1>3. /\ FsTypes /\ Rooted /\ StoreOK(store) /\ store.next <= ops + 1 /\ ops \in Nat
      /\ content \in [1 .. MaxOps -> SUBSET Nat] /\ ref \in [Paths -> Things]
      /\ \A id \in 1 .. MaxOps : id >= store.next => content[id] = {}
  BY DEF FsInv, FsTypes, StoreTypes
<1>4. store.next \in 1 .. MaxOps /\ store.next \in Nat
  BY <1>2, <1>3, OpsAssumption DEF StoreOK
<1>5. store.map[path].type # "File" /\ Shown(path).kind # "Dir"
  BY <1>1, <1>3, NewIs
<1>6. /\ StoreOK(t) /\ t.next = store.next + 1
      /\ \A p \in Paths : t.map[p] = IF p = path THEN File(store.next) ELSE store.map[p]
      /\ PathsIn(t.tree) = PathsIn(store.tree) \cup Ancestors(path)
  BY <1>1, <1>3, <1>4, <1>5, EnsureIs
<1> HIDE DEF t
<1>7. /\ File(store.next).object = store.next /\ File(store.next).type = "File"
      /\ File(store.next) # Whiteout /\ File(store.next) # NoEntry
  BY DEF File, Whiteout, NoEntry
<1>8. /\ StoreOK(s) /\ s.next = store.next + 1
      /\ \A p \in Paths : s.map[p] = IF p = path THEN File(store.next) ELSE store.map[p]
      /\ PathsIn(s.tree) = PathsIn(store.tree) \cup Ancestors(path)
  BY <1>1, <1>6, <1>7, DeleteWhiteoutIs
<1> HIDE DEF s
<1>9. /\ content' \in [1 .. MaxOps -> SUBSET Nat]
      /\ content'[store.next] = {ops + 1}
      /\ \A id \in 1 .. MaxOps : id # store.next => content'[id] = content[id]
  BY <1>1, <1>3, <1>4, <1>7, <1>8 DEF Written
<1>10. \A id \in 1 .. MaxOps : id >= s.next => content'[id] = {}
  BY <1>3, <1>4, <1>8, <1>9
<1>11. what \in [Paths -> Things]
  BY <1>3 DEF Things, Regular
<1>12. FsTypes'
  <2> HIDE DEF what
  <2>1. s.next <= store.next + 1
    BY <1>4, <1>8
  <2> QED
    BY <1>1, <1>3, <1>8, <1>9, <1>10, <1>11, <2>1, KnowsType, ChangesTypes
<1>13. Rooted'
  BY <1>1, <1>3, RootedKnows
<1>14. \A p \in Paths \ {path} :
           /\ store'.map[p] = store.map[p]
           /\ store.map[p].type = "File" =>
                  content'[store.map[p].object] = content[store.map[p].object]
           /\ p \in PathsIn(store.tree) => p \in PathsIn(store'.tree)
  <2> SUFFICES ASSUME NEW p \in Paths \ {path}
               PROVE  /\ store'.map[p] = store.map[p]
                      /\ store.map[p].type = "File" =>
                             content'[store.map[p].object] = content[store.map[p].object]
                      /\ p \in PathsIn(store.tree) => p \in PathsIn(store'.tree)
    OBVIOUS
  <2>1. store.map[p].type = "File" =>
            store.map[p].object \in 1 .. MaxOps /\ store.map[p].object < store.next
    BY <1>3, KindsOfEntries DEF StoreOK, Owned, Maps
  <2>2. store.map[p].type = "File" => store.map[p].object # store.next
    BY <1>4, <2>1
  <2> QED
    BY <1>2, <1>8, <1>9, <2>1, <2>2
<1>15. ASSUME Misled(name, path) = {}, NEW n \in Under(name) \ astray' PROVE Fine(n)'
  <2>1. name = path /\ InTree(path)
    BY <1>1, <1>3, <1>15, Straight
  <2>2. CASE n = path
    <3>1. Shown(path)' = Regular({ops + 1})
      <4>1. Shown(path)' = View(mode', host'[path], File(store.next), content')
        BY <1>1, <1>2, <1>8, <1>12, NextTells
      <4> QED
        BY <1>7, <1>9, <4>1 DEF View
    <3>2. ref'[path] = Regular({ops + 1})
      BY <1>2, <1>3, <2>1
    <3>3. store'.map[path] # NoEntry /\ path \in PathsIn(store'.tree)
      BY <1>1, <1>2, <1>7, <1>8, PathIs
    <3>4. Fine(path)'
      <4>1. Shown(path)' = ref'[path]
        BY <3>1, <3>2
      <4> QED
        BY <1>1, <1>2, <1>12, <1>14, <2>1, <3>3, <4>1, PutHere
    <3> QED
      BY <2>2, <3>4
  <2>3. CASE n # path
    <3>1. n \in Inside(path) /\ n \in Paths /\ n \notin astray
      BY <1>2, <2>1, <2>3 DEF Inside, Under
    <3>2. ref'[n] = ref[n]
      BY <1>2, <1>3, <2>1, <2>3, <3>1
    <3> QED
      BY <1>1, <1>2, <1>5, <1>12, <1>14, <2>3, <3>1, <3>2, InsideKept
  <2> QED
    BY <2>2, <2>3
<1>16. \A n \in Paths \ astray' : Fine(n)'
  <2>1. \A p \in Paths \ Under(path) : p \in Paths \ {path}
    BY <1>1, UnderIs
  <2>2. \A p \in Paths \ Under(name) : ref'[p] = ref[p]
    BY <1>2, <1>3, UnderIs
  <2> QED
    BY <1>1, <1>2, <1>12, <1>14, <1>15, <2>1, <2>2, Elsewhere
<1> QED
  BY <1>12, <1>13, <1>16 DEF FsInv

\* mkdir and symlink.
LEMMA MakeStep ==
    ASSUME FsInv, NEW name \in Paths, NEW entry, NEW thing, Make(name, entry, thing),
           (entry = Dir /\ thing = Directory) \/ (entry = Symlink /\ thing = Link)
    PROVE  FsInv'
<1>0. PICK path \in Paths : path = PathOf(name)
  BY DEF Make, Reaches
<1> DEFINE t == Set(store, path, entry)
           s == DeleteWhiteout(t, path)
           what == [ref EXCEPT ![name] = thing]
<1>1. /\ Is(Parent(name), {"Dir"}) /\ ~Found(path)
      /\ Changes(name, path, s, what, {})
      /\ content' = content
      /\ dentry' = Knows(name, path, thing.kind)
  BY <1>0 DEF Make, Reaches, IsNew
<1>2. /\ ops < MaxOps /\ store' = s /\ ref' = what /\ mode' = mode /\ host' = host
      /\ astray' = astray \cup Misled(name, path) \cup {}
  BY <1>1 DEF Changes
<1>3. /\ FsTypes /\ Rooted /\ StoreOK(store) /\ store.next \in Nat
      /\ content \in [1 .. MaxOps -> SUBSET Nat] /\ ref \in [Paths -> Things]
      /\ \A id \in 1 .. MaxOps : id >= store.next => content[id] = {}
  BY DEF FsInv, FsTypes, StoreTypes, StoreOK
<1>4. Shown(path).kind # "Dir"
  BY <1>1, <1>3, NewIs
<1>5. /\ entry \in Entries /\ entry.type # "File" /\ entry # Whiteout /\ entry # NoEntry
      /\ thing \in Things /\ thing.kind \in {"File", "Dir", "Symlink"}
      /\ \A md, h, c : View(md, h, entry, c) = thing
  BY KindsOfEntries DEF View, Dir, Symlink, Directory, Link, Whiteout, NoEntry, Things
<1>6. /\ StoreOK(t) /\ t.next = store.next
      /\ \A p \in Paths : t.map[p] = IF p = path THEN entry ELSE store.map[p]
      /\ PathsIn(t.tree) = PathsIn(store.tree) \cup Ancestors(path)
  BY <1>3, <1>5, SetIs
<1> HIDE DEF t
<1>7. /\ StoreOK(s) /\ s.next = store.next
      /\ \A p \in Paths : s.map[p] = IF p = path THEN entry ELSE store.map[p]
      /\ PathsIn(s.tree) = PathsIn(store.tree) \cup Ancestors(path)
  BY <1>5, <1>6, DeleteWhiteoutIs
<1> HIDE DEF s
<1>8. what \in [Paths -> Things]
  BY <1>3, <1>5
<1>9. FsTypes'
  <2> HIDE DEF what
  <2>1. s.next <= store.next + 1
    BY <1>3, <1>7
  <2> QED
    BY <1>1, <1>3, <1>5, <1>7, <1>8, <2>1, KnowsType, ChangesTypes
<1>10. Rooted'
  BY <1>1, <1>3, RootedKnows
<1>11. \A p \in Paths \ {path} :
           /\ store'.map[p] = store.map[p]
           /\ p \in PathsIn(store.tree) => p \in PathsIn(store'.tree)
  BY <1>2, <1>7
<1>12. ASSUME Misled(name, path) = {}, NEW n \in Under(name) \ astray' PROVE Fine(n)'
  <2>1. name = path /\ InTree(path)
    BY <1>1, <1>3, <1>12, Straight
  <2>2. CASE n = path
    <3>1. Shown(path)' = ref'[path]
      <4>1. Shown(path)' = View(mode', host'[path], entry, content')
        BY <1>2, <1>7, <1>9, NextTells
      <4> QED
        BY <1>2, <1>3, <1>5, <2>1, <4>1
    <3>2. store'.map[path] # NoEntry /\ path \in PathsIn(store'.tree)
      BY <1>2, <1>5, <1>7, PathIs
    <3>3. Fine(path)'
      BY <1>1, <1>2, <1>9, <1>11, <2>1, <3>1, <3>2, PutHere
    <3> QED
      BY <2>2, <3>3
  <2>3. CASE n # path
    <3>1. n \in Inside(path) /\ n \in Paths /\ n \notin astray
      BY <1>2, <2>1, <2>3 DEF Inside, Under
    <3>2. ref'[n] = ref[n]
      BY <1>2, <1>3, <2>1, <2>3, <3>1
    <3> QED
      BY <1>2, <1>4, <1>9, <1>11, <2>3, <3>1, <3>2, InsideKept
  <2> QED
    BY <2>2, <2>3
<1>13. \A n \in Paths \ astray' : Fine(n)'
  <2>1. \A p \in Paths \ Under(path) : p \in Paths \ {path}
    BY UnderIs
  <2>2. \A p \in Paths \ Under(name) : ref'[p] = ref[p]
    BY <1>2, <1>3, UnderIs
  <2> QED
    BY <1>1, <1>2, <1>9, <1>11, <1>12, <2>1, <2>2, Elsewhere
<1> QED
  BY <1>9, <1>10, <1>13 DEF FsInv

\* What opening for writing does with an entry.
LEMMA OpenIs ==
    ASSUME mode \in Modes, NEW path, store.map[path] \in Entries,
           DecideOpen(mode, store.map[path], TRUE, TRUE, FALSE, HostHas(path)).do = "OpenObject"
    PROVE  LET answer == DecideOpen(mode, store.map[path], TRUE, TRUE, FALSE, HostHas(path))
               had    == store.map[path].type = "File"
           IN /\ store.map[path].type # "Whiteout"
              /\ answer.needs_ensure <=> ~had
              /\ answer.copy_up_from_real <=> mode = "CopyOnWrite" /\ ~had /\ HostHas(path)
<1> DEFINE e == store.map[path]
<1>1. mode \in {"CopyOnWrite", "FuseOnly"}
  BY ModesAssumption
<1>2. e.object # NoObject <=> e.type = "File"
  <2>1. e.type # "File" => e.object = NoObject
    BY DEF Entries, NoEntry, Whiteout, Dir, Symlink, File
  <2>2. e.type = "File" => e.object \in 1 .. MaxOps
    BY KindsOfEntries
  <2> QED
    BY <2>1, <2>2 DEF NoObject
<1>3. e.type # "Whiteout"
  BY DEF DecideOpen, Open, IsWhiteout
<1>4. ~IsWhiteout(e)
  BY <1>3 DEF IsWhiteout
<1>5. CASE mode = "FuseOnly"
  BY <1>2, <1>3, <1>4, <1>5 DEF DecideOpen, OpenObject
<1>6. CASE mode = "CopyOnWrite"
  BY <1>2, <1>3, <1>4, <1>6 DEF DecideOpen, OpenObject
<1> QED
  BY <1>1, <1>5, <1>6

\* A write to an object, which may be a copy of the host's file.
LEMMA OpenWriteStep ==
    ASSUME FsInv, NEW name \in Paths, OpenWrite(name)
    PROVE  FsInv'
<1>0. PICK path \in Paths : path = dentry[name].number
  <2>1. dentry[name] \in Dentries
    BY PathIs DEF OpenWrite, Is, FsInv, FsTypes
  <2> QED
    BY <2>1 DEF Dentries
<1> DEFINE answer == DecideOpen(mode, store.map[path], TRUE, TRUE, FALSE, HostHas(path))
           t == IF answer.needs_ensure THEN EnsureFileObject(store, path) ELSE store
           s == DeleteWhiteout(t, path)
           what == [ref EXCEPT ![name].chunks = @ \cup {ops + 1}]
           new == {ops + 1} \cup
                      IF answer.copy_up_from_real /\ host[path] = "File" THEN {0} ELSE {}
           had == store.map[path].type = "File"
           id == IF had THEN store.map[path].object ELSE store.next
<1>1. /\ dentry[name] # Nil /\ dentry[name].kind = "File" /\ answer.do = "OpenObject"
      /\ Changes(name, path, s, what, {})
      /\ content' = Written(path, s, new)
      /\ dentry' = dentry
  <2>1. dentry[name] # Nil /\ dentry[name].kind = "File"
    BY PathIs DEF OpenWrite, Is
  <2> QED
    BY <1>0, <2>1 DEF OpenWrite
<1>2. /\ ops < MaxOps /\ store' = s /\ ref' = what /\ mode' = mode /\ host' = host
      /\ astray' = astray \cup Misled(name, path) \cup {}
  BY <1>1 DEF Changes
<1>3. /\ FsTypes /\ Rooted /\ StoreOK(store) /\ store.next <= ops + 1 /\ ops \in Nat
      /\ content \in [1 .. MaxOps -> SUBSET Nat] /\ ref \in [Paths -> Things]
      /\ dentry \in [Paths -> Dentries \cup {Nil}] /\ mode \in Modes
      /\ \A i \in 1 .. MaxOps : i >= store.next => content[i] = {}
  BY DEF FsInv, FsTypes, StoreTypes
<1>4. store.next \in 1 .. MaxOps /\ store.next \in Nat
  BY <1>2, <1>3, OpsAssumption DEF StoreOK
<1>5. /\ store.map[path] \in Entries /\ store.map[path].type # "Whiteout"
      /\ answer.needs_ensure <=> ~had
      /\ answer.copy_up_from_real <=> mode = "CopyOnWrite" /\ ~had /\ HostHas(path)
  <2>1. store.map[path] \in Entries /\ mode \in Modes /\ answer.do = "OpenObject"
    BY <1>1, <1>3 DEF StoreOK, Maps
  <2> QED
    BY <2>1, OpenIs
<1> HIDE DEF answer
<1>6. had => /\ store.map[path] = File(store.map[path].object)
             /\ store.map[path].object \in 1 .. MaxOps
             /\ store.map[path].object < store.next
  BY <1>3, <1>5, KindsOfEntries DEF StoreOK, Owned
<1>7. id \in 1 .. MaxOps /\ id \in Nat
  BY <1>4, <1>6
<1> HIDE DEF id
<1>8. /\ StoreOK(t) /\ t.next = IF had THEN store.next ELSE store.next + 1
      /\ \A p \in Paths : t.map[p] = IF p = path THEN File(id) ELSE store.map[p]
      /\ PathsIn(store.tree) \subseteq PathsIn(t.tree)
      /\ ~had => path \in PathsIn(t.tree)
  <2>1. CASE had
    BY <1>3, <1>5, <1>6, <2>1 DEF id
  <2>2. CASE ~had
    <3>1. t = EnsureFileObject(store, path)
      BY <1>5, <2>2
    <3>2. store.next <= MaxOps
      BY <1>4
    <3> HIDE DEF t
    <3>3. path \in Ancestors(path)
      BY PathIs
    <3>4. /\ StoreOK(EnsureFileObject(store, path))
          /\ EnsureFileObject(store, path).next = store.next + 1
          /\ \A p \in Paths : EnsureFileObject(store, path).map[p]
                                  = IF p = path THEN File(store.next) ELSE store.map[p]
          /\ PathsIn(EnsureFileObject(store, path).tree)
                 = PathsIn(store.tree) \cup Ancestors(path)
      BY <1>3, <2>2, <3>2, EnsureIs
    <3> QED
      BY <2>2, <3>1, <3>3, <3>4 DEF id
  <2> QED
    BY <2>1, <2>2
<1>9. /\ File(id).object = id /\ File(id).type = "File"
      /\ File(id) # Whiteout /\ File(id) # NoEntry
  BY DEF File, Whiteout, NoEntry
<1> HIDE DEF t
<1>10. /\ StoreOK(s) /\ s.next = IF had THEN store.next ELSE store.next + 1
       /\ \A p \in Paths : s.map[p] = IF p = path THEN File(id) ELSE store.map[p]
       /\ PathsIn(store.tree) \subseteq PathsIn(s.tree)
       /\ ~had => path \in PathsIn(s.tree)
  BY <1>8, <1>9, DeleteWhiteoutIs
<1> HIDE DEF s
<1>11. /\ new \in SUBSET Nat
       /\ content' \in [1 .. MaxOps -> SUBSET Nat]
       /\ content'[id] = content[id] \cup new
       /\ \A i \in 1 .. MaxOps : i # id => content'[i] = content[i]
  <2>1. new \in SUBSET Nat
    BY <1>3
  <2> HIDE DEF new
  <2> QED
    BY <1>1, <1>3, <1>7, <1>9, <1>10, <2>1 DEF Written
<1>12. \A i \in 1 .. MaxOps : i >= s.next => content'[i] = {}
  <2>1. id < s.next /\ store.next <= s.next
    BY <1>4, <1>6, <1>10 DEF id
  <2> QED
    BY <1>3, <1>4, <1>7, <1>10, <1>11, <2>1
<1>13. what \in [Paths -> Things]
  BY <1>3 DEF Things
<1>14. FsTypes'
  <2> HIDE DEF what
  <2>1. s.next <= store.next + 1
    BY <1>4, <1>10
  <2> QED
    BY <1>1, <1>3, <1>10, <1>11, <1>12, <1>13, <2>1, ChangesTypes
<1>15. Rooted'
  BY <1>1, <1>3 DEF Rooted
<1>16. \A p \in Paths \ {path} :
           /\ store'.map[p] = store.map[p]
           /\ store.map[p].type = "File" =>
                  content'[store.map[p].object] = content[store.map[p].object]
           /\ p \in PathsIn(store.tree) => p \in PathsIn(store'.tree)
  <2> SUFFICES ASSUME NEW p \in Paths \ {path}
               PROVE  /\ store'.map[p] = store.map[p]
                      /\ store.map[p].type = "File" =>
                             content'[store.map[p].object] = content[store.map[p].object]
                      /\ p \in PathsIn(store.tree) => p \in PathsIn(store'.tree)
    OBVIOUS
  <2>1. store.map[p].type = "File" =>
            /\ store.map[p].object \in 1 .. MaxOps /\ store.map[p].object < store.next
            /\ store.map[p] = File(store.map[p].object)
    BY <1>3, KindsOfEntries DEF StoreOK, Owned, Maps
  <2>2. store.map[p].type = "File" => store.map[p].object # id
    <3>1. CASE had
      BY <1>3, <1>6, <2>1, <3>1 DEF id, StoreOK, Owned
    <3>2. CASE ~had
      BY <1>4, <2>1, <3>2 DEF id
    <3> QED
      BY <3>1, <3>2
  <2> QED
    BY <1>2, <1>10, <1>11, <2>1, <2>2
<1>17. ASSUME Misled(name, path) = {} PROVE name = path /\ Shown(path).kind = "File"
  BY <1>1, <1>3, <1>17, Straight
<1>18. ASSUME Misled(name, path) = {}, path \notin astray PROVE Fine(path)'
  <2>1. Fine(path) /\ name = path /\ Shown(path).kind = "File"
    BY <1>17, <1>18 DEF FsInv
  <2>2. ref[path] = Shown(path) /\ InTree(path)
    BY <2>1 DEF Fine, Nothing
  <2>3. path \in PathsIn(store'.tree)
    BY <1>2, <1>5, <1>10, <2>1 DEF Fine, Exists, IsWhiteout
  <2>4. Shown(path)' = Regular(content[id] \cup new)
    <3>1. Shown(path)' = View(mode', host'[path], File(id), content')
      BY <1>2, <1>10, <1>14, NextTells
    <3> QED
      BY <1>9, <1>11, <3>1 DEF View
  <2>5. ref'[path] = [Shown(path) EXCEPT !.chunks = @ \cup {ops + 1}]
    BY <1>2, <1>3, <2>1, <2>2
  <2>6. Shown(path) = View(mode, host[path], store.map[path], content)
    BY <1>3, ShownTells
  <2>7. Shown(path)' = ref'[path]
    <3>1. CASE had
      <4>1. new = {ops + 1} /\ Shown(path) = Regular(content[id])
        BY <1>5, <2>6, <3>1 DEF View, id
      <4> QED
        BY <2>4, <2>5, <4>1 DEF Regular
    <3>2. CASE ~had
      <4>1. Shown(path) = Regular({0}) /\ mode = "CopyOnWrite" /\ host[path] = "File"
        BY <2>1, <2>6, <3>2 DEF View, Nothing, Directory, Link
      <4>2. answer.copy_up_from_real
        BY <1>5, <3>2, <4>1 DEF HostHas
      <4>3. new = {ops + 1, 0} /\ content[id] = {}
        BY <1>3, <1>4, <3>2, <4>1, <4>2 DEF id
      <4> QED
        BY <2>4, <2>5, <4>1, <4>3 DEF Regular
    <3> QED
      BY <3>1, <3>2
  <2>8. store'.map[path] # NoEntry
    BY <1>2, <1>9, <1>10
  <2> QED
    BY <1>2, <1>14, <1>16, <2>2, <2>3, <2>7, <2>8, PutHere
<1>19. ASSUME Misled(name, path) = {}, NEW n \in Under(name) \ astray' PROVE Fine(n)'
  <2>1. name = path /\ Shown(path).kind # "Dir" /\ n \notin astray
    BY <1>2, <1>17, <1>19
  <2>2. CASE n = path
    BY <1>18, <1>19, <2>1, <2>2
  <2>3. CASE n # path
    <3>1. n \in Inside(path) /\ n \in Paths
      BY <2>1, <2>3 DEF Inside, Under
    <3>2. ref'[n] = ref[n]
      BY <1>2, <1>3, <2>1, <2>3, <3>1
    <3> QED
      BY <1>2, <1>14, <1>16, <2>1, <2>3, <3>1, <3>2, InsideKept
  <2> QED
    BY <2>2, <2>3
<1>20. \A n \in Paths \ astray' : Fine(n)'
  <2>1. \A p \in Paths \ Under(path) : p \in Paths \ {path}
    BY UnderIs
  <2>2. \A p \in Paths \ Under(name) : ref'[p] = ref[p]
    BY <1>2, <1>3, UnderIs
  <2> QED
    BY <1>2, <1>14, <1>16, <1>19, <2>1, <2>2, Elsewhere
<1> QED
  BY <1>14, <1>15, <1>20 DEF FsInv

\* A file or a link goes.
LEMMA UnlinkStep ==
    ASSUME FsInv, NEW name \in Paths, Unlink(name)
    PROVE  FsInv'
<1>0. PICK path \in Paths : path = PathOf(name)
  BY DEF Unlink, Reaches
<1> DEFINE t == DeleteFile(store, path)
           s == PutWhiteout(t, path)
           what == [ref EXCEPT ![name] = Nothing]
<1>1. /\ dentry[name] # Nil /\ dentry[name].kind # "Dir"
      /\ Changes(name, path, s, what, RealDescendants(path))
      /\ content' = content
      /\ dentry' = Drop(dentry, name)
  BY <1>0, PathIs DEF Unlink, Is
<1>2. /\ ops < MaxOps /\ store' = s /\ ref' = what /\ mode' = mode /\ host' = host
      /\ astray' = astray \cup Misled(name, path) \cup RealDescendants(path)
  BY <1>1 DEF Changes
<1>3. /\ FsTypes /\ Rooted /\ StoreOK(store) /\ store.next \in Nat
      /\ content \in [1 .. MaxOps -> SUBSET Nat] /\ ref \in [Paths -> Things]
      /\ \A id \in 1 .. MaxOps : id >= store.next => content[id] = {}
  BY DEF FsInv, FsTypes, StoreTypes, StoreOK
<1>4. Whiteout \in Entries /\ Whiteout.type # "File" /\ Nothing \in Things
  BY KindsOfEntries DEF Nothing, Things
<1>5. /\ StoreOK(t) /\ t.next = store.next
      /\ \A p \in Paths : t.map[p] = IF p = path THEN NoEntry ELSE store.map[p]
      /\ PathsIn(t.tree) = PathsIn(store.tree) \ Below(PathsIn(store.tree), path)
  <2> HIDE DEF t
  <2>1. t = DeleteFile(store, path)
    BY DEF t
  <2>2. StoreOK(store)
    BY <1>3
  <2>3. /\ StoreOK(DeleteFile(store, path)) /\ DeleteFile(store, path).next = store.next
        /\ \A p \in Paths :
               DeleteFile(store, path).map[p] = IF p = path THEN NoEntry ELSE store.map[p]
        /\ PathsIn(DeleteFile(store, path).tree)
               = PathsIn(store.tree) \ Below(PathsIn(store.tree), path)
    BY <2>2, DeleteFileIs
  <2> QED
    BY <2>1, <2>3
<1> HIDE DEF t
<1>6. /\ StoreOK(s) /\ s.next = store.next
      /\ \A p \in Paths : s.map[p] = IF p = path THEN Whiteout ELSE store.map[p]
      /\ \A p \in Paths \ Under(path) : p \in PathsIn(store.tree) => p \in PathsIn(s.tree)
      /\ path \in PathsIn(s.tree)
  <2>1. /\ StoreOK(Set(t, path, Whiteout)) /\ Set(t, path, Whiteout).next = t.next
        /\ \A p \in Paths : Set(t, path, Whiteout).map[p] = IF p = path THEN Whiteout ELSE t.map[p]
        /\ PathsIn(Set(t, path, Whiteout).tree) = PathsIn(t.tree) \cup Ancestors(path)
    BY <1>4, <1>5, SetIs
  <2>2. s = Set(t, path, Whiteout)
    BY DEF PutWhiteout
  <2> HIDE DEF s
  <2>3. path \in Ancestors(path) /\ path \in Under(path)
    BY PathIs, UnderIs
  <2> QED
    BY <1>5, <2>1, <2>2, <2>3 DEF Below, Under
<1> HIDE DEF s
<1>7. RealDescendants(path) \in SUBSET Paths
  BY UnderIs DEF RealDescendants
<1>8. what \in [Paths -> Things]
  BY <1>3, <1>4
<1>9. FsTypes'
  <2> HIDE DEF what
  <2>1. s.next <= store.next + 1
    BY <1>3, <1>6
  <2>2. Drop(dentry, name) \in [Paths -> Dentries \cup {Nil}]
    BY <1>3 DEF Drop, FsTypes
  <2> QED
    BY <1>1, <1>3, <1>6, <1>7, <1>8, <2>1, <2>2, ChangesTypes
<1>10. Rooted'
  BY <1>1, <1>3, RootedDrop
<1>11. ASSUME Misled(name, path) = {}, NEW n \in Under(name) \ astray' PROVE Fine(n)'
  <2>1. name = path /\ Shown(path).kind # "Dir"
    BY <1>1, <1>3, <1>11, Straight
  <2>2. CASE n = path
    <3>1. ref'[n] = Nothing /\ store'.map[n] = Whiteout /\ n \in PathsIn(store'.tree)
      BY <1>2, <1>3, <1>6, <2>1, <2>2
    <3>2. Shown(n)' = Nothing
      BY <1>9, <2>2, <3>1, NextTells
    <3> QED
      BY <1>9, <2>2, <3>1, <3>2, Gone
  <2>3. CASE n # path
    <3>1. n \in Inside(path) /\ n \in Paths /\ n \notin astray /\ ~HostHas(n)
      BY <1>2, <2>1, <2>3 DEF Inside, Under, RealDescendants
    <3>2. ref'[n] = ref[n] /\ store'.map[n] = store.map[n]
      BY <1>2, <1>3, <1>6, <2>1, <2>3, <3>1
    <3> QED
      BY <1>2, <1>9, <2>1, <3>1, <3>2, InsideKept
  <2> QED
    BY <2>2, <2>3
<1>12. \A n \in Paths \ astray' : Fine(n)'
  <2>1. \A p \in Paths \ Under(path) :
            /\ store'.map[p] = store.map[p]
            /\ store.map[p].type = "File" =>
                   content'[store.map[p].object] = content[store.map[p].object]
            /\ p \in PathsIn(store.tree) => p \in PathsIn(store'.tree)
    BY <1>1, <1>2, <1>6, UnderIs
  <2>2. \A p \in Paths \ Under(name) : ref'[p] = ref[p]
    BY <1>2, <1>3, UnderIs
  <2> QED
    BY <1>2, <1>9, <1>11, <2>1, <2>2, Elsewhere
<1> QED
  BY <1>9, <1>10, <1>12 DEF FsInv

\* A directory goes with what the host has in it.
LEMMA RmdirStep ==
    ASSUME FsInv, NEW name \in Paths, Rmdir(name)
    PROVE  FsInv'
<1>0. PICK path \in Paths : path = PathOf(name)
  BY DEF Rmdir, Reaches
<1> DEFINE t == DeleteFile(store, path)
           u == PutWhiteout(t, path)
           s == PutWhiteouts(u, RealDescendants(path))
           what == [n \in Paths |-> IF n \in Under(name) THEN Nothing ELSE ref[n]]
           lost == {n \in Inside(name) : ref[n] # Nothing /\ ~HostHas(n)}
<1>1. /\ Changes(name, path, s, what, lost)
      /\ content' = content
      /\ dentry' = Drop(dentry, name)
  BY <1>0 DEF Rmdir
<1>2. /\ ops < MaxOps /\ store' = s /\ ref' = what /\ mode' = mode /\ host' = host
      /\ astray' = astray \cup Misled(name, path) \cup lost
  BY <1>1 DEF Changes
<1>3. /\ FsTypes /\ Rooted /\ StoreOK(store) /\ store.next \in Nat
      /\ content \in [1 .. MaxOps -> SUBSET Nat] /\ ref \in [Paths -> Things]
      /\ \A id \in 1 .. MaxOps : id >= store.next => content[id] = {}
  BY DEF FsInv, FsTypes, StoreTypes, StoreOK
<1>4. Whiteout \in Entries /\ Whiteout.type # "File" /\ Nothing \in Things
  BY KindsOfEntries DEF Nothing, Things
<1>5. /\ StoreOK(t) /\ t.next = store.next
      /\ \A p \in Paths : t.map[p] = IF p = path THEN NoEntry ELSE store.map[p]
      /\ PathsIn(t.tree) = PathsIn(store.tree) \ Below(PathsIn(store.tree), path)
  <2> HIDE DEF t
  <2>1. t = DeleteFile(store, path)
    BY DEF t
  <2>2. StoreOK(store)
    BY <1>3
  <2>3. /\ StoreOK(DeleteFile(store, path)) /\ DeleteFile(store, path).next = store.next
        /\ \A p \in Paths :
               DeleteFile(store, path).map[p] = IF p = path THEN NoEntry ELSE store.map[p]
        /\ PathsIn(DeleteFile(store, path).tree)
               = PathsIn(store.tree) \ Below(PathsIn(store.tree), path)
    BY <2>2, DeleteFileIs
  <2> QED
    BY <2>1, <2>3
<1> HIDE DEF t
<1>6. /\ StoreOK(u) /\ u.next = store.next
      /\ \A p \in Paths : u.map[p] = IF p = path THEN Whiteout ELSE store.map[p]
      /\ PathsIn(u.tree) = PathsIn(t.tree) \cup Ancestors(path)
  BY <1>4, <1>5, SetIs DEF PutWhiteout
<1> HIDE DEF u
<1>7. RealDescendants(path) \in SUBSET Paths /\ RealDescendants(path) \subseteq Under(path)
  BY UnderIs DEF RealDescendants
<1>8. /\ StoreOK(s) /\ s.next = store.next
      /\ \A p \in Paths : s.map[p] = IF p = path \/ p \in RealDescendants(path) THEN Whiteout
                                     ELSE store.map[p]
      /\ \A p \in Paths \ Under(path) : p \in PathsIn(store.tree) => p \in PathsIn(s.tree)
      /\ \A p \in {path} \cup RealDescendants(path) : p \in PathsIn(s.tree)
  <2>1. /\ StoreOK(s) /\ s.next = u.next
        /\ \A p \in Paths : s.map[p] = IF p \in RealDescendants(path) THEN Whiteout ELSE u.map[p]
        /\ PathsIn(s.tree) = PathsIn(u.tree) \cup UNION {Ancestors(p) : p \in RealDescendants(path)}
    BY <1>6, <1>7, PutWhiteoutsIs
  <2> HIDE DEF s
  <2>2. path \in Ancestors(path) /\ \A p \in RealDescendants(path) : p \in Ancestors(p)
    BY <1>7, PathIs
  <2>3. \A p \in Paths \ Under(path) : p \in PathsIn(store.tree) => p \in PathsIn(t.tree)
    BY <1>5 DEF Below, Under
  <2> QED
    BY <1>6, <2>1, <2>2, <2>3
<1> HIDE DEF s
<1>9. what \in [Paths -> Things] /\ \A p \in Paths : what[p] = IF p \in Under(name) THEN Nothing
                                                              ELSE ref[p]
  BY <1>3, <1>4
<1> HIDE DEF what
<1>10. FsTypes'
  <2>1. s.next <= store.next + 1 /\ lost \in SUBSET Paths
    BY <1>3, <1>8, UnderIs
  <2>2. Drop(dentry, name) \in [Paths -> Dentries \cup {Nil}]
    BY <1>3 DEF Drop, FsTypes
  <2> HIDE DEF lost
  <2> QED
    BY <1>1, <1>3, <1>8, <1>9, <2>1, <2>2, ChangesTypes
<1>11. Rooted'
  BY <1>1, <1>3, RootedDrop
<1>12. ASSUME Misled(name, path) = {}, NEW n \in Under(name) \ astray' PROVE Fine(n)'
  <2>1. name = path
    BY <1>3, <1>12, Straight
  <2>2. n \in Paths /\ n \in Under(path) /\ n \notin astray /\ n \notin lost
    BY <1>2, <2>1, UnderIs
  <2>3. ref'[n] = Nothing
    BY <1>2, <1>9, <2>1, <2>2
  <2>4. CASE n = path \/ HostHas(n)
    <3>1. n \in {path} \cup RealDescendants(path)
      BY <2>2, <2>4 DEF RealDescendants, Inside
    <3>2. store'.map[n] = Whiteout /\ n \in PathsIn(store'.tree)
      BY <1>2, <1>8, <2>2, <3>1
    <3>3. Shown(n)' = Nothing
      BY <1>10, <2>2, <3>2, NextTells
    <3> QED
      BY <1>10, <2>2, <2>3, <3>2, <3>3, Gone
  <2>5. CASE ~(n = path \/ HostHas(n))
    <3>1. ref[n] = Nothing
      BY <2>1, <2>2, <2>5 DEF Inside
    <3>2. Shown(n) = Nothing
      BY <2>2, <3>1 DEF FsInv, Fine
    <3>3. store'.map[n] = store.map[n] /\ ~HostHas(n)'
      BY <1>2, <1>8, <2>2, <2>5 DEF RealDescendants, HostHas
    <3>4. Shown(n)' = Nothing
      BY <1>3, <1>10, <2>2, <3>2, <3>3, ShownTells, NextTells
    <3> QED
      BY <1>10, <2>2, <2>3, <3>3, <3>4, Gone
  <2> QED
    BY <2>4, <2>5
<1>13. \A n \in Paths \ astray' : Fine(n)'
  <2>1. \A p \in Paths \ Under(path) :
            /\ store'.map[p] = store.map[p]
            /\ store.map[p].type = "File" =>
                   content'[store.map[p].object] = content[store.map[p].object]
            /\ p \in PathsIn(store.tree) => p \in PathsIn(store'.tree)
    BY <1>1, <1>2, <1>7, <1>8, UnderIs
  <2>2. \A p \in Paths \ Under(name) : ref'[p] = ref[p]
    BY <1>2, <1>9
  <2> HIDE DEF lost
  <2> QED
    BY <1>2, <1>10, <1>12, <2>1, <2>2, Elsewhere
<1> QED
  BY <1>10, <1>11, <1>13 DEF FsInv

-----------------------------------------------------------------------------
(* A rename.                                                               *)

\* What stays where something was moved away.
LEMMA MovedAway ==
    ASSUME FsInv, FsTypes', host' = host, NEW from \in Paths, NEW old,
           NEW n \in Under(from), n \notin astray', n \in Paths, ~HostHas(n),
           store'.map[n] = IF n \in old THEN NoEntry ELSE store.map[n],
           n \notin old => Shown(n) = Nothing,
           ref'[n] = Nothing
    PROVE  Fine(n)'
<1>1. ~HostHas(n)'
  BY DEF HostHas
<1>2. Shown(n)' = Nothing
  BY <1>1, ShownTells, NextTells DEF FsInv
<1> QED
  BY <1>1, <1>2, Gone

\* What is found where something was moved to.
LEMMA MovedThere ==
    ASSUME FsInv, FsTypes', mode' = mode, host' = host, content' = content,
           NEW from \in Paths, NEW to \in Paths, Apart(from, to), InTree(to),
           Room(store.tree, from, to), Under(from) \cap astray = {}, Under(to) \cap astray = {},
           NEW old, from \in old, old \subseteq PathsIn(store.tree) \cap Under(from),
           \A m \in old : Exists(store.map[m]),
           \A m \in Under(from) \ old : Shown(m) = Nothing,
           NEW new, new = {Moved(p, from, to) : p \in old},
           \A p \in Paths : store'.map[p] = IF p \in new THEN store.map[Moved(p, to, from)]
                                            ELSE IF p \in old THEN NoEntry ELSE store.map[p],
           store'.tree = Rename(store.tree, from, to),
           ref' = MovedTo(ref, from, to, Nothing),
           NEW n \in Under(to), n # to => ref[n] = Nothing
    PROVE  Fine(n)'
<1> DEFINE m == Moved(n, to, from)
<1>1. /\ FsTypes /\ StoreOK(store) /\ n \in Paths /\ n \notin Under(from)
      /\ Under(from) \subseteq Paths /\ Under(to) \subseteq Paths
  BY UnderIs DEF FsInv, FsTypes, StoreTypes
<1>2. ref'[n] = IF m \in Paths THEN ref[m] ELSE Nothing
  BY <1>1 DEF MovedTo
<1>3. \A p \in Under(from) \cup Under(to) : p \notin astray /\ Fine(p)
  BY <1>1 DEF FsInv
<1>4. NoEntry.type = "None" /\ \A p \in old : store.map[p] # NoEntry
  BY DEF Exists, NoEntry
<1>5. /\ \A p \in Under(to) : p \in new <=> Moved(p, to, from) \in old
      /\ \A p \in new : p \in Under(to) /\ p \in PathsIn(store'.tree)
      /\ \A p \in Paths : p \in PathsIn(store.tree) /\ p \notin Under(from) =>
             p \in PathsIn(store'.tree)
  <2>1. \A p \in Under(to) : Moved(Moved(p, to, from), from, to) = p
    BY MoveIs
  <2>2. \A p \in Under(from) : Moved(Moved(p, from, to), to, from) = p
    BY MoveIs
  <2>3. \A p \in PathsIn(store.tree) \cap Under(from) :
            Moved(p, from, to) \in Under(to) /\ Moved(p, from, to) \in PathsIn(store'.tree)
    BY <1>1, RoomIs DEF StoreOK
  <2>4. \A p \in Known : p \in PathsIn(store.tree) /\ p \notin Under(from) =>
             p \in PathsIn(store'.tree)
    BY <1>1, RoomIs DEF StoreOK
  <2> QED
    BY <2>1, <2>2, <2>3, <2>4 DEF Known
<1>6. \A p \in Under(to) : p \notin Under(from) /\ p \notin old
  BY UnderIs
<1>7. ASSUME NEW p \in Under(to), NEW q \in Paths, q = Moved(p, to, from), q \in old
      PROVE  Shown(p)' = Shown(q)
  <2>1. store'.map[p] = store.map[q] /\ store.map[q] # NoEntry
    BY <1>1, <1>4, <1>5, <1>7
  <2>2. /\ Shown(p)' = View(mode, host[p], store.map[q], content)
        /\ Shown(q) = View(mode, host[q], store.map[q], content)
    BY <1>1, <1>7, <2>1, ShownTells, NextTells
  <2>3. \A h : View(mode, h, store.map[q], content) = View(mode, host[q], store.map[q], content)
    <3>1. /\ mode \in Modes /\ host[q] \in {"None", "File", "Dir"} /\ store.map[q] \in Entries
          /\ content \in [1 .. MaxOps -> SUBSET Nat]
      BY <1>1, ShownTells DEF FsTypes, StoreTypes
    <3> QED
      BY <2>1, <3>1, ViewIs
  <2> QED
    BY <2>2, <2>3
<1>8. ASSUME NEW a \in Paths, a \notin Under(from), a \notin Under(to)
      PROVE  Shown(a)' = Shown(a)
  <2>1. store'.map[a] = store.map[a]
    BY <1>5, <1>8
  <2> QED
    BY <1>1, <2>1, ShownTells, NextTells
<1>9. CASE m \in Paths /\ m \in old
  <2>1. Fine(m) /\ m \in Under(from)
    BY <1>3, <1>9
  <2>2. Shown(n)' = ref'[n]
    BY <1>2, <1>7, <1>9, <2>1 DEF Fine
  <2>3. ASSUME ref'[n] # Nothing, NEW a \in Upward(n) PROVE Shown(a)'.kind = "Dir"
    <3>1. ref[m] # Nothing /\ InTree(m)
      BY <1>2, <1>9, <2>1, <2>3 DEF Fine
    <3>2. CASE a \in Upward(to) /\ a \notin Under(from) /\ a \notin Under(to)
      <4>1. Shown(a)' = Shown(a) /\ Shown(a).kind = "Dir"
        BY <1>8, <3>2, UpwardIs DEF InTree
      <4> QED
        BY <4>1
    <3>3. CASE /\ a \in Under(to) /\ Moved(a, to, from) \in Under(from)
               /\ Moved(a, to, from) \in Upward(m)
      <4>1. Shown(Moved(a, to, from)).kind = "Dir" /\ Moved(a, to, from) \in Paths
        BY <1>1, <3>1, <3>3 DEF InTree
      <4>2. Moved(a, to, from) \in old
        BY <3>3, <4>1 DEF Nothing
      <4>3. Shown(a)' = Shown(Moved(a, to, from))
        BY <1>7, <3>3, <4>1, <4>2
      <4> QED
        BY <4>1, <4>3
    <3> QED
      BY <1>9, <3>2, <3>3, MovedUpward
  <2>4. (ref[n] # Nothing => InTree(n))'
    BY <2>3 DEF InTree
  <2>5. store'.map[n] # NoEntry /\ n \in PathsIn(store'.tree)
    BY <1>1, <1>4, <1>5, <1>9
  <2> QED
    BY <2>2, <2>4, <2>5 DEF Fine
<1>10. CASE ~(m \in Paths /\ m \in old)
  <2>1. m \notin old
    BY <1>1, <1>10
  <2>2. n # to
    <3>1. Moved(to, to, from) = from
      BY MoveIs, UnderIs
    <3> QED
      BY <2>1, <3>1
  <2>3. ref'[n] = Nothing
    <3>1. m \in Paths => m \in Under(from)
      BY <1>1, MoveIs DEF Under
    <3>2. m \in Paths => Shown(m) = Nothing /\ Fine(m)
      BY <1>3, <2>1, <3>1
    <3> QED
      BY <1>2, <3>2 DEF Fine
  <2>4. Fine(n) /\ Shown(n) = Nothing
    BY <1>3, <2>2 DEF Fine
  <2>5. store'.map[n] = store.map[n] /\ (HostHas(n)' <=> HostHas(n))
    BY <1>1, <1>5, <1>6, <2>1 DEF HostHas
  <2>6. Shown(n)' = Nothing
    BY <1>1, <2>4, <2>5, ShownTells, NextTells
  <2>7. store.map[n] = Whiteout /\ HostHas(n) => n \in PathsIn(store'.tree)
    BY <1>1, <1>5, <2>4 DEF Fine, Exists, Whiteout
  <2> QED
    BY <1>1, <2>3, <2>5, <2>6, <2>7, Gone
<1> QED
  BY <1>9, <1>10

\* What the daemon's rename does to a store, whichever it is.
LEMMA RenamedStore ==
    ASSUME NEW st, StoreOK(st), NEW source \in Paths, NEW target \in Paths, Apart(source, target),
           Room(st.tree, source, target), NEW s,
           s = DeleteWhiteout(IF st.map[source].type = "Dir" THEN RenameTree(st, source, target)
                              ELSE RenameFile(st, source, target), target)
    PROVE  /\ StoreOK(s) /\ s.next = st.next
           /\ s.tree = Rename(st.tree, source, target)
           /\ \A p \in Paths \ (Under(source) \cup Under(target)) :
                  /\ s.map[p] = st.map[p]
                  /\ p \in PathsIn(st.tree) => p \in PathsIn(s.tree)
<1> DEFINE r == IF st.map[source].type = "Dir" THEN RenameTree(st, source, target)
                ELSE RenameFile(st, source, target)
<1>1. source \in Under(source) /\ target \in Under(target)
  BY UnderIs
<1>2. /\ StoreOK(r) /\ r.next = st.next /\ r.tree = Rename(st.tree, source, target)
      /\ \A p \in Paths \ (Under(source) \cup Under(target)) : r.map[p] = st.map[p]
  <2>1. CASE st.map[source].type = "Dir"
    <3> DEFINE old == OldEntries(st, source)
               new == NewEntries(st, source, target)
    <3>1. r = RenameTree(st, source, target)
      BY <2>1
    <3> HIDE DEF r, old, new
    <3>2. LET t == RenameTree(st, source, target)
          IN  /\ StoreOK(t)
              /\ old \subseteq Under(source) /\ new \subseteq Under(target)
              /\ \A p \in Paths : t.map[p] = IF p \in new THEN st.map[Moved(p, target, source)]
                                             ELSE IF p \in old THEN NoEntry ELSE st.map[p]
              /\ t.tree = Rename(st.tree, source, target) /\ t.next = st.next
      BY RenameTreeMoves DEF old, new
    <3> QED
      BY <3>1, <3>2
  <2>2. CASE st.map[source].type # "Dir"
    <3>1. r = RenameFile(st, source, target)
      BY <2>2
    <3> HIDE DEF r
    <3>2. LET t == RenameFile(st, source, target)
          IN  /\ StoreOK(t)
              /\ \A p \in Paths : t.map[p] = IF p = target THEN st.map[source]
                                             ELSE IF p = source THEN NoEntry ELSE st.map[p]
              /\ t.tree = Rename(st.tree, source, target) /\ t.next = st.next
      BY RenameFileIs
    <3> QED
      BY <1>1, <3>1, <3>2
  <2> QED
    BY <2>1, <2>2
<1>3. s = DeleteWhiteout(r, target)
  OBVIOUS
<1> HIDE DEF r
<1>4. /\ StoreOK(s) /\ s.tree = r.tree /\ s.next = r.next
      /\ \A p \in Paths : s.map[p] = IF p = target /\ r.map[p] = Whiteout THEN NoEntry ELSE r.map[p]
  <2>1. StoreOK(r)
    BY <1>2
  <2>2. LET t == DeleteWhiteout(r, target)
        IN  /\ StoreOK(t)
            /\ \A p \in Paths :
                   t.map[p] = IF p = target /\ r.map[p] = Whiteout THEN NoEntry ELSE r.map[p]
            /\ t.tree = r.tree /\ t.next = r.next
    BY <2>1, DeleteWhiteoutIs
  <2> QED
    BY <1>3, <2>2
<1>5. \A p \in Paths \ Under(source) : p \in PathsIn(st.tree) => p \in PathsIn(s.tree)
  BY <1>2, <1>4, RoomIs DEF StoreOK, Known
<1> QED
  BY <1>1, <1>2, <1>4, <1>5

\* The entries that a rename of something that is there takes along.
LEMMA RenamedEntries ==
    ASSUME FsInv, NEW from \in Paths, NEW to \in Paths, Apart(from, to),
           Room(store.tree, from, to), Under(from) \cap astray = {},
           Exists(store.map[from]), Shown(from) # Nothing, NEW s,
           s = DeleteWhiteout(IF store.map[from].type = "Dir" THEN RenameTree(store, from, to)
                              ELSE RenameFile(store, from, to), to)
    PROVE  \E old \in SUBSET Under(from) : \E new \in SUBSET Under(to) :
             /\ from \in old /\ old \subseteq PathsIn(store.tree)
             /\ \A m \in old : Exists(store.map[m])
             /\ \A m \in Under(from) \ old : Shown(m) = Nothing
             /\ new = {Moved(p, from, to) : p \in old}
             /\ \A p \in Paths : s.map[p] = IF p \in new THEN store.map[Moved(p, to, from)]
                                            ELSE IF p \in old THEN NoEntry ELSE store.map[p]
<1>1. /\ FsTypes /\ StoreOK(store) /\ from \in Under(from) /\ to \in Under(to)
      /\ Under(from) \subseteq Paths /\ Under(to) \subseteq Paths
      /\ \A p \in Under(from) : p \notin astray /\ Fine(p)
      /\ Moved(from, from, to) = to /\ Moved(to, to, from) = from
  BY UnderIs, MoveIs DEF FsInv, FsTypes, StoreTypes
<1>2. /\ store.map[from].type # "Whiteout" /\ store.map[from] # Whiteout
      /\ store.map[from] # NoEntry
      /\ store.map[from].type = "Dir" \/ Shown(from).kind # "Dir"
      /\ store.map[from] \in Entries
  <2>1. Whiteout.type = "Whiteout" /\ NoEntry.type = "None"
    BY DEF Whiteout, NoEntry
  <2>2. store.map[from] # Whiteout /\ store.map[from] # NoEntry /\ store.map[from] \in Entries
    BY <1>1, <2>1, ShownTells DEF Exists
  <2>3. store.map[from].type \in {"File", "Dir", "Symlink"}
    BY <2>2, KindsOfEntries
  <2> QED
    BY <1>1, <2>2, <2>3, ShownTells
<1>3. from \in PathsIn(store.tree)
  BY <1>1, <1>2 DEF Fine, IsWhiteout
<1>4. CASE store.map[from].type = "Dir"
  <2> DEFINE r == RenameTree(store, from, to)
             old == OldEntries(store, from)
             new == NewEntries(store, from, to)
  <2>1. /\ StoreOK(r) /\ old \subseteq Under(from) /\ new \subseteq Under(to)
        /\ \A p \in Paths : r.map[p] = IF p \in new THEN store.map[Moved(p, to, from)]
                                       ELSE IF p \in old THEN NoEntry ELSE store.map[p]
    BY <1>1, RenameTreeMoves
  <2>2. from \in old /\ old \subseteq PathsIn(store.tree) /\ \A m \in old : Exists(store.map[m])
    BY <1>1, <1>3 DEF OldEntries
  <2>3. new = {Moved(p, from, to) : p \in old}
    BY DEF NewEntries
  <2>4. ASSUME NEW m \in Under(from) \ old PROVE Shown(m) = Nothing
    <3>1. Exists(store.map[m]) => m \notin PathsIn(store.tree)
      BY <2>4 DEF OldEntries
    <3>2. m \in Paths /\ Fine(m) /\ m # from /\ store.map[m] \in Entries
      BY <1>1, <2>2, ShownTells
    <3>3. CASE Exists(store.map[m])
      <4>1. store.map[m] = Whiteout
        BY <3>1, <3>2, <3>3, KindsOfEntries DEF Fine, IsWhiteout
      <4> QED
        BY <1>1, <3>2, <4>1, ShownTells
    <3>4. CASE ~Exists(store.map[m])
      <4>1. store.map[m] = NoEntry
        BY <3>2, <3>4, KindsOfEntries DEF Exists
      <4>2. from \in Upward(m)
        BY <3>2, PathIs DEF Under, Upward
      <4>3. ~(mode = "CopyOnWrite" /\ HostHas(m))
        BY <1>2, <3>2, <4>1, <4>2 DEF Fine
      <4> QED
        BY <1>1, <3>2, <4>1, <4>3, ShownTells
    <3> QED
      BY <3>3, <3>4
  <2>5. s = DeleteWhiteout(r, to)
    BY <1>4
  <2> HIDE DEF r, old, new
  <2>6. r.map[to] # Whiteout
    BY <1>1, <1>2, <2>1, <2>2, <2>3
  <2>7. \A p \in Paths : s.map[p] = r.map[p]
    BY <2>1, <2>5, <2>6, DeleteWhiteoutIs
  <2> QED
    BY <2>1, <2>2, <2>3, <2>4, <2>7
<1>5. CASE store.map[from].type # "Dir"
  <2> DEFINE r == RenameFile(store, from, to)
             old == {from}
             new == {to}
  <2>1. /\ StoreOK(r)
        /\ \A p \in Paths : r.map[p] = IF p = to THEN store.map[from]
                                       ELSE IF p = from THEN NoEntry ELSE store.map[p]
    BY <1>1, RenameFileIs
  <2>2. ASSUME NEW m \in Under(from) \ old PROVE Shown(m) = Nothing
    <3>1. m \in Inside(from) \ astray
      BY <1>1 DEF Inside
    <3> QED
      BY <1>2, <1>5, <3>1, NothingInside
  <2>3. s = DeleteWhiteout(r, to)
    BY <1>5
  <2> HIDE DEF r
  <2>4. \A p \in Paths : s.map[p] = r.map[p]
    <3>1. StoreOK(r) /\ to \in Paths /\ r.map[to] # Whiteout
      BY <1>2, <2>1
    <3>2. LET t == DeleteWhiteout(r, to)
          IN \A p \in Paths :
                 t.map[p] = IF p = to /\ r.map[p] = Whiteout THEN NoEntry ELSE r.map[p]
      BY <3>1, DeleteWhiteoutIs
    <3> QED
      BY <2>3, <3>1, <3>2
  <2>5. new = {Moved(p, from, to) : p \in old}
    BY <1>1
  <2>6. \A p \in Paths : s.map[p] = IF p \in new THEN store.map[Moved(p, to, from)]
                                    ELSE IF p \in old THEN NoEntry ELSE store.map[p]
    BY <1>1, <2>1, <2>4
  <2>7. /\ old \in SUBSET Under(from) /\ new \in SUBSET Under(to)
        /\ from \in old /\ old \subseteq PathsIn(store.tree)
        /\ \A m \in old : Exists(store.map[m])
    BY <1>1, <1>3
  <2> HIDE DEF old, new
  <2> QED
    BY <2>2, <2>5, <2>6, <2>7
<1> QED
  BY <1>4, <1>5

\* A rename moves what is shown along with the names, or they are astray.
LEMMA MoveStep ==
    ASSUME FsInv, NEW from \in Paths, NEW to \in Paths, Move(from, to)
    PROVE  FsInv'
<1>0. PICK source \in Paths, target \in Paths : source = PathOf(from) /\ target = PathOf(to)
  BY DEF Move, MayMove, Reaches
<1> DEFINE s == DeleteWhiteout(IF store.map[source].type = "Dir"
                               THEN RenameTree(store, source, target)
                               ELSE RenameFile(store, source, target), target)
           both == Under(from) \cup Under(to)
           misled == Misled(from, source) \cup Misled(to, target)
           what == MovedTo(ref, from, to, Nothing)
           lost == misled \cup
                   {n \in Under(from) : HostHas(n)} \cup
                   (IF \E n \in Inside(to) : ref[n] # Nothing THEN Inside(to) ELSE {}) \cup
                   (IF both \cap (astray \cup misled) # {} THEN both ELSE {})
<1>1. /\ Is(Parent(to), {"Dir"}) /\ dentry[from] # Nil
      /\ Apart(from, to) /\ Apart(source, target)
      /\ Room(store.tree, source, target)
      /\ Exists(store.map[source])
      /\ Changes(from, source, s, what, lost)
      /\ dentry' = MovedTo(dentry, from, to, Nil) /\ content' = content
  <2> HIDE DEF what, lost
  <2>1. MayMove(from, to) /\ Fits(from, to) /\ Exists(store.map[source])
        /\ Changes(from, source, s, what, lost)
        /\ dentry' = MovedTo(dentry, from, to, Nil) /\ content' = content
    BY <1>0 DEF Move, what, lost
  <2> HIDE DEF s
  <2> QED
    BY <1>0, <2>1 DEF MayMove, Fits, Reaches, Apart, Room
<1>2. /\ ops < MaxOps /\ store' = s /\ ref' = what /\ mode' = mode /\ host' = host
      /\ astray' = astray \cup Misled(from, source) \cup lost
  BY <1>1 DEF Changes
<1>3. /\ FsTypes /\ Rooted /\ StoreOK(store) /\ store.next \in Nat
      /\ content \in [1 .. MaxOps -> SUBSET Nat] /\ ref \in [Paths -> Things]
      /\ dentry \in [Paths -> Dentries \cup {Nil}]
      /\ \A id \in 1 .. MaxOps : id >= store.next => content[id] = {}
  BY DEF FsInv, FsTypes, StoreTypes, StoreOK
<1>4. /\ StoreOK(s) /\ s.next = store.next
      /\ s.tree = Rename(store.tree, source, target)
      /\ \A p \in Paths \ (Under(source) \cup Under(target)) :
             /\ s.map[p] = store.map[p]
             /\ p \in PathsIn(store.tree) => p \in PathsIn(s.tree)
  <2> HIDE DEF s
  <2>1. s = DeleteWhiteout(IF store.map[source].type = "Dir"
                           THEN RenameTree(store, source, target)
                           ELSE RenameFile(store, source, target), target)
    BY DEF s
  <2> QED
    BY <1>1, <1>3, <2>1, RenamedStore
<1>5. /\ both \in SUBSET Paths /\ misled \in SUBSET Paths /\ lost \in SUBSET Paths
      /\ from \in both /\ to \in both
  <2>1. both \in SUBSET Paths /\ misled \in SUBSET Paths /\ from \in both /\ to \in both
    BY Misses, UnderIs
  <2> HIDE DEF both, misled
  <2> QED
    BY <2>1, UnderIs
<1>6. what \in [Paths -> Things]
  BY <1>3 DEF MovedTo, Nothing, Things
<1>7. MovedTo(dentry, from, to, Nil) \in [Paths -> Dentries \cup {Nil}]
  BY <1>3 DEF MovedTo
<1>8. FsTypes'
  <2> HIDE DEF s, what, lost
  <2>1. s.next <= store.next + 1
    BY <1>3, <1>4
  <2> QED
    BY <1>1, <1>3, <1>4, <1>5, <1>6, <1>7, <2>1, ChangesTypes
<1>9. Rooted'
  BY <1>1, <1>3, RootedMove
<1>10. \A p \in Paths \ both : ref'[p] = ref[p]
  BY <1>2 DEF MovedTo
<1>11. /\ misled \subseteq astray' /\ astray \subseteq astray'
       /\ both \cap (astray \cup misled) # {} => both \subseteq astray'
       /\ \A n \in Under(from) : HostHas(n) => n \in astray'
       /\ (\E n \in Inside(to) : ref[n] # Nothing) => Inside(to) \subseteq astray'
  BY <1>2
<1> HIDE DEF s, what, lost
<1>12. CASE both \cap (astray \cup misled) # {}
  <2> DEFINE W == both \cup Under(source) \cup Under(target)
  <2>1. W \in SUBSET Paths /\ \A p \in W, q \in Paths : p \in Ancestors(q) => q \in W
    BY UnderIs
  <2>2. Misled(from, source) # {} => Under(source) \subseteq astray'
    BY <1>11 DEF Misled
  <2>3. Misled(to, target) # {} => Under(target) \subseteq astray'
    BY <1>11 DEF Misled
  <2>4. Misled(from, source) = {} => source = from
    BY <1>3, Straight
  <2>5. Misled(to, target) = {} => target = to
    BY <1>3, Straight
  <2>6. W \subseteq astray'
    BY <1>11, <1>12, <2>2, <2>3, <2>4, <2>5
  <2>7. ASSUME NEW n \in Paths \ astray' PROVE Fine(n)'
    <3>1. n \in Paths \ W /\ n \notin astray /\ Fine(n)
      BY <1>11, <2>6, <2>7 DEF FsInv
    <3>2. \A p \in Paths \ W :
              p \in Paths \ both /\ p \in Paths \ (Under(source) \cup Under(target))
      OBVIOUS
    <3> HIDE DEF W, both
    <3> QED
      BY <1>1, <1>2, <1>3, <1>4, <1>8, <1>10, <2>1, <3>1, <3>2, Kept
  <2> QED
    BY <1>8, <1>9, <2>7 DEF FsInv
<1>13. CASE both \cap (astray \cup misled) = {}
  <2>1. Misled(from, source) = {} /\ Misled(to, target) = {}
    BY <1>5, <1>13, UnderIs DEF Misled
  <2>2. source = from /\ target = to /\ InTree(to) /\ dentry[from].kind = Shown(from).kind
    BY <1>1, <1>3, <2>1, Straight
  <2>3. Shown(from) # Nothing
    <3>1. dentry[from].kind \in {"File", "Dir", "Symlink"}
      BY <1>1, <1>3 DEF Dentries
    <3> QED
      BY <2>2, <3>1 DEF Nothing
  <2>4. Under(from) \cap astray = {} /\ Under(to) \cap astray = {}
    BY <1>13
  <2>5. PICK old \in SUBSET Under(from), new \in SUBSET Under(to) :
             /\ from \in old /\ old \subseteq PathsIn(store.tree)
             /\ \A m \in old : Exists(store.map[m])
             /\ \A m \in Under(from) \ old : Shown(m) = Nothing
             /\ new = {Moved(p, from, to) : p \in old}
             /\ \A p \in Paths : s.map[p] = IF p \in new THEN store.map[Moved(p, to, from)]
                                            ELSE IF p \in old THEN NoEntry ELSE store.map[p]
    <3>1. s = DeleteWhiteout(IF store.map[from].type = "Dir" THEN RenameTree(store, from, to)
                             ELSE RenameFile(store, from, to), to)
      BY <2>2 DEF s
    <3>2. Apart(from, to) /\ Room(store.tree, from, to) /\ Exists(store.map[from])
      BY <1>1, <2>2
    <3> QED
      BY <2>3, <2>4, <3>1, <3>2, RenamedEntries, SMTT(30)
  <2>6. ASSUME NEW n \in Paths \ astray' PROVE Fine(n)'
    <3>1. CASE n \in Under(from)
      <4>1. ~HostHas(n) /\ n \notin new
        BY <1>1, <1>11, <2>6, <3>1, UnderIs
      <4>2. ref'[n] = Nothing
        BY <1>2, <3>1 DEF what, MovedTo
      <4>3. /\ store'.map[n] = IF n \in old THEN NoEntry ELSE store.map[n]
            /\ n \notin old => Shown(n) = Nothing
        BY <1>2, <2>5, <3>1, <4>1
      <4> QED
        BY <1>2, <1>8, <2>6, <3>1, <4>1, <4>2, <4>3, MovedAway
    <3>2. CASE n \in Under(to)
      <4>1. n # to => ref[n] = Nothing
        BY <1>11, <2>6, <3>2 DEF Inside
      <4>2. old \subseteq PathsIn(store.tree) \cap Under(from)
        BY <2>5
      <4>3. /\ store'.tree = Rename(store.tree, from, to) /\ ref' = MovedTo(ref, from, to, Nothing)
            /\ Apart(from, to) /\ Room(store.tree, from, to)
            /\ mode' = mode /\ host' = host /\ content' = content
        BY <1>1, <1>2, <1>4, <2>2 DEF what
      <4>4. /\ from \in old
            /\ \A m \in old : Exists(store.map[m])
            /\ \A m \in Under(from) \ old : Shown(m) = Nothing
            /\ new = {Moved(p, from, to) : p \in old}
            /\ \A p \in Paths : store'.map[p] = IF p \in new THEN store.map[Moved(p, to, from)]
                                                ELSE IF p \in old THEN NoEntry ELSE store.map[p]
        BY <1>2, <2>5
      <4> QED
        BY <1>8, <2>2, <2>4, <3>2, <4>1, <4>2, <4>3, <4>4, MovedThere
    <3>3. CASE n \notin both
      <4>1. both \in SUBSET Paths /\ \A p \in both, q \in Paths : p \in Ancestors(q) => q \in both
        BY UnderIs
      <4>2. n \notin astray /\ Fine(n)
        BY <1>11, <2>6 DEF FsInv
      <4>3. \A p \in Paths \ both : p \in Paths \ (Under(source) \cup Under(target))
        BY <2>2
      <4> HIDE DEF both
      <4> QED
        BY <1>1, <1>2, <1>3, <1>4, <1>8, <1>10, <2>6, <3>3, <4>1, <4>2, <4>3, Kept
    <3> QED
      BY <3>1, <3>2, <3>3
  <2> QED
    BY <1>8, <1>9, <2>6 DEF FsInv
<1> QED
  BY <1>12, <1>13

-----------------------------------------------------------------------------
(* The invariant.                                                          *)

\* At the start the host alone is shown.
LEMMA InitFs == FsInit => FsInv
<1> SUFFICES ASSUME FsInit PROVE FsInv
  OBVIOUS
<1>1. /\ mode \in Modes /\ host \in Hosts
      /\ store = [map |-> [p \in Paths |-> NoEntry], tree |-> EmptyTree, next |-> 1]
      /\ content = [id \in 1 .. MaxOps |-> {}]
      /\ dentry = [p \in Paths |-> Nil] /\ ops = 0 /\ astray = {}
      /\ ref = [p \in Paths |-> IF mode = "CopyOnWrite" /\ host[p] # "None"
                                THEN IF host[p] = "File" THEN Regular({0}) ELSE Directory
                                ELSE Nothing]
  BY DEF FsInit
<1>2. StoreOK(store)
  <2>1. ExactFor(EmptyTree, Names) /\ PathsIn(EmptyTree) = {}
    BY EmptyIsTree, ExactOf
  <2>2. \A p \in Paths : store.map[p] = NoEntry /\ NoEntry.type = "None"
    BY <1>1 DEF NoEntry
  <2>3. store.map \in Maps
    BY <1>1, KindsOfEntries DEF Maps
  <2>4. Owned(store.map, store.next)
    BY <2>2 DEF Owned
  <2> QED
    BY <1>1, <2>1, <2>3, <2>4 DEF StoreOK
<1>3. StoreTypes
  BY <1>1, <1>2 DEF StoreTypes
<1>4. Regular({0}) \in Things /\ Directory \in Things /\ Nothing \in Things
  BY DEF Things, Regular, Directory, Nothing
<1>5. ref \in [Paths -> Things]
  BY <1>1, <1>4
<1>6. FsTypes
  BY <1>1, <1>3, <1>5, OpsAssumption DEF FsTypes
<1>7. Rooted
  BY <1>1 DEF Rooted
<1>8. ASSUME NEW n \in Paths
      PROVE  /\ Shown(n) = ref[n] /\ store.map[n] = NoEntry /\ ~Exists(store.map[n])
             /\ ref[n] # Nothing => mode = "CopyOnWrite" /\ host[n] # "None"
  <2>1. store.map[n] = NoEntry /\ NoEntry.type = "None"
    BY <1>1 DEF NoEntry
  <2>2. Shown(n) = View(mode, host[n], NoEntry, content) /\ host[n] \in {"None", "File", "Dir"}
    BY <1>6, <2>1, ShownTells
  <2> QED
    BY <1>1, <2>1, <2>2 DEF View, Exists
<1>9. ASSUME NEW n \in Paths PROVE Fine(n)
  <2>1. ASSUME ref[n] # Nothing, NEW a \in Upward(n) PROVE Shown(a).kind = "Dir"
    <3>1. mode = "CopyOnWrite" /\ host[n] # "None" /\ a \in Paths
      BY <1>8, <2>1, UpwardIs
    <3>2. host[a] = "Dir"
      BY <1>1, <2>1, <3>1, HostsAssumption DEF Upward
    <3> QED
      BY <1>6, <1>8, <3>1, <3>2, ShownTells
  <2>2. \A a \in Upward(n) : store.map[a] = NoEntry
    BY <1>8, UpwardIs
  <2> QED
    BY <1>8, <2>1, <2>2 DEF Fine, InTree
<1> QED
  BY <1>1, <1>6, <1>7, <1>9 DEF FsInv

\* Every handler keeps the invariant.
LEMMA NextFs == FsInv /\ [FsNext]_fs_vars => FsInv'
<1> SUFFICES ASSUME FsInv, [FsNext]_fs_vars PROVE FsInv'
  OBVIOUS
<1>1. CASE FsNext
  <2>1. ASSUME NEW n \in Paths, Lookup(n) PROVE FsInv'
    BY <2>1, LookupStep
  <2>2. ASSUME NEW n \in Paths, Create(n) PROVE FsInv'
    BY <2>2, CreateStep
  <2>3. ASSUME NEW n \in Paths, OpenWrite(n) PROVE FsInv'
    BY <2>3, OpenWriteStep
  <2>4. ASSUME NEW n \in Paths, Unlink(n) PROVE FsInv'
    BY <2>4, UnlinkStep
  <2>5. ASSUME NEW n \in Paths, Rmdir(n) PROVE FsInv'
    BY <2>5, RmdirStep
  <2>6. ASSUME NEW n \in Paths, Make(n, Dir, Directory) PROVE FsInv'
    BY <2>6, MakeStep
  <2>7. ASSUME NEW n \in Paths, Make(n, Symlink, Link) PROVE FsInv'
    BY <2>7, MakeStep
  <2>8. ASSUME NEW from \in Paths, NEW to \in Paths, Move(from, to) PROVE FsInv'
    BY <2>8, MoveStep
  <2> QED
    BY <1>1, <2>1, <2>2, <2>3, <2>4, <2>5, <2>6, <2>7, <2>8 DEF FsNext
<1>2. CASE UNCHANGED fs_vars
  <2>1. UNCHANGED <<mode, host, store, content, dentry, ops, ref, astray>>
    BY <1>2 DEF fs_vars
  <2>2. FsTypes' /\ Rooted'
    BY <2>1 DEF FsInv, FsTypes, StoreTypes, Rooted
  <2>3. ASSUME NEW n \in Paths \ astray' PROVE Fine(n)'
    <3>1. Fine(n)
      BY <2>1 DEF FsInv
    <3> QED
      BY <2>1, <3>1 DEF Fine, InTree, Shown, HostHas, FromHost, FromEntry
  <2> QED
    BY <2>2, <2>3 DEF FsInv
<1> QED
  BY <1>1, <1>2

\* What is inductive: what is shown is right, what is not there is hidden by a whiteout or by
\* nothing, and the path tree, the directories above a path and what the kernel knows agree.
THEOREM NamespaceInvariant == FsSpec => []FsInv
<1>1. FsInit => FsInv
  BY InitFs
<1>2. FsInv /\ [FsNext]_fs_vars => FsInv'
  BY NextFs
<1> QED
  BY <1>1, <1>2, PTL DEF FsSpec

\* For any paths, any host and any number of operations, a user sees under every name that
\* is not astray what a file system would have there.
THEOREM FilesShown == FsSpec => []ShowsFiles
<1>1. FsInv => ShowsFiles
  BY DEF FsInv, ShowsFiles, Fine
<1> QED
  BY <1>1, NamespaceInvariant, PTL

\* readdir shows a name just when lookup finds it, though readdir takes its names from the
\* path tree and the host, and lookup the entry from the map.
THEOREM ListedAreFound == FsSpec => []ListedIsFound
<1>1. FsInv => ListedIsFound
  <2> SUFFICES ASSUME FsInv, NEW n \in Paths \ astray
               PROVE  n \in Listing(Parent(n)) <=> Found(n)
    BY DEF ListedIsFound
  <2> DEFINE entry == IF n \in PathsIn(store.tree) THEN store.map[n] ELSE NoEntry
  <2>1. FsTypes /\ Fine(n) /\ n # <<>> /\ IsTreeOf(store.tree, PathsIn(store.tree))
    BY PathIs DEF FsInv, FsTypes, StoreTypes, StoreOK, ExactFor
  <2>2. n \in ChildrenOf(store.tree, Parent(n)) <=> n \in PathsIn(store.tree)
    BY <2>1, ChildIs
  <2>3. n \in Listing(Parent(n)) <=> VisibleChild(mode, HostHas(n), entry) # "nothing"
    BY <2>2 DEF Listing
  <2>4. mode \in {"CopyOnWrite", "FuseOnly"} /\ store.map[n] \in Entries
    BY <2>1, ModesAssumption, ShownTells DEF FsTypes
  <2>5. entry \in Entries
    BY <2>4, KindsOfEntries
  <2>6. VisibleChild(mode, HostHas(n), entry) # "nothing" <=>
            /\ entry # Whiteout
            /\ entry # NoEntry \/ (mode = "CopyOnWrite" /\ HostHas(n))
    <3> HIDE DEF entry
    <3>1. /\ entry.type \in {"File", "None", "Whiteout", "Dir", "Symlink"}
          /\ entry.type = "Whiteout" <=> entry = Whiteout
          /\ entry.type = "None" <=> entry = NoEntry
      BY <2>5, KindsOfEntries DEF Whiteout, NoEntry
    <3>2. CASE mode = "CopyOnWrite"
      BY <3>1, <3>2 DEF VisibleChild, DecideChild, Exists, IsWhiteout
    <3>3. CASE mode = "FuseOnly"
      BY <3>1, <3>3 DEF VisibleChild, DecideChild, Exists, IsWhiteout
    <3> QED
      BY <2>4, <3>2, <3>3
  <2>7. Found(n) <=> /\ store.map[n] # Whiteout
                     /\ store.map[n] # NoEntry \/ (mode = "CopyOnWrite" /\ HostHas(n))
    BY <2>1, ShownTells DEF Found
  <2>8. Whiteout.type = "Whiteout" /\ NoEntry.type = "None"
    BY DEF Whiteout, NoEntry
  <2>9. CASE n \in PathsIn(store.tree)
    BY <2>3, <2>6, <2>7, <2>9
  <2>10. CASE n \notin PathsIn(store.tree)
    <3>1. store.map[n] # NoEntry => store.map[n] = Whiteout /\ ~HostHas(n)
      BY <2>1, <2>4, <2>10, KindsOfEntries DEF Fine, Exists, IsWhiteout
    <3> QED
      BY <2>3, <2>6, <2>7, <2>8, <2>10, <3>1
  <2> QED
    BY <2>9, <2>10
<1> QED
  BY <1>1, NamespaceInvariant, PTL
=============================================================================
