--------------------------- MODULE CowFileProofs ---------------------------
(***************************************************************************)
(* For all threads, operations and numbers of objects: which objects a     *)
(* path and its threads refer to, what is never written to, and what the   *)
(* decision tables make of whatever the interleavings leave behind.        *)
(***************************************************************************)
EXTENDS CowFile, TLAPS

Places == {"idle", "lookup", "restat", "load", "ensure", "alloc", "publish", "truncate",
           "fill", "check", "unmask", "open", "holding", "delete", "whiteout", "put"}

TypeOK ==
    /\ access_mode \in {"FuseOnly", "CopyOnWrite"}
    /\ real_exists \in BOOLEAN
    /\ entry \in Entries
    /\ next_id \in 1 .. MaxObjects + 1
    /\ content \in [Objects -> Contents]
    /\ pc \in [Threads -> Places]
    /\ op \in [Threads -> AllOps]
    /\ copy_up \in [Threads -> BOOLEAN]
    /\ object \in [Threads -> 0 .. RealFile]

\* Who is about to publish or to fill has an object; who writes has one from
\* there to the end.
HasObject(t) ==
    /\ pc[t] \in {"publish", "truncate", "fill"} => object[t] \in Objects
    /\ pc[t] \in {"check", "unmask", "open", "holding"} /\ Writes(t) => object[t] \in Objects
    /\ pc[t] = "put" => ~Writes(t)

StoreInv == TypeOK /\ ObjectsAllocated /\ \A t \in Threads : HasObject(t)

\* The fields of the two kinds of answers.
LEMMA OpenIs ==
    ASSUME NEW what
    PROVE  /\ Open(what).do = what
           /\ Open(what).needs_ensure = FALSE
           /\ Open(what).copy_up_from_real = FALSE
  BY DEF Open

LEMMA ObjectIs ==
    ASSUME NEW a \in BOOLEAN, NEW b \in BOOLEAN, NEW c \in BOOLEAN
    PROVE  /\ OpenObject(a, b, c).do = "OpenObject"
           /\ OpenObject(a, b, c).needs_ensure = a
           /\ OpenObject(a, b, c).copy_up_from_real = b
  BY DEF OpenObject

\* What load_open_state and decide_open can answer: the host's file is opened to
\* read only, an object is opened only if there is one, and a whiteout is no file.
OpenAnswer(d, e, has_path, need_write) ==
    /\ d.copy_up_from_real \in BOOLEAN
    /\ d.needs_ensure \in BOOLEAN
    /\ d.do = "OpenReal" => ~need_write
    /\ d.do = "OpenObject" /\ ~d.needs_ensure => e.object \in Objects /\ has_path
    /\ IsWhiteout(e) => d.do = "NotFound"

LEMMA OpenAnswers ==
    ASSUME NEW mode \in {"FuseOnly", "CopyOnWrite"}, NEW e \in Entries,
           NEW has_path \in BOOLEAN, NEW need_write \in BOOLEAN, NEW real \in BOOLEAN
    PROVE  OpenAnswer(DecideOpen(mode, e, has_path, need_write, FALSE, real),
                      e, has_path, need_write)
<1> DEFINE d == DecideOpen(mode, e, has_path, need_write, FALSE, real)
           has_object == e.object # NoObject
           needs_ensure == ~has_object \/ ~has_path
           copies == ~has_object /\ ~FALSE /\ real
<1>1. /\ has_object => e.object \in Objects
      /\ needs_ensure \in BOOLEAN /\ copies \in BOOLEAN
  BY DEF Entries, NoEntry, Whiteout, Dir, Symlink, File, NoObject
<1>2. CASE IsWhiteout(e)
  <2>1. d = Open("NotFound")
    BY <1>2 DEF DecideOpen
  <2>2. d.do = "NotFound" /\ d.needs_ensure = FALSE /\ d.copy_up_from_real = FALSE
    BY <2>1, OpenIs
  <2> HIDE DEF d
  <2> QED
    BY <2>2, ZenonT(40) DEF OpenAnswer, d
<1>3. CASE ~IsWhiteout(e) /\ mode = "FuseOnly"
  <2>1. d = OpenObject(needs_ensure, FALSE, FALSE)
    BY <1>3 DEF DecideOpen
  <2> HIDE DEF d
  <2> QED
    BY <1>1, <1>3, <2>1, ObjectIs, ZenonT(40) DEF OpenAnswer, d
<1>4. CASE ~IsWhiteout(e) /\ mode = "CopyOnWrite" /\ need_write
  <2>1. d = OpenObject(needs_ensure, copies, TRUE)
    BY <1>4 DEF DecideOpen
  <2> QED
    BY <1>1, <1>4, <2>1, ObjectIs DEF OpenAnswer
<1>5. CASE ~IsWhiteout(e) /\ mode = "CopyOnWrite" /\ ~need_write
  <2>1. CASE ~has_object
    <3>1. d = Open("OpenReal")
      BY <1>5, <2>1 DEF DecideOpen
    <3> QED
      BY <1>5, <3>1, OpenIs DEF OpenAnswer
  <2>2. CASE has_object /\ has_path
    <3>1. d = OpenObject(FALSE, FALSE, FALSE)
      BY <1>5, <2>2 DEF DecideOpen
    <3> QED
      BY <1>1, <1>5, <2>2, <3>1, ObjectIs DEF OpenAnswer
  <2>3. CASE has_object /\ ~has_path
    <3>1. d = Open("Error")
      BY <1>5, <2>3 DEF DecideOpen
    <3> QED
      BY <1>5, <3>1, OpenIs DEF OpenAnswer
  <2> QED
    BY <2>1, <2>2, <2>3
<1> QED
  BY <1>2, <1>3, <1>4, <1>5

\* A step that moves one thread and leaves the store as it is.
LEMMA StoreByMove ==
    ASSUME StoreInv, NEW t \in Threads, NEW where \in Places, Goto(t, where),
           UNCHANGED <<access_mode, real_exists, store, op, copy_up, object>>,
           where \in {"publish", "truncate", "fill"} => object[t] \in Objects,
           where \in {"check", "unmask", "open",
           "holding"} /\ Writes(t) => object[t] \in Objects,
           where = "put" => ~Writes(t)
    PROVE  StoreInv'
  BY DEF StoreInv, TypeOK, ObjectsAllocated, HasObject, Goto, store, Writes, Objects,
     RealFile,
         Entries, Contents

LEMMA StoreInit == Init => StoreInv
<1> SUFFICES ASSUME Init PROVE StoreInv
  OBVIOUS
<1>1. TypeOK
  BY ObjectsAssumption DEF Init, TypeOK, Entries, Contents, Places, AllOps, RealFile,
     NoObject
<1> QED
  BY <1>1, ObjectsAssumption DEF Init, StoreInv, ObjectsAllocated, HasObject, NoEntry,
     NoObject

LEMMA StoreByOpen == \A t \in Threads : StoreInv /\ LoadOpen(t) => StoreInv'
<1> SUFFICES ASSUME NEW t \in Threads, StoreInv, LoadOpen(t) PROVE StoreInv'
  OBVIOUS
<1> DEFINE has_path == entry.object \in 1 .. next_id - 1
           d == DecideOpen(access_mode, entry, has_path, Writes(t), FALSE, real_exists)
           do == d.do
           needs_ensure == d.needs_ensure
           delete_whiteout == d.delete_whiteout
           where == CASE do = "OpenReal" /\ real_exists -> "open"
                      [] do = "OpenObject" /\ needs_ensure -> "ensure"
                      [] do = "OpenObject" /\ ~needs_ensure ->
                           IF delete_whiteout THEN "check" ELSE "open"
                      [] OTHER -> "idle"
           obj == CASE do = "OpenReal" /\ real_exists -> RealFile
                    [] do = "OpenObject" /\ ~needs_ensure -> entry.object
                    [] OTHER -> NoObject
           copies == d.copy_up_from_real
<1>1. /\ access_mode \in {"FuseOnly", "CopyOnWrite"} /\ entry \in Entries
      /\ real_exists \in BOOLEAN /\ Writes(t) \in BOOLEAN /\ has_path \in BOOLEAN
  BY DEF StoreInv, TypeOK, Writes
<1>2. OpenAnswer(d, entry, has_path, Writes(t))
  BY <1>1, OpenAnswers
<1>3. /\ copy_up' = [copy_up EXCEPT ![t] = copies]
      /\ object' = [object EXCEPT ![t] = obj]
      /\ Goto(t, where)
      /\ UNCHANGED <<access_mode, real_exists, store, op>>
  BY DEF LoadOpen
<1>4. /\ copies \in BOOLEAN /\ needs_ensure \in BOOLEAN
      /\ do = "OpenReal" => ~Writes(t)
      /\ do = "OpenObject" /\ ~needs_ensure => entry.object \in Objects /\ has_path
  BY <1>2, Zenon DEF OpenAnswer
<1> HIDE DEF d, do, needs_ensure, delete_whiteout, copies
<1>5. /\ where \in {"open", "ensure", "check", "idle"}
      /\ where \in {"open", "check"} /\ Writes(t) => obj \in Objects
      /\ obj \in 0 .. RealFile /\ (obj # RealFile => obj < next_id)
  BY <1>4, ObjectsAssumption DEF StoreInv, TypeOK, Objects, RealFile, NoObject
<1> HIDE DEF where, obj
<1>6. TypeOK'
  BY <1>3, <1>4, <1>5 DEF StoreInv, TypeOK, Goto, Places, store
<1>7. ObjectsAllocated'
  BY <1>3, <1>5 DEF StoreInv, TypeOK, ObjectsAllocated, store, RealFile
<1>8. ASSUME NEW u \in Threads PROVE HasObject(u)'
  BY <1>3, <1>5 DEF StoreInv, TypeOK, HasObject, Goto, Writes, Objects
<1> QED
  BY <1>6, <1>7, <1>8 DEF StoreInv

LEMMA StoreByObject ==
    \A t \in Threads :
        StoreInv /\ (Ensure(t) \/ Alloc(t) \/ AllocFails(t) \/ Publish(t)) => StoreInv'
<1> SUFFICES ASSUME NEW t \in Threads, StoreInv
             PROVE  (Ensure(t) \/ Alloc(t) \/ AllocFails(t) \/ Publish(t)) => StoreInv'
  OBVIOUS
<1> USE ObjectsAssumption DEF StoreInv, Objects, RealFile, NoObject
<1>1. ASSUME Ensure(t) PROVE StoreInv'
  <2>1. TypeOK'
    BY <1>1 DEF Ensure, TypeOK, Goto, store, local, Places, Entries, NoEntry, Whiteout,
       Dir, Symlink, File
  <2>2. ObjectsAllocated'
    BY <1>1 DEF Ensure, TypeOK, ObjectsAllocated, HasObject, Goto, store, local, Entries,
       NoEntry, Whiteout, Dir, Symlink, File
  <2>3. ASSUME NEW u \in Threads PROVE HasObject(u)'
    BY <1>1 DEF Ensure, TypeOK, HasObject, Goto, Writes, store, local, Entries, NoEntry,
       Whiteout, Dir, Symlink, File
  <2> QED
    BY <2>1, <2>2, <2>3
<1>2. ASSUME Alloc(t) PROVE StoreInv'
  <2>1. TypeOK'
    BY <1>2 DEF Alloc, TypeOK, Goto, store, local, Places, Contents
  <2>2. ObjectsAllocated'
    <3>1. (entry.type = "File" => entry.object < next_id)'
      <4>1. entry.type = "File" => entry.object \in Objects
        BY DEF TypeOK, Entries, NoEntry, Whiteout, Dir, Symlink, File
      <4> QED
        BY <1>2, <4>1 DEF Alloc, TypeOK, ObjectsAllocated
    <3>2. (\A u \in Threads : object[u] # RealFile => object[u] < next_id)'
      BY <1>2 DEF Alloc, TypeOK, ObjectsAllocated
    <3>3. (\A id \in Objects : id >= next_id => content[id] = "empty")'
      BY <1>2 DEF Alloc, TypeOK, ObjectsAllocated
    <3> QED
      BY <3>1, <3>2, <3>3 DEF ObjectsAllocated
  <2>3. ASSUME NEW u \in Threads PROVE HasObject(u)'
    BY <1>2 DEF Alloc, TypeOK, HasObject, Goto, Writes, store, local, Contents
  <2> QED
    BY <2>1, <2>2, <2>3
<1>3. ASSUME AllocFails(t) PROVE StoreInv'
  <2>1. TypeOK'
    BY <1>3 DEF AllocFails, TypeOK, Goto, store, local, Places
  <2>2. ObjectsAllocated'
    <3>1. (entry.type = "File" => entry.object < next_id)'
      <4>1. entry.type = "File" => entry.object \in Objects
        BY DEF TypeOK, Entries, NoEntry, Whiteout, Dir, Symlink, File
      <4> QED
        BY <1>3, <4>1 DEF AllocFails, TypeOK, ObjectsAllocated
    <3>2. (\A u \in Threads : object[u] # RealFile => object[u] < next_id)'
      BY <1>3 DEF AllocFails, TypeOK, ObjectsAllocated
    <3>3. (\A id \in Objects : id >= next_id => content[id] = "empty")'
      BY <1>3 DEF AllocFails, TypeOK, ObjectsAllocated
    <3> QED
      BY <3>1, <3>2, <3>3 DEF ObjectsAllocated
  <2>3. ASSUME NEW u \in Threads PROVE HasObject(u)'
    BY <1>3 DEF AllocFails, TypeOK, HasObject, Goto, Writes, store, local
  <2> QED
    BY <2>1, <2>2, <2>3
<1>4. ASSUME Publish(t) PROVE StoreInv'
  <2>0. /\ entry' = File(object[t]) /\ object[t] \in Objects
        /\ \E where \in Places : Goto(t, where) /\ where \notin {"publish", "fill", "put"}
        /\ UNCHANGED <<access_mode, real_exists, next_id, content, op, copy_up, object>>
    BY <1>4 DEF Publish, HasObject, Places
  <2>1. TypeOK'
    <3>1. entry' \in Entries
      BY <2>0 DEF Entries
    <3> QED
      BY <2>0, <3>1 DEF TypeOK, Goto
  <2>2. ObjectsAllocated'
    <3>1. entry'.object = object[t]
      BY <2>0 DEF File
    <3>2. object[t] < next_id
      BY <2>0 DEF TypeOK, ObjectsAllocated
    <3> QED
      BY <2>0, <3>1, <3>2 DEF ObjectsAllocated
  <2>3. ASSUME NEW u \in Threads PROVE HasObject(u)'
    BY <1>4 DEF Publish, TypeOK, HasObject, Goto, Writes, store, local, Entries, File
  <2> QED
    BY <2>1, <2>2, <2>3
<1> QED
  BY <1>1, <1>2, <1>3, <1>4

\* The contents of an object that some thread works on.
LEMMA StoreByContent ==
    \A t \in Threads :
        StoreInv /\ (CopyTruncate(t) \/ CopyFill(t) \/ Write(t) \/ Truncate(t)) => StoreInv'
<1> SUFFICES ASSUME NEW t \in Threads, StoreInv
             PROVE  (CopyTruncate(t) \/ CopyFill(t) \/ Write(t) \/ Truncate(t)) => StoreInv'
  OBVIOUS
<1> USE ObjectsAssumption DEF StoreInv, Objects, RealFile, NoObject
<1>1. ASSUME CopyTruncate(t) PROVE StoreInv'
  <2>1. TypeOK'
    BY <1>1 DEF CopyTruncate, TypeOK, Goto, store, local, Places, Contents
  <2>2. ObjectsAllocated'
    BY <1>1 DEF CopyTruncate, TypeOK, ObjectsAllocated, HasObject, Goto, store, local,
       Contents
  <2>3. ASSUME NEW u \in Threads PROVE HasObject(u)'
    BY <1>1 DEF CopyTruncate, TypeOK, HasObject, Goto, Writes, store, local, Contents
  <2> QED
    BY <2>1, <2>2, <2>3
<1>2. ASSUME CopyFill(t) PROVE StoreInv'
  <2>1. TypeOK'
    BY <1>2 DEF CopyFill, TypeOK, Goto, store, local, Places, Contents
  <2>2. ObjectsAllocated'
    <3>1. object[t] < next_id
      BY <1>2 DEF CopyFill, TypeOK, ObjectsAllocated, HasObject
    <3>2. \A id \in Objects : content'[id] = IF id = object[t] THEN "real" ELSE content[id]
      BY <1>2 DEF CopyFill, TypeOK
    <3> QED
      BY <1>2, <3>1, <3>2 DEF CopyFill, TypeOK, ObjectsAllocated, store
  <2>3. ASSUME NEW u \in Threads PROVE HasObject(u)'
    BY <1>2 DEF CopyFill, TypeOK, HasObject, Goto, Writes, store, local, Contents
  <2> QED
    BY <2>1, <2>2, <2>3
<1>3. ASSUME Write(t) PROVE StoreInv'
  <2>1. TypeOK'
    BY <1>3 DEF Write, TypeOK, Goto, store, local, Places, Contents, Writes
  <2>2. ObjectsAllocated'
    <3>1. object[t] < next_id
      BY <1>3 DEF Write, TypeOK, ObjectsAllocated, HasObject, Writes
    <3>2. \A id \in Objects : content'[id] = IF id = object[t] THEN t ELSE content[id]
      BY <1>3 DEF Write, TypeOK
    <3> QED
      BY <1>3, <3>1, <3>2 DEF Write, TypeOK, ObjectsAllocated, local
  <2>3. ASSUME NEW u \in Threads PROVE HasObject(u)'
    BY <1>3 DEF Write, TypeOK, HasObject, Goto, Writes, store, local, Contents, Writes
  <2> QED
    BY <2>1, <2>2, <2>3
<1>4. ASSUME Truncate(t) PROVE StoreInv'
  <2>1. TypeOK'
    BY <1>4 DEF Truncate, TypeOK, Goto, store, local, Places, Contents, Writes
  <2>2. ObjectsAllocated'
    BY <1>4 DEF Truncate, TypeOK, ObjectsAllocated, HasObject, Goto, store, local,
       Contents, Writes
  <2>3. ASSUME NEW u \in Threads PROVE HasObject(u)'
    BY <1>4 DEF Truncate, TypeOK, HasObject, Goto, Writes, store, local, Contents, Writes
  <2> QED
    BY <2>1, <2>2, <2>3
<1> QED
  BY <1>1, <1>2, <1>3, <1>4

\* A copy that is cut off leaves a part of the host's file in the object that is
\* copied into, or what that was; and its thread goes on or ends.
LEMMA CutIs ==
    ASSUME NEW t \in Threads, StoreInv, Cut(t)
    PROVE  /\ content' \in [Objects -> Contents]
           /\ \A id \in Objects :
                  content'[id] # content[id] =>
                      pc[t] = "fill" /\ id = object[t] /\ content'[id] = "partial"
<1>1. content \in [Objects -> Contents]
  BY DEF StoreInv, TypeOK
<1>2. CASE content' = content
  BY <1>1, <1>2
<1>3. CASE pc[t] = "fill" /\ content' = [content EXCEPT ![object[t]] = "partial"]
  BY <1>1, <1>3 DEF Contents
<1> QED
  BY <1>2, <1>3 DEF Cut

LEMMA StoreByFault ==
    \A t \in Threads : StoreInv /\ (CopyFails(t) \/ Ignored(t) \/ GivesUp(t)) => StoreInv'
<1> SUFFICES ASSUME NEW t \in Threads, StoreInv, CopyFails(t) \/ Ignored(t) \/ GivesUp(t)
             PROVE  StoreInv'
  OBVIOUS
<1>1. CASE Ignored(t)
  BY <1>1, StoreByMove DEF Ignored, StoreInv, HasObject, Last, Writes, Opens, Places
<1>2. CASE CopyFails(t) \/ GivesUp(t)
  <2>1. /\ Cut(t)
        /\ UNCHANGED <<access_mode, real_exists, entry, next_id, op, copy_up, object>>
        /\ \/ Goto(t, "idle")
           \/ Goto(t, "check") /\ object[t] \in Objects
    BY <1>2 DEF CopyFails, GivesUp, StoreInv, HasObject
  <2>2. TypeOK'
    BY <2>1, CutIs DEF StoreInv, TypeOK, Goto, Places
  <2>3. ObjectsAllocated'
    <3>1. pc[t] = "fill" => object[t] < next_id
      BY ObjectsAssumption DEF StoreInv, TypeOK, ObjectsAllocated, HasObject, Objects, RealFile
    <3>2. \A id \in Objects : id >= next_id => content'[id] = "empty"
      BY <2>1, <3>1, CutIs, ObjectsAssumption, SMTT(40)
      DEF StoreInv, TypeOK, ObjectsAllocated, Objects
    <3> QED
      BY <2>1, <3>2 DEF StoreInv, ObjectsAllocated
  <2>4. ASSUME NEW u \in Threads PROVE HasObject(u)'
    BY <2>1 DEF StoreInv, TypeOK, HasObject, Goto, Writes
  <2> QED
    BY <2>2, <2>3, <2>4 DEF StoreInv
<1> QED
  BY <1>1, <1>2

\* The entry becomes one that names no object.
LEMMA StoreByEntry ==
    \A t \in Threads :
        StoreInv /\ (RemoveWhiteout(t) \/ Delete(t) \/ PutWhiteout(t) \/ Put(t)) => StoreInv'
<1> SUFFICES ASSUME NEW t \in Threads, StoreInv
             PROVE  (RemoveWhiteout(t) \/ Delete(t) \/ PutWhiteout(t) \/ Put(t)) => StoreInv'
  OBVIOUS
<1> USE ObjectsAssumption DEF StoreInv, Objects, RealFile, NoObject, Entries, NoEntry,
                              Whiteout, Dir, Symlink, File
<1>1. ASSUME RemoveWhiteout(t) PROVE StoreInv'
  <2>1. TypeOK'
    BY <1>1 DEF RemoveWhiteout, TypeOK, Goto, store, local, Places, Last
  <2>2. ObjectsAllocated'
    BY <1>1 DEF RemoveWhiteout, TypeOK, ObjectsAllocated, HasObject, Goto, store, local,
       Last
  <2>3. ASSUME NEW u \in Threads PROVE HasObject(u)'
    BY <1>1 DEF RemoveWhiteout, TypeOK, HasObject, Goto, Writes, store, local, Last
  <2> QED
    BY <2>1, <2>2, <2>3
<1>2. ASSUME Delete(t) PROVE StoreInv'
  <2>1. TypeOK'
    BY <1>2 DEF Delete, TypeOK, Goto, store, local, Places
  <2>2. ObjectsAllocated'
    BY <1>2 DEF Delete, TypeOK, ObjectsAllocated, HasObject, Goto, store, local
  <2>3. ASSUME NEW u \in Threads PROVE HasObject(u)'
    BY <1>2 DEF Delete, TypeOK, HasObject, Goto, Writes, store, local
  <2> QED
    BY <2>1, <2>2, <2>3
<1>3. ASSUME PutWhiteout(t) PROVE StoreInv'
  <2>1. TypeOK'
    BY <1>3 DEF PutWhiteout, TypeOK, Goto, store, local, Places
  <2>2. ObjectsAllocated'
    BY <1>3 DEF PutWhiteout, TypeOK, ObjectsAllocated, HasObject, Goto, store, local
  <2>3. ASSUME NEW u \in Threads PROVE HasObject(u)'
    BY <1>3 DEF PutWhiteout, TypeOK, HasObject, Goto, Writes, store, local
  <2> QED
    BY <2>1, <2>2, <2>3
<1>4. ASSUME Put(t) PROVE StoreInv'
  <2>1. TypeOK'
    BY <1>4 DEF Put, TypeOK, Goto, store, local, Places
  <2>2. ObjectsAllocated'
    BY <1>4 DEF Put, TypeOK, ObjectsAllocated, HasObject, Goto, store, local
  <2>3. ASSUME NEW u \in Threads PROVE HasObject(u)'
    BY <1>4 DEF Put, TypeOK, HasObject, Goto, Writes, store, local
  <2> QED
    BY <2>1, <2>2, <2>3
<1> QED
  BY <1>1, <1>2, <1>3, <1>4

\* The threads that look up, or go on without touching the store.
LEMMA StoreByLook ==
    \A t \in Threads :
        StoreInv /\ (Begin(t) \/ Lookup(t) \/ Restat(t) \/ CheckWhiteout(t)
                     \/ OpenBacking(t) \/ Release(t)) => StoreInv'
<1> SUFFICES ASSUME NEW t \in Threads, StoreInv
             PROVE  (Begin(t) \/ Lookup(t) \/ Restat(t) \/ CheckWhiteout(t)
                     \/ OpenBacking(t) \/ Release(t)) => StoreInv'
  OBVIOUS
<1>1. ASSUME Begin(t) PROVE StoreInv'
  <2>1. TypeOK'
    BY <1>1, OpsAssumption, ObjectsAssumption
    DEF Begin, StoreInv, TypeOK, Goto, store, Places, NoObject, RealFile
  <2>2. ObjectsAllocated'
    BY <1>1, ObjectsAssumption
    DEF Begin, StoreInv, TypeOK, ObjectsAllocated, store, NoObject
  <2>3. ASSUME NEW u \in Threads PROVE HasObject(u)'
    BY <1>1 DEF Begin, StoreInv, TypeOK, HasObject, Goto, Writes, Objects
  <2> QED
    BY <2>1, <2>2, <2>3 DEF StoreInv
<1>2. ASSUME NEW kind, \/ AfterLookup(t, kind) \in {"publish", "truncate", "fill"}
                       \/ AfterLookup(t, kind) \in {"check", "unmask", "open", "holding"}
                       \/ AfterLookup(t, kind) = "put" /\ Writes(t)
                       \/ AfterLookup(t, kind) \notin Places
      PROVE  FALSE
  BY <1>2 DEF AfterLookup, Writes, Places
<1>3. ASSUME Lookup(t) PROVE StoreInv'
  <2>1. PICK where \in Places : Goto(t, where)
                /\ (where = "restat" \/ \E kind : where = AfterLookup(t, kind))
    <3>1. DecideStat(access_mode, real_exists, entry) \in {"UseFuse", "UseReal", "NotFound"}
      BY DEF StoreInv, TypeOK, DecideStat
    <3> QED
      BY <1>2, <1>3, <3>1 DEF Lookup, Places
  <2> QED
    BY <1>2, <1>3, <2>1, StoreByMove DEF Lookup
<1>4. ASSUME Restat(t) PROVE StoreInv'
  <2>1. PICK kind : Goto(t, AfterLookup(t, kind))
    BY <1>4 DEF Restat
  <2> QED
    BY <1>2, <1>4, <2>1, StoreByMove DEF Restat
<1>5. ASSUME CheckWhiteout(t) PROVE StoreInv'
  BY <1>5, StoreByMove DEF CheckWhiteout, StoreInv, HasObject, Last, Writes, Opens, Places
<1>6. ASSUME OpenBacking(t) PROVE StoreInv'
  BY <1>6, StoreByMove DEF OpenBacking, StoreInv, HasObject, Places
<1>7. ASSUME Release(t) PROVE StoreInv'
  BY <1>7, StoreByMove DEF Release, Places
<1> QED
  BY <1>1, <1>3, <1>4, <1>5, <1>6, <1>7

\* The type of the state, the allocated objects and the object each thread has are
\* inductive together (executor.rs, object.rs): a thread that writes got its object
\* from the entry or from the store, never from the host.
THEOREM StoreInvariant == Spec => []StoreInv
<1>1. StoreInv /\ [Next]_vars => StoreInv'
  <2> SUFFICES ASSUME StoreInv, [Next]_vars PROVE StoreInv'
    OBVIOUS
  <2>1. ASSUME NEW t \in Threads, Step(t) PROVE StoreInv'
    BY <2>1, StoreByLook, StoreByOpen, StoreByObject, StoreByContent, StoreByEntry,
       StoreByFault DEF Step
  <2>2. CASE UNCHANGED vars
    BY <2>2 DEF StoreInv, TypeOK, ObjectsAllocated, HasObject, Writes, vars, store, local
  <2> QED
    BY <2>1, <2>2 DEF Next
<1> QED
  BY <1>1, StoreInit, PTL DEF Spec

\* However the requests interleave, the next id is of an object that nobody refers
\* to (alloc_empty, put_copy_from): no two files share one by accident.
THEOREM AlwaysAllocated == Spec => []ObjectsAllocated
<1>1. StoreInv => ObjectsAllocated
  BY DEF StoreInv
<1> QED
  BY <1>1, StoreInvariant, PTL

\* No interleaving of opens, creations and removals gives a writer the host's file
\* (decide_open, execute_open).
THEOREM HostNeverWritten == Spec => []HostFileUntouched
<1>1. StoreInv => HostFileUntouched
  BY DEF StoreInv, HasObject, HostFileUntouched
<1> QED
  BY <1>1, StoreInvariant, PTL

-----------------------------------------------------------------------------
(* What lookup, readdir, open and readlink make of the entry.              *)

\* Nothing is at the path: a whiteout, or no entry where no host's file shows.
Gone(mode, real, e) ==
    \/ e.type = "Whiteout"
    \/ e.type = "None" /\ (mode = "FuseOnly" \/ ~real)

LEMMA StatIs ==
    ASSUME NEW mode \in {"FuseOnly", "CopyOnWrite"}, NEW real \in BOOLEAN, NEW e \in Entries
    PROVE  DecideStat(mode, real, e) = IF Gone(mode, real, e) THEN "NotFound"
                                       ELSE IF e.type = "None" THEN "UseReal" ELSE "UseFuse"
  BY DEF DecideStat, Gone, Exists, IsWhiteout, Entries, NoEntry, Whiteout, Dir, Symlink,
     File

LEMMA ChildIs ==
    ASSUME NEW mode \in {"FuseOnly", "CopyOnWrite"}, NEW real \in BOOLEAN, NEW e \in Entries
    PROVE  VisibleChild(mode, real, e) = IF Gone(mode, real, e) THEN "nothing"
                                         ELSE IF e.type = "None" THEN "real" ELSE e.type
<1>1. e.type \in {"None", "Whiteout", "File", "Dir", "Symlink"}
  BY DEF Entries, NoEntry, Whiteout, Dir, Symlink, File
<1>2. CASE e.type = "Whiteout"
  BY <1>2 DEF VisibleChild, DecideChild, Gone, IsWhiteout
<1>3. CASE e.type = "None"
  BY <1>3 DEF VisibleChild, DecideChild, Gone, IsWhiteout, Exists
<1>4. CASE e.type \in {"File", "Dir", "Symlink"}
  BY <1>4 DEF VisibleChild, DecideChild, Gone, IsWhiteout, Exists
<1> QED
  BY <1>1, <1>2, <1>3, <1>4

LEMMA ReadOpenIs ==
    ASSUME NEW real \in BOOLEAN, NEW e \in Entries
    PROVE  DecideOpen("CopyOnWrite", e, TRUE, FALSE, FALSE, real).do =
               IF e.type = "Whiteout" THEN "NotFound"
               ELSE IF e.type = "File" THEN "OpenObject" ELSE "OpenReal"
<1> DEFINE d == DecideOpen("CopyOnWrite", e, TRUE, FALSE, FALSE, real)
<1>1. e.type \in {"None", "Whiteout", "File", "Dir", "Symlink"}
  BY DEF Entries, NoEntry, Whiteout, Dir, Symlink, File
<1>2. e.object # NoObject <=> e.type = "File"
  BY DEF Entries, NoEntry, Whiteout, Dir, Symlink, File, NoObject, Objects
<1>3. CASE e.type = "Whiteout"
  <2>1. d = Open("NotFound")
    BY <1>3 DEF DecideOpen, IsWhiteout
  <2> QED
    BY <1>3, <2>1, OpenIs
<1>4. CASE e.type = "File"
  <2>1. d = OpenObject(FALSE, FALSE, FALSE)
    BY <1>2, <1>4 DEF DecideOpen, IsWhiteout
  <2> QED
    BY <1>4, <2>1, ObjectIs
<1>5. CASE e.type \in {"None", "Dir", "Symlink"}
  <2>1. d = Open("OpenReal")
    BY <1>2, <1>5 DEF DecideOpen, IsWhiteout
  <2> QED
    BY <1>5, <2>1, OpenIs
<1> QED
  BY <1>1, <1>3, <1>4, <1>5

\* In every state that interleavings lead to, the decision tables agree on what is
\* at the path (decide_stat, decide_child, decide_open, decide_readlink).
THEOREM AlwaysAgree == Spec => []ViewsAgree
<1>1. StoreInv => ViewsAgree
  <2> SUFFICES ASSUME StoreInv PROVE ViewsAgree
    OBVIOUS
  <2> DEFINE stat  == DecideStat(access_mode, real_exists, entry)
             child == VisibleChild(access_mode, real_exists, entry)
             open  == DecideOpen(access_mode, entry, TRUE, FALSE, FALSE, real_exists)
             do    == open.do
             link  == DecideReadlink(access_mode, entry)
             gone  == Gone(access_mode, real_exists, entry)
  <2>1. /\ access_mode \in {"FuseOnly", "CopyOnWrite"} /\ real_exists \in BOOLEAN
        /\ entry \in Entries
        /\ entry.type \in {"None", "Whiteout", "File", "Dir", "Symlink"}
    BY DEF StoreInv, TypeOK, Entries, NoEntry, Whiteout, Dir, Symlink, File
  <2>2. /\ stat = IF gone THEN "NotFound" ELSE IF entry.type = "None" THEN "UseReal" ELSE "UseFuse"
        /\ child = IF gone THEN "nothing" ELSE IF entry.type = "None" THEN "real" ELSE entry.type
    BY <2>1, StatIs, ChildIs
  <2>3. access_mode = "CopyOnWrite" =>
            do = IF entry.type = "Whiteout" THEN "NotFound"
                 ELSE IF entry.type = "File" THEN "OpenObject" ELSE "OpenReal"
    BY <2>1, ReadOpenIs
  <2>4. link = IF entry.type = "Symlink" THEN "UseFuse"
               ELSE IF access_mode = "CopyOnWrite" /\ entry.type # "Whiteout" THEN "UseReal"
               ELSE "NotFound"
    BY <2>1 DEF DecideReadlink
  <2>5. gone <=> \/ entry.type = "Whiteout"
                 \/ entry.type = "None" /\ (access_mode = "FuseOnly" \/ ~real_exists)
    BY DEF Gone
  <2> HIDE DEF stat, child, do, link, gone
  <2>6. /\ stat = "NotFound" <=> child = "nothing"
        /\ stat = "UseReal" <=> child = "real"
        /\ stat = "UseFuse" => child = entry.type
        /\ access_mode = "CopyOnWrite" /\ entry.type \in {"None", "File", "Whiteout"} =>
             /\ stat = "NotFound" => (do = "NotFound" \/ ~real_exists)
             /\ stat = "UseReal" => do = "OpenReal"
             /\ stat = "UseFuse" => do = "OpenObject"
        /\ link = "UseFuse" <=> child = "Symlink"
        /\ link = "UseReal" => (stat # "NotFound" \/ ~real_exists)
    BY <2>1, <2>2, <2>3, <2>4, <2>5
  <2> QED
    BY <2>6 DEF ViewsAgree, stat, child, do, link
<1> QED
  BY <1>1, StoreInvariant, PTL

-----------------------------------------------------------------------------
(* Operations that do not overlap.                                         *)

Absent == Gone(access_mode, real_exists, entry)

\* Nobody but t is in an operation.
Alone(t) == \A u \in Threads \ {t} : Quiet(u)

\* What a thread in an operation knows of the path, because nobody else changes it.
Knows(t) ==
    /\ pc[t] # "unmask"
    /\ pc[t] \in {"lookup", "restat"} => ~copy_up[t]
    /\ pc[t] = "restat" => entry.type \notin {"None", "Whiteout"}
    /\ pc[t] = "load" =>
          /\ op[t] \in Opens
          /\ \/ entry.type = "File"
             \/ entry.type = "None" /\ access_mode = "CopyOnWrite" /\ real_exists
    /\ pc[t] \in {"ensure", "alloc", "publish"} =>
          /\ Writes(t)
          /\ IF copy_up[t]
               THEN entry.type = "None" /\ access_mode = "CopyOnWrite" /\ real_exists
               ELSE op[t] = "creat" /\ Absent
    /\ pc[t] = "publish" =>
          /\ content[object[t]] = IF copy_up[t] THEN "real" ELSE "empty"
          /\ \A u \in Threads \ {t} : object[u] # object[t]
    /\ pc[t] \in {"truncate", "fill"} => Writes(t) /\ entry = File(object[t])
    /\ pc[t] = "truncate" => content[object[t]] = "real"
    /\ pc[t] = "fill" => content[object[t]] = "empty"
    /\ pc[t] = "check" => entry.type # "Whiteout"
    /\ pc[t] = "delete" => ~Absent
    /\ pc[t] = "whiteout" => entry.type # "Whiteout"
    /\ pc[t] = "put" => op[t] \in {"mkdir", "symlink"} /\ Absent

SerialInv ==
    /\ StoreInv
    /\ \A t \in Threads : ~Quiet(t) => Alone(t)
    /\ \A t \in Threads : Knows(t)

\* A thread that is quiet knows nothing that a step of another could refute.
LEMMA QuietKnows == \A t \in Threads : Quiet(t) => Knows(t)
  BY DEF Quiet, Knows

\* So a step keeps the invariant if it is one of the only thread in an operation
\* and what that thread knows holds afterwards.
LEMMA SerialByStep ==
    ASSUME NEW t \in Threads, SerialInv, StoreInv', Alone(t),
           \A u \in Threads \ {t} : pc'[u] = pc[u], Knows(t)'
    PROVE  SerialInv'
<1>1. \A u \in Threads \ {t} : Quiet(u)'
  BY DEF Alone, Quiet
<1>2. \A u \in Threads : ~Quiet(u)' => Alone(u)'
  BY <1>1 DEF Alone
<1>3. \A u \in Threads : Knows(u)'
  BY <1>1 DEF Quiet, Knows
<1> QED
  BY <1>2, <1>3 DEF SerialInv

\* Whoever is in an operation is in it alone; and nobody begins otherwise.
LEMMA StepAlone ==
    ASSUME ~Overlap, SerialInv, NEW t \in Threads, Step(t)
    PROVE  /\ Alone(t)
           /\ \A u \in Threads \ {t} : pc'[u] = pc[u] /\ op'[u] = op[u] /\ object'[u] = object[u]
           /\ StoreInv'
<1>1. Alone(t)
  <2>1. CASE \A u \in Threads : Quiet(u)
    BY <2>1 DEF Alone
  <2>2. CASE ~Quiet(t)
    BY <2>2 DEF SerialInv
  <2> QED
    BY <2>1, <2>2 DEF Step, Begin, Lookup, Restat, LoadOpen, Ensure, Alloc, AllocFails,
       Publish,
       CopyTruncate, CopyFill, CheckWhiteout, RemoveWhiteout, OpenBacking, Write, Truncate,
       Release, Delete, PutWhiteout, Put, CopyFails, Ignored, GivesUp, Quiet
<1>2. \A u \in Threads \ {t} : pc'[u] = pc[u] /\ op'[u] = op[u] /\ object'[u] = object[u]
  BY DEF Step, Begin, Lookup, Restat, LoadOpen, Ensure, Alloc, AllocFails, Publish,
     CopyTruncate, CopyFill, CheckWhiteout, RemoveWhiteout, OpenBacking, Write, Truncate,
     Release, Delete, PutWhiteout, Put, CopyFails, Ignored, GivesUp, Goto, local,
     SerialInv, StoreInv, TypeOK
<1>3. StoreInv'
  BY StoreByLook, StoreByOpen, StoreByObject, StoreByContent, StoreByEntry, StoreByFault
  DEF Step, SerialInv
<1> QED
  BY <1>1, <1>2, <1>3

LEMMA SerialInit == Init => SerialInv
  BY StoreInit DEF Init, SerialInv, Quiet, Knows

\* What the kernel asks for after a lookup is right for what the lookup found.
LEMMA KnowsByLook ==
    ASSUME SerialInv, StoreInv', NEW t \in Threads, Lookup(t) \/ Restat(t)
    PROVE  Knows(t)'
<1>1. /\ access_mode \in {"FuseOnly", "CopyOnWrite"} /\ real_exists \in BOOLEAN
      /\ entry \in Entries /\ pc \in [Threads -> Places]
      /\ entry.type \in {"None", "Whiteout", "File", "Dir", "Symlink"}
  BY DEF SerialInv, StoreInv, TypeOK, Entries, NoEntry, Whiteout, Dir, Symlink, File
<1>2. ~copy_up[t]
  BY DEF SerialInv, Knows, Lookup, Restat
<1>3. UNCHANGED <<access_mode, real_exists, entry, content, op, copy_up, object>>
  BY DEF Lookup, Restat, store
<1>4. ASSUME NEW kind, pc'[t] = AfterLookup(t, kind),
             \/ kind = "None" /\ Absent
             \/ kind = "File" /\ ~Absent /\ entry.type \in {"None", "File"}
             \/ kind \in {"Dir", "Symlink"} /\ ~Absent
      PROVE  Knows(t)'
  <2>1. \/ pc'[t] = "idle"
        \/ pc'[t] = "load" /\ kind = "File" /\ op[t] \in Opens
        \/ pc'[t] = "ensure" /\ kind = "None" /\ op[t] = "creat"
        \/ pc'[t] = "put" /\ kind = "None" /\ op[t] \in {"mkdir", "symlink"}
        \/ pc'[t] = "delete" /\ kind # "None"
    BY <1>4 DEF AfterLookup
  <2> QED
    BY <1>1, <1>2, <1>3, <1>4, <2>1 DEF Knows, Absent, Gone, Writes
<1>5. CASE Lookup(t)
  <2>1. DecideStat(access_mode, real_exists, entry) =
            IF Absent THEN "NotFound" ELSE IF entry.type = "None" THEN "UseReal" ELSE "UseFuse"
    BY <1>1, StatIs DEF Absent
  <2>2. CASE Absent
    <3>1. pc'[t] = AfterLookup(t, "None")
      BY <1>1, <1>5, <2>1, <2>2 DEF Lookup, Goto
    <3> QED
      BY <1>4, <2>2, <3>1
  <2>3. CASE ~Absent /\ entry.type = "None"
    <3>1. pc'[t] = AfterLookup(t, "File")
      BY <1>1, <1>5, <2>1, <2>3 DEF Lookup, Goto
    <3> QED
      BY <1>4, <2>3, <3>1
  <2>4. CASE ~Absent /\ entry.type # "None"
    <3>1. pc'[t] = "restat"
      BY <1>1, <1>5, <2>1, <2>4 DEF Lookup, Goto
    <3> QED
      BY <1>1, <1>2, <1>3, <2>4, <3>1 DEF Knows, Absent, Gone
  <2> QED
    BY <2>2, <2>3, <2>4
<1>6. CASE Restat(t)
  <2>1. entry.type \notin {"None", "Whiteout"}
    BY <1>6 DEF Restat, SerialInv, Knows
  <2>2. pc'[t] = AfterLookup(t, entry.type)
    BY <1>1, <1>6, <2>1 DEF Restat, Goto, IsWhiteout
  <2> QED
    BY <1>1, <1>4, <2>1, <2>2 DEF Absent, Gone
<1> QED
  BY <1>5, <1>6

\* An open that needs an object finds none only where it copies the host's file.
LEMMA KnowsByOpen ==
    ASSUME SerialInv, StoreInv', NEW t \in Threads, LoadOpen(t)
    PROVE  Knows(t)'
<1> DEFINE has_path == entry.object \in 1 .. next_id - 1
           d == DecideOpen(access_mode, entry, has_path, Writes(t), FALSE, real_exists)
           do == d.do
           needs_ensure == d.needs_ensure
           copies == d.copy_up_from_real
<1>1. /\ access_mode \in {"FuseOnly", "CopyOnWrite"} /\ real_exists \in BOOLEAN
      /\ entry \in Entries /\ pc \in [Threads -> Places] /\ copy_up \in [Threads -> BOOLEAN]
      /\ Writes(t) \in BOOLEAN /\ has_path \in BOOLEAN
  BY DEF SerialInv, StoreInv, TypeOK, Writes
<1>2. \/ entry.type = "File" /\ entry.object # NoObject /\ has_path
      \/ entry.type = "None" /\ entry.object = NoObject /\ access_mode = "CopyOnWrite" /\ real_exists
  <2>1. \/ entry.type = "File"
        \/ entry.type = "None" /\ access_mode = "CopyOnWrite" /\ real_exists
    BY DEF LoadOpen, SerialInv, Knows
  <2>2. /\ entry.type = "File" => entry.object \in Objects /\ entry.object # NoObject
        /\ entry.type = "None" => entry.object = NoObject
    BY <1>1, ObjectsAssumption
    DEF Entries, NoEntry, Whiteout, Dir, Symlink, File, NoObject, Objects
  <2>3. entry.type = "File" => has_path
    BY <2>2, ObjectsAssumption DEF SerialInv, StoreInv, TypeOK, ObjectsAllocated, Objects
  <2> QED
    BY <2>1, <2>2, <2>3
<1>3. do = "OpenObject" /\ needs_ensure => Writes(t) /\ copies /\ entry.type = "None"
  <2>1. CASE entry.type = "File" /\ access_mode = "FuseOnly"
    <3>1. d = OpenObject(FALSE, FALSE, FALSE)
      BY <1>2, <2>1 DEF DecideOpen, IsWhiteout
    <3> QED
      BY <3>1, ObjectIs
  <2>2. CASE entry.type = "File" /\ access_mode = "CopyOnWrite" /\ Writes(t)
    <3>1. d = OpenObject(FALSE, FALSE, TRUE)
      BY <1>2, <2>2 DEF DecideOpen, IsWhiteout
    <3> QED
      BY <3>1, ObjectIs
  <2>3. CASE entry.type = "File" /\ access_mode = "CopyOnWrite" /\ ~Writes(t)
    <3>1. d = OpenObject(FALSE, FALSE, FALSE)
      BY <1>2, <2>3 DEF DecideOpen, IsWhiteout
    <3> QED
      BY <3>1, ObjectIs
  <2>4. CASE entry.type = "None" /\ Writes(t)
    <3>1. d = OpenObject(TRUE, TRUE, TRUE)
      BY <1>1, <1>2, <2>4 DEF DecideOpen, IsWhiteout
    <3> QED
      BY <2>4, <3>1, ObjectIs
  <2>5. CASE entry.type = "None" /\ ~Writes(t)
    <3>1. d = Open("OpenReal")
      BY <1>2, <2>5 DEF DecideOpen, IsWhiteout
    <3> QED
      BY <3>1, OpenIs
  <2> QED
    BY <1>1, <1>2, <2>1, <2>2, <2>3, <2>4, <2>5
<1>4. /\ copy_up' = [copy_up EXCEPT ![t] = copies]
      /\ Goto(t, CASE do = "OpenReal" /\ real_exists -> "open"
                   [] do = "OpenObject" /\ needs_ensure -> "ensure"
                   [] do = "OpenObject" /\ ~needs_ensure ->
                        IF d.delete_whiteout THEN "check" ELSE "open"
                   [] OTHER -> "idle")
      /\ UNCHANGED <<access_mode, real_exists, store, op>>
  BY DEF LoadOpen
<1> HIDE DEF d, do, needs_ensure, copies
<1>5. \/ pc'[t] \in {"open", "idle"}
      \/ pc'[t] = "ensure" /\ do = "OpenObject" /\ needs_ensure
      \/ pc'[t] = "check" /\ do = "OpenObject"
  BY <1>1, <1>4 DEF Goto
<1> QED
  BY <1>1, <1>2, <1>3, <1>4, <1>5 DEF Knows, Writes, store

\* The requests for an object: the one that is published is the thread's own.
LEMMA KnowsByObject ==
    ASSUME SerialInv, StoreInv', NEW t \in Threads,
           Ensure(t) \/ Alloc(t) \/ AllocFails(t) \/ Publish(t)
    PROVE  Knows(t)'
<1> USE DEF SerialInv, StoreInv, TypeOK, Goto, Writes, Absent, Gone
<1>1. CASE Ensure(t)
  <2>1. entry.type # "File"
    BY <1>1 DEF Ensure, Knows
  <2> QED
    BY <1>1, <2>1 DEF Ensure, Knows, store
<1>2. CASE Alloc(t)
  <2>1. \A u \in Threads : object[u] # next_id
    BY <1>2, ObjectsAssumption DEF Alloc, ObjectsAllocated, Objects, RealFile
  <2>2. content'[object'[t]] = IF copy_up[t] THEN "real" ELSE "empty"
    BY <1>2 DEF Alloc
  <2>3. \A u \in Threads \ {t} : object'[u] # object'[t]
    BY <1>2, <2>1 DEF Alloc
  <2> QED
    BY <1>2, <2>2, <2>3 DEF Alloc, Knows
<1>3. CASE AllocFails(t)
  BY <1>3 DEF AllocFails, Knows
<1>4. CASE Publish(t)
  <2>1. pc'[t] \in {"truncate", "check", "open"} /\ (pc'[t] = "truncate" => copy_up[t])
    BY <1>4 DEF Publish
  <2>2. entry' = File(object[t]) /\ entry'.type = "File"
    BY <1>4 DEF Publish, File
  <2> QED
    BY <1>4, <2>1, <2>2 DEF Publish, Knows
<1> QED
  BY <1>1, <1>2, <1>3, <1>4

\* Every other step of the only thread in an operation.
LEMMA KnowsByRest ==
    ASSUME SerialInv, StoreInv', NEW t \in Threads,
           \/ Begin(t) \/ CopyTruncate(t) \/ CopyFill(t) \/ CheckWhiteout(t) \/ RemoveWhiteout(t)
           \/ OpenBacking(t) \/ Write(t) \/ Truncate(t) \/ Release(t) \/ Delete(t)
           \/ PutWhiteout(t) \/ Put(t) \/ CopyFails(t) \/ Ignored(t) \/ GivesUp(t)
    PROVE  Knows(t)'
<1> USE DEF SerialInv, StoreInv, TypeOK, Goto, Writes, Absent, Gone, Last
<1>1. CASE Begin(t)
  BY <1>1 DEF Begin, Knows
<1>2. CASE CopyTruncate(t)
  BY <1>2 DEF CopyTruncate, Knows, HasObject
<1>3. CASE CopyFill(t)
  BY <1>3 DEF CopyFill, Knows, File
<1>4. CASE CheckWhiteout(t)
  BY <1>4 DEF CheckWhiteout, Knows, IsWhiteout
<1>5. CASE RemoveWhiteout(t)
  BY <1>5 DEF RemoveWhiteout, Knows
<1>6. CASE OpenBacking(t) \/ Release(t)
  BY <1>6 DEF OpenBacking, Release, Knows
<1>7. CASE Write(t) \/ Truncate(t)
  BY <1>7 DEF Write, Truncate, Knows, local
<1>8. CASE Delete(t)
  BY <1>8 DEF Delete, Knows, NoEntry
<1>9. CASE PutWhiteout(t)
  BY <1>9 DEF PutWhiteout, Knows
<1>10. CASE Put(t)
  BY <1>10 DEF Put, Knows, Dir, Symlink
<1>11. CASE CopyFails(t)
  <2>1. pc'[t] = "check" /\ entry' = entry /\ entry.type = "File"
    BY <1>11 DEF CopyFails, Knows, File
  <2> QED
    BY <2>1 DEF Knows
<1>12. CASE Ignored(t)
  <2>1. /\ pc[t] = "delete" => pc'[t] = "whiteout" /\ ~Absent
        /\ pc[t] # "delete" => pc'[t] \in {"open", "idle"}
        /\ entry' = entry
    BY <1>12 DEF Ignored, Knows, store
  <2> QED
    BY <2>1 DEF Knows
<1>13. CASE GivesUp(t)
  <2>1. pc'[t] = "idle"
    BY <1>13 DEF GivesUp
  <2> QED
    BY <2>1 DEF Knows
<1> QED
  BY <1>1, <1>2, <1>3, <1>4, <1>5, <1>6, <1>7, <1>8, <1>9, <1>10, <1>11, <1>12, <1>13

LEMMA SerialStep ==
    ASSUME ~Overlap, SerialInv, NEW t \in Threads, Step(t)
    PROVE  SerialInv'
<1>1. Alone(t) /\ StoreInv' /\ \A u \in Threads \ {t} : pc'[u] = pc[u]
  BY StepAlone
<1>2. Knows(t)'
  BY <1>1, KnowsByLook, KnowsByOpen, KnowsByObject, KnowsByRest DEF Step
<1> QED
  BY <1>1, <1>2, SerialByStep

\* Without overlap, what the thread in an operation has learned of the path stays
\* true until it is done (executor.rs, server.rs): the reason for all that follows.
THEOREM SerialInvariant == ASSUME ~Overlap PROVE Spec => []SerialInv
<1>1. SerialInv /\ [Next]_vars => SerialInv'
  <2> SUFFICES ASSUME SerialInv, [Next]_vars PROVE SerialInv'
    OBVIOUS
  <2>1. CASE UNCHANGED vars
    <3>1. StoreInv'
      BY <2>1 DEF SerialInv, StoreInv, TypeOK, ObjectsAllocated, HasObject, Writes, vars,
         store, local
    <3> QED
      BY <2>1, <3>1 DEF SerialInv, Alone, Quiet, Knows, Absent, Writes, vars, store, local
  <2> QED
    BY <2>1, SerialStep DEF Next
<1> QED
  BY <1>1, SerialInit, PTL DEF Spec

\* Without overlap DeleteWhiteout never meets a whiteout: its caller has published
\* an entry over it (execute_open, dispatch).
THEOREM NeverUnmasks == ASSUME ~Overlap PROVE Spec => []NothingToUnmask
<1>1. SerialInv => NothingToUnmask
  BY DEF SerialInv, Knows, NothingToUnmask
<1> QED
  BY <1>1, SerialInvariant, PTL

-----------------------------------------------------------------------------
(* Without overlap the path is the file of OverlayFile.                    *)

ShownOf(mode, real, e, c) ==
    IF Gone(mode, real, e) THEN "Absent"
    ELSE IF e.type = "None" THEN "real"
    ELSE IF e.type = "File" THEN c[e.object] ELSE e.type

\* What the path shows, and who is not done, while t is the only thread in an
\* operation.
ThroughOf(where, e, shows) ==
    IF where = "whiteout" /\ e = NoEntry THEN "Absent"
    ELSE IF where = "fill" THEN "real" ELSE shows

UnderwayOf(t, where, e) ==
    IF where = "fill" \/ (where = "whiteout" /\ e = NoEntry) THEN {t} ELSE {}

LEMMA ShownIs ==
    /\ StoreInv => Shown = ShownOf(access_mode, real_exists, entry, content)
    /\ StoreInv' => Shown' = ShownOf(access_mode', real_exists', entry', content')
<1>1. StoreInv => Shown = ShownOf(access_mode, real_exists, entry, content)
  BY StatIs DEF StoreInv, TypeOK, Shown, ShownOf
<1>2. StoreInv' => Shown' = ShownOf(access_mode', real_exists', entry', content')
  BY StatIs DEF StoreInv, TypeOK, Shown, ShownOf
<1> QED
  BY <1>1, <1>2

LEMMA ThroughIs ==
    ASSUME NEW t \in Threads
    PROVE  /\ Alone(t) => ShownThrough = ThroughOf(pc[t], entry, Shown)
           /\ Alone(t)' => ShownThrough' = ThroughOf(pc'[t], entry', Shown')
  BY DEF Alone, Quiet, ShownThrough, Uncovered, ThroughOf

LEMMA UnderwayIs ==
    ASSUME NEW t \in Threads
    PROVE  /\ Alone(t) => Underway = UnderwayOf(t, pc[t], entry)
           /\ Alone(t)' => Underway' = UnderwayOf(t, pc'[t], entry')
<1>1. Alone(t) => \A u \in Threads : u \in Underway <=> u \in UnderwayOf(t, pc[t], entry)
  BY DEF Alone, Quiet, Underway, Uncovered, UnderwayOf
<1>2. Alone(t)' => \A u \in Threads : u \in Underway' <=> u \in UnderwayOf(t, pc'[t], entry')
  BY DEF Alone, Quiet, Underway, Uncovered, UnderwayOf
<1> QED
  BY <1>1, <1>2 DEF Underway, UnderwayOf

\* What is at a path that is not gone is not Absent.
LEMMA ShowsSomething ==
    StoreInv /\ ~Absent => ShownOf(access_mode, real_exists, entry, content) # "Absent"
<1> SUFFICES ASSUME StoreInv, ~Absent
             PROVE  ShownOf(access_mode, real_exists, entry, content) # "Absent"
  OBVIOUS
<1>1. entry.type \in {"None", "Whiteout", "File", "Dir", "Symlink"}
  BY DEF StoreInv, TypeOK, Entries, NoEntry, Whiteout, Dir, Symlink, File
<1>2. entry.type = "File" => content[entry.object] \in Contents
  BY DEF StoreInv, TypeOK, Entries, NoEntry, Whiteout, Dir, Symlink, File
<1>3. "Absent" \notin Contents
  BY ThreadsAssumption DEF Contents
<1> QED
  BY <1>1, <1>2, <1>3 DEF ShownOf, Absent

\* Only a file has writers; and a step of t changes nobody else's standing unless
\* it changes the entry.
LEMMA WritersOfFile ==
    /\ entry.type # "File" => CurrentWriters = {}
    /\ entry'.type # "File" => CurrentWriters' = {}
  BY DEF CurrentWriters

LEMMA WritersByMove ==
    ASSUME NEW t \in Threads, entry' = entry,
           \A u \in Threads \ {t} : pc'[u] = pc[u] /\ op'[u] = op[u] /\ object'[u] = object[u]
    PROVE  /\ t \in CurrentWriters' => CurrentWriters' = CurrentWriters \cup {t}
           /\ t \notin CurrentWriters' => CurrentWriters' = CurrentWriters \ {t}
  BY DEF CurrentWriters, Writes

\* What the steps of the only thread in an operation start from and lead to.
Serially(t) ==
    /\ SerialInv /\ SerialInv'
    /\ Alone(t) /\ Alone(t)'
    /\ \A u \in Threads \ {t} : pc'[u] = pc[u] /\ op'[u] = op[u] /\ object'[u] = object[u]

Promised == Overlay!Next \/ UNCHANGED <<ShownThrough, CurrentWriters, Underway>>

LEMMA StepSerially ==
    ASSUME ~Overlap, SerialInv, NEW t \in Threads, Step(t)
    PROVE  Serially(t)
<1>1. /\ Alone(t)
      /\ \A u \in Threads \ {t} : pc'[u] = pc[u] /\ op'[u] = op[u] /\ object'[u] = object[u]
  BY StepAlone
<1>2. Alone(t)'
  BY <1>1 DEF Alone, Quiet
<1> QED
  BY <1>1, <1>2, SerialStep DEF Serially

\* A copy or a removal that the mapping hides.
Hides(where, e) == where = "fill" \/ (where = "whiteout" /\ e = NoEntry)

\* The path shows the same as long as its entry and its object do.
LEMMA SameShown ==
    ASSUME NEW t \in Threads, Serially(t), UNCHANGED <<access_mode, real_exists, entry>>,
           entry.type = "File" => content'[entry.object] = content[entry.object],
           ~Hides(pc[t], entry), ~Hides(pc'[t], entry)
    PROVE  UNCHANGED <<ShownThrough, Underway>>
<1>1. ShownThrough = Shown /\ ShownThrough' = Shown'
  BY ThroughIs DEF Serially, ThroughOf, Hides
<1>2. Shown' = Shown
  BY ShownIs DEF Serially, SerialInv, ShownOf, Gone
<1>3. Underway = {} /\ Underway' = {}
  BY UnderwayIs DEF Serially, UnderwayOf, Hides
<1> QED
  BY <1>1, <1>2, <1>3

\* A step that changes nothing anybody sees either stutters or lets go of the file.
LEMMA Unseen ==
    ASSUME NEW t \in Threads, Serially(t),
           UNCHANGED <<access_mode, real_exists, entry, content>>,
           ~Hides(pc[t], entry), ~Hides(pc'[t], entry),
           t \in CurrentWriters' => t \in CurrentWriters
    PROVE  Promised
<1>1. UNCHANGED <<ShownThrough, Underway>>
  BY SameShown
<1>2. /\ t \in CurrentWriters' => CurrentWriters' = CurrentWriters \cup {t}
      /\ t \notin CurrentWriters' => CurrentWriters' = CurrentWriters \ {t}
  BY WritersByMove DEF Serially
<1>3. CASE t \in CurrentWriters'
  <2>1. ASSUME NEW S, t \in S PROVE S \cup {t} = S
    BY <2>1
  <2>2. CurrentWriters' = CurrentWriters
    BY <1>2, <1>3, <2>1
  <2> QED
    BY <1>1, <2>2 DEF Promised
<1>4. CASE t \notin CurrentWriters'
  BY <1>1, <1>2, <1>4 DEF Promised, Overlay!Next, Overlay!Close
<1> QED
  BY <1>3, <1>4

LEMMA LookupGoes ==
    ASSUME NEW t \in Threads, StoreInv, Lookup(t) \/ Restat(t)
    PROVE  pc'[t] \in {"restat", "load", "ensure", "put", "delete", "idle"}
<1>1. \A kind : AfterLookup(t, kind) \in {"load", "ensure", "put", "delete", "idle"}
  BY DEF AfterLookup
<1>2. DecideStat(access_mode, real_exists, entry) \in {"UseFuse", "UseReal", "NotFound"}
  BY StatIs DEF StoreInv, TypeOK
<1>3. CASE Lookup(t)
  BY <1>1, <1>2, <1>3 DEF Lookup, Goto, StoreInv, TypeOK
<1>4. CASE Restat(t)
  BY <1>1, <1>4 DEF Restat, Goto, StoreInv, TypeOK
<1> QED
  BY <1>3, <1>4

\* Steps that nobody sees: lookups, the check for a whiteout, a handle that is
\* closed.
LEMMA LooksStutter ==
    ASSUME NEW t \in Threads, Serially(t),
           \/ Begin(t) \/ Lookup(t) \/ Restat(t) \/ Ensure(t) \/ AllocFails(t)
           \/ CheckWhiteout(t) \/ RemoveWhiteout(t) \/ OpenBacking(t) \/ Release(t)
    PROVE  Promised
<1> USE DEF Serially, SerialInv, StoreInv, TypeOK, Goto
<1>1. /\ UNCHANGED <<access_mode, real_exists, entry, content>>
      /\ pc[t] \notin {"whiteout", "fill"} /\ pc'[t] \notin {"whiteout", "fill"}
  <2>1. CASE Lookup(t) \/ Restat(t)
    BY <2>1, LookupGoes DEF Lookup, Restat, store
  <2>2. CASE RemoveWhiteout(t)
    BY <2>2 DEF RemoveWhiteout, Knows
  <2> QED
    BY <2>1, <2>2 DEF Begin, Ensure, AllocFails, CheckWhiteout, OpenBacking, Release, Last,
       store, Knows, Writes
<1>2. t \in CurrentWriters' => t \in CurrentWriters
  <2>1. CASE Begin(t) \/ Release(t)
    BY <2>1 DEF Begin, Release, CurrentWriters
  <2>2. CASE Lookup(t) \/ Restat(t)
    BY <2>2, LookupGoes DEF Lookup, Restat, CurrentWriters
  <2>3. CASE Ensure(t) \/ AllocFails(t)
    BY <2>3, <1>1 DEF Ensure, AllocFails, CurrentWriters, Knows, Absent, Gone
  <2>4. CASE CheckWhiteout(t) \/ OpenBacking(t)
    BY <2>4, <1>1 DEF CheckWhiteout, OpenBacking, CurrentWriters, Writes
  <2>5. CASE RemoveWhiteout(t)
    BY <2>5 DEF RemoveWhiteout, Knows
  <2> QED
    BY <2>1, <2>2, <2>3, <2>4, <2>5
<1> QED
  BY <1>1, <1>2, Unseen DEF Hides

\* Opening what is there.
LEMMA LoadOpens ==
    ASSUME NEW t \in Threads, Serially(t), LoadOpen(t)
    PROVE  Promised
<1>1. /\ UNCHANGED <<access_mode, real_exists, entry, content>>
      /\ pc[t] \notin {"whiteout", "fill"} /\ pc'[t] \notin {"whiteout", "fill"}
      /\ t \notin CurrentWriters
  BY DEF Serially, SerialInv, StoreInv, TypeOK, Goto, LoadOpen, store, CurrentWriters
<1>2. CASE t \notin CurrentWriters'
  BY <1>1, <1>2, Unseen DEF Hides
<1>3. CASE t \in CurrentWriters'
  <2>1. ~Absent
    BY <1>1, <1>3 DEF CurrentWriters, Absent, Gone
  <2>2. ShownThrough # "Absent"
    BY <1>1, <2>1, ThroughIs, ShownIs, ShowsSomething DEF Serially, SerialInv, ThroughOf
  <2>3. CurrentWriters' = CurrentWriters \cup {t}
    BY <1>1, <1>3, WritersByMove DEF Serially
  <2>4. UNCHANGED <<ShownThrough, Underway>>
    BY <1>1, SameShown DEF Hides
  <2> QED
    BY <2>2, <2>3, <2>4 DEF Promised, Overlay!Next, Overlay!Open
<1> QED
  BY <1>2, <1>3

\* A new object is not seen before it is published.
LEMMA AllocStutters ==
    ASSUME NEW t \in Threads, Serially(t), Alloc(t)
    PROVE  Promised
<1>1. /\ UNCHANGED <<access_mode, real_exists, entry>>
      /\ pc[t] \notin {"whiteout", "fill"} /\ pc'[t] \notin {"whiteout", "fill"}
  BY DEF Serially, SerialInv, StoreInv, TypeOK, Goto, Alloc
<1>2. entry.type # "File"
  BY DEF Alloc, Serially, SerialInv, Knows, Absent, Gone
<1>3. UNCHANGED <<ShownThrough, Underway>>
  BY <1>1, <1>2, SameShown DEF Hides
<1> QED
  BY <1>1, <1>2, <1>3, WritersOfFile DEF Promised

\* Publishing an empty object creates the file; publishing a copy opens it.
LEMMA PublishCreates ==
    ASSUME NEW t \in Threads, Serially(t), Publish(t)
    PROVE  Promised
<1> USE DEF Serially, SerialInv
<1>1. /\ pc[t] = "publish" /\ entry.type \in {"None", "Whiteout"}
      /\ Writes(t) /\ Writes(t)' /\ object'[t] = object[t]
      /\ entry' = File(object[t]) /\ entry'.type = "File" /\ entry'.object = object[t]
      /\ UNCHANGED <<access_mode, real_exists, content>>
  BY DEF Publish, Knows, Absent, Gone, Writes, File
<1>2. pc'[t] \in {"truncate", "check", "open"}
  BY DEF Publish, StoreInv, TypeOK, Goto
<1>3. CurrentWriters = {}
  BY <1>1, WritersOfFile
<1>4. CurrentWriters' = {t}
  <2>1. \A u \in Threads \ {t} : object'[u] # object[t]
    BY <1>1 DEF Knows
  <2> QED
    BY <1>1, <1>2, <2>1 DEF CurrentWriters
<1>5. /\ ShownThrough = ShownOf(access_mode, real_exists, entry, content)
      /\ ShownThrough' = content[object[t]]
  BY <1>1, <1>2, ThroughIs, ShownIs DEF ThroughOf, ShownOf, Gone
<1>6. Underway = {} /\ Underway' = {}
  BY <1>1, <1>2, UnderwayIs DEF UnderwayOf
<1>7. CASE copy_up[t]
  <2>1. ShownThrough = "real" /\ ShownThrough' = "real"
    BY <1>1, <1>5, <1>7 DEF Knows, ShownOf, Gone
  <2>2. Overlay!Open(t)
    BY <1>3, <1>4, <1>6, <2>1 DEF Overlay!Open
  <2> QED
    BY <2>2 DEF Promised, Overlay!Next
<1>8. CASE ~copy_up[t]
  <2>1. ShownThrough = "Absent" /\ ShownThrough' = "empty"
    BY <1>1, <1>5, <1>8 DEF Knows, ShownOf, Absent
  <2>2. Overlay!Create(t)
    BY <1>4, <1>6, <2>1 DEF Overlay!Create
  <2> QED
    BY <2>2 DEF Promised, Overlay!Next
<1> QED
  BY <1>7, <1>8

\* The copy of the host's file is seen by nobody, unless it fails: then a part of
\* the file stays.
LEMMA CopyHidden ==
    ASSUME NEW t \in Threads, Serially(t), pc[t] \in {"truncate", "fill"},
           \/ CopyTruncate(t) \/ CopyFill(t) \/ CopyFails(t) \/ GivesUp(t)
    PROVE  Promised
<1> USE DEF Serially, SerialInv
<1>1. /\ Writes(t) /\ entry = File(object[t]) /\ entry.type = "File" /\ entry.object = object[t]
      /\ object[t] \in Objects
      /\ UNCHANGED <<access_mode, real_exists, entry, op, object>>
      /\ t \in CurrentWriters
  BY DEF CopyTruncate, CopyFill, CopyFails, GivesUp, Knows, StoreInv, HasObject, File,
     CurrentWriters
<1>2. /\ t \in CurrentWriters' => CurrentWriters' = CurrentWriters
      /\ t \notin CurrentWriters' => CurrentWriters' = CurrentWriters \ {t}
  <2>1. ASSUME NEW S, t \in S PROVE S \cup {t} = S
    BY <2>1
  <2> QED
    BY <1>1, <2>1, WritersByMove
<1>3. pc'[t] # "idle" => t \in CurrentWriters'
  BY <1>1 DEF CopyTruncate, CopyFill, CopyFails, GivesUp, CurrentWriters, Writes, Goto,
     StoreInv, TypeOK
<1>4. CASE pc[t] = "truncate" /\ ~CopyTruncate(t)
  <2>1. UNCHANGED content /\ pc'[t] \in {"check", "idle"}
    BY <1>4 DEF CopyFill, CopyFails, GivesUp, Cut, Goto, StoreInv, TypeOK
  <2> QED
    BY <1>1, <1>4, <2>1, Unseen DEF Hides
<1>5. CASE CopyTruncate(t)
  <2>1. pc[t] = "truncate" /\ pc'[t] = "fill" /\ content[object[t]] = "real"
    BY <1>5 DEF CopyTruncate, Knows, Goto, StoreInv, TypeOK
  <2>2. ShownThrough = "real" /\ ShownThrough' = "real"
    BY <1>1, <2>1, ThroughIs, ShownIs DEF ThroughOf, ShownOf, Gone
  <2>3. Underway = {} /\ Underway' = {t}
    BY <2>1, UnderwayIs DEF UnderwayOf
  <2>4. Overlay!Copy(t)
    BY <1>1, <1>2, <1>3, <2>1, <2>2, <2>3 DEF Overlay!Copy
  <2> QED
    BY <2>4 DEF Promised, Overlay!Next
<1>6. CASE pc[t] = "fill"
  <2>1. ShownThrough = "real" /\ Underway = {t}
    BY <1>6, ThroughIs, UnderwayIs DEF ThroughOf, UnderwayOf
  <2>2. pc'[t] \in {"check", "idle"}
    BY <1>6 DEF CopyTruncate, CopyFill, CopyFails, GivesUp, Goto, StoreInv, TypeOK
  <2>3. ShownThrough' = content'[object[t]] /\ Underway' = {}
    BY <1>1, <2>2, ThroughIs, ShownIs, UnderwayIs DEF ThroughOf, ShownOf, Gone, UnderwayOf
  <2>4. CASE CopyFill(t)
    <3>1. content'[object[t]] = "real" /\ pc'[t] = "check"
      BY <1>1, <2>4 DEF CopyFill, Goto, StoreInv, TypeOK
    <3>2. Overlay!Settle(t)
      BY <1>2, <1>3, <2>1, <2>3, <3>1 DEF Overlay!Settle
    <3> QED
      BY <3>2 DEF Promised, Overlay!Next
  <2>5. CASE CopyFails(t) \/ GivesUp(t)
    <3>1. content'[object[t]] \in {"empty", "partial"} /\ Faults
      BY <1>1, <1>6, <2>5 DEF CopyFails, GivesUp, Cut, Knows, StoreInv, TypeOK
    <3>2. Overlay!Spoil(t)
      BY <1>2, <2>1, <2>3, <3>1 DEF Overlay!Spoil
    <3> QED
      BY <3>2 DEF Promised, Overlay!Next
  <2> QED
    BY <1>6, <2>4, <2>5 DEF CopyTruncate
<1> QED
  BY <1>4, <1>5, <1>6

\* A write is seen if the handle is on what the entry names, else by nobody.
LEMMA WriteWrites ==
    ASSUME NEW t \in Threads, Serially(t), Write(t) \/ Truncate(t)
    PROVE  Promised
<1> USE DEF Serially, SerialInv
<1>1. /\ pc[t] = "holding" /\ pc'[t] = "holding" /\ Writes(t) /\ object[t] \in Objects
      /\ UNCHANGED <<access_mode, real_exists, entry, pc, op, object>>
      /\ \E x \in {t, "empty"} : content' = [content EXCEPT ![object[t]] = x]
  BY DEF Write, Truncate, local, StoreInv, HasObject, Writes
<1>2. CurrentWriters' = CurrentWriters
  BY <1>1 DEF CurrentWriters, Writes
<1>3. CASE t \in CurrentWriters
  <2>1. entry.type = "File" /\ entry.object = object[t]
    BY <1>3 DEF CurrentWriters
  <2>2. content'[object[t]] \in {t, "empty"}
    BY <1>1 DEF StoreInv, TypeOK
  <2>3. ShownThrough' = content'[object[t]]
    BY <1>1, <2>1, ThroughIs, ShownIs DEF ThroughOf, ShownOf, Gone
  <2>4. UNCHANGED Underway
    BY <1>1, UnderwayIs DEF UnderwayOf
  <2>5. Overlay!Write(t)
    BY <1>2, <1>3, <2>2, <2>3, <2>4 DEF Overlay!Write
  <2> QED
    BY <2>5 DEF Promised, Overlay!Next
<1>4. CASE t \notin CurrentWriters
  <2>1. entry.type = "File" => entry.object # object[t]
    BY <1>1, <1>4 DEF CurrentWriters
  <2>2. entry.type = "File" => content'[entry.object] = content[entry.object]
    BY <1>1, <2>1 DEF StoreInv, TypeOK, Entries, NoEntry, Whiteout, Dir, Symlink, File
  <2>3. UNCHANGED <<ShownThrough, Underway>>
    BY <1>1, <2>2, SameShown DEF Hides
  <2> QED
    BY <1>2, <2>3 DEF Promised
<1> QED
  BY <1>3, <1>4

\* A removal takes effect with its first request, whether that is served or only
\* leaves the host's file to be whited out.
LEMMA DeleteRemoves ==
    ASSUME NEW t \in Threads, Serially(t), pc[t] = "delete", Delete(t) \/ Ignored(t)
    PROVE  Promised
<1> USE DEF Serially, SerialInv
<1>1. /\ ~Absent /\ pc'[t] = "whiteout"
      /\ UNCHANGED <<access_mode, real_exists, content>>
      /\ entry' \in {entry, NoEntry}
  BY DEF Delete, Ignored, Knows, Goto, StoreInv, TypeOK, store
<1>2. ShownThrough # "Absent"
  BY <1>1, ThroughIs, ShownIs, ShowsSomething DEF ThroughOf
<1>3. Underway = {}
  BY UnderwayIs DEF UnderwayOf
<1>4. CASE entry' = NoEntry
  <2>1. ShownThrough' = "Absent" /\ Underway' = {t}
    BY <1>1, <1>4, ThroughIs, UnderwayIs DEF ThroughOf, UnderwayOf
  <2>2. CurrentWriters' = {}
    BY <1>4, WritersOfFile DEF NoEntry
  <2>3. Overlay!Remove(t)
    BY <1>2, <1>3, <2>1, <2>2 DEF Overlay!Remove
  <2> QED
    BY <2>3 DEF Promised, Overlay!Next
<1>5. CASE entry' = entry /\ entry # NoEntry
  <2>1. t \notin CurrentWriters'
    BY <1>1 DEF CurrentWriters
  <2> QED
    BY <1>1, <1>5, <2>1, Unseen DEF Hides
<1> QED
  BY <1>1, <1>4, <1>5

\* The whiteout completes a removal, or makes it; without it the host's file shows
\* again.
LEMMA WhiteoutSettles ==
    ASSUME NEW t \in Threads, Serially(t), pc[t] = "whiteout", PutWhiteout(t) \/ GivesUp(t)
    PROVE  Promised
<1> USE DEF Serially, SerialInv
<1>1. /\ pc'[t] = "idle" /\ entry.type # "Whiteout" /\ UNCHANGED <<access_mode, real_exists>>
      /\ t \notin CurrentWriters /\ t \notin CurrentWriters'
      /\ entry.type = "None" <=> entry = NoEntry
  BY DEF PutWhiteout, GivesUp, Knows, Goto, StoreInv, TypeOK, CurrentWriters, Entries,
     NoEntry, Whiteout, Dir, Symlink, File
<1>2. /\ Underway = IF entry = NoEntry THEN {t} ELSE {}
      /\ Underway' = {}
  BY <1>1, UnderwayIs DEF UnderwayOf
<1>3. ShownThrough' = ShownOf(access_mode', real_exists', entry', content')
  BY <1>1, ThroughIs, ShownIs DEF ThroughOf
<1>4. CASE PutWhiteout(t)
  <2>1. entry'.type = "Whiteout"
    BY <1>4 DEF PutWhiteout, Whiteout
  <2>2. ShownThrough' = "Absent" /\ CurrentWriters' = {}
    BY <1>3, <2>1, WritersOfFile DEF ShownOf, Gone
  <2>3. CASE entry = NoEntry
    <3>1. ShownThrough = "Absent" /\ CurrentWriters = {}
      BY <1>1, <2>3, ThroughIs, WritersOfFile DEF ThroughOf
    <3>2. Overlay!Settle(t)
      BY <1>2, <2>2, <2>3, <3>1 DEF Overlay!Settle
    <3> QED
      BY <3>2 DEF Promised, Overlay!Next
  <2>4. CASE entry # NoEntry
    <3>1. ~Absent
      BY <1>1, <2>4 DEF Absent, Gone
    <3>2. ShownThrough # "Absent"
      BY <2>4, <3>1, ThroughIs, ShownIs, ShowsSomething DEF ThroughOf
    <3>3. Overlay!Remove(t)
      BY <1>2, <2>2, <2>4, <3>2 DEF Overlay!Remove
    <3> QED
      BY <3>3 DEF Promised, Overlay!Next
  <2> QED
    BY <2>3, <2>4
<1>5. CASE GivesUp(t)
  <2>1. UNCHANGED <<entry, content>> /\ Faults
    BY <1>5 DEF GivesUp, Cut
  <2>2. CASE entry = NoEntry
    <3>1. ShownThrough = "Absent" /\ CurrentWriters = {} /\ CurrentWriters' = {}
      BY <1>1, <2>1, <2>2, ThroughIs, WritersOfFile DEF ThroughOf
    <3>2. ShownThrough' \in {"Absent", "real"}
      BY <1>1, <1>3, <2>1, <2>2 DEF ShownOf
    <3>3. Overlay!Settle(t) \/ Overlay!Reappear(t)
      BY <1>2, <2>1, <2>2, <3>1, <3>2 DEF Overlay!Settle, Overlay!Reappear
    <3> QED
      BY <3>3 DEF Promised, Overlay!Next
  <2>3. CASE entry # NoEntry
    BY <1>1, <2>1, <2>3, Unseen DEF Hides
  <2> QED
    BY <2>2, <2>3
<1> QED
  BY <1>4, <1>5

\* What fails or is killed elsewhere.
LEMMA FaultsStutter ==
    ASSUME NEW t \in Threads, Serially(t),
           \/ Ignored(t) /\ pc[t] # "delete"
           \/ GivesUp(t) /\ pc[t] \notin {"truncate", "fill", "whiteout"}
    PROVE  Promised
<1>1. /\ UNCHANGED <<access_mode, real_exists, entry, content>>
      /\ pc[t] \notin {"whiteout", "fill"} /\ pc'[t] \notin {"whiteout", "fill"}
  BY DEF Ignored, GivesUp, Cut, Goto, Last, store, Serially, SerialInv, StoreInv, TypeOK
<1>2. t \in CurrentWriters' => t \in CurrentWriters
  BY <1>1 DEF Ignored, GivesUp, Goto, CurrentWriters, Writes, Serially, SerialInv, StoreInv,
     TypeOK
<1> QED
  BY <1>1, <1>2, Unseen DEF Hides

\* mkdir and symlink, where nothing was.
LEMMA PutMakes ==
    ASSUME NEW t \in Threads, Serially(t), Put(t)
    PROVE  Promised
<1> USE DEF Serially, SerialInv
<1>1. /\ pc[t] = "put" /\ Absent /\ entry.type \in {"None", "Whiteout"}
      /\ pc'[t] = "check" /\ entry'.type \in {"Dir", "Symlink"}
  BY DEF Put, Knows, Absent, Gone, Goto, StoreInv, TypeOK, Dir, Symlink
<1>2. ShownThrough = "Absent" /\ ShownThrough' \in {"Dir", "Symlink"}
  BY <1>1, ThroughIs, ShownIs DEF ThroughOf, ShownOf, Absent, Gone
<1>3. CurrentWriters' = CurrentWriters
  BY <1>1, WritersOfFile
<1>4. UNCHANGED Underway
  BY <1>1, UnderwayIs DEF UnderwayOf
<1>5. Overlay!Make
  BY <1>2, <1>3, <1>4 DEF Overlay!Make
<1> QED
  BY <1>5 DEF Promised, Overlay!Next

LEMMA InitPromised == Init => Overlay!Init
<1> SUFFICES ASSUME Init PROVE Overlay!Init
  OBVIOUS
<1>1. StoreInv /\ entry.type = "None"
  BY StoreInit DEF Init, NoEntry
<1>2. ShownThrough = Shown
  BY DEF Init, ShownThrough, Uncovered
<1>3. ShownThrough \in {"Absent", "real"}
  BY <1>1, <1>2, ShownIs DEF ShownOf
<1>4. Underway = {}
  BY DEF Init, Underway, Uncovered
<1> QED
  BY <1>1, <1>3, <1>4, WritersOfFile DEF Overlay!Init

\* Without overlap, opening, copying up, creating, writing and removing a path are
\* the steps of one file that is written in place (executor.rs, server.rs), for any
\* number of threads and objects; and whatever fails or is killed, only a host file
\* in the middle of its copy is spoiled and only a removal that lacks its whiteout
\* is undone.
THEOREM OverlayImplemented == ASSUME ~Overlap PROVE Spec => OverlaySpec
<1>1. SerialInv /\ [Next]_vars => [Overlay!Next]_<<ShownThrough, CurrentWriters, Underway>>
  <2> SUFFICES ASSUME SerialInv, [Next]_vars PROVE Promised
    BY DEF Promised
  <2>1. ASSUME NEW t \in Threads, Step(t) PROVE Promised
    <3>1. Serially(t)
      BY <2>1, StepSerially
    <3>2. CASE Delete(t) \/ PutWhiteout(t) \/ Ignored(t) \/ GivesUp(t)
      <4>1. /\ Delete(t) => pc[t] = "delete"
            /\ PutWhiteout(t) => pc[t] = "whiteout"
        BY DEF Delete, PutWhiteout
      <4> QED
        BY <3>1, <3>2, <4>1, DeleteRemoves, WhiteoutSettles, FaultsStutter, CopyHidden
    <3>3. CASE CopyTruncate(t) \/ CopyFill(t) \/ CopyFails(t)
      <4>1. pc[t] \in {"truncate", "fill"}
        BY <3>3 DEF CopyTruncate, CopyFill, CopyFails
      <4> QED
        BY <3>1, <3>3, <4>1, CopyHidden
    <3> QED
      BY <2>1, <3>1, <3>2, <3>3, LooksStutter, LoadOpens, AllocStutters, PublishCreates,
         WriteWrites, PutMakes DEF Step
  <2>2. CASE UNCHANGED vars
    BY <2>2 DEF Promised, ShownThrough, Shown, CurrentWriters, Writes, Underway, Uncovered,
       vars, store, local
  <2> QED
    BY <2>1, <2>2 DEF Next
<1> QED
  BY <1>1, InitPromised, SerialInvariant, PTL DEF Spec, OverlaySpec, Overlay!Spec
=============================================================================
