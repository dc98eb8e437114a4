------------------------------ MODULE CowFile ------------------------------
(***************************************************************************)
(* One path that is not passed through, and the FUSE threads (of one       *)
(* sandbox run or of several) that open, create, write and remove it.      *)
(* Every operation looks the path up, loads the daemon's entry, decides    *)
(* and then sends the daemon a series of requests.  The daemon serves the  *)
(* requests of different connections in parallel, so a request is as many  *)
(* actions here as it makes accesses to the concurrent map.                *)
(*                                                                         *)
(* With Faults, copies and requests fail, and an operation ends anywhere:  *)
(* its run is killed, or a request it cannot do without fails.  What the   *)
(* daemon has begun by then it completes (alloc, publish and unmask are    *)
(* its own steps), and only then is the operation over.                    *)
(*                                                                         *)
(*   src/fuse/fs.rs            the handlers                                *)
(*   src/fuse/state_loader.rs  load_*_state                                *)
(*   src/fuse/executor.rs      execute_*                                   *)
(*   src/syncing/server.rs     dispatch                                    *)
(*   src/syncing/object.rs     alloc_empty, put_copy_from                  *)
(***************************************************************************)
EXTENDS Decision, FiniteSets

CONSTANTS
    Threads,     \* the FUSE threads that use the path
    Ops,         \* the operations they are asked for
    MaxObjects,  \* bound on the objects the path is given
    Overlap,     \* may a thread begin while another is in an operation?
    Faults       \* may copies, requests and runs fail?

AllOps == {"read", "write", "creat", "truncate", "unlink", "rmdir", "mkdir", "symlink"}

ASSUME OpsAssumption == Ops \subseteq AllOps
ASSUME ObjectsAssumption == MaxObjects \in Nat
ASSUME OverlapAssumption == Overlap \in BOOLEAN /\ Faults \in BOOLEAN
\* A thread's name stands for what it wrote, which is not what a path without a
\* file shows.
ASSUME ThreadsAssumption == "Absent" \notin Threads

VARIABLES
    access_mode,  \* what the policy says of the path
    real_exists,  \* is there such a file on the host?
    entry,        \* the daemon's entry for the path
    next_id,      \* the next id of the object store
    content,      \* what each object holds
    pc,           \* where each thread is
    op,           \* the operation it is in
    copy_up,      \* is it copying the real file up?
    object        \* the object it works on, or has open

store == <<entry, next_id, content>>
local == <<pc, op, copy_up, object>>
vars  == <<access_mode, real_exists, store, local>>

\* What a file holds: nothing, what the host's file holds or a part of that,
\* or what a thread wrote last.  Writes go to the same place of the file.
Contents == {"empty", "real", "partial"} \cup Threads
Objects  == 1 .. MaxObjects

\* A handle on the host's file, which the sandbox may only read.
RealFile == MaxObjects + 1

Entries == {NoEntry, Whiteout, Dir, Symlink} \cup {File(id) : id \in Objects}

\* Operations that write, and operations that open a handle.
Writes(t) == op[t] \in {"write", "creat"}
Opens     == {"read", "write", "creat"}

Quiet(t) == pc[t] \in {"idle", "holding"}

Goto(t, where) == pc' = [pc EXCEPT ![t] = where]

Init ==
    /\ access_mode \in {"FuseOnly", "CopyOnWrite"}
    /\ real_exists \in BOOLEAN
    /\ entry = NoEntry
    /\ next_id = 1
    /\ content = [id \in Objects |-> "empty"]
    /\ pc = [t \in Threads |-> "idle"]
    /\ op = [t \in Threads |-> "read"]
    /\ copy_up = [t \in Threads |-> FALSE]
    /\ object = [t \in Threads |-> NoObject]

-----------------------------------------------------------------------------
(* The lookup the kernel makes before an operation.                        *)

Begin(t) ==
    /\ pc[t] = "idle"
    /\ Overlap \/ \A u \in Threads : Quiet(u)
    /\ \E o \in Ops \ {"truncate"} : op' = [op EXCEPT ![t] = o]
    /\ Goto(t, "lookup")
    /\ copy_up' = [copy_up EXCEPT ![t] = FALSE]
    /\ object' = [object EXCEPT ![t] = NoObject]
    /\ UNCHANGED <<access_mode, real_exists, store>>

\* What the kernel asks for once it knows what is at the path.  A path that
\* exists is not created again, and open follows a link to another path.
AfterLookup(t, kind) ==
    CASE kind = "File" /\ op[t] \in Opens -> "load"
      [] kind = "None" /\ op[t] = "creat" -> "ensure"
      [] kind = "None" /\ op[t] \in {"mkdir", "symlink"} -> "put"
      [] kind \in {"File", "Symlink"} /\ op[t] = "unlink" -> "delete"
      [] kind = "Dir" /\ op[t] = "rmdir" -> "delete"
      [] OTHER -> "idle"

\* stat_path reads the entry and decides.
Lookup(t) ==
    /\ pc[t] = "lookup"
    /\ LET d == DecideStat(access_mode, real_exists, entry)
       IN Goto(t, CASE d = "UseFuse" -> "restat"
                    [] d = "UseReal" -> AfterLookup(t, "File")
                    [] d = "NotFound" -> AfterLookup(t, "None"))
    /\ UNCHANGED <<access_mode, real_exists, store, op, copy_up, object>>

\* stat_fuse_path reads the entry a second time, and it may have gone.
Restat(t) ==
    /\ pc[t] = "restat"
    /\ Goto(t, AfterLookup(t, IF IsWhiteout(entry) THEN "None" ELSE entry.type))
    /\ UNCHANGED <<access_mode, real_exists, store, op, copy_up, object>>

-----------------------------------------------------------------------------
(* open.                                                                   *)

\* load_open_state, decide_open and the part of execute_open that needs no
\* request of its own.  The object file of an entry is never removed, so
\* GetObjectPath answers as it would have when the entry was read.  The
\* kernel keeps O_TRUNC to itself (init does not ask for it).
LoadOpen(t) ==
    /\ pc[t] = "load"
    /\ LET id == entry.object
           d  == DecideOpen(access_mode, entry, id \in 1 .. next_id - 1,
                            Writes(t), FALSE, real_exists)
       IN /\ copy_up' = [copy_up EXCEPT ![t] = d.copy_up_from_real]
          /\ object' = [object EXCEPT ![t] =
                          CASE d.do = "OpenReal" /\ real_exists -> RealFile
                            [] d.do = "OpenObject" /\ ~d.needs_ensure -> id
                            [] OTHER -> NoObject]
          /\ Goto(t, CASE d.do = "OpenReal" /\ real_exists -> "open"
                       [] d.do = "OpenObject" /\ d.needs_ensure -> "ensure"
                       [] d.do = "OpenObject" /\ ~d.needs_ensure ->
                            IF d.delete_whiteout THEN "check" ELSE "open"
                       [] OTHER -> "idle")
    /\ UNCHANGED <<access_mode, real_exists, store, op>>

\* EnsureFileObject and EnsureFileObjectFromReal: a copy of the entry is read.
Ensure(t) ==
    /\ pc[t] = "ensure"
    /\ IF entry.type = "File"
         THEN /\ object' = [object EXCEPT ![t] = entry.object]
              /\ Goto(t, "publish")
         ELSE /\ Goto(t, "alloc")
              /\ UNCHANGED object
    /\ UNCHANGED <<access_mode, real_exists, store, op, copy_up>>

\* Faulty: the counter does not move on.
AllocAgain(t) ==
    /\ pc[t] = "alloc" /\ next_id \in Objects
    /\ content' = [content EXCEPT ![next_id] = IF copy_up[t] THEN "real" ELSE "empty"]
    /\ object' = [object EXCEPT ![t] = next_id]
    /\ Goto(t, "publish")
    /\ UNCHANGED <<access_mode, real_exists, entry, next_id, op, copy_up>>

\* alloc_empty or put_copy_from takes the next id and fills the new object.
Alloc(t) ==
    /\ pc[t] = "alloc" /\ next_id \in Objects
    /\ next_id' = next_id + 1
    /\ content' = [content EXCEPT ![next_id] = IF copy_up[t] THEN "real" ELSE "empty"]
    /\ object' = [object EXCEPT ![t] = next_id]
    /\ Goto(t, "publish")
    /\ UNCHANGED <<access_mode, real_exists, entry, op, copy_up>>

\* The same when the object cannot be written: the id is used up.
AllocFails(t) ==
    /\ pc[t] = "alloc" /\ next_id \in Objects
    /\ next_id' = next_id + 1
    /\ Goto(t, "idle")
    /\ UNCHANGED <<access_mode, real_exists, entry, content, op, copy_up, object>>

\* fuse_map.insert, whatever the map holds by now.  After it open copies the
\* real file, and open under CopyOnWrite and create delete the whiteout.
Publish(t) ==
    /\ pc[t] = "publish"
    /\ entry' = File(object[t])
    /\ Goto(t, IF copy_up[t] THEN "truncate"
               ELSE IF op[t] = "creat" \/ access_mode = "CopyOnWrite" THEN "check"
               ELSE "open")
    /\ UNCHANGED <<access_mode, real_exists, next_id, content, op, copy_up, object>>

\* The fs::copy of execute_open creates the object file afresh ...
CopyTruncate(t) ==
    /\ pc[t] = "truncate"
    /\ content' = [content EXCEPT ![object[t]] = "empty"]
    /\ Goto(t, "fill")
    /\ UNCHANGED <<access_mode, real_exists, entry, next_id, op, copy_up, object>>

\* ... and fills it.
CopyFill(t) ==
    /\ pc[t] = "fill"
    /\ content' = [content EXCEPT ![object[t]] = "real"]
    /\ Goto(t, "check")
    /\ UNCHANGED <<access_mode, real_exists, entry, next_id, op, copy_up, object>>

\* What the object holds when a copy into it is cut off.
Cut(t) ==
    content' \in {content} \cup IF pc[t] = "fill"
                                  THEN {[content EXCEPT ![object[t]] = "partial"]}
                                  ELSE {}

\* The error of fs::copy is ignored, whether it could not begin or not end.
CopyFails(t) ==
    /\ Faults /\ pc[t] \in {"truncate", "fill"}
    /\ Cut(t)
    /\ Goto(t, "check")
    /\ UNCHANGED <<access_mode, real_exists, entry, next_id, op, copy_up, object>>

\* An operation that opens no handle is over after its last request.
Last(t) == IF op[t] \in Opens THEN "open" ELSE "idle"

\* DeleteWhiteout looks at the entry, lets go of it ...
CheckWhiteout(t) ==
    /\ pc[t] = "check"
    /\ Goto(t, IF IsWhiteout(entry) THEN "unmask" ELSE Last(t))
    /\ UNCHANGED <<access_mode, real_exists, store, op, copy_up, object>>

\* ... and removes whatever is there by now.
RemoveWhiteout(t) ==
    /\ pc[t] = "unmask"
    /\ entry' = NoEntry
    /\ Goto(t, Last(t))
    /\ UNCHANGED <<access_mode, real_exists, next_id, content, op, copy_up, object>>

\* The backing file is opened and the kernel gets its handle.
OpenBacking(t) ==
    /\ pc[t] = "open"
    /\ Goto(t, "holding")
    /\ UNCHANGED <<access_mode, real_exists, store, op, copy_up, object>>

-----------------------------------------------------------------------------
(* What is done with an open handle.                                       *)

\* A write, through FUSE or passed through by the kernel.
Write(t) ==
    /\ pc[t] = "holding" /\ Writes(t)
    /\ Overlap \/ \A u \in Threads : Quiet(u)
    /\ content' = [content EXCEPT ![object[t]] = t]
    /\ UNCHANGED <<access_mode, real_exists, entry, next_id, local>>

\* setattr of the size on an open handle.
Truncate(t) ==
    /\ pc[t] = "holding" /\ Writes(t) /\ "truncate" \in Ops
    /\ Overlap \/ \A u \in Threads : Quiet(u)
    /\ content' = [content EXCEPT ![object[t]] = "empty"]
    /\ UNCHANGED <<access_mode, real_exists, entry, next_id, local>>

Release(t) ==
    /\ pc[t] = "holding"
    /\ Overlap \/ \A u \in Threads : Quiet(u)
    /\ Goto(t, "idle")
    /\ UNCHANGED <<access_mode, real_exists, store, op, copy_up, object>>

-----------------------------------------------------------------------------
(* The operations that change the entry and open nothing.                  *)

\* unlink and rmdir: DeleteFile, whose errors are ignored ...
Delete(t) ==
    /\ pc[t] = "delete"
    /\ entry' = NoEntry
    /\ Goto(t, "whiteout")
    /\ UNCHANGED <<access_mode, real_exists, next_id, content, op, copy_up, object>>

\* ... then PutWhiteout.
PutWhiteout(t) ==
    /\ pc[t] = "whiteout"
    /\ entry' = Whiteout
    /\ Goto(t, "idle")
    /\ UNCHANGED <<access_mode, real_exists, next_id, content, op, copy_up, object>>

\* mkdir and symlink: PutDir or PutSymlink, then DeleteWhiteout.
Put(t) ==
    /\ pc[t] = "put"
    /\ entry' = IF op[t] = "mkdir" THEN Dir ELSE Symlink
    /\ Goto(t, "check")
    /\ UNCHANGED <<access_mode, real_exists, next_id, content, op, copy_up, object>>

-----------------------------------------------------------------------------
(* Requests that fail, and operations that do not get to their end.        *)

\* DeleteFile and DeleteWhiteout are sent for what they may do: the handler
\* goes on without them.
Ignored(t) ==
    /\ Faults /\ pc[t] \in {"delete", "check"}
    /\ Goto(t, IF pc[t] = "delete" THEN "whiteout" ELSE Last(t))
    /\ UNCHANGED <<access_mode, real_exists, store, op, copy_up, object>>

\* Any other request, or opening the file, fails and the handler answers with
\* the error; or the run is killed.
GivesUp(t) ==
    /\ Faults
    /\ pc[t] \in {"lookup", "restat", "load", "ensure", "truncate", "fill", "check",
                   "open", "delete", "whiteout", "put"}
    /\ Cut(t)
    /\ Goto(t, "idle")
    /\ UNCHANGED <<access_mode, real_exists, entry, next_id, op, copy_up, object>>

Step(t) ==
    \/ Begin(t) \/ Lookup(t) \/ Restat(t) \/ LoadOpen(t)
    \/ Ensure(t) \/ Alloc(t) \/ AllocFails(t) \/ Publish(t)
    \/ CopyTruncate(t) \/ CopyFill(t) \/ CheckWhiteout(t) \/ RemoveWhiteout(t)
    \/ OpenBacking(t) \/ Write(t) \/ Truncate(t) \/ Release(t)
    \/ Delete(t) \/ PutWhiteout(t) \/ Put(t)
    \/ CopyFails(t) \/ Ignored(t) \/ GivesUp(t)

Next == \E t \in Threads : Step(t)

Spec == Init /\ [][Next]_vars

-----------------------------------------------------------------------------
\* What a thread that looks the path up finds there.
Shown ==
    LET d == DecideStat(access_mode, real_exists, entry)
    IN CASE d = "NotFound" -> "Absent"
         [] d = "UseReal" -> "real"
         [] d = "UseFuse" -> IF entry.type = "File" THEN content[entry.object]
                             ELSE entry.type

\* Whatever the interleaving, the id that the next allocation takes is one that
\* neither the entry nor any thread refers to, and its object is still empty:
\* two paths or two incarnations of one never share an object by accident
\* (object.rs:42-78, server.rs:304-389).
ObjectsAllocated ==
    /\ entry.type = "File" => entry.object < next_id
    /\ \A t \in Threads : object[t] # RealFile => object[t] < next_id
    /\ \A id \in Objects : id >= next_id => content[id] = "empty"

\* No thread ever writes to the host's file: a handle opened for writing, and
\* whatever an open is about to copy into, is an object (decision.rs:96-126,
\* executor.rs:66-98; plan/overview.md "default (copy-on-write)").
HostFileUntouched ==
    \A t \in Threads :
        pc[t] \in {"truncate", "fill", "open", "holding"} /\ Writes(t) =>
            object[t] \in Objects

\* lookup, readdir and a read-only open agree on what is there, whatever
\* entry the interleavings leave behind (decision.rs:49-130,268-356;
\* plan/bugs/003-cow-read-after-create-enoent.md:25 "metadata/getattr can see
\* the CoW file, but read-only `open()` ignores it").
ViewsAgree ==
    LET stat  == DecideStat(access_mode, real_exists, entry)
        child == VisibleChild(access_mode, real_exists, entry)
        open  == DecideOpen(access_mode, entry, TRUE, FALSE, FALSE, real_exists)
        link  == DecideReadlink(access_mode, entry)
    IN /\ stat = "NotFound" <=> child = "nothing"
       /\ stat = "UseReal" <=> child = "real"
       /\ stat = "UseFuse" => child = entry.type
       /\ access_mode = "CopyOnWrite" /\ entry.type \in {"None", "File", "Whiteout"} =>
            /\ stat = "NotFound" => (open.do = "NotFound" \/ ~real_exists)
            /\ stat = "UseReal" => open.do = "OpenReal"
            /\ stat = "UseFuse" => open.do = "OpenObject"
       /\ link = "UseFuse" <=> child = "Symlink"
       /\ link = "UseReal" => (stat # "NotFound" \/ ~real_exists)

\* Threads between the two requests of a removal, the first of which has
\* uncovered the host's file; and threads that have truncated what they copy
\* the host's file into.
Uncovered(t) == pc[t] = "whiteout" /\ entry = NoEntry
Underway == {t \in Threads : Uncovered(t) \/ pc[t] = "fill"}

\* The same seen from outside: a removal takes effect with its first request,
\* and a copy-up shows the real file throughout.
ShownThrough ==
    IF \E t \in Threads : Uncovered(t) THEN "Absent"
    ELSE IF \E t \in Threads : pc[t] = "fill" THEN "real"
    ELSE Shown

\* Threads that have opened, or are about to open, what the entry names.
CurrentWriters ==
    {t \in Threads : /\ Writes(t) /\ entry.type = "File" /\ object[t] = entry.object
                     /\ pc[t] \in {"publish", "truncate", "fill", "check", "unmask",
                                   "open", "holding"}}

\* When operations do not overlap, the path behaves like one file whose
\* removal masks the host's file for good, whose creation starts empty, and
\* whose copy-up nobody can see; handles stay open across all of that.  What
\* fails or is killed can break this in two places only: it spoils a host
\* file in the middle of its copy, or leaves a removal undone between its two
\* requests (executor.rs:33-230, server.rs:304-389,429-492).
Overlay == INSTANCE OverlayFile WITH
               Writers <- Threads, Absent <- "Absent", Lower <- "real",
               shown <- ShownThrough, current <- CurrentWriters, underway <- Underway
OverlaySpec == Overlay!Spec

\* When operations do not overlap, DeleteWhiteout never finds a whiteout to
\* delete: every caller has just published an entry over it.  In the code as
\* it is the request can only do harm (executor.rs:92-94, server.rs:484-492).
NothingToUnmask == \A t \in Threads : pc[t] # "unmask"

\* The syncing daemon "serializes writes across concurrent instances"
\* (plan/overview.md:18): what one writer wrote is replaced by another
\* writer's data only.  Two first writers of one path can undo each other's
\* writes: each allocates an object, or the second copy of the real file runs
\* over the first write (server.rs:348,369, executor.rs:89-91).
WritesSerialized == [][(Shown \in Threads) => (Shown' \in Threads)]_vars
=============================================================================
