------------------------------- MODULE Setup -------------------------------
(***************************************************************************)
(* The directory .sandbox and the shared memory, while runs enter and the  *)
(* commands init, clean and purge change them.                             *)
(*                                                                         *)
(*   src/cli/clean.rs, init.rs, purge.rs                                   *)
(*   src/cli/run.rs         prepare_context                                *)
(*   src/syncing/disk.rs    init_sandbox, load, flush                      *)
(*   src/shm/region.rs, state.rs   creating and opening a segment          *)
(*                                                                         *)
(* What a run does once it has its segment is module Lifecycle; here it    *)
(* only counts itself in and out, and a daemon is only its socket and the  *)
(* flush that ends it.  A name drawn at random is the process that drew    *)
(* it: it is never drawn again.                                            *)
(***************************************************************************)
EXTENDS FiniteSets, Naturals

CONSTANTS
    Runs,      \* processes of cas run
    Cleaners,  \* processes of cas init, clean and purge
    Old, Nil,  \* a name in use before, and none
    Wrap       \* the running count is modulo Wrap

VARIABLES
    box,       \* .sandbox: its directories, metadata.bin, data.bin, config.toml
    sock,      \* the run whose daemon is behind daemon.sock
    shm,       \* the segment under each name in /dev/shm
    mem,       \* each segment: how far it is made, and what it holds
    daemon,    \* the daemon that each run has started
    saves,     \* the name of shared memory that daemon has read
    pc,
    how,       \* the command of a process; a run cleans by force
    fresh,     \* it found no .sandbox
    name,      \* the name of shared memory it has read or drawn
    seg,       \* the segment it has mapped
    \* history
    early,      \* runs that counted themselves before the layout was written
    solo,       \* cleaners that nobody interfered with
    undisturbed \* no clean, crash or purge met another process

daemons  == <<sock, daemon, saves>>
segments == <<shm, mem>>
own      == <<how, fresh, name, seg>>
vars == <<box, daemons, segments, pc, own, early, solo, undisturbed>>

Procs == Runs \cup Cleaners
Names == Procs \cup {Old}
Segs  == Names      \* a segment goes by the process that made it

\* Fewer processes than the count can tell apart, which is an AtomicU32.
ASSUME ProcsAssumption ==
    /\ IsFiniteSet(Runs) /\ Runs \cap Cleaners = {}
    /\ Old \notin Procs /\ {Nil, "torn"} \cap Names = {} /\ Nil # "torn"
ASSUME WrapAssumption == Wrap \in Nat /\ Cardinality(Runs) < Wrap

Absent == [dir |-> FALSE, data |-> FALSE, meta |-> Nil, map |-> "absent",
           config |-> FALSE]
Whole(n) == [dir |-> TRUE, data |-> TRUE, meta |-> n, map |-> "whole",
             config |-> TRUE]

\* Where a process changes .sandbox.
Cleaning == {"exists", "probe", "read", "files", "data", "unlink", "sock",
             "make", "torn meta", "meta", "map", "config"}
\* Where a run is in the count.
Counted  == {"fork", "wait", "inside"}
InFlight == {r \in Runs : pc[r] \in Counted \cup {"load", "policy", "open", "create",
                                                  "truncate", "layout", "enter"}}
Working  == {p \in Procs : pc[p] \in Cleaning}
Listening == sock # Nil /\ daemon[sock] = "listening"

\* No run and no daemon.
Quiet == InFlight = {} /\ \A r \in Runs : daemon[r] \in {"none", "gone"}

NoMem == [stage |-> "none", count |-> 0, lock |-> FALSE, ready |-> FALSE]

Init ==
    /\ \/ box = Absent /\ shm = [n \in Names |-> Nil]
       \/ box = Whole(Old) /\ \E s \in {Old, Nil} : shm = [n \in Names |-> IF n = Old THEN s ELSE Nil]
    /\ mem = [s \in Segs |-> [NoMem EXCEPT !.stage = IF shm[Old] = s THEN "ready" ELSE "none"]]
    /\ daemon = [r \in Runs |-> "none"] /\ saves = [r \in Runs |-> Nil] /\ sock = Nil
    /\ pc = [p \in Procs |-> "start"]
    /\ how \in [Procs -> {"run", "clean", "force", "purge"}]
    /\ \A p \in Procs : how[p] = "run" <=> p \in Runs
    /\ fresh = [p \in Procs |-> FALSE]
    /\ name = [p \in Procs |-> Nil] /\ seg = [p \in Procs |-> Nil]
    /\ early = {} /\ solo = {} /\ undisturbed = TRUE

-----------------------------------------------------------------------------
\* A step of p: whoever else is cleaning has met it.
Step(p) ==
    /\ solo' = solo \cap {p}
    /\ undisturbed' = (undisturbed /\ Working \subseteq {p})

Goes(p, from, to) ==
    /\ pc[p] = from /\ pc' = [pc EXCEPT ![p] = to]
    /\ Step(p)

\* A step that changes nothing but .sandbox.
Writes(p, b) ==
    /\ box' = b
    /\ UNCHANGED <<daemons, segments, own, early>>

Reads == UNCHANGED <<box, daemons, segments, own, early>>

Fails(p) ==
    /\ pc' = [pc EXCEPT ![p] = "failed"]
    /\ Step(p) /\ Reads

-----------------------------------------------------------------------------
(* cmd_clean                                                               *)

Begin(p) ==
    /\ pc[p] = "start" /\ how[p] \in {"clean", "force"}
    /\ pc' = [pc EXCEPT ![p] = "exists"]
    /\ solo' = IF Working = {} /\ Quiet THEN {p} ELSE {}
    /\ undisturbed' = (undisturbed /\ Working = {})
    /\ Reads

\* The check of .sandbox that chooses between the two ways.
CheckDir(p) ==
    /\ Goes(p, "exists", IF box.dir THEN "probe" ELSE "make")
    /\ fresh' = [fresh EXCEPT ![p] = ~box.dir]
    /\ UNCHANGED <<box, daemons, segments, how, name, seg, early>>

\* is_daemon_running says no, or is not asked.  A run whose daemon does not
\* listen yet goes unnoticed.
GoOn(p) ==
    /\ pc[p] = "probe" /\ (how[p] # "clean" \/ ~Listening)
    /\ pc' = [pc EXCEPT ![p] = "read"]
    /\ solo' = solo \cap {p}
    /\ undisturbed' = (undisturbed /\ Working = {p} /\ Quiet)
    /\ Reads

Refuse(p) == pc[p] = "probe" /\ how[p] = "clean" /\ Listening /\ Fails(p)

\* Faulty: metadata that cannot be read ends the clean.
ReadOldOrFail(p) ==
    /\ Goes(p, "read", IF box.meta = "torn" \/ box.map = "torn" THEN "failed" ELSE "files")
    /\ name' = [name EXCEPT ![p] = IF box.meta = "torn" THEN Nil ELSE box.meta]
    /\ UNCHANGED <<box, daemons, segments, how, fresh, seg, early>>

\* load: without metadata.bin the name is empty; an error is remembered, and
\* then there is no name either.
ReadOld(p) ==
    /\ Goes(p, "read", "files")
    /\ name' = [name EXCEPT ![p] = IF "torn" \in {box.meta, box.map} THEN Nil ELSE box.meta]
    /\ UNCHANGED <<box, daemons, segments, how, fresh, seg, early>>

\* remove_dir_all: the files, then the directory, which must be empty.
RemoveFiles(p) ==
    /\ Goes(p, "files", "data")
    /\ Writes(p, [box EXCEPT !.meta = Nil, !.map = "absent"])

RemoveData(p) ==
    /\ box.meta = Nil /\ box.map = "absent"
    /\ Goes(p, "data", "unlink")
    /\ Writes(p, [box EXCEPT !.data = FALSE])

RemoveFails(p) ==
    /\ pc[p] = "data" /\ (box.meta # Nil \/ box.map # "absent")
    /\ Fails(p)

\* Faulty: the segment is left for the next run to find.
UnlinkNothing(p) == Goes(p, "unlink", "sock") /\ Reads

\* ShmState::open only maps the segment; unlink removes its name.
Unlink(p) ==
    /\ Goes(p, "unlink", "sock")
    /\ shm' = IF name[p] = Nil THEN shm ELSE [shm EXCEPT ![name[p]] = Nil]
    /\ UNCHANGED <<box, daemons, mem, own, early>>

RemoveSock(p) ==
    /\ Goes(p, "sock", "make")
    /\ sock' = Nil
    /\ UNCHANGED <<box, daemon, saves, segments, own, early>>

\* create_dir_all, the new name, and the directories of init_sandbox.
Make(p) ==
    /\ Goes(p, "make", "torn meta")
    /\ box' = [box EXCEPT !.dir = TRUE, !.data = TRUE]
    /\ name' = [name EXCEPT ![p] = p]
    /\ UNCHANGED <<daemons, segments, how, fresh, seg, early>>

\* flush: metadata.bin is created, then written; then data.bin likewise.
Flush(p, from, to, b) == box.data /\ Goes(p, from, to) /\ Writes(p, b)

TornMeta(p) == Flush(p, "torn meta", "meta", [box EXCEPT !.meta = "torn"])

WriteMeta(p) == Flush(p, "meta", "map", [box EXCEPT !.meta = p, !.map = "torn"])
WriteMap(p) == Flush(p, "map", "config", [box EXCEPT !.map = "whole"])

FlushFails(p) == pc[p] \in {"torn meta", "meta", "map"} /\ ~box.data /\ Fails(p)

\* The access log, and for a new sandbox config.toml and .gitignore.  A run
\* goes on with what it has made.
Finish(p) ==
    /\ box.data
    /\ pc[p] = "config"
    /\ pc' = [pc EXCEPT ![p] = IF p \in Runs THEN "load" ELSE "cleaned"]
    /\ Step(p)
    /\ Writes(p, [box EXCEPT !.config = @ \/ fresh[p]])

FinishFails(p) == pc[p] = "config" /\ ~box.data /\ Fails(p)

Cleaned(p) == Goes(p, "cleaned", "done") /\ Reads

\* cmd_purge removes the whole directory; the shared memory stays.
Purge(p) ==
    /\ pc[p] = "start" /\ how[p] = "purge" /\ box.dir
    /\ pc' = [pc EXCEPT ![p] = "done"]
    /\ box' = Absent /\ sock' = Nil
    /\ solo' = {} /\ undisturbed' = FALSE
    /\ UNCHANGED <<daemon, saves, segments, own, early>>

\* The process is killed.
Crash(p) ==
    /\ pc[p] \in Cleaning
    /\ pc' = [pc EXCEPT ![p] = "failed"]
    /\ solo' = {} /\ undisturbed' = FALSE
    /\ Reads

Clean(p) ==
    \/ Begin(p) \/ CheckDir(p) \/ GoOn(p) \/ Refuse(p) \/ ReadOld(p)
    \/ RemoveFiles(p) \/ RemoveData(p) \/ RemoveFails(p) \/ Unlink(p)
    \/ RemoveSock(p) \/ Make(p) \/ TornMeta(p) \/ WriteMeta(p) \/ WriteMap(p)
    \/ FlushFails(p) \/ Finish(p) \/ FinishFails(p) \/ Cleaned(p)
    \/ Purge(p) \/ Crash(p)

-----------------------------------------------------------------------------
(* prepare_context, and the count.                                         *)

\* .sandbox is looked for here, and again by cmd_clean.
Prepare(r) ==
    /\ pc[r] = "start"
    /\ pc' = [pc EXCEPT ![r] = IF box.dir THEN "load" ELSE "exists"]
    /\ solo' = IF ~box.dir /\ Working = {} /\ Quiet THEN {r} ELSE {}
    /\ undisturbed' = (undisturbed /\ Working = {})
    /\ Reads

Load(r) ==
    /\ "torn" \notin {box.meta, box.map}
    /\ Goes(r, "load", "policy")
    /\ name' = [name EXCEPT ![r] = box.meta]
    /\ UNCHANGED <<box, daemons, segments, how, fresh, seg, early>>

LoadFails(r) == pc[r] = "load" /\ "torn" \in {box.meta, box.map} /\ Fails(r)

BuildPolicy(r) == box.config /\ Goes(r, "policy", "open") /\ Reads
PolicyFails(r) == pc[r] = "policy" /\ ~box.config /\ Fails(r)

Taken(n) == n # Nil /\ shm[n] # Nil

\* ShmState::open, or else ShmState::create.
Open(r) ==
    /\ Goes(r, "open", "enter")
    /\ Taken(name[r])
    /\ seg' = [seg EXCEPT ![r] = shm[name[r]]]
    /\ UNCHANGED <<box, daemons, segments, how, fresh, name, early>>

OpenFails(r) ==
    /\ Goes(r, "open", "create")
    /\ ~Taken(name[r])
    /\ Reads

MakesSegment(r) ==
    /\ Goes(r, "create", "truncate") /\ name[r] # Nil
    /\ shm' = [shm EXCEPT ![name[r]] = r]
    /\ mem' = [mem EXCEPT ![r].stage = "empty"]
    /\ seg' = [seg EXCEPT ![r] = r]
    /\ UNCHANGED <<box, daemons, how, fresh, name, early>>

\* Faulty: what has the name is unlinked first.
CreateOver(r) == MakesSegment(r)

\* O_CREAT with O_EXCL.
Create(r) == MakesSegment(r) /\ shm[name[r]] = Nil

\* The name is taken by now, or the empty one.
CreateFails(r) ==
    /\ pc[r] = "create" /\ (Taken(name[r]) \/ name[r] = Nil)
    /\ Fails(r)

Changes(s, m) ==
    /\ mem' = [mem EXCEPT ![s] = m]
    /\ UNCHANGED <<box, daemons, shm, own>>

Truncate(r) ==
    /\ Goes(r, "truncate", "layout")
    /\ Changes(seg[r], [mem[seg[r]] EXCEPT !.stage = "sized"])
    /\ UNCHANGED early

\* ptr::write and pthread_mutex_init: whatever is there is overwritten.
Layout(r) ==
    /\ Goes(r, "layout", "enter")
    /\ Changes(seg[r], [NoMem EXCEPT !.stage = "ready"])
    /\ UNCHANGED early

\* Counted in under the mutex.  The first one keeps it until its daemon is
\* ready; fresh pages are an open mutex and a count of zero.
Enter(r) ==
    LET m == mem[seg[r]] IN
    /\ pc[r] = "enter" /\ m.stage # "empty" /\ ~m.lock
    /\ Goes(r, "enter", IF m.count = 0 THEN "fork" ELSE "wait")
    /\ early' = IF m.stage = "sized" THEN early \cup {r} ELSE early
    /\ Changes(seg[r], [m EXCEPT !.count = (@ + 1) % Wrap, !.lock = (m.count = 0),
                                 !.ready = @ /\ m.count # 0])

\* SIGBUS: the segment has no pages yet.
EnterDies(r) == pc[r] = "enter" /\ mem[seg[r]].stage = "empty" /\ Fails(r)

\* build_server_state: the daemon reads the metadata once more.
DaemonLoads(r) ==
    /\ pc[r] = "fork" /\ daemon[r] = "none"
    /\ "torn" \notin {box.meta, box.map}
    /\ daemon' = [daemon EXCEPT ![r] = "starting"]
    /\ saves' = [saves EXCEPT ![r] = box.meta]
    /\ Step(r)
    /\ UNCHANGED <<box, sock, segments, pc, own, early>>

\* bind_listener makes .sandbox if it must, and ready() lets the run go on.
DaemonBinds(r) ==
    /\ daemon[r] = "starting" /\ Goes(r, "fork", "wait")
    /\ daemon' = [daemon EXCEPT ![r] = "listening"] /\ sock' = r
    /\ box' = [box EXCEPT !.dir = TRUE]
    /\ mem' = [mem EXCEPT ![seg[r]].ready = TRUE, ![seg[r]].lock = FALSE]
    /\ UNCHANGED <<saves, shm, own, early>>

CountOut(s) == [mem[s] EXCEPT !.count = (@ + Wrap - 1) % Wrap]

\* Faulty: the count stays when no daemon could be had.
DaemonFailsCounted(r) ==
    /\ daemon[r] = "none" /\ "torn" \in {box.meta, box.map}
    /\ Goes(r, "fork", "failed")
    /\ Changes(seg[r], [mem[seg[r]] EXCEPT !.lock = FALSE])
    /\ UNCHANGED early

DaemonFails(r) ==
    /\ daemon[r] = "none" /\ "torn" \in {box.meta, box.map}
    /\ Goes(r, "fork", "failed")
    /\ Changes(seg[r], [CountOut(seg[r]) EXCEPT !.lock = FALSE])
    /\ UNCHANGED early

Ready(r) == Goes(r, "wait", "inside") /\ mem[seg[r]].ready /\ Reads

Leave(r) ==
    /\ Goes(r, "inside", "done") /\ ~mem[seg[r]].lock
    /\ Changes(seg[r], CountOut(seg[r]))
    /\ UNCHANGED early

\* The daemon saves what it knows, under the name it has read, and removes
\* the socket that is there.
Saves(r, to) ==
    /\ daemon' = [daemon EXCEPT ![r] = to]
    /\ sock' = Nil
    /\ box' = IF box.data THEN [box EXCEPT !.meta = saves[r], !.map = "whole"] ELSE box
    /\ solo' = {} /\ undisturbed' = (undisturbed /\ Working = {})
    /\ UNCHANGED <<saves, shm, pc, own, early>>

\* Once when it finds the count zero ...
Stop(r) ==
    /\ daemon[r] = "listening" /\ mem[seg[r]].count = 0 /\ ~mem[seg[r]].lock
    /\ mem' = [mem EXCEPT ![seg[r]].ready = FALSE]
    /\ Saves(r, "stopping")

\* ... and 100 ms later again, without the mutex.
StopAgain(r) == daemon[r] = "stopping" /\ UNCHANGED mem /\ Saves(r, "gone")

Run(r) ==
    \/ Prepare(r) \/ Load(r) \/ LoadFails(r) \/ BuildPolicy(r) \/ PolicyFails(r)
    \/ Open(r) \/ OpenFails(r) \/ Create(r) \/ CreateFails(r) \/ Truncate(r)
    \/ Layout(r) \/ Enter(r) \/ EnterDies(r) \/ DaemonLoads(r)
    \/ DaemonBinds(r) \/ DaemonFails(r) \/ Ready(r) \/ Leave(r)
    \/ Stop(r) \/ StopAgain(r)

Next ==
    \/ \E p \in Procs : Clean(p)
    \/ \E r \in Runs : Run(r)

Spec == Init /\ [][Next]_vars
-----------------------------------------------------------------------------
(* Properties.                                                             *)

\* What goes wrong only when a clean meets another process, or a process is
\* killed or purge leaves a segment behind: otherwise all runs in the sandbox
\* share one segment, the one that metadata.bin names, although two of them
\* may create it at once (prepare_context), a clean may come at any time
\* (is_daemon_running), and a daemon saves the name it has read.
RunsAgree ==
    undisturbed =>
        \A r \in InFlight :
            /\ name[r] # Nil => name[r] = box.meta
            /\ seg[r] # Nil => seg[r] = shm[name[r]]

\* The count of a segment that has its layout is the number of runs in it;
\* it is lost only by a run that counts itself in before the layout is
\* written, whoever else is cleaning (ShmState::create, open).
CountKept ==
    \A s \in Segs :
        mem[s].stage = "ready" =>
            \/ mem[s].count = Cardinality({r \in Runs : pc[r] \in Counted /\ seg[r] = s})
            \/ \E r \in early : seg[r] = s

\* A clean that nobody interferes with succeeds, whatever an earlier one
\* left when it was killed, and leaves a sandbox that can be loaded; and one
\* that a run can start in, unless .sandbox came without config.toml, which
\* only the process that creates .sandbox writes.
CleanRestores ==
    \A p \in solo :
        /\ pc[p] # "failed"
        /\ pc[p] \in {"cleaned", "load"} =>
             /\ box = [Whole(p) EXCEPT !.config = box.config]
             /\ undisturbed => box.config

\* A clean takes away the segment it replaces: without disturbance nothing
\* is left in /dev/shm but what the metadata names.
NothingLeaks ==
    undisturbed => \A n \in Names : shm[n] # Nil =>
        \/ n = box.meta
        \/ \E p \in Working : name[p] = n \/ pc[p] \in {"exists", "probe", "read"}
=============================================================================
