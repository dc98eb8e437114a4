# Coding-agent sandbox: specifications and proofs

`cas run` starts a command in a sandbox whose root is a FUSE file system. What
the command writes goes into a store that one *syncing daemon* per sandbox
keeps, and that several runs share. This directory holds TLA+ models of the
parts of `cas` that run concurrently or outlive a process, the TLC runs that
check them on small instances, and TLAPS proofs for all instances. The paths
below are relative to the repository's `src/` directory; plan documents are in
`plan/`.

## The system

| Component | State | Operations | Meets the others through |
|---|---|---|---|
| **Session lifecycle** `cli/run.rs`, `shm/` | mutex, `running_count`, `socket_ready` in shared memory; a lease per run | enter, start the daemon, wait, roll back, leave | shared memory, `daemon.sock` |
| **Syncing daemon** `syncing/server.rs` | map of entries, path tree, object ids, listener | load, bind, accept, poll for shutdown, requests, flush, exit | one socket connection per pooled client; forked by a run |
| **Object store, persistence** `object.rs`, `disk.rs` | `next_id`, object files, `metadata.bin`, `data.bin` | allocate, copy, load, flush | called by the daemon; object files are opened by FUSE directly |
| **Path tree** `closure.rs` | closure rows in three indexes | insert, remove, subtree, children, serialise | called by the daemon's requests |
| **Client pool** `pool.rs`, `client.rs` | idle clients, `total`, condition variable | checkout, connect, drop | every FUSE thread |
| **FUSE decisions** `decision.rs` | none | tables from mode, host file and entry to an answer | called by the handlers |
| **FUSE handlers, executor** `fs.rs`, `executor.rs`, `state_loader.rs` | open files | lookup, open, create, write, unlink, rmdir, mkdir, rename, ... | kernel, pool, daemon, object files |
| **Inode table** `inode.rs` | two maps, `next_ino` | `get_or_insert` | handlers |
| **Sandbox processes** `sandbox.rs`, `isolate/` | namespaces, mounts, terminal, flag of the signal handler | two setup stages, wait for FUSE, relay | pseudo terminal, signals, exit status; outlive a run that gives up on them |
| **init, clean, purge** `cli/`, `shm/region.rs` | files under `.sandbox`, segments in `/dev/shm` | make and remove a sandbox | the daemon's socket and files, runs that open the same segment |
| **Policy, config, logging** | none | parse, classify, format | give the handlers an access mode |

What is hard here: runs and daemons on one shared count without a common
parent; a daemon that is forked inside a critical section and polls the same
mutex; requests of several connections served in parallel on maps that are
locked one access at a time; FUSE operations that read, decide and then send
several requests; a pool that threads re-enter; saves that may be cut off. The
list is in `PROJECT.json` under `hazards`, each with the line where it bites and
the properties that guard it.

## Modules

```
SessionGate          what a session promises
  ^ refined by
Lifecycle            runs and daemons          LifecycleProofs
ClientPool           FUSE threads and clients  FuseProofs
Decision             the decision tables
  ^ used by
CowFile              one path, taken apart     --- refines ---> OverlayFile
                                               CowFileProofs
SyncServer           several paths, saves      uses PathTree, Decision
                                               SyncServerProofs
Namespace            several paths as one run sees them, over the host's
                     files                     uses PathTree, Decision
                                               FuseProofs
PathTree             the closure table         PathTreeProofs
Inodes               the table of inode numbers  InodesProofs
Setup                .sandbox and the shared memory: runs, clean, purge
                                               SetupProofs
Sandbox              the child, the FUSE daemon, the command, the relay  SandboxProofs
Policy               the classification of paths  SandboxProofs
```

`MC*.tla` give TLC sets and symmetries; nothing else.

### Lifecycle and SessionGate

A *run* is a thread of `cmd_run`; the daemon named after a run is the one its
`fork_and_run` made. `shm` is the page in shared memory. The control state of a
run follows `cmd_run`: `Prepare`, then `EnterFirst` (count was 0: fork, keep the
mutex), `EnterForkFails` or `EnterLater`; the starter ends its wait with
`StartCommitted`, `StartFailed` or `StartTimeout`; a waiter is let in by `Admit`;
`Connect`, `Write`, `Leave`; a run that fails gives its lease back in a separate
`Rollback`, because the code drops the guard first. The daemon does `Load`,
`Bind` or `BindFails`, `Accept`, and only after an accept one of `PollSkip`,
`PollBusy`, `PollShutdown`; then `ShutdownFlushed`, `FinalFlush`, `Exit`.
`Probe` is the connection `cas clean` makes to see whether a daemon is there.
Faults are fork and bind errors, the start timeout, SIGKILL of a run or a
daemon, and a process of the sandbox that writes after its run has left; a run
of TLC says which kinds happen (`FaultKinds`) and how many (`MaxFaults`).
Data is abstracted to one update per run; short critical sections are one step.

`SessionGate` has only a count and a flag: sessions enter, are opened to, leave,
and the gate closes only when it is empty.

Properties: the type invariant; `CountIsLeases` (the count is the number of leases);
`LockHolder` (the mutex is held by somebody who will release it, unless a holder
was killed); `ReadyMeansServing`; `ClientsServed` (no daemon is shutting down on
a connected run); `ShutdownFlushComplete` (the shutdown flush holds every
update made before it); `GateSpec` (refinement; it contains that the flag falls
only at a count of zero); `EntryGranted`, `ShutdownEnds`, `WaitEndsUnlessStartFailed`
(liveness; the exception is needed: a run that counted itself while the starting
run was failing waits for ever, as the loop of `wait_for_daemon_ready` has no
bound, where `plan/modules/cli/run.md:88` has one). `AtMostOneDaemon` is refuted,
see *Findings*.

Fairness: weak fairness on each step of a process that can go on by itself. None
on the user starting a run, on the command ending, or on connecting. It is the
scheduler's promise only. Liveness runs exclude the kinds of fault that end the
promise (killing the mutex's holder).

### ClientPool

`idle` and `total` are the pool's, `pc` says where a FUSE thread is in
`checkout`, `outer` and `inner` are the threads that hold a first and a second
client. `Take`/`TakeIdle`/`Grow`/`Connected`/`Rollback`/`Sleep` are the branches
of `checkout`; `Nest` is a handler that keeps its client and calls `stat_path`,
which checks out another; dropping notifies one sleeper. Wake-ups may be
spurious and any connect may fail. Left out: a returned client that is broken,
and a poisoned mutex.

`Accounting` (every counted client is idle, held or being connected),
`NoLostWakeup` (while somebody sleeps, each client to be had has an awake thread
on its way to it), `GridlockOnlyByNesting` (the pool stops only if all clients
are held by sleepers in a second checkout). With as many threads as clients the
pool can stop for good; `FewThreadsNeverStuck` proves that with fewer it cannot.

### Decision, CowFile and OverlayFile

`Decision` holds the tables: `DecideOpen`, `DecideStat`, `DecideChild` with what
readdir makes of it, `DecideReadlink`. An entry is a type and an object id.

`CowFile` is one path that is not `Passthrough` and the threads that use it, from
one run or several. Each operation is what the kernel makes of it: `Begin`,
`Lookup` and `Restat` (the entry is read twice), then what `AfterLookup` says:
`LoadOpen`, the daemon's `Ensure`, `Alloc`/`AllocFails`, `Publish` as separate
accesses to the map, the copy of `execute_open` in its two steps, the whiteout
check and removal, `OpenBacking`; or `Delete` and `PutWhiteout`; or `Put`. With
the handle come `Write`, `Truncate` (a size set through the handle) and
`Release`. `content` is what each object holds: nothing, the host's bytes, or the
last writer's. The host's file is a regular file that nobody else changes, the
path's directory has the path's mode, and metadata is left out. A lookup may be
arbitrarily old when its operation starts only if operations overlap; the
kernel's one-second cache is covered by that and not modelled otherwise. `init` does not
ask for `FUSE_ATOMIC_O_TRUNC`, so `open` never sees `O_TRUNC`.

With `Faults`, any of this may fail or be cut off. `CopyFails`: the `fs::copy` of
`execute_open` ignores its error, so the object stays empty or holds a part of
the host's file, the open goes on, and the object is never copied into again.
`Ignored`: `DeleteFile` and `DeleteWhiteout` are sent for what they may do.
`GivesUp`: any other request fails, `PutWhiteout` after `DeleteFile` among them,
or the run is killed where it stands, in the middle of a copy too. What the
daemon has begun for a request it completes, killed client or not.

With `Overlap = FALSE` a thread begins only when no other is within an operation
(handles stay open meanwhile). Then the path refines `OverlayFile`: one file that
shows what was last written, empty when created, gone for good when its removal
is settled, and whose copy-up nobody can see. `underway` are the users in the
middle of a copy or of a removal; the mapping looks through these two windows,
and counts as current writers those on the object that the entry names. The
promise says what the windows cost: a fault may turn a host file that is being
copied into an empty or partial one (`Spoil`), and may bring back a host file
that was removed and not yet whited out (`Reappear`). It can touch nothing else:
not what anybody has written, not a file that is settled, not a handle.
`NothingToUnmask`, which is only proved, says that in this case `DeleteWhiteout`
never has an effect.

With `Overlap = TRUE` the path is no longer one file (`cow_race`), but
`ObjectsAllocated`, `HostFileUntouched` and `ViewsAgree` (stat, readdir, open and
readlink agree on whatever entry the interleavings leave) hold.

### PathTree and SyncServer

`PathTree` has the rows and the three indexes as sets, and insert, remove, rename
and the two ways to load (`FromRows`, `FromPaths`) as operators without recursion:
what `remove_one` does to the victims one after the other depends only on each
victim's own rows. `SyncServer` has the map, the tree, `next_id`, and the two files.
Every request that changes entries is one step.

A save is many steps. The snapshot reads the next id and then the map entry by
entry in any order (`Flush`, `ReadEntry`); `metadata.bin` is truncated and written;
`rows` walks the live tree's `by_ancestor`, the rows of one ancestor at a time
and the ancestors in any order (`ReadRows`); `data.bin` is truncated and written, the
map before the tree (`WriteMap`, `WriteTree`). A shutdown does this twice.
Requests are served all the while and SIGKILL comes anywhere. `Start` loads. A file
that ends before the map is complete stops the sandbox for good, as `disk::load`
returns the error; a `data.bin` that ends within the tree is taken for the old
format, and the tree is made anew from the paths of the map (`disk.rs:106-112`).

The rows that a walk gathers need not be the closure of any set of paths. A path
that gains or loses rows meanwhile is saved with some of its rows: it may be in
`by_descendant` and not in `by_parent`, or be there while a directory above it is
not. Three variables record what requests do behind the back of a save, and change
nothing: `stirred` are the objects that moved while the map was read; `frayed` are
the paths whose rows changed during the walk that a tree comes from (the walk under
way, the one on the disk, and the one that the daemon loaded); `changed` are the
paths whose entry or rows changed since the save began.

* `TreeExact`: in memory, and as a restart would make them from whatever a save or
  a kill has left, the indexes agree, every row is a true one, and every path
  has all its rows and all the paths above it, but for the paths in `frayed`. So
  a torn path does not spoil another one, through any requests that follow.
* `SavedAsListed`: of every path that is not in `changed`, the pair that a save
  writes has the entry that the daemon has, and a restarted daemon's readdir lists
  the path exactly if this one does. The map and the tree are read one after the
  other (`server.rs:185-187`), and of the paths in `changed` they may disagree.
* `ObjectsUnshared`: neither in memory nor in what a restart would load do two
  paths share an object, and no live id will be handed out again.
* `ListedStays`: a listed file stays listed wherever renames take it, unless a
  directory above it is removed, or it is moved to a path that a walk had torn.

The last two except the objects in `stirred`: a file made while a snapshot reads
the map is saved with an id that the saved counter does not cover, so that a
restarted daemon hands the id out again; and a file renamed meanwhile may be saved
under both names. TLC finds either in a few steps when the exception is dropped. It
also finds the other two: `TreeExact` without `frayed`, and, in `ListedStays`, a file
that a restarted daemon puts at a path of which the walk has kept a part. `contains`
finds the path in `by_descendant`, so `insert` adds no row, and readdir never lists
the file.

### Namespace

What one run sees over several paths. A handler of `fs.rs` with the requests it
sends is one step (`Create`, `OpenWrite`, `Make` for mkdir and symlink, `Unlink`,
`Rmdir`, `Move`), `Shown` is `stat_path` and what reading gives, `Listing` is
readdir. The requests are functions of `store`, the daemon's map, tree and next
id. `dentry` is what the kernel remembers of a name: a number, which without
concurrency is as good as the path it was made for, and a kind; `PathOf` is
`get_path`, which builds a handler's path from the parent's *number*, and
`Lookup` is the only action that corrects a name. A name may be `Stale`: the kernel
remembers a kind that is not there any more. `Misled` collects what an operation
may then reach instead: the name's number is another path's, or something at or
above it is stale. The host's files do not change. What a file holds is the set of
operations that wrote it.

`ref` is an ordinary file system that does the same operations. `ShowsFiles`:
under every name the user sees what `ref` has. `ListedIsFound`: readdir lists
the names that lookup finds. Only the names in `astray` are excepted. Each way into
`astray` is something the code does, and without it `ShowsFiles` or `ListedIsFound`
fails: TLC finds that on the instance of the run, except for two parts of `Misled`. A
rename into a directory whose number is another path's needs a third directory, and
a stale name that has the right number again takes ten operations (an unlink then
removes a directory from the path tree and leaves what is below it in the map):

* after a rename a file keeps its number, and the number keeps the old path
  (`fs.rs:519`): until the kernel looks the name up again, what is done to the new
  name is done to the old path;
* no whiteout is put at the source of a rename (`server.rs:434`): a host file of
  that name shows again. (A host file that has no entry cannot be renamed at
  all: the daemon answers that there is no such path.)
* the destination directory of a rename keeps what it held: the handler does not
  ask whether it is empty, and the trees merge;
* rmdir does not ask either (`fs.rs:497`): entries that only the daemon has stay
  below the whiteout and come back when the directory is made again;
* unlink takes the path's whole subtree out of the tree (`server.rs:429-433`). When
  a file stands where there was a directory with whiteouts, readdir of a
  directory made there later lists the host's names, which lookup hides;
* a rename takes with it whatever was astray below it.

### Setup

`.sandbox` and `/dev/shm` under two runs and a process that is `init`, `clean`,
`clean` with force or `purge`; a first run does an init of its own. Every file made
or removed is a step and the process may be killed at each. A run goes from
`Prepare` through `Load`, `BuildPolicy`, and `Open` or `Create`, `Truncate` and
`Layout` of the shared memory to `Enter`; after that Lifecycle takes over and
only the count, the socket, and the flushes of the daemon are left here. Purge
is one step: nothing in it looks at what another process did. Each flush of the
daemon is one step here as well (SyncServer takes it apart, with crashes in it);
only the process that inits or cleans is killed here, runs and daemons are killed in
Lifecycle.

`RunsAgree` (all runs share the segment that the metadata names), `CountKept` (the
count in it is the number of runs), `CleanRestores` (a clean that nobody meets
succeeds whatever a killed one left behind, and leaves a sandbox that loads),
`NothingLeaks` (no segment without metadata). `undisturbed`, `solo` and `early`
say where they stop:
a run that counts itself in before the other has written the layout is lost
(`early`); two first runs, or a killed init, may leave `.sandbox` without
`config.toml`, which no later clean writes; with `metadata.bin` gone the name of
the segment is empty and the run fails; the second, unlocked flush of a daemon can
undo a clean; purge leaves the segment in `/dev/shm`, where
`plan/modules/cli/purge.md:16` has it removed.

### Sandbox

The run (`parent`) goes through `run_in_sandbox` and the loop of `relay_pty_io` call
by call; the child (`child`) through the two setup stages step by step, each of
which may fail; then it is the command. FUSE may fail, never mount or die. `env` is what
the child has around it: what is mounted at the places that matter, its root,
namespaces, filter and capabilities, and on which file system its working
directory is. Capabilities are three: two of the 32 that `drop_capabilities` lists,
each of which may stay since its errors are ignored, and one of the nine it does not
list (`CAP_BPF` and the like). `Exec` does what execve does to them. The two
directions of the terminal are chunks in bounded buffers.
Processes that the command leaves behind may hold the terminal (`held`).

`CommandConfined` (when the command starts everything is in place, and the
working directory is the one FUSE shows, although `/tmp` is covered; and it has no
capability, which is not the doing of `drop_capabilities` but of the refusal of root
in `stage1.rs:36` together with execve, which leaves root all of them and anybody
else none: let root through and the property fails),
`OutcomeFaithful` (an exit code is that of the reaped child; an error comes never
after the code is known), `SetupEnds`, `RunEnds`, `SizeFollows`, `OutputFlows`
(liveness). The last three except a relay that is stuck in its write to the
command (`Stuck`): `write_all_fd` waits for a command that does not read, and the
command may wait for a relay that does not read.

Weakly fair are the relay, its 250 ms deadline and the steps of the child before
it is the command: processes that can go on do. Nothing is asked of the command or
the user. Of the outside two things are assumed: a FUSE daemon that has mounted
answers until it dies (the `stat` at `sandbox.rs:84` is outside the ten seconds of
`SetupEnds`, and would wait for one that does not), and the user's terminal takes
what the relay writes (`write_all_fd` to stdout at `sandbox.rs:395` has no limit
either; `RunEnds`, `SizeFollows` and `OutputFlows` rest on it).

Seen while modelling: a SIGWINCH that arrives in `poll`, where the relay spends
its time, makes it return EINTR, which `SA_RESTART` does not prevent
(`sandbox.rs:336,363`): the run ends and the command goes on without a relay
(`ResizeInPoll`). Typing before the command has opened its terminal ends the run
with EIO (`WriteHungUp`). `plan/modules/cli/run.md:260` has the relay strip OSC
sequences; `sandbox.rs:412` passes them on. `plan/modules/fuse/mount.md:5` has the
parent unmount FUSE; nobody does.

### Policy

`classify` and `should_log` as operators over paths as sequences of names and
lists as sets of matched texts. There is no state and no run; its theorems are
in `SandboxProofs`.

### Inodes

The three shared variables are the table's two maps and its counter; `pc` says
where a worker thread is in `get_or_insert`, which takes a step for each access:
`ProbeHit` or `ProbeMiss`, `Mint`, and `Store` twice. The handlers differ in the
paths they ask numbers for (`Lookup`, `LookupParent` for `..`, `Mkdir`, `Getattr`,
`Readdir`) and in what the kernel learns from the reply: `known` holds the numbers
it was told, and every request starts from one of them. Paths are sequences of
names. Whether a path exists is left open (`NotFound`). Rename does not touch the
table; what its old path then means is left to the composition with files.

`KnownResolve` (a number the kernel was told leads to a path, also while another
thread is between the two insertions), `AnswersMatch`, `NumbersKeepPaths`, and
`OneNumberPerThread`: `plan/modules/fuse/inode.md:16` says that one path has one
number; the code gives one to each thread that misses the path at the same time,
and none after that.

## Runs

| Run | Instance | Shows |
|---|---|---|
| `lifecycle` | 3 runs, 3 possible daemons, 1 fault of any kind, 1 probe | safety of the protocol and `GateSpec` |
| `lifecycle_live` | 2 runs, start faults | lock requests, shutdowns and waits end |
| `one_daemon` | 2 runs | two daemons of one sandbox at a time |
| `client_pool` | 5 threads, 3 clients | accounting, wake-ups, cause of a gridlock |
| `cow_serial` | 3 threads, 2 objects, no overlap; copies, requests and runs fail | refinement of `OverlayFile` |
| `cow_overlap` | 2 threads, 3 objects, faults | what survives every interleaving |
| `cow_race` | 2 writers | a write is undone by another's copy-up |
| `inodes` | 2 threads, 3 paths, 4 new numbers | numbers resolve, keep their paths, and are few |
| `sync_server` | paths a, a/x, b, b/x; 2 objects, 2 daemons, 3 requests, whiteouts | tree, ids and listing over requests, saves that they meet, and crashes |
| `namespace` | paths d, d/x, d/x/x, e, e/x, e/x/x; 6 hosts, 2 modes, 5 changes | a run sees an ordinary file system, but for the names in `astray` |
| `setup` | 2 runs, 1 process of init, clean or purge | they agree on one segment and one sandbox |
| `sandbox` | 1 run, 2 chunks each way through buffers of 1, 1 resize, any fault | confinement, outcome, and that all of it ends |

Why the bounds are enough. Three runs allow one that leaves, one that waits and
one that starts while an old daemon goes down; one fault is what the code claims
to handle at a time. Five threads on three clients give every mix of first and
second checkouts with two left to sleep. Two overlapping threads produce every
pairwise race on the map; the third object lets a path be removed and made again
twice. Two threads and two names give every race on one path and between a
directory and an entry of it; four new numbers are more than the bound of two per
path. Three requests make a file, move it and touch it again, before, during or
after a save, and in the second daemon. A save begins only if the requests and starts
before it are no more than `MaxSaved` (4: any save of the first daemon, and of the
second unless all three requests came before), and a request meets a save only if
they are no more than `MaxMeanwhile` (2: one request before it in the first daemon,
none in the second). Without the two bounds the run takes many million states; the
theorems hold for any values of them. Five changes suffice for each way into `astray` and for a step after
it. Two runs and one cleaner give every pair of processes that meet in
`.sandbox`, and a third beside a pair.
Bounds are constants (`MaxFaults`, `MaxProbes`, `MaxObjects`, `MaxStarts`,
`MaxRequests`, `MaxSaved`, `MaxMeanwhile`, `MaxDepth`, `MaxIno`, `MaxOps`, `MaxKeys`, `MaxOutput`, `MaxResize`,
`Wrap`, `Paths`) and stand in guards. `CHECK_DEADLOCK FALSE` is given
where the system may stop: runs are finite in number and an idle daemon sleeps,
object ids are bounded, a torn file stops a sandbox. Symmetry is over threads
or directories, never in a run with liveness.

## Findings

* `one_daemon`: a daemon that was told to shut down goes on after it lets go of
  the mutex, next to its successor, and removes the successor's socket
  (`plan/overview.md:146`).
* `cow_race`: two first writers of one file (`plan/overview.md:18`); the copy that
  undoes a write is the second one, after publication, where
  `plan/modules/fuse/fs.md:77` wants the copy before it.

Without a run of their own: the shutdown poll runs only after an accept, so the
last run to leave wakes nobody (`plan/overview.md:154`, `server.rs:237`); nested
checkouts can stop all FUSE threads; what the sections on SyncServer, Namespace,
Setup and Sandbox name. Also: rename replies do not drop the kernel's number,
so for the second that a name is cached an open goes to the old path; the size
recorded for a file is not updated by writes; and the POSIX locks of all processes
in one sandbox belong to the one FUSE process, so they do not exclude one another.

Details and quotations are in `PROJECT.json`.

## Proofs

The proof modules are hierarchical, one step per action.

**LifecycleProofs.** For every finite set of runs, all bounds and all kinds of
faults: `LeaseInvariant` proves `LeaseInv`, which is `TypeOK`, `CountIsLeases` and
`LockHolder` together; the count alone is not inductive, because who may change
it follows from who holds the mutex. On it stand `ServeInvariant` (`ReadyCorrect`,
`ClientsCorrect`: flag, connected runs and the serving daemon), `FlushCorrect`,
the action property `ReadyStays`, and `GateImplemented`, the refinement of
`SessionGate` step by step. Cardinalities are handled by the library's theorems
on finite sets. Assumed: the constants' named assumptions only (runs are finite,
`None` is no run, the bounds are naturals).

**FuseProofs.** *ClientPool*, for every finite set of threads and any limit above
0: `PoolInvariant` proves `TypeOK`, where threads stand and what they hold
(`HoldsByPlace`), `Accounting` and `NoLostWakeup` together. The last needs the
first two: a sleeper is owed a wake-up exactly when some counted client is
neither held nor on its way. From it follow `TypeCorrect`, `GridlockCause` and
`FewThreadsNeverStuck`.

*Namespace*, for paths of any names and depth, any hosts and any number of
operations: `ShowsFiles` and `ListedIsFound` follow from one invariant, `FsInv`.
Neither is inductive, because a removal or a rename of a directory reaches what
the path tree has below it, and not what is shown there. So `FsInv` says of each
name that is not astray (`Fine`), besides what is shown: a name with a file has
directories above it; an entry that the tree has lost is a whiteout where the
host has nothing; and where the host's file shines through, no directory above has
an entry, so that none of them can be renamed. `Rooted` says that what the kernel
remembers is below directories it remembers; `StoreOK` that the daemon's tree is
exact and that each object belongs to one path and was allocated. Each handler is
then taken through four cases: a name is at the path, elsewhere, below a removed
directory, or came along with a moved one. Assumed: paths are sequences of `Names`
and closed under parents, what the host has lies below directories of the host,
the modes are the two that have entries, and `Nil` is no dentry. `Fits`, the bound
on renames, is a guard of the model.

**InodesProofs.** For any finite, non-empty set of threads, any names, depth and
number of inodes: `TypeCorrect` needs that paths are closed under parent and
child. `TableInvariant` follows a number from the counter (`Fresh`: in no map, and
of one thread) through the first insertion (`Leads`) to the second (`Consistent`),
and gives `KnownAlwaysResolve`, `AnswersAlwaysMatch` and `PathsKept`.
`NumbersBounded` counts: the numbers of a path and the threads that will make
another one are together no more than the threads (`Spare`); a thread that misses
the path may be added because, until the path is in the second map, each of its
numbers belongs to a thread that is still storing it.

**SandboxProofs.** *Sandbox*, for all bounds and all kinds of faults. `Prepared` follows the
child step by step: what each step prepares is still there at all later ones, the
FUSE file system is mounted before it is bound, and /tmp is shown by it until the
tmpfs covers it. `CommandConfined` alone is not inductive, since it says nothing
before the command; with `Prepared` it is `AlwaysConfined`. `Reported` relates
what the relay has learned of the child to the child's status, the deadline and
the user's input: the exit code is learned exactly by the reap, which closes the
input, so a write to the terminal never meets a known code. That gives
`OutcomeCorrect`. `TypeCorrect` needs more than types: that chunks are conserved
(what is typed and what waits in the buffer is no more than was ever typed), and
that input which `poll` reported is still there when it is read (`Readable`). Of
the constants nothing is assumed beyond `Sandbox`'s own assumptions.

*Policy*, for all names, roots, working directories and lists: `LoggedIffCopied`
(`classify` and `should_log`, which go through the lists separately, agree),
`SandboxHidden` (the sandbox's own files are neither shown nor logged unless the
user lists `.sandbox`), `PassthroughAsked` and `BlacklistWins`.

**SetupProofs.** For every finite set of runs and any cleaners, with fewer runs than
the `AtomicU32` count can tell apart (`WrapAssumption`). Each property needs to know
where the processes stand: `Base` is the type, who may be at which step (`Roles`)
and that a process has mapped only a segment that was made (`Mapped`). On it stand
* `CountInv`, for `CountKept`: of each segment, also of one that has no layout yet,
  where the count is still to be written and only `early` runs may be in it;
* `NamesFresh`: a process that has not drawn the name of its segment yet will draw
  one that is neither in the metadata, in `/dev/shm`, nor in a daemon's memory;
* `SoloInv`, for `CleanRestores`: what a clean that nobody meets has found and made
  at each of its steps, whatever a killed one left behind;
* `CalmInv`, for `RunsAgree` and `NothingLeaks`: while no clean, crash or purge has met
  another process, at most one process works on the sandbox, what that one has left
  of it at each step, and that all runs in flight hold the segment which the
  metadata names.

**CowFileProofs.** For any set of threads, any operations and number of objects.
With overlap: `StoreInv` is the type of the state, `ObjectsAllocated`, and that a
thread which publishes, copies or writes has an object (`HasObject`); the last
says where each thread got its handle, and without it `HostFileUntouched` is not
inductive. From it follow `AlwaysAllocated`, `HostNeverWritten` and, over the
decision tables, `AlwaysAgree`. Without overlap (`~Overlap`, assumed by these
theorems only): `SerialInv` adds what the one thread in an operation knows of the
path (`Knows`): that a path it is about to create is gone, that a copy it is about
to fill shows the host's content and that one it has begun to fill is empty, that
its new object is its own. It gives `NeverUnmasks` (what each caller of `DeleteWhiteout` knows excludes a
whiteout), and with it each step, the
failing ones included, is one of `OverlayFile` or a stutter
(`OverlayImplemented`; `FaultsStutter`, `CopyHidden` and `WhiteoutSettles` are the
steps that fail). `ThreadsAssumption` keeps the names of threads, which stand for
what they wrote, apart from the mark of a path without a file. What two
overlapping writers do to each other is the finding of `cow_race`, so no
refinement can hold of it.

**PathTreeProofs.** Lemmas on the operators of `PathTree`, for paths of any names
and depth. "The tree of a set of paths" has one row for each member and each of
its ancestors, and the two indexes beside it say the same; inserting a path adds
the path and its ancestors to the set, removing takes away all at or below it,
renaming moves them. They rest on `AncestorTransitive` and `MovedIs`; that moving
back undoes a move (`MovedBack`) is what keeps the entries of `RenameTree` apart.
A tree that a walk has torn is the tree of no set of paths. `IsTreeBut` says the same
of all paths but some, and each operator is shown to keep it with the same
exceptions (`InsertAllBut`, `RemoveBut`, `RenameBut`): what the subtree of a torn tree
lacks is only what was torn (`SubtreeBut`).

**SyncServerProofs.** For any paths and any bounds. `TreeAlwaysExact` rests on
`TreeInv`. What the walk has gathered so far is neither the tree of before nor of now,
so the invariant speaks of each ancestor that has been read: of every path that is not
in `frayed.saving`, the rows gathered with that ancestor are those the tree has now
(`Walked`, by `Gathered`); once none is unread, they are the rows of a tree but for
the torn paths, and `FromRows` and `FromPaths` make such trees. `SavedInv` says the
same of the rows and of the snapshot of the map, path by path and but for the
`changed`, and with `TreeInv` gives `AlwaysSavedAsListed`.

`ObjectsUnshared` is not inductive: that what a restart loads is unshared depends on
what is being saved. `ObjectInv` adds that the snapshot is unshared too; `Followed`,
which relates the half-read snapshot to the map (an object read already and not
stirred was there when the next id was read, and has not moved); and `Behind`, which
orders the counters: the ids in `data.bin` are below the next id in memory and below
the one about to be written, which is why `metadata.bin` must be written before
`data.bin`. From it follows `NeverShared`, across any crash and restart.
`ListedAlwaysStays` proves the action property `ListedStays`: every request leaves a
listed file listed where it was or, for a file that a rename took along, where it
went (`Stays`), because the objects that are not `stirred` have one path before and
after (`Followable`) and the paths of the tree change by exactly what the request
names, but for those that were torn. Assumed: paths are sequences of `Names`, not
empty, and with each path its ancestors are there.

Every invariant and action property that a passing run checks is proved, and so are
both refinements. Only model-checked are the liveness properties: `EntryGranted`, `ShutdownEnds` and
`WaitEndsUnlessStartFailed` of `Lifecycle`, `SetupEnds`, `RunEnds`, `SizeFollows` and
`OutputFlows` of `Sandbox`. Liveness under fairness, `ENABLED`, and induction over data
are outside what the prover can do; the models avoid recursion so that the rest stays
open to proof.

## Not modelled, and the plan

Next, in this order:

1. `RenameTree` and `EnsureFileObject` in steps on two paths, and the path tree's
   requests row by row: what holds of aliases and of torn paths then.
2. Metadata: `setattr` as read, change and write back; truncation by path.
3. `ClientPool` with connections that break, and with the framing of requests.
4. File locks: the shards of the table of open files.

Left out for good: the contents of the system-call filter (a table that the
kernel interprets), attribute conversion, logging, parsing of the configuration.
They keep no state that another actor sees.
