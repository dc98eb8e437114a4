----------------------------- MODULE Lifecycle -----------------------------
(***************************************************************************)
(* The life of a sandbox session: several `cas run` processes share one    *)
(* shared-memory segment (a process-shared mutex, running_count and        *)
(* socket_ready), and the first of them forks the syncing daemon.          *)
(*                                                                         *)
(*   src/cli/run.rs         prepare, enter, wait, leave, the daemon's poll *)
(*   src/shm/mutex.rs       what happens under the mutex                   *)
(*   src/syncing/server.rs  fork_and_run, run_async, the two flushes       *)
(*                                                                         *)
(* A run forks at most one daemon, so daemon r is the one run r forked.    *)
(* A step taken wholly under the mutex is one action, enabled when the     *)
(* mutex is free; only the two long critical sections (starting the daemon *)
(* and the flush of a shutdown) keep the mutex over several actions.       *)
(***************************************************************************)
EXTENDS Naturals, FiniteSets

CONSTANTS
    Runs,        \* the `cas run` processes
    None,        \* no run, no daemon; as a queued connection: a `cas clean`
    FaultKinds,  \* the faults the environment may inject
    MaxFaults,   \* bound on the faults of one behaviour
    MaxProbes    \* bound on the connections `cas clean` opens

Faults == {"fork", "bind", "timeout", "killRun", "killDaemon", "linger"}

ASSUME RunsAssumption == IsFiniteSet(Runs)
ASSUME NoneAssumption == None \notin Runs
ASSUME FaultAssumption == FaultKinds \subseteq Faults
ASSUME BoundAssumption == MaxFaults \in Nat /\ MaxProbes \in Nat

VARIABLES
    mutex,          \* who holds the process-shared mutex
    running_count,  \* leases counted in shared memory
    socket_ready,   \* the flag the waiting runs read
    pc,             \* where each run is
    dstate,         \* where each daemon is
    signalled,      \* daemons that wrote their ready byte
    sock,           \* the daemon whose listener daemon.sock names
    queue,          \* connections made and not yet accepted, per daemon
    clients,        \* runs whose connection a daemon has accepted
    mem,            \* the updates in a daemon's memory
    snap,           \* the copy a daemon is writing out
    disk,           \* the updates in .sandbox/data when it was last whole
    torn,           \* its files are truncated and not yet written
    faults, probes  \* how much of the bounds is used up

shm     == <<mutex, running_count, socket_ready>>
data    == <<mem, snap, disk, torn>>
network == <<sock, queue, clients>>
bounds  == <<faults, probes>>
vars    == <<shm, pc, dstate, signalled, network, data, bounds>>

Free         == [by |-> "none", id |-> None]
RunLock(r)   == [by |-> "run", id |-> r]
DaemonLock(d) == [by |-> "daemon", id |-> d]

RunStates == {"idle", "prepared", "refused", "starting", "waiting", "inside",
              "rollback", "failed", "done", "killed"}
DaemonStates == {"none", "loading", "binding", "serving", "accepted",
                 "flushing", "draining", "rewriting", "exited", "killed"}

\* The states in which a run holds a lease on running_count.  A killed run
\* never gives its lease back: nothing runs its drop guard.
LeaseStates == {"starting", "waiting", "inside", "rollback", "killed"}
Leased      == {r \in Runs : pc[r] \in LeaseStates}

\* A daemon in its accept loop, and one whose listener is open.
Serving   == {d \in Runs : dstate[d] \in {"serving", "accepted"}}
Listening == {d \in Runs : dstate[d] \in {"serving", "accepted", "flushing",
                                          "draining", "rewriting"}}
Gone      == {d \in Runs : dstate[d] \in {"exited", "killed"}}
Alive     == {d \in Runs : dstate[d] # "none"} \ Gone

Fault(kind) == /\ kind \in FaultKinds
               /\ faults < MaxFaults
               /\ faults' = faults + 1
               /\ UNCHANGED probes

Init ==
    /\ mutex = Free /\ running_count = 0 /\ socket_ready = FALSE
    /\ pc = [r \in Runs |-> "idle"]
    /\ dstate = [d \in Runs |-> "none"]
    /\ signalled = {}
    /\ sock = None
    /\ queue = [d \in Runs |-> {}]
    /\ clients = [d \in Runs |-> {}]
    /\ mem = [d \in Runs |-> {}]
    /\ snap = [d \in Runs |-> {}]
    /\ disk = {} /\ torn = FALSE
    /\ faults = 0 /\ probes = 0

-----------------------------------------------------------------------------
(* The `cas run` process.                                                  *)

\* prepare_context loads the metadata before anything is locked, and the run
\* ends with an error if the files do not parse.
Prepare(r) ==
    /\ pc[r] = "idle"
    /\ pc' = [pc EXCEPT ![r] = IF torn THEN "refused" ELSE "prepared"]
    /\ UNCHANGED <<shm, dstate, signalled, network, data, bounds>>

\* enter_run_lifecycle when the count was zero: fork the daemon and keep the
\* mutex until it reports.
EnterFirst(r) ==
    /\ pc[r] = "prepared" /\ mutex = Free /\ running_count = 0
    /\ running_count' = running_count + 1
    /\ socket_ready' = FALSE
    /\ mutex' = RunLock(r)
    /\ pc' = [pc EXCEPT ![r] = "starting"]
    /\ dstate' = [dstate EXCEPT ![r] = "loading"]
    /\ UNCHANGED <<signalled, network, data, bounds>>

\* The same when fork fails: the guard is dropped with the unused closure.
EnterForkFails(r) ==
    /\ pc[r] = "prepared" /\ mutex = Free /\ running_count = 0
    /\ Fault("fork")
    /\ running_count' = running_count + 1
    /\ socket_ready' = FALSE
    /\ pc' = [pc EXCEPT ![r] = "rollback"]
    /\ UNCHANGED <<mutex, dstate, signalled, network, data>>

\* Faulty: set_socket_ready(false) outside the test of the previous count.
EnterLaterClears(r) ==
    /\ pc[r] = "prepared" /\ mutex = Free /\ running_count > 0
    /\ running_count' = running_count + 1
    /\ socket_ready' = FALSE
    /\ pc' = [pc EXCEPT ![r] = "waiting"]
    /\ UNCHANGED <<mutex, dstate, signalled, network, data, bounds>>

\* The same when the count was not zero: another run has started the daemon.
EnterLater(r) ==
    /\ pc[r] = "prepared" /\ mutex = Free /\ running_count > 0
    /\ running_count' = running_count + 1
    /\ pc' = [pc EXCEPT ![r] = "waiting"]
    /\ UNCHANGED <<mutex, socket_ready, dstate, signalled, network, data, bounds>>

\* Faulty: on_ready only drops the guard.
StartCommittedSilent(r) ==
    /\ pc[r] = "starting" /\ r \in signalled
    /\ mutex' = Free
    /\ pc' = [pc EXCEPT ![r] = "waiting"]
    /\ UNCHANGED <<running_count, socket_ready, dstate, signalled, network,
                   data, bounds>>

\* fork_and_run reads the ready byte and calls on_ready, which owns the guard.
StartCommitted(r) ==
    /\ pc[r] = "starting" /\ r \in signalled
    /\ socket_ready' = TRUE
    /\ mutex' = Free
    /\ pc' = [pc EXCEPT ![r] = "waiting"]
    /\ UNCHANGED <<running_count, dstate, signalled, network, data, bounds>>

\* Faulty: the guard is forgotten (ShmGuard::disarm) when the start fails.
StartFailedLocked(r) ==
    /\ pc[r] = "starting" /\ r \in Gone
    /\ pc' = [pc EXCEPT ![r] = "rollback"]
    /\ UNCHANGED <<shm, dstate, signalled, network, data, bounds>>

\* fork_and_run sees the child gone: the guard is dropped, and so unlocked,
\* before the lease is.  The byte may have arrived after the last read.
StartFailed(r) ==
    /\ pc[r] = "starting" /\ r \in Gone
    /\ mutex' = Free
    /\ pc' = [pc EXCEPT ![r] = "rollback"]
    /\ UNCHANGED <<running_count, socket_ready, dstate, signalled, network,
                   data, bounds>>

\* Faulty: the same on the timeout path.
StartTimeoutLocked(r) ==
    /\ pc[r] = "starting" /\ r \in Alive
    /\ Fault("timeout")
    /\ pc' = [pc EXCEPT ![r] = "rollback"]
    /\ UNCHANGED <<shm, dstate, signalled, network, data>>

\* READY_TIMEOUT passes: the same, but the child is left alone.
StartTimeout(r) ==
    /\ pc[r] = "starting" /\ r \in Alive
    /\ Fault("timeout")
    /\ mutex' = Free
    /\ pc' = [pc EXCEPT ![r] = "rollback"]
    /\ UNCHANGED <<running_count, socket_ready, dstate, signalled, network, data>>

\* Faulty: the lease and leave_run_lifecycle both decrement (no disarm).
DecrementTwice == running_count' = running_count - 2

Decrement == running_count' = running_count - 1

\* Faulty: an error return without the drop guard.
RollbackLeaks(r) ==
    /\ pc[r] = "rollback" /\ mutex = Free
    /\ pc' = [pc EXCEPT ![r] = "failed"]
    /\ UNCHANGED <<shm, dstate, signalled, network, data, bounds>>

\* RunningCountLease::drop.
Rollback(r) ==
    /\ pc[r] = "rollback" /\ mutex = Free
    /\ Decrement
    /\ pc' = [pc EXCEPT ![r] = "failed"]
    /\ UNCHANGED <<mutex, socket_ready, dstate, signalled, network, data, bounds>>

\* A round of wait_for_daemon_ready that reads the flag set.  A round that
\* reads it clear changes nothing, and there is no bound on their number.
Admit(r) ==
    /\ pc[r] = "waiting" /\ mutex = Free /\ socket_ready
    /\ pc' = [pc EXCEPT ![r] = "inside"]
    /\ UNCHANGED <<shm, dstate, signalled, network, data, bounds>>

\* The FUSE process of a run opens a pooled connection, as often as it likes.
Connect(r) ==
    /\ pc[r] = "inside"
    /\ sock \in Listening /\ r \notin queue[sock]
    /\ queue' = [queue EXCEPT ![sock] = @ \cup {r}]
    /\ UNCHANGED <<shm, pc, dstate, signalled, sock, clients, data, bounds>>

\* One update request of run r served by daemon d, reply included.
Write(r, d) ==
    /\ pc[r] = "inside"
    /\ r \in clients[d] /\ d \in Listening
    /\ mem' = [mem EXCEPT ![d] = @ \cup {r}]
    /\ UNCHANGED <<shm, pc, dstate, signalled, network, snap, disk, torn, bounds>>

\* The same for a process the command left behind: the lease is gone, the
\* FUSE process and its connections are not.
WriteAfterLeave(r, d) ==
    /\ pc[r] = "done"
    /\ r \in clients[d] /\ d \in Listening /\ r \notin mem[d]
    /\ Fault("linger")
    /\ mem' = [mem EXCEPT ![d] = @ \cup {r}]
    /\ UNCHANGED <<shm, pc, dstate, signalled, network, snap, disk, torn>>

\* leave_run_lifecycle; an error of run_in_sandbox drops the lease instead,
\* which does the same to the shared memory.
Leave(r) ==
    /\ pc[r] = "inside" /\ mutex = Free
    /\ Decrement
    /\ pc' = [pc EXCEPT ![r] = "done"]
    /\ UNCHANGED <<mutex, socket_ready, dstate, signalled, network, data, bounds>>

\* SIGKILL: the lease leaks, and the mutex too if the run holds it.
KillRun(r) ==
    /\ pc[r] \in LeaseStates \ {"killed"}
    /\ Fault("killRun")
    /\ pc' = [pc EXCEPT ![r] = "killed"]
    /\ UNCHANGED <<shm, dstate, signalled, network, data>>

-----------------------------------------------------------------------------
(* The syncing daemon.                                                     *)

\* build_server_state: load the metadata or exit(1).
Load(d) ==
    /\ dstate[d] = "loading"
    /\ IF torn
         THEN /\ dstate' = [dstate EXCEPT ![d] = "exited"]
              /\ UNCHANGED mem
         ELSE /\ dstate' = [dstate EXCEPT ![d] = "binding"]
              /\ mem' = [mem EXCEPT ![d] = disk]
    /\ UNCHANGED <<shm, pc, signalled, network, snap, disk, torn, bounds>>

\* bind_listener_async takes the name over from whoever had it; ready().
Bind(d) ==
    /\ dstate[d] = "binding"
    /\ sock' = d
    /\ signalled' = signalled \cup {d}
    /\ dstate' = [dstate EXCEPT ![d] = "serving"]
    /\ UNCHANGED <<shm, pc, queue, clients, data, bounds>>

BindFails(d) ==
    /\ dstate[d] = "binding"
    /\ Fault("bind")
    /\ dstate' = [dstate EXCEPT ![d] = "exited"]
    /\ UNCHANGED <<shm, pc, signalled, network, data>>

\* listener.accept(): only after it does the loop poll for shutdown.
Accept(d) ==
    /\ dstate[d] = "serving"
    /\ \E c \in queue[d] :
         /\ queue' = [queue EXCEPT ![d] = @ \ {c}]
         /\ clients' = [clients EXCEPT ![d] = @ \cup ({c} \ {None})]
    /\ dstate' = [dstate EXCEPT ![d] = "accepted"]
    /\ UNCHANGED <<shm, pc, signalled, sock, data, bounds>>

\* poll_shutdown less than SHUTDOWN_POLL_INTERVAL after the last check.
PollSkip(d) ==
    /\ dstate[d] = "accepted"
    /\ dstate' = [dstate EXCEPT ![d] = "serving"]
    /\ UNCHANGED <<shm, pc, signalled, network, data, bounds>>

\* poll_shutdown with runs about.
PollBusy(d) ==
    /\ dstate[d] = "accepted" /\ mutex = Free /\ running_count # 0
    /\ dstate' = [dstate EXCEPT ![d] = "serving"]
    /\ UNCHANGED <<shm, pc, signalled, network, data, bounds>>

\* snapshot_state, then disk::flush truncates the files.
BeginFlush(d) ==
    /\ snap' = [snap EXCEPT ![d] = mem[d]]
    /\ torn' = TRUE
    /\ UNCHANGED <<mem, disk>>

\* The files are written and daemon.sock is removed, whosever it is.
EndFlush(d) ==
    /\ disk' = snap[d] /\ torn' = FALSE
    /\ sock' = None
    /\ UNCHANGED <<mem, snap, queue, clients>>

\* Faulty: the poll does not look at the count.
PollShutdownAnyCount(d) ==
    /\ dstate[d] = "accepted" /\ mutex = Free
    /\ mutex' = DaemonLock(d)
    /\ socket_ready' = FALSE
    /\ dstate' = [dstate EXCEPT ![d] = "flushing"]
    /\ BeginFlush(d)
    /\ UNCHANGED <<running_count, pc, signalled, network, bounds>>

\* Faulty: the poll takes the last run for none.
PollShutdownLastRun(d) ==
    /\ dstate[d] = "accepted" /\ mutex = Free /\ running_count <= 1
    /\ mutex' = DaemonLock(d)
    /\ socket_ready' = FALSE
    /\ dstate' = [dstate EXCEPT ![d] = "flushing"]
    /\ BeginFlush(d)
    /\ UNCHANGED <<running_count, pc, signalled, network, bounds>>

\* Faulty: the flag is left set.
PollShutdownKeepsReady(d) ==
    /\ dstate[d] = "accepted" /\ mutex = Free /\ running_count = 0
    /\ mutex' = DaemonLock(d)
    /\ dstate' = [dstate EXCEPT ![d] = "flushing"]
    /\ BeginFlush(d)
    /\ UNCHANGED <<running_count, socket_ready, pc, signalled, network, bounds>>

\* poll_shutdown with no run about: the flush starts under the mutex.
PollShutdown(d) ==
    /\ dstate[d] = "accepted" /\ mutex = Free /\ running_count = 0
    /\ mutex' = DaemonLock(d)
    /\ socket_ready' = FALSE
    /\ dstate' = [dstate EXCEPT ![d] = "flushing"]
    /\ BeginFlush(d)
    /\ UNCHANGED <<running_count, pc, signalled, network, bounds>>

\* Faulty: the loop goes on after the flush.
ShutdownFlushedStays(d) ==
    /\ dstate[d] = "flushing"
    /\ EndFlush(d)
    /\ mutex' = Free
    /\ dstate' = [dstate EXCEPT ![d] = "serving"]
    /\ UNCHANGED <<running_count, socket_ready, pc, signalled, bounds>>

\* on_shutdown returns and the guard is dropped.
ShutdownFlushed(d) ==
    /\ dstate[d] = "flushing"
    /\ EndFlush(d)
    /\ mutex' = Free
    /\ dstate' = [dstate EXCEPT ![d] = "draining"]
    /\ UNCHANGED <<running_count, socket_ready, pc, signalled, bounds>>

\* After the 100 ms sleep run_async flushes once more, without the mutex.
FinalFlush(d) ==
    /\ dstate[d] = "draining"
    /\ dstate' = [dstate EXCEPT ![d] = "rewriting"]
    /\ BeginFlush(d)
    /\ UNCHANGED <<shm, pc, signalled, network, bounds>>

Exit(d) ==
    /\ dstate[d] = "rewriting"
    /\ EndFlush(d)
    /\ dstate' = [dstate EXCEPT ![d] = "exited"]
    /\ UNCHANGED <<shm, pc, signalled, bounds>>

\* SIGKILL: a torn file stays torn, and a held mutex stays held.
KillDaemon(d) ==
    /\ d \in Alive
    /\ Fault("killDaemon")
    /\ dstate' = [dstate EXCEPT ![d] = "killed"]
    /\ UNCHANGED <<shm, pc, signalled, network, data>>

-----------------------------------------------------------------------------
\* is_daemon_running of `cas clean`: connect, and hang up at once.
Probe ==
    /\ probes < MaxProbes
    /\ sock \in Listening
    /\ queue' = [queue EXCEPT ![sock] = @ \cup {None}]
    /\ probes' = probes + 1
    /\ UNCHANGED <<shm, pc, dstate, signalled, sock, clients, data, faults>>

RunStep(r) ==
    \/ Prepare(r) \/ EnterFirst(r) \/ EnterForkFails(r) \/ EnterLater(r)
    \/ StartCommitted(r) \/ StartFailed(r) \/ StartTimeout(r) \/ Rollback(r)
    \/ Admit(r) \/ Connect(r) \/ Leave(r) \/ KillRun(r)
    \/ \E d \in Runs : Write(r, d) \/ WriteAfterLeave(r, d)

DaemonStep(d) ==
    \/ Load(d) \/ Bind(d) \/ BindFails(d) \/ Accept(d)
    \/ PollSkip(d) \/ PollBusy(d) \/ PollShutdown(d)
    \/ ShutdownFlushed(d) \/ FinalFlush(d) \/ Exit(d) \/ KillDaemon(d)

Next == Probe \/ \E r \in Runs : RunStep(r) \/ DaemonStep(r)

Spec == Init /\ [][Next]_vars

\* The scheduler runs every process that can run.  Nothing obliges a user to
\* start a run, a command to end, or a FUSE process to open a connection.
Fairness ==
    \A r \in Runs :
      /\ WF_vars(EnterFirst(r) \/ EnterLater(r))
      /\ WF_vars(StartCommitted(r) \/ StartFailed(r))
      /\ WF_vars(Rollback(r))
      /\ WF_vars(Admit(r))
      /\ WF_vars(Load(r) \/ Bind(r))
      /\ WF_vars(Accept(r))
      /\ WF_vars(PollSkip(r) \/ PollBusy(r) \/ PollShutdown(r))
      /\ WF_vars(ShutdownFlushed(r) \/ FinalFlush(r) \/ Exit(r))

FairSpec == Spec /\ Fairness

-----------------------------------------------------------------------------
TypeOK ==
    /\ mutex \in [by : {"none", "run", "daemon"}, id : Runs \cup {None}]
    /\ running_count \in Nat /\ socket_ready \in BOOLEAN
    /\ pc \in [Runs -> RunStates]
    /\ dstate \in [Runs -> DaemonStates]
    /\ signalled \subseteq Runs
    /\ sock \in Runs \cup {None}
    /\ queue \in [Runs -> SUBSET (Runs \cup {None})]
    /\ clients \in [Runs -> SUBSET Runs]
    /\ mem \in [Runs -> SUBSET Runs] /\ snap \in [Runs -> SUBSET Runs]
    /\ disk \subseteq Runs /\ torn \in BOOLEAN
    /\ faults \in 0 .. MaxFaults /\ probes \in 0 .. MaxProbes

\* running_count counts exactly the runs between enter_run_lifecycle and the
\* decrement that ends it, on the error paths too: it cannot leak, and it
\* cannot go below zero and wrap (run.rs:68-77,169-199).
CountIsLeases == running_count = Cardinality(Leased)

\* A mutex held across actions belongs to a run that is starting a daemon or
\* to a daemon that is flushing, and each of these does hold it, so no two of
\* them overlap; a killed holder keeps it (run.rs:104-117,170-189).
LockHolder ==
    /\ \A r \in Runs : /\ mutex = RunLock(r) => pc[r] \in {"starting", "killed"}
                       /\ pc[r] = "starting" => mutex = RunLock(r)
    /\ \A d \in Runs : /\ mutex = DaemonLock(d) => dstate[d] \in {"flushing", "killed"}
                       /\ dstate[d] = "flushing" => mutex = DaemonLock(d)

\* A waiter that reads socket_ready set is let in while some daemon is in its
\* accept loop, or one was killed: failed and timed-out starts and shutdowns
\* never leave the flag set behind them (run.rs:113,178,182).
Killed == {d \in Runs : dstate[d] = "killed"}
ReadyMeansServing == socket_ready => Serving \cup Killed # {}

\* A daemon that a run inside has connected to stays in its accept loop until
\* that run has left, unless it is killed: the poll reads the count under the
\* mutex the runs write it under (run.rs:104-110; plan/overview.md:20 "the
\* daemon exit when all concurrent processes exit").
ClientsServed ==
    \A r, d \in Runs :
        pc[r] = "inside" /\ r \in queue[d] \cup clients[d] => d \in Serving \cup Killed

\* The flush made under the mutex misses no update but of a process that
\* outlives its run: while it writes out the snapshot, no run is inside to
\* make another (run.rs:108-114, server.rs:99-113,183-189).
ShutdownFlushComplete ==
    \A d \in Runs : dstate[d] = "flushing" =>
        mem[d] \ snap[d] \subseteq {r \in Runs : pc[r] = "done"}

\* Nobody clears socket_ready while a run holds a lease, so a waiting run
\* cannot be overtaken by a shutdown (run.rs:108-113,176-178).
ReadyStable == [][socket_ready /\ Leased # {} => socket_ready']_vars

\* A run that asks for the mutex to enter gets it, whatever starts fail or
\* time out before it (run.rs:170; the waits of server.rs:57-81 end).
EntryGranted == \A r \in Runs : pc[r] = "prepared" ~> pc[r] # "prepared"

\* A daemon that begins to shut down finishes (server.rs:258-269).
ShutdownEnds == \A d \in Runs : dstate[d] = "flushing" ~> dstate[d] = "exited"

\* A run waiting for socket_ready is admitted, unless some start has failed.
\* Then it may wait for ever: run.rs:120-134 has no bound, where
\* plan/modules/cli/run.md:88 has one.
WaitEndsUnlessStartFailed ==
    \A r \in Runs :
        pc[r] = "waiting" ~> \/ pc[r] = "inside"
                             \/ \E s \in Runs : pc[s] \in {"rollback", "failed"}

\* The shared memory implements the gate: the flag is the gate, and it is
\* never cleared on a run inside, by a new start or by a shutdown
\* (run.rs:108-113,120-134,176-189).
Gate == INSTANCE SessionGate WITH
            open <- socket_ready, inside <- {r \in Runs : pc[r] = "inside"}
GateSpec == Gate!Spec

-----------------------------------------------------------------------------
(* What the documents say and the code does not do.                        *)

\* "The lock-transfer protocol ensures exactly one syncing daemon runs at a
\* time" (plan/overview.md:146); the code lets a second one be forked while
\* the first has not polled since the count went to zero (server.rs:235-262).
AtMostOneDaemon == Cardinality(Alive) <= 1
=============================================================================
