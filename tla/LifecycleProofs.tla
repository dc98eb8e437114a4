-------------------------- MODULE LifecycleProofs --------------------------
(***************************************************************************)
(* Proofs about Lifecycle for any finite set of runs, any bounds and any   *)
(* faults.                                                                 *)
(***************************************************************************)
EXTENDS Lifecycle, FiniteSetTheorems, TLAPS

\* The part of the invariant that needs no induction of its own: what the
\* mutex, the count and the types have to say about each other.
LeaseInv == TypeOK /\ CountIsLeases /\ LockHolder

\* The assumptions on the constants, and what they say of the mutex values.
LEMMA Constants ==
    /\ IsFiniteSet(Runs) /\ None \notin Runs /\ FaultKinds \subseteq Faults
    /\ MaxFaults \in Nat /\ MaxProbes \in Nat
    /\ \A r \in Runs : Free # RunLock(r) /\ Free # DaemonLock(r)
    /\ \A r, d \in Runs : /\ RunLock(r) # DaemonLock(d)
                          /\ RunLock(r) = RunLock(d) => r = d
                          /\ DaemonLock(r) = DaemonLock(d) => r = d
BY RunsAssumption, NoneAssumption, FaultAssumption, BoundAssumption
   DEF Free, RunLock, DaemonLock

\* A step that gives run r a lease and takes none away.
LEMMA LeaseTaken ==
    ASSUME NEW r \in Runs, TypeOK, CountIsLeases, r \notin Leased,
           running_count' = running_count + 1, Leased' = Leased \cup {r}
    PROVE  CountIsLeases' /\ running_count' \in Nat
<1>1. IsFiniteSet(Leased)
  BY Constants, FS_Subset DEF Leased
<1> QED
  BY <1>1, FS_AddElement, FS_CardinalityType DEF CountIsLeases

\* A step that ends the lease of run r and gives none.
LEMMA LeaseEnded ==
    ASSUME NEW r \in Runs, TypeOK, CountIsLeases, r \in Leased,
           running_count' = running_count - 1, Leased' = Leased \ {r}
    PROVE  CountIsLeases' /\ running_count' \in Nat
<1>1. IsFiniteSet(Leased)
  BY Constants, FS_Subset DEF Leased
<1>2. IsFiniteSet(Leased \ {r}) /\ Cardinality(Leased \ {r}) = Cardinality(Leased) - 1
  BY <1>1, FS_RemoveElement
<1> QED
  BY <1>1, <1>2, FS_CardinalityType DEF CountIsLeases

\* The run that takes the mutex for long was the only one without it.
LEMMA LeaseInit == Init => LeaseInv
<1> SUFFICES ASSUME Init PROVE LeaseInv
  OBVIOUS
<1>1. TypeOK
  <2>1. mutex \in [by : {"none", "run", "daemon"}, id : Runs \cup {None}]
    BY DEF Init, Free
  <2>2. faults \in 0 .. MaxFaults /\ probes \in 0 .. MaxProbes
    BY BoundAssumption DEF Init
  <2>3. pc \in [Runs -> RunStates] /\ dstate \in [Runs -> DaemonStates]
    BY DEF Init, RunStates, DaemonStates
  <2>4. /\ queue \in [Runs -> SUBSET (Runs \cup {None})]
        /\ clients \in [Runs -> SUBSET Runs]
        /\ mem \in [Runs -> SUBSET Runs] /\ snap \in [Runs -> SUBSET Runs]
    BY DEF Init
  <2> QED
    BY <2>1, <2>2, <2>3, <2>4 DEF Init, TypeOK
<1>2. Leased = {}
  BY DEF Init, Leased, LeaseStates
<1>3. CountIsLeases
  BY <1>2, FS_EmptySet DEF Init, CountIsLeases
<1>4. LockHolder
  BY Constants DEF Init, LockHolder
<1> QED
  BY <1>1, <1>3, <1>4 DEF LeaseInv

\* A fault keeps the two counters within their bounds.
LEMMA FaultBounds ==
    ASSUME TypeOK, NEW kind \in Faults, Fault(kind)
    PROVE  faults' \in 0 .. MaxFaults /\ probes' \in 0 .. MaxProbes
BY BoundAssumption DEF TypeOK, Fault

\* Types survive every step, given that the count stays a natural number.
LEMMA TypeNext == TypeOK /\ running_count' \in Nat /\ [Next]_vars => TypeOK'
<1> SUFFICES ASSUME TypeOK, running_count' \in Nat, [Next]_vars PROVE TypeOK'
  OBVIOUS
<1> USE DEF TypeOK, RunStates, DaemonStates, shm, data, network, bounds
<1>1. ASSUME NEW r \in Runs, Prepare(r) PROVE TypeOK'
  BY <1>1 DEF Prepare
<1>2. ASSUME NEW r \in Runs, EnterFirst(r) PROVE TypeOK'
  BY <1>2 DEF EnterFirst, RunLock
<1>3. ASSUME NEW r \in Runs, EnterForkFails(r) PROVE TypeOK'
  <2>1. faults' \in 0 .. MaxFaults /\ probes' \in 0 .. MaxProbes
    BY <1>3, FaultBounds DEF EnterForkFails, Faults
  <2> QED
    BY <1>3, <2>1 DEF EnterForkFails
<1>4. ASSUME NEW r \in Runs, EnterLater(r) PROVE TypeOK'
  BY <1>4 DEF EnterLater
<1>5. ASSUME NEW r \in Runs, StartCommitted(r) PROVE TypeOK'
  BY <1>5 DEF StartCommitted, Free
<1>6. ASSUME NEW r \in Runs, StartFailed(r) PROVE TypeOK'
  BY <1>6 DEF StartFailed, Free
<1>7. ASSUME NEW r \in Runs, StartTimeout(r) PROVE TypeOK'
  BY <1>7, BoundAssumption DEF StartTimeout, Free, Fault
<1>8. ASSUME NEW r \in Runs, Rollback(r) PROVE TypeOK'
  BY <1>8 DEF Rollback
<1>9. ASSUME NEW r \in Runs, Admit(r) PROVE TypeOK'
  BY <1>9 DEF Admit
<1>10. ASSUME NEW r \in Runs, Connect(r) PROVE TypeOK'
  BY <1>10 DEF Connect
<1>11. ASSUME NEW r \in Runs, Leave(r) PROVE TypeOK'
  BY <1>11 DEF Leave
<1>12. ASSUME NEW r \in Runs, KillRun(r) PROVE TypeOK'
  BY <1>12, BoundAssumption DEF KillRun, Fault
<1>13. ASSUME NEW d \in Runs, Load(d) PROVE TypeOK'
  BY <1>13 DEF Load
<1>14. ASSUME NEW d \in Runs, Bind(d) PROVE TypeOK'
  BY <1>14 DEF Bind
<1>15. ASSUME NEW d \in Runs, BindFails(d) PROVE TypeOK'
  BY <1>15, BoundAssumption DEF BindFails, Fault
<1>16. ASSUME NEW d \in Runs, Accept(d) PROVE TypeOK'
  BY <1>16 DEF Accept
<1>17. ASSUME NEW d \in Runs, PollSkip(d) PROVE TypeOK'
  BY <1>17 DEF PollSkip
<1>18. ASSUME NEW d \in Runs, PollBusy(d) PROVE TypeOK'
  BY <1>18 DEF PollBusy
<1>19. ASSUME NEW d \in Runs, PollShutdown(d) PROVE TypeOK'
  BY <1>19 DEF PollShutdown, DaemonLock, BeginFlush
<1>20. ASSUME NEW d \in Runs, ShutdownFlushed(d) PROVE TypeOK'
  BY <1>20 DEF ShutdownFlushed, Free, EndFlush
<1>21. ASSUME NEW d \in Runs, FinalFlush(d) PROVE TypeOK'
  BY <1>21 DEF FinalFlush, BeginFlush
<1>22. ASSUME NEW d \in Runs, Exit(d) PROVE TypeOK'
  BY <1>22 DEF Exit, EndFlush
<1>23. ASSUME NEW d \in Runs, KillDaemon(d) PROVE TypeOK'
  BY <1>23, BoundAssumption DEF KillDaemon, Fault
<1>24. ASSUME NEW r \in Runs, NEW d \in Runs, Write(r, d) PROVE TypeOK'
  BY <1>24 DEF Write
<1>25. ASSUME NEW r \in Runs, NEW d \in Runs, WriteAfterLeave(r, d) PROVE TypeOK'
  BY <1>25, BoundAssumption DEF WriteAfterLeave, Fault
<1>26. CASE Probe
  BY <1>26, BoundAssumption DEF Probe, Listening
<1>27. CASE UNCHANGED vars
  BY <1>27 DEF vars
<1> QED
  BY <1>1, <1>2, <1>3, <1>4, <1>5, <1>6, <1>7, <1>8, <1>9, <1>10, <1>11,
     <1>12, <1>13, <1>14, <1>15, <1>16, <1>17, <1>18, <1>19, <1>20, <1>21,
     <1>22, <1>23, <1>24, <1>25, <1>26, <1>27 DEF Next, RunStep, DaemonStep

\* The count follows the leases through every step.
LEMMA CountNext ==
    TypeOK /\ CountIsLeases /\ [Next]_vars => CountIsLeases' /\ running_count' \in Nat
<1> SUFFICES ASSUME TypeOK, CountIsLeases, [Next]_vars
             PROVE  CountIsLeases' /\ running_count' \in Nat
  OBVIOUS
<1>1. ASSUME UNCHANGED running_count, Leased' = Leased
      PROVE  CountIsLeases' /\ running_count' \in Nat
  BY <1>1 DEF CountIsLeases, TypeOK
<1>2. ASSUME NEW r \in Runs, EnterFirst(r) \/ EnterForkFails(r) \/ EnterLater(r)
      PROVE  CountIsLeases' /\ running_count' \in Nat
  <2>1. r \notin Leased /\ Leased' = Leased \cup {r}
    BY <1>2 DEF EnterFirst, EnterForkFails, EnterLater, Leased, LeaseStates, TypeOK
  <2> QED
    BY <1>2, <2>1, LeaseTaken DEF EnterFirst, EnterForkFails, EnterLater
<1>3. ASSUME NEW r \in Runs, Rollback(r) \/ Leave(r)
      PROVE  CountIsLeases' /\ running_count' \in Nat
  <2>1. r \in Leased /\ Leased' = Leased \ {r}
    BY <1>3 DEF Rollback, Leave, Leased, LeaseStates, TypeOK
  <2> QED
    BY <1>3, <2>1, LeaseEnded DEF Rollback, Leave, Decrement
<1>4. ASSUME NEW r \in Runs,
             \/ Prepare(r) \/ StartCommitted(r) \/ StartFailed(r) \/ StartTimeout(r)
             \/ Admit(r) \/ KillRun(r)
      PROVE  UNCHANGED running_count /\ Leased' = Leased
  BY <1>4 DEF Prepare, StartCommitted, StartFailed, StartTimeout, Admit, KillRun,
              Leased, LeaseStates, TypeOK, shm
<1>5. ASSUME UNCHANGED <<running_count, pc>>
      PROVE  UNCHANGED running_count /\ Leased' = Leased
  BY <1>5 DEF Leased
<1>6. ASSUME NEW r \in Runs, Connect(r) \/ \E d \in Runs : Write(r, d) \/ WriteAfterLeave(r, d)
      PROVE  UNCHANGED <<running_count, pc>>
  BY <1>6 DEF Connect, Write, WriteAfterLeave, shm
<1>7. ASSUME NEW d \in Runs, DaemonStep(d)
      PROVE  UNCHANGED <<running_count, pc>>
  BY <1>7 DEF DaemonStep, Load, Bind, BindFails, Accept, PollSkip, PollBusy, PollShutdown,
              ShutdownFlushed, FinalFlush, Exit, KillDaemon, shm
<1>8. CASE Probe
  BY <1>1, <1>5, <1>8 DEF Probe, shm
<1>9. CASE UNCHANGED vars
  BY <1>1, <1>5, <1>9 DEF vars, shm
<1> QED
  BY <1>1, <1>2, <1>3, <1>4, <1>5, <1>6, <1>7, <1>8, <1>9 DEF Next, RunStep

\* Only starting, its end, a shutdown and its end touch a mutex that is held.
LEMMA HolderNext == LeaseInv /\ [Next]_vars => LockHolder'
<1> SUFFICES ASSUME LeaseInv, [Next]_vars PROVE LockHolder'
  OBVIOUS
<1> USE DEF LeaseInv, TypeOK, LockHolder
<1>1. ASSUME NEW r \in Runs, EnterFirst(r) PROVE LockHolder'
  BY <1>1, Constants DEF EnterFirst
<1>2. ASSUME NEW r \in Runs, StartCommitted(r) \/ StartFailed(r) \/ StartTimeout(r)
      PROVE  LockHolder'
  BY <1>2, Constants DEF StartCommitted, StartFailed, StartTimeout
<1>3. ASSUME NEW r \in Runs,
             \/ Prepare(r) \/ EnterForkFails(r) \/ EnterLater(r) \/ Rollback(r) \/ Admit(r)
             \/ Leave(r) \/ KillRun(r)
      PROVE  LockHolder'
  BY <1>3 DEF Prepare, EnterForkFails, EnterLater, Rollback, Admit, Leave, KillRun,
              LeaseStates, shm
<1>4. ASSUME NEW d \in Runs, PollShutdown(d) PROVE LockHolder'
  BY <1>4, Constants DEF PollShutdown
<1>5. ASSUME NEW d \in Runs, ShutdownFlushed(d) PROVE LockHolder'
  BY <1>5, Constants DEF ShutdownFlushed
<1>6. ASSUME NEW d \in Runs,
             \/ Load(d) \/ Bind(d) \/ BindFails(d) \/ Accept(d) \/ PollSkip(d) \/ PollBusy(d)
             \/ FinalFlush(d) \/ Exit(d) \/ KillDaemon(d)
      PROVE  LockHolder'
  BY <1>6 DEF Load, Bind, BindFails, Accept, PollSkip, PollBusy, FinalFlush, Exit,
              KillDaemon, shm
<1>7. ASSUME UNCHANGED <<mutex, pc, dstate>> PROVE LockHolder'
  BY <1>7
<1>8. ASSUME NEW r \in Runs, Connect(r) \/ \E d \in Runs : Write(r, d) \/ WriteAfterLeave(r, d)
      PROVE  UNCHANGED <<mutex, pc, dstate>>
  BY <1>8 DEF Connect, Write, WriteAfterLeave, shm
<1>9. Probe \/ UNCHANGED vars => UNCHANGED <<mutex, pc, dstate>>
  BY DEF Probe, vars, shm
<1> QED
  BY <1>1, <1>2, <1>3, <1>4, <1>5, <1>6, <1>7, <1>8, <1>9 DEF Next, RunStep, DaemonStep

LEMMA LeaseNext == LeaseInv /\ [Next]_vars => LeaseInv'
BY CountNext, TypeNext, HolderNext DEF LeaseInv

\* The three together are an invariant of the specification.
THEOREM LeaseInvariant == Spec => []LeaseInv
BY LeaseInit, LeaseNext, PTL DEF Spec

\* Every variable keeps its type; the count in shared memory does not wrap
\* (mutex.rs:53-61).
THEOREM TypeCorrect == Spec => []TypeOK
BY LeaseInvariant, PTL DEF LeaseInv

\* The count is the number of leases, whatever fails, times out or is killed
\* (run.rs:68-77,169-199).
THEOREM CountCorrect == Spec => []CountIsLeases
BY LeaseInvariant, PTL DEF LeaseInv

\* A long hold of the mutex is a start or a shutdown (run.rs:104-117,170-189).
THEOREM LockCorrect == Spec => []LockHolder
BY LeaseInvariant, PTL DEF LeaseInv

-----------------------------------------------------------------------------
(* A set flag and a connected run have a daemon to serve them.             *)

\* What ReadyMeansServing and ClientsServed rest on: a daemon that reported
\* keeps serving while its starter holds the mutex, daemon.sock never names
\* one that has flushed, and nobody is about during a flush.
ServeInv ==
    /\ ReadyMeansServing
    /\ ClientsServed
    /\ \A r \in Runs : pc[r] \in {"idle", "prepared", "refused"} => dstate[r] = "none"
    /\ \A d \in signalled : dstate[d] \notin {"none", "loading", "binding"}
    /\ \A r \in Runs : pc[r] = "starting" /\ r \in signalled => r \in Serving \cup Killed
    /\ sock # None => dstate[sock] \in {"serving", "accepted", "flushing", "killed"}
    /\ \A d \in Runs : dstate[d] = "flushing" => running_count = 0
    /\ \A r, d \in Runs :
         r \in queue[d] \cup clients[d] => pc[r] \in {"inside", "done", "killed"}

\* With the count at zero no run holds a lease.
LEMMA ZeroMeansNone == TypeOK /\ CountIsLeases /\ running_count = 0 => Leased = {}
<1>1. IsFiniteSet(Leased)
  BY RunsAssumption, FS_Subset DEF Leased
<1> QED
  BY <1>1, FS_EmptySet DEF CountIsLeases

\* With the mutex free no daemon is being started and none is flushing.
LEMMA FreeMeansQuiet ==
    LeaseInv /\ mutex = Free
      => /\ \A d \in Runs : dstate[d] # "flushing"
         /\ \A r \in Runs : pc[r] # "starting"
BY Constants DEF LeaseInv, LockHolder

LEMMA ServeInit == Init => ServeInv
BY NoneAssumption DEF Init, ServeInv, ReadyMeansServing, ClientsServed

LEMMA ServeNext ==
    ASSUME LeaseInv, ServeInv, [Next]_vars
    PROVE  ServeInv'
<1> USE NoneAssumption DEF LeaseInv, TypeOK, ServeInv, ReadyMeansServing, ClientsServed, Serving, Killed,
        Alive, Gone
<1>1. ASSUME NEW r \in Runs, Prepare(r) PROVE ServeInv'
  BY <1>1 DEF Prepare, shm, network
<1>2. ASSUME NEW r \in Runs, EnterFirst(r) PROVE ServeInv'
  BY <1>2, FreeMeansQuiet DEF EnterFirst, shm, network
<1>3. ASSUME NEW r \in Runs, EnterForkFails(r) PROVE ServeInv'
  BY <1>3, FreeMeansQuiet DEF EnterForkFails, shm, network
<1>4. ASSUME NEW r \in Runs, EnterLater(r) PROVE ServeInv'
  BY <1>4 DEF EnterLater, shm, network
<1>5. ASSUME NEW r \in Runs, StartCommitted(r) PROVE ServeInv'
  BY <1>5 DEF StartCommitted, shm, network
<1>6. ASSUME NEW r \in Runs, StartFailed(r) PROVE ServeInv'
  BY <1>6 DEF StartFailed, shm, network
<1>7. ASSUME NEW r \in Runs, StartTimeout(r) PROVE ServeInv'
  BY <1>7 DEF StartTimeout, shm, network
<1>8. ASSUME NEW r \in Runs, Rollback(r) PROVE ServeInv'
  BY <1>8, FreeMeansQuiet DEF Rollback, shm, network
<1>9. ASSUME NEW r \in Runs, Admit(r) PROVE ServeInv'
  BY <1>9 DEF Admit, shm, network
<1>10. ASSUME NEW r \in Runs, Connect(r) PROVE ServeInv'
  <2>1. sock \in Serving
    BY <1>10, ZeroMeansNone DEF Connect, Listening, Leased, LeaseStates
  <2>2. ClientsServed'
    BY <1>10, <2>1 DEF Connect, shm
  <2> QED
    BY <1>10, <2>2 DEF Connect, shm
<1>11. ASSUME NEW r \in Runs, Leave(r) PROVE ServeInv'
  BY <1>11, FreeMeansQuiet DEF Leave, shm, network
<1>12. ASSUME NEW r \in Runs, KillRun(r) PROVE ServeInv'
  BY <1>12 DEF KillRun, LeaseStates, shm, network
<1>13. ASSUME NEW d \in Runs, Load(d) PROVE ServeInv'
  BY <1>13 DEF Load, data, shm, network
<1>14. ASSUME NEW d \in Runs, Bind(d) PROVE ServeInv'
  BY <1>14 DEF Bind, shm, network
<1>15. ASSUME NEW d \in Runs, BindFails(d) PROVE ServeInv'
  BY <1>15 DEF BindFails, shm, network
<1>16. ASSUME NEW d \in Runs, Accept(d) PROVE ServeInv'
  BY <1>16 DEF Accept, shm, network
<1>17. ASSUME NEW d \in Runs, PollSkip(d) PROVE ServeInv'
  BY <1>17 DEF PollSkip, shm, network
<1>18. ASSUME NEW d \in Runs, PollBusy(d) PROVE ServeInv'
  BY <1>18 DEF PollBusy, shm, network
<1>19. ASSUME NEW d \in Runs, PollShutdown(d) PROVE ServeInv'
  <2>1. Leased = {}
    BY <1>19, ZeroMeansNone DEF PollShutdown
  <2>2. \A r \in Runs : pc[r] # "inside" /\ pc[r] # "starting"
    BY <2>1 DEF Leased, LeaseStates
  <2>3. ReadyMeansServing' /\ ClientsServed'
    BY <1>19, <2>2 DEF PollShutdown, network
  <2> QED
    BY <1>19, <2>2, <2>3 DEF PollShutdown, network
<1>20. ASSUME NEW d \in Runs, ShutdownFlushed(d) PROVE ServeInv'
  BY <1>20 DEF ShutdownFlushed, EndFlush, shm, network
<1>21. ASSUME NEW d \in Runs, FinalFlush(d) PROVE ServeInv'
  BY <1>21 DEF FinalFlush, BeginFlush, shm, network
<1>22. ASSUME NEW d \in Runs, Exit(d) PROVE ServeInv'
  BY <1>22 DEF Exit, EndFlush, shm, network
<1>23. ASSUME NEW d \in Runs, KillDaemon(d) PROVE ServeInv'
  BY <1>23 DEF KillDaemon, Fault, shm, network
<1>24. ASSUME NEW r \in Runs, NEW d \in Runs, Write(r, d) PROVE ServeInv'
  BY <1>24 DEF Write, shm, network
<1>25. ASSUME NEW r \in Runs, NEW d \in Runs, WriteAfterLeave(r, d) PROVE ServeInv'
  BY <1>25 DEF WriteAfterLeave, shm, network
<1>26. CASE Probe
  BY <1>26 DEF Probe, Listening, shm
<1>27. CASE UNCHANGED vars
  BY <1>27 DEF vars, shm, network
<1> QED
  BY <1>1, <1>2, <1>3, <1>4, <1>5, <1>6, <1>7, <1>8, <1>9, <1>10, <1>11,
     <1>12, <1>13, <1>14, <1>15, <1>16, <1>17, <1>18, <1>19, <1>20, <1>21,
     <1>22, <1>23, <1>24, <1>25, <1>26, <1>27 DEF Next, RunStep, DaemonStep

\* Both invariants together.
THEOREM ServeInvariant == Spec => []ServeInv
<1>1. LeaseInv /\ ServeInv /\ [Next]_vars => ServeInv'
  BY ServeNext
<1> QED
  BY <1>1, ServeInit, LeaseInvariant, PTL DEF Spec

\* The flag is only ever set with some daemon in its accept loop, or killed
\* (run.rs:113,178,182).
THEOREM ReadyCorrect == Spec => []ReadyMeansServing
<1>1. ServeInv => ReadyMeansServing
  BY DEF ServeInv
<1> QED
  BY <1>1, ServeInvariant, PTL

\* No daemon shuts down on a run that is connected to it (run.rs:104-110).
THEOREM ClientsCorrect == Spec => []ClientsServed
<1>1. ServeInv => ClientsServed
  BY DEF ServeInv
<1> QED
  BY <1>1, ServeInvariant, PTL

-----------------------------------------------------------------------------
(* The flush under the mutex, and the flag.                                *)

\* Nobody is inside while a daemon flushes, so no run changes its memory.
FlushInv ==
    ShutdownFlushComplete /\ \A d \in Runs : dstate[d] = "flushing" => running_count = 0

LEMMA FlushNext ==
    ASSUME LeaseInv, FlushInv, [Next]_vars
    PROVE  FlushInv'
<1> USE DEF TypeOK, FlushInv, ShutdownFlushComplete
<1>0. TypeOK
  BY DEF LeaseInv
<1>1. ASSUME NEW r \in Runs,
             \/ EnterFirst(r) \/ EnterForkFails(r) \/ EnterLater(r)
             \/ Rollback(r) \/ Leave(r)
      PROVE  FlushInv'
  <2>1. \A d \in Runs : dstate[d] # "flushing"
    BY <1>1, FreeMeansQuiet DEF EnterFirst, EnterForkFails, EnterLater, Rollback, Leave
  <2>2. \A d \in Runs : dstate'[d] # "flushing"
    BY <1>0, <1>1, <2>1 DEF EnterFirst, EnterForkFails, EnterLater, Rollback, Leave
  <2> QED
    BY <2>2
<1>2. ASSUME NEW r \in Runs,
             \/ Prepare(r) \/ StartCommitted(r) \/ StartFailed(r) \/ StartTimeout(r)
             \/ Admit(r) \/ Connect(r) \/ KillRun(r)
      PROVE  FlushInv'
  BY <1>0, <1>2 DEF Prepare, StartCommitted, StartFailed, StartTimeout, Admit, Connect,
                    KillRun, LeaseStates, shm, data
<1>3. ASSUME NEW r \in Runs, NEW d \in Runs, Write(r, d) PROVE FlushInv'
  <2>1. dstate[d] # "flushing"
    BY <1>3, ZeroMeansNone DEF LeaseInv, Write, Leased, LeaseStates
  <2> QED
    BY <1>0, <1>3, <2>1 DEF Write, shm
<1>4. ASSUME NEW r \in Runs, NEW d \in Runs, WriteAfterLeave(r, d) PROVE FlushInv'
  BY <1>0, <1>4 DEF WriteAfterLeave, shm
<1>5. ASSUME NEW d \in Runs, Load(d) PROVE FlushInv'
  BY <1>0, <1>5 DEF Load, shm
<1>6. ASSUME NEW d \in Runs, PollShutdown(d) PROVE FlushInv'
  BY <1>0, <1>6 DEF PollShutdown, BeginFlush
<1>7. ASSUME NEW d \in Runs, ShutdownFlushed(d) \/ Exit(d) PROVE FlushInv'
  BY <1>0, <1>7 DEF ShutdownFlushed, Exit, EndFlush, shm
<1>8. ASSUME NEW d \in Runs, FinalFlush(d) PROVE FlushInv'
  BY <1>0, <1>8 DEF FinalFlush, BeginFlush, shm
<1>9. ASSUME NEW d \in Runs,
             \/ Bind(d) \/ BindFails(d) \/ Accept(d) \/ PollSkip(d) \/ PollBusy(d)
             \/ KillDaemon(d)
      PROVE  FlushInv'
  BY <1>0, <1>9 DEF Bind, BindFails, Accept, PollSkip, PollBusy, KillDaemon, shm, data
<1>10. CASE Probe \/ UNCHANGED vars
  BY <1>10 DEF Probe, vars, shm, data
<1> QED
  BY <1>1, <1>2, <1>3, <1>4, <1>5, <1>6, <1>7, <1>8, <1>9, <1>10
     DEF Next, RunStep, DaemonStep

\* The flush of a shutdown misses no update, unless a process outlives the
\* lease it wrote under (run.rs:108-114, server.rs:183-189).
THEOREM FlushCorrect == Spec => []ShutdownFlushComplete
<1>1. Init => FlushInv
  BY DEF Init, FlushInv, ShutdownFlushComplete
<1>2. LeaseInv /\ FlushInv /\ [Next]_vars => FlushInv'
  BY FlushNext
<1>3. FlushInv => ShutdownFlushComplete
  BY DEF FlushInv
<1> QED
  BY <1>1, <1>2, <1>3, LeaseInvariant, PTL DEF Spec

\* A step that clears the flag starts from a count of zero.
LEMMA ReadyClears ==
    ASSUME LeaseInv, [Next]_vars, socket_ready, ~socket_ready'
    PROVE  Leased = {}
<1>1. ASSUME NEW r \in Runs, EnterFirst(r) \/ EnterForkFails(r) PROVE running_count = 0
  BY <1>1 DEF EnterFirst, EnterForkFails
<1>2. ASSUME NEW d \in Runs, PollShutdown(d) PROVE running_count = 0
  BY <1>2 DEF PollShutdown
<1>3. running_count = 0
  BY <1>1, <1>2 DEF Next, RunStep, DaemonStep, Probe, vars, shm,
     Prepare, EnterLater, StartCommitted, StartFailed, StartTimeout, Rollback, Admit,
     Connect, Write, WriteAfterLeave, Leave, KillRun, Load, Bind, BindFails, Accept,
     PollSkip, PollBusy, ShutdownFlushed, FinalFlush, Exit, KillDaemon
<1> QED
  BY <1>3, ZeroMeansNone DEF LeaseInv

\* Nobody clears the flag while a run holds a lease (run.rs:108-113,176-178).
THEOREM ReadyStays == Spec => ReadyStable
<1>1. LeaseInv /\ [Next]_vars => [socket_ready /\ Leased # {} => socket_ready']_vars
  BY ReadyClears DEF LeaseInv, TypeOK
<1> QED
  BY <1>1, LeaseInvariant, PTL DEF Spec, ReadyStable

-----------------------------------------------------------------------------
(* The protocol implements the gate.                                       *)

Inside == {r \in Runs : pc[r] = "inside"}

LEMMA GateInit == Init => Gate!Init
BY DEF Init, Gate!Init

LEMMA GateNext ==
    ASSUME LeaseInv, [Next]_vars
    PROVE  [Gate!Next]_<<socket_ready, Inside>>
<1> USE DEF LeaseInv, TypeOK, Inside
<1>1. ASSUME NEW r \in Runs, EnterFirst(r) \/ EnterForkFails(r) PROVE Gate!Close
  <2>1. Leased = {}
    BY <1>1, ZeroMeansNone DEF EnterFirst, EnterForkFails
  <2>2. Inside = {} /\ Inside' = {}
    BY <1>1, <2>1 DEF EnterFirst, EnterForkFails, Leased, LeaseStates
  <2> QED
    BY <1>1, <2>2 DEF Gate!Close, EnterFirst, EnterForkFails
<1>2. ASSUME NEW d \in Runs, PollShutdown(d) PROVE Gate!Close
  <2>1. Leased = {}
    BY <1>2, ZeroMeansNone DEF PollShutdown
  <2>2. Inside = {} /\ Inside' = {}
    BY <1>2, <2>1 DEF PollShutdown, Leased, LeaseStates
  <2> QED
    BY <1>2, <2>2 DEF Gate!Close, PollShutdown
<1>3. ASSUME NEW r \in Runs, StartCommitted(r) PROVE Gate!Open
  BY <1>3 DEF StartCommitted, Gate!Open
<1>4. ASSUME NEW r \in Runs, Admit(r) PROVE Gate!GoIn(r)
  BY <1>4 DEF Admit, shm, Gate!GoIn
<1>5. ASSUME NEW r \in Runs, Leave(r) \/ KillRun(r) PROVE Gate!ComeOut(r)
  BY <1>5 DEF Leave, KillRun, shm, LeaseStates, Gate!ComeOut
<1>6. ASSUME NEW r \in Runs,
             \/ Prepare(r) \/ EnterLater(r) \/ StartFailed(r) \/ StartTimeout(r) \/ Rollback(r)
             \/ Connect(r) \/ \E d \in Runs : Write(r, d) \/ WriteAfterLeave(r, d)
      PROVE  UNCHANGED <<socket_ready, Inside>>
  BY <1>6 DEF Prepare, EnterLater, StartFailed, StartTimeout, Rollback, Connect, Write,
              WriteAfterLeave, shm
<1>7. ASSUME NEW d \in Runs,
             \/ Load(d) \/ Bind(d) \/ BindFails(d) \/ Accept(d) \/ PollSkip(d) \/ PollBusy(d)
             \/ ShutdownFlushed(d) \/ FinalFlush(d) \/ Exit(d) \/ KillDaemon(d)
      PROVE  UNCHANGED <<socket_ready, Inside>>
  BY <1>7 DEF Load, Bind, BindFails, Accept, PollSkip, PollBusy, ShutdownFlushed, FinalFlush,
              Exit, KillDaemon, shm
<1>8. Probe \/ UNCHANGED vars => UNCHANGED <<socket_ready, Inside>>
  BY DEF Probe, vars, shm
<1> QED
  BY <1>1, <1>2, <1>3, <1>4, <1>5, <1>6, <1>7, <1>8
     DEF Next, RunStep, DaemonStep, Gate!Next

\* Whatever fails or is killed, the shared memory is a gate that never closes
\* on a run inside (run.rs:108-113,120-134,176-189).
THEOREM GateImplemented == Spec => GateSpec
<1>1. LeaseInv /\ [Next]_vars => [Gate!Next]_<<socket_ready, Inside>>
  BY GateNext
<1> QED
  BY <1>1, GateInit, LeaseInvariant, PTL DEF Spec, GateSpec, Gate!Spec, Inside
=============================================================================
