----------------------------- MODULE ClientPool -----------------------------
(***************************************************************************)
(* The pool of daemon connections that the FUSE threads of one sandbox     *)
(* share: idle clients, the number of clients in existence, one mutex and  *)
(* one condition variable.                                                 *)
(*                                                                         *)
(*   src/syncing/pool.rs  checkout, PooledSyncClient::drop                 *)
(*   src/fuse/fs.rs       handlers that keep a client while stat_path      *)
(*                        checks out a second one                          *)
(*                                                                         *)
(* What is done under the pool's mutex in one go is one action.            *)
(***************************************************************************)
EXTENDS Naturals, FiniteSets

CONSTANTS
    Threads,  \* the FUSE worker threads
    max_size  \* the clients the pool may create

ASSUME ThreadsAssumption == IsFiniteSet(Threads)
ASSUME SizeAssumption == max_size \in Nat \ {0}

VARIABLES
    idle,   \* how many clients wait in the pool
    total,  \* how many clients the pool counts as created
    pc,     \* where each thread is
    outer,  \* threads that hold the client of their handler
    inner   \* threads that hold the client of stat_path besides

vars == <<idle, total, pc, outer, inner>>

States == {"away", "asking", "connecting", "failing", "sleeping", "serving"}

At(s) == {t \in Threads : pc[t] = s}

Init ==
    /\ idle = 0 /\ total = 0
    /\ pc = [t \in Threads |-> "away"]
    /\ outer = {} /\ inner = {}

\* A handler calls checkout.
Begin(t) ==
    /\ pc[t] = "away"
    /\ pc' = [pc EXCEPT ![t] = "asking"]
    /\ UNCHANGED <<idle, total, outer, inner>>

\* A handler that holds its client calls stat_path, which calls checkout.
Nest(t) ==
    /\ pc[t] = "serving" /\ t \notin inner
    /\ pc' = [pc EXCEPT ![t] = "asking"]
    /\ UNCHANGED <<idle, total, outer, inner>>

\* checkout returns a client: the first a thread holds, or the second.
Take(t) ==
    /\ pc' = [pc EXCEPT ![t] = "serving"]
    /\ IF t \in outer
         THEN inner' = inner \cup {t} /\ UNCHANGED outer
         ELSE outer' = outer \cup {t} /\ UNCHANGED inner

TakeIdle(t) ==
    /\ pc[t] = "asking" /\ idle > 0
    /\ idle' = idle - 1
    /\ Take(t)
    /\ UNCHANGED total

\* Faulty: an off-by-one in the comparison with max_size.
GrowPast(t) ==
    /\ pc[t] = "asking" /\ idle = 0 /\ total <= max_size
    /\ total' = total + 1
    /\ pc' = [pc EXCEPT ![t] = "connecting"]
    /\ UNCHANGED <<idle, outer, inner>>

\* A new client is counted before the mutex is dropped for the connect.
Grow(t) ==
    /\ pc[t] = "asking" /\ idle = 0 /\ total < max_size
    /\ total' = total + 1
    /\ pc' = [pc EXCEPT ![t] = "connecting"]
    /\ UNCHANGED <<idle, outer, inner>>

Connected(t) ==
    /\ pc[t] = "connecting"
    /\ Take(t)
    /\ UNCHANGED <<idle, total>>

ConnectFails(t) ==
    /\ pc[t] = "connecting"
    /\ pc' = [pc EXCEPT ![t] = "failing"]
    /\ UNCHANGED <<idle, total, outer, inner>>

\* cv.notify_one once the threads are where p says: one sleeper, if there is
\* any, goes back to the head of the loop.
NotifyOne(p) ==
    IF At("sleeping") = {}
      THEN pc' = p
      ELSE \E s \in At("sleeping") : pc' = [p EXCEPT ![s] = "asking"]

\* The error ends checkout; a handler that held a client still has it.
AfterFailure(t) == [pc EXCEPT ![t] = IF t \in outer THEN "serving" ELSE "away"]

\* Faulty: the rollback without notify_one.
RollbackSilent(t) ==
    /\ pc[t] = "failing"
    /\ total' = total - 1
    /\ pc' = AfterFailure(t)
    /\ UNCHANGED <<idle, outer, inner>>

\* The failed client is uncounted under the mutex.
Rollback(t) ==
    /\ pc[t] = "failing"
    /\ total' = total - 1
    /\ NotifyOne(AfterFailure(t))
    /\ UNCHANGED <<idle, outer, inner>>

\* cv.wait gives the mutex up and sleeps in one step.
Sleep(t) ==
    /\ pc[t] = "asking" /\ idle = 0 /\ total >= max_size
    /\ pc' = [pc EXCEPT ![t] = "sleeping"]
    /\ UNCHANGED <<idle, total, outer, inner>>

\* A condition variable may wake up for no reason.
WakeSpuriously(t) ==
    /\ pc[t] = "sleeping"
    /\ pc' = [pc EXCEPT ![t] = "asking"]
    /\ UNCHANGED <<idle, total, outer, inner>>

\* stat_path returns and drops the second client.
DropInner(t) ==
    /\ pc[t] = "serving" /\ t \in inner
    /\ inner' = inner \ {t}
    /\ idle' = idle + 1
    /\ NotifyOne(pc)
    /\ UNCHANGED <<total, outer>>

\* Faulty: a client pushed back without notify_one.
DropOuterSilent(t) ==
    /\ pc[t] = "serving" /\ t \notin inner
    /\ outer' = outer \ {t}
    /\ idle' = idle + 1
    /\ pc' = [pc EXCEPT ![t] = "away"]
    /\ UNCHANGED <<total, inner>>

\* Faulty: the handler may leave before stat_path's client is dropped.
DropOuterKept(t) ==
    /\ pc[t] = "serving"
    /\ outer' = outer \ {t}
    /\ idle' = idle + 1
    /\ NotifyOne([pc EXCEPT ![t] = "away"])
    /\ UNCHANGED <<total, inner>>

\* The handler returns and drops its client, broken or not.
DropOuter(t) ==
    /\ pc[t] = "serving" /\ t \notin inner
    /\ outer' = outer \ {t}
    /\ idle' = idle + 1
    /\ NotifyOne([pc EXCEPT ![t] = "away"])
    /\ UNCHANGED <<total, inner>>

Step(t) ==
    \/ Begin(t) \/ Nest(t) \/ TakeIdle(t) \/ Grow(t) \/ Connected(t)
    \/ ConnectFails(t) \/ Rollback(t) \/ Sleep(t) \/ WakeSpuriously(t)
    \/ DropInner(t) \/ DropOuter(t)

Next == \E t \in Threads : Step(t)

Spec == Init /\ [][Next]_vars

-----------------------------------------------------------------------------
TypeOK ==
    /\ idle \in Nat /\ total \in Nat
    /\ pc \in [Threads -> States]
    /\ outer \subseteq Threads /\ inner \subseteq outer

Held == Cardinality(outer) + Cardinality(inner)
InTheMaking == Cardinality(At("connecting")) + Cardinality(At("failing"))

\* Every client the pool counts is idle, held or being connected, and there
\* are never more of them than the limit, whatever connects fail in the
\* middle (pool.rs:43-86,106-117; the test bounded_growth_never_exceeds_max_size).
Accounting == total = idle + Held + InTheMaking /\ total <= max_size

\* No wake-up is lost: while somebody sleeps, there are at least as many
\* threads on their way to the head of the loop as there are clients to be
\* had, so none of these is left lying (pool.rs:69,77-82,114).
NoLostWakeup ==
    At("sleeping") # {} =>
        idle + (max_size - total) <= Cardinality(At("asking"))

\* Somebody sleeps and nobody is left to wake him.
Gridlock == At("sleeping") # {} /\ Threads = At("sleeping") \cup At("away")

\* The pool gets stuck in one way only: as many threads as it has clients
\* each hold the client of their handler and sleep in stat_path for a second
\* one.  With fewer threads than clients it never does (fs.rs:317,407,442,
\* 454,699,736; the limits are 12 clients, inner.rs:100, and 16 threads,
\* mount.rs:19-26).
GridlockOnlyByNesting ==
    Gridlock => inner = {} /\ Cardinality(outer \cap At("sleeping")) = max_size

\* "The pool keeps multiple persistent client connections so concurrent FUSE
\* operations avoid both a global client lock and connect churn"
\* (plan/modules/syncing/pool.md:7); handlers that hold a client and wait for
\* another one end in a state where no operation ever goes on.
NoGridlock == ~Gridlock
=============================================================================
