------------------------ MODULE ExecutionCoordinator ------------------------
(***************************************************************************)
(* src/src/execution-coordinator.ts and src/src/workspace-leases.ts: the   *)
(* process-local object that every active Run's scheduler shares.          *)
(*                                                                         *)
(* #version only ever grows and is only compared for equality, so the      *)
(* model keeps the set `current` of the Runs whose last reading of it is   *)
(* still the current value: a change empties the set.                      *)
(***************************************************************************)
EXTENDS Integers, FiniteSets

CONSTANTS
  Runs,
  Tasks,              \* task keys: "<run>:<task>" is unique over the process
  LeaseKeys,          \* resourceId, or resourceId::isolationKey
  Access,
  LeaseKey,
  GlobalConcurrency,
  NoTask              \* `undefined` where a task key is expected

ASSUME CoordinatorAssumption ==
  /\ Access \in [Tasks -> {"none", "read", "write"}]
  /\ LeaseKey \in [Tasks -> LeaseKeys]
  /\ GlobalConcurrency \in Nat \ {0}
  /\ NoTask \notin Tasks

VARIABLES
  readers,            \* [LeaseKeys -> SUBSET Tasks]
  writer,             \* [LeaseKeys -> Tasks \cup {NoTask}]
  leased,             \* keys of #taskKeys: tasks with a registered lease
  activeCount,
  current,            \* Runs whose coordinatorVersion equals #version
  waiters             \* Runs parked in waitForChange

coordinatorVars == <<readers, writer, leased, activeCount, current, waiters>>

CoordinatorTypeOK ==
  /\ readers \in [LeaseKeys -> SUBSET Tasks]
  /\ writer \in [LeaseKeys -> Tasks \cup {NoTask}]
  /\ leased \subseteq Tasks
  /\ activeCount \in Int
  /\ current \subseteq Runs
  /\ waiters \subseteq Runs

CoordinatorInit ==
  /\ readers = [k \in LeaseKeys |-> {}]
  /\ writer = [k \in LeaseKeys |-> NoTask]
  /\ leased = {}
  /\ activeCount = 0
  /\ current = {}
  /\ waiters = {}

-----------------------------------------------------------------------------
(* WorkspaceLeaseManager *)

\* Mutant: a writer no longer waits for the readers.
CanAcquireLeaseOverReaders(t) ==
  Access[t] = "none" \/ (t \notin leased /\ writer[LeaseKey[t]] = NoTask)

CanAcquireLease(t) ==
  \/ Access[t] = "none"
  \/ /\ t \notin leased
     /\ writer[LeaseKey[t]] = NoTask
     /\ Access[t] = "write" => readers[LeaseKey[t]] = {}

AcquireLease(t) ==
  /\ leased' = IF Access[t] = "none" THEN leased ELSE leased \cup {t}
  /\ readers' = IF Access[t] = "read"
                THEN [readers EXCEPT ![LeaseKey[t]] = @ \cup {t}] ELSE readers
  /\ writer' = IF Access[t] = "write"
               THEN [writer EXCEPT ![LeaseKey[t]] = t] ELSE writer

ReleaseLease(t) ==
  /\ leased' = leased \ {t}
  /\ readers' = IF Access[t] = "read" /\ t \in leased
                THEN [readers EXCEPT ![LeaseKey[t]] = @ \ {t}] ELSE readers
  /\ writer' = IF Access[t] = "write" /\ t \in leased /\ writer[LeaseKey[t]] = t
               THEN [writer EXCEPT ![LeaseKey[t]] = NoTask] ELSE writer

-----------------------------------------------------------------------------
(* ExecutionCoordinator *)

CanAcquire(t) == activeCount < GlobalConcurrency /\ CanAcquireLease(t)

\* Mutant: the version moves on, nobody parked is told.
NotifyNobody == current' = {} /\ waiters' = waiters

\* #notifyChange: a new version, and every parked Run is woken.
NotifyChange ==
  /\ current' = {}
  /\ waiters' = {}

AcquireSlot(t) ==
  /\ AcquireLease(t)
  /\ activeCount' = activeCount + 1
  /\ NotifyChange

\* The returned release function runs once per acquisition: its callers are
\* the `finally` of one execution, so `released` needs no state of its own.
ReleaseSlot(t) ==
  /\ ReleaseLease(t)
  /\ activeCount' = activeCount - 1
  /\ NotifyChange

\* `const coordinatorVersion = coordinator.version`.
ReadVersion(r) ==
  /\ current' = current \cup {r}
  /\ UNCHANGED <<readers, writer, leased, activeCount, waiters>>

\* waitForChange returns at once when the version moved on since it was read
\* or the Run is already aborted, and parks the Run otherwise.
MustWait(r, aborted) == r \in current /\ r \notin aborted

Park(r) ==
  /\ waiters' = waiters \cup {r}
  /\ UNCHANGED <<readers, writer, leased, activeCount, current>>

\* The abort listener of a parked Run.
Unpark(r) ==
  /\ waiters' = waiters \ {r}
  /\ UNCHANGED <<readers, writer, leased, activeCount, current>>
=============================================================================
