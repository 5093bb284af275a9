-------------------------- MODULE Scheduler_proofs --------------------------
(***************************************************************************)
(* Theorems about Scheduler, for any number of Runs, tasks, agents and     *)
(* leased workspaces.                                                      *)
(***************************************************************************)
EXTENDS Scheduler, FiniteSetTheorems, TLAPS

\* A position of the definition's task list names one of the Run's tasks.
LEMMA OrderType ==
  ASSUME NEW r \in Runs, NEW i \in Nat \ {0}, i <= Len(Order[r])
  PROVE  Order[r][i] \in Tasks
  BY SchedulerAssumption

\* The coordinator's own part of the type invariant, over one step of each of
\* its operations.
LEMMA CoordinatorTyping ==
  ASSUME CoordinatorTypeOK, NEW t \in Tasks
  PROVE  /\ AcquireSlot(t) => CoordinatorTypeOK'
         /\ ReleaseSlot(t) => CoordinatorTypeOK'
<1>. USE DEF CoordinatorTypeOK
<1>1. AcquireSlot(t) => CoordinatorTypeOK'
  BY CoordinatorAssumption DEF AcquireSlot, AcquireLease, NotifyChange
<1>2. ReleaseSlot(t) => CoordinatorTypeOK'
  BY CoordinatorAssumption DEF ReleaseSlot, ReleaseLease, NotifyChange
<1>. QED  BY <1>1, <1>2

\* What one Run does in the coordinator keeps its types.
LEMMA WaiterTyping ==
  ASSUME CoordinatorTypeOK, NEW r \in Runs
  PROVE  /\ ReadVersion(r) => CoordinatorTypeOK'
         /\ Park(r) => CoordinatorTypeOK'
         /\ Unpark(r) => CoordinatorTypeOK'
  BY DEF CoordinatorTypeOK, ReadVersion, Park, Unpark

\* So does what does not touch the coordinator.
LEMMA CoordinatorUnchanged ==
  CoordinatorTypeOK /\ UNCHANGED coordinatorVars => CoordinatorTypeOK'
  BY DEF CoordinatorTypeOK, coordinatorVars

\* The appends queue of a Run stays a sequence of tasks and the loop's mark.
LEMMA AppendTyping ==
  ASSUME appends \in [Runs -> Seq(Tasks \cup {NoTask})],
         NEW r \in Runs, NEW caller \in Tasks \cup {NoTask}
  PROVE  /\ CallAppend(r, caller) => appends' \in [Runs -> Seq(Tasks \cup {NoTask})]
         /\ AppendAnswers(r, caller) => appends' \in [Runs -> Seq(Tasks \cup {NoTask})]
         /\ AppendFailsAndIsCaught(r, caller) => appends' \in [Runs -> Seq(Tasks \cup {NoTask})]
<1>. DEFINE Queues == Seq(Tasks \cup {NoTask})
<1>0. appends \in [Runs -> Queues]
  OBVIOUS
<1>1. appends[r] \in Queues
  BY <1>0
<1>2. Append(appends[r], caller) \in Queues
  BY <1>1
<1>3. appends[r] # <<>> => Tail(appends[r]) \in Queues
  BY <1>1
<1>4. appends[r] # <<>> => Append(Tail(appends[r]), caller) \in Queues
  BY <1>3
<1>. HIDE DEF Queues
<1>5. \A q \in Queues : [appends EXCEPT ![r] = q] \in [Runs -> Queues]
  BY <1>0
<1>6. /\ CallAppend(r, caller) => appends' \in [Runs -> Queues]
      /\ AppendAnswers(r, caller) => appends' \in [Runs -> Queues]
      /\ AppendFailsAndIsCaught(r, caller) => appends' \in [Runs -> Queues]
  BY <1>2, <1>3, <1>4, <1>5 DEF CallAppend, AppendAnswers, AppendFailsAndIsCaught
<1>. QED  BY <1>6 DEF Queues

\* The types hold at the start.
LEMMA TypeInit == Init => TypeOK
  BY CoordinatorAssumption DEF Init, CoordinatorInit, TypeOK, CoordinatorTypeOK, TaskStatuses,
     ExecPhases, LoopPhases, OnThread

\* Every step of a Run's loop keeps the types.
LEMMA TypeLoopStep ==
  ASSUME TypeOK, NEW r \in Runs, LoopStep(r)
  PROVE  TypeOK'
<1>. USE DEF TypeOK, Goto
<1>0. OnThread \subseteq LoopPhases
  BY DEF LoopPhases
<1>t. TaskStatuses = {"queued", "running", "succeeded", "failed", "blocked", "cancelled"}
  BY DEF TaskStatuses
<1>p. {"top", "blockAppend", "cancelAppend", "racing", "waiting", "returned", "threw",
       "blocking", "cancelling", "sweeping", "deciding"} = LoopPhases
  BY DEF LoopPhases, OnThread
<1>e. {"capacity", "starting"} \subseteq ExecPhases
  BY DEF ExecPhases
<1>1. CASE LoopExit(r)
  BY <1>1, <1>p, WaiterTyping, CoordinatorUnchanged DEF LoopExit, Return, DeriveRunStatus, taskVars
<1>2. CASE LoopBody(r)
  BY <1>2, <1>p, WaiterTyping, CoordinatorUnchanged DEF LoopBody, taskVars
<1>3. CASE LoopAppended(r)
  BY <1>3, <1>p, WaiterTyping, CoordinatorUnchanged, AppendTyping DEF LoopAppended, taskVars
<1>4. ASSUME NEW t \in Tasks, CancelQueuedTask(r, t)
      PROVE  TypeOK'
  BY <1>4, <1>p, <1>t, WaiterTyping, CoordinatorUnchanged, AppendTyping DEF CancelQueuedTask
<1>5. ASSUME NEW t \in Tasks, BlockTask(r, t)
      PROVE  TypeOK'
  BY <1>5, <1>p, <1>t, WaiterTyping, CoordinatorUnchanged, AppendTyping DEF BlockTask
<1>6. CASE CancelDone(r)
  BY <1>6, <1>p, WaiterTyping, CoordinatorUnchanged DEF CancelDone, taskVars
<1>7. CASE BlockDone(r)
  BY <1>7, <1>p, WaiterTyping, CoordinatorUnchanged DEF BlockDone, taskVars
<1>8. ASSUME NEW a \in Agents, StartTask(r, a)
      PROVE  TypeOK'
  <2>. DEFINE t == Order[r][cursor]
  <2>1. t \in Tasks
    BY <1>8, OrderType, SchedulerAssumption DEF StartTask, SweepOver
  <2>2. CoordinatorTypeOK'
    BY <1>8, <2>1, CoordinatorTyping DEF StartTask
  <2>3. appends' \in [Runs -> Seq(Tasks \cup {NoTask})]
    BY <1>8, <2>1, AppendTyping DEF StartTask
  <2>4. agentLoad' \in [Runs -> [Agents -> Int]]
    BY <1>8 DEF StartTask
  <2>. QED  BY <1>8, <1>e, <1>t, <2>1, <2>2, <2>3, <2>4 DEF StartTask
<1>9. CASE SkipTask(r)
  BY <1>9, <1>p, WaiterTyping, CoordinatorUnchanged DEF SkipTask, taskVars
<1>10. CASE SweepDone(r)
  BY <1>10, <1>p, WaiterTyping, CoordinatorUnchanged DEF SweepDone, taskVars
<1>11. CASE DecideToRace(r)
  BY <1>11, <1>p, WaiterTyping, CoordinatorUnchanged DEF DecideToRace, taskVars, Running, InFlight
<1>12. CASE DecideToReturn(r)
  BY <1>12, <1>p, WaiterTyping, CoordinatorUnchanged DEF DecideToReturn, Return, DeriveRunStatus, taskVars
<1>13. CASE DecideToWait(r)
  BY <1>13, <1>p, WaiterTyping, CoordinatorUnchanged DEF DecideToWait, taskVars
<1>15. CASE WaitOver(r)
  BY <1>15, <1>p, WaiterTyping, CoordinatorUnchanged DEF WaitOver, taskVars
<1>16. CASE RaceOver(r)
  BY <1>16, <1>p, WaiterTyping, CoordinatorUnchanged DEF RaceOver, taskVars
<1>. QED  BY <1>1, <1>2, <1>3, <1>4, <1>5, <1>6, <1>7, <1>8, <1>9, <1>10, <1>11, <1>12,
             <1>13, <1>15, <1>16 DEF LoopStep

\* Every step of an execution keeps the types.
LEMMA TypeTaskStep ==
  ASSUME TypeOK, NEW t \in Tasks, TaskStep(t)
  PROVE  TypeOK'
<1>. USE DEF TypeOK, Move, Fail, loopVars
<1>t. {"queued", "running", "succeeded", "failed", "blocked", "cancelled"} = TaskStatuses
  BY DEF TaskStatuses
<1>e. {"idle", "capacity", "starting", "executing", "succeeding", "failing", "releasing",
       "settled"} = ExecPhases
  BY DEF ExecPhases
<1>r. RunOf[t] \in Runs
  BY SchedulerAssumption
<1>1. CASE CapacityGranted(t)
  BY <1>1, <1>t, <1>e, <1>r, CoordinatorUnchanged, AppendTyping DEF CapacityGranted
<1>2. CASE CapacityRefused(t)
  BY <1>2, <1>t, <1>e, <1>r, CoordinatorUnchanged, AppendTyping DEF CapacityRefused
<1>3. CASE StartedAppended(t)
  BY <1>3, <1>t, <1>e, <1>r, CoordinatorUnchanged, AppendTyping, ZenonT(60) DEF StartedAppended
<1>4. CASE ExecutorReturns(t)
  BY <1>4, <1>t, <1>e, <1>r, CoordinatorUnchanged, AppendTyping DEF ExecutorReturns
<1>5. CASE ExecutorThrows(t)
  BY <1>5, <1>t, <1>e, <1>r, CoordinatorUnchanged, AppendTyping DEF ExecutorThrows
<1>6. CASE SucceededAppended(t)
  BY <1>6, <1>t, <1>e, <1>r, CoordinatorUnchanged, AppendTyping, ZenonT(60) DEF SucceededAppended
<1>7. CASE FailedAppended(t)
  <2>1. appends' \in [Runs -> Seq(Tasks \cup {NoTask})]
    BY <1>7, <1>r, AppendTyping DEF FailedAppended
  <2>2. rejected' \subseteq Tasks
    BY <1>7 DEF FailedAppended
  <2>. QED  BY <1>7, <1>e, <2>1, <2>2, CoordinatorUnchanged DEF FailedAppended
<1>8. CASE Settle(t)
  <2>1. CoordinatorTypeOK'
    BY <1>8, CoordinatorTyping DEF Settle
  <2>2. rejected' \subseteq Tasks
    BY <1>8 DEF Settle
  <2>3. agentLoad' \in [Runs -> [Agents -> Int]]
    <3>. DEFINE row == [agentLoad[RunOf[t]] EXCEPT ![agentOf[t]] = @ - 1]
    <3>1. agentLoad[RunOf[t]] \in [Agents -> Int]
      BY <1>r
    <3>2. row \in [Agents -> Int]
      <4>. DEFINE old == agentLoad[RunOf[t]]
      <4>1. row = [a \in Agents |-> IF a = agentOf[t] THEN old[agentOf[t]] - 1 ELSE old[a]]
        BY <3>1
      <4>2. ASSUME NEW a \in Agents
            PROVE  row[a] \in Int
        BY <3>1, <4>1
      <4>. QED  BY <4>1, <4>2
    <3>3. agentLoad' = [agentLoad EXCEPT ![RunOf[t]] = row]
      BY <1>8 DEF Settle
    <3>. HIDE DEF row
    <3>. QED  BY <3>2, <3>3, <1>r
  <2>. QED  BY <1>8, <1>e, <2>1, <2>2, <2>3 DEF Settle
<1>. QED  BY <1>1, <1>2, <1>3, <1>4, <1>5, <1>6, <1>7, <1>8 DEF TaskStep

\* Every step keeps them.
LEMMA TypeStep == TypeOK /\ [Next]_vars => TypeOK'
<1>. SUFFICES ASSUME TypeOK, [Next]_vars
              PROVE  TypeOK'
  OBVIOUS
<1>1. ASSUME NEW r \in Runs, LoopStep(r)
      PROVE  TypeOK'
  BY <1>1, TypeLoopStep
<1>2. ASSUME NEW r \in Runs, Abort(r)
      PROVE  TypeOK'
  BY <1>2, WaiterTyping DEF Abort, TypeOK, taskVars, loopVars
<1>3. ASSUME NEW t \in Tasks, TaskStep(t)
      PROVE  TypeOK'
  BY <1>3, TypeTaskStep
<1>4. CASE UNCHANGED vars
  BY <1>4, CoordinatorUnchanged DEF vars, TypeOK, taskVars, loopVars
<1>. QED  BY <1>1, <1>2, <1>3, <1>4 DEF Next, Terminating

\* Types: every variable of the scheduler and its coordinator keeps its type.
THEOREM TypeCorrect == Spec => []TypeOK
  BY TypeInit, TypeStep, PTL DEF Spec

-----------------------------------------------------------------------------
(***************************************************************************)
(* Lease exclusion.  The executions alone do not carry the argument: what  *)
(* CanAcquireLease consults is the lease table, so the induction needs the *)
(* table to cover every execution in flight, and never to hold a writer    *)
(* beside readers.                                                         *)
(***************************************************************************)
TableCoversExecutions == \A t \in InFlight :
  /\ Access[t] # "none" => t \in leased
  /\ Access[t] = "read" => t \in readers[LeaseKey[t]]
  /\ Access[t] = "write" => writer[LeaseKey[t]] = t

WriterAlone == \A k \in LeaseKeys : writer[k] # NoTask => readers[k] = {}

LeaseInv == TypeOK /\ TableCoversExecutions /\ WriterAlone

\* No lease is held at the start.
LEMMA LeaseInvInit == Init => LeaseInv
<1>. SUFFICES ASSUME Init
              PROVE  LeaseInv
  OBVIOUS
<1>1. TypeOK
  BY TypeInit
<1>2. InFlight = {}
  BY DEF Init, InFlight
<1>3. WriterAlone
  BY DEF Init, CoordinatorInit, WriterAlone
<1>. QED  BY <1>1, <1>2, <1>3 DEF LeaseInv, TableCoversExecutions

\* A step that moves no task in or out of flight and leaves the table alone.
LEMMA LeaseInvFrame ==
  ASSUME LeaseInv, TypeOK', InFlight' \subseteq InFlight,
         UNCHANGED <<readers, writer, leased>>
  PROVE  LeaseInv'
  BY DEF LeaseInv, TableCoversExecutions, WriterAlone

\* StartTask: the task enters flight with the lease it was checked for.
LEMMA LeaseInvAcquire ==
  ASSUME LeaseInv, TypeOK', NEW t \in Tasks, CanAcquireLease(t), AcquireLease(t),
         InFlight' \subseteq InFlight \cup {t}
  PROVE  LeaseInv'
<1>. USE DEF LeaseInv, TypeOK, CoordinatorTypeOK
<1>1. LeaseKey[t] \in LeaseKeys /\ Access[t] \in {"none", "read", "write"} /\ t # NoTask
  BY CoordinatorAssumption
<1>2. WriterAlone'
  BY <1>1 DEF WriterAlone, CanAcquireLease, AcquireLease
<1>3. ASSUME NEW u \in InFlight'
      PROVE  /\ Access[u] # "none" => u \in leased'
             /\ Access[u] = "read" => u \in readers'[LeaseKey[u]]
             /\ Access[u] = "write" => writer'[LeaseKey[u]] = u
  <2>0. u \in Tasks /\ LeaseKey[u] \in LeaseKeys /\ u # NoTask
    BY CoordinatorAssumption DEF InFlight
  <2>1. CASE u = t
    BY <2>1, <1>1 DEF CanAcquireLease, AcquireLease
  <2>2. CASE u # t
    <3>1. u \in InFlight
      BY <2>2
    <3>2. Access[t] = "write" /\ Access[u] = "write" => LeaseKey[t] # LeaseKey[u]
      BY <3>1, <2>0 DEF CanAcquireLease, TableCoversExecutions
    <3>. QED  BY <3>1, <3>2, <2>0, <2>2, <1>1 DEF AcquireLease, TableCoversExecutions
  <2>. QED  BY <2>1, <2>2
<1>. QED  BY <1>2, <1>3 DEF TableCoversExecutions

\* Settle: the task leaves flight, and its release touches no other's lease.
LEMMA LeaseInvRelease ==
  ASSUME LeaseInv, TypeOK', NEW t \in Tasks, ReleaseLease(t),
         InFlight' = InFlight \ {t}
  PROVE  LeaseInv'
<1>. USE DEF LeaseInv, TypeOK, CoordinatorTypeOK
<1>1. LeaseKey[t] \in LeaseKeys /\ Access[t] \in {"none", "read", "write"} /\ t # NoTask
  BY CoordinatorAssumption
<1>2. WriterAlone'
  BY <1>1 DEF WriterAlone, ReleaseLease
<1>3. ASSUME NEW u \in InFlight'
      PROVE  /\ Access[u] # "none" => u \in leased'
             /\ Access[u] = "read" => u \in readers'[LeaseKey[u]]
             /\ Access[u] = "write" => writer'[LeaseKey[u]] = u
  <2>1. u \in Tasks /\ LeaseKey[u] \in LeaseKeys /\ u # t /\ u \in InFlight
    BY CoordinatorAssumption DEF InFlight
  <2>. QED  BY <2>1, <1>1 DEF ReleaseLease, TableCoversExecutions
<1>. QED  BY <1>2, <1>3 DEF TableCoversExecutions

\* Every step keeps the leases in order.
LEMMA LeaseInvStep == LeaseInv /\ [Next]_vars => LeaseInv'
<1>. SUFFICES ASSUME LeaseInv, [Next]_vars
              PROVE  LeaseInv'
  OBVIOUS
<1>0. TypeOK /\ TypeOK'
  BY TypeStep DEF LeaseInv
<1>1. ASSUME NEW r \in Runs, NEW a \in Agents, StartTask(r, a)
      PROVE  LeaseInv'
  <2>. DEFINE t == Order[r][cursor]
  <2>1. t \in Tasks
    BY <1>1, <1>0, OrderType, SchedulerAssumption DEF StartTask, SweepOver, TypeOK
  <2>2. CanAcquireLease(t) /\ AcquireLease(t)
    BY <1>1 DEF StartTask, Startable, CanAcquire, AcquireSlot
  <2>3. InFlight' \subseteq InFlight \cup {t}
    BY <1>1, <1>0 DEF StartTask, InFlight, TypeOK
  <2>. QED  BY <1>0, <2>1, <2>2, <2>3, LeaseInvAcquire
<1>2. ASSUME NEW r \in Runs, LoopStep(r), \A a \in Agents : ~StartTask(r, a)
      PROVE  LeaseInv'
  <2>1. exec' = exec /\ UNCHANGED <<readers, writer, leased>>
    BY <1>2 DEF LoopStep, LoopExit, LoopBody, LoopAppended, CancelQueuedTask, BlockTask,
       CancelDone, BlockDone, SkipTask, SweepDone, DecideToRace, DecideToReturn, DecideToWait,
       WaitOver, RaceOver, taskVars, coordinatorVars, ReadVersion, Park
  <2>. QED  BY <1>0, <2>1, LeaseInvFrame DEF InFlight
<1>3. ASSUME NEW r \in Runs, Abort(r)
      PROVE  LeaseInv'
  <2>1. exec' = exec /\ UNCHANGED <<readers, writer, leased>>
    BY <1>3 DEF Abort, taskVars, Unpark
  <2>. QED  BY <1>0, <2>1, LeaseInvFrame DEF InFlight
<1>4. ASSUME NEW t \in Tasks, Settle(t)
      PROVE  LeaseInv'
  <2>1. InFlight' = InFlight \ {t}
    BY <1>4, <1>0 DEF Settle, Move, InFlight, TypeOK
  <2>. QED  BY <1>0, <1>4, <2>1, LeaseInvRelease DEF Settle, ReleaseSlot
<1>5. ASSUME NEW t \in Tasks, TaskStep(t), ~Settle(t)
      PROVE  LeaseInv'
  <2>1. UNCHANGED <<readers, writer, leased>>
    BY <1>5 DEF TaskStep, CapacityGranted, CapacityRefused, StartedAppended, ExecutorReturns,
       ExecutorThrows, SucceededAppended, FailedAppended, coordinatorVars
  <2>2. exec[t] \notin {"idle", "settled"} /\ \E to : exec' = [exec EXCEPT ![t] = to]
    BY <1>5 DEF TaskStep, CapacityGranted, CapacityRefused, StartedAppended, ExecutorReturns,
       ExecutorThrows, SucceededAppended, FailedAppended, Move
  <2>3. InFlight' \subseteq InFlight
    BY <2>2, <1>0 DEF InFlight, TypeOK
  <2>. QED  BY <1>0, <2>1, <2>3, LeaseInvFrame
<1>6. CASE UNCHANGED vars
  <2>1. exec' = exec /\ UNCHANGED <<readers, writer, leased>>
    BY <1>6 DEF vars, taskVars, coordinatorVars
  <2>. QED  BY <1>0, <2>1, LeaseInvFrame DEF InFlight
<1>. QED  BY <1>1, <1>2, <1>3, <1>4, <1>5, <1>6 DEF Next, Terminating

\* Leases in order exclude each other.
LEMMA LeaseInvExcludes == LeaseInv => LeaseExclusion
<1>. SUFFICES ASSUME LeaseInv, NEW t \in InFlight, NEW u \in InFlight, t # u,
                     LeaseKey[t] = LeaseKey[u], Access[t] # "none", Access[u] # "none"
              PROVE  Access[t] = "read" /\ Access[u] = "read"
  BY DEF LeaseExclusion, Slots!Compatible
<1>1. /\ t \in Tasks /\ u \in Tasks /\ LeaseKey[t] \in LeaseKeys
      /\ t # NoTask /\ u # NoTask
      /\ Access[t] \in {"read", "write"} /\ Access[u] \in {"read", "write"}
  BY CoordinatorAssumption DEF InFlight
<1>. QED  BY <1>1 DEF LeaseInv, TableCoversExecutions, WriterAlone

\* Lease exclusion: whatever the tasks, Runs, aborts and failing appends, two
\* executions in flight on one leased workspace only read it.
THEOREM LeaseExclusionCorrect == Spec => []LeaseExclusion
  BY LeaseInvInit, LeaseInvStep, LeaseInvExcludes, PTL DEF Spec

-----------------------------------------------------------------------------
(***************************************************************************)
(* What a step may move.  Only StartTask puts a task in flight and only    *)
(* Settle takes one out; every other step leaves the executions, the lease *)
(* table and the loads alone.                                              *)
(***************************************************************************)
accountVars == <<readers, writer, leased, activeCount, agentLoad>>

\* A start takes a free slot for a task of the Run.
LEMMA StartEnters ==
  ASSUME TypeOK, NEW r \in Runs, NEW a \in Agents, StartTask(r, a)
  PROVE  LET t == Order[r][cursor] IN
         /\ t \in Tasks /\ RunOf[t] = r /\ CanAcquire(t) /\ AcquireSlot(t)
         /\ status[t] = "queued" /\ \A d \in DependsOn[t] : status[d] = "succeeded"
         /\ a \in CanServe[t] /\ agentLoad[r][a] < MaxParallel[a]
         /\ InFlight' = InFlight \cup {t}
<1>. DEFINE t == Order[r][cursor]
<1>1. cursor \in DOMAIN Order[r]
  BY SchedulerAssumption DEF StartTask, SweepOver, TypeOK
<1>2. t \in Tasks /\ RunOf[t] = r
  BY <1>1, SchedulerAssumption
<1>3. exec'[t] \notin {"idle", "settled"} /\ \A u \in Tasks \ {t} : exec'[u] = exec[u]
  BY <1>2 DEF StartTask, TypeOK
<1>. QED  BY <1>2, <1>3 DEF StartTask, Startable, SelectedAgents, FreeAgents, InFlight

\* A settled task leaves its slot, and no other.
LEMMA SettleLeaves ==
  ASSUME TypeOK, NEW t \in Tasks, Settle(t)
  PROVE  t \in InFlight /\ InFlight' = InFlight \ {t}
  BY DEF Settle, Move, InFlight, TypeOK

\* A step of the loop that starts nothing touches no slot.
LEMMA LoopStepKeeps ==
  ASSUME NEW r \in Runs, LoopStep(r), \A a \in Agents : ~StartTask(r, a)
  PROVE  UNCHANGED <<exec, agentOf, capacity, rejected, InFlight, accountVars>>
  BY DEF LoopStep, LoopExit, LoopBody, LoopAppended, CancelQueuedTask, BlockTask, Return,
     CancelDone, BlockDone, SkipTask, SweepDone, DecideToRace, DecideToReturn, DecideToWait,
     WaitOver, RaceOver, taskVars, coordinatorVars, accountVars, ReadVersion, Park, InFlight

\* A step of a task that does not settle it touches no slot.
LEMMA TaskStepKeeps ==
  ASSUME TypeOK, NEW t \in Tasks, TaskStep(t), ~Settle(t)
  PROVE  UNCHANGED <<agentOf, loop, cursor, aborted, InFlight, accountVars>>
<1>1. UNCHANGED <<agentOf, loop, cursor, aborted, accountVars>>
  BY DEF TaskStep, CapacityGranted, CapacityRefused, StartedAppended, ExecutorReturns,
     ExecutorThrows, SucceededAppended, FailedAppended, coordinatorVars, accountVars, loopVars
<1>2. /\ exec[t] \notin {"idle", "settled"}
      /\ \E to \in ExecPhases \ {"idle", "settled"} : exec' = [exec EXCEPT ![t] = to]
  BY DEF TaskStep, CapacityGranted, CapacityRefused, StartedAppended, ExecutorReturns,
     ExecutorThrows, SucceededAppended, FailedAppended, Move, ExecPhases
<1>3. InFlight' = InFlight
  BY <1>2 DEF InFlight, TypeOK
<1>. QED  BY <1>1, <1>3

\* An abort touches no slot.
LEMMA AbortKeeps ==
  ASSUME NEW r \in Runs, Abort(r)
  PROVE  UNCHANGED <<taskVars, loopVars, InFlight, accountVars>>
  BY DEF Abort, Unpark, taskVars, loopVars, accountVars, InFlight

\* Nor does a stutter.
LEMMA StutterKeeps ==
  UNCHANGED vars => UNCHANGED <<taskVars, loopVars, aborted, InFlight, accountVars>>
  BY DEF vars, taskVars, loopVars, coordinatorVars, accountVars, InFlight

-----------------------------------------------------------------------------
(***************************************************************************)
(* The books of the coordinator.  A queued task was not started, or waits  *)
(* for a process capacity slot with its lease already registered: so what  *)
(* StartTask adds was in neither count nor table.                          *)
(***************************************************************************)
QueuedNotStarted == \A t \in Tasks :
  status[t] = "queued" => exec[t] = "idle" \/ (exec[t] = "capacity" /\ UseCapacity)

BooksInv == LeaseInv /\ IsFiniteSet(InFlight) /\ CoordinatorAccounting /\ QueuedNotStarted

\* The books are right at the start.
LEMMA FirstBooks == Init => BooksInv
<1>. SUFFICES ASSUME Init
              PROVE  BooksInv
  OBVIOUS
<1>1. LeaseInv
  BY LeaseInvInit
<1>2. InFlight = {}
  BY DEF Init, InFlight
<1>3. IsFiniteSet(InFlight) /\ Cardinality(InFlight) = 0
  BY <1>2, FS_EmptySet
<1>4. CoordinatorAccounting
  BY <1>2, <1>3, CoordinatorAssumption DEF Init, CoordinatorInit, CoordinatorAccounting
<1>5. QueuedNotStarted
  BY DEF Init, QueuedNotStarted
<1>. QED  BY <1>1, <1>3, <1>4, <1>5 DEF BooksInv

\* What is startable is not in flight: without a lease it never waits while
\* queued, and with one its lease is in the table until it settles.
LEMMA StartableIsNew ==
  ASSUME BooksInv, NEW t \in Tasks, status[t] = "queued", CanAcquire(t)
  PROVE  t \notin InFlight /\ t \notin leased
<1>1. CASE Access[t] = "none"
  BY <1>1, SchedulerAssumption DEF BooksInv, QueuedNotStarted, InFlight, CoordinatorAccounting
<1>2. CASE Access[t] # "none"
  BY <1>2 DEF BooksInv, CoordinatorAccounting, CanAcquire, CanAcquireLease
<1>. QED  BY <1>1, <1>2

\* StartTask books one more execution.
LEMMA AcquireBooks ==
  ASSUME BooksInv, NEW t \in Tasks, t \notin InFlight, t \notin leased,
         CanAcquire(t), AcquireSlot(t), InFlight' = InFlight \cup {t}
  PROVE  IsFiniteSet(InFlight)' /\ CoordinatorAccounting'
<1>. USE DEF BooksInv
<1>0. /\ readers \in [LeaseKeys -> SUBSET Tasks] /\ writer \in [LeaseKeys -> Tasks \cup {NoTask}]
      /\ activeCount \in Int /\ leased \subseteq Tasks
  BY DEF LeaseInv, TypeOK, CoordinatorTypeOK
<1>1. IsFiniteSet(InFlight)' /\ Cardinality(InFlight') = Cardinality(InFlight) + 1
  BY FS_AddElement
<1>2. activeCount' = Cardinality(InFlight') /\ activeCount' <= GlobalConcurrency
  BY <1>0, <1>1, CoordinatorAssumption DEF CoordinatorAccounting, AcquireSlot, CanAcquire
<1>3. leased' = {u \in InFlight' : Access[u] # "none"}
  BY DEF CoordinatorAccounting, AcquireSlot, AcquireLease
<1>k. LeaseKey[t] \in LeaseKeys /\ Access[t] \in {"none", "read", "write"} /\ t # NoTask
  BY CoordinatorAssumption
<1>4. ASSUME NEW k \in LeaseKeys
      PROVE  readers'[k] = {u \in leased' : Access[u] = "read" /\ LeaseKey[u] = k}
  BY <1>0, <1>k DEF CoordinatorAccounting, AcquireSlot, AcquireLease
<1>5. ASSUME NEW k \in LeaseKeys
      PROVE  {writer'[k]} \ {NoTask} = {u \in leased' : Access[u] = "write" /\ LeaseKey[u] = k}
  <2>. DEFINE old == {u \in leased : Access[u] = "write" /\ LeaseKey[u] = k}
  <2>1. {writer[k]} \ {NoTask} = old
    BY DEF CoordinatorAccounting
  <2>2. CASE Access[t] = "write" /\ LeaseKey[t] = k
    <3>1. writer[k] = NoTask
      BY <2>2 DEF CanAcquire, CanAcquireLease
    <3>2. old = {}
      BY <2>1, <3>1
    <3>3. writer'[k] = t /\ leased' = leased \cup {t}
      BY <2>2, <1>0, <1>k DEF AcquireSlot, AcquireLease
    <3>. QED  BY <2>2, <3>2, <3>3, <1>k
  <2>3. CASE ~(Access[t] = "write" /\ LeaseKey[t] = k)
    <3>1. writer'[k] = writer[k]
      BY <2>3, <1>0, <1>k DEF AcquireSlot, AcquireLease
    <3>2. {u \in leased' : Access[u] = "write" /\ LeaseKey[u] = k} = old
      BY <2>3 DEF AcquireSlot, AcquireLease
    <3>. QED  BY <2>1, <3>1, <3>2
  <2>. QED  BY <2>2, <2>3
<1>. QED  BY <1>1, <1>2, <1>3, <1>4, <1>5 DEF CoordinatorAccounting

\* Settle takes one execution off the books.
LEMMA ReleaseBooks ==
  ASSUME BooksInv, NEW t \in InFlight, ReleaseSlot(t), InFlight' = InFlight \ {t}
  PROVE  IsFiniteSet(InFlight)' /\ CoordinatorAccounting'
<1>. USE DEF BooksInv
<1>0. /\ readers \in [LeaseKeys -> SUBSET Tasks] /\ writer \in [LeaseKeys -> Tasks \cup {NoTask}]
      /\ activeCount \in Int /\ leased \subseteq Tasks /\ t \in Tasks
  BY DEF LeaseInv, TypeOK, CoordinatorTypeOK, InFlight
<1>1. IsFiniteSet(InFlight)' /\ Cardinality(InFlight') = Cardinality(InFlight) - 1
  BY FS_RemoveElement
<1>2. activeCount' = Cardinality(InFlight') /\ activeCount' <= GlobalConcurrency
  BY <1>0, <1>1, CoordinatorAssumption DEF CoordinatorAccounting, ReleaseSlot
<1>3. leased' = {u \in InFlight' : Access[u] # "none"}
  BY DEF CoordinatorAccounting, ReleaseSlot, ReleaseLease
<1>k. LeaseKey[t] \in LeaseKeys /\ Access[t] \in {"none", "read", "write"} /\ t # NoTask
  BY <1>0, CoordinatorAssumption
<1>l. leased' = leased \ {t}
  BY DEF ReleaseSlot, ReleaseLease
<1>4. ASSUME NEW k \in LeaseKeys
      PROVE  readers'[k] = {u \in leased' : Access[u] = "read" /\ LeaseKey[u] = k}
  <2>. DEFINE old == {u \in leased : Access[u] = "read" /\ LeaseKey[u] = k}
  <2>1. readers[k] = old
    BY DEF CoordinatorAccounting
  <2>2. {u \in leased' : Access[u] = "read" /\ LeaseKey[u] = k} = old \ {t}
    BY <1>l
  <2>3. readers'[k] = old \ {t}
    BY <2>1, <1>0, <1>k DEF ReleaseSlot, ReleaseLease
  <2>. QED  BY <2>2, <2>3
<1>5. ASSUME NEW k \in LeaseKeys
      PROVE  {writer'[k]} \ {NoTask} = {u \in leased' : Access[u] = "write" /\ LeaseKey[u] = k}
  <2>. DEFINE old == {u \in leased : Access[u] = "write" /\ LeaseKey[u] = k}
  <2>1. {writer[k]} \ {NoTask} = old
    BY DEF CoordinatorAccounting
  <2>2. {u \in leased' : Access[u] = "write" /\ LeaseKey[u] = k} = old \ {t}
    BY <1>l
  <2>3. CASE t \in old
    BY <2>1, <2>2, <2>3, <1>0, <1>k DEF ReleaseSlot, ReleaseLease
  <2>4. CASE t \notin old
    <3>1. t \in leased => ~(Access[t] = "write" /\ LeaseKey[t] = k)
      BY <2>4
    <3>2. writer'[k] = writer[k]
      BY <3>1, <1>0, <1>k DEF ReleaseSlot, ReleaseLease
    <3>. QED  BY <2>1, <2>2, <2>4, <3>2
  <2>. QED  BY <2>3, <2>4
<1>. QED  BY <1>1, <1>2, <1>3, <1>4, <1>5 DEF CoordinatorAccounting

\* A queued task stays unstarted, whatever steps.
LEMMA QueuedStep ==
  ASSUME TypeOK, QueuedNotStarted, [Next]_vars
  PROVE  QueuedNotStarted'
<1>. USE DEF QueuedNotStarted
<1>1. ASSUME NEW r \in Runs, NEW a \in Agents, StartTask(r, a)
      PROVE  QueuedNotStarted'
  <2>1. Order[r][cursor] \in Tasks
    BY <1>1, StartEnters
  <2>. QED  BY <1>1, <2>1 DEF StartTask, TypeOK
<1>2. ASSUME NEW r \in Runs, LoopStep(r), \A a \in Agents : ~StartTask(r, a)
      PROVE  QueuedNotStarted'
  <2>1. exec' = exec
    BY <1>2, LoopStepKeeps
  <2>2. \A t \in Tasks : status'[t] = "queued" => status[t] = "queued"
    BY <1>2 DEF LoopStep, LoopExit, LoopBody, LoopAppended, CancelQueuedTask, BlockTask,
       CancelDone, BlockDone, SkipTask, SweepDone, DecideToRace, DecideToReturn, DecideToWait,
       WaitOver, RaceOver, taskVars, TypeOK
  <2>. QED  BY <2>1, <2>2
<1>3. ASSUME NEW r \in Runs, Abort(r)
      PROVE  QueuedNotStarted'
  BY <1>3, AbortKeeps DEF taskVars
<1>4. ASSUME NEW t \in Tasks, TaskStep(t)
      PROVE  QueuedNotStarted'
  BY <1>4 DEF TaskStep, CapacityGranted, CapacityRefused, StartedAppended, ExecutorReturns,
     ExecutorThrows, SucceededAppended, FailedAppended, Settle, Move, Fail, TypeOK
<1>5. CASE UNCHANGED vars
  BY <1>5, StutterKeeps DEF taskVars
<1>. QED  BY <1>1, <1>2, <1>3, <1>4, <1>5 DEF Next, Terminating

\* Every step keeps them right.
LEMMA BooksStep == BooksInv /\ [Next]_vars => BooksInv'
<1>. SUFFICES ASSUME BooksInv, [Next]_vars
              PROVE  IsFiniteSet(InFlight)' /\ CoordinatorAccounting'
  BY LeaseInvStep, QueuedStep DEF BooksInv, LeaseInv
<1>0. TypeOK
  BY DEF BooksInv, LeaseInv
<1>f. UNCHANGED <<InFlight, accountVars>> => IsFiniteSet(InFlight)' /\ CoordinatorAccounting'
  BY DEF BooksInv, CoordinatorAccounting, accountVars
<1>1. ASSUME NEW r \in Runs, NEW a \in Agents, StartTask(r, a)
      PROVE  IsFiniteSet(InFlight)' /\ CoordinatorAccounting'
  BY <1>0, <1>1, StartEnters, StartableIsNew, AcquireBooks
<1>2. ASSUME NEW r \in Runs, LoopStep(r), \A a \in Agents : ~StartTask(r, a)
      PROVE  IsFiniteSet(InFlight)' /\ CoordinatorAccounting'
  BY <1>f, <1>2, LoopStepKeeps
<1>3. ASSUME NEW r \in Runs, Abort(r)
      PROVE  IsFiniteSet(InFlight)' /\ CoordinatorAccounting'
  BY <1>f, <1>3, AbortKeeps
<1>4. ASSUME NEW t \in Tasks, Settle(t)
      PROVE  IsFiniteSet(InFlight)' /\ CoordinatorAccounting'
  <2>1. ReleaseSlot(t)
    BY <1>4 DEF Settle
  <2>. QED  BY <1>0, <1>4, <2>1, SettleLeaves, ReleaseBooks
<1>5. ASSUME NEW t \in Tasks, TaskStep(t), ~Settle(t)
      PROVE  IsFiniteSet(InFlight)' /\ CoordinatorAccounting'
  BY <1>0, <1>f, <1>5, TaskStepKeeps
<1>6. CASE UNCHANGED vars
  BY <1>f, <1>6, StutterKeeps
<1>. QED  BY <1>1, <1>2, <1>3, <1>4, <1>5, <1>6 DEF Next, Terminating

-----------------------------------------------------------------------------
(***************************************************************************)
(* The limits.  agentLoad is what selectAgent consults, so the induction   *)
(* needs it to be the number of executions that were given to the agent.   *)
(***************************************************************************)
Carried(r, a) == {t \in Running(r) : agentOf[t] = a}

LoadsAreCounted ==
  /\ \A t \in InFlight : agentOf[t] \in Agents
  /\ \A r \in Runs, a \in Agents : agentLoad[r][a] = Cardinality(Carried(r, a))

CountsInv == BooksInv /\ LoadsAreCounted /\ IsFiniteSet(capacity) /\ ConcurrencyLimits

\* The counts are right at the start.
LEMMA FirstCounts == Init => CountsInv
<1>. SUFFICES ASSUME Init
              PROVE  CountsInv
  OBVIOUS
<1>1. InFlight = {} /\ capacity = {}
  BY DEF Init, InFlight
<1>2. \A r \in Runs : Running(r) = {} /\ \A a \in Agents : Carried(r, a) = {}
  BY <1>1 DEF Running, Carried
<1>3. IsFiniteSet({}) /\ Cardinality({}) = 0
  BY FS_EmptySet
<1>4. LoadsAreCounted
  BY <1>1, <1>2, <1>3 DEF Init, LoadsAreCounted
<1>5. ConcurrencyLimits
  <2>1. ASSUME NEW r \in Runs
        PROVE  Cardinality(Running(r)) <= RunConcurrency
    <3>1. RunConcurrency \in Nat
      BY SchedulerAssumption
    <3>. QED  BY <1>2, <1>3, <3>1
  <2>2. ASSUME NEW r \in Runs, NEW a \in Agents
        PROVE  Cardinality(Carried(r, a)) <= MaxParallel[a]
    <3>1. MaxParallel[a] \in Nat
      BY SchedulerAssumption
    <3>. QED  BY <1>2, <1>3, <3>1
  <2>3. Cardinality(capacity) <= CapacitySlots
    BY <1>1, <1>3, SchedulerAssumption
  <2>. QED  BY <1>1, <2>1, <2>2, <2>3 DEF ConcurrencyLimits, Carried
<1>. QED  BY <1>1, <1>3, <1>4, <1>5, FirstBooks DEF CountsInv

\* The parts of a finite set of executions are finite.
LEMMA PartsAreFinite ==
  ASSUME IsFiniteSet(InFlight), NEW r \in Runs, NEW a \in Agents
  PROVE  IsFiniteSet(Running(r)) /\ IsFiniteSet(Carried(r, a))
<1>1. Running(r) \in SUBSET InFlight /\ Carried(r, a) \in SUBSET InFlight
  BY DEF Running, Carried
<1>. QED  BY <1>1, FS_Subset

\* StartTask: the Run and the agent had room, and one execution more is
\* counted for each; those of other Runs and agents are as before.
LEMMA StartCounts ==
  ASSUME CountsInv, BooksInv', NEW r \in Runs, NEW a \in Agents, StartTask(r, a)
  PROVE  LoadsAreCounted' /\ ConcurrencyLimits'
<1>. DEFINE t == Order[r][cursor]
<1>. USE DEF CountsInv
<1>0. TypeOK /\ IsFiniteSet(InFlight)
  BY DEF BooksInv, LeaseInv
<1>1. /\ t \in Tasks /\ RunOf[t] = r /\ a \in Agents /\ agentLoad[r][a] < MaxParallel[a]
      /\ InFlight' = InFlight \cup {t} /\ t \notin InFlight
  BY <1>0, StartEnters, StartableIsNew
<1>2. /\ agentOf' = [agentOf EXCEPT ![t] = a] /\ capacity' = capacity
      /\ agentLoad' = [agentLoad EXCEPT ![r][a] = @ + 1]
      /\ exec' = [exec EXCEPT ![t] = IF UseCapacity THEN "capacity" ELSE "starting"]
      /\ ~(Cardinality(Running(r)) >= RunConcurrency)
  BY DEF StartTask, SweepOver
<1>3. Running(r)' = Running(r) \cup {t} /\ \A q \in Runs \ {r} : Running(q)' = Running(q)
  BY <1>1 DEF Running, TasksOf
<1>4. Carried(r, a)' = Carried(r, a) \cup {t} /\ t \notin Carried(r, a)
  BY <1>0, <1>1, <1>2, <1>3 DEF Carried, TypeOK, Running, InFlight
<1>5. ASSUME NEW q \in Runs, NEW b \in Agents, q # r \/ b # a
      PROVE  Carried(q, b)' = Carried(q, b)
  <2>1. \A u \in InFlight : agentOf'[u] = agentOf[u]
    BY <1>0, <1>1, <1>2 DEF TypeOK, InFlight
  <2>2. CASE q # r
    BY <1>3, <2>1, <2>2 DEF Carried, Running
  <2>3. CASE q = r /\ b # a
    <3>1. agentOf'[t] = a
      BY <1>0, <1>1, <1>2 DEF TypeOK
    <3>. QED  BY <1>3, <2>1, <2>3, <3>1 DEF Carried, Running
  <2>. QED  BY <1>5, <2>2, <2>3
<1>6. /\ Cardinality(Running(r)') = Cardinality(Running(r)) + 1
      /\ Cardinality(Carried(r, a)') = Cardinality(Carried(r, a)) + 1
      /\ Cardinality(Running(r)) \in Nat /\ Cardinality(Carried(r, a)) \in Nat
  <2>1. t \notin Running(r)
    BY <1>1 DEF Running
  <2>. QED  BY <1>0, <1>3, <1>4, <2>1, PartsAreFinite, FS_AddElement, FS_CardinalityType
<1>7. LoadsAreCounted'
  <2>1. \A u \in InFlight' : agentOf'[u] \in Agents
    BY <1>0, <1>1, <1>2 DEF LoadsAreCounted, TypeOK, InFlight
  <2>2. ASSUME NEW q \in Runs, NEW b \in Agents
        PROVE  agentLoad'[q][b] = Cardinality(Carried(q, b)')
    <3>1. agentLoad[q][b] = Cardinality(Carried(q, b))
      BY DEF LoadsAreCounted
    <3>2. CASE q = r /\ b = a
      <4>1. agentLoad'[q][b] = agentLoad[q][b] + 1
        BY <1>0, <1>2, <3>2 DEF TypeOK
      <4>. QED  BY <1>6, <3>1, <3>2, <4>1
    <3>3. CASE q # r \/ b # a
      <4>1. agentLoad'[q][b] = agentLoad[q][b]
        BY <1>0, <1>2, <3>3 DEF TypeOK
      <4>. QED  BY <1>5, <3>1, <3>3, <4>1
    <3>. QED  BY <3>2, <3>3
  <2>. QED  BY <2>1, <2>2 DEF LoadsAreCounted
<1>8. ConcurrencyLimits'
  <2>1. ASSUME NEW q \in Runs
        PROVE  Cardinality(Running(q)') <= RunConcurrency
    <3>1. CASE q = r
      BY <1>2, <1>6, <3>1, SchedulerAssumption
    <3>2. CASE q # r
      BY <1>3, <3>2 DEF ConcurrencyLimits
    <3>. QED  BY <3>1, <3>2
  <2>2. ASSUME NEW q \in Runs, NEW b \in Agents
        PROVE  Cardinality(Carried(q, b)') <= MaxParallel[b]
    <3>1. CASE q = r /\ b = a
      <4>1. Cardinality(Carried(r, a)) < MaxParallel[a]
        BY <1>1 DEF LoadsAreCounted
      <4>. QED  BY <1>6, <3>1, <4>1, SchedulerAssumption
    <3>2. CASE q # r \/ b # a
      BY <1>5, <3>2 DEF ConcurrencyLimits, Carried
    <3>. QED  BY <3>1, <3>2
  <2>3. ASSUME UseCapacity
        PROVE  /\ {u \in InFlight' : exec'[u] \in {"starting", "executing"}} \subseteq capacity'
               /\ Cardinality(capacity') <= CapacitySlots
    <3>1. \A u \in InFlight' : exec'[u] \in {"starting", "executing"} =>
            u \in InFlight /\ exec[u] \in {"starting", "executing"}
      BY <1>0, <1>1, <1>2, <2>3 DEF TypeOK, InFlight
    <3>. QED  BY <1>2, <2>3, <3>1 DEF ConcurrencyLimits
  <2>. QED  BY <2>1, <2>2, <2>3 DEF ConcurrencyLimits, Carried
<1>. QED  BY <1>7, <1>8

\* Settle: one execution less for its Run and its agent.
LEMMA SettleCounts ==
  ASSUME CountsInv, BooksInv', NEW t \in Tasks, Settle(t)
  PROVE  LoadsAreCounted' /\ IsFiniteSet(capacity') /\ ConcurrencyLimits'
<1>. USE DEF CountsInv
<1>0. TypeOK /\ IsFiniteSet(InFlight)
  BY DEF BooksInv, LeaseInv
<1>r. PICK r \in Runs : r = RunOf[t]
  BY SchedulerAssumption
<1>a. PICK a \in Agents : a = agentOf[t]
  BY <1>0, SettleLeaves DEF LoadsAreCounted
<1>1. t \in InFlight /\ InFlight' = InFlight \ {t}
  BY <1>0, SettleLeaves
<1>2. /\ agentOf' = agentOf /\ capacity' = capacity \ {t}
      /\ agentLoad' = [agentLoad EXCEPT ![r][a] = @ - 1]
      /\ exec' = [exec EXCEPT ![t] = "settled"]
  BY <1>r, <1>a DEF Settle, Move
<1>3. Running(r)' = Running(r) \ {t} /\ \A q \in Runs \ {r} : Running(q)' = Running(q)
  BY <1>r, <1>1 DEF Running, TasksOf
<1>4. /\ Carried(r, a)' = Carried(r, a) \ {t} /\ t \in Carried(r, a)
      /\ \A q \in Runs, b \in Agents : q # r \/ b # a => Carried(q, b)' = Carried(q, b)
  BY <1>r, <1>a, <1>1, <1>2, <1>3 DEF Carried, Running, TasksOf, InFlight
<1>5. /\ Cardinality(Carried(r, a)') = Cardinality(Carried(r, a)) - 1
      /\ Cardinality(Carried(r, a)) \in Nat
  BY <1>0, <1>1, <1>4, PartsAreFinite, FS_RemoveElement, FS_CardinalityType
<1>6. LoadsAreCounted'
  <2>1. \A u \in InFlight' : agentOf'[u] \in Agents
    BY <1>1, <1>2 DEF LoadsAreCounted
  <2>2. ASSUME NEW q \in Runs, NEW b \in Agents
        PROVE  agentLoad'[q][b] = Cardinality(Carried(q, b)')
    <3>1. agentLoad[q][b] = Cardinality(Carried(q, b))
      BY DEF LoadsAreCounted
    <3>2. CASE q = r /\ b = a
      <4>1. agentLoad'[q][b] = agentLoad[q][b] - 1
        BY <1>0, <1>2, <3>2 DEF TypeOK
      <4>. QED  BY <1>5, <3>1, <3>2, <4>1
    <3>3. CASE q # r \/ b # a
      <4>1. agentLoad'[q][b] = agentLoad[q][b]
        BY <1>0, <1>2, <3>3 DEF TypeOK
      <4>. QED  BY <1>4, <3>1, <3>3, <4>1
    <3>. QED  BY <3>2, <3>3
  <2>. QED  BY <2>1, <2>2 DEF LoadsAreCounted
<1>7. IsFiniteSet(capacity') /\ (UseCapacity => Cardinality(capacity') <= CapacitySlots)
  <2>1. /\ IsFiniteSet(capacity') /\ Cardinality(capacity) \in Nat
        /\ Cardinality(capacity') \in {Cardinality(capacity), Cardinality(capacity) - 1}
    BY <1>2, FS_RemoveElement, FS_CardinalityType
  <2>. QED  BY <2>1, SchedulerAssumption DEF ConcurrencyLimits
<1>8. ConcurrencyLimits'
  <2>1. ASSUME NEW q \in Runs
        PROVE  Cardinality(Running(q)') <= RunConcurrency
    <3>1. CASE q = r
      <4>1. IsFiniteSet(Running(r)) /\ Cardinality(Running(r)) \in Nat
        BY <1>0, PartsAreFinite, FS_CardinalityType
      <4>2. Cardinality(Running(r)') \in {Cardinality(Running(r)), Cardinality(Running(r)) - 1}
        BY <1>3, <4>1, FS_RemoveElement, ZenonT(60)
      <4>. QED  BY <3>1, <4>1, <4>2, SchedulerAssumption DEF ConcurrencyLimits
    <3>2. CASE q # r
      BY <1>3, <3>2 DEF ConcurrencyLimits
    <3>. QED  BY <3>1, <3>2
  <2>2. ASSUME NEW q \in Runs, NEW b \in Agents
        PROVE  Cardinality(Carried(q, b)') <= MaxParallel[b]
    <3>1. Cardinality(Carried(q, b)) <= MaxParallel[b]
      BY DEF ConcurrencyLimits, Carried
    <3>2. CASE q = r /\ b = a
      <4>1. MaxParallel[b] \in Nat
        BY SchedulerAssumption
      <4>. QED  BY <1>5, <3>1, <3>2, <4>1
    <3>3. CASE q # r \/ b # a
      BY <1>4, <3>1, <3>3
    <3>. QED  BY <3>2, <3>3
  <2>3. ASSUME UseCapacity
        PROVE  {u \in InFlight' : exec'[u] \in {"starting", "executing"}} \subseteq capacity'
    BY <1>0, <1>1, <1>2, <2>3 DEF ConcurrencyLimits, TypeOK
  <2>. QED  BY <1>7, <2>1, <2>2, <2>3 DEF ConcurrencyLimits, Carried
<1>. QED  BY <1>6, <1>7, <1>8

\* A step that moves no execution in or out of flight: an execution works on
\* only with a slot, and CapacityGranted took one that was free.
LEMMA OtherCounts ==
  ASSUME CountsInv, UNCHANGED <<InFlight, agentOf, agentLoad>>, IsFiniteSet(capacity'),
         UseCapacity =>
           /\ \A t \in InFlight : exec'[t] \in {"starting", "executing"} => t \in capacity'
           /\ Cardinality(capacity') <= CapacitySlots
  PROVE  LoadsAreCounted' /\ ConcurrencyLimits'
<1>1. \A r \in Runs : Running(r)' = Running(r) /\ \A a \in Agents : Carried(r, a)' = Carried(r, a)
  BY DEF Running, Carried
<1>2. LoadsAreCounted'
  BY <1>1 DEF CountsInv, LoadsAreCounted
<1>3. ConcurrencyLimits'
  BY <1>1 DEF CountsInv, ConcurrencyLimits, Carried
<1>. QED  BY <1>2, <1>3

\* Every step keeps them right.
LEMMA CountsStep == CountsInv /\ [Next]_vars => CountsInv'
<1>. SUFFICES ASSUME CountsInv, [Next]_vars
              PROVE  LoadsAreCounted' /\ IsFiniteSet(capacity') /\ ConcurrencyLimits'
  BY BooksStep DEF CountsInv
<1>0. TypeOK /\ BooksInv' /\ IsFiniteSet(capacity)
  BY BooksStep DEF CountsInv, BooksInv, LeaseInv
<1>w. UseCapacity => /\ \A t \in InFlight : exec[t] \in {"starting", "executing"} => t \in capacity
                     /\ Cardinality(capacity) <= CapacitySlots
  BY DEF CountsInv, ConcurrencyLimits
<1>f. UNCHANGED <<exec, InFlight, agentOf, agentLoad, capacity>> =>
        LoadsAreCounted' /\ IsFiniteSet(capacity') /\ ConcurrencyLimits'
  BY <1>0, <1>w, OtherCounts
<1>1. ASSUME NEW r \in Runs, NEW a \in Agents, StartTask(r, a)
      PROVE  LoadsAreCounted' /\ IsFiniteSet(capacity') /\ ConcurrencyLimits'
  <2>1. capacity' = capacity
    BY <1>1 DEF StartTask
  <2>. QED  BY <1>0, <1>1, <2>1, StartCounts
<1>2. ASSUME NEW r \in Runs, LoopStep(r), \A a \in Agents : ~StartTask(r, a)
      PROVE  LoadsAreCounted' /\ IsFiniteSet(capacity') /\ ConcurrencyLimits'
  BY <1>f, <1>2, LoopStepKeeps DEF accountVars
<1>3. ASSUME NEW r \in Runs, Abort(r)
      PROVE  LoadsAreCounted' /\ IsFiniteSet(capacity') /\ ConcurrencyLimits'
  BY <1>f, <1>3, AbortKeeps DEF taskVars
<1>4. ASSUME NEW t \in Tasks, Settle(t)
      PROVE  LoadsAreCounted' /\ IsFiniteSet(capacity') /\ ConcurrencyLimits'
  BY <1>0, <1>4, SettleCounts
<1>5. ASSUME NEW t \in Tasks, TaskStep(t), ~Settle(t)
      PROVE  LoadsAreCounted' /\ IsFiniteSet(capacity') /\ ConcurrencyLimits'
  <2>1. UNCHANGED <<InFlight, agentOf, agentLoad>>
    BY <1>0, <1>5, TaskStepKeeps DEF accountVars
  <2>2. CASE CapacityGranted(t)
    <3>1. capacity' = capacity \cup {t} /\ Cardinality(capacity) < CapacitySlots
      BY <2>2 DEF CapacityGranted
    <3>2. IsFiniteSet(capacity') /\ Cardinality(capacity') <= CapacitySlots
      <4>1. Cardinality(capacity) \in Nat
        BY <1>0, FS_CardinalityType
      <4>2. IsFiniteSet(capacity') /\ Cardinality(capacity') <= Cardinality(capacity) + 1
        BY <1>0, <3>1, <4>1, FS_AddElement, SMTT(60)
      <4>3. Cardinality(capacity') \in Nat
        BY <4>2, FS_CardinalityType
      <4>. QED  BY <3>1, <4>1, <4>2, <4>3, SchedulerAssumption
    <3>3. \A u \in InFlight : u # t => exec'[u] = exec[u]
      BY <1>0, <2>2 DEF CapacityGranted, Move, TypeOK, InFlight
    <3>. QED  BY <1>w, <2>1, <3>1, <3>2, <3>3, OtherCounts
  <2>3. CASE ~CapacityGranted(t)
    <3>1. capacity' = capacity
      BY <1>5, <2>3 DEF TaskStep, CapacityRefused, StartedAppended, ExecutorReturns,
         ExecutorThrows, SucceededAppended, FailedAppended
    <3>2. \A u \in InFlight : exec'[u] \in {"starting", "executing"} =>
                              exec[u] \in {"starting", "executing"}
      BY <1>0, <1>5, <2>3 DEF TaskStep, CapacityRefused, StartedAppended, ExecutorReturns,
         ExecutorThrows, SucceededAppended, FailedAppended, Move, TypeOK, InFlight
    <3>. QED  BY <1>0, <1>w, <2>1, <3>1, <3>2, OtherCounts
  <2>. QED  BY <2>2, <2>3
<1>6. CASE UNCHANGED vars
  BY <1>f, <1>6, StutterKeeps DEF taskVars, accountVars
<1>. QED  BY <1>1, <1>2, <1>3, <1>4, <1>5, <1>6 DEF Next, Terminating

\* Whatever is taken for an execution (the global slot, the lease, the agent's
\* load, the capacity slot) is given back exactly once, over failing appends
\* and files, aborts and returns, and no limit is ever passed.
THEOREM CountsAreKeptCorrect == Spec => []CountsAreKept
<1>1. CountsInv => CountsAreKept
  BY DEF CountsInv, BooksInv, CountsAreKept
<1>. QED  BY <1>1, FirstCounts, CountsStep, PTL DEF Spec

-----------------------------------------------------------------------------
(***************************************************************************)
(* A dependent works on successes that stand.  Without I/O failures a      *)
(* success is final: SucceededAppended may take it back otherwise, after a *)
(* dependent was started on it.                                            *)
(***************************************************************************)
SuccessesStand == \A t \in Tasks :
  /\ status[t] = "succeeded" => exec[t] \in {"idle", "succeeding", "releasing", "settled"}
  /\ exec[t] \in {"capacity", "starting", "executing", "succeeding"} =>
       \A d \in DependsOn[t] : status[d] = "succeeded"

SuccessInv == CountsInv /\ SuccessesStand

\* No task has succeeded at the start.
LEMMA SuccessInit == Init => SuccessInv
  BY FirstCounts DEF Init, SuccessInv, SuccessesStand

\* What one step does to the record of one task (the appends do not fail).
LEMMA SuccessIsFinal ==
  ASSUME ~IoMayFail, SuccessInv, [Next]_vars, NEW d \in Tasks, status[d] = "succeeded"
  PROVE  status'[d] = "succeeded"
<1>. USE DEF SuccessesStand
<1>0. TypeOK /\ exec[d] \in {"idle", "succeeding", "releasing", "settled"}
  BY DEF SuccessInv, CountsInv, BooksInv, LeaseInv
<1>1. ASSUME NEW r \in Runs, NEW a \in Agents, StartTask(r, a)
      PROVE  status'[d] = "succeeded"
  <2>. DEFINE t == Order[r][cursor]
  <2>1. t \in Tasks /\ status[t] = "queued"
    BY <1>0, <1>1, StartEnters
  <2>2. status' = status \/ status' = [status EXCEPT ![t] = "running"]
    BY <1>1 DEF StartTask
  <2>. HIDE DEF t
  <2>3. status \in [Tasks -> TaskStatuses]
    BY <1>0 DEF TypeOK
  <2>. QED  BY <2>1, <2>2, <2>3
<1>2. ASSUME NEW r \in Runs, LoopStep(r), \A a \in Agents : ~StartTask(r, a)
      PROVE  status'[d] = "succeeded"
  BY <1>0, <1>2 DEF LoopStep, LoopExit, LoopBody, LoopAppended, CancelQueuedTask, BlockTask,
     Queued, CancelDone, BlockDone, SkipTask, SweepDone, DecideToRace, DecideToReturn,
     DecideToWait, WaitOver, RaceOver, taskVars, TypeOK
<1>3. ASSUME NEW r \in Runs, Abort(r)
      PROVE  status'[d] = "succeeded"
  BY <1>3, AbortKeeps DEF taskVars
<1>4. ASSUME NEW t \in Tasks, TaskStep(t)
      PROVE  status'[d] = "succeeded"
  BY <1>0, <1>4 DEF TaskStep, CapacityGranted, CapacityRefused, StartedAppended, ExecutorReturns,
     ExecutorThrows, SucceededAppended, FailedAppended, Settle, Move, Fail, TypeOK,
     AppendFailsAndIsCaught
<1>5. CASE UNCHANGED vars
  BY <1>5, StutterKeeps DEF taskVars
<1>. QED  BY <1>1, <1>2, <1>3, <1>4, <1>5 DEF Next, Terminating

\* Every step keeps the successes standing.
LEMMA SuccessStep ==
  ASSUME ~IoMayFail
  PROVE  SuccessInv /\ [Next]_vars => SuccessInv'
<1>. SUFFICES ASSUME SuccessInv, [Next]_vars
              PROVE  SuccessesStand'
  BY CountsStep DEF SuccessInv
<1>. DEFINE Working(t) == exec[t] \in {"capacity", "starting", "executing", "succeeding"}
<1>0. TypeOK /\ BooksInv
  BY DEF SuccessInv, CountsInv, BooksInv, LeaseInv
<1>d. \A t \in Tasks : DependsOn[t] \subseteq Tasks
  BY SchedulerAssumption
<1>s. \A t \in Tasks : status[t] = "succeeded" => status'[t] = "succeeded"
  BY SuccessIsFinal
<1>f. ASSUME \A t \in Tasks : status'[t] = "succeeded" =>
               exec'[t] \in {"idle", "succeeding", "releasing", "settled"},
             \A t \in Tasks : Working(t)' =>
               Working(t) \/ \A d \in DependsOn[t] : status[d] = "succeeded"
      PROVE  SuccessesStand'
  BY <1>f, <1>s, <1>d DEF SuccessInv, SuccessesStand
<1>1. ASSUME NEW r \in Runs, NEW a \in Agents, StartTask(r, a)
      PROVE  SuccessesStand'
  <2>1. /\ Order[r][cursor] \in Tasks /\ status[Order[r][cursor]] = "queued"
        /\ \A d \in DependsOn[Order[r][cursor]] : status[d] = "succeeded"
    BY <1>0, <1>1, StartEnters
  <2>. QED  BY <1>0, <1>1, <1>f, <2>1 DEF StartTask, TypeOK, SuccessInv, SuccessesStand
<1>2. ASSUME NEW r \in Runs, LoopStep(r), \A a \in Agents : ~StartTask(r, a)
      PROVE  SuccessesStand'
  <2>1. exec' = exec
    BY <1>2, LoopStepKeeps
  <2>2. \A t \in Tasks : status'[t] = "succeeded" => status[t] = "succeeded"
    BY <1>0, <1>2 DEF LoopStep, LoopExit, LoopBody, LoopAppended, CancelQueuedTask, BlockTask,
       CancelDone, BlockDone, SkipTask, SweepDone, DecideToRace, DecideToReturn,
       DecideToWait, WaitOver, RaceOver, taskVars, TypeOK
  <2>. QED  BY <1>f, <2>1, <2>2 DEF SuccessInv, SuccessesStand
<1>3. ASSUME NEW r \in Runs, Abort(r)
      PROVE  SuccessesStand'
  BY <1>3, AbortKeeps DEF taskVars, SuccessInv, SuccessesStand
<1>4. ASSUME NEW t \in Tasks, TaskStep(t)
      PROVE  SuccessesStand'
  <2>1. \A u \in Tasks : u # t => status'[u] = status[u] /\ exec'[u] = exec[u]
    BY <1>0, <1>4 DEF TaskStep, CapacityGranted, CapacityRefused, StartedAppended,
       ExecutorReturns, ExecutorThrows, SucceededAppended, FailedAppended, Settle, Move, Fail,
       TypeOK
  <2>2. Working(t)' => Working(t)
    BY <1>0, <1>4 DEF TaskStep, CapacityGranted, CapacityRefused, StartedAppended,
       ExecutorReturns, ExecutorThrows, SucceededAppended, FailedAppended, Settle, Move, TypeOK
  <2>3. status'[t] = "succeeded" =>
          exec'[t] \in {"idle", "succeeding", "releasing", "settled"}
    BY <1>0, <1>4 DEF TaskStep, CapacityGranted, CapacityRefused, StartedAppended,
       ExecutorReturns, ExecutorThrows, SucceededAppended, FailedAppended, Settle, Move, Fail,
       TypeOK, AppendFailsAndIsCaught, SuccessInv, SuccessesStand
  <2>. QED  BY <1>f, <2>1, <2>2, <2>3 DEF SuccessInv, SuccessesStand
<1>5. CASE UNCHANGED vars
  BY <1>5, StutterKeeps DEF taskVars, SuccessInv, SuccessesStand
<1>. QED  BY <1>1, <1>2, <1>3, <1>4, <1>5 DEF Next, Terminating

\* What a task is started on still stands while it works: the books, every
\* limit and the success of all it depends on, unless an append fails.
THEOREM StartsAreSoundCorrect ==
  ASSUME ~IoMayFail
  PROVE  Spec => []StartsAreSound
<1>1. SuccessInv => StartsAreSound
  BY DEF SuccessInv, CountsInv, BooksInv, CountsAreKept, StartsAreSound, DependenciesSucceeded,
     SuccessesStand
<1>2. SuccessInv /\ [Next]_vars => SuccessInv'
  BY SuccessStep
<1>. QED  BY <1>1, <1>2, SuccessInit, PTL DEF Spec

-----------------------------------------------------------------------------
(***************************************************************************)
(* Refinement: StartTask is Acquire, Settle is Release, and every other    *)
(* step leaves the holders alone.                                          *)
(***************************************************************************)
LEMMA StartIsAcquire ==
  ASSUME CountsInv, NEW r \in Runs, NEW a \in Agents, StartTask(r, a)
  PROVE  Slots!Next
<1>. DEFINE t == Order[r][cursor]
<1>. USE DEF CountsInv
<1>1. /\ t \in Tasks /\ CanAcquire(t) /\ t \notin InFlight /\ InFlight' = InFlight \cup {t}
  BY StartEnters, StartableIsNew DEF BooksInv, LeaseInv
<1>2. Slots!Cardinality(InFlight) < GlobalConcurrency
  BY <1>1 DEF CanAcquire, BooksInv, CoordinatorAccounting, Cardinality, Slots!Cardinality
<1>3. ASSUME NEW u \in InFlight
      PROVE  Slots!Compatible(t, u)
  <2>1. u \in Tasks /\ Access[u] \in {"none", "read", "write"} /\ LeaseKey[u] \in LeaseKeys
    BY CoordinatorAssumption DEF InFlight
  <2>2. Access[t] \in {"none", "read", "write"} /\ u # NoTask
    BY <1>1, <2>1, CoordinatorAssumption
  <2>. QED  BY <1>1, <2>1, <2>2 DEF Slots!Compatible, CanAcquire, CanAcquireLease, BooksInv,
            LeaseInv, TableCoversExecutions
<1>. QED  BY <1>1, <1>2, <1>3 DEF Slots!Next, Slots!Acquire

\* Every step is a step of the abstract slots or leaves them as they are.
LEMMA StepIsSlotStep == CountsInv /\ [Next]_vars => [Slots!Next]_InFlight
<1>. SUFFICES ASSUME CountsInv, [Next]_vars
              PROVE  Slots!Next \/ InFlight' = InFlight
  OBVIOUS
<1>0. TypeOK
  BY DEF CountsInv, BooksInv, LeaseInv
<1>1. ASSUME NEW r \in Runs, NEW a \in Agents, StartTask(r, a)
      PROVE  Slots!Next
  BY <1>1, StartIsAcquire
<1>2. ASSUME NEW r \in Runs, LoopStep(r), \A a \in Agents : ~StartTask(r, a)
      PROVE  InFlight' = InFlight
  BY <1>2, LoopStepKeeps
<1>3. ASSUME NEW r \in Runs, Abort(r)
      PROVE  InFlight' = InFlight
  BY <1>3, AbortKeeps
<1>4. ASSUME NEW t \in Tasks, Settle(t)
      PROVE  Slots!Next
  <2>1. t \in InFlight /\ InFlight' = InFlight \ {t}
    BY <1>0, <1>4, SettleLeaves
  <2>. QED  BY <2>1 DEF Slots!Next, Slots!Release
<1>5. ASSUME NEW t \in Tasks, TaskStep(t), ~Settle(t)
      PROVE  InFlight' = InFlight
  BY <1>0, <1>5, TaskStepKeeps
<1>6. CASE UNCHANGED vars
  BY <1>6, StutterKeeps
<1>. QED  BY <1>1, <1>2, <1>3, <1>4, <1>5, <1>6 DEF Next, Terminating

\* The schedulers of all Runs together implement the coordinator's promise:
\* slot and lease taken together, within the limit, only among compatible tasks.
THEOREM SlotsImplemented == Spec => ImplementsSlots
<1>1. Init => Slots!Init
  BY DEF Init, InFlight, Slots!Init
<1>2. Spec => []CountsInv
  BY FirstCounts, CountsStep, PTL DEF Spec
<1>. QED  BY <1>1, <1>2, StepIsSlotStep, PTL DEF Spec, ImplementsSlots, Slots!Spec

-----------------------------------------------------------------------------
(***************************************************************************)
(* No deadlock error.  DecideToWait throws when nothing of any Run is in   *)
(* flight and a task is still queued.  A sweep that starts nothing while   *)
(* nothing is in flight has found every task it passed not ready, and      *)
(* nothing changes before the decision, because the loop is on the thread; *)
(* but of the queued tasks one depends on no other queued task, and that   *)
(* one is ready.                                                           *)
(***************************************************************************)
Ready(t) == status[t] = "queued" /\ \A d \in DependsOn[t] : status[d] = "succeeded"

RunningWorks == \A t \in Tasks : status[t] = "running" => exec[t] \in {"starting", "executing"}

OneOnThread == \A q, r \in Runs : {loop[q], loop[r]} \subseteq OnThread => q = r

SweepMissesNothing == \A r \in Runs :
  /\ loop[r] \in {"sweeping", "deciding"} => \A t \in Queued(r) : ~DependencyFailed(t)
  /\ activeCount = 0 /\ loop[r] = "sweeping" =>
       \A i \in DOMAIN Order[r] : i < cursor => ~Ready(Order[r][i])
  /\ activeCount = 0 /\ loop[r] = "deciding" => \A t \in TasksOf(r) : ~Ready(t)

NothingThrown == rejected = {} /\ \A r \in Runs : loop[r] # "threw"

ProgressInv == SuccessInv /\ RunningWorks /\ OneOnThread /\ SweepMissesNothing /\ NothingThrown

\* The invariant of progress holds at the start.
LEMMA ProgressInit == Init => ProgressInv
  BY SuccessInit DEF Init, ProgressInv, RunningWorks, OneOnThread, SweepMissesNothing,
     NothingThrown, OnThread

\* What the invariant of progress says of types and counts.
LEMMA ProgressFacts ==
  ASSUME ProgressInv
  PROVE  /\ TypeOK /\ BooksInv /\ CountsInv
         /\ activeCount \in Nat /\ (activeCount = 0 <=> InFlight = {})
<1>1. TypeOK /\ BooksInv /\ CountsInv
  BY DEF ProgressInv, SuccessInv, CountsInv, BooksInv, LeaseInv
<1>. QED  BY <1>1, FS_CardinalityType, FS_EmptySet DEF BooksInv, CoordinatorAccounting

\* Whatever the loop of one Run does, no other Run is on the thread, and its
\* own loop is where it was.
LEMMA ThreadIsExclusive ==
  ASSUME TypeOK, OneOnThread, NEW r \in Runs, LoopStep(r)
  PROVE  \A q \in Runs \ {r} : loop'[q] = loop[q] /\ loop[q] \notin OnThread
<1>1. ThreadFree \/ loop[r] \in OnThread
  BY DEF LoopStep, LoopExit, LoopBody, LoopAppended, CancelQueuedTask, BlockTask, CancelDone,
     BlockDone, StartTask, SkipTask, SweepDone, DecideToRace, DecideToReturn, DecideToWait,
     WaitOver, RaceOver, OnThread
<1>2. \A q \in Runs \ {r} : loop'[q] = loop[q]
  BY DEF LoopStep, LoopExit, LoopBody, LoopAppended, CancelQueuedTask, BlockTask, CancelDone,
     BlockDone, StartTask, SkipTask, SweepDone, DecideToRace, DecideToReturn, DecideToWait,
     WaitOver, RaceOver, Return, Goto, TypeOK
<1>. QED  BY <1>1, <1>2 DEF ThreadFree, OneOnThread

\* Every step leaves at most one continuation on the thread.
LEMMA ThreadStep ==
  ASSUME TypeOK, OneOnThread, [Next]_vars
  PROVE  OneOnThread'
<1>1. ASSUME NEW r \in Runs, LoopStep(r)
      PROVE  OneOnThread'
  BY <1>1, ThreadIsExclusive DEF OneOnThread
<1>2. ASSUME NEW t \in Tasks, TaskStep(t)
      PROVE  loop' = loop
  BY <1>2 DEF TaskStep, CapacityGranted, CapacityRefused, StartedAppended, ExecutorReturns,
     ExecutorThrows, SucceededAppended, FailedAppended, Settle, loopVars
<1>3. ASSUME NEW r \in Runs, Abort(r)
      PROVE  loop' = loop
  BY <1>3 DEF Abort, loopVars
<1>4. CASE UNCHANGED vars
  BY <1>4 DEF vars, loopVars, OneOnThread
<1>. QED  BY <1>1, <1>2, <1>3, <1>4 DEF OneOnThread, Next, Terminating

\* With nothing in flight a ready task is startable: it has an agent, no load
\* is counted for it, and no lease is held.
LEMMA ReadyIsStartable ==
  ASSUME ProgressInv, activeCount = 0, NEW r \in Runs, NEW t \in TasksOf(r), Ready(t)
  PROVE  Startable(r, t)
<1>1. /\ TypeOK /\ InFlight = {} /\ BooksInv /\ CountsInv /\ t \in Tasks /\ RunOf[t] = r
  BY ProgressFacts DEF TasksOf
<1>2. CanAcquire(t)
  <2>1. leased = {} /\ LeaseKey[t] \in LeaseKeys
    BY <1>1, CoordinatorAssumption DEF BooksInv, CoordinatorAccounting
  <2>2. readers[LeaseKey[t]] = {} /\ {writer[LeaseKey[t]]} \ {NoTask} = {}
    BY <1>1, <2>1 DEF BooksInv, CoordinatorAccounting
  <2>. QED  BY <2>1, <2>2, CoordinatorAssumption DEF CanAcquire, CanAcquireLease
<1>3. FreeAgents(r, t) # {}
  <2>1. PICK a \in CanServe[t] : TRUE
    <3>1. t \in {Order[r][i] : i \in DOMAIN Order[r]}
      BY <1>1, SchedulerAssumption
    <3>. QED  BY <3>1, ValidRuns DEF ValidRun
  <2>2. a \in Agents /\ MaxParallel[a] \in Nat \ {0}
    BY <1>1, SchedulerAssumption
  <2>3. Carried(r, a) = {}
    BY <1>1 DEF Carried, Running
  <2>4. agentLoad[r][a] = 0
    BY <1>1, <2>2, <2>3, FS_EmptySet DEF CountsInv, LoadsAreCounted
  <2>5. a \in FreeAgents(r, t)
    BY <2>2, <2>4 DEF FreeAgents
  <2>. QED  BY <2>5
<1>. QED  BY <1>2, <1>3 DEF Startable, Ready

\* Where "Scheduler deadlock" would be thrown, something else is in flight.
LEMMA NobodyIsStuck ==
  ASSUME ProgressInv, NEW r \in Runs, loop[r] = "deciding", Running(r) = {}, Queued(r) # {}
  PROVE  activeCount > 0
<1>. SUFFICES ASSUME activeCount = 0
              PROVE  FALSE
  BY ProgressFacts
<1>. DEFINE tasks == {Order[r][i] : i \in DOMAIN Order[r]}
<1>0. TypeOK /\ tasks = TasksOf(r)
  BY ProgressFacts, SchedulerAssumption DEF TasksOf
<1>1. PICK t \in Queued(r) : DependsOn[t] \cap Queued(r) = {}
  BY <1>0, ValidRuns DEF ValidRun, Queued
<1>2. t \in TasksOf(r) /\ status[t] = "queued" /\ DependsOn[t] \subseteq TasksOf(r)
  BY <1>0, <1>1, ValidRuns DEF ValidRun, Queued
<1>3. ASSUME NEW d \in DependsOn[t]
      PROVE  status[d] = "succeeded"
  <2>1. d \in Tasks /\ d \in TasksOf(r) /\ status[d] \in TaskStatuses
    BY <1>0, <1>2 DEF TypeOK, TasksOf
  <2>2. status[d] # "queued"
    BY <1>1, <2>1 DEF Queued
  <2>3. status[d] # "running"
    BY <2>1 DEF ProgressInv, RunningWorks, Running, InFlight
  <2>4. status[d] \notin {"failed", "blocked", "cancelled"}
    BY <1>1 DEF ProgressInv, SweepMissesNothing, DependencyFailed
  <2>. QED  BY <2>1, <2>2, <2>3, <2>4 DEF TaskStatuses
<1>. QED  BY <1>2, <1>3 DEF ProgressInv, SweepMissesNothing, Ready

\* Every step leaves who is running with something to do.
LEMMA RunningStep ==
  ASSUME TypeOK, QueuedNotStarted, RunningWorks, [Next]_vars
  PROVE  RunningWorks'
<1>. USE DEF RunningWorks
<1>1. ASSUME NEW r \in Runs, NEW a \in Agents, StartTask(r, a)
      PROVE  RunningWorks'
  <2>1. Order[r][cursor] \in Tasks /\ status[Order[r][cursor]] = "queued"
    BY <1>1, StartEnters
  <2>. QED  BY <1>1, <2>1 DEF StartTask, TypeOK
<1>2. ASSUME NEW r \in Runs, LoopStep(r), \A a \in Agents : ~StartTask(r, a)
      PROVE  RunningWorks'
  <2>1. exec' = exec
    BY <1>2, LoopStepKeeps
  <2>2. \A t \in Tasks : status'[t] = "running" => status[t] = "running"
    BY <1>2 DEF LoopStep, LoopExit, LoopBody, LoopAppended, CancelQueuedTask, BlockTask,
       CancelDone, BlockDone, SkipTask, SweepDone, DecideToRace, DecideToReturn, DecideToWait,
       WaitOver, RaceOver, taskVars, TypeOK
  <2>. QED  BY <2>1, <2>2
<1>3. ASSUME NEW r \in Runs, Abort(r)
      PROVE  RunningWorks'
  BY <1>3, AbortKeeps DEF taskVars
<1>4. ASSUME NEW t \in Tasks, TaskStep(t)
      PROVE  RunningWorks'
  BY <1>4 DEF TaskStep, CapacityGranted, CapacityRefused, StartedAppended, ExecutorReturns,
     ExecutorThrows, SucceededAppended, FailedAppended, Settle, Move, Fail, TypeOK
<1>5. CASE UNCHANGED vars
  BY <1>5, StutterKeeps DEF taskVars
<1>. QED  BY <1>1, <1>2, <1>3, <1>4, <1>5 DEF Next, Terminating

\* The sweep of the Run that is on the thread.
LEMMA SweepStep ==
  ASSUME ProgressInv, NEW r \in Runs, LoopStep(r)
  PROVE  SweepMissesNothing'
<1>0. TypeOK
  BY ProgressFacts
<1>1. \A q \in Runs \ {r} : loop'[q] \notin OnThread
  BY <1>0, ThreadIsExclusive DEF ProgressInv
<1>2. SUFFICES ASSUME loop'[r] \in {"sweeping", "deciding"}
               PROVE  /\ \A t \in Queued(r)' : ~DependencyFailed(t)'
                      /\ activeCount' = 0 /\ loop'[r] = "sweeping" =>
                           \A i \in DOMAIN Order[r] : i < cursor' => ~Ready(Order[r][i])'
                      /\ activeCount' = 0 /\ loop'[r] = "deciding" =>
                           \A t \in TasksOf(r) : ~Ready(t)'
  BY <1>1 DEF SweepMissesNothing, OnThread, TasksOf
<1>3. \/ BlockDone(r) \/ CancelDone(r) \/ SkipTask(r) \/ SweepDone(r)
      \/ \E a \in Agents : StartTask(r, a)
  BY <1>0, <1>2 DEF LoopStep, LoopExit, LoopBody, LoopAppended, CancelQueuedTask, BlockTask,
     DecideToRace, DecideToReturn, DecideToWait, WaitOver, RaceOver, Return, Goto, TypeOK
<1>o. \A i \in DOMAIN Order[r] : i \in Nat \ {0} /\ i <= Len(Order[r]) /\ Order[r][i] \in TasksOf(r)
  BY SchedulerAssumption DEF TasksOf
<1>4. CASE BlockDone(r)
  BY <1>0, <1>4, <1>o DEF BlockDone, Goto, TypeOK, taskVars, Queued, DependencyFailed
<1>5. CASE CancelDone(r)
  BY <1>0, <1>5 DEF CancelDone, Goto, TypeOK, taskVars, Queued, Ready
<1>6. CASE SkipTask(r)
  <2>1. /\ loop[r] = "sweeping" /\ loop' = loop /\ cursor' = cursor + 1 /\ cursor \in Nat \ {0}
        /\ status' = status /\ activeCount' = activeCount /\ ~Startable(r, Order[r][cursor])
        /\ cursor \in DOMAIN Order[r]
    BY <1>0, <1>6, SchedulerAssumption DEF SkipTask, SweepOver, TypeOK, taskVars, coordinatorVars
  <2>2. activeCount = 0 => ~Ready(Order[r][cursor])
    BY <1>o, <2>1, ReadyIsStartable
  <2>3. \A i \in DOMAIN Order[r] : i < cursor + 1 => i < cursor \/ i = cursor
    BY <1>o, <2>1
  <2>4. \A t \in Tasks : Ready(t)' = Ready(t) /\ DependencyFailed(t)' = DependencyFailed(t)
    BY <2>1 DEF Ready, DependencyFailed
  <2>5. Queued(r)' = Queued(r) /\ Queued(r) \subseteq Tasks
    BY <2>1 DEF Queued, TasksOf
  <2>. QED  BY <1>o, <2>1, <2>2, <2>3, <2>4, <2>5 DEF ProgressInv, SweepMissesNothing, TasksOf
<1>7. CASE SweepDone(r)
  <2>1. loop[r] = "sweeping" /\ SweepOver(r) /\ status' = status /\ activeCount' = activeCount
    BY <1>7 DEF SweepDone, taskVars, coordinatorVars
  <2>2. activeCount = 0 => \A t \in TasksOf(r) : ~Ready(t)
    <3>. SUFFICES ASSUME activeCount = 0, NEW t \in TasksOf(r)
                  PROVE  ~Ready(t)
      OBVIOUS
    <3>1. Running(r) = {}
      BY ProgressFacts DEF Running
    <3>2. cursor > Len(Order[r])
      <4>1. Cardinality(Running(r)) = 0
        BY <3>1, FS_EmptySet
      <4>. QED  BY <2>1, <4>1, SchedulerAssumption DEF SweepOver
    <3>3. PICK i \in DOMAIN Order[r] : t = Order[r][i]
      BY SchedulerAssumption DEF TasksOf
    <3>4. i < cursor
      BY <1>0, <1>o, <3>2, SchedulerAssumption DEF TypeOK
    <3>. QED  BY <2>1, <3>3, <3>4 DEF ProgressInv, SweepMissesNothing
  <2>3. loop'[r] = "deciding"
    BY <1>0, <1>7 DEF SweepDone, Goto, TypeOK
  <2>4. \A t \in Tasks : Ready(t)' = Ready(t) /\ DependencyFailed(t)' = DependencyFailed(t)
    BY <2>1 DEF Ready, DependencyFailed
  <2>5. Queued(r)' = Queued(r) /\ Queued(r) \subseteq Tasks
    BY <2>1 DEF Queued, TasksOf
  <2>. QED  BY <2>1, <2>2, <2>3, <2>4, <2>5 DEF ProgressInv, SweepMissesNothing, TasksOf
<1>8. ASSUME NEW a \in Agents, StartTask(r, a)
      PROVE  /\ activeCount' # 0
             /\ \A t \in Queued(r)' : ~DependencyFailed(t)'
  <2>. DEFINE u == Order[r][cursor]
  <2>1. u \in Tasks /\ status[u] = "queued" /\ activeCount' = activeCount + 1
    BY <1>0, <1>8, StartEnters DEF AcquireSlot
  <2>2. loop[r] = "sweeping" /\ status' \in {status, [status EXCEPT ![u] = "running"]}
    BY <1>8 DEF StartTask
  <2>3. activeCount' # 0
    BY <2>1, ProgressFacts
  <2>4. ASSUME NEW t \in Queued(r)'
        PROVE  ~DependencyFailed(t)'
    <3>1. t \in Queued(r)
      BY <1>0, <2>1, <2>2 DEF Queued, TasksOf, TypeOK
    <3>2. ~DependencyFailed(t) /\ DependsOn[t] \subseteq Tasks
      BY <2>2, <3>1, SchedulerAssumption DEF ProgressInv, SweepMissesNothing, Queued, TasksOf
    <3>. QED  BY <1>0, <2>1, <2>2, <3>2 DEF DependencyFailed, TypeOK
  <2>. QED  BY <2>3, <2>4
<1>. QED  BY <1>3, <1>4, <1>5, <1>6, <1>7, <1>8

\* Nothing is thrown when the appends do not fail.
LEMMA ThrowStep ==
  ASSUME ~IoMayFail, ProgressInv, [Next]_vars
  PROVE  NothingThrown'
<1>. USE DEF NothingThrown
<1>0. TypeOK /\ NothingThrown
  BY ProgressFacts DEF ProgressInv
<1>1. ASSUME NEW r \in Runs, LoopStep(r)
      PROVE  NothingThrown'
  <2>1. rejected' = {}
    BY <1>0, <1>1 DEF LoopStep, LoopExit, LoopBody, LoopAppended, CancelQueuedTask, BlockTask,
       CancelDone, BlockDone, StartTask, SkipTask, SweepDone, DecideToRace, DecideToReturn,
       DecideToWait, WaitOver, RaceOver, taskVars
  <2>2. ASSUME DecideToWait(r)
        PROVE  loop'[r] # "threw"
    BY <1>0, <2>2, NobodyIsStuck DEF DecideToWait, Goto, TypeOK
  <2>3. loop'[r] # "threw"
    BY <1>0, <1>1, <2>2 DEF LoopStep, LoopExit, LoopBody, LoopAppended, CancelQueuedTask, BlockTask,
       CancelDone, BlockDone, StartTask, SkipTask, SweepDone, DecideToRace, DecideToReturn,
       WaitOver, RaceOver, Return, Goto, TypeOK
  <2>4. \A q \in Runs \ {r} : loop'[q] = loop[q]
    BY <1>0, <1>1, ThreadIsExclusive DEF ProgressInv
  <2>. QED  BY <1>0, <2>1, <2>3, <2>4
<1>2. ASSUME NEW r \in Runs, Abort(r)
      PROVE  NothingThrown'
  BY <1>0, <1>2 DEF Abort, taskVars, loopVars
<1>3. ASSUME NEW t \in Tasks, TaskStep(t)
      PROVE  NothingThrown'
  BY <1>0, <1>3 DEF TaskStep, CapacityGranted, CapacityRefused, StartedAppended, ExecutorReturns,
     ExecutorThrows, SucceededAppended, FailedAppended, Settle, loopVars
<1>4. CASE UNCHANGED vars
  BY <1>0, <1>4 DEF vars, taskVars, loopVars
<1>. QED  BY <1>1, <1>2, <1>3, <1>4 DEF Next, Terminating

\* Every step keeps the invariant of progress.
LEMMA ProgressStep ==
  ASSUME ~IoMayFail
  PROVE  ProgressInv /\ [Next]_vars => ProgressInv'
<1>. SUFFICES ASSUME ProgressInv, [Next]_vars
              PROVE  ProgressInv'
  OBVIOUS
<1>0. TypeOK /\ QueuedNotStarted
  BY ProgressFacts DEF BooksInv
<1>1. SuccessInv'
  BY SuccessStep DEF ProgressInv
<1>2. RunningWorks' /\ OneOnThread' /\ NothingThrown'
  BY <1>0, RunningStep, ThreadStep, ThrowStep DEF ProgressInv
<1>3. SweepMissesNothing'
  <2>1. ASSUME NEW r \in Runs, LoopStep(r)
        PROVE  SweepMissesNothing'
    BY <1>2, <2>1, SweepStep
  <2>2. ASSUME ThreadFree, loop' = loop
        PROVE  SweepMissesNothing'
    BY <2>2 DEF SweepMissesNothing, ThreadFree, OnThread
  <2>3. ASSUME NEW r \in Runs, Abort(r)
        PROVE  SweepMissesNothing'
    BY <2>2, <2>3 DEF Abort, loopVars
  <2>4. ASSUME NEW t \in Tasks, TaskStep(t)
        PROVE  SweepMissesNothing'
    BY <2>2, <2>4 DEF TaskStep, CapacityGranted, CapacityRefused, StartedAppended,
       ExecutorReturns, ExecutorThrows, SucceededAppended, FailedAppended, Settle, Move, loopVars
  <2>5. CASE UNCHANGED vars
    BY <2>5 DEF vars, taskVars, loopVars, coordinatorVars, ProgressInv, SweepMissesNothing,
       Queued, DependencyFailed, Ready
  <2>. QED  BY <2>1, <2>3, <2>4, <2>5 DEF Next, Terminating
<1>. QED  BY <1>1, <1>2, <1>3 DEF ProgressInv

\* The error "Scheduler deadlock: queued tasks cannot be scheduled" is
\* unreachable for validated Runs, however many compete for slots and leases.
THEOREM NeverDeadlocksCorrect == Spec => []NeverDeadlocks
<1>1. CASE IoMayFail
  <2>1. NeverDeadlocks
    BY <1>1 DEF NeverDeadlocks
  <2>. QED  BY <2>1, PTL
<1>2. CASE ~IoMayFail
  <2>1. ProgressInv => NeverDeadlocks
    BY DEF ProgressInv, NothingThrown, NeverDeadlocks
  <2>2. ProgressInv /\ [Next]_vars => ProgressInv'
    BY <1>2, ProgressStep
  <2>. QED  BY <2>1, <2>2, ProgressInit, PTL DEF Spec
<1>. QED  BY <1>1, <1>2

-----------------------------------------------------------------------------
(***************************************************************************)
(* How a Run ends.  Without I/O failures, and without a process capacity   *)
(* (a task cancelled while it waits for that moves on to running), a       *)
(* record that has ended is final, so what run derived from the records    *)
(* when it returned still holds later.                                     *)
(***************************************************************************)
CancelledOnRequest ==
  /\ \A t \in Tasks : status[t] = "cancelled" => RunOf[t] \in aborted
  /\ \A r \in Runs : loop[r] \in {"cancelling", "cancelAppend"} => r \in aborted

BlockedWithCause == \A t \in Tasks : status[t] = "blocked" => DependencyFailed(t)

EndedIsAtRest == \A t \in Tasks :
  status[t] \in Terminal => exec[t] \notin {"capacity", "starting", "executing"}

StatusIsDerived == \A r \in Runs : loop[r] = "returned" =>
  AllTasksTerminal(r) /\ runStatus[r] = DeriveRunStatus(r)

EndsInv == ProgressInv /\ CancelledOnRequest /\ BlockedWithCause /\ EndedIsAtRest
             /\ StatusIsDerived

\* The invariant of the ends holds at the start.
LEMMA EndsInit == Init => EndsInv
  BY ProgressInit DEF Init, EndsInv, CancelledOnRequest, BlockedWithCause, EndedIsAtRest,
     StatusIsDerived

\* What the invariant of the ends says of the tasks.
LEMMA EndsFacts ==
  ASSUME EndsInv, ~UseCapacity
  PROVE  /\ TypeOK
         /\ \A t \in Tasks : status[t] = "queued" => exec[t] = "idle"
  BY ProgressFacts DEF EndsInv, BooksInv, QueuedNotStarted

\* A record that has ended is final.
LEMMA EndIsFinal ==
  ASSUME ~IoMayFail, ~UseCapacity, EndsInv, [Next]_vars, NEW d \in Tasks, status[d] \in Terminal
  PROVE  status'[d] = status[d]
<1>0. TypeOK /\ exec[d] \notin {"capacity", "starting", "executing"} /\ status[d] # "queued"
  BY EndsFacts DEF EndsInv, EndedIsAtRest, Terminal
<1>1. ASSUME NEW r \in Runs, NEW a \in Agents, StartTask(r, a)
      PROVE  status'[d] = status[d]
  <2>1. Order[r][cursor] \in Tasks /\ status[Order[r][cursor]] = "queued"
    BY <1>0, <1>1, StartEnters
  <2>. QED  BY <1>0, <1>1, <2>1 DEF StartTask, TypeOK
<1>2. ASSUME NEW r \in Runs, LoopStep(r), \A a \in Agents : ~StartTask(r, a)
      PROVE  status'[d] = status[d]
  BY <1>0, <1>2 DEF LoopStep, LoopExit, LoopBody, LoopAppended, CancelQueuedTask, BlockTask,
     Queued, CancelDone, BlockDone, SkipTask, SweepDone, DecideToRace, DecideToReturn,
     DecideToWait, WaitOver, RaceOver, taskVars, TypeOK
<1>3. ASSUME NEW r \in Runs, Abort(r)
      PROVE  status'[d] = status[d]
  BY <1>3, AbortKeeps DEF taskVars
<1>4. ASSUME NEW t \in Tasks, TaskStep(t)
      PROVE  status'[d] = status[d]
  BY <1>0, <1>4 DEF TaskStep, CapacityGranted, CapacityRefused, StartedAppended, ExecutorReturns,
     ExecutorThrows, SucceededAppended, FailedAppended, Settle, Move, Fail, TypeOK,
     AppendFailsAndIsCaught
<1>5. CASE UNCHANGED vars
  BY <1>5, StutterKeeps DEF taskVars
<1>. QED  BY <1>1, <1>2, <1>3, <1>4, <1>5 DEF Next, Terminating

\* A task is recorded as cancelled only after its Run was.
LEMMA CancelledStep ==
  ASSUME TypeOK, CancelledOnRequest, [Next]_vars
  PROVE  CancelledOnRequest'
<1>. USE DEF CancelledOnRequest
<1>1. ASSUME NEW r \in Runs, LoopStep(r)
      PROVE  CancelledOnRequest'
  <2>1. aborted' = aborted /\ \A q \in Runs \ {r} : loop'[q] = loop[q]
    BY <1>1 DEF LoopStep, LoopExit, LoopBody, LoopAppended, CancelQueuedTask, BlockTask,
       CancelDone, BlockDone, StartTask, SkipTask, SweepDone, DecideToRace, DecideToReturn,
       DecideToWait, WaitOver, RaceOver, Return, Goto, TypeOK
  <2>2. loop'[r] \in {"cancelling", "cancelAppend"} => r \in aborted
    BY <1>1 DEF LoopStep, LoopExit, LoopBody, LoopAppended, CancelQueuedTask, BlockTask,
       CancelDone, BlockDone, StartTask, SkipTask, SweepDone, DecideToRace, DecideToReturn,
       DecideToWait, WaitOver, RaceOver, Return, Goto, TypeOK
  <2>3. \A t \in Tasks : status'[t] = "cancelled" =>
          status[t] = "cancelled" \/ (RunOf[t] = r /\ loop[r] = "cancelling")
    BY <1>1 DEF LoopStep, LoopExit, LoopBody, LoopAppended, CancelQueuedTask, BlockTask,
       Queued, TasksOf, CancelDone, BlockDone, StartTask, SkipTask, SweepDone, DecideToRace,
       DecideToReturn, DecideToWait, WaitOver, RaceOver, taskVars, TypeOK
  <2>. QED  BY <2>1, <2>2, <2>3
<1>2. ASSUME NEW r \in Runs, Abort(r)
      PROVE  CancelledOnRequest'
  BY <1>2 DEF Abort, taskVars, loopVars
<1>3. ASSUME NEW t \in Tasks, TaskStep(t)
      PROVE  CancelledOnRequest'
  BY <1>3 DEF TaskStep, CapacityGranted, CapacityRefused, StartedAppended, ExecutorReturns,
     ExecutorThrows, SucceededAppended, FailedAppended, Settle, Move, Fail, TypeOK, loopVars
<1>4. CASE UNCHANGED vars
  BY <1>4 DEF vars, taskVars, loopVars
<1>. QED  BY <1>1, <1>2, <1>3, <1>4 DEF Next, Terminating

\* A task is blocked only behind one that ended badly, and that record stays.
LEMMA BlockedStep ==
  ASSUME ~IoMayFail, ~UseCapacity, EndsInv, [Next]_vars
  PROVE  BlockedWithCause'
<1>0. TypeOK /\ BlockedWithCause
  BY EndsFacts DEF EndsInv
<1>1. \A d \in Tasks : status[d] \in {"failed", "blocked", "cancelled"} => status'[d] = status[d]
  BY EndIsFinal DEF Terminal
<1>2. \A t \in Tasks : DependencyFailed(t) => DependencyFailed(t)'
  <2>1. \A t \in Tasks : DependsOn[t] \subseteq Tasks
    BY SchedulerAssumption
  <2>. QED  BY <1>1, <2>1 DEF DependencyFailed
<1>3. \A t \in Tasks : status'[t] = "blocked" => status[t] = "blocked" \/ DependencyFailed(t)
  <2>1. ASSUME NEW r \in Runs, LoopStep(r)
        PROVE  \A t \in Tasks : status'[t] = "blocked" => status[t] = "blocked" \/ DependencyFailed(t)
    BY <1>0, <2>1 DEF LoopStep, LoopExit, LoopBody, LoopAppended, CancelQueuedTask, BlockTask,
       CancelDone, BlockDone, StartTask, SkipTask, SweepDone, DecideToRace, DecideToReturn,
       DecideToWait, WaitOver, RaceOver, taskVars, TypeOK
  <2>2. ASSUME NEW r \in Runs, Abort(r)
        PROVE  status' = status
    BY <2>2 DEF Abort, taskVars
  <2>3. ASSUME NEW u \in Tasks, TaskStep(u)
        PROVE  \A t \in Tasks : status'[t] = "blocked" => status[t] = "blocked"
    BY <1>0, <2>3 DEF TaskStep, CapacityGranted, CapacityRefused, StartedAppended,
       ExecutorReturns, ExecutorThrows, SucceededAppended, FailedAppended, Settle, Fail, TypeOK
  <2>4. CASE UNCHANGED vars
    BY <2>4 DEF vars, taskVars
  <2>. QED  BY <2>1, <2>2, <2>3, <2>4 DEF Next, Terminating
<1>. QED  BY <1>0, <1>2, <1>3 DEF BlockedWithCause

\* Every step leaves an ended Run at rest.
LEMMA RestStep ==
  ASSUME ~UseCapacity, EndsInv, [Next]_vars
  PROVE  EndedIsAtRest'
<1>. USE DEF EndedIsAtRest, Terminal
<1>0. TypeOK /\ EndedIsAtRest /\ \A t \in Tasks : status[t] = "queued" => exec[t] = "idle"
  BY EndsFacts DEF EndsInv
<1>1. ASSUME NEW r \in Runs, NEW a \in Agents, StartTask(r, a)
      PROVE  EndedIsAtRest'
  <2>1. Order[r][cursor] \in Tasks
    BY <1>0, <1>1, StartEnters
  <2>. QED  BY <1>0, <1>1, <2>1 DEF StartTask, TypeOK
<1>2. ASSUME NEW r \in Runs, LoopStep(r), \A a \in Agents : ~StartTask(r, a)
      PROVE  EndedIsAtRest'
  <2>1. exec' = exec
    BY <1>2, LoopStepKeeps
  <2>2. \A t \in Tasks : status'[t] = status[t] \/ status[t] = "queued"
    BY <1>0, <1>2 DEF LoopStep, LoopExit, LoopBody, LoopAppended, CancelQueuedTask, BlockTask,
       Queued, CancelDone, BlockDone, SkipTask, SweepDone, DecideToRace, DecideToReturn,
       DecideToWait, WaitOver, RaceOver, taskVars, TypeOK
  <2>. QED  BY <1>0, <2>1, <2>2
<1>3. ASSUME NEW r \in Runs, Abort(r)
      PROVE  EndedIsAtRest'
  BY <1>0, <1>3, AbortKeeps DEF taskVars
<1>4. ASSUME NEW t \in Tasks, TaskStep(t)
      PROVE  EndedIsAtRest'
  BY <1>0, <1>4 DEF TaskStep, CapacityGranted, CapacityRefused, StartedAppended, ExecutorReturns,
     ExecutorThrows, SucceededAppended, FailedAppended, Settle, Move, Fail, TypeOK
<1>5. CASE UNCHANGED vars
  BY <1>0, <1>5, StutterKeeps DEF taskVars
<1>. QED  BY <1>1, <1>2, <1>3, <1>4, <1>5 DEF Next, Terminating

\* The status was derived from the records as run returned, and the records
\* and the abort flag of a returned Run do not change.
LEMMA DerivedStep ==
  ASSUME ~IoMayFail, ~UseCapacity, EndsInv, [Next]_vars
  PROVE  StatusIsDerived'
<1>. SUFFICES ASSUME NEW r \in Runs, loop'[r] = "returned"
              PROVE  AllTasksTerminal(r)' /\ runStatus'[r] = DeriveRunStatus(r)'
  BY DEF StatusIsDerived
<1>0. TypeOK /\ StatusIsDerived
  BY EndsFacts DEF EndsInv
<1>k. TasksOf(r) \subseteq Tasks
  BY DEF TasksOf
<1>f. ASSUME \A t \in TasksOf(r) : status'[t] = status[t],
             r \in aborted' <=> r \in aborted
      PROVE  /\ AllTasksTerminal(r)' <=> AllTasksTerminal(r)
             /\ DeriveRunStatus(r)' = DeriveRunStatus(r)
  <2>1. {status'[t] : t \in TasksOf(r)} = {status[t] : t \in TasksOf(r)}
    BY <1>f
  <2>2. AllTasksTerminal(r)' <=> AllTasksTerminal(r)
    BY <1>f DEF AllTasksTerminal, TasksOf
  <2>. QED  BY <1>f, <2>1, <2>2 DEF DeriveRunStatus, TasksOf
<1>1. CASE loop[r] = "returned"
  <2>1. AllTasksTerminal(r) /\ runStatus[r] = DeriveRunStatus(r)
    BY <1>0, <1>1 DEF StatusIsDerived
  <2>2. \A t \in TasksOf(r) : status'[t] = status[t]
    BY <1>k, <2>1, EndIsFinal DEF AllTasksTerminal
  <2>3. runStatus'[r] = runStatus[r] /\ (r \in aborted' <=> r \in aborted)
    <3>1. ASSUME NEW q \in Runs, LoopStep(q)
          PROVE  runStatus'[r] = runStatus[r] /\ (r \in aborted' <=> r \in aborted)
      <4>1. q # r
        BY <1>1, <3>1 DEF LoopStep, LoopExit, LoopBody, LoopAppended, CancelQueuedTask,
           BlockTask, CancelDone, BlockDone, StartTask, SkipTask, SweepDone, DecideToRace,
           DecideToReturn, DecideToWait, WaitOver, RaceOver
      <4>. QED  BY <1>0, <3>1, <4>1 DEF LoopStep, LoopExit, LoopBody, LoopAppended,
                CancelQueuedTask, BlockTask, CancelDone, BlockDone, StartTask, SkipTask,
                SweepDone, DecideToRace, DecideToReturn, DecideToWait, WaitOver, RaceOver,
                Return, TypeOK
    <3>2. ASSUME NEW q \in Runs, Abort(q)
          PROVE  runStatus'[r] = runStatus[r] /\ (r \in aborted' <=> r \in aborted)
      BY <1>1, <3>2 DEF Abort, loopVars
    <3>3. ASSUME NEW t \in Tasks, TaskStep(t)
          PROVE  runStatus'[r] = runStatus[r] /\ (r \in aborted' <=> r \in aborted)
      BY <3>3 DEF TaskStep, CapacityGranted, CapacityRefused, StartedAppended, ExecutorReturns,
         ExecutorThrows, SucceededAppended, FailedAppended, Settle, loopVars
    <3>4. CASE UNCHANGED vars
      BY <3>4 DEF vars, loopVars
    <3>. QED  BY <3>1, <3>2, <3>3, <3>4 DEF Next, Terminating
  <2>. QED  BY <1>f, <2>1, <2>2, <2>3
<1>2. CASE loop[r] # "returned"
  <2>1. LoopExit(r) \/ DecideToReturn(r)
    <3>1. ASSUME NEW q \in Runs, LoopStep(q)
          PROVE  LoopExit(r) \/ DecideToReturn(r)
      BY <1>0, <1>2, <3>1 DEF LoopStep, LoopExit, LoopBody, LoopAppended, CancelQueuedTask,
         BlockTask, CancelDone, BlockDone, StartTask, SkipTask, SweepDone, DecideToRace,
         DecideToReturn, DecideToWait, WaitOver, RaceOver, Return, Goto, TypeOK
    <3>2. ASSUME NEW q \in Runs, Abort(q)
          PROVE  loop' = loop
      BY <3>2 DEF Abort, loopVars
    <3>3. ASSUME NEW t \in Tasks, TaskStep(t)
          PROVE  loop' = loop
      BY <3>3 DEF TaskStep, CapacityGranted, CapacityRefused, StartedAppended, ExecutorReturns,
         ExecutorThrows, SucceededAppended, FailedAppended, Settle, loopVars
    <3>4. ASSUME UNCHANGED vars
          PROVE  loop' = loop
      BY <3>4 DEF vars, loopVars
    <3>. QED  BY <1>2, <3>1, <3>2, <3>3, <3>4 DEF Next, Terminating
  <2>2. status' = status /\ aborted' = aborted /\ runStatus'[r] = DeriveRunStatus(r)
    BY <1>0, <2>1 DEF LoopExit, DecideToReturn, Return, taskVars, TypeOK
  <2>3. AllTasksTerminal(r)
    <3>1. CASE LoopExit(r)
      BY <3>1 DEF LoopExit
    <3>2. CASE DecideToReturn(r)
      <4>. SUFFICES ASSUME NEW t \in TasksOf(r)
                    PROVE  status[t] \in Terminal
        BY DEF AllTasksTerminal
      <4>1. status[t] # "queued" /\ status[t] # "running"
        BY <1>k, <3>2 DEF DecideToReturn, Queued, Running, InFlight, EndsInv, ProgressInv,
           RunningWorks
      <4>2. status[t] \in TaskStatuses
        BY <1>0, <1>k DEF TypeOK
      <4>. QED  BY <4>1, <4>2 DEF TaskStatuses, Terminal
    <3>. QED  BY <2>1, <3>1, <3>2
  <2>. QED  BY <1>f, <2>2, <2>3
<1>. QED  BY <1>1, <1>2

\* Every step keeps the invariant of the ends.
LEMMA EndsStep ==
  ASSUME ~IoMayFail, ~UseCapacity
  PROVE  EndsInv /\ [Next]_vars => EndsInv'
  BY ProgressStep, CancelledStep, BlockedStep, RestStep, DerivedStep, EndsFacts DEF EndsInv

\* A failed Run has a task that failed: of its blocked tasks one is blocked by
\* no blocked task.
LEMMA FailedHasAFailure ==
  ASSUME EndsInv, ~UseCapacity, NEW r \in Runs, loop[r] = "returned", runStatus[r] = "failed"
  PROVE  \E t \in TasksOf(r) : status[t] = "failed"
<1>. DEFINE blocked == {t \in TasksOf(r) : status[t] = "blocked"}
<1>1. /\ \A t \in TasksOf(r) : status[t] # "cancelled"
      /\ \E t \in TasksOf(r) : status[t] \in {"failed", "blocked"}
  BY DEF EndsInv, StatusIsDerived, DeriveRunStatus
<1>2. SUFFICES ASSUME blocked # {}
               PROVE  \E t \in TasksOf(r) : status[t] = "failed"
  BY <1>1
<1>3. TasksOf(r) = {Order[r][i] : i \in DOMAIN Order[r]}
  BY SchedulerAssumption DEF TasksOf
<1>4. PICK t \in blocked : DependsOn[t] \cap blocked = {} /\ DependsOn[t] \subseteq TasksOf(r)
  BY <1>2, <1>3, ValidRuns DEF ValidRun
<1>5. PICK d \in DependsOn[t] : status[d] \in {"failed", "blocked", "cancelled"}
  BY <1>4 DEF EndsInv, BlockedWithCause, DependencyFailed, TasksOf
<1>. QED  BY <1>1, <1>4, <1>5

\* However a Run ends it ends rightly: not by the deadlock error, with a status
\* its tasks bear out for good, and with none of its executions still at work.
THEOREM RunsEndSoundlyCorrect ==
  ASSUME ~IoMayFail, ~UseCapacity
  PROVE  Spec => []RunsEndSoundly
<1>1. EndsInv => RunsEndSoundly
  <2>. SUFFICES ASSUME EndsInv
                PROVE  RunsEndSoundly
    OBVIOUS
  <2>1. NeverDeadlocks
    BY DEF EndsInv, ProgressInv, NothingThrown, NeverDeadlocks
  <2>2. ASSUME NEW r \in Runs, loop[r] = "returned"
        PROVE  /\ runStatus[r] = "succeeded" => \A t \in TasksOf(r) : status[t] = "succeeded"
               /\ runStatus[r] = "failed" => \E t \in TasksOf(r) : status[t] = "failed"
               /\ runStatus[r] = "cancelled" => r \in aborted
    <3>1. AllTasksTerminal(r) /\ runStatus[r] = DeriveRunStatus(r)
      BY <2>2 DEF EndsInv, StatusIsDerived
    <3>2. runStatus[r] = "succeeded" => \A t \in TasksOf(r) : status[t] = "succeeded"
      BY <3>1 DEF DeriveRunStatus, AllTasksTerminal, Terminal
    <3>3. runStatus[r] = "cancelled" => r \in aborted
      BY <3>1 DEF DeriveRunStatus, EndsInv, CancelledOnRequest, TasksOf
    <3>. QED  BY <2>2, <3>2, <3>3, FailedHasAFailure
  <2>3. ReturnedRunsAreQuiet
    BY DEF ReturnedRunsAreQuiet, EndsInv, StatusIsDerived, AllTasksTerminal, EndedIsAtRest,
       TasksOf
  <2>. QED  BY <2>1, <2>2, <2>3 DEF RunsEndSoundly, ReturnedStatusSound
<1>2. EndsInv /\ [Next]_vars => EndsInv'
  BY EndsStep
<1>. QED  BY <1>1, <1>2, EndsInit, PTL DEF Spec
=============================================================================
