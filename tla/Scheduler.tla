----------------------------- MODULE Scheduler -----------------------------
(***************************************************************************)
(* src/src/scheduler.ts: MultiAgentScheduler.run of every active Run, over *)
(* one ExecutionCoordinator.                                               *)
(*                                                                         *)
(* JavaScript runs one piece of code at a time, from one await to the      *)
(* next.  A Run whose loop is in one of OnThread has not reached an await: *)
(* nothing else may step until it has.  Every other step is one such piece *)
(* of code by itself.                                                      *)
(***************************************************************************)
EXTENDS ExecutionCoordinator, Sequences

CONSTANTS
  Order,              \* [Runs -> Seq(Tasks)]: definition.tasks
  RunOf,              \* [Tasks -> Runs]
  DependsOn,          \* [Tasks -> SUBSET Tasks], acyclic (assertAcyclic)
  Agents,
  CanServe,           \* [Tasks -> SUBSET Agents]: agentId and capabilities
  MaxParallel,        \* [Agents -> Nat]: maxParallelTasks
  RunConcurrency,     \* globalConcurrency of each scheduler
  UseCapacity,        \* whether the schedulers share a processCapacity
  CapacitySlots,      \* its limit
  MayAbort,           \* Runs the user may cancel (a bound of the instance)
  MayResume,          \* whether a Run may start from checkpoints
  IoMayFail,          \* whether an event append or a capacity release may fail
  NoAgent

\* validateRun rejects a Run with any other graph before a task is queued: its
\* dependencies are tasks of the Run, without a cycle, and every task has an agent.
ValidRun(r) ==
  LET tasks == {Order[r][i] : i \in DOMAIN Order[r]} IN
  /\ \A t \in tasks : RunOf[t] = r /\ DependsOn[t] \subseteq tasks /\ CanServe[t] # {}
  /\ \A S \in SUBSET tasks : S # {} => \E t \in S : DependsOn[t] \cap S = {}

\* With a process capacity a started task is still "queued" for a while, and
\* only its lease keeps the loop from starting it again: the workflows give
\* every task one.
ASSUME SchedulerAssumption ==
  /\ RunOf \in [Tasks -> Runs]
  /\ Order \in [Runs -> Seq(Tasks)]
  /\ \A r \in Runs : {Order[r][i] : i \in DOMAIN Order[r]} = {t \in Tasks : RunOf[t] = r}
  /\ DependsOn \in [Tasks -> SUBSET Tasks]
  /\ CanServe \in [Tasks -> SUBSET Agents]
  /\ MaxParallel \in [Agents -> Nat \ {0}]
  /\ RunConcurrency \in Nat \ {0}
  /\ CapacitySlots \in Nat \ {0}
  /\ UseCapacity \in BOOLEAN /\ IoMayFail \in BOOLEAN /\ MayResume \in BOOLEAN
  /\ UseCapacity => \A t \in Tasks : Access[t] # "none"
  /\ NoAgent \notin Agents

ASSUME ValidRuns == \A r \in Runs : ValidRun(r)

VARIABLES
  status,             \* [Tasks -> TaskStatus]: the records
  exec,               \* [Tasks -> ExecPhases]: where #executeTask stands
  agentOf,            \* the agent a started task was given
  agentLoad,          \* [Runs -> [Agents -> Int]]
  rejected,           \* executions whose promise rejects when it settles
  capacity,           \* tasks that hold a process-wide capacity slot
  loop,               \* [Runs -> LoopPhases]
  cursor,             \* position of the sweep in progress
  raced,              \* [Runs -> SUBSET Tasks]: executions in Promise.race
  aborted,            \* Runs whose AbortSignal is aborted
  runStatus,          \* [Runs -> RunStatus], "none" before the Run returns
  appends             \* [Runs -> Seq(Tasks \cup {NoTask})]: the appends the Run's
                      \* event store has queued, each by the task or, as NoTask,
                      \* by the loop that awaits it

taskVars == <<status, exec, agentOf, agentLoad, rejected, capacity>>
loopVars == <<loop, cursor, raced, runStatus>>
vars == <<coordinatorVars, taskVars, loopVars, aborted, appends>>

TaskStatuses == {"queued", "running", "succeeded", "failed", "blocked", "cancelled"}
Terminal == {"succeeded", "failed", "blocked", "cancelled"}
ExecPhases == {"idle",        \* not started
               "capacity",    \* await processCapacity.acquire(signal)
               "starting",    \* await append task.started
               "executing",   \* await executor.execute
               "succeeding",  \* await append task.succeeded
               "failing",     \* await append task.failed or task.cancelled
               "releasing",   \* await releaseProcessCapacity
               "settled"}     \* the `finally` callback has run
OnThread == {"blocking", "cancelling", "sweeping", "deciding"}
LoopPhases == OnThread \cup
  {"top",                     \* about to test allTasksTerminal
   "blockAppend",             \* await append task.blocked
   "cancelAppend",            \* await append task.cancelled
   "racing",                  \* await Promise.race(running.values())
   "waiting",                 \* await waitForChange
   "returned", "threw"}

TasksOf(r) == {t \in Tasks : RunOf[t] = r}
InFlight == {t \in Tasks : exec[t] \notin {"idle", "settled"}}
Running(r) == InFlight \cap TasksOf(r)          \* the map `running`
ThreadFree == \A r \in Runs : loop[r] \notin OnThread

Init ==
  /\ CoordinatorInit
  \* validateResumeState: restored tasks are succeeded, with their output.
  /\ \E restored \in SUBSET Tasks :
       /\ MayResume \/ restored = {}
       /\ \A t \in restored : DependsOn[t] \subseteq restored
       /\ status = [t \in Tasks |-> IF t \in restored THEN "succeeded" ELSE "queued"]
  /\ exec = [t \in Tasks |-> "idle"]
  /\ agentOf = [t \in Tasks |-> NoAgent]
  /\ agentLoad = [r \in Runs |-> [a \in Agents |-> 0]]
  /\ rejected = {}
  /\ capacity = {}
  /\ loop = [r \in Runs |-> "top"]
  /\ cursor = 1
  /\ raced = [r \in Runs |-> {}]
  /\ aborted = {}
  /\ runStatus = [r \in Runs |-> "none"]
  /\ appends = [r \in Runs |-> <<>>]

\* JsonlEventStore.#serialize: appends are written, and answer, in call order.
CallAppend(r, caller) == appends' = [appends EXCEPT ![r] = Append(@, caller)]

AppendAnswers(r, caller) ==
  /\ appends[r] # <<>>
  /\ caller = Head(appends[r])
  /\ appends' = [appends EXCEPT ![r] = Tail(@)]

\* The append answers with an error, and the catch clause appends in turn.
AppendFailsAndIsCaught(r, caller) ==
  /\ IoMayFail
  /\ appends[r] # <<>>
  /\ caller = Head(appends[r])
  /\ appends' = [appends EXCEPT ![r] = Append(Tail(@), caller)]

Goto(r, phase) == loop' = [loop EXCEPT ![r] = phase]

-----------------------------------------------------------------------------
(* The loop of run *)

\* Mutant: a started task counts as done.
NoTaskQueued(r) == \A t \in TasksOf(r) : status[t] # "queued"

AllTasksTerminal(r) == \A t \in TasksOf(r) : status[t] \in Terminal

\* Mutant: the Run takes the status of its worst task.
WorstTaskStatus(r) ==
  LET results == {status[t] : t \in TasksOf(r)} IN
  IF r \in aborted \/ "cancelled" \in results THEN "cancelled"
  ELSE IF "blocked" \in results THEN "blocked"
  ELSE IF "failed" \in results THEN "failed" ELSE "succeeded"

\* Mutant: an abort that cancelled no task is forgotten.
StatusOfTasksOnly(r) ==
  LET results == {status[t] : t \in TasksOf(r)} IN
  IF "cancelled" \in results THEN "cancelled"
  ELSE IF results \cap {"failed", "blocked"} # {} THEN "failed" ELSE "succeeded"

DeriveRunStatus(r) ==
  LET results == {status[t] : t \in TasksOf(r)} IN
  IF r \in aborted \/ "cancelled" \in results THEN "cancelled"
  ELSE IF results \cap {"failed", "blocked"} # {} THEN "failed"
  ELSE "succeeded"

Return(r) ==
  /\ Goto(r, "returned")
  /\ runStatus' = [runStatus EXCEPT ![r] = DeriveRunStatus(r)]
  /\ UNCHANGED <<cursor, raced>>

\* `while (!allTasksTerminal(records))`.
LoopExit(r) ==
  /\ ThreadFree
  /\ loop[r] = "top"
  /\ AllTasksTerminal(r)
  /\ Return(r)
  /\ UNCHANGED <<coordinatorVars, taskVars, aborted, appends>>

\* The top of the body: read the version, then cancel or block and sweep.
LoopBody(r) ==
  /\ ThreadFree
  /\ loop[r] = "top"
  /\ ~AllTasksTerminal(r)
  /\ ReadVersion(r)
  /\ Goto(r, IF r \in aborted THEN "cancelling" ELSE "blocking")
  /\ UNCHANGED <<taskVars, cursor, raced, runStatus, aborted, appends>>

Queued(r) == {t \in TasksOf(r) : status[t] = "queued"}

CancelQueuedTask(r, t) ==
  /\ loop[r] = "cancelling"
  /\ t \in Queued(r)
  /\ status' = [status EXCEPT ![t] = "cancelled"]
  /\ CallAppend(r, NoTask)
  /\ Goto(r, "cancelAppend")
  /\ UNCHANGED <<coordinatorVars, exec, agentOf, agentLoad, rejected, capacity,
                 cursor, raced, runStatus, aborted>>

CancelDone(r) ==
  /\ loop[r] = "cancelling"
  /\ Queued(r) = {}
  /\ Goto(r, "deciding")
  /\ UNCHANGED <<coordinatorVars, taskVars, cursor, raced, runStatus, aborted, appends>>

DependencyFailed(t) ==
  \E d \in DependsOn[t] : status[d] \in {"failed", "blocked", "cancelled"}

BlockTask(r, t) ==
  /\ loop[r] = "blocking"
  /\ t \in Queued(r)
  /\ DependencyFailed(t)
  /\ status' = [status EXCEPT ![t] = "blocked"]
  /\ CallAppend(r, NoTask)
  /\ Goto(r, "blockAppend")
  /\ UNCHANGED <<coordinatorVars, exec, agentOf, agentLoad, rejected, capacity,
                 cursor, raced, runStatus, aborted>>

\* The pass that changes nothing runs straight on into the sweep.
BlockDone(r) ==
  /\ loop[r] = "blocking"
  /\ \A t \in Queued(r) : ~DependencyFailed(t)
  /\ Goto(r, "sweeping")
  /\ cursor' = 1
  /\ UNCHANGED <<coordinatorVars, taskVars, raced, runStatus, aborted, appends>>

\* The append of task.blocked or task.cancelled answers; a rejection leaves run.
LoopAppended(r) ==
  /\ ThreadFree
  /\ loop[r] \in {"blockAppend", "cancelAppend"}
  /\ AppendAnswers(r, NoTask)
  /\ \/ Goto(r, IF loop[r] = "blockAppend" THEN "blocking" ELSE "cancelling")
     \/ IoMayFail /\ Goto(r, "threw")
  /\ UNCHANGED <<coordinatorVars, taskVars, cursor, raced, runStatus, aborted>>

\* selectAgent: a matching agent below its limit, with the least load.
FreeAgents(r, t) == {a \in CanServe[t] : agentLoad[r][a] < MaxParallel[a]}
SelectedAgents(r, t) ==
  {a \in FreeAgents(r, t) : \A b \in FreeAgents(r, t) : agentLoad[r][a] <= agentLoad[r][b]}

\* Mutant: a dependency that has not failed is good enough.
StartableEarly(r, t) ==
  /\ status[t] = "queued"
  /\ \A d \in DependsOn[t] : status[d] # "failed"
  /\ FreeAgents(r, t) # {}
  /\ CanAcquire(t)

Startable(r, t) ==
  /\ status[t] = "queued"
  /\ \A d \in DependsOn[t] : status[d] = "succeeded"
  /\ FreeAgents(r, t) # {}
  /\ CanAcquire(t)

SweepOver(r) ==
  \/ cursor > Len(Order[r])
  \/ Cardinality(Running(r)) >= RunConcurrency

\* acquire the slot, count the agent's load, and run #executeTask to its first
\* await.  Without a process capacity that await is a settled `undefined`.
StartTask(r, a) ==
  LET t == Order[r][cursor] IN
  /\ loop[r] = "sweeping"
  /\ ~SweepOver(r)
  /\ Startable(r, t)
  /\ a \in SelectedAgents(r, t)
  /\ AcquireSlot(t)
  /\ agentLoad' = [agentLoad EXCEPT ![r][a] = @ + 1]
  /\ agentOf' = [agentOf EXCEPT ![t] = a]
  /\ exec' = [exec EXCEPT ![t] = IF UseCapacity THEN "capacity" ELSE "starting"]
  /\ status' = IF UseCapacity THEN status ELSE [status EXCEPT ![t] = "running"]
  /\ IF UseCapacity THEN UNCHANGED appends ELSE CallAppend(r, t)
  /\ cursor' = cursor + 1
  /\ UNCHANGED <<rejected, capacity, loop, raced, runStatus, aborted>>

SkipTask(r) ==
  /\ loop[r] = "sweeping"
  /\ ~SweepOver(r)
  /\ ~Startable(r, Order[r][cursor])
  /\ cursor' = cursor + 1
  /\ UNCHANGED <<coordinatorVars, taskVars, loop, raced, runStatus, aborted, appends>>

SweepDone(r) ==
  /\ loop[r] = "sweeping"
  /\ SweepOver(r)
  /\ Goto(r, "deciding")
  /\ UNCHANGED <<coordinatorVars, taskVars, cursor, raced, runStatus, aborted, appends>>

\* `if (running.size === 0) ... ; await Promise.race(running.values())`.
DecideToRace(r) ==
  /\ loop[r] = "deciding"
  /\ Running(r) # {}
  /\ raced' = [raced EXCEPT ![r] = Running(r)]
  /\ Goto(r, "racing")
  /\ UNCHANGED <<coordinatorVars, taskVars, cursor, runStatus, aborted, appends>>

DecideToReturn(r) ==
  /\ loop[r] = "deciding"
  /\ Running(r) = {} /\ Queued(r) = {}
  /\ Return(r)
  /\ UNCHANGED <<coordinatorVars, taskVars, aborted, appends>>

\* Queued tasks and nothing running: wait for another Run's slot, or throw
\* "Scheduler deadlock: queued tasks cannot be scheduled".
DecideToWait(r) ==
  /\ loop[r] = "deciding"
  /\ Running(r) = {} /\ Queued(r) # {}
  /\ IF activeCount > 0 /\ MustWait(r, aborted)
     THEN Park(r) /\ Goto(r, "waiting")
     ELSE UNCHANGED coordinatorVars /\ Goto(r, IF activeCount > 0 THEN "top" ELSE "threw")
  /\ UNCHANGED <<taskVars, cursor, raced, runStatus, aborted, appends>>

WaitOver(r) ==
  /\ ThreadFree
  /\ loop[r] = "waiting"
  /\ r \notin waiters
  /\ Goto(r, "top")
  /\ UNCHANGED <<coordinatorVars, taskVars, cursor, raced, runStatus, aborted, appends>>

\* The race settles as one of its settled executions did.
RaceOver(r) ==
  /\ ThreadFree
  /\ loop[r] = "racing"
  /\ \E t \in raced[r] :
       /\ exec[t] = "settled"
       /\ Goto(r, IF t \in rejected THEN "threw" ELSE "top")
  /\ UNCHANGED <<coordinatorVars, taskVars, cursor, raced, runStatus, aborted, appends>>

-----------------------------------------------------------------------------
(* #executeTask, and the `finally` callback that follows it *)

Move(t, from, to) ==
  /\ ThreadFree
  /\ exec[t] = from
  /\ exec' = [exec EXCEPT ![t] = to]

\* The catch clause, up to its append.
Fail(t) ==
  status' = [status EXCEPT ![t] = IF RunOf[t] \in aborted THEN "cancelled" ELSE "failed"]

CapacityGranted(t) ==
  /\ Move(t, "capacity", "starting")
  /\ Cardinality(capacity) < CapacitySlots
  /\ capacity' = capacity \cup {t}
  /\ status' = [status EXCEPT ![t] = "running"]
  /\ CallAppend(RunOf[t], t)
  /\ UNCHANGED <<coordinatorVars, agentOf, agentLoad, rejected, loopVars, aborted>>

\* "Provider capacity wait was cancelled", or an I/O error of the slot files.
CapacityRefused(t) ==
  /\ RunOf[t] \in aborted \/ IoMayFail
  /\ Move(t, "capacity", "failing")
  /\ Fail(t)
  /\ CallAppend(RunOf[t], t)
  /\ UNCHANGED <<coordinatorVars, agentOf, agentLoad, rejected, capacity, loopVars, aborted>>

StartedAppended(t) ==
  /\ \/ /\ AppendAnswers(RunOf[t], t)
        /\ Move(t, "starting", "executing")
        /\ status' = status
     \/ /\ AppendFailsAndIsCaught(RunOf[t], t)
        /\ Move(t, "starting", "failing")
        /\ Fail(t)
  /\ UNCHANGED <<coordinatorVars, agentOf, agentLoad, rejected, capacity, loopVars, aborted>>

\* The executor: any outcome, at any time.
ExecutorReturns(t) ==
  /\ Move(t, "executing", "succeeding")
  /\ status' = [status EXCEPT ![t] = "succeeded"]
  /\ CallAppend(RunOf[t], t)
  /\ UNCHANGED <<coordinatorVars, agentOf, agentLoad, rejected, capacity, loopVars, aborted>>

ExecutorThrows(t) ==
  /\ Move(t, "executing", "failing")
  /\ Fail(t)
  /\ CallAppend(RunOf[t], t)
  /\ UNCHANGED <<coordinatorVars, agentOf, agentLoad, rejected, capacity, loopVars, aborted>>

\* A task whose task.succeeded cannot be appended is recorded as failed.
SucceededAppended(t) ==
  /\ \/ /\ AppendAnswers(RunOf[t], t)
        /\ Move(t, "succeeding", "releasing")
        /\ status' = status
     \/ /\ AppendFailsAndIsCaught(RunOf[t], t)
        /\ Move(t, "succeeding", "failing")
        /\ Fail(t)
  /\ UNCHANGED <<coordinatorVars, agentOf, agentLoad, rejected, capacity, loopVars, aborted>>

\* Mutant: when the append rejects, nothing after it runs.
FailedAppendedWithoutFinally(t) ==
  /\ AppendAnswers(RunOf[t], t)
  /\ \/ Move(t, "failing", "releasing") /\ UNCHANGED rejected
     \/ IoMayFail /\ Move(t, "failing", "settled") /\ rejected' = rejected \cup {t}
  /\ UNCHANGED <<coordinatorVars, status, agentOf, agentLoad, capacity, loopVars, aborted>>

FailedAppended(t) ==
  /\ AppendAnswers(RunOf[t], t)
  /\ Move(t, "failing", "releasing")
  /\ rejected' \in {rejected} \cup (IF IoMayFail THEN {rejected \cup {t}} ELSE {})
  /\ UNCHANGED <<coordinatorVars, status, agentOf, agentLoad, capacity, loopVars, aborted>>

\* `await releaseProcessCapacity?.()`, then releaseSlot, the agent's load and
\* running.delete: the coordinator wakes whoever waits for the slot.
Settle(t) ==
  /\ Move(t, "releasing", "settled")
  /\ capacity' = capacity \ {t}
  /\ rejected' \in {rejected}
       \cup (IF IoMayFail /\ t \in capacity THEN {rejected \cup {t}} ELSE {})
  /\ ReleaseSlot(t)
  /\ agentLoad' = [agentLoad EXCEPT ![RunOf[t]][agentOf[t]] = @ - 1]
  /\ UNCHANGED <<status, agentOf, loopVars, aborted, appends>>

\* The user cancels a Run: the abort listener of waitForChange wakes it.
Abort(r) ==
  /\ ThreadFree
  /\ r \in MayAbort \ aborted
  /\ loop[r] \notin {"returned", "threw"}
  /\ aborted' = aborted \cup {r}
  /\ Unpark(r)
  /\ UNCHANGED <<taskVars, loopVars, appends>>

-----------------------------------------------------------------------------
LoopStep(r) ==
  \/ LoopExit(r) \/ LoopBody(r) \/ LoopAppended(r)
  \/ \E t \in Tasks : CancelQueuedTask(r, t) \/ BlockTask(r, t)
  \/ CancelDone(r) \/ BlockDone(r)
  \/ \E a \in Agents : StartTask(r, a)
  \/ SkipTask(r) \/ SweepDone(r)
  \/ DecideToRace(r) \/ DecideToReturn(r) \/ DecideToWait(r)
  \/ WaitOver(r) \/ RaceOver(r)

TaskStep(t) ==
  \/ CapacityGranted(t) \/ CapacityRefused(t) \/ StartedAppended(t)
  \/ ExecutorReturns(t) \/ ExecutorThrows(t)
  \/ SucceededAppended(t) \/ FailedAppended(t) \/ Settle(t)

AllOver == /\ \A r \in Runs : loop[r] \in {"returned", "threw"}
           /\ InFlight = {}

Terminating == AllOver /\ UNCHANGED vars

Next ==
  \/ \E r \in Runs : LoopStep(r) \/ Abort(r)
  \/ \E t \in Tasks : TaskStep(t)
  \/ Terminating

Spec == Init /\ [][Next]_vars

\* The event loop runs whatever is ready; appends and executors answer (a model
\* turn has a timeout and a Task a turn limit).  Users owe nothing.
Fairness ==
  /\ \A r \in Runs : WF_vars(LoopStep(r))
  /\ \A t \in Tasks : WF_vars(TaskStep(t))

FairSpec == Spec /\ Fairness

-----------------------------------------------------------------------------
TypeOK ==
  /\ CoordinatorTypeOK
  /\ status \in [Tasks -> TaskStatuses]
  /\ exec \in [Tasks -> ExecPhases]
  /\ agentOf \in [Tasks -> Agents \cup {NoAgent}]
  /\ agentLoad \in [Runs -> [Agents -> Int]]
  /\ rejected \subseteq Tasks
  /\ capacity \subseteq Tasks
  /\ loop \in [Runs -> LoopPhases]
  /\ cursor \in Nat \ {0}
  /\ raced \in [Runs -> SUBSET Tasks]
  /\ aborted \subseteq Runs
  /\ runStatus \in [Runs -> {"none", "succeeded", "failed", "cancelled"}]
  /\ appends \in [Runs -> Seq(Tasks \cup {NoTask})]

Slots == INSTANCE ExecutionSlots WITH holders <- InFlight

\* Two tasks in flight, of the same or of two Runs, on one leased workspace
\* only read it (docs/M0-SPEC.md 4 to 6, ARCHITECTURE 2.3).  It is about the
\* executions, not about the lease table: a lease dropped too early, or twice,
\* or by a Run that returned before its tasks, would break it.
LeaseExclusion ==
  \A t, u \in InFlight : t # u => Slots!Compatible(t, u)

\* The executions in flight are exactly what the coordinator counts and what
\* its lease table records: nothing leaks over failures, aborts and returns.
CoordinatorAccounting ==
  /\ activeCount = Cardinality(InFlight)
  /\ activeCount <= GlobalConcurrency
  /\ leased = {t \in InFlight : Access[t] # "none"}
  /\ \A k \in LeaseKeys :
       /\ readers[k] = {t \in leased : Access[t] = "read" /\ LeaseKey[t] = k}
       /\ {writer[k]} \ {NoTask} = {t \in leased : Access[t] = "write" /\ LeaseKey[t] = k}

\* maxParallelTasks, the Run's own concurrency and the shared process capacity
\* bound the executions at once, whatever frees them (docs/M0-SPEC.md 3, M7).
ConcurrencyLimits ==
  /\ \A r \in Runs :
       /\ Cardinality(Running(r)) <= RunConcurrency
       /\ \A a \in Agents :
            Cardinality({t \in Running(r) : agentOf[t] = a}) <= MaxParallel[a]
  /\ UseCapacity =>
       LET working == {t \in InFlight : exec[t] \in {"starting", "executing"}} IN
       working \subseteq capacity /\ Cardinality(capacity) <= CapacitySlots

\* A task works only while every task it depends on is recorded as succeeded
\* (ARCHITECTURE 2.1: it may run only after all its dependencies succeeded).
DependenciesSucceeded ==
  \A t \in Tasks : exec[t] \in {"starting", "executing", "succeeding"} =>
    \A d \in DependsOn[t] : status[d] = "succeeded"

\* Whatever is taken for an execution, in four places, is given back once, over
\* failing appends and files, aborts and returns, and no limit is passed.
CountsAreKept == CoordinatorAccounting /\ ConcurrencyLimits

\* What a task is started on still stands while it works: the counts and the
\* lease table of the coordinator are those of the executions in flight, every
\* limit holds, and what it depends on has succeeded.
StartsAreSound == CountsAreKept /\ DependenciesSucceeded

\* The "Scheduler deadlock" error of line 171 is unreachable for a validated
\* Run, whatever the other Runs hold: only an I/O error can make run throw.
NeverDeadlocks == \A r \in Runs : loop[r] = "threw" => IoMayFail

\* What run returns says what happened: succeeded only if every task did,
\* failed only if one failed, cancelled only if the user asked for it.
ReturnedStatusSound == \A r \in Runs : loop[r] = "returned" =>
  /\ runStatus[r] = "succeeded" => \A t \in TasksOf(r) : status[t] = "succeeded"
  /\ runStatus[r] = "failed" => \E t \in TasksOf(r) : status[t] = "failed"
  /\ runStatus[r] = "cancelled" => r \in aborted

\* When run has returned no execution of it still does the task's work: a
\* workspace process lock given back then would be given back too early.
ReturnedRunsAreQuiet ==
  \A r \in Runs : loop[r] = "returned" =>
    \A t \in TasksOf(r) : exec[t] \notin {"capacity", "starting", "executing"}

\* However a Run ends it ends rightly: not by the deadlock error, with a status
\* that its tasks bear out, and with nothing of it still at work.
RunsEndSoundly == NeverDeadlocks /\ ReturnedStatusSound /\ ReturnedRunsAreQuiet

\* Every Run returns once its tasks' executors do: no wake-up is lost between
\* the Runs that wait for each other's slots (the version protocol).
EveryRunReturns == \A r \in Runs : <>(loop[r] \in {"returned", "threw"})

\* A cancelled Run ends as cancelled, even when all its tasks have ended since
\* (docs/M2-SPEC.md 5), unless an I/O error made run throw.
AbortEndsCancelled == \A r \in Runs :
  r \in aborted /\ ~AllTasksTerminal(r) ~> runStatus[r] = "cancelled" \/ loop[r] = "threw"

\* The scheduler implements the coordinator's promise.
ImplementsSlots == Slots!Spec
=============================================================================
