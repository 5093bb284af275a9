------------------------------ MODULE Execution ------------------------------
(***************************************************************************)
(* One local command of an agent (src/execution-host.ts), in a sandbox of  *)
(* macOS or in a container: the process is the leader of a group, with a   *)
(* limit of time and of output, and is cancelled with its Run.             *)
(***************************************************************************)
EXTENDS Naturals, Sequences, FiniteSets

CONSTANTS OutputLimit,
          MaxChunks            \* bound: how much is written

ASSUME ExecutionAssumption == {OutputLimit, MaxChunks} \subseteq Nat

VARIABLES
    host,          \* "seatbelt" or "container"
    execStep,
    cancelled,     \* the signal of the Run was aborted
    alive,         \* the processes of the group
    holding,       \* those that have the pipes open
    exit,          \* how the command ended
    kept, truncated, chunks, \* what was read of its output
    reason,        \* terminationReason
    timer, forces, \* the limit of time; the pending SIGKILLs
    answer,        \* what run() gives
    told,          \* the events that were appended
    container, cleanup

execVars == <<host, execStep, cancelled, alive, holding, exit, kept, truncated, chunks,
              reason, timer, forces, answer, told, container, cleanup>>
processVars == <<alive, holding, exit, container>>
outputVars == <<kept, truncated, chunks>>
endVars == <<answer, told, cleanup>>

Targets == {"stdout", "stderr"}

ExecInit ==
    /\ host \in {"seatbelt", "container"} /\ execStep = "called" /\ cancelled = FALSE
    /\ alive = {} /\ holding = {} /\ exit = "none"
    /\ kept = [t \in Targets |-> 0] /\ truncated = FALSE /\ chunks = 0
    /\ reason = "none" /\ timer = FALSE /\ forces = 0
    /\ answer = "none" /\ told = <<>> /\ container = "none" /\ cleanup = "none"

Ended == IF host = "container" THEN "finally" ELSE "ended"
Running == execStep = "running"

\* execution.started; when it cannot be appended nothing is run, or removed.
Started ==
    /\ execStep = "called"
    /\ \/ execStep' = "started" /\ told' = <<"started">> /\ UNCHANGED answer
       \/ execStep' = "ended" /\ answer' = "error" /\ UNCHANGED told
    /\ UNCHANGED <<host, cancelled, processVars, outputVars, reason, timer, forces, cleanup>>

\* The launch cannot be prepared, or the Run is cancelled by now.
NotLaunched ==
    /\ execStep = "started" /\ execStep' = "caught"
    /\ UNCHANGED <<host, cancelled, processVars, outputVars, reason, timer, forces, endVars>>

Spawned ==
    /\ execStep = "started" /\ ~cancelled /\ execStep' = "running"
    /\ alive' = {"child"} /\ holding' = {"child"} /\ timer' = TRUE
    /\ container' = IF host = "container" THEN "running" ELSE "none"
    /\ UNCHANGED <<host, cancelled, exit, outputVars, reason, forces, endVars>>

\* The "error" event: there is no such executable.
SpawnFails ==
    /\ execStep = "started" /\ ~cancelled /\ execStep' = "caught"
    /\ UNCHANGED <<host, cancelled, processVars, outputVars, reason, timer, forces, endVars>>
---------------------------------------------------------------------------
(* What the processes do.                                                  *)

\* The command starts a helper; it closes its copies of the pipes, or not.
Forks ==
    /\ host = "seatbelt" /\ "child" \in alive /\ "helper" \notin alive \union holding
    /\ alive' = alive \union {"helper"}
    /\ holding' \in {holding, holding \union {"helper"}}
    /\ UNCHANGED <<host, execStep, cancelled, exit, outputVars, reason, timer, forces, endVars, container>>

\* The client of a container returns when the container is gone.
Exits(p) ==
    /\ p \in alive /\ alive' = alive \ {p} /\ holding' = holding \ {p}
    /\ IF p = "child" THEN exit' \in {"zero", "other"} /\ container' = (IF host = "container" THEN "gone" ELSE container)
       ELSE UNCHANGED <<exit, container>>
    /\ UNCHANGED <<host, execStep, cancelled, outputVars, reason, timer, forces, endVars>>

\* Processes that a signal ends; a container goes on without its client.
Killed(ended) ==
    /\ alive' = alive \ ended /\ holding' = holding \ ended
    /\ exit' = IF "child" \in ended THEN "other" ELSE exit
    /\ UNCHANGED container
---------------------------------------------------------------------------
(* terminateProcessTree: a SIGTERM, that a process may ignore, and later a  *)
(* SIGKILL, to the group.                                                   *)

\* MUTANT: nothing is killed that ignores the SIGTERM.
TerminateOnly == (\E ended \in SUBSET alive : Killed(ended)) /\ UNCHANGED forces

Terminate == (\E ended \in SUBSET alive : Killed(ended)) /\ forces' = forces + 1

ForceKill ==
    /\ forces > 0 /\ forces' = forces - 1 /\ Killed(alive)
    /\ UNCHANGED <<host, execStep, cancelled, outputVars, reason, timer, endVars>>

Timeout ==
    /\ Running /\ timer /\ timer' = FALSE /\ reason' = "timeout" /\ Terminate
    /\ UNCHANGED <<host, execStep, cancelled, outputVars, endVars>>

Cancel ==
    /\ ~cancelled /\ execStep # "ended" /\ cancelled' = TRUE
    /\ IF Running THEN reason' = "cancelled" /\ Terminate
       ELSE UNCHANGED <<reason, forces, processVars>>
    /\ UNCHANGED <<host, execStep, outputVars, timer, endVars>>

Other(t) == IF t = "stdout" THEN "stderr" ELSE "stdout"

\* collect: what was written may be read after its writer has ended.
Collect(t) ==
    /\ Running /\ chunks < MaxChunks /\ chunks' = chunks + 1
    /\ \E size \in 1 .. 2 :
         LET next == kept[t] + size
             room == OutputLimit - kept[Other(t)]
         IN  IF next > room
             THEN /\ kept' = [kept EXCEPT ![t] = room] /\ truncated' = TRUE
                  /\ reason' = "output" /\ Terminate
             ELSE kept' = [kept EXCEPT ![t] = next] /\ UNCHANGED <<truncated, reason, forces, processVars>>
    /\ UNCHANGED <<host, execStep, cancelled, timer, endVars>>

\* The "close" event: the child has ended and nobody has its pipes open.
Close ==
    /\ Running /\ "child" \notin alive /\ holding = {}
    /\ timer' = FALSE /\ execStep' = IF reason = "none" THEN "closed" ELSE "caught"
    /\ UNCHANGED <<host, cancelled, processVars, outputVars, reason, forces, endVars>>
---------------------------------------------------------------------------
(* What becomes of the result.                                             *)

\* An event that cannot be appended fails the command after all.
ResultTold ==
    /\ execStep = "closed"
    /\ \/ /\ told' = Append(told, IF exit = "zero" THEN "completed" ELSE "failed")
          /\ answer' = exit /\ execStep' = Ended
       \/ execStep' = "caught" /\ UNCHANGED <<told, answer>>
    /\ UNCHANGED <<host, cancelled, processVars, outputVars, reason, timer, forces, cleanup>>

FailureTold ==
    /\ execStep = "caught" /\ execStep' = Ended /\ answer' = "error"
    /\ told' \in {told, Append(told, "failed")}
    /\ UNCHANGED <<host, cancelled, processVars, outputVars, reason, timer, forces, cleanup>>

\* runCleanupProcess: rm --force of the container, which is killed when it
\* takes too long; whatever becomes of it, run() ends.
CleanedUp ==
    /\ execStep = "finally" /\ execStep' = "ended"
    /\ \/ cleanup' = "done" /\ container' = "gone"
       \/ cleanup' = "failed" /\ UNCHANGED container
    /\ UNCHANGED <<host, cancelled, alive, holding, exit, outputVars, reason, timer, forces, answer, told>>

ExecNext ==
    \/ Started \/ NotLaunched \/ Spawned \/ SpawnFails
    \/ Forks \/ (\E p \in {"child", "helper"} : Exits(p)) \/ ForceKill
    \/ Timeout \/ Cancel \/ (\E t \in Targets : Collect(t)) \/ Close
    \/ ResultTold \/ FailureTold \/ CleanedUp

ExecSpec == ExecInit /\ [][ExecNext]_execVars
---------------------------------------------------------------------------
\* A command keeps its limits.  No more output is kept than its limit; one that was
\* terminated leaves no process of its group behind, but for the time until the SIGKILL;
\* it only counts as completed when it ended by itself with code 0 before any
\* limit was reached, its answer is what its last event says, and its container is
\* gone when it ended unless the removal itself failed.
ExecutionsAreContained ==
    /\ kept["stdout"] + kept["stderr"] <= OutputLimit
    /\ reason # "none" /\ forces = 0 => alive = {}
    /\ "completed" \in {told[i] : i \in DOMAIN told} =>
         exit = "zero" /\ reason = "none" /\ ~truncated /\ answer = "zero"
    /\ Len(told) <= 2
    /\ execStep = "ended" =>
         /\ answer \in {"zero", "other"} => Len(told) = 2 /\ "child" \notin alive /\ reason = "none"
         /\ container = "running" => cleanup = "failed"
=============================================================================
