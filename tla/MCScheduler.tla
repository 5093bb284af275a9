---------------------------- MODULE MCScheduler ----------------------------
(* Instances of Scheduler for TLC. *)
EXTENDS Scheduler, TLC

CONSTANTS r1, r2, read1, read2, write1, other1, shared, private, worker, writerAgent

\* Run r1: two readers of the shared workspace and a task that writes its own
\* worktree once the first succeeded.  Run r2: a writer of the shared workspace.
MCRuns == {r1, r2}
MCTasks == {read1, read2, write1, other1}
MCOrder == (r1 :> <<read2, read1, write1>>) @@ (r2 :> <<other1>>)
MCRunOf == [t \in MCTasks |-> IF t = other1 THEN r2 ELSE r1]
MCDependsOn == [t \in MCTasks |-> IF t = write1 THEN {read1} ELSE {}]
MCLeaseKeys == {shared, private}
MCAccess == [t \in MCTasks |-> IF t \in {read1, read2} THEN "read" ELSE "write"]
MCLeaseKey == [t \in MCTasks |-> IF t = write1 THEN private ELSE shared]
MCAgents == {worker, writerAgent}
MCCanServe == [t \in MCTasks |-> IF t = read1 THEN {worker} ELSE {worker, writerAgent}]
MCMaxParallel == [a \in MCAgents |-> 1]

\* A smaller pair of Runs, for the instances whose steps branch more: a reader
\* and the integrator behind it, and a second Run's reader, all of one workspace.
PairTasks == {read1, write1, other1}
PairOrder == (r1 :> <<read1, write1>>) @@ (r2 :> <<other1>>)
PairRunOf == [t \in PairTasks |-> IF t = other1 THEN r2 ELSE r1]
PairDependsOn == [t \in PairTasks |-> IF t = write1 THEN {read1} ELSE {}]
PairAccess == [t \in PairTasks |-> IF t = write1 THEN "write" ELSE "read"]
PairLeaseKey == [t \in PairTasks |-> shared]
PairCanServe == [t \in PairTasks |-> IF t = write1 THEN {writerAgent} ELSE {worker}]
=============================================================================
