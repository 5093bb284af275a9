------------------------------- MODULE Plans --------------------------------
(***************************************************************************)
(* From the model's answer to the Run the scheduler is given:              *)
(* WorkflowPlanner and CodingWorkflowPlanner parse the answer, the         *)
(* research workflow has every selected source read by some task, the user *)
(* reviews the plan, and compilePlan makes tasks and agents of it.         *)
(***************************************************************************)
EXTENDS Naturals, Sequences, FiniteSets

CONSTANTS PlanIds,            \* task ids the model may give
          Selections,         \* the sources a user may select: sequences of ids
          SourceIds,          \* and those a plan may name
          Manifests,          \* those that are lists of sources, by their names
          OwnedPaths, Files,  \* what a coding task may claim, and the files there are
          MaxWorkerTasks

Elements(s) == {s[i] : i \in DOMAIN s}

ASSUME PlanAssumption ==
    /\ \A s \in Selections : s \in Seq(SourceIds)
    /\ "no list" \notin SourceIds
    /\ \A p \in OwnedPaths : p.dir \in BOOLEAN /\ p.segments \in Seq(Elements(p.segments)) /\ Len(p.segments) > 0
    /\ \A f \in Files : f \in Seq(Elements(f))
    /\ MaxWorkerTasks \in Nat

VARIABLES
    planMode,      \* "research" or "code"
    selected,      \* the selected sources, in the order of the catalogue
    repairs,       \* answers that were sent back
    planStep,
    plan,          \* the parsed tasks
    reviewed,      \* what the user approved
    definition     \* the tasks of the Run

planVars == <<planMode, selected, repairs, planStep, plan, reviewed, definition>>

Absent == {"no list"}     \* no sourceIds in the answer

\* In a research plan, "sources" may be missing and the instructions name some.
ResearchTasks ==
    {[id |-> i, sources |-> s, mentions |-> {}, owned |-> {}] :
        i \in PlanIds, s \in SUBSET SourceIds}
    \union {[id |-> i, sources |-> Absent, mentions |-> m, owned |-> {}] :
        i \in PlanIds, m \in SUBSET SourceIds}

CodingTasks ==
    {[id |-> i, sources |-> Absent, mentions |-> {}, owned |-> o] :
        i \in PlanIds, o \in {o \in SUBSET OwnedPaths : Cardinality(o) <= 2}}

Answers == UNION {[1 .. n -> IF planMode = "code" THEN CodingTasks ELSE ResearchTasks] :
                    n \in 0 .. MaxWorkerTasks + 1}

PlanInit ==
    /\ planMode \in {"research", "code"}
    /\ selected \in IF planMode = "research" THEN Selections ELSE {<<>>}
    /\ repairs = 0 /\ planStep = "asking" /\ plan = <<>> /\ reviewed = <<>> /\ definition = <<>>
---------------------------------------------------------------------------
(* parsePlan and parseCodingPlan.                                          *)

UniqueIds(tasks) == \A i, j \in DOMAIN tasks : tasks[i].id = tasks[j].id => i = j

Under(d, segments) ==
    Len(segments) > Len(d.segments) /\ SubSeq(segments, 1, Len(d.segments)) = d.segments

\* MUTANT: a directory is only compared with what was claimed before it.
OverlapsOneWay(p, q) == p.segments = q.segments \/ (p.dir /\ Under(p, q.segments))

Overlaps(p, q) ==
    p.segments = q.segments \/ (p.dir /\ Under(p, q.segments)) \/ (q.dir /\ Under(q, p.segments))

\* Each path is compared with those before it, of its own task too.
Disjoint(tasks) ==
    /\ \A i \in DOMAIN tasks : tasks[i].owned # {}
    /\ \A i \in DOMAIN tasks : \A p, q \in tasks[i].owned : p # q => ~Overlaps(p, q)
    /\ \A i, j \in DOMAIN tasks : i < j => \A p \in tasks[i].owned, q \in tasks[j].owned : ~Overlaps(p, q)

Parses(tasks) ==
    /\ Len(tasks) \in 1 .. MaxWorkerTasks
    /\ UniqueIds(tasks)
    /\ planMode = "code" => Disjoint(tasks)

Planned ==
    /\ planStep = "asking"
    /\ \E tasks \in Answers : Parses(tasks) /\ plan' = tasks
    /\ planStep' = "parsed"
    /\ UNCHANGED <<planMode, selected, repairs, reviewed, definition>>

\* An answer that does not parse: a research plan is asked for once more.
Refused ==
    /\ planStep = "asking"
    /\ \E tasks \in Answers : ~Parses(tasks)
    /\ IF planMode = "research" /\ repairs = 0
       THEN repairs' = 1 /\ UNCHANGED planStep
       ELSE planStep' = "failed" /\ UNCHANGED repairs
    /\ UNCHANGED <<planMode, selected, plan, reviewed, definition>>
---------------------------------------------------------------------------
(* ensureResearchSourceCoverage and researchSourceAssignments.             *)

PlannedSources(t) == IF t.sources = Absent THEN t.mentions ELSE t.sources
AllSources(tasks) == UNION {PlannedSources(tasks[i]) : i \in DOMAIN tasks}

SharedSources == Elements(selected) \intersect Manifests
Omitted(tasks) == {k \in DOMAIN selected : selected[k] \notin AllSources(tasks) \union SharedSources}

\* The omitted sources go round the tasks, in the order of the catalogue.
Given(tasks, i) ==
    {selected[k] : k \in {k \in Omitted(tasks) :
        Cardinality({j \in Omitted(tasks) : j < k}) % Len(tasks) = i - 1}}

\* A plan with an unknown source fails, unless nothing was selected.
Covered ==
    /\ planStep = "parsed" /\ planMode = "research"
    /\ IF selected = <<>> THEN planStep' = "covered" /\ UNCHANGED plan
       ELSE IF AllSources(plan) \subseteq Elements(selected)
       THEN /\ planStep' = "covered"
            /\ plan' = [i \in DOMAIN plan |-> [plan[i] EXCEPT
                 !.sources = PlannedSources(plan[i]) \union SharedSources \union Given(plan, i)]]
       ELSE planStep' = "failed" /\ UNCHANGED plan
    /\ UNCHANGED <<planMode, selected, repairs, reviewed, definition>>

Assignable ==
    \/ AllSources(plan) = {}
    \/ AllSources(plan) = Elements(selected)

\* The plan of a Run that is resumed is assigned anew, from its checkpoint.
Assigned ==
    /\ planStep = "covered"
    /\ planStep' = IF Assignable THEN "assigned" ELSE "failed"
    /\ UNCHANGED <<planMode, selected, repairs, plan, reviewed, definition>>

\* normalizeReviewablePlan checks the plan once more; the user approves it.
Reviewed ==
    /\ planStep = IF planMode = "code" THEN "parsed" ELSE "assigned"
    /\ Len(plan) \in 1 .. 8 /\ UniqueIds(plan)
    /\ reviewed' = plan /\ planStep' = "reviewed"
    /\ UNCHANGED <<planMode, selected, repairs, plan, definition>>

Rejected ==
    /\ planStep = IF planMode = "code" THEN "parsed" ELSE "assigned"
    /\ planStep' = "failed"
    /\ UNCHANGED <<planMode, selected, repairs, plan, reviewed, definition>>
---------------------------------------------------------------------------
(* compilePlan and compileCodingPlan.                                      *)

\* The sources a worker is shown and may read; all of them when none was assigned.
Visible(t) == IF AllSources(plan) = {} THEN Elements(selected) ELSE PlannedSources(t)

Worker(i) ==
    [id |-> plan[i].id, agent |-> i, needs |-> {},
     access |-> IF planMode = "code" THEN "write" ELSE "read",
     isolation |-> IF planMode = "code" THEN plan[i].id ELSE "none",
     publishes |-> FALSE, reads |-> Visible(plan[i])]

Integrator ==
    [id |-> "integrate", agent |-> 0, needs |-> {plan[i].id : i \in DOMAIN plan},
     access |-> "write", isolation |-> IF planMode = "code" THEN "run" ELSE "none",
     publishes |-> TRUE, reads |-> {}]

\* MultiAgentScheduler refuses two tasks with one id: that of the integrator may
\* have been given to a worker.
Accepts(tasks) == UniqueIds(tasks)

Compiled ==
    /\ planStep = "reviewed"
    /\ LET tasks == [i \in 1 .. Len(plan) + 1 |-> IF i <= Len(plan) THEN Worker(i) ELSE Integrator]
       IN  IF Accepts(tasks) THEN planStep' = "compiled" /\ definition' = tasks
           ELSE planStep' = "failed" /\ UNCHANGED definition
    /\ UNCHANGED <<planMode, selected, repairs, plan, reviewed>>

PlanNext == Planned \/ Refused \/ Covered \/ Assigned \/ Reviewed \/ Rejected \/ Compiled

PlanSpec == PlanInit /\ [][PlanNext]_planVars
---------------------------------------------------------------------------
\* assertChangedPathsOwned: what a task may have changed when its patch is taken.
MayChange(t, file) == \E p \in t.owned : (~p.dir /\ p.segments = file) \/ (p.dir /\ Under(p, file))

\* The Run the scheduler gets is the plan the user approved.  No file may be changed
\* by two tasks, so their patches never meet; every selected source is read by a
\* task, a list of sources by all of them, and no task reads another source; one
\* task publishes, after all others and on its own agent.
PlansAreSound ==
    planStep = "compiled" =>
        LET n == Len(plan) IN
        /\ reviewed = plan /\ Len(definition) = n + 1
        /\ planMode = "code" =>
             \A i, j \in 1 .. n : i # j => \A f \in Files : ~(MayChange(plan[i], f) /\ MayChange(plan[j], f))
        /\ planMode = "research" =>
             /\ UNION {definition[i].reads : i \in 1 .. n} = Elements(selected)
             /\ \A i \in 1 .. n : SharedSources \subseteq definition[i].reads
        /\ \A i, j \in DOMAIN definition : i # j =>
             definition[i].agent # definition[j].agent /\ definition[i].id # definition[j].id
        /\ {i \in DOMAIN definition : definition[i].publishes} = {n + 1}
        /\ definition[n + 1].needs = {definition[i].id : i \in 1 .. n}
=============================================================================
