------------------------------ MODULE RunStory ------------------------------
(***************************************************************************)
(* A research Run as its events tell it.  The workflow, its agents and the *)
(* broker of interactive approvals (src/tool-approval.ts) append events;   *)
(* src/run-projection.ts folds them into what the window shows: the status *)
(* of the Run and of its tasks, the stages of its story, and a timeline of *)
(* spans.  The fold is kept up to date with every event, which is the same *)
(* as folding the file anew.                                               *)
(*                                                                         *)
(* The process may stop at any point; the next listing marks the Run as    *)
(* interrupted, and the user may resume it from its checkpoint.            *)
(***************************************************************************)
EXTENDS Naturals, Sequences, FiniteSets

CONSTANTS Workers, Writer,   \* the tasks; the writer waits for the workers
          MaxTurns,          \* turns of each agent
          MaxStops,          \* stops of the process and failures that are resumed
          MaxAuditFailures   \* answers to an approval whose event cannot be appended

ASSUME StoryBounds == Writer \notin Workers /\ {MaxTurns, MaxStops, MaxAuditFailures} \subseteq Nat

Tasks == Workers \union {Writer}
WholeRun == "run"
Owners == Tasks \union {WholeRun}
Lanes == {"task", "model", "tool", "approval", "plan", "review"}

VARIABLES
    phase,     \* what the process of the Run is at
    aborted,   \* the user cancelled the Run
    agreed,    \* the plan's decision, kept in its file ("none": no checkpoint yet)
    task,      \* each task's status in the scheduler
    doing,     \* what the agent of a running task is at
    saved,     \* its checkpoint: the next turn, a tool call, or its result
    journal,   \* the receipt of its current tool call
    turns,
    approval,  \* the broker's entry for it
    clicked,   \* what the user answered to it, and how often it was resolved (for the properties)
    lifecycle, \* the last event of the Run itself
    status, shown, stages, spans, \* the projection
    stops, auditFailures

truth == <<phase, aborted, agreed, task, doing, saved, journal, turns>>
asking == <<approval, clicked>>
story == <<lifecycle, status, shown, stages, spans>>
bounds == <<stops, auditFailures>>
storyVars == <<truth, asking, story, bounds>>

Unasked == [state |-> "none", settling |-> <<>>, timer |-> FALSE, failed |-> FALSE]

StoryTypeOK ==
    /\ phase \in {"planning", "created", "planned", "reviewing", "decided", "resuming", "queueing",
                 "working", "ended", "stopped"}
    /\ aborted \in BOOLEAN /\ agreed \in {"none", "open", "approved", "rejected"}
    /\ task \in [Tasks -> {"unknown", "queued", "running", "succeeded", "failed", "blocked", "cancelled"}]
    /\ \A t \in Tasks : /\ approval[t].state \in {"none", "asking", "open"}
                        /\ Len(approval[t].settling) <= 1 /\ Len(clicked[t]) <= 1
    /\ lifecycle \in {"live", "interrupted", "ended"}
    /\ status \in {"planning", "running", "awaiting_plan_approval", "cancelling",
                   "succeeded", "failed", "cancelled", "interrupted"}
    /\ stops \in 0 .. MaxStops /\ auditFailures \in 0 .. MaxAuditFailures

StoryInit ==
    /\ phase = "planning" /\ aborted = FALSE /\ agreed = "none"
    /\ task = [t \in Tasks |-> "unknown"] /\ doing = [t \in Tasks |-> "nothing"]
    /\ saved = [t \in Tasks |-> "turn"] /\ journal = [t \in Tasks |-> "none"]
    /\ turns = [t \in Tasks |-> 0]
    /\ approval = [t \in Tasks |-> Unasked] /\ clicked = [t \in Tasks |-> <<>>]
    /\ lifecycle = "live" /\ status = "planning" /\ shown = [t \in Tasks |-> "unknown"]
    /\ stages = [plan |-> FALSE, asked |-> FALSE, approved |-> FALSE, rejected |-> FALSE, review |-> "none"]
    /\ spans = [l \in Lanes |-> [o \in Owners |-> <<>>]]
    /\ stops = 0 /\ auditFailures = 0
---------------------------------------------------------------------------
(* projectRun and projectTimeline: what an event does to the projection.   *)
(* "fate" is what became of the span in truth, for the properties.         *)

Opened(lane, o) == [spans EXCEPT ![lane][o] = Append(@, [shown |-> "running", fate |-> "open"])]

\* MUTANT: the first open span of a lane is closed, whichever it is about.
ClosesFirst(lane, line) ==
    LET open == {i \in DOMAIN line : line[i].shown = "running"}
    IN  IF open = {} THEN 0 ELSE CHOOSE i \in open : \A j \in open : i <= j

\* Answers of models and reviews close the first span that is open; the other
\* ones the span that was opened last for the same task, call or approval.
Closes(lane, line) ==
    LET open == {i \in DOMAIN line : line[i].shown = "running"}
    IN  IF lane \notin {"model", "review"} THEN Len(line)
        ELSE IF open = {} THEN 0 ELSE CHOOSE i \in open : \A j \in open : i <= j

Closed(s, lane, o, end) ==
    LET line == s[lane][o] IN
    [s EXCEPT ![lane][o] = [i \in DOMAIN line |->
        [shown |-> IF i = Closes(lane, line) THEN end ELSE line[i].shown,
         fate |-> IF i = Len(line) /\ line[i].fate = "open" THEN end ELSE line[i].fate]]]

TellTask(t, event) ==
    /\ shown' = [shown EXCEPT ![t] = event]
    /\ spans' = CASE event = "running" -> Opened("task", t)
                  [] event = "succeeded" -> Closed(spans, "task", t, "succeeded")
                  [] event = "cancelled" -> Closed(spans, "task", t, "interrupted")
                  [] event \in {"failed", "blocked"} -> Closed(spans, "task", t, "failed")
                  [] event = "queued" -> spans
    /\ UNCHANGED <<lifecycle, status, stages>>

TellSpan(s) == spans' = s /\ UNCHANGED <<lifecycle, status, shown, stages>>
TellRun(s, now) == status' = s /\ lifecycle' = now /\ UNCHANGED <<shown, stages, spans>>

Settled(s) == s \in {"succeeded", "failed", "cancelled", "interrupted"}

\* What is shown: an interrupted Run has no task under way, and a settled one
\* no span.
ShownTask(t) ==
    IF status = "interrupted" /\ shown[t] \in {"queued", "running"} THEN "interrupted" ELSE shown[t]

ShownSpan(s) == IF Settled(status) /\ s.shown = "running" THEN "interrupted" ELSE s.shown

\* projectRunStory: the stages, with the status each is shown with.
StageOf(s) == CASE s \in {"queued", "running", "succeeded"} -> s
                [] s \in {"interrupted", "cancelled"} -> "interrupted"
                [] OTHER -> "failed"

Prepare == IF stages.plan THEN "succeeded" ELSE IF Settled(status) THEN StageOf(status) ELSE "running"
PlanReview == IF stages.approved THEN "succeeded" ELSE IF stages.rejected THEN "failed" ELSE "waiting"
ArtifactReview == CASE stages.review = "accepted" -> "succeeded"
                    [] stages.review = "failed" -> "failed"
                    [] OTHER -> "running"
Complete == IF Settled(status) THEN StageOf(status) ELSE "queued"

Stages ==
    {<<"prepare", Prepare>>, <<"complete", Complete>>}
    \union (IF stages.asked THEN {<<"plan-review", PlanReview>>} ELSE {})
    \union (IF stages.review = "none" THEN {} ELSE {<<"artifact-review", ArtifactReview>>})
    \union {<<t, StageOf(ShownTask(t))>> : t \in {t \in Tasks : shown[t] # "unknown"}}

\* projectMetrics: where a Run failed; the tools of the writer make the artifact.
FailureStage ==
    CASE status # "failed" -> "none"
      [] \E i \in DOMAIN spans["tool"][Writer] : spans["tool"][Writer][i].shown = "failed" -> "artifact_gate"
      [] \E t \in Tasks : ShownTask(t) \in {"failed", "blocked"} -> "task"
      [] ~stages.plan -> "planning"
      [] OTHER -> "runtime"
---------------------------------------------------------------------------
(* The plan and its review.                                                *)

PlanCreated ==
    /\ phase = "planning" /\ ~aborted /\ phase' = "created"
    /\ status' = "running" /\ stages' = [stages EXCEPT !.plan = TRUE]
    /\ UNCHANGED <<aborted, agreed, task, doing, saved, journal, turns, asking, lifecycle, shown, spans, bounds>>

\* The checkpoint, and the record of the plan's review.
CheckpointInitialized ==
    /\ phase = "created" /\ phase' = "planned" /\ agreed' = "open"
    /\ UNCHANGED <<aborted, task, doing, saved, journal, turns, asking, story, bounds>>

PlanningFails ==
    /\ phase = "planning" /\ phase' = "ended"
    /\ TellRun(IF aborted THEN "cancelled" ELSE "failed", "ended")
    /\ UNCHANGED <<aborted, agreed, task, doing, saved, journal, turns, asking, bounds>>

\* InteractivePlanReviewBroker.review: a decision of an earlier process counts,
\* and is told if that process did not come to it.
PlanReviewed ==
    /\ phase = "planned" /\ agreed \in {"approved", "rejected"}
    /\ phase' = IF agreed = "approved" THEN "resuming" ELSE "decided"
    /\ IF stages[agreed] THEN UNCHANGED story
       ELSE /\ status' = IF agreed = "approved" THEN "running" ELSE "cancelling"
            /\ stages' = [stages EXCEPT ![agreed] = TRUE]
            /\ spans' = Closed(spans, "plan", WholeRun, IF agreed = "approved" THEN "succeeded" ELSE "denied")
            /\ UNCHANGED <<lifecycle, shown>>
    /\ UNCHANGED <<aborted, agreed, task, doing, saved, journal, turns, asking, bounds>>

ReviewRequested ==
    /\ phase = "planned" /\ agreed = "open" /\ phase' = "reviewing"
    /\ status' = "awaiting_plan_approval" /\ stages' = [stages EXCEPT !.asked = TRUE]
    /\ spans' = Opened("plan", WholeRun)
    /\ UNCHANGED <<aborted, agreed, task, doing, saved, journal, turns, asking, lifecycle, shown, bounds>>

\* The decision is written to its file, then told; a cancelled Run's review
\* is settled as cancelled.
PlanDecided ==
    /\ phase = "reviewing" /\ agreed = "open"
    /\ agreed' \in IF aborted THEN {"rejected"} ELSE {"approved", "rejected"}
    /\ UNCHANGED <<phase, aborted, task, doing, saved, journal, turns, asking, story, bounds>>

PlanDecisionTold ==
    /\ phase = "reviewing" /\ agreed # "open"
    /\ phase' = IF agreed = "approved" THEN "resuming" ELSE "decided"
    /\ status' = IF agreed = "approved" THEN "running" ELSE "cancelling"
    /\ stages' = [stages EXCEPT ![agreed] = TRUE]
    /\ spans' = Closed(spans, "plan", WholeRun, IF agreed = "approved" THEN "succeeded" ELSE "denied")
    /\ UNCHANGED <<aborted, agreed, task, doing, saved, journal, turns, asking, lifecycle, shown, bounds>>

PlanRejected ==
    /\ phase = "decided" /\ phase' = "ended" /\ TellRun("cancelled", "ended")
    /\ UNCHANGED <<aborted, agreed, task, doing, saved, journal, turns, asking, bounds>>

\* The tasks of a new Run, or, after run.resumed, those of the checkpoint.
WorkBegins ==
    /\ phase = "resuming" /\ phase' = "queueing"
    /\ TellRun("running", "live")
    /\ UNCHANGED <<aborted, agreed, task, doing, saved, journal, turns, asking, bounds>>

TaskQueued(t) ==
    /\ phase = "queueing" /\ task[t] = "unknown"
    /\ task' = [task EXCEPT ![t] = IF saved[t] = "result" THEN "succeeded" ELSE "queued"]
    /\ phase' = IF \A u \in Tasks : task'[u] # "unknown" THEN "working" ELSE phase
    /\ shown' = [shown EXCEPT ![t] = task'[t]] /\ UNCHANGED <<lifecycle, status, stages, spans>>
    /\ UNCHANGED <<aborted, agreed, doing, saved, journal, turns, asking, bounds>>
---------------------------------------------------------------------------
(* Tasks, as the scheduler runs them and their agents work.                *)

Needs(t) == IF t = Writer THEN Workers ELSE {}
Over(t) == task[t] \in {"succeeded", "failed", "blocked", "cancelled"}

Becomes(t, s) == task' = [task EXCEPT ![t] = s] /\ TellTask(t, s)
Busy(t, activity) == phase = "working" /\ task[t] = "running" /\ doing[t] = activity
Now(t, activity) == doing' = [doing EXCEPT ![t] = activity]

TaskStarts(t) ==
    /\ phase = "working" /\ task[t] = "queued" /\ ~aborted
    /\ \A u \in Needs(t) : task[u] = "succeeded"
    /\ Becomes(t, "running") /\ Now(t, saved[t])
    /\ UNCHANGED <<phase, aborted, agreed, saved, journal, turns, asking, bounds>>

TaskDropped(t) ==
    /\ phase = "working" /\ task[t] = "queued"
    /\ \/ aborted /\ Becomes(t, "cancelled")
       \/ ~aborted /\ (\E u \in Needs(t) : task[u] \in {"failed", "blocked", "cancelled"}) /\ Becomes(t, "blocked")
    /\ UNCHANGED <<phase, aborted, agreed, doing, saved, journal, turns, asking, bounds>>

TaskSucceeds(t) ==
    /\ Busy(t, "result") /\ Becomes(t, "succeeded") /\ Now(t, "nothing")
    /\ UNCHANGED <<phase, aborted, agreed, saved, journal, turns, asking, bounds>>

TaskFails(t) ==
    /\ Busy(t, "thrown") /\ Now(t, "nothing")
    /\ Becomes(t, IF aborted THEN "cancelled" ELSE "failed")
    /\ UNCHANGED <<phase, aborted, agreed, saved, journal, turns, asking, bounds>>

RunEnded ==
    /\ phase = "working" /\ (\A t \in Tasks : Over(t)) /\ phase' = "ended"
    /\ TellRun(IF aborted THEN "cancelled"
               ELSE IF \A t \in Tasks : task[t] = "succeeded" THEN "succeeded" ELSE "failed", "ended")
    /\ UNCHANGED <<aborted, agreed, task, doing, saved, journal, turns, asking, bounds>>

\* AuditedModelClient.complete.
ModelRequested(t) ==
    /\ Busy(t, "turn") /\ turns[t] < MaxTurns
    /\ turns' = [turns EXCEPT ![t] = @ + 1]
    /\ Now(t, "model") /\ TellSpan(Opened("model", t))
    /\ UNCHANGED <<phase, aborted, agreed, task, saved, journal, asking, bounds>>

\* The answer calls a tool or, of a worker, is the result; the checkpoint
\* keeps it.
ModelAnswers(t) ==
    /\ Busy(t, "model")
    /\ \/ /\ TellSpan(Closed(spans, "model", t, "succeeded"))
          /\ \E next \in {"call"} \union (IF t = Writer THEN {} ELSE {"result"}) :
                saved' = [saved EXCEPT ![t] = next] /\ Now(t, next)
          /\ journal' = [journal EXCEPT ![t] = "none"]
       \/ TellSpan(Closed(spans, "model", t, "failed")) /\ Now(t, "thrown") /\ UNCHANGED <<saved, journal>>
    /\ UNCHANGED <<phase, aborted, agreed, task, turns, asking, bounds>>

BudgetExceeded(t) ==
    /\ Busy(t, "turn") /\ (turns[t] = MaxTurns \/ aborted) /\ Now(t, "thrown")
    /\ UNCHANGED <<phase, aborted, agreed, task, saved, journal, turns, asking, story, bounds>>

\* ToolRuntime.execute: the policy allows or denies the call, or the user is
\* asked.
ToolRequested(t) ==
    /\ Busy(t, "call") /\ Now(t, "policy") /\ TellSpan(Opened("tool", t))
    /\ UNCHANGED <<phase, aborted, agreed, task, saved, journal, turns, asking, bounds>>

Policy(t) ==
    /\ Busy(t, "policy")
    /\ \/ Now(t, "denied") /\ UNCHANGED approval
       \/ t = Writer /\ Now(t, "allowed") /\ UNCHANGED approval
       \/ /\ t \in Workers /\ Now(t, "waiting")
          /\ approval' = [approval EXCEPT ![t] = [Unasked EXCEPT !.state = "asking"]]
    /\ clicked' = [clicked EXCEPT ![t] = <<>>]
    /\ UNCHANGED <<phase, aborted, agreed, task, saved, journal, turns, story, bounds>>

ToolDenied(t) ==
    /\ Busy(t, "denied") /\ Now(t, "turn") /\ TellSpan(Closed(spans, "tool", t, "denied"))
    /\ saved' = [saved EXCEPT ![t] = "turn"]
    /\ UNCHANGED <<phase, aborted, agreed, task, journal, turns, asking, bounds>>

\* A receipt that was completed is reused, whatever its result was; no Run with
\* a receipt in doubt is resumed.
ToolAllowed(t) ==
    /\ Busy(t, "allowed")
    /\ \/ /\ journal[t] = "none" /\ Now(t, "tool") /\ journal' = [journal EXCEPT ![t] = "started"]
          /\ UNCHANGED <<story, saved>>
       \/ /\ journal[t] \in {"completed", "failed"}
          /\ TellSpan(Closed(spans, "tool", t, "succeeded"))
          /\ LET next == IF t = Writer /\ journal[t] = "completed" THEN "result" ELSE "turn"
             IN  Now(t, next) /\ saved' = [saved EXCEPT ![t] = next]
          /\ UNCHANGED journal
    /\ UNCHANGED <<phase, aborted, agreed, task, turns, asking, bounds>>

\* The writer's tool has the artifact reviewed before it is published.
ReviewsArtifact(t) ==
    /\ t = Writer /\ Busy(t, "tool") /\ Now(t, "review")
    /\ stages' = [stages EXCEPT !.review = "reviewing"]
    /\ spans' = Opened("review", t) /\ UNCHANGED <<lifecycle, status, shown>>
    /\ UNCHANGED <<phase, aborted, agreed, task, saved, journal, turns, asking, bounds>>

ReviewEnds(t) ==
    /\ Busy(t, "review")
    /\ \E verdict \in {"accepted", "revision_requested", "failed"} :
         /\ stages' = [stages EXCEPT !.review = verdict]
         /\ spans' = Closed(spans, "review", t, IF verdict = "failed" THEN "failed" ELSE "succeeded")
         /\ Now(t, IF verdict = "accepted" THEN "written" ELSE "refused")
    /\ UNCHANGED <<phase, aborted, agreed, task, saved, journal, turns, asking, lifecycle, status, shown, bounds>>

ToolEnds(t) ==
    /\ \/ t # Writer /\ Busy(t, "tool") /\ Now(t, "written")
       \/ t # Writer /\ Busy(t, "tool") /\ Now(t, "refused")
    /\ UNCHANGED <<phase, aborted, agreed, task, saved, journal, turns, asking, story, bounds>>

\* The receipt is completed, then the event is told.
ReceiptCompleted(t) ==
    /\ phase = "working" /\ task[t] = "running" /\ doing[t] \in {"written", "refused"}
    /\ journal[t] = "started" /\ journal' = [journal EXCEPT ![t] = IF doing[t] = "written" THEN "completed" ELSE "failed"]
    /\ UNCHANGED <<phase, aborted, agreed, task, doing, saved, turns, asking, story, bounds>>

ToolTold(t) ==
    /\ phase = "working" /\ task[t] = "running"
    /\ \/ /\ doing[t] = "written" /\ journal[t] = "completed"
          /\ TellSpan(Closed(spans, "tool", t, "succeeded"))
          /\ LET next == IF t = Writer THEN "result" ELSE "turn"
             IN  Now(t, next) /\ saved' = [saved EXCEPT ![t] = next]
       \/ /\ doing[t] = "refused" /\ journal[t] = "failed"
          /\ TellSpan(Closed(spans, "tool", t, "failed"))
          /\ Now(t, "turn") /\ saved' = [saved EXCEPT ![t] = "turn"]
    /\ UNCHANGED <<phase, aborted, agreed, task, journal, turns, asking, bounds>>
---------------------------------------------------------------------------
(* InteractiveToolApprovalBroker.                                          *)

Change(t, entry) == approval' = [approval EXCEPT ![t] = entry]

\* approval.requested is appended, then the entry is made with its timer.
ApprovalRequested(t) ==
    /\ Busy(t, "waiting") /\ approval[t].state = "asking"
    /\ Change(t, [approval[t] EXCEPT !.state = "open", !.timer = TRUE])
    /\ TellSpan(Opened("approval", t))
    /\ UNCHANGED <<truth, clicked, bounds>>

\* MUTANT: an outcome that is being recorded does not keep others out.
NeverResolving(entry) == FALSE

Resolving(entry) == entry.settling # <<>>

Settle(entry, answer) ==
    IF entry.state # "open" \/ Resolving(entry) THEN entry ELSE [entry EXCEPT !.settling = Append(@, answer)]

UserAnswers(t) ==
    /\ approval[t].state = "open" /\ ~Resolving(approval[t])
    /\ \E answer \in {"approve", "deny"} : Change(t, Settle(approval[t], answer))
    /\ UNCHANGED <<truth, clicked, story, bounds>>

\* The timer fires once, whether its answer is taken or not.
ApprovalTimesOut(t) ==
    /\ approval[t].state = "open" /\ approval[t].timer
    /\ Change(t, [Settle(approval[t], "deny") EXCEPT !.timer = FALSE])
    /\ UNCHANGED <<truth, clicked, story, bounds>>

\* approval.resolved is appended, then the waiting call goes on; when that fails
\* the entry is open again.
ApprovalSettles(t) ==
    /\ approval[t].settling # <<>>
    /\ LET answer == Head(approval[t].settling)
           rest == Tail(approval[t].settling)
       IN  \/ /\ TellSpan(Closed(spans, "approval", t, IF answer = "approve" THEN "succeeded" ELSE "denied"))
              /\ clicked' = [clicked EXCEPT ![t] = Append(@, answer)]
              /\ Change(t, [Unasked EXCEPT !.settling = rest])
              /\ doing' = IF doing[t] = "waiting"
                          THEN [doing EXCEPT ![t] = IF answer = "approve" THEN "allowed" ELSE "denied"] ELSE doing
              /\ UNCHANGED <<phase, aborted, agreed, task, saved, journal, turns, bounds>>
           \/ /\ approval[t].state = "open" /\ auditFailures < MaxAuditFailures
              /\ auditFailures' = auditFailures + 1
              /\ Change(t, [approval[t] EXCEPT !.settling = rest, !.failed = TRUE])
              /\ UNCHANGED <<truth, clicked, story, stops>>
---------------------------------------------------------------------------
(* Cancellations, stops and resumes.                                       *)

\* The abort listeners of the open requests deny them; one whose event is
\* still being appended listens too late.
Abort ==
    /\ ~aborted /\ phase \notin {"ended", "stopped"} /\ aborted' = TRUE
    /\ approval' = [t \in Tasks |-> Settle(approval[t], "deny")]
    /\ UNCHANGED <<phase, agreed, task, doing, saved, journal, turns, clicked, story, bounds>>

Lost(line) == [i \in DOMAIN line |->
    IF line[i].fate = "open" THEN [line[i] EXCEPT !.fate = "interrupted"] ELSE line[i]]

ProcessStops ==
    /\ phase \notin {"ended", "stopped"} /\ stops < MaxStops /\ stops' = stops + 1
    /\ phase' = "stopped" /\ aborted' = FALSE
    /\ doing' = [t \in Tasks |-> "nothing"] /\ task' = [t \in Tasks |-> "unknown"]
    /\ approval' = [t \in Tasks |-> Unasked] /\ clicked' = [t \in Tasks |-> <<>>]
    /\ spans' = [l \in Lanes |->
         IF l = "plan" /\ agreed # "open" THEN spans[l] ELSE [o \in Owners |-> Lost(spans[l][o])]]
    /\ UNCHANGED <<agreed, saved, journal, turns, lifecycle, status, shown, stages, auditFailures>>

\* DesktopRunManager's reconciliation, with the next listing.
RunInterrupted ==
    /\ phase = "stopped" /\ lifecycle = "live" /\ TellRun("interrupted", "interrupted")
    /\ UNCHANGED <<truth, asking, bounds>>

\* A plan with its checkpoint, and no write in doubt.
Resumable ==
    /\ agreed # "none"
    /\ \A t \in Tasks : ~(saved[t] = "call" /\ journal[t] = "started")

RunResumed ==
    /\ phase \in {"ended", "stopped"} /\ status \in {"failed", "interrupted"} /\ Resumable
    /\ \/ phase = "stopped" /\ UNCHANGED stops
       \/ phase = "ended" /\ stops < MaxStops /\ stops' = stops + 1
    /\ phase' = "planned" /\ aborted' = FALSE
    /\ task' = [t \in Tasks |-> "unknown"] /\ doing' = [t \in Tasks |-> "nothing"]
    /\ turns' = [t \in Tasks |-> 0]
    /\ UNCHANGED <<agreed, saved, journal, asking, story, auditFailures>>

StoryNext ==
    \/ PlanCreated \/ PlanningFails \/ CheckpointInitialized
    \/ PlanReviewed \/ ReviewRequested \/ PlanDecided \/ PlanDecisionTold \/ PlanRejected
    \/ WorkBegins \/ RunEnded
    \/ \E t \in Tasks :
         \/ TaskQueued(t) \/ TaskStarts(t) \/ TaskDropped(t) \/ TaskSucceeds(t) \/ TaskFails(t)
         \/ ModelRequested(t) \/ ModelAnswers(t) \/ BudgetExceeded(t)
         \/ ToolRequested(t) \/ Policy(t) \/ ToolDenied(t) \/ ToolAllowed(t)
         \/ ReviewsArtifact(t) \/ ReviewEnds(t) \/ ToolEnds(t) \/ ReceiptCompleted(t) \/ ToolTold(t)
         \/ ApprovalRequested(t) \/ UserAnswers(t) \/ ApprovalTimesOut(t) \/ ApprovalSettles(t)
    \/ Abort \/ ProcessStops \/ RunInterrupted \/ RunResumed

StorySpec == StoryInit /\ [][StoryNext]_storyVars
---------------------------------------------------------------------------
(* Properties.                                                             *)

\* A span whose answer may have gone to an earlier one, which the stop of its
\* process left open.
Displaced(lane, line) ==
    lane \in {"model", "review"} /\ \E i \in DOMAIN line : line[i].fate = "interrupted"

\* What the window shows of a Run is what became of it: while its tasks are worked
\* on each is shown as it is, a settled Run shows no task under way, a span is
\* shown as succeeded or denied if and only if that is how it ended, a Run shown
\* as succeeded has only stages that succeeded, and one shown as failed in its
\* planning never started a task.
StoryIsTrue ==
    /\ StoryTypeOK
    /\ phase = "working" => \A t \in Tasks : ShownTask(t) = task[t]
    /\ Settled(status) /\ phase \in {"ended", "stopped"} =>
         \A t \in Tasks : ShownTask(t) \notin {"queued", "running"}
    /\ \A l \in Lanes, o \in Owners : \A i \in DOMAIN spans[l][o] : \A good \in {"succeeded", "denied"} :
         ~Displaced(l, spans[l][o]) =>
             (ShownSpan(spans[l][o][i]) = good <=> spans[l][o][i].fate = good)
    /\ status = "succeeded" => \A s \in Stages : s[2] = "succeeded"
    /\ FailureStage = "planning" => \A t \in Tasks : spans["task"][t] = <<>>

\* A worker's tool that needs an approval only runs after the user approved this
\* very request, which is answered once; and a request that nobody but the user can
\* end any more is one whose outcome could not be recorded.
ApprovalsAreSound ==
    \A t \in Workers :
        /\ doing[t] \in {"allowed", "tool", "written", "refused"} => clicked[t] = <<"approve">>
        /\ doing[t] = "denied" => clicked[t] \in {<<>>, <<"deny">>}
        /\ doing[t] = "waiting" => clicked[t] = <<>>
        /\ approval[t].state = "open" /\ ~approval[t].timer /\ approval[t].settling = <<>> => approval[t].failed
=============================================================================
