--------------------------- MODULE Services_proofs ---------------------------
(***************************************************************************)
(* Theorems about the services of a Run: its local commands (Execution),   *)
(* its approvals (RunStory) and its MCP servers (McpBridge), for any       *)
(* limits, tasks, servers, tools and updates.                              *)
(***************************************************************************)
EXTENDS Execution, RunStory, Plans, McpBridge, SequenceTheorems, FiniteSetTheorems, TLAPS

-----------------------------------------------------------------------------
(* Local commands.                                                         *)

\* Where a command is before it runs, and what it can have told where.
ExecTyped ==
  /\ execStep \in {"called", "started", "running", "closed", "caught", "finally", "ended"}
  /\ reason \in {"none", "timeout", "cancelled", "output"}
  /\ exit \in {"none", "zero", "other"} /\ forces \in Nat
  /\ kept \in [Targets -> Int] /\ kept["stdout"] + kept["stderr"] <= OutputLimit

\* Nothing is there before the launch, and a limit that was reached is not forgotten.
ProcessesKnown ==
  /\ execStep \in {"called", "started"} =>
       alive = {} /\ forces = 0 /\ reason = "none" /\ ~truncated /\ container = "none"
  /\ reason # "none" /\ forces = 0 => alive = {}
  /\ truncated => reason # "none"
  /\ container # "none" \/ execStep = "finally" => host = "container"
  /\ execStep = "closed" => reason = "none" /\ "child" \notin alive

\* The events told, the answer and the end agree.
ToldKnown ==
  /\ execStep = "called" => told = <<>> /\ answer = "none"
  /\ execStep \in {"started", "running", "closed", "caught"} => told = <<"started">> /\ answer = "none"
  /\ execStep \in {"finally", "ended"} =>
       \/ told = <<"started", "completed">> /\ answer = "zero" /\ exit = "zero"
          /\ reason = "none" /\ ~truncated /\ "child" \notin alive
       \/ told = <<"started", "failed">> /\ answer = exit /\ reason = "none" /\ "child" \notin alive
       \/ told \in {<<>>, <<"started">>, <<"started", "failed">>} /\ answer = "error"
  /\ execStep = "ended" /\ container = "running" => cleanup = "failed"

ExecInv == ExecTyped /\ ProcessesKnown /\ ToldKnown

\* A signal ends processes, and starts none.
LEMMA SignalEnds ==
  ASSUME NEW ended \in SUBSET alive, Killed(ended), exit \in {"none", "zero", "other"}
  PROVE  /\ alive' \subseteq alive /\ container' = container /\ exit' \in {"none", "zero", "other"}
         /\ "child" \notin alive => exit' = exit
         /\ ended = alive => alive' = {}
  BY DEF Killed

\* One more event.
LEMMA SecondEvent ==
  ASSUME NEW e
  PROVE  Append(<<"started">>, e) = <<"started", e>>
<1> DEFINE S == {"started", e}
<1>1. <<"started">> \in Seq(S) /\ <<"started", e>> \in Seq(S) /\ Append(<<"started">>, e) \in Seq(S)
  OBVIOUS
<1>2. Len(Append(<<"started">>, e)) = 2 /\ Len(<<"started", e>>) = 2
  OBVIOUS
<1>3. \A i \in 1 .. 2 : Append(<<"started">>, e)[i] = <<"started", e>>[i]
  OBVIOUS
<1> QED
  BY <1>1, <1>2, <1>3, SeqEqual

\* Every step of a command keeps what is known of it.
LEMMA ExecStepKeeps ==
  ASSUME ExecInv, [ExecNext]_execVars
  PROVE  ExecInv'
<1> USE ExecutionAssumption DEF ExecInv, ExecTyped, ProcessesKnown, ToldKnown
<1>1. CASE UNCHANGED execVars
  BY <1>1 DEF execVars
<1>2. CASE Started
  BY <1>2 DEF Started, processVars, outputVars
<1>3. CASE NotLaunched
  BY <1>3 DEF NotLaunched, processVars, outputVars, endVars
<1>4. CASE Spawned
  BY <1>4 DEF Spawned, processVars, outputVars, endVars
<1>5. CASE SpawnFails
  BY <1>5 DEF SpawnFails, processVars, outputVars, endVars
<1>6. CASE Forks
  BY <1>6 DEF Forks, outputVars, endVars
<1>7. ASSUME NEW p \in {"child", "helper"}, Exits(p) PROVE ExecInv'
  BY <1>7 DEF Exits, outputVars, endVars
<1>8. CASE ForceKill
  <2>1. alive' = {} /\ container' = container /\ exit' \in {"none", "zero", "other"}
        /\ ("child" \notin alive => exit' = exit)
    BY <1>8, SignalEnds DEF ForceKill
  <2> QED
    BY <1>8, <2>1 DEF ForceKill, outputVars, endVars
<1>9. CASE Timeout
  <2>1. PICK ended \in SUBSET alive : Killed(ended)
    BY <1>9 DEF Timeout, Terminate
  <2> QED
    BY <1>9, <2>1, SignalEnds DEF Timeout, Terminate, Running, outputVars, endVars
<1>10. CASE Cancel
  <2>1. CASE Running
    <3>1. PICK ended \in SUBSET alive : Killed(ended)
      BY <1>10, <2>1 DEF Cancel, Terminate
    <3> QED
      BY <1>10, <2>1, <3>1, SignalEnds DEF Cancel, Terminate, Running, outputVars, endVars
  <2>2. CASE ~Running
    BY <1>10, <2>2 DEF Cancel, processVars, outputVars, endVars
  <2> QED
    BY <2>1, <2>2
<1>11. ASSUME NEW t \in Targets, Collect(t) PROVE ExecInv'
  <2>1. PICK size \in 1 .. 2 :
           LET next == kept[t] + size
               room == OutputLimit - kept[Other(t)]
           IN  IF next > room
               THEN /\ kept' = [kept EXCEPT ![t] = room] /\ truncated' = TRUE
                    /\ reason' = "output" /\ Terminate
               ELSE kept' = [kept EXCEPT ![t] = next] /\ UNCHANGED <<truncated, reason, forces, processVars>>
    BY <1>11 DEF Collect
  <2>2. /\ execStep = "running" /\ execStep' = execStep
        /\ UNCHANGED <<host, cancelled, timer, endVars>>
    BY <1>11 DEF Collect, Running
  <2>3. t \in {"stdout", "stderr"} /\ Other(t) \in Targets /\ Other(t) # t
    BY DEF Targets, Other
  <2>4. kept["stdout"] + kept["stderr"] = kept[t] + kept[Other(t)]
    BY <2>3 DEF Targets, Other
  <2>5. CASE kept[t] + size > OutputLimit - kept[Other(t)]
    <3>1. kept' = [kept EXCEPT ![t] = OutputLimit - kept[Other(t)]] /\ truncated' = TRUE
          /\ reason' = "output" /\ Terminate
      BY <2>1, <2>5
    <3>2. kept' \in [Targets -> Int] /\ kept'["stdout"] + kept'["stderr"] <= OutputLimit
      BY <3>1, <2>3, <2>4 DEF Targets, Other
    <3>3. PICK ended \in SUBSET alive : Killed(ended)
      BY <3>1 DEF Terminate
    <3> QED
      BY <2>2, <3>1, <3>2, <3>3, SignalEnds DEF Terminate, endVars
  <2>6. CASE ~(kept[t] + size > OutputLimit - kept[Other(t)])
    <3>1. kept' = [kept EXCEPT ![t] = kept[t] + size] /\ UNCHANGED <<truncated, reason, forces, processVars>>
      BY <2>1, <2>6
    <3>2. kept' \in [Targets -> Int] /\ kept'["stdout"] + kept'["stderr"] <= OutputLimit
      BY <3>1, <2>3, <2>4, <2>6 DEF Targets, Other
    <3> QED
      BY <2>2, <3>1, <3>2 DEF processVars, endVars
  <2> QED
    BY <2>5, <2>6
<1>12. CASE Close
  BY <1>12 DEF Close, Running, processVars, outputVars, endVars
<1>13. CASE ResultTold
  <2>1. told = <<"started">> /\ execStep = "closed" /\ Ended \in {"finally", "ended"}
        /\ (Ended = "finally" => host = "container")
    BY <1>13 DEF ResultTold, Ended
  <2>2. Append(told, "completed") = <<"started", "completed">> /\ Append(told, "failed") = <<"started", "failed">>
    BY <2>1, SecondEvent
  <2>3. CASE execStep' = "caught" /\ UNCHANGED <<told, answer>>
    BY <1>13, <2>1, <2>3 DEF ResultTold, processVars, outputVars
  <2>4. CASE /\ told' = Append(told, IF exit = "zero" THEN "completed" ELSE "failed")
             /\ answer' = exit /\ execStep' = Ended
    <3>1. ToldKnown'
      BY <1>13, <2>1, <2>2, <2>4 DEF ResultTold, Ended, processVars, outputVars
    <3> QED
      BY <1>13, <2>1, <2>4, <3>1 DEF ResultTold, processVars, outputVars
  <2> QED
    BY <1>13, <2>3, <2>4 DEF ResultTold
<1>14. CASE FailureTold
  <2>1. told = <<"started">> /\ execStep = "caught" /\ Ended \in {"finally", "ended"}
        /\ (Ended = "finally" => host = "container")
    BY <1>14 DEF FailureTold, Ended
  <2>2. Append(told, "failed") = <<"started", "failed">>
    BY <2>1, SecondEvent
  <2>3. ToldKnown'
    BY <1>14, <2>1, <2>2 DEF FailureTold, Ended, processVars
  <2> QED
    BY <1>14, <2>1, <2>3 DEF FailureTold, processVars, outputVars
<1>15. CASE CleanedUp
  <2>1. execStep = "finally" /\ execStep' = "ended" /\ UNCHANGED <<told, answer, exit, reason, alive>>
    BY <1>15 DEF CleanedUp, outputVars
  <2>2. container' = "running" => container = "running" /\ cleanup' = "failed"
    BY <1>15 DEF CleanedUp
  <2>3. ToldKnown'
    BY <1>15, <2>1, <2>2 DEF CleanedUp, outputVars
  <2>4. ExecTyped' /\ ProcessesKnown'
    BY <1>15, <2>1 DEF CleanedUp, outputVars
  <2> QED
    BY <2>3, <2>4
<1> QED
  BY <1>1, <1>2, <1>3, <1>4, <1>5, <1>6, <1>7, <1>8, <1>9, <1>10, <1>11, <1>12, <1>13, <1>14,
     <1>15 DEF ExecNext

\* A command keeps its limits of output and time, its answer is what its last event
\* says and what became of its process, and nothing of it is left behind, for any
\* limit and any amount of output.
THEOREM ExecutionsAreContainedCorrect == ExecSpec => []ExecutionsAreContained
<1>1. ExecInit => ExecInv
  BY ExecutionAssumption DEF ExecInit, ExecInv, ExecTyped, ProcessesKnown, ToldKnown, Targets
<1>2. ExecInv => ExecutionsAreContained
  <2> SUFFICES ASSUME ExecInv PROVE ExecutionsAreContained
    OBVIOUS
  <2>1. \/ told \in {<<>>, <<"started">>, <<"started", "failed">>}
        \/ /\ told = <<"started", "completed">> /\ answer = "zero" /\ exit = "zero"
           /\ reason = "none" /\ ~truncated
    BY DEF ExecInv, ExecTyped, ToldKnown
  <2>2. "completed" \in {told[i] : i \in DOMAIN told} => told = <<"started", "completed">>
    BY <2>1
  <2>3. Len(told) <= 2
    BY <2>1
  <2> QED
    BY <2>1, <2>2, <2>3 DEF ExecInv, ExecTyped, ProcessesKnown, ToldKnown, ExecutionsAreContained
<1> QED
  BY <1>1, <1>2, ExecStepKeeps, PTL DEF ExecSpec

-----------------------------------------------------------------------------
(* Approvals.                                                              *)

Doings == {"nothing", "turn", "call", "result", "model", "thrown", "policy", "denied", "allowed",
           "waiting", "tool", "review", "written", "refused"}
Replies == {<<>>, <<"approve">>, <<"deny">>}
Entries == [state : {"none", "asking", "open"}, settling : Replies, timer : BOOLEAN, failed : BOOLEAN]

AgentsTyped ==
  /\ doing \in [Tasks -> Doings] /\ saved \in [Tasks -> {"turn", "call", "result"}]
  /\ approval \in [Tasks -> Entries] /\ clicked \in [Tasks -> Replies]
  /\ DOMAIN task = Tasks

\* A request is open while its call waits, nothing was answered to it before it is
\* settled, and an entry nobody is about to settle has its timer or has failed.
RequestAt(t) ==
  /\ approval[t].state # "none" => doing[t] = "waiting"
  /\ approval[t].settling # <<>> => approval[t].state = "open"
  /\ approval[t].state = "open" /\ ~approval[t].timer /\ approval[t].settling = <<>> => approval[t].failed
  /\ doing[t] = "waiting" => clicked[t] = <<>>
  /\ doing[t] = "denied" => clicked[t] \in {<<>>, <<"deny">>}
  /\ t \in Workers /\ doing[t] \in {"allowed", "tool", "review", "written", "refused"} => clicked[t] = <<"approve">>

\* An agent is at work on a task that runs only.
AgentAt(t) == RequestAt(t) /\ (doing[t] # "nothing" => phase = "working" /\ task[t] = "running")

AgentsInv == AgentsTyped /\ \A t \in Tasks : AgentAt(t)

\* A step of one agent is none of another's.
OnlyAgent(t) ==
  /\ phase' = phase
  /\ \A u \in Tasks \ {t} : /\ task'[u] = task[u] /\ doing'[u] = doing[u]
                            /\ approval'[u] = approval[u] /\ clicked'[u] = clicked[u]

\* So it is enough to look at the agent that took it.
LEMMA OneAgent ==
  ASSUME AgentsInv, NEW t \in Tasks, AgentsTyped', OnlyAgent(t), AgentAt(t)'
  PROVE  AgentsInv'
  BY DEF AgentsInv, AgentAt, RequestAt, OnlyAgent

\* A step of the Run itself, while no agent works or none is disturbed.
LEMMA RunKeepsAgents ==
  ASSUME AgentsInv, UNCHANGED <<doing, saved, approval, clicked>>, DOMAIN task' = Tasks,
         \A t \in Tasks : doing[t] # "nothing" => phase' = "working" /\ task'[t] = "running"
  PROVE  AgentsInv'
  BY DEF AgentsInv, AgentsTyped, AgentAt, RequestAt

\* A sequence of one.
LEMMA OneElement ==
  ASSUME NEW e
  PROVE  Head(<<e>>) = e /\ Tail(<<e>>) = <<>> /\ Append(<<>>, e) = <<e>>
<1>1. Len(Tail(<<e>>)) = 0 /\ Tail(<<e>>) \in Seq({e})
  OBVIOUS
<1> QED
  BY <1>1

\* The answer an entry takes, if it takes one.
LEMMA SettleKeeps ==
  ASSUME NEW e \in Entries, NEW reply \in {"approve", "deny"}
  PROVE  /\ Settle(e, reply) \in Entries
         /\ Settle(e, reply).state = e.state /\ Settle(e, reply).timer = e.timer
         /\ Settle(e, reply).failed = e.failed
         /\ e.state # "open" => Settle(e, reply) = e
         /\ e.state = "open" => Settle(e, reply).settling # <<>>
<1>1. Append(<<>>, reply) = <<reply>>
  OBVIOUS
<1>2. CASE e.state # "open" \/ Resolving(e)
  BY <1>2 DEF Settle, Resolving
<1>3. CASE ~(e.state # "open" \/ Resolving(e))
  <2>1. e.settling = <<>> /\ Settle(e, reply) = [e EXCEPT !.settling = <<reply>>]
    BY <1>1, <1>3 DEF Settle, Resolving
  <2> QED
    BY <1>3, <2>1 DEF Entries, Replies
<1> QED
  BY <1>2, <1>3

\* What an agent does on its own.
LEMMA AgentStep ==
  ASSUME AgentsInv, NEW t \in Tasks,
         \/ TaskStarts(t) \/ TaskDropped(t) \/ TaskSucceeds(t) \/ TaskFails(t)
         \/ ModelRequested(t) \/ ModelAnswers(t) \/ BudgetExceeded(t)
         \/ ToolRequested(t) \/ ToolDenied(t) \/ ToolAllowed(t)
         \/ ReviewsArtifact(t) \/ ReviewEnds(t) \/ ToolEnds(t) \/ ReceiptCompleted(t) \/ ToolTold(t)
  PROVE  AgentsInv'
<1> USE DEF AgentsTyped, Doings
<1>0. AgentsTyped /\ AgentAt(t)
  BY DEF AgentsInv
<1> SUFFICES AgentsTyped' /\ OnlyAgent(t) /\ AgentAt(t)'
  BY OneAgent
<1> USE DEF OnlyAgent, AgentAt, RequestAt, asking, Busy, Now, Becomes
<1>1. CASE TaskStarts(t)
  BY <1>0, <1>1, StoryBounds DEF TaskStarts
<1>2. CASE TaskDropped(t)
  BY <1>0, <1>2, StoryBounds DEF TaskDropped
<1>3. CASE TaskSucceeds(t)
  BY <1>0, <1>3, StoryBounds DEF TaskSucceeds
<1>4. CASE TaskFails(t)
  BY <1>0, <1>4, StoryBounds DEF TaskFails
<1>5. CASE ModelRequested(t)
  BY <1>0, <1>5, StoryBounds DEF ModelRequested
<1>6. CASE ModelAnswers(t)
  BY <1>0, <1>6, StoryBounds DEF ModelAnswers
<1>7. CASE BudgetExceeded(t)
  BY <1>0, <1>7, StoryBounds DEF BudgetExceeded
<1>8. CASE ToolRequested(t)
  BY <1>0, <1>8, StoryBounds DEF ToolRequested
<1>9. CASE ToolDenied(t)
  BY <1>0, <1>9, StoryBounds DEF ToolDenied
<1>10. CASE ToolAllowed(t)
  BY <1>0, <1>10, StoryBounds DEF ToolAllowed
<1>11. CASE ReviewsArtifact(t)
  BY <1>0, <1>11, StoryBounds DEF ReviewsArtifact
<1>12. CASE ReviewEnds(t)
  <2>1. PICK verdict \in {"accepted", "revision_requested", "failed"} :
           doing' = [doing EXCEPT ![t] = IF verdict = "accepted" THEN "written" ELSE "refused"]
    BY <1>12 DEF ReviewEnds
  <2>2. /\ phase = "working" /\ task[t] = "running" /\ doing[t] = "review"
        /\ UNCHANGED <<phase, task, saved, approval, clicked>>
    BY <1>12 DEF ReviewEnds
  <2> QED
    BY <1>0, <2>1, <2>2
<1>13. CASE ToolEnds(t)
  BY <1>0, <1>13, StoryBounds DEF ToolEnds
<1>14. CASE ReceiptCompleted(t)
  BY <1>0, <1>14, StoryBounds DEF ReceiptCompleted
<1>15. CASE ToolTold(t)
  BY <1>0, <1>15, StoryBounds DEF ToolTold
<1> QED
  BY <1>1, <1>2, <1>3, <1>4, <1>5, <1>6, <1>7, <1>8, <1>9, <1>10, <1>11, <1>12, <1>13, <1>14, <1>15
\* What the broker does with the request of one agent.
LEMMA BrokerStep ==
  ASSUME AgentsInv, NEW t \in Tasks,
         \/ Policy(t) \/ ApprovalRequested(t) \/ UserAnswers(t) \/ ApprovalTimesOut(t) \/ ApprovalSettles(t)
  PROVE  AgentsInv'
<1> USE DEF AgentsTyped, Doings
<1>0. AgentsTyped /\ AgentAt(t) /\ approval[t] \in Entries
  BY DEF AgentsInv
<1> SUFFICES AgentsTyped' /\ OnlyAgent(t) /\ AgentAt(t)'
  BY OneAgent
<1> USE DEF OnlyAgent, AgentAt, RequestAt
<1>1. CASE Policy(t)
  <2>1. [Unasked EXCEPT !.state = "asking"] \in Entries
    BY DEF Unasked, Entries, Replies
  <2>2. <<>> \in Replies /\ Unasked.settling = <<>> /\ Unasked.state = "none"
    BY DEF Replies, Unasked
  <2>3. approval[t].state = "none" /\ phase = "working" /\ task[t] = "running"
    BY <1>0, <1>1 DEF Policy, Busy, Entries
  <2>4. /\ clicked' = [clicked EXCEPT ![t] = <<>>] /\ UNCHANGED <<phase, task, saved>>
        /\ \/ doing' = [doing EXCEPT ![t] = "denied"] /\ UNCHANGED approval
           \/ t = Writer /\ doing' = [doing EXCEPT ![t] = "allowed"] /\ UNCHANGED approval
           \/ /\ doing' = [doing EXCEPT ![t] = "waiting"]
              /\ approval' = [approval EXCEPT ![t] = [Unasked EXCEPT !.state = "asking"]]
    BY <1>1 DEF Policy, Now
  <2>5. AgentsTyped' /\ OnlyAgent(t)
    BY <1>0, <2>1, <2>2, <2>4
  <2>6. approval[t].settling = <<>>
    BY <1>0, <2>3 
  <2> QED
    BY <1>0, <2>1, <2>2, <2>3, <2>4, <2>5, <2>6, StoryBounds DEF Unasked
<1>2. CASE ApprovalRequested(t)
  <2> DEFINE e == [approval[t] EXCEPT !.state = "open", !.timer = TRUE]
  <2>1. e \in Entries /\ e.state = "open" /\ e.timer
    BY <1>0 DEF Entries
  <2>2. /\ approval' = [approval EXCEPT ![t] = e] /\ UNCHANGED <<phase, task, saved, doing, clicked>>
        /\ doing[t] = "waiting" /\ phase = "working" /\ task[t] = "running"
    BY <1>2 DEF ApprovalRequested, Change, Busy, truth
  <2> QED
    BY <1>0, <2>1, <2>2
<1>3. CASE UserAnswers(t)
  <2>1. PICK a \in {"approve", "deny"} : approval' = [approval EXCEPT ![t] = Settle(approval[t], a)]
    BY <1>3 DEF UserAnswers, Change
  <2>2. UNCHANGED <<phase, task, saved, doing, clicked>> /\ approval[t].state = "open"
    BY <1>3 DEF UserAnswers, truth
  <2> QED
    BY <1>0, <2>1, <2>2, SettleKeeps
<1>4. CASE ApprovalTimesOut(t)
  <2> DEFINE s == Settle(approval[t], "deny")
             e == [s EXCEPT !.timer = FALSE]
  <2>1. approval' = [approval EXCEPT ![t] = e] /\ UNCHANGED <<phase, task, saved, doing, clicked>>
        /\ approval[t].state = "open"
    BY <1>4 DEF ApprovalTimesOut, Change, truth
  <2>2. s \in Entries /\ s.state = "open" /\ s.settling # <<>>
    BY <1>0, <2>1, SettleKeeps
  <2>3. e \in Entries /\ e.state = "open" /\ e.settling # <<>>
    BY <2>2 DEF Entries
  <2> QED
    BY <1>0, <2>1, <2>3
<1>5. CASE ApprovalSettles(t)
  <2> DEFINE reply == Head(approval[t].settling)
             rest == Tail(approval[t].settling)
  <2>1. approval[t].settling \in {<<"approve">>, <<"deny">>} /\ approval[t].settling # <<>>
    BY <1>0, <1>5 DEF ApprovalSettles, Entries, Replies
  <2>2. reply \in {"approve", "deny"} /\ rest = <<>> /\ Append(<<>>, reply) = <<reply>>
    BY <2>1, OneElement
  <2>3. approval[t].state = "open" /\ doing[t] = "waiting" /\ clicked[t] = <<>>
    BY <1>0, <2>1
  <2>4. UNCHANGED <<phase, task, saved>>
    BY <1>5 DEF ApprovalSettles, truth
  <2>5. CASE /\ clicked' = [clicked EXCEPT ![t] = Append(@, reply)]
             /\ Change(t, [Unasked EXCEPT !.settling = rest])
             /\ doing' = [doing EXCEPT ![t] = IF reply = "approve" THEN "allowed" ELSE "denied"]
    <3> DEFINE e == [Unasked EXCEPT !.settling = rest]
    <3>1. e \in Entries /\ e.state = "none" /\ e.settling = <<>>
      BY <2>2 DEF Unasked, Entries, Replies
    <3>2. clicked' = [clicked EXCEPT ![t] = <<reply>>] /\ approval' = [approval EXCEPT ![t] = e]
      BY <1>0, <2>2, <2>3, <2>5 DEF Change
    <3>3. <<reply>> \in Replies /\ (reply = "approve" => <<reply>> = <<"approve">>)
          /\ (reply # "approve" => <<reply>> = <<"deny">>)
      BY <2>2 DEF Replies
    <3> QED
      BY <1>0, <2>2, <2>3, <2>4, <2>5, <3>1, <3>2, <3>3
  <2>6. CASE /\ Change(t, [approval[t] EXCEPT !.settling = rest, !.failed = TRUE])
             /\ UNCHANGED <<truth, clicked>>
    <3> DEFINE e == [approval[t] EXCEPT !.settling = rest, !.failed = TRUE]
    <3>1. e \in Entries /\ e.state = "open" /\ e.settling = <<>> /\ e.failed
      BY <1>0, <2>2, <2>3 DEF Entries, Replies
    <3> QED
      BY <1>0, <2>3, <2>6, <3>1 DEF Change, truth
  <2> QED
    BY <1>5, <2>3, <2>5, <2>6 DEF ApprovalSettles
<1> QED
  BY <1>1, <1>2, <1>3, <1>4, <1>5

\* A stop of the Run, its cancellation and its resume.
LEMMA AllAgentsStep ==
  ASSUME AgentsInv, Abort \/ ProcessStops \/ RunResumed
  PROVE  AgentsInv'
<1>0. AgentsTyped /\ \A t \in Tasks : AgentAt(t)
  BY DEF AgentsInv
<1>1. CASE Abort
  <2>1. /\ approval' = [t \in Tasks |-> Settle(approval[t], "deny")]
        /\ UNCHANGED <<phase, task, saved, doing, clicked>>
    BY <1>1 DEF Abort
  <2>2. \A t \in Tasks : approval'[t] \in Entries
    BY <1>0, <2>1, SettleKeeps DEF AgentsTyped
  <2>3. ASSUME NEW t \in Tasks PROVE AgentAt(t)'
    <3>1. approval[t] \in Entries /\ approval'[t] = Settle(approval[t], "deny")
      BY <1>0, <2>1 DEF AgentsTyped
    <3> QED
      BY <1>0, <2>1, <3>1, SettleKeeps DEF AgentAt, RequestAt
  <2> QED
    BY <1>0, <2>1, <2>2, <2>3 DEF AgentsInv, AgentsTyped
<1>2. CASE ProcessStops
  <2>1. Unasked \in Entries /\ <<>> \in Replies /\ Unasked.settling = <<>> /\ Unasked.state = "none"
    BY DEF Unasked, Entries, Replies
  <2> QED
    BY <1>0, <1>2, <2>1 DEF ProcessStops, AgentsInv, AgentsTyped, AgentAt, RequestAt, Doings
<1>3. CASE RunResumed
  <2>1. \A t \in Tasks : doing[t] = "nothing" /\ doing'[t] = "nothing"
    BY <1>0, <1>3 DEF RunResumed, AgentsTyped, Doings, AgentAt
  <2> QED
    BY <1>0, <1>3, <2>1 DEF RunResumed, asking, AgentsInv, AgentsTyped, AgentAt, RequestAt, Doings
<1> QED
  BY <1>1, <1>2, <1>3

\* What the Run itself goes through before and after its tasks.
LEMMA RunStep ==
  ASSUME AgentsInv,
         \/ PlanCreated \/ PlanningFails \/ CheckpointInitialized
         \/ PlanReviewed \/ ReviewRequested \/ PlanDecided \/ PlanDecisionTold \/ PlanRejected
         \/ WorkBegins \/ RunEnded \/ RunInterrupted \/ \E t \in Tasks : TaskQueued(t)
  PROVE  AgentsInv'
<1>0. AgentsTyped /\ \A t \in Tasks : AgentAt(t)
  BY DEF AgentsInv
<1>1. CASE \/ PlanCreated \/ PlanningFails \/ CheckpointInitialized \/ PlanReviewed \/ ReviewRequested
            \/ PlanDecided \/ PlanDecisionTold \/ PlanRejected \/ WorkBegins \/ RunInterrupted
  <2>1. phase # "working" /\ UNCHANGED <<task, doing, saved, approval, clicked>>
    BY <1>1 DEF PlanCreated, PlanningFails, CheckpointInitialized, PlanReviewed, ReviewRequested,
         PlanDecided, PlanDecisionTold, PlanRejected, WorkBegins, RunInterrupted, asking, truth
  <2> QED
    BY <1>0, <2>1, RunKeepsAgents DEF AgentsTyped, AgentAt
<1>2. CASE RunEnded
  <2>1. (\A t \in Tasks : Over(t)) /\ UNCHANGED <<task, doing, saved, approval, clicked>>
    BY <1>2 DEF RunEnded, asking
  <2>2. \A t \in Tasks : doing[t] = "nothing"
    BY <1>0, <2>1 DEF Over, AgentAt
  <2> QED
    BY <1>0, <2>1, <2>2, RunKeepsAgents DEF AgentsTyped
<1>3. ASSUME NEW t \in Tasks, TaskQueued(t) PROVE AgentsInv'
  <2>1. phase # "working" /\ UNCHANGED <<doing, saved, approval, clicked>>
        /\ task' = [task EXCEPT ![t] = IF saved[t] = "result" THEN "succeeded" ELSE "queued"]
    BY <1>3 DEF TaskQueued, asking
  <2> QED
    BY <1>0, <2>1, RunKeepsAgents DEF AgentsTyped, AgentAt
<1> QED
  BY <1>1, <1>2, <1>3

\* A tool that needs an approval only runs on the answer to its own request, which is
\* recorded once, and a request is never left with nobody to settle it but where its
\* outcome could not be recorded; for any tasks, turns, stops and failing audits.
THEOREM ApprovalsAreSoundCorrect == StorySpec => []ApprovalsAreSound
<1>1. StoryInit => AgentsInv
  <2>1. Unasked \in Entries /\ <<>> \in Replies /\ Unasked.settling = <<>> /\ Unasked.state = "none"
    BY DEF Unasked, Entries, Replies
  <2> QED
    BY <2>1 DEF StoryInit, AgentsInv, AgentsTyped, AgentAt, RequestAt, Doings
<1>2. AgentsInv /\ [StoryNext]_storyVars => AgentsInv'
  <2>1. ASSUME AgentsInv, UNCHANGED storyVars PROVE AgentsInv'
    BY <2>1, RunKeepsAgents DEF storyVars, truth, asking, AgentsInv, AgentsTyped, AgentAt
  <2> QED
    BY <2>1, AgentStep, BrokerStep, AllAgentsStep, RunStep DEF StoryNext
<1>3. AgentsInv => ApprovalsAreSound
  BY DEF AgentsInv, AgentAt, RequestAt, ApprovalsAreSound, Tasks
<1> QED
  BY <1>1, <1>2, <1>3, PTL DEF StorySpec
-----------------------------------------------------------------------------
(* The story of a Run: its spans.                                          *)

Fates == {"succeeded", "failed", "denied", "interrupted"}
Spans == [shown : Fates \union {"running"}, fate : Fates \union {"open"}]
GoodEnds == {"succeeded", "denied"}

\* The last span of a line is still open in truth.
LastOpen(line) == line # <<>> /\ line[Len(line)].fate = "open"

\* Only the last span of a line is open, and, but where a lost one displaced the
\* answers, a span is shown to have gone well if and only if it did; a model call
\* or a review is then shown as running if and only if it is.
LineTrue(l, line) ==
  /\ \A i \in DOMAIN line : line[i].fate = "open" => i = Len(line)
  /\ ~Displaced(l, line) =>
       /\ \A i \in DOMAIN line : \A good \in GoodEnds : line[i].shown = good <=> line[i].fate = good
       /\ l \in {"model", "review"} => \A i \in DOMAIN line : line[i].shown = "running" <=> line[i].fate = "open"

NoneGood(line) == \A i \in DOMAIN line : line[i].fate \notin GoodEnds

FreshSpan == [shown |-> "running", fate |-> "open"]

\* The line after the answer "end".
EndedLine(l, line, end) ==
  [i \in DOMAIN line |->
      [shown |-> IF i = Closes(l, line) THEN end ELSE line[i].shown,
       fate |-> IF i = Len(line) /\ line[i].fate = "open" THEN end ELSE line[i].fate]]

\* A line goes on with an open span.
LEMMA OpenedLine ==
  ASSUME NEW l \in Lanes, NEW line \in Seq(Spans), LineTrue(l, line), ~LastOpen(line)
  PROVE  LET new == Append(line, FreshSpan)
         IN  /\ new \in Seq(Spans) /\ LineTrue(l, new) /\ LastOpen(new)
             /\ NoneGood(line) => NoneGood(new)
<1> DEFINE new == Append(line, FreshSpan)
           n == Len(line)
<1>1. FreshSpan \in Spans /\ FreshSpan.fate = "open" /\ FreshSpan.shown = "running"
  BY DEF FreshSpan, Spans, Fates
<1>2. /\ new \in Seq(Spans) /\ Len(new) = n + 1 /\ n \in Nat
      /\ DOMAIN line = 1 .. n /\ DOMAIN new = 1 .. (n + 1)
      /\ new[n + 1] = FreshSpan /\ \A i \in 1 .. n : new[i] = line[i]
  BY <1>1
<1>3. \A i \in 1 .. n : line[i].fate # "open"
  <2> SUFFICES ASSUME NEW i \in 1 .. n, line[i].fate = "open" PROVE FALSE
    OBVIOUS
  <2>1. i = n
    BY <1>2 DEF LineTrue
  <2>2. line # <<>>
    BY <1>2
  <2> QED
    BY <2>1, <2>2 DEF LastOpen
<1>4. LastOpen(new)
  <2>1. new # <<>>
    BY <1>2
  <2> QED
    BY <1>1, <1>2, <2>1 DEF LastOpen
<1>5. \A i \in DOMAIN new : i \in 1 .. n \/ i = n + 1
  BY <1>2
<1>6. \A i \in DOMAIN new : new[i].fate = "open" => i = Len(new)
  BY <1>2, <1>3, <1>5
<1>7. Displaced(l, line) => Displaced(l, new)
  BY <1>2 DEF Displaced
<1>8. ASSUME ~Displaced(l, new)
      PROVE  /\ \A i \in DOMAIN new : \A good \in GoodEnds : new[i].shown = good <=> new[i].fate = good
             /\ l \in {"model", "review"} => \A i \in DOMAIN new : new[i].shown = "running" <=> new[i].fate = "open"
  <2>1. /\ \A i \in 1 .. n : \A good \in GoodEnds : line[i].shown = good <=> line[i].fate = good
        /\ l \in {"model", "review"} => \A i \in 1 .. n : line[i].shown = "running" <=> line[i].fate = "open"
    BY <1>2, <1>7, <1>8 DEF LineTrue
  <2> QED
    BY <1>1, <1>2, <1>5, <2>1 DEF GoodEnds
<1>9. NoneGood(line) => NoneGood(new)
  BY <1>1, <1>2, <1>5 DEF NoneGood, GoodEnds
<1> QED
  BY <1>2, <1>4, <1>6, <1>8, <1>9 DEF LineTrue

\* An answer ends the open span, or one that had not gone well as it is.
LEMMA ClosedLine ==
  ASSUME NEW l \in Lanes, NEW line \in Seq(Spans), LineTrue(l, line), NEW end \in Fates,
         LastOpen(line) \/ (l \notin {"model", "review"} /\ end \notin GoodEnds /\ NoneGood(line))
  PROVE  LET new == EndedLine(l, line, end)
         IN  /\ new \in Seq(Spans) /\ LineTrue(l, new) /\ ~LastOpen(new)
             /\ NoneGood(line) /\ end \notin GoodEnds => NoneGood(new)
<1> DEFINE new == EndedLine(l, line, end)
           n == Len(line)
<1>1. n \in Nat /\ DOMAIN line = 1 .. n /\ \A i \in 1 .. n : line[i] \in Spans
  OBVIOUS
<1>2. /\ DOMAIN new = 1 .. n
      /\ \A i \in 1 .. n : /\ new[i].shown = IF i = Closes(l, line) THEN end ELSE line[i].shown
                           /\ new[i].fate = IF i = n /\ line[i].fate = "open" THEN end ELSE line[i].fate
                           /\ new[i] = [shown |-> new[i].shown, fate |-> new[i].fate]
      /\ new = [i \in 1 .. n |-> new[i]]
  BY <1>1, Zenon DEF EndedLine
<1> HIDE DEF new
<1>3. \A i \in 1 .. n : new[i] \in Spans
  <2> SUFFICES ASSUME NEW i \in 1 .. n PROVE new[i] \in Spans
    OBVIOUS
  <2>1. line[i].shown \in Fates \union {"running"} /\ line[i].fate \in Fates \union {"open"}
    BY <1>1 DEF Spans
  <2> QED
    BY <1>2, <2>1 DEF Spans
<1>4. new \in Seq(Spans) /\ Len(new) = n
  <2> HIDE DEF n
  <2> QED
    BY <1>1, <1>2, <1>3
<1>5. end # "open" /\ end # "running"
  BY DEF Fates
<1>6. \A i \in 1 .. n : line[i].fate = "open" => i = n
  BY <1>1, Zenon DEF LineTrue
<1>7. \A i \in 1 .. n : new[i].fate # "open"
  BY <1>2, <1>5, <1>6
<1>8. ~LastOpen(new)
  <2>1. new # <<>> => n \in 1 .. n
    BY <1>1, <1>2, <1>4
  <2> QED
    BY <1>4, <1>7, <2>1 DEF LastOpen
<1>9. NoneGood(line) /\ end \notin GoodEnds => NoneGood(new)
  BY <1>1, <1>2, Zenon DEF NoneGood
<1>10. Displaced(l, line) => Displaced(l, new)
  <2> SUFFICES ASSUME l \in {"model", "review"}, NEW i \in 1 .. n, line[i].fate = "interrupted"
               PROVE  new[i].fate = "interrupted"
    BY <1>1, <1>2, Zenon DEF Displaced
  <2> QED
    BY <1>2
<1>11. ASSUME ~Displaced(l, new)
       PROVE  /\ \A i \in 1 .. n : \A good \in GoodEnds : new[i].shown = good <=> new[i].fate = good
              /\ l \in {"model", "review"} => \A i \in 1 .. n : new[i].shown = "running" <=> new[i].fate = "open"
  <2>1. /\ \A i \in 1 .. n : \A good \in GoodEnds : line[i].shown = good <=> line[i].fate = good
        /\ l \in {"model", "review"} => \A i \in 1 .. n : line[i].shown = "running" <=> line[i].fate = "open"
    BY <1>1, <1>10, <1>11 DEF LineTrue
  <2>2. CASE l \notin {"model", "review"}
    <3>1. Closes(l, line) = n
      BY <2>2 DEF Closes
    <3>2. ASSUME NEW i \in 1 .. n, NEW good \in GoodEnds PROVE new[i].shown = good <=> new[i].fate = good
      <4>1. CASE i # n
        BY <1>2, <2>1, <3>1, <4>1
      <4>2. CASE i = n /\ line[i].fate = "open"
        BY <1>2, <3>1, <4>2
      <4>3. CASE i = n /\ line[i].fate # "open"
        <5>1. end \notin GoodEnds /\ line[i].fate \notin GoodEnds
          BY <1>1, <4>3 DEF LastOpen, NoneGood
        <5> QED
          BY <1>2, <3>1, <4>3, <5>1
      <4> QED
        BY <4>1, <4>2, <4>3
    <3> QED
      BY <2>2, <3>2
  <2>3. CASE l \in {"model", "review"}
    <3>1. LastOpen(line) /\ n \in 1 .. n /\ line[n].fate = "open"
      BY <1>1, <2>3 DEF LastOpen
    <3>2. {i \in DOMAIN line : line[i].shown = "running"} = {n}
      <4>1. \A i \in 1 .. n : line[i].shown = "running" <=> i = n
        BY <1>6, <2>1, <2>3, <3>1, Zenon
      <4> QED
        BY <1>1, <3>1, <4>1, Zenon
    <3>3. Closes(l, line) = n
      <4>1. Closes(l, line) = CHOOSE i \in {n} : \A j \in {n} : i <= j
        BY <2>3, <3>2 DEF Closes
      <4> QED
        BY <1>1, <4>1
    <3>4. \A i \in 1 .. n : i # n => new[i].shown = line[i].shown /\ new[i].fate = line[i].fate
      BY <1>2, <3>3
    <3>5. new[n].shown = end /\ new[n].fate = end
      BY <1>2, <3>1, <3>3
    <3> QED
      BY <1>5, <2>1, <2>3, <3>1, <3>4, <3>5
  <2> QED
    BY <2>2, <2>3
<1>12. LineTrue(l, new)
  BY <1>2, <1>7, <1>11, Zenon DEF LineTrue
<1> QED
  BY <1>4, <1>8, <1>9, <1>12 DEF new

\* What is open when the process stops is lost.
LEMMA LostLine ==
  ASSUME NEW l \in Lanes, NEW line \in Seq(Spans), LineTrue(l, line)
  PROVE  /\ Lost(line) \in Seq(Spans) /\ LineTrue(l, Lost(line)) /\ ~LastOpen(Lost(line))
         /\ NoneGood(line) => NoneGood(Lost(line))
         /\ line = <<>> => Lost(line) = <<>>
<1> DEFINE new == Lost(line)
           n == Len(line)
<1>1. n \in Nat /\ DOMAIN line = 1 .. n /\ \A i \in 1 .. n : line[i] \in Spans
  OBVIOUS
<1>2. /\ DOMAIN new = 1 .. n
      /\ \A i \in 1 .. n : /\ new[i] \in Spans /\ new[i].shown = line[i].shown
                           /\ new[i].fate = IF line[i].fate = "open" THEN "interrupted" ELSE line[i].fate
  BY <1>1 DEF Lost, Spans, Fates
<1>3. new \in Seq(Spans) /\ Len(new) = n
  <2>1. new = [i \in 1 .. n |-> new[i]]
    BY <1>1 DEF Lost
  <2> QED
    BY <1>1, <1>2, <2>1
<1>4. \A i \in 1 .. n : new[i].fate # "open"
  BY <1>2
<1>5. ~LastOpen(new)
  <2>1. new # <<>> => n \in 1 .. n
    BY <1>1, <1>2, <1>3
  <2> QED
    BY <1>3, <1>4, <2>1 DEF LastOpen
<1>6. NoneGood(line) => NoneGood(new)
  BY <1>1, <1>2 DEF NoneGood, GoodEnds
<1>7. line = <<>> => new = <<>>
  BY <1>1, <1>3
<1>8. Displaced(l, line) => Displaced(l, new)
  BY <1>1, <1>2 DEF Displaced
<1>9. ASSUME ~Displaced(l, new)
      PROVE  /\ \A i \in 1 .. n : \A good \in GoodEnds : new[i].shown = good <=> new[i].fate = good
             /\ l \in {"model", "review"} => \A i \in 1 .. n : new[i].shown = "running" <=> new[i].fate = "open"
  <2>1. /\ \A i \in 1 .. n : \A good \in GoodEnds : line[i].shown = good <=> line[i].fate = good
        /\ l \in {"model", "review"} => \A i \in 1 .. n : line[i].shown = "running" <=> line[i].fate = "open"
    BY <1>1, <1>8, <1>9 DEF LineTrue
  <2>2. l \in {"model", "review"} => \A i \in 1 .. n : new[i].fate # "interrupted"
    BY <1>2, <1>9 DEF Displaced
  <2> QED
    BY <1>2, <2>1, <2>2 DEF GoodEnds
<1> QED
  BY <1>2, <1>3, <1>4, <1>5, <1>6, <1>7, <1>9 DEF LineTrue

-----------------------------------------------------------------------------
(* The story of a Run: what it knows of the Run and of its tasks.          *)

StoryTyped ==
  /\ phase \in {"planning", "created", "planned", "reviewing", "decided", "resuming", "queueing",
               "working", "ended", "stopped"}
  /\ aborted \in BOOLEAN /\ agreed \in {"none", "open", "approved", "rejected"}
  /\ task \in [Tasks -> {"unknown", "queued", "running", "succeeded", "failed", "blocked", "cancelled"}]
  /\ shown \in [Tasks -> {"unknown", "queued", "running", "succeeded", "failed", "blocked", "cancelled"}]
  /\ journal \in [Tasks -> {"none", "started", "completed", "failed"}]
  /\ lifecycle \in {"live", "interrupted", "ended"}
  /\ status \in {"planning", "running", "awaiting_plan_approval", "cancelling",
                 "succeeded", "failed", "cancelled", "interrupted"}
  /\ stages \in [plan : BOOLEAN, asked : BOOLEAN, approved : BOOLEAN, rejected : BOOLEAN,
                 review : {"none", "reviewing", "accepted", "revision_requested", "failed"}]
  /\ stops \in 0 .. MaxStops /\ auditFailures \in 0 .. MaxAuditFailures

\* The stages of the plan follow its decision, and no task is told before its approval was.
PlanKnown ==
  /\ agreed = "none" => phase \in {"planning", "created", "ended", "stopped"}
  /\ phase \in {"planning", "created"} => agreed = "none"
  /\ agreed # "none" \/ phase = "created" => stages.plan
  /\ stages.approved => agreed = "approved"
  /\ stages.rejected => agreed = "rejected"
  /\ phase \in {"resuming", "queueing", "working"} => stages.approved
  /\ phase = "decided" => agreed = "rejected"
  /\ phase = "reviewing" => ~stages.approved /\ ~stages.rejected
  /\ ~stages.approved => \A t \in Tasks : shown[t] = "unknown" /\ spans["task"][t] = <<>>

\* The tasks are shown as the scheduler has them, and a Run that settled left none under way.
TasksKnown ==
  /\ phase \in {"queueing", "working"} => status = "running"
  /\ phase \notin {"queueing", "working", "ended"} => \A t \in Tasks : task[t] = "unknown"
  /\ phase = "queueing" => \A t \in Tasks : task[t] \in {"unknown", "queued", "succeeded"}
  /\ phase \in {"queueing", "working"} => \A t \in Tasks : task[t] # "unknown" => shown[t] = task[t]
  /\ phase = "working" => \A t \in Tasks : task[t] # "unknown"
  /\ status \in {"succeeded", "failed", "cancelled"} => \A t \in Tasks : shown[t] \notin {"queued", "running"}
  /\ status = "succeeded" => /\ phase = "ended" /\ stages.approved /\ stages.review = "accepted"
                             /\ \A t \in Tasks : shown[t] = "succeeded"

InCall == {"policy", "denied", "allowed", "waiting", "tool", "review", "written", "refused"}

\* An agent is where its checkpoint says, and a queued task has no result yet.
CheckpointOf(t) ==
  /\ doing[t] \in {"turn", "model"} => saved[t] = "turn"
  /\ doing[t] \in {"call"} \union InCall => saved[t] = "call"
  /\ doing[t] = "result" \/ task[t] = "succeeded" => saved[t] = "result"
  /\ task[t] = "queued" => saved[t] # "result"
  /\ doing[t] \in {"tool", "review"} => journal[t] = "started"
  /\ doing[t] = "review" => t = Writer

\* Whatever keeps the artifact of the writer, its review accepted it.
ArtifactKnown ==
  (saved[Writer] = "result" \/ journal[Writer] = "completed" \/ doing[Writer] = "written")
     => stages.review = "accepted"

\* What is under way in truth, lane by lane.
UnderWay(l, o) ==
  \/ l = "task" /\ o \in Tasks /\ phase = "working" /\ task[o] = "running"
  \/ l = "model" /\ o \in Tasks /\ doing[o] = "model"
  \/ l = "tool" /\ o \in Tasks /\ doing[o] \in InCall
  \/ l = "review" /\ o \in Tasks /\ doing[o] = "review"
  \/ l = "approval" /\ o \in Tasks /\ approval[o].state = "open"
  \/ /\ l = "plan" /\ o = WholeRun
     /\ \/ phase = "reviewing"
        \/ agreed = "approved" /\ ~stages.approved
        \/ agreed = "rejected" /\ ~stages.rejected

\* A line is true, its last span is open while something is under way, and no task
\* without a result ever went well.
LineKnown(l, o) ==
  /\ LineTrue(l, spans[l][o])
  /\ LastOpen(spans[l][o]) <=> UnderWay(l, o)
  /\ l = "task" /\ o \in Tasks /\ saved[o] # "result" => NoneGood(spans[l][o])

SpansTyped == spans \in [Lanes -> [Owners -> Seq(Spans)]]
LinesInv == SpansTyped /\ \A l \in Lanes : \A o \in Owners : LineKnown(l, o)

WorkKnown == (\A t \in Tasks : CheckpointOf(t)) /\ ArtifactKnown

StoryInv == AgentsInv /\ StoryTyped /\ PlanKnown /\ TasksKnown /\ WorkKnown /\ LinesInv

ResultsStay == \A t \in Tasks : saved[t] = "result" => saved'[t] = "result"

\* Only line o of lane l is told of.
OthersSame(l, o) ==
  \A k \in Lanes : \A p \in Owners : k # l \/ p # o => (UnderWay(k, p)' <=> UnderWay(k, p))

\* A line other than the one a step tells of, in lanes that are as they were.
LEMMA LineStays ==
  ASSUME NEW k \in Lanes, NEW p \in Owners, LineKnown(k, p), spans'[k][p] = spans[k][p],
         UnderWay(k, p)' <=> UnderWay(k, p), ResultsStay
  PROVE  LineKnown(k, p)'
  BY DEF LineKnown, ResultsStay

\* Nothing is told.
LEMMA SpansStay ==
  ASSUME LinesInv, spans' = spans, ResultsStay,
         \A k \in Lanes : \A p \in Owners : UnderWay(k, p)' <=> UnderWay(k, p)
  PROVE  LinesInv'
<1>1. SpansTyped'
  BY DEF LinesInv, SpansTyped
<1>2. ASSUME NEW k \in Lanes, NEW p \in Owners PROVE LineKnown(k, p)'
  BY LineStays DEF LinesInv
<1> QED
  BY <1>1, <1>2 DEF LinesInv

\* A span is opened for what starts.
LEMMA SpanOpens ==
  ASSUME LinesInv, ResultsStay, NEW l \in Lanes, NEW o \in Owners, spans' = Opened(l, o),
         ~UnderWay(l, o), UnderWay(l, o)', OthersSame(l, o)
  PROVE  LinesInv' /\ (l # "task" => spans'["task"] = spans["task"])
<1> DEFINE line == spans[l][o]
           new == Append(line, FreshSpan)
<1>1. line \in Seq(Spans) /\ LineKnown(l, o)
  BY DEF LinesInv, SpansTyped
<1>2. new \in Seq(Spans) /\ LineTrue(l, new) /\ LastOpen(new) /\ (NoneGood(line) => NoneGood(new))
  BY <1>1, OpenedLine DEF LineKnown
<1>3. spans' = [spans EXCEPT ![l][o] = new]
  BY DEF Opened, FreshSpan
<1>4. /\ spans'[l][o] = new /\ SpansTyped'
      /\ \A k \in Lanes : \A p \in Owners : k # l \/ p # o => spans'[k][p] = spans[k][p]
      /\ l # "task" => spans'["task"] = spans["task"]
  <2> HIDE DEF new
  <2> QED
    BY <1>2, <1>3 DEF LinesInv, SpansTyped, Lanes
<1>5. LineKnown(l, o)'
  <2>1. l = "task" /\ o \in Tasks /\ saved'[o] # "result" => NoneGood(new)
    BY <1>1, <1>2 DEF LineKnown, ResultsStay
  <2> HIDE DEF new
  <2> QED
    BY <1>2, <1>4, <2>1 DEF LineKnown
<1>6. ASSUME NEW k \in Lanes, NEW p \in Owners, k # l \/ p # o PROVE LineKnown(k, p)'
  BY <1>4, <1>6, LineStays DEF LinesInv, OthersSame
<1> QED
  BY <1>4, <1>5, <1>6 DEF LinesInv

\* The answer that ends what was under way, or drops what had not started.
LEMMA SpanCloses ==
  ASSUME LinesInv, ResultsStay, NEW l \in Lanes, NEW o \in Owners, NEW end \in Fates,
         spans' = Closed(spans, l, o, end), ~UnderWay(l, o)', OthersSame(l, o),
         \/ UnderWay(l, o)
         \/ l = "task" /\ o \in Tasks /\ saved[o] # "result" /\ end \notin GoodEnds,
         l = "task" /\ o \in Tasks /\ saved'[o] # "result" => end \notin GoodEnds
  PROVE  LinesInv' /\ (l # "task" => spans'["task"] = spans["task"])
<1> DEFINE line == spans[l][o]
           new == EndedLine(l, line, end)
<1>1. line \in Seq(Spans) /\ LineKnown(l, o)
  BY DEF LinesInv, SpansTyped
<1>2. LastOpen(line) \/ (l \notin {"model", "review"} /\ end \notin GoodEnds /\ NoneGood(line))
  BY <1>1 DEF LineKnown
<1>3. new \in Seq(Spans) /\ LineTrue(l, new) /\ ~LastOpen(new)
      /\ (NoneGood(line) /\ end \notin GoodEnds => NoneGood(new))
  BY <1>1, <1>2, ClosedLine DEF LineKnown
<1>4. spans' = [spans EXCEPT ![l][o] = new]
  BY DEF Closed, EndedLine
<1>5. /\ spans'[l][o] = new /\ SpansTyped'
      /\ \A k \in Lanes : \A p \in Owners : k # l \/ p # o => spans'[k][p] = spans[k][p]
      /\ l # "task" => spans'["task"] = spans["task"]
  <2> HIDE DEF new
  <2> QED
    BY <1>3, <1>4 DEF LinesInv, SpansTyped, Lanes
<1>6. LineKnown(l, o)'
  <2>1. l = "task" /\ o \in Tasks /\ saved'[o] # "result" => NoneGood(new)
    BY <1>1, <1>3 DEF LineKnown, ResultsStay
  <2> HIDE DEF new
  <2> QED
    BY <1>3, <1>5, <2>1 DEF LineKnown
<1>7. ASSUME NEW k \in Lanes, NEW p \in Owners, k # l \/ p # o PROVE LineKnown(k, p)'
  BY <1>5, <1>7, LineStays DEF LinesInv, OthersSame
<1> QED
  BY <1>5, <1>6, <1>7 DEF LinesInv

\* What the agents and the broker do while the tasks are worked on.
WorkOf(t) ==
  \/ TaskStarts(t) \/ TaskDropped(t) \/ TaskSucceeds(t) \/ TaskFails(t)
  \/ ModelRequested(t) \/ ModelAnswers(t) \/ BudgetExceeded(t)
  \/ ToolRequested(t) \/ Policy(t) \/ ToolDenied(t) \/ ToolAllowed(t)
  \/ ReviewsArtifact(t) \/ ReviewEnds(t) \/ ToolEnds(t) \/ ReceiptCompleted(t) \/ ToolTold(t)
  \/ ApprovalRequested(t) \/ UserAnswers(t) \/ ApprovalTimesOut(t) \/ ApprovalSettles(t)

\* The part of the story that such a step can touch.
WorkFrame(t) ==
  /\ phase = "working" /\ UNCHANGED <<phase, aborted, agreed, lifecycle, status, stops>>
  /\ auditFailures' \in 0 .. MaxAuditFailures
  /\ journal' \in [Tasks -> {"none", "started", "completed", "failed"}]
  /\ \/ UNCHANGED <<task, shown>>
     \/ \E s \in {"running", "succeeded", "failed", "blocked", "cancelled"} :
          task' = [task EXCEPT ![t] = s] /\ shown' = [shown EXCEPT ![t] = s]
  /\ \/ stages' = stages
     \/ \E r \in {"reviewing", "accepted", "revision_requested", "failed"} :
          stages' = [stages EXCEPT !.review = r]

\* A request that is open or being settled is one of a working agent.
LEMMA RequestOfWorker ==
  ASSUME AgentsInv, NEW t \in Tasks, approval[t].state # "none" \/ approval[t].settling # <<>>
  PROVE  phase = "working" /\ task[t] = "running" /\ doing[t] = "waiting"
<1>1. AgentAt(t) /\ approval[t] \in Entries
  BY DEF AgentsInv, AgentsTyped
<1> QED
  BY <1>1 DEF AgentAt, RequestAt

LEMMA WorkIsFramed ==
  ASSUME AgentsInv, StoryTyped, NEW t \in Tasks, WorkOf(t)
  PROVE  WorkFrame(t)
<1> USE StoryBounds DEF WorkFrame, StoryTyped, asking, bounds, story, truth, Busy, Now, Becomes,
   TellTask, TellSpan
<1>1. CASE TaskStarts(t)
  BY <1>1 DEF TaskStarts
<1>2. CASE TaskDropped(t)
  BY <1>2 DEF TaskDropped
<1>3. CASE TaskSucceeds(t)
  BY <1>3 DEF TaskSucceeds
<1>4. CASE TaskFails(t)
  BY <1>4 DEF TaskFails
<1>5. CASE ModelRequested(t)
  BY <1>5 DEF ModelRequested
<1>6. CASE ModelAnswers(t)
  BY <1>6 DEF ModelAnswers
<1>7. CASE BudgetExceeded(t)
  BY <1>7 DEF BudgetExceeded
<1>8. CASE ToolRequested(t)
  BY <1>8 DEF ToolRequested
<1>9. CASE Policy(t)
  BY <1>9 DEF Policy
<1>10. CASE ToolDenied(t)
  BY <1>10 DEF ToolDenied
<1>11. CASE ToolAllowed(t)
  BY <1>11 DEF ToolAllowed
<1>12. CASE ReviewsArtifact(t)
  BY <1>12 DEF ReviewsArtifact
<1>13. CASE ReviewEnds(t)
  BY <1>13 DEF ReviewEnds
<1>14. CASE ToolEnds(t)
  BY <1>14 DEF ToolEnds
<1>15. CASE ReceiptCompleted(t)
  BY <1>15 DEF ReceiptCompleted
<1>16. CASE ToolTold(t)
  BY <1>16 DEF ToolTold
<1>17. CASE ApprovalRequested(t)
  BY <1>17 DEF ApprovalRequested
<1>18. CASE UserAnswers(t)
  BY <1>18, RequestOfWorker DEF UserAnswers
<1>19. CASE ApprovalTimesOut(t)
  BY <1>19, RequestOfWorker DEF ApprovalTimesOut
<1>20. CASE ApprovalSettles(t)
  BY <1>20, RequestOfWorker DEF ApprovalSettles
<1> QED
  BY <1>1, <1>2, <1>3, <1>4, <1>5, <1>6, <1>7, <1>8, <1>9, <1>10, <1>11, <1>12, <1>13, <1>14, <1>15,
     <1>16, <1>17, <1>18, <1>19, <1>20 DEF WorkOf

\* So the Run is told as it is after it.
LEMMA WorkKeepsRun ==
  ASSUME StoryTyped, PlanKnown, TasksKnown, NEW t \in Tasks, WorkFrame(t)
  PROVE  StoryTyped' /\ PlanKnown' /\ TasksKnown'
<1> DEFINE Statuses == {"unknown", "queued", "running", "succeeded", "failed", "blocked", "cancelled"}
           Reviews == {"none", "reviewing", "accepted", "revision_requested", "failed"}
           AllStages == [plan : BOOLEAN, asked : BOOLEAN, approved : BOOLEAN, rejected : BOOLEAN, review : Reviews]
<1>1. /\ task' \in [Tasks -> Statuses] /\ shown' \in [Tasks -> Statuses]
      /\ \A u \in Tasks : task[u] # "unknown" => task'[u] # "unknown"
      /\ \A u \in Tasks : shown[u] = task[u] => shown'[u] = task'[u]
  BY DEF WorkFrame, StoryTyped
<1>2. stages' \in AllStages /\ stages'.plan = stages.plan /\ stages'.approved = stages.approved
      /\ stages'.rejected = stages.rejected
  <2>1. CASE stages' = stages
    BY <2>1 DEF StoryTyped
  <2>2. ASSUME NEW r \in Reviews, stages' = [stages EXCEPT !.review = r]
        PROVE  /\ stages' \in AllStages /\ stages'.plan = stages.plan
               /\ stages'.approved = stages.approved /\ stages'.rejected = stages.rejected
    <3>1. stages \in AllStages
      BY DEF StoryTyped
    <3> QED
      BY <2>2, <3>1
  <2> QED
    BY <2>1, <2>2 DEF WorkFrame
<1>3. stages.approved /\ phase = "working" /\ status = "running"
  BY DEF WorkFrame, PlanKnown, TasksKnown
<1>4. StoryTyped'
  BY <1>1, <1>2 DEF WorkFrame, StoryTyped
<1>5. PlanKnown'
  <2>1. stages'.approved
    BY <1>2, <1>3
  <2> QED
    BY <1>2, <2>1 DEF WorkFrame, PlanKnown
<1>6. TasksKnown'
  BY <1>1, <1>3 DEF WorkFrame, TasksKnown
<1> QED
  BY <1>4, <1>5, <1>6

\* A step of an agent keeps its checkpoint and the artifact that was accepted.
OnlyWork(t) ==
  \A u \in Tasks \ {t} : /\ task'[u] = task[u] /\ doing'[u] = doing[u] /\ saved'[u] = saved[u]
                         /\ journal'[u] = journal[u]

LEMMA OneWork ==
  ASSUME NEW t \in Tasks, WorkKnown, OnlyWork(t), CheckpointOf(t)',
         saved[t] = "result" => saved'[t] = "result",
         t = Writer => ArtifactKnown', t # Writer => stages'.review = stages.review
  PROVE  WorkKnown' /\ ResultsStay
<1>1. \A u \in Tasks : CheckpointOf(u)'
  BY DEF WorkKnown, OnlyWork, CheckpointOf
<1>2. ResultsStay
  BY DEF OnlyWork, ResultsStay
<1>3. ArtifactKnown'
  BY DEF WorkKnown, OnlyWork, ArtifactKnown, Tasks
<1> QED
  BY <1>1, <1>2, <1>3 DEF WorkKnown

LEMMA WorkIsKept ==
  ASSUME StoryInv, NEW t \in Tasks, WorkOf(t)
  PROVE  WorkKnown' /\ ResultsStay
<1>0. /\ doing \in [Tasks -> Doings] /\ saved \in [Tasks -> {"turn", "call", "result"}]
      /\ DOMAIN task = Tasks /\ DOMAIN journal = Tasks
      /\ CheckpointOf(t) /\ ArtifactKnown /\ AgentAt(t) /\ WorkKnown
      /\ journal[t] \in {"none", "started", "completed", "failed"}
  BY DEF StoryInv, AgentsInv, AgentsTyped, WorkKnown, StoryTyped
<1>1. stages \in [plan : BOOLEAN, asked : BOOLEAN, approved : BOOLEAN, rejected : BOOLEAN,
                  review : {"none", "reviewing", "accepted", "revision_requested", "failed"}]
  BY DEF StoryInv, StoryTyped
<1> SUFFICES /\ OnlyWork(t) /\ CheckpointOf(t)' /\ (saved[t] = "result" => saved'[t] = "result")
             /\ (t = Writer => ArtifactKnown') /\ (t # Writer => stages'.review = stages.review)
  BY <1>0, OneWork
<1> USE <1>0, <1>1, StoryBounds
    DEF OnlyWork, CheckpointOf, ArtifactKnown, InCall, Doings, AgentAt, Busy, Now, Becomes, TellTask, TellSpan, story
<1>2. CASE TaskStarts(t)
  BY <1>2 DEF TaskStarts
<1>3. CASE TaskDropped(t)
  BY <1>3 DEF TaskDropped
<1>4. CASE TaskSucceeds(t)
  BY <1>4 DEF TaskSucceeds
<1>5. CASE TaskFails(t)
  BY <1>5 DEF TaskFails
<1>6. CASE ModelRequested(t)
  BY <1>6 DEF ModelRequested
<1>7. CASE ModelAnswers(t)
  BY <1>7 DEF ModelAnswers
<1>8. CASE BudgetExceeded(t)
  BY <1>8 DEF BudgetExceeded
<1>9. CASE ToolRequested(t)
  BY <1>9 DEF ToolRequested
<1>10. CASE Policy(t)
  BY <1>10 DEF Policy
<1>11. CASE ToolDenied(t)
  BY <1>11 DEF ToolDenied
<1>12. CASE ToolAllowed(t)
  BY <1>12 DEF ToolAllowed
<1>13. CASE ReviewsArtifact(t)
  BY <1>13 DEF ReviewsArtifact
<1>14. CASE ReviewEnds(t)
  <2>1. PICK verdict \in {"accepted", "revision_requested", "failed"} :
           /\ stages' = [stages EXCEPT !.review = verdict]
           /\ doing' = [doing EXCEPT ![t] = IF verdict = "accepted" THEN "written" ELSE "refused"]
    BY <1>14 DEF ReviewEnds
  <2>2. doing[t] = "review" /\ UNCHANGED <<task, saved, journal>>
    BY <1>14 DEF ReviewEnds
  <2>3. stages'.review = verdict
    BY <2>1
  <2> QED
    BY <2>1, <2>2, <2>3
<1>15. CASE ToolEnds(t)
  BY <1>15 DEF ToolEnds
<1>16. CASE ReceiptCompleted(t)
  BY <1>16 DEF ReceiptCompleted
<1>17. CASE ToolTold(t)
  BY <1>17 DEF ToolTold
<1>18. CASE ApprovalRequested(t)
  BY <1>18 DEF ApprovalRequested, truth
<1>19. CASE UserAnswers(t)
  BY <1>19 DEF UserAnswers, truth
<1>20. CASE ApprovalTimesOut(t)
  BY <1>20 DEF ApprovalTimesOut, truth
<1>21. CASE ApprovalSettles(t)
  <2>1. doing[t] = "waiting"
    BY <1>21, RequestOfWorker DEF ApprovalSettles, StoryInv
  <2> QED
    BY <1>21, <2>1 DEF ApprovalSettles, truth
<1> QED
  BY <1>2, <1>3, <1>4, <1>5, <1>6, <1>7, <1>8, <1>9, <1>10, <1>11, <1>12, <1>13, <1>14, <1>15,
     <1>16, <1>17, <1>18, <1>19, <1>20, <1>21 DEF WorkOf

\* What is under way elsewhere is not touched by a step of one agent.
LEMMA ElsewhereSame ==
  ASSUME NEW t \in Tasks, WorkFrame(t), OnlyAgent(t), StoryTyped,
         NEW k \in Lanes, NEW p \in Owners, k = "plan" \/ p # t
  PROVE  UnderWay(k, p)' <=> UnderWay(k, p)
<1>1. stages'.approved = stages.approved /\ stages'.rejected = stages.rejected
  BY DEF WorkFrame, StoryTyped
<1>2. UNCHANGED <<phase, agreed>>
  BY DEF WorkFrame
<1>3. p # t /\ p \in Tasks => /\ task'[p] = task[p] /\ doing'[p] = doing[p]
                              /\ approval'[p] = approval[p]
  BY DEF OnlyAgent
<1> QED
  BY <1>1, <1>2, <1>3 DEF UnderWay

\* So a step of an agent is looked at in its own lanes.
OwnSame(t, l) == \A k \in Lanes \ {l, "plan"} : UnderWay(k, t)' <=> UnderWay(k, t)

LEMMA OwnLines ==
  ASSUME NEW t \in Tasks, WorkFrame(t), OnlyAgent(t), StoryTyped, LinesInv, ResultsStay,
         \/ spans' = spans /\ OwnSame(t, "plan")
         \/ \E l \in Lanes \ {"plan"} :
              /\ OwnSame(t, l)
              /\ \/ spans' = Opened(l, t) /\ ~UnderWay(l, t) /\ UnderWay(l, t)'
                 \/ \E end \in Fates :
                      /\ spans' = Closed(spans, l, t, end) /\ ~UnderWay(l, t)'
                      /\ UnderWay(l, t) \/ (l = "task" /\ saved[t] # "result" /\ end \notin GoodEnds)
                      /\ l = "task" /\ saved'[t] # "result" => end \notin GoodEnds
  PROVE  LinesInv'
<1>1. t \in Owners
  BY DEF Owners
<1>2. CASE spans' = spans /\ OwnSame(t, "plan")
  <2>1. \A k \in Lanes : \A p \in Owners : UnderWay(k, p)' <=> UnderWay(k, p)
    BY <1>2, ElsewhereSame DEF OwnSame
  <2> QED
    BY <1>2, <2>1, SpansStay
<1>3. ASSUME NEW l \in Lanes \ {"plan"}, OwnSame(t, l),
             spans' = Opened(l, t), ~UnderWay(l, t), UnderWay(l, t)'
      PROVE  LinesInv'
  <2>1. OthersSame(l, t)
    BY <1>3, ElsewhereSame DEF OwnSame, OthersSame
  <2> QED
    BY <1>1, <1>3, <2>1, SpanOpens
<1>4. ASSUME NEW l \in Lanes \ {"plan"}, OwnSame(t, l), NEW end \in Fates,
             spans' = Closed(spans, l, t, end), ~UnderWay(l, t)',
             UnderWay(l, t) \/ (l = "task" /\ saved[t] # "result" /\ end \notin GoodEnds),
             l = "task" /\ saved'[t] # "result" => end \notin GoodEnds
      PROVE  LinesInv'
  <2>1. OthersSame(l, t)
    BY <1>4, ElsewhereSame DEF OwnSame, OthersSame
  <2> QED
    BY <1>1, <1>4, <2>1, SpanCloses
<1> QED
  BY <1>2, <1>3, <1>4

LEMMA WorkIsOwn ==
  ASSUME AgentsInv, StoryTyped, NEW t \in Tasks, WorkOf(t)
  PROVE  OnlyAgent(t)
<1> USE DEF OnlyAgent, asking, bounds, story, truth, Busy, Now, Becomes, Change
<1>0. AgentsTyped /\ WorkFrame(t)
  BY WorkIsFramed DEF AgentsInv
<1>1. phase' = phase /\ \A u \in Tasks \ {t} : task'[u] = task[u]
  BY <1>0 DEF WorkFrame, AgentsTyped
<1>2. doing' = [doing EXCEPT ![t] = doing'[t]]
      /\ approval' = [approval EXCEPT ![t] = approval'[t]] /\ clicked' = [clicked EXCEPT ![t] = clicked'[t]]
  <2> USE <1>0 DEF AgentsTyped
  <2>1. CASE \/ TaskStarts(t) \/ TaskDropped(t) \/ TaskSucceeds(t) \/ TaskFails(t)
             \/ ModelRequested(t) \/ ModelAnswers(t) \/ BudgetExceeded(t)
    BY <2>1 DEF TaskStarts, TaskDropped, TaskSucceeds, TaskFails, ModelRequested, ModelAnswers,
       BudgetExceeded
  <2>2. CASE ToolRequested(t) \/ Policy(t) \/ ToolDenied(t) \/ ToolAllowed(t)
    BY <2>2 DEF ToolRequested, Policy, ToolDenied, ToolAllowed
  <2>3. CASE ReviewsArtifact(t) \/ ReviewEnds(t) \/ ToolEnds(t) \/ ReceiptCompleted(t) \/ ToolTold(t)
    BY <2>3 DEF ReviewsArtifact, ReviewEnds, ToolEnds, ReceiptCompleted, ToolTold
  <2>4. CASE ApprovalRequested(t) \/ UserAnswers(t) \/ ApprovalTimesOut(t) \/ ApprovalSettles(t)
    BY <2>4 DEF ApprovalRequested, UserAnswers, ApprovalTimesOut, ApprovalSettles
  <2> QED
    BY <2>1, <2>2, <2>3, <2>4 DEF WorkOf
<1> QED
  BY <1>0, <1>1, <1>2 DEF AgentsTyped

\* What an agent does opens and closes the spans that are about it.
LEMMA WorkIsTold ==
  ASSUME StoryInv, NEW t \in Tasks, WorkOf(t)
  PROVE  LinesInv'
<1>0. /\ doing \in [Tasks -> Doings] /\ saved \in [Tasks -> {"turn", "call", "result"}]
      /\ approval \in [Tasks -> Entries] /\ DOMAIN task = Tasks /\ AgentAt(t) /\ CheckpointOf(t)
  BY DEF StoryInv, AgentsInv, AgentsTyped, WorkKnown
<1>1. /\ WorkFrame(t) /\ OnlyAgent(t) /\ StoryTyped /\ LinesInv /\ ResultsStay /\ phase = "working"
      /\ phase' = phase
  BY WorkIsFramed, WorkIsOwn, WorkIsKept DEF StoryInv, WorkFrame
<1> DEFINE Told ==
      \/ spans' = spans /\ OwnSame(t, "plan")
      \/ \E l \in Lanes \ {"plan"} :
           /\ OwnSame(t, l)
           /\ \/ spans' = Opened(l, t) /\ ~UnderWay(l, t) /\ UnderWay(l, t)'
              \/ \E end \in Fates :
                   /\ spans' = Closed(spans, l, t, end) /\ ~UnderWay(l, t)'
                   /\ UnderWay(l, t) \/ (l = "task" /\ saved[t] # "result" /\ end \notin GoodEnds)
                   /\ l = "task" /\ saved'[t] # "result" => end \notin GoodEnds
<1> SUFFICES Told
  BY <1>1, OwnLines
<1> USE <1>0, <1>1 DEF OwnSame, UnderWay, Lanes, InCall, GoodEnds, Fates, Doings, AgentAt,
   RequestAt, CheckpointOf,
        Busy, Now, Becomes, TellTask, TellSpan, asking, story, truth
<1>2. CASE TaskStarts(t)
  <2>1. spans' = Opened("task", t) /\ OwnSame(t, "task") /\ ~UnderWay("task", t) /\ UnderWay("task", t)'
    BY <1>2 DEF TaskStarts
  <2> QED
    BY <2>1
<1>3. CASE TaskDropped(t)
  <2>1. PICK s \in {"cancelled", "blocked"} :
           /\ task' = [task EXCEPT ![t] = s]
           /\ spans' = Closed(spans, "task", t, IF s = "cancelled" THEN "interrupted" ELSE "failed")
    BY <1>3 DEF TaskDropped
  <2>2. task[t] = "queued" /\ UNCHANGED <<doing, approval, saved>>
    BY <1>3 DEF TaskDropped
  <2>3. OwnSame(t, "task") /\ ~UnderWay("task", t)' /\ saved[t] # "result"
    BY <2>1, <2>2
  <2>4. PICK end \in {"interrupted", "failed"} : spans' = Closed(spans, "task", t, end)
    BY <2>1
  <2> QED
    BY <2>3, <2>4
<1>4. CASE TaskSucceeds(t)
  <2>1. /\ spans' = Closed(spans, "task", t, "succeeded") /\ OwnSame(t, "task") /\ UnderWay("task", t)
        /\ ~UnderWay("task", t)' /\ saved'[t] = "result"
    BY <1>4 DEF TaskSucceeds
  <2> QED
    BY <2>1
<1>5. CASE TaskFails(t)
  <2>1. PICK end \in {"interrupted", "failed"} : spans' = Closed(spans, "task", t, end)
    BY <1>5 DEF TaskFails
  <2>2. OwnSame(t, "task") /\ UnderWay("task", t) /\ ~UnderWay("task", t)'
    BY <1>5 DEF TaskFails
  <2> QED
    BY <2>1, <2>2
<1>6. CASE ModelRequested(t)
  <2>1. spans' = Opened("model", t) /\ OwnSame(t, "model") /\ ~UnderWay("model", t) /\ UnderWay("model", t)'
    BY <1>6 DEF ModelRequested
  <2> QED
    BY <2>1
<1>7. CASE ModelAnswers(t)
  <2>1. PICK end \in {"succeeded", "failed"} : spans' = Closed(spans, "model", t, end)
    BY <1>7 DEF ModelAnswers
  <2>2. OwnSame(t, "model") /\ UnderWay("model", t) /\ ~UnderWay("model", t)'
    BY <1>7 DEF ModelAnswers
  <2> QED
    BY <2>1, <2>2
<1>8. CASE BudgetExceeded(t)
  BY <1>8 DEF BudgetExceeded
<1>9. CASE ToolRequested(t)
  <2>1. spans' = Opened("tool", t) /\ OwnSame(t, "tool") /\ ~UnderWay("tool", t) /\ UnderWay("tool", t)'
    BY <1>9 DEF ToolRequested
  <2> QED
    BY <2>1
<1>10. CASE Policy(t)
  <2>1. approval[t].state = "none"
    BY <1>10 DEF Policy, Entries
  <2>2. approval'[t].state # "open"
    BY <1>10, <2>1 DEF Policy, Unasked
  <2>3. spans' = spans /\ doing[t] = "policy" /\ doing'[t] \in {"denied", "allowed", "waiting"} /\ task' = task
    BY <1>10 DEF Policy
  <2> QED
    BY <2>1, <2>2, <2>3
<1>11. CASE ToolDenied(t)
  <2>1. /\ spans' = Closed(spans, "tool", t, "denied") /\ OwnSame(t, "tool")
        /\ UnderWay("tool", t) /\ ~UnderWay("tool", t)'
    BY <1>11 DEF ToolDenied
  <2> QED
    BY <2>1
<1>12. CASE ToolAllowed(t)
  <2>1. doing[t] = "allowed" /\ task' = task /\ approval' = approval
    BY <1>12 DEF ToolAllowed
  <2>2. CASE doing' = [doing EXCEPT ![t] = "tool"] /\ spans' = spans
    BY <2>1, <2>2
  <2>3. ASSUME NEW next \in {"result", "turn"}, doing' = [doing EXCEPT ![t] = next],
               spans' = Closed(spans, "tool", t, "succeeded")
        PROVE  Told
    <3>1. OwnSame(t, "tool") /\ UnderWay("tool", t) /\ ~UnderWay("tool", t)'
      BY <2>1, <2>3
    <3> QED
      BY <2>3, <3>1
  <2> QED
    BY <1>12, <2>2, <2>3 DEF ToolAllowed
<1>13. CASE ReviewsArtifact(t)
  <2>1. spans' = Opened("review", t) /\ OwnSame(t, "review") /\ ~UnderWay("review", t) /\ UnderWay("review", t)'
    BY <1>13 DEF ReviewsArtifact
  <2> QED
    BY <2>1
<1>14. CASE ReviewEnds(t)
  <2>1. PICK verdict \in {"accepted", "revision_requested", "failed"} :
           /\ spans' = Closed(spans, "review", t, IF verdict = "failed" THEN "failed" ELSE "succeeded")
           /\ doing' = [doing EXCEPT ![t] = IF verdict = "accepted" THEN "written" ELSE "refused"]
    BY <1>14 DEF ReviewEnds
  <2>2. doing[t] = "review" /\ UNCHANGED <<task, approval>>
    BY <1>14 DEF ReviewEnds
  <2>3. PICK end \in {"succeeded", "failed"} : spans' = Closed(spans, "review", t, end)
    BY <2>1
  <2>4. OwnSame(t, "review") /\ UnderWay("review", t) /\ ~UnderWay("review", t)'
    BY <2>1, <2>2
  <2> QED
    BY <2>3, <2>4
<1>15. CASE ToolEnds(t)
  BY <1>15 DEF ToolEnds
<1>16. CASE ReceiptCompleted(t)
  BY <1>16 DEF ReceiptCompleted
<1>17. CASE ToolTold(t)
  <2>1. PICK end \in {"succeeded", "failed"} : spans' = Closed(spans, "tool", t, end)
    BY <1>17 DEF ToolTold
  <2>2. OwnSame(t, "tool") /\ UnderWay("tool", t) /\ ~UnderWay("tool", t)'
    BY <1>17 DEF ToolTold
  <2> QED
    BY <2>1, <2>2
<1>18. CASE ApprovalRequested(t)
  <2>1. approval[t].state = "asking" /\ UNCHANGED <<task, doing>> /\ spans' = Opened("approval", t)
    BY <1>18 DEF ApprovalRequested
  <2>2. approval'[t].state = "open"
    BY <1>18 DEF ApprovalRequested, Change, Entries
  <2>3. OwnSame(t, "approval") /\ ~UnderWay("approval", t) /\ UnderWay("approval", t)'
    BY <2>1, <2>2
  <2> QED
    BY <2>1, <2>3
<1>19. CASE UserAnswers(t)
  <2>1. PICK a \in {"approve", "deny"} : approval' = [approval EXCEPT ![t] = Settle(approval[t], a)]
    BY <1>19 DEF UserAnswers, Change
  <2>2. approval'[t].state = approval[t].state
    BY <2>1, SettleKeeps
  <2> QED
    BY <1>19, <2>2 DEF UserAnswers
<1>20. CASE ApprovalTimesOut(t)
  <2> DEFINE e == Settle(approval[t], "deny")
  <2>1. e \in Entries /\ e.state = approval[t].state
    BY SettleKeeps
  <2>2. approval' = [approval EXCEPT ![t] = [e EXCEPT !.timer = FALSE]]
    BY <1>20 DEF ApprovalTimesOut, Change
  <2>3. [e EXCEPT !.timer = FALSE].state = e.state
    BY <2>1 DEF Entries
  <2>4. approval'[t].state = approval[t].state
    BY <2>1, <2>2, <2>3
  <2> QED
    BY <1>20, <2>4 DEF ApprovalTimesOut
<1>21. CASE ApprovalSettles(t)
  <2>1. doing[t] = "waiting" /\ approval[t].state = "open" /\ task' = task
    BY <1>21, RequestOfWorker DEF ApprovalSettles, StoryInv
  <2>2. CASE /\ TellSpan(Closed(spans, "approval", t,
                           IF Head(approval[t].settling) = "approve" THEN "succeeded" ELSE "denied"))
             /\ Change(t, [Unasked EXCEPT !.settling = Tail(approval[t].settling)])
             /\ doing' = [doing EXCEPT ![t] = IF Head(approval[t].settling) = "approve" THEN "allowed" ELSE "denied"]
    <3>1. PICK end \in {"succeeded", "denied"} : spans' = Closed(spans, "approval", t, end)
      BY <2>2
    <3>2. approval'[t].state = "none"
      BY <2>2 DEF Change, Unasked
    <3>3. OwnSame(t, "approval") /\ UnderWay("approval", t) /\ ~UnderWay("approval", t)'
      BY <2>1, <2>2, <3>2
    <3> QED
      BY <3>1, <3>3
  <2>3. CASE /\ Change(t, [approval[t] EXCEPT !.settling = Tail(approval[t].settling), !.failed = TRUE])
             /\ UNCHANGED <<truth, clicked, story, stops>>
    <3>1. approval'[t].state = approval[t].state
      BY <2>3 DEF Change, Entries
    <3> QED
      BY <2>3, <3>1
  <2> QED
    BY <1>21, <2>1, <2>2, <2>3 DEF ApprovalSettles
<1> HIDE DEF Told
<1> QED
  BY <1>2, <1>3, <1>4, <1>5, <1>6, <1>7, <1>8, <1>9, <1>10, <1>11, <1>12, <1>13, <1>14, <1>15,
     <1>16, <1>17, <1>18, <1>19, <1>20, <1>21, Zenon DEF WorkOf

\* What the Run itself goes through before and after its tasks.
PlanSteps ==
  \/ PlanCreated \/ PlanningFails \/ CheckpointInitialized
  \/ PlanReviewed \/ ReviewRequested \/ PlanDecided \/ PlanDecisionTold \/ PlanRejected
  \/ WorkBegins \/ RunEnded \/ RunInterrupted

\* Plan steps touch the stages of the plan only.
PlanStages ==
  \/ stages' = stages
  \/ \E f \in {"plan", "asked", "approved", "rejected"} : stages' = [stages EXCEPT ![f] = TRUE]

LEMMA StagesGrow ==
  ASSUME StoryTyped, PlanStages
  PROVE  /\ stages' \in [plan : BOOLEAN, asked : BOOLEAN, approved : BOOLEAN, rejected : BOOLEAN,
                         review : {"none", "reviewing", "accepted", "revision_requested", "failed"}]
         /\ stages'.review = stages.review
<1> DEFINE S == [plan : BOOLEAN, asked : BOOLEAN, approved : BOOLEAN, rejected : BOOLEAN,
                 review : {"none", "reviewing", "accepted", "revision_requested", "failed"}]
<1>1. stages \in S
  BY DEF StoryTyped
<1>2. ASSUME NEW f \in {"plan", "asked", "approved", "rejected"}, stages' = [stages EXCEPT ![f] = TRUE]
      PROVE  stages' \in S /\ stages'.review = stages.review
  BY <1>1, <1>2
<1> QED
  BY <1>1, <1>2 DEF PlanStages

LEMMA PlanStepsWork ==
  ASSUME StoryTyped, WorkKnown, PlanSteps
  PROVE  PlanStages /\ WorkKnown' /\ ResultsStay /\ UNCHANGED <<task, doing, saved, journal, approval>>
<1>1. PlanStages /\ UNCHANGED <<task, doing, saved, journal, approval>>
  BY DEF PlanStages, PlanSteps, PlanCreated, PlanningFails, CheckpointInitialized, PlanReviewed,
     ReviewRequested,
         PlanDecided, PlanDecisionTold, PlanRejected, WorkBegins, RunEnded, RunInterrupted,
         StoryTyped, TellRun, asking, truth, story
<1>2. stages'.review = stages.review
  BY <1>1, StagesGrow
<1> QED
  BY <1>1, <1>2 DEF WorkKnown, CheckpointOf, ArtifactKnown, ResultsStay

\* The lines are about the same agents; the one of the plan is looked at apart.
LEMMA PlanLines ==
  ASSUME StoryInv, UNCHANGED <<task, doing, saved, approval>>,
         phase' = "working" <=> phase = "working",
         \/ spans' = spans /\ (UnderWay("plan", WholeRun)' <=> UnderWay("plan", WholeRun))
         \/ spans' = Opened("plan", WholeRun) /\ ~UnderWay("plan", WholeRun) /\ UnderWay("plan", WholeRun)'
         \/ \E end \in Fates :
              /\ spans' = Closed(spans, "plan", WholeRun, end)
              /\ UnderWay("plan", WholeRun) /\ ~UnderWay("plan", WholeRun)'
  PROVE  LinesInv' /\ spans'["task"] = spans["task"]
<1>1. ASSUME NEW k \in Lanes, NEW p \in Owners, k # "plan" \/ p # WholeRun
      PROVE  UnderWay(k, p)' <=> UnderWay(k, p)
  BY <1>1 DEF UnderWay
<1>2. OthersSame("plan", WholeRun) /\ ResultsStay /\ LinesInv
  BY <1>1 DEF OthersSame, ResultsStay, StoryInv
<1>3. "plan" \in Lanes /\ WholeRun \in Owners
  BY DEF Lanes, Owners
<1>4. CASE spans' = spans /\ (UnderWay("plan", WholeRun)' <=> UnderWay("plan", WholeRun))
  <2>1. \A k \in Lanes : \A p \in Owners : UnderWay(k, p)' <=> UnderWay(k, p)
    BY <1>1, <1>4
  <2> QED
    BY <1>2, <1>4, <2>1, SpansStay
<1>5. CASE spans' = Opened("plan", WholeRun) /\ ~UnderWay("plan", WholeRun) /\ UnderWay("plan", WholeRun)'
  BY <1>2, <1>3, <1>5, SpanOpens
<1>6. ASSUME NEW end \in Fates, spans' = Closed(spans, "plan", WholeRun, end),
             UnderWay("plan", WholeRun), ~UnderWay("plan", WholeRun)'
      PROVE  LinesInv' /\ spans'["task"] = spans["task"]
  BY <1>2, <1>3, <1>6, SpanCloses
<1> QED
  BY <1>4, <1>5, <1>6

LEMMA PlanStepKeeps ==
  ASSUME StoryInv, PlanSteps
  PROVE  StoryTyped' /\ PlanKnown' /\ TasksKnown' /\ WorkKnown' /\ LinesInv'
<1>0. StoryTyped /\ PlanKnown /\ TasksKnown /\ WorkKnown /\ LinesInv
  BY DEF StoryInv
<1>1. /\ PlanStages /\ WorkKnown' /\ UNCHANGED <<task, doing, saved, journal, approval>>
      /\ stages'.review = stages.review
      /\ stages' \in [plan : BOOLEAN, asked : BOOLEAN, approved : BOOLEAN, rejected : BOOLEAN,
                      review : {"none", "reviewing", "accepted", "revision_requested", "failed"}]
  BY <1>0, PlanStepsWork, StagesGrow
<1> DEFINE PlanUnderWay == UnderWay("plan", WholeRun)
<1>2. PlanUnderWay <=> \/ phase = "reviewing"
                       \/ agreed = "approved" /\ ~stages.approved
                       \/ agreed = "rejected" /\ ~stages.rejected
  BY DEF UnderWay
<1>3. PlanUnderWay' <=> \/ phase' = "reviewing"
                        \/ agreed' = "approved" /\ ~stages'.approved
                        \/ agreed' = "rejected" /\ ~stages'.rejected
  BY DEF UnderWay
<1> HIDE DEF PlanUnderWay
<1> USE <1>0, <1>1, <1>2, <1>3, StoryBounds DEF StoryTyped, PlanKnown, TasksKnown, TellRun, story,
   bounds, asking
<1>4. CASE PlanCreated
  <2>1. stages' = [stages EXCEPT !.plan = TRUE] /\ UNCHANGED <<agreed, shown, spans>> /\ phase = "planning"
        /\ phase' = "created" /\ status' = "running"
    BY <1>4 DEF PlanCreated
  <2>2. stages'.plan /\ stages'.approved = stages.approved /\ stages'.rejected = stages.rejected
    BY <2>1
  <2>3. LinesInv'
    BY <2>1, <2>2, PlanLines DEF PlanUnderWay
  <2> QED
    BY <1>4, <2>1, <2>2, <2>3 DEF PlanCreated
<1>5. CASE PlanningFails
  <2>1. LinesInv'
    BY <1>5, PlanLines DEF PlanningFails, PlanUnderWay
  <2> QED
    BY <1>5, <2>1 DEF PlanningFails
<1>6. CASE CheckpointInitialized
  <2>1. LinesInv'
    BY <1>6, PlanLines DEF CheckpointInitialized, PlanUnderWay
  <2> QED
    BY <1>6, <2>1 DEF CheckpointInitialized
<1>7. CASE PlanReviewed /\ stages[agreed]
  <2>1. LinesInv'
    BY <1>7, PlanLines DEF PlanReviewed, PlanUnderWay
  <2> QED
    BY <1>7, <2>1 DEF PlanReviewed
<1>8. CASE (PlanReviewed /\ ~stages[agreed]) \/ PlanDecisionTold
  <2>1. /\ agreed \in {"approved", "rejected"} /\ agreed' = agreed /\ shown' = shown /\ lifecycle' = lifecycle
        /\ phase \in {"planned", "reviewing"} /\ phase' = IF agreed = "approved" THEN "resuming" ELSE "decided"
        /\ stages' = [stages EXCEPT ![agreed] = TRUE]
        /\ status' = IF agreed = "approved" THEN "running" ELSE "cancelling"
        /\ spans' = Closed(spans, "plan", WholeRun, IF agreed = "approved" THEN "succeeded" ELSE "denied")
        /\ UNCHANGED <<aborted, stops, auditFailures>>
    BY <1>8 DEF PlanReviewed, PlanDecisionTold
  <2>2. /\ agreed = "approved" => stages'.approved /\ stages'.rejected = stages.rejected
        /\ agreed = "rejected" => stages'.rejected /\ stages'.approved = stages.approved
        /\ stages'.plan = stages.plan
    BY <2>1
  <2>3. PlanUnderWay /\ ~PlanUnderWay'
    BY <1>8, <2>1, <2>2 DEF PlanReviewed, PlanDecisionTold
  <2>4. PICK end \in Fates : spans' = Closed(spans, "plan", WholeRun, end)
    BY <2>1 DEF Fates
  <2>5. LinesInv' /\ spans'["task"] = spans["task"]
    BY <2>1, <2>3, <2>4, PlanLines DEF PlanUnderWay
  <2>6. PlanKnown'
    BY <2>1, <2>2, <2>5
  <2>7. TasksKnown'
    BY <2>1, <2>2
  <2>8. StoryTyped'
    BY <2>1
  <2> QED
    BY <2>5, <2>6, <2>7, <2>8
<1>9. CASE ReviewRequested
  <2>1. /\ phase = "planned" /\ phase' = "reviewing" /\ agreed = "open" /\ agreed' = agreed
        /\ status' = "awaiting_plan_approval" /\ stages' = [stages EXCEPT !.asked = TRUE]
        /\ spans' = Opened("plan", WholeRun) /\ UNCHANGED <<aborted, lifecycle, shown, stops, auditFailures>>
    BY <1>9 DEF ReviewRequested
  <2>2. stages'.plan = stages.plan /\ stages'.approved = stages.approved /\ stages'.rejected = stages.rejected
    BY <2>1
  <2>3. ~PlanUnderWay /\ PlanUnderWay'
    BY <2>1, <2>2
  <2>4. LinesInv' /\ spans'["task"] = spans["task"]
    BY <2>1, <2>3, PlanLines DEF PlanUnderWay
  <2> QED
    BY <2>1, <2>2, <2>4
<1>10. CASE PlanDecided
  <2>1. LinesInv'
    BY <1>10, PlanLines DEF PlanDecided, PlanUnderWay
  <2> QED
    BY <1>10, <2>1 DEF PlanDecided
<1>11. CASE PlanRejected
  <2>1. LinesInv'
    BY <1>11, PlanLines DEF PlanRejected, PlanUnderWay
  <2> QED
    BY <1>11, <2>1 DEF PlanRejected
<1>12. CASE WorkBegins
  <2>1. LinesInv'
    BY <1>12, PlanLines DEF WorkBegins, PlanUnderWay
  <2> QED
    BY <1>12, <2>1 DEF WorkBegins
<1>13. CASE RunEnded
  <2>1. /\ phase = "working" /\ phase' = "ended" /\ UNCHANGED <<aborted, agreed, shown, stages, spans, stops, auditFailures>>
        /\ \A t \in Tasks : Over(t)
        /\ status' \in {"cancelled", "succeeded", "failed"} /\ lifecycle' = "ended"
        /\ status' = "succeeded" => \A t \in Tasks : task[t] = "succeeded"
    BY <1>13 DEF RunEnded
  <2>2. \A t \in Tasks : shown[t] = task[t] /\ task[t] \in {"succeeded", "failed", "blocked", "cancelled"}
    BY <2>1 DEF Over
  <2>3. status' = "succeeded" => stages.review = "accepted"
    <3>1. status' = "succeeded" => saved[Writer] = "result"
      BY <2>1 DEF WorkKnown, CheckpointOf, Tasks
    <3> QED
      BY <3>1 DEF WorkKnown, ArtifactKnown
  <2>4. ASSUME NEW k \in Lanes, NEW p \in Owners PROVE UnderWay(k, p)' <=> UnderWay(k, p)
    BY <2>1, <2>2 DEF UnderWay
  <2>5. LinesInv'
    BY <2>1, <2>4, SpansStay DEF ResultsStay
  <2>6. StoryTyped' /\ PlanKnown'
    BY <2>1
  <2>7. TasksKnown'
    BY <2>1, <2>2, <2>3
  <2> QED
    BY <2>5, <2>6, <2>7
<1>14. CASE RunInterrupted
  <2>1. LinesInv'
    BY <1>14, PlanLines DEF RunInterrupted, truth, PlanUnderWay
  <2> QED
    BY <1>14, <2>1 DEF RunInterrupted, truth
<1> QED
  BY <1>4, <1>5, <1>6, <1>7, <1>8, <1>9, <1>10, <1>11, <1>12, <1>13, <1>14 DEF PlanSteps

\* A task takes its place in the scheduler, with its checkpoint's result if there is one.
LEMMA QueuedKeepsStory ==
  ASSUME StoryInv, NEW t \in Tasks, TaskQueued(t)
  PROVE  StoryTyped' /\ PlanKnown' /\ TasksKnown' /\ WorkKnown' /\ LinesInv'
<1>1. /\ StoryTyped /\ PlanKnown /\ TasksKnown /\ WorkKnown /\ LinesInv
      /\ DOMAIN task = Tasks /\ DOMAIN shown = Tasks
  BY DEF StoryInv, StoryTyped
<1>2. /\ phase = "queueing" /\ phase' \in {"queueing", "working"} /\ task[t] = "unknown"
      /\ UNCHANGED <<aborted, agreed, doing, saved, journal, approval, lifecycle, status, stages, spans, stops, auditFailures>>
  BY <1>1 DEF TaskQueued, asking, bounds
<1>3. PICK s \in {"queued", "succeeded"} :
         /\ task' = [task EXCEPT ![t] = s] /\ shown' = [shown EXCEPT ![t] = s]
         /\ s = "succeeded" <=> saved[t] = "result"
  BY <1>1 DEF TaskQueued
<1>4. phase' = "working" => \A u \in Tasks : task'[u] # "unknown"
  BY <1>2 DEF TaskQueued
<1>5. stages.approved /\ status = "running"
  BY <1>1, <1>2 DEF PlanKnown, TasksKnown
<1>6. StoryTyped'
  BY <1>1, <1>2, <1>3 DEF StoryTyped
<1>7. PlanKnown'
  BY <1>1, <1>2, <1>5 DEF PlanKnown
<1>8. TasksKnown'
  BY <1>1, <1>2, <1>3, <1>4, <1>5 DEF TasksKnown
<1>9. WorkKnown' /\ ResultsStay
  BY <1>1, <1>2, <1>3 DEF WorkKnown, CheckpointOf, ArtifactKnown, ResultsStay
<1>10. \A k \in Lanes : \A p \in Owners : UnderWay(k, p)' <=> UnderWay(k, p)
  <2>1. \A u \in Tasks : task'[u] # "running"
    BY <1>1, <1>2, <1>3 DEF TasksKnown
  <2> QED
    BY <1>2, <2>1 DEF UnderWay
<1>11. LinesInv'
  BY <1>1, <1>2, <1>9, <1>10, SpansStay
<1> QED
  BY <1>6, <1>7, <1>8, <1>9, <1>11

LEMMA AbortKeepsStory ==
  ASSUME StoryInv, Abort
  PROVE  StoryTyped' /\ PlanKnown' /\ TasksKnown' /\ WorkKnown' /\ LinesInv'
<1>1. /\ StoryTyped /\ PlanKnown /\ TasksKnown /\ WorkKnown /\ LinesInv /\ approval \in [Tasks -> Entries]
  BY DEF StoryInv, AgentsInv, AgentsTyped
<1>2. /\ UNCHANGED <<phase, agreed, task, doing, saved, journal, lifecycle, status, shown, stages, spans, stops, auditFailures>>
      /\ aborted' = TRUE /\ approval' = [t \in Tasks |-> Settle(approval[t], "deny")]
  BY DEF Abort, story, bounds
<1>3. \A t \in Tasks : approval'[t].state = approval[t].state
  BY <1>1, <1>2, SettleKeeps
<1>4. StoryTyped' /\ PlanKnown' /\ TasksKnown'
  BY <1>1, <1>2 DEF StoryTyped, PlanKnown, TasksKnown
<1>5. WorkKnown' /\ ResultsStay
  BY <1>1, <1>2 DEF WorkKnown, CheckpointOf, ArtifactKnown, ResultsStay
<1>6. \A k \in Lanes : \A p \in Owners : UnderWay(k, p)' <=> UnderWay(k, p)
  BY <1>2, <1>3 DEF UnderWay
<1> QED
  BY <1>1, <1>2, <1>4, <1>5, <1>6, SpansStay

\* A stop loses what is under way, but for a decision of the plan that is not told yet.
LEMMA StopKeepsStory ==
  ASSUME StoryInv, ProcessStops
  PROVE  StoryTyped' /\ PlanKnown' /\ TasksKnown' /\ WorkKnown' /\ LinesInv'
<1>1. /\ StoryTyped /\ PlanKnown /\ TasksKnown /\ WorkKnown /\ SpansTyped
      /\ \A l \in Lanes : \A o \in Owners : LineKnown(l, o)
  BY DEF StoryInv, LinesInv
<1>2. /\ phase \notin {"ended", "stopped"} /\ phase' = "stopped" /\ aborted' = FALSE
      /\ doing' = [t \in Tasks |-> "nothing"] /\ task' = [t \in Tasks |-> "unknown"]
      /\ approval' = [t \in Tasks |-> Unasked]
      /\ UNCHANGED <<agreed, saved, journal, lifecycle, status, shown, stages, auditFailures>>
      /\ stops' \in 0 .. MaxStops
  BY <1>1, StoryBounds DEF ProcessStops, StoryTyped
<1>3. spans' = [l \in Lanes |->
         IF l = "plan" /\ agreed # "open" THEN spans[l] ELSE [o \in Owners |-> Lost(spans[l][o])]]
  BY DEF ProcessStops
<1>4. ASSUME NEW l \in Lanes, NEW o \in Owners
      PROVE  /\ spans[l][o] \in Seq(Spans) /\ Lost(spans[l][o]) \in Seq(Spans)
             /\ LineTrue(l, Lost(spans[l][o])) /\ ~LastOpen(Lost(spans[l][o]))
             /\ NoneGood(spans[l][o]) => NoneGood(Lost(spans[l][o]))
             /\ spans[l][o] = <<>> => Lost(spans[l][o]) = <<>>
  <2>1. spans[l][o] \in Seq(Spans) /\ LineTrue(l, spans[l][o])
    BY <1>1 DEF SpansTyped, LineKnown
  <2> QED
    BY <2>1, LostLine
<1>5. ASSUME NEW l \in Lanes, ~(l = "plan" /\ agreed # "open"), NEW o \in Owners
      PROVE  spans'[l][o] = Lost(spans[l][o])
  BY <1>3, <1>5
<1>6. SpansTyped'
  <2>1. \A l \in Lanes : spans'[l] \in [Owners -> Seq(Spans)]
    BY <1>1, <1>3, <1>4 DEF SpansTyped
  <2> QED
    BY <1>3, <2>1 DEF SpansTyped
<1>7. StoryTyped' /\ TasksKnown'
  <2>1. status # "succeeded"
    BY <1>1, <1>2 DEF TasksKnown
  <2>2. StoryTyped'
    <3>1. task' \in [Tasks -> {"unknown", "queued", "running", "succeeded", "failed", "blocked", "cancelled"}]
      BY <1>2
    <3>2. phase' \in {"planned", "stopped"} /\ aborted' \in BOOLEAN
      BY <1>2
    <3>3. UNCHANGED <<agreed, shown, journal, lifecycle, status, stages, auditFailures>> /\ stops' \in 0 .. MaxStops
      BY <1>2
    <3>4. StoryTyped
      BY <1>1
    <3> QED
      BY <3>1, <3>2, <3>3, <3>4 DEF StoryTyped
  <2>3. TasksKnown'
    BY <1>1, <1>2, <2>1 DEF TasksKnown
  <2> QED
    BY <2>2, <2>3
<1>8. PlanKnown'
  <2>1. \A t \in Tasks : spans["task"][t] = <<>> => spans'["task"][t] = <<>>
    BY <1>4, <1>5 DEF Lanes, Owners
  <2> QED
    BY <1>1, <1>2, <2>1 DEF PlanKnown
<1>9. WorkKnown'
  <2>1. ASSUME NEW t \in Tasks PROVE CheckpointOf(t)'
    <3>1. doing'[t] = "nothing" /\ task'[t] = "unknown"
      BY <1>2
    <3> QED
      BY <3>1 DEF CheckpointOf, InCall
  <2>2. doing'[Writer] = "nothing"
    BY <1>2 DEF Tasks
  <2>3. ArtifactKnown'
    BY <1>1, <1>2, <2>2 DEF WorkKnown, ArtifactKnown
  <2> QED
    BY <2>1, <2>3 DEF WorkKnown
<1>10. ASSUME NEW l \in Lanes, NEW o \in Owners PROVE LineKnown(l, o)'
  <2>1. l # "plan" => ~UnderWay(l, o)'
    BY <1>2 DEF UnderWay, InCall, Unasked
  <2>2. CASE ~(l = "plan" /\ agreed # "open")
    <3>1. ~UnderWay(l, o)'
      BY <1>2, <2>1, <2>2 DEF UnderWay
    <3> QED
      BY <1>1, <1>2, <1>4, <1>5, <2>2, <3>1 DEF LineKnown
  <2>3. CASE l = "plan" /\ agreed # "open"
    <3>1. spans'[l][o] = spans[l][o]
      BY <1>3, <2>3
    <3>2. phase = "reviewing" => /\ agreed = "approved" => ~stages.approved
                                 /\ agreed = "rejected" => ~stages.rejected
      BY <1>1 DEF PlanKnown
    <3>3. UnderWay(l, o)' <=> UnderWay(l, o)
      BY <1>1, <1>2, <2>3, <3>2 DEF UnderWay, StoryTyped, PlanKnown
    <3> QED
      BY <1>1, <2>3, <3>1, <3>3 DEF LineKnown
  <2> QED
    BY <2>2, <2>3
<1> QED
  BY <1>6, <1>7, <1>8, <1>9, <1>10 DEF LinesInv

LEMMA ResumeKeepsStory ==
  ASSUME StoryInv, RunResumed
  PROVE  StoryTyped' /\ PlanKnown' /\ TasksKnown' /\ WorkKnown' /\ LinesInv'
<1>1. /\ StoryTyped /\ PlanKnown /\ TasksKnown /\ WorkKnown /\ LinesInv
      /\ doing \in [Tasks -> Doings] /\ \A t \in Tasks : AgentAt(t)
  BY DEF StoryInv, AgentsInv, AgentsTyped
<1>2. /\ phase \in {"ended", "stopped"} /\ phase' = "planned" /\ aborted' = FALSE /\ agreed # "none"
      /\ task' = [t \in Tasks |-> "unknown"] /\ doing' = [t \in Tasks |-> "nothing"]
      /\ UNCHANGED <<agreed, saved, journal, approval, lifecycle, status, shown, stages, spans, auditFailures>>
      /\ status # "succeeded" /\ stops' \in 0 .. MaxStops
  BY <1>1, StoryBounds DEF RunResumed, Resumable, asking, story, StoryTyped
<1>3. \A t \in Tasks : doing[t] = "nothing" /\ doing'[t] = "nothing" /\ task'[t] = "unknown"
  BY <1>1, <1>2 DEF AgentAt
<1>4. StoryTyped'
  <2>1. task' \in [Tasks -> {"unknown", "queued", "running", "succeeded", "failed", "blocked", "cancelled"}]
    BY <1>2
  <2>2. phase' \in {"planned", "stopped"} /\ aborted' \in BOOLEAN
    BY <1>2
  <2>3. UNCHANGED <<agreed, shown, journal, lifecycle, status, stages, auditFailures>> /\ stops' \in 0 .. MaxStops
    BY <1>2
  <2>4. StoryTyped
    BY <1>1
  <2> QED
    BY <2>1, <2>2, <2>3, <2>4 DEF StoryTyped
<1>5. PlanKnown'
  BY <1>1, <1>2 DEF PlanKnown
<1>6. TasksKnown'
  BY <1>1, <1>2, <1>3 DEF TasksKnown
<1>7. WorkKnown'
  <2>1. ASSUME NEW t \in Tasks PROVE CheckpointOf(t)'
    BY <1>3 DEF CheckpointOf, InCall
  <2>2. ArtifactKnown'
    BY <1>1, <1>2, <1>3 DEF WorkKnown, ArtifactKnown, Tasks
  <2> QED
    BY <2>1, <2>2 DEF WorkKnown
<1>8. \A k \in Lanes : \A p \in Owners : UnderWay(k, p)' <=> UnderWay(k, p)
  BY <1>2, <1>3 DEF UnderWay, InCall
<1>9. LinesInv'
  BY <1>1, <1>2, <1>8, SpansStay DEF ResultsStay
<1> QED
  BY <1>4, <1>5, <1>6, <1>7, <1>9

LEMMA StoryStarts ==
  ASSUME StoryInit
  PROVE  StoryTyped /\ PlanKnown /\ TasksKnown /\ WorkKnown /\ LinesInv
<1> DEFINE Statuses == {"unknown", "queued", "running", "succeeded", "failed", "blocked", "cancelled"}
<1>1. StoryTyped /\ TasksKnown
  <2>1. task \in [Tasks -> Statuses] /\ shown \in [Tasks -> Statuses]
    BY DEF StoryInit
  <2>2. journal \in [Tasks -> {"none", "started", "completed", "failed"}] /\ 0 \in 0 .. MaxStops
        /\ 0 \in 0 .. MaxAuditFailures
    BY StoryBounds DEF StoryInit
  <2>3. stages \in [plan : BOOLEAN, asked : BOOLEAN, approved : BOOLEAN, rejected : BOOLEAN,
                    review : {"none", "reviewing", "accepted", "revision_requested", "failed"}]
    BY DEF StoryInit
  <2>4. StoryTyped
    BY <2>1, <2>2, <2>3 DEF StoryInit, StoryTyped
  <2>5. TasksKnown
    BY DEF StoryInit, TasksKnown
  <2> QED
    BY <2>4, <2>5
<1>2. PlanKnown
  BY DEF StoryInit, PlanKnown, Lanes, Owners
<1>3. WorkKnown
  BY DEF StoryInit, WorkKnown, CheckpointOf, ArtifactKnown, InCall, Tasks
<1>4. ASSUME NEW l \in Lanes, NEW o \in Owners PROVE LineKnown(l, o)
  <2>1. spans[l][o] = <<>>
    BY DEF StoryInit
  <2>2. ~UnderWay(l, o)
    BY DEF StoryInit, UnderWay, InCall, Unasked
  <2> QED
    BY <2>1, <2>2 DEF LineKnown, LineTrue, LastOpen, NoneGood
<1>5. SpansTyped
  <2>1. <<>> \in Seq(Spans)
    OBVIOUS
  <2> QED
    BY <2>1 DEF StoryInit, SpansTyped
<1> QED
  BY <1>1, <1>2, <1>3, <1>4, <1>5 DEF LinesInv

\* No status is both the one a Run has while it works and one it settled with.
LEMMA StoryIsTold ==
  ASSUME StoryInv
  PROVE  StoryIsTrue
<1>1. /\ AgentsInv /\ StoryTyped /\ PlanKnown /\ TasksKnown /\ SpansTyped
      /\ \A l \in Lanes : \A o \in Owners : LineKnown(l, o)
  BY DEF StoryInv, LinesInv
<1>2. StoryTypeOK
  <2>1. ASSUME NEW t \in Tasks
        PROVE  /\ approval[t].state \in {"none", "asking", "open"}
               /\ Len(approval[t].settling) <= 1 /\ Len(clicked[t]) <= 1
    <3>1. approval[t] \in Entries /\ clicked[t] \in Replies
      BY <1>1 DEF AgentsInv, AgentsTyped
    <3>2. \A s \in Replies : Len(s) <= 1
      BY DEF Replies
    <3> QED
      BY <3>1, <3>2 DEF Entries
  <2> QED
    BY <1>1, <2>1 DEF StoryTyped, StoryTypeOK
<1>3. phase = "working" => \A t \in Tasks : ShownTask(t) = task[t]
  BY <1>1 DEF TasksKnown, ShownTask
<1>4. Settled(status) /\ phase \in {"ended", "stopped"} => \A t \in Tasks : ShownTask(t) \notin {"queued", "running"}
  BY <1>1 DEF TasksKnown, ShownTask, Settled
<1>5. ASSUME NEW l \in Lanes, NEW o \in Owners, NEW i \in DOMAIN spans[l][o], NEW good \in {"succeeded", "denied"},
             ~Displaced(l, spans[l][o])
      PROVE  ShownSpan(spans[l][o][i]) = good <=> spans[l][o][i].fate = good
  <2>1. spans[l][o][i].shown = good <=> spans[l][o][i].fate = good
    BY <1>1, <1>5 DEF LineKnown, LineTrue, GoodEnds
  <2> QED
    BY <2>1 DEF ShownSpan
<1>6. status = "succeeded" => \A s \in Stages : s[2] = "succeeded"
  <2> SUFFICES ASSUME status = "succeeded", NEW s \in Stages PROVE s[2] = "succeeded"
    OBVIOUS
  <2>1. stages.plan /\ stages.approved /\ stages.review = "accepted" /\ \A t \in Tasks : shown[t] = "succeeded"
    BY <1>1 DEF PlanKnown, TasksKnown
  <2>2. /\ Prepare = "succeeded" /\ Complete = "succeeded" /\ PlanReview = "succeeded"
        /\ ArtifactReview = "succeeded" /\ \A t \in Tasks : StageOf(ShownTask(t)) = "succeeded"
    BY <2>1 DEF Prepare, Complete, PlanReview, ArtifactReview, StageOf, ShownTask, Settled
  <2>3. \/ s \in {<<"prepare", Prepare>>, <<"complete", Complete>>}
        \/ s = <<"plan-review", PlanReview>> \/ s = <<"artifact-review", ArtifactReview>>
        \/ \E t \in Tasks : s = <<t, StageOf(ShownTask(t))>>
    BY DEF Stages
  <2> QED
    BY <2>2, <2>3
<1>7. FailureStage = "planning" => \A t \in Tasks : spans["task"][t] = <<>>
  <2>1. FailureStage = "planning" => ~stages.plan
    BY DEF FailureStage
  <2>2. ~stages.plan => ~stages.approved
    BY <1>1 DEF PlanKnown
  <2> QED
    BY <1>1, <2>1, <2>2 DEF PlanKnown
<1> QED
  BY <1>2, <1>3, <1>4, <1>5, <1>6, <1>7 DEF StoryIsTrue

\* What the window shows of a Run is what became of it, for any number of tasks,
\* turns, stops and failing audits: its tasks while they are worked on, its spans by
\* how they ended, a settled Run with nothing under way, a success with every stage
\* succeeded, and a failure in planning with no task ever started.
THEOREM StoryIsTrueCorrect == StorySpec => []StoryIsTrue
<1>1. StoryInit => StoryInv
  <2>1. ASSUME StoryInit PROVE AgentsInv
    <3>1. Unasked \in Entries /\ <<>> \in Replies /\ Unasked.settling = <<>> /\ Unasked.state = "none"
      BY DEF Unasked, Entries, Replies
    <3> QED
      BY <2>1, <3>1 DEF StoryInit, AgentsInv, AgentsTyped, AgentAt, RequestAt, Doings
  <2> QED
    BY <2>1, StoryStarts DEF StoryInv
<1>2. StoryInv /\ [StoryNext]_storyVars => StoryInv'
  <2> SUFFICES ASSUME StoryInv, [StoryNext]_storyVars PROVE StoryInv'
    OBVIOUS
  <2>1. AgentsInv /\ StoryTyped /\ PlanKnown /\ TasksKnown
    BY DEF StoryInv
  <2>2. CASE UNCHANGED storyVars
    <3>1. UNCHANGED <<phase, aborted, agreed, task, doing, saved, journal, turns, approval, clicked,
                      lifecycle, status, shown, stages, spans, stops, auditFailures>>
      BY <2>2 DEF storyVars, truth, asking, story, bounds
    <3>2. AgentsInv'
      BY <2>1, <3>1 DEF AgentsInv, AgentsTyped, AgentAt, RequestAt
    <3>3. StoryTyped' /\ PlanKnown' /\ TasksKnown'
      BY <2>1, <3>1 DEF StoryTyped, PlanKnown, TasksKnown
    <3>4. WorkKnown'
      BY <3>1 DEF StoryInv, WorkKnown, CheckpointOf, ArtifactKnown
    <3>5. LinesInv'
      BY <3>1, SpansStay DEF StoryInv, UnderWay, ResultsStay
    <3> QED
      BY <3>2, <3>3, <3>4, <3>5 DEF StoryInv
  <2>3. ASSUME NEW t \in Tasks, WorkOf(t) PROVE StoryInv'
    <3>1. AgentsInv'
      BY <2>1, <2>3, AgentStep, BrokerStep DEF WorkOf
    <3> QED
      BY <2>1, <2>3, <3>1, WorkIsFramed, WorkKeepsRun, WorkIsKept, WorkIsTold DEF StoryInv
  <2>4. ASSUME NEW t \in Tasks, TaskQueued(t) PROVE StoryInv'
    BY <2>1, <2>4, RunStep, QueuedKeepsStory DEF StoryInv
  <2>5. CASE PlanSteps
    BY <2>1, <2>5, RunStep, PlanStepKeeps DEF StoryInv, PlanSteps
  <2>6. CASE Abort
    BY <2>1, <2>6, AllAgentsStep, AbortKeepsStory DEF StoryInv
  <2>7. CASE ProcessStops
    BY <2>1, <2>7, AllAgentsStep, StopKeepsStory DEF StoryInv
  <2>8. CASE RunResumed
    BY <2>1, <2>8, AllAgentsStep, ResumeKeepsStory DEF StoryInv
  <2> QED
    BY <2>2, <2>3, <2>4, <2>5, <2>6, <2>7, <2>8 DEF StoryNext, WorkOf, PlanSteps
<1> QED
  BY <1>1, <1>2, StoryIsTold, PTL DEF StorySpec
-----------------------------------------------------------------------------
(* MCP servers: the stored record.                                         *)

Updates == [id : 1 .. MaxUpdates, field : Fields, drop : BOOLEAN]
Records == [Fields -> Nat]

RecordTyped ==
  /\ record \in Records /\ reported = record
  /\ queue \in Seq(Updates) /\ issued \in 0 .. MaxUpdates
  /\ loaded \in [1 .. MaxUpdates -> Records]

\* Updates wait in the order they were made, and only the first has loaded the record,
\* which is the stored one.
QueueInOrder ==
  /\ \A i \in DOMAIN queue : queue[i].id <= issued
  /\ \A i, j \in DOMAIN queue : i < j => queue[i].id < queue[j].id
  /\ \A u \in 1 .. MaxUpdates :
       loaded[u] # NotLoaded => queue # <<>> /\ u = queue[1].id /\ loaded[u] = record

RecordInv == RecordTyped /\ QueueInOrder

\* What is left of a queue without its first element.
LEMMA WithoutFirst ==
  ASSUME NEW S, NEW q \in Seq(S), q # <<>>,
         NEW rest, rest = SubSeq(q, 1, 0) \o SubSeq(q, 2, Len(q))
  PROVE  /\ rest \in Seq(S) /\ Len(rest) = Len(q) - 1
         /\ \A i \in 1 .. Len(rest) : i + 1 \in 1 .. Len(q) /\ rest[i] = q[i + 1]
<1>1. SubSeq(q, 1, 0) = <<>> /\ SubSeq(q, 2, Len(q)) \in Seq(S) /\ Len(q) \in Nat \ {0}
  OBVIOUS
<1> DEFINE r == SubSeq(q, 2, Len(q))
<1>2. rest = <<>> \o r
  <2>1. SubSeq(q, 1, 0) = <<>>
    BY <1>1
  <2> QED
    BY <2>1, Zenon
<1>3. Len(r) = Len(q) - 1 /\ \A i \in 1 .. Len(q) - 1 : r[i] = q[2 + i - 1]
  <2>1. /\ Len(r) = IF 2 <= Len(q) THEN Len(q) - 2 + 1 ELSE 0
        /\ \A i \in 1 .. Len(q) - 2 + 1 : r[i] = q[2 + i - 1]
    <3>1. \A i \in 2 .. Len(q) : q[i] \in S
      BY <1>1
    <3> QED
      BY <1>1, <3>1, SubSeqProperties
  <2>2. Len(q) \in Nat /\ 1 <= Len(q) /\ Len(q) - 2 + 1 = Len(q) - 1 /\ (Len(q) = 1 => Len(q) - 1 = 0)
    BY <1>1
  <2> HIDE DEF r
  <2>3. Len(r) = Len(q) - 1
    <3>1. CASE 2 <= Len(q)
      BY <2>1, <2>2, <3>1, Zenon
    <3>2. CASE ~(2 <= Len(q))
      <4>1. Len(q) = 1
        BY <2>2, <3>2
      <4> QED
        BY <2>1, <2>2, <3>2, <4>1, Zenon
    <3> QED
      BY <3>1, <3>2
  <2>4. ASSUME NEW i \in 1 .. Len(q) - 1 PROVE r[i] = q[2 + i - 1]
    <3>1. i \in 1 .. Len(q) - 2 + 1
      BY <2>2, <2>4
    <3> QED
      BY <2>1, <3>1
  <2> QED
    BY <2>3, <2>4
<1>4. Len(<<>> \o r) = Len(r) /\ \A i \in 1 .. Len(r) : (<<>> \o r)[i] = r[i]
  BY <1>1
<1>5. <<>> \o r \in Seq(S)
  BY <1>1
<1> HIDE DEF r
<1>6. \A i \in 1 .. Len(q) - 1 : i \in Nat /\ i + 1 \in 1 .. Len(q) /\ 2 + i - 1 = i + 1
  BY <1>1
<1> QED
  BY <1>1, <1>2, <1>3, <1>4, <1>5, <1>6

\* An update that is asked for waits behind the others.
LEMMA QueuedKeeps ==
  ASSUME RecordInv, NEW f \in Fields, NEW drop \in BOOLEAN, Queued(f, drop),
         UNCHANGED <<record, reported, loaded>>
  PROVE  RecordInv' /\ queue' # <<>>
<1> USE DEF RecordInv, RecordTyped, QueueInOrder
<1> DEFINE u == [id |-> issued', field |-> f, drop |-> drop]
<1>1. issued' = issued + 1 /\ issued' \in 1 .. MaxUpdates /\ queue' = Append(queue, u) /\ u \in Updates
  BY BridgeAssumption DEF Queued, Updates
<1>2. queue' \in Seq(Updates) /\ Len(queue') = Len(queue) + 1 /\ queue' # <<>>
  BY <1>1
<1>3. \A i \in DOMAIN queue' : \/ (i \in DOMAIN queue /\ queue'[i] = queue[i])
                              \/ (i = Len(queue) + 1 /\ queue'[i].id = issued')
  BY <1>1
<1>4. \A i \in DOMAIN queue : queue[i].id \in Nat /\ i <= Len(queue) /\ i \in Nat
  <2>1. \A i \in DOMAIN queue : queue[i] \in Updates /\ i \in 1 .. Len(queue)
    OBVIOUS
  <2>2. \A v \in Updates : v.id \in Nat
    BY BridgeAssumption DEF Updates
  <2> QED
    BY <2>1, <2>2
<1>5. queue # <<>> => queue'[1] = queue[1]
  BY <1>1
<1>6. RecordTyped'
  BY <1>1, <1>2
<1>7. (\A i \in DOMAIN queue : queue[i].id <= issued)'
  BY <1>1, <1>3, <1>4
<1>8. ASSUME NEW i \in DOMAIN queue', NEW j \in DOMAIN queue', i < j
      PROVE  queue'[i].id < queue'[j].id
  BY <1>1, <1>2, <1>3, <1>4, <1>8
<1>9. (\A v \in 1 .. MaxUpdates :
        loaded[v] # NotLoaded => queue # <<>> /\ v = queue[1].id /\ loaded[v] = record)'
  BY <1>2, <1>5 DEF NotLoaded
<1> QED
  BY <1>2, <1>6, <1>7, <1>8, <1>9

\* What the first update makes of the record when it is saved, or when that fails.
LEMMA SaveIsOfFirst ==
  ASSUME RecordInv, NEW k \in DOMAIN queue, Save(k)
  PROVE  /\ k = 1 /\ queue[1] \in Updates
         /\ queue' = SubSeq(queue, 1, 0) \o SubSeq(queue, 2, Len(queue))
         /\ loaded[queue[1].id] = record /\ loaded' = [loaded EXCEPT ![queue[1].id] = NotLoaded]
         /\ issued' = issued
         /\ \/ record' = Applied(record, queue[1]) /\ reported' = Applied(reported, queue[1])
            \/ UNCHANGED <<record, reported>> /\ lost' = lost \union {queue[1].id}
<1> USE DEF RecordInv, RecordTyped, QueueInOrder
<1>1. queue # <<>> /\ 1 \in DOMAIN queue /\ k \in Nat /\ 1 <= k
  OBVIOUS
<1>2. queue[k] \in Updates /\ queue[1] \in Updates
  BY <1>1
<1>3. loaded[queue[k].id] # NotLoaded /\ queue[k].id \in 1 .. MaxUpdates
  BY <1>2 DEF Save, Updates
<1>4. queue[k].id = queue[1].id /\ loaded[queue[1].id] = record
  BY <1>3
<1>5. k = 1
  BY <1>1, <1>2, <1>4 DEF Updates
<1> QED
  BY <1>2, <1>4, <1>5 DEF Save

\* No update is lost of those reported as done, whatever overlaps.
LEMMA RecordStep ==
  ASSUME RecordInv, [BridgeNext]_bridgeVars
  PROVE  RecordInv'
<1> USE DEF RecordInv, RecordTyped, QueueInOrder
<1>1. CASE UNCHANGED recordVars
  BY <1>1 DEF recordVars, NotLoaded
<1>2. CASE SdkUpdates
  <2>1. PICK f \in Fields, drop \in BOOLEAN : Queued(f, drop)
    BY <1>2 DEF SdkUpdates
  <2>2. UNCHANGED <<record, reported, loaded>>
    BY <1>2 DEF SdkUpdates
  <2> QED
    BY <2>1, <2>2, QueuedKeeps
<1>3. CASE InvalidateAll
  <2>1. queue = <<>> /\ record' = Empty /\ reported' = Empty /\ UNCHANGED <<queue, loaded, issued>>
    BY <1>3 DEF InvalidateAll
  <2>2. Empty \in Records
    BY DEF Empty, Records
  <2> QED
    BY <2>1, <2>2 DEF NotLoaded
<1>4. CASE Exchange
  <2>1. UNCHANGED <<record, reported, loaded>>
    BY <1>4 DEF Exchange
  <2>2. CASE Queued("tokens", FALSE)
    <3>1. "tokens" \in Fields /\ FALSE \in BOOLEAN
      BY DEF Fields
    <3> QED
      BY <2>1, <2>2, <3>1, QueuedKeeps
  <2>3. CASE UNCHANGED <<queue, issued, awaited>>
    BY <2>1, <2>3 DEF NotLoaded
  <2> QED
    BY <1>4, <2>2, <2>3 DEF Exchange
<1>5. CASE Revokes
  <2>1. UNCHANGED <<record, reported, loaded>>
    BY <1>5 DEF Revokes
  <2>2. CASE Queued("tokens", TRUE)
    <3>1. "tokens" \in Fields /\ TRUE \in BOOLEAN
      BY DEF Fields
    <3> QED
      BY <2>1, <2>2, <3>1, QueuedKeeps
  <2>3. CASE UNCHANGED <<queue, issued, awaited>>
    BY <2>1, <2>3 DEF NotLoaded
  <2> QED
    BY <1>5, <2>2, <2>3 DEF Revokes
<1>6. ASSUME NEW k \in DOMAIN queue, Load(k) PROVE RecordInv'
  <2>1. k = 1 /\ queue # <<>> /\ queue[1] \in Updates
    BY <1>6 DEF Load, FirstUpdate
  <2>2. /\ loaded' = [loaded EXCEPT ![queue[1].id] = record]
        /\ UNCHANGED <<record, reported, queue, issued>>
    BY <1>6, <2>1 DEF Load
  <2>3. queue[1].id \in 1 .. MaxUpdates
    BY <2>1 DEF Updates
  <2> QED
    BY <2>1, <2>2, <2>3 DEF NotLoaded
<1>7. ASSUME NEW k \in DOMAIN queue, Save(k) PROVE RecordInv'
  <2>1. /\ queue # <<>> /\ queue[1] \in Updates
        /\ queue' = SubSeq(queue, 1, 0) \o SubSeq(queue, 2, Len(queue))
        /\ loaded' = [loaded EXCEPT ![queue[1].id] = NotLoaded] /\ issued' = issued
        /\ \/ record' = Applied(record, queue[1]) /\ reported' = Applied(reported, queue[1])
           \/ UNCHANGED <<record, reported>>
    BY <1>7, SaveIsOfFirst
  <2>2. /\ queue' \in Seq(Updates) /\ Len(queue') = Len(queue) - 1
        /\ \A i \in DOMAIN queue' : i + 1 \in DOMAIN queue /\ queue'[i] = queue[i + 1]
    <3>1. queue \in Seq(Updates) /\ DOMAIN queue = 1 .. Len(queue)
      OBVIOUS
    <3>2. /\ queue' \in Seq(Updates) /\ Len(queue') = Len(queue) - 1
          /\ \A i \in 1 .. Len(queue') : i + 1 \in 1 .. Len(queue) /\ queue'[i] = queue[i + 1]
      BY <2>1, <3>1, WithoutFirst
    <3> QED
      BY <3>1, <3>2
  <2>3. NotLoaded \in Records
    BY BridgeAssumption DEF NotLoaded, Records
  <2>4. queue[1].id \in 1 .. MaxUpdates /\ queue[1].id \in Nat
    BY <2>1 DEF Updates
  <2>5. Applied(record, queue[1]) \in Records
    BY <2>4 DEF Applied, Records
  <2>6. RecordTyped'
    BY <2>1, <2>2, <2>3, <2>5
  <2>7. \A u \in 1 .. MaxUpdates : loaded'[u] = NotLoaded
    BY <2>1
  <2>8. (\A i \in DOMAIN queue : queue[i].id <= issued)'
    BY <2>1, <2>2
  <2>9. ASSUME NEW i \in DOMAIN queue', NEW j \in DOMAIN queue', i < j
        PROVE  queue'[i].id < queue'[j].id
    <3>1. i + 1 < j + 1
      BY <2>2, <2>9
    <3> QED
      BY <2>2, <2>9, <3>1
  <2> QED
    BY <2>6, <2>7, <2>8, <2>9 DEF NotLoaded
<1> QED
  BY <1>1, <1>2, <1>3, <1>4, <1>5, <1>6, <1>7
     DEF BridgeNext, bridgeVars, Begin, MakeTransport, Connects, ConnectFails, Unauthorized,
         CallbackReceived, CodeReceived, CallbackTimesOut, Authorized, ListTools, ListFails,
         RunEnds, CloseLast, RevokeStarts, RevokeEnds

-----------------------------------------------------------------------------
(* MCP servers: connections, tools, the code and a revocation.             *)

ConnectedOnes == {connected[i] : i \in DOMAIN connected}
Authorizing == {"await", "exchange", "storing", "reconnect"}

LinkTyped ==
  /\ bridge \in {"idle", "connecting", "undoing", "ready", "closing", "failed", "closed"}
  /\ link \in {"make", "connect", "list"} \union Authorizing
  /\ nth \in 1 .. Len(Configs) /\ listening \in BOOLEAN
  /\ connected \in Seq(Servers \X {1, 2})

\* The server of the authorization is among the connected ones.
OAuthConnected == \E i \in DOMAIN connected : connected[i][1] = OAuthServer

\* The servers are connected in order, and what is open is the connected ones and the
\* transport that is being tried.
LinkInv ==
  /\ LinkTyped
  /\ bridge = "idle" => nth = 1 /\ link = "make" /\ connected = <<>> /\ transports = {} /\ ~listening
  /\ \A i \in DOMAIN connected : i <= Len(Configs) /\ connected[i][1] = Configs[i]
  /\ bridge = "connecting" =>
       /\ Len(connected) = IF link = "list" THEN nth ELSE nth - 1
       /\ link \in Authorizing => Current = OAuthServer
       /\ transports = IF link \in {"make", "list"} THEN ConnectedOnes ELSE ConnectedOnes \union {<<Current, Attempt>>}
       /\ listening => OAuthConnected \/ (link \notin {"make", "list"} /\ Current = OAuthServer)
  /\ bridge = "ready" => Len(connected) = Len(Configs) /\ transports = ConnectedOnes
  /\ bridge \in {"undoing", "closing"} => transports \subseteq ConnectedOnes
  /\ bridge \in {"undoing", "closing", "ready"} => (listening => OAuthConnected)
  /\ bridge \in {"failed", "closed"} => transports = {} /\ ~listening

RiskOf(remote) == IF remote \in ReadOnlyTools THEN "read" ELSE "execute"
ToolDefs == {d \in [server : Servers, remote : RemoteTools, risk : {"read", "execute"}] : d.risk = RiskOf(d.remote)}

\* No two tools are the same, and a tool is determined by its server and its name there.
ToolsInv ==
  /\ tools \in Seq(ToolDefs) /\ Len(tools) <= MaxTools
  /\ \A i, j \in DOMAIN tools : tools[i] = tools[j] => i = j

\* A code was exchanged for the one server, whose callback was made before and is kept.
UsedInv ==
  used # 0 =>
    /\ callback.settled /\ callback.ours /\ used = callback.code
    /\ \E i \in 1 .. nth : Configs[i] = OAuthServer /\ (i = nth => link # "make")

IsTheDrop(u) == u.id = awaited /\ u.field = "tokens" /\ u.drop

\* Nobody but the revocation changes the record then, and it drops the tokens last.
RevokeInv ==
  /\ revoking \in {"no", "refresh", "access", "storing", "done", "failed"}
  /\ revoking # "no" => bridge \in {"failed", "closed"}
  /\ revoking \in {"no", "refresh"} => revoked = {}
  /\ revoking = "access" => revoked = {"refresh"}
  /\ revoking = "storing" => revoked = Hints
  /\ revoking = "done" => revoked \in {{}, Hints} /\ record.tokens = 0
  /\ revoking \in {"refresh", "access", "done"} => queue = <<>>
  /\ revoking = "storing" =>
       \/ queue = <<>> /\ (awaited \in lost \/ record.tokens = 0)
       \/ Len(queue) = 1 /\ IsTheDrop(queue[1])

BridgeInv == RecordInv /\ LinkInv /\ ToolsInv /\ UsedInv /\ RevokeInv

LEMMA LinkFrame ==
  ASSUME LinkInv, UNCHANGED linkVars
  PROVE  LinkInv'
BY DEF linkVars, LinkInv, LinkTyped, ConnectedOnes, OAuthConnected, Current, Attempt, Authorizing

LEMMA SameConnections ==
  ASSUME UNCHANGED connected
  PROVE  ConnectedOnes' = ConnectedOnes /\ (OAuthConnected' <=> OAuthConnected)
BY DEF ConnectedOnes, OAuthConnected

LEMMA ConfigsAreServers ==
  /\ Len(Configs) \in Nat /\ 1 <= Len(Configs)
  /\ \A i \in 1 .. Len(Configs) : Configs[i] \in Servers
<1>1. Configs \in Seq(Servers) /\ DOMAIN Configs # {}
  BY BridgeAssumption DEF Servers
<1>2. DOMAIN Configs = 1 .. Len(Configs) /\ Len(Configs) \in Nat
  BY <1>1
<1> QED
  BY <1>1, <1>2

\* The server that is being tried is none of the connected ones.
LEMMA CurrentIsNew ==
  ASSUME LinkInv, bridge = "connecting", link # "list"
  PROVE  \A i \in DOMAIN connected : connected[i][1] # Current
<1>1. Configs \in Seq(Servers) /\ \A i, j \in DOMAIN Configs : Configs[i] = Configs[j] => i = j
  BY BridgeAssumption
<1> SUFFICES ASSUME NEW i \in DOMAIN connected, connected[i][1] = Current PROVE FALSE
  OBVIOUS
<1>2. nth \in Nat /\ Len(connected) = nth - 1 /\ i \in 1 .. Len(connected) /\ i <= Len(Configs)
      /\ Configs[i] = Configs[nth] /\ nth \in 1 .. Len(Configs)
  BY DEF LinkInv, LinkTyped, Current
<1>3. i \in DOMAIN Configs /\ nth \in DOMAIN Configs /\ i < nth
  BY <1>1, <1>2
<1> QED
  BY <1>1, <1>2, <1>3

LEMMA FailStep ==
  ASSUME LinkInv, bridge = "connecting", link \notin {"make", "list"}, Fails
  PROVE  LinkInv'
<1> USE DEF LinkInv, LinkTyped
<1>1. bridge' = "undoing" /\ UNCHANGED <<nth, link, connected>>
      /\ transports' = transports \ {<<Current, Attempt>>} /\ listening' = (listening /\ Current # OAuthServer)
  BY DEF Fails
<1>2. ConnectedOnes' = ConnectedOnes /\ (OAuthConnected' <=> OAuthConnected)
  BY <1>1, SameConnections
<1>3. transports' \subseteq ConnectedOnes'
  BY <1>1, <1>2
<1>4. listening' \in BOOLEAN /\ (listening' => OAuthConnected')
  BY <1>1, <1>2
<1> QED
  BY <1>1, <1>3, <1>4 DEF Authorizing

LEMMA LinkStep ==
  ASSUME LinkInv, [BridgeNext]_bridgeVars
  PROVE  LinkInv'
<1> USE DEF LinkInv, LinkTyped
<1>0. nth \in Nat /\ 1 <= nth /\ nth <= Len(Configs) /\ Current \in Servers /\ Len(connected) \in Nat
      /\ connected \in Seq(Servers \X {1, 2})
  BY ConfigsAreServers DEF Current
<1>1. CASE UNCHANGED linkVars
  BY <1>1, LinkFrame
<1>2. CASE Begin
  <2>1. bridge = "idle" /\ bridge' = "connecting" /\ UNCHANGED <<nth, link, transports, listening, connected>>
    BY <1>2 DEF Begin
  <2>2. ConnectedOnes' = ConnectedOnes /\ (OAuthConnected' <=> OAuthConnected) /\ ConnectedOnes = {}
    BY <2>1, SameConnections DEF ConnectedOnes
  <2> QED
    BY <1>0, <2>1, <2>2 DEF Authorizing
<1>3. CASE MakeTransport
  <2>1. bridge = "connecting" /\ link = "make" /\ UNCHANGED <<nth, connected>>
    BY <1>3 DEF MakeTransport
  <2>2. /\ ConnectedOnes' = ConnectedOnes /\ (OAuthConnected' <=> OAuthConnected)
        /\ Current' = Current /\ transports = ConnectedOnes
    BY <2>1, SameConnections DEF Current
  <2>3. CASE bridge' = "undoing" /\ UNCHANGED <<link, transports, listening, callback>>
    BY <2>1, <2>2, <2>3 DEF Authorizing
  <2>4. CASE /\ link' = "connect" /\ transports' = transports \union {<<Current, 1>>} /\ UNCHANGED bridge
             /\ IF Current = OAuthServer THEN listening' = TRUE ELSE UNCHANGED listening
    <3>1. Attempt' = 1
      BY <2>4 DEF Attempt
    <3>2. listening' \in BOOLEAN /\ (listening' => OAuthConnected \/ Current = OAuthServer)
      BY <2>1, <2>4
    <3> QED
      BY <2>1, <2>2, <2>4, <3>1, <3>2 DEF Authorizing
  <2> QED
    BY <1>3, <2>3, <2>4 DEF MakeTransport
<1>4. CASE Connects
  <2>1. /\ bridge = "connecting" /\ link \in {"connect", "reconnect"} /\ link' = "list"
        /\ connected' = Append(connected, <<Current, Attempt>>)
        /\ UNCHANGED <<bridge, nth, transports, listening>>
    BY <1>4 DEF Connects, Connecting
  <2>2. <<Current, Attempt>> \in Servers \X {1, 2} /\ Len(connected) = nth - 1
    BY <1>0, <2>1 DEF Attempt
  <2>3. /\ connected' \in Seq(Servers \X {1, 2}) /\ Len(connected') = nth /\ DOMAIN connected' = 1 .. nth
        /\ DOMAIN connected = 1 .. nth - 1
    BY <1>0, <2>1, <2>2
  <2>4. /\ \A i \in DOMAIN connected : i \in DOMAIN connected' /\ connected'[i] = connected[i]
        /\ nth \in DOMAIN connected' /\ connected'[nth] = <<Current, Attempt>>
        /\ \A i \in DOMAIN connected' : i \in DOMAIN connected \/ i = nth
    BY <1>0, <2>1, <2>2, <2>3
  <2>5. \A i \in DOMAIN connected' : i <= Len(Configs) /\ connected'[i][1] = Configs[i]
    BY <1>0, <2>1, <2>4 DEF Current
  <2>6. ConnectedOnes' = ConnectedOnes \union {<<Current, Attempt>>}
    BY <2>4 DEF ConnectedOnes
  <2>7. listening => OAuthConnected'
    BY <2>1, <2>4 DEF OAuthConnected
  <2> QED
    BY <1>0, <2>1, <2>3, <2>5, <2>6, <2>7 DEF Authorizing
<1>5. CASE ConnectFails
  BY <1>5, FailStep DEF ConnectFails, Connecting
<1>6. ASSUME bridge = "connecting", bridge' = bridge, link \notin {"make", "list"}, link' \in {"await", "exchange", "storing"},
             link # "reconnect", Current = OAuthServer, UNCHANGED <<nth, transports, listening, connected>>
      PROVE  LinkInv'
  <2>1. ConnectedOnes' = ConnectedOnes /\ (OAuthConnected' <=> OAuthConnected) /\ Current' = Current /\ Attempt' = Attempt
    BY <1>6, SameConnections DEF Current, Attempt
  <2> QED
    BY <1>6, <2>1 DEF Authorizing
<1>7. CASE Unauthorized
  BY <1>6, <1>7 DEF Unauthorized, Connecting
<1>8. CASE CodeReceived
  <2>1. bridge = "connecting" /\ link = "await"
    BY <1>8 DEF CodeReceived, Connecting
  <2>2. CASE Fails
    BY <2>1, <2>2, FailStep
  <2> QED
    BY <1>6, <1>8, <2>1, <2>2 DEF CodeReceived, Authorizing
<1>9. CASE CallbackTimesOut
  BY <1>9, FailStep DEF CallbackTimesOut, Connecting
<1>10. CASE Exchange
  <2>1. bridge = "connecting" /\ link = "exchange"
    BY <1>10 DEF Exchange, Connecting
  <2>2. CASE Fails
    BY <2>1, <2>2, FailStep
  <2> QED
    BY <1>6, <1>10, <2>1, <2>2 DEF Exchange, Authorizing
<1>11. CASE Authorized
  <2>1. bridge = "connecting" /\ link = "storing"
    BY <1>11 DEF Authorized, Connecting
  <2>2. CASE Fails
    BY <2>1, <2>2, FailStep
  <2>3. CASE /\ transports' = (transports \ {<<Current, 1>>}) \union {<<Current, 2>>} /\ link' = "reconnect"
             /\ UNCHANGED <<bridge, nth, listening, connected>>
    <3>1. /\ ConnectedOnes' = ConnectedOnes /\ (OAuthConnected' <=> OAuthConnected)
          /\ Current' = Current /\ Attempt = 1 /\ Attempt' = 2
          /\ Current = OAuthServer
      BY <2>1, <2>3, SameConnections DEF Current, Attempt, Authorizing
    <3>2. <<Current, 1>> \notin ConnectedOnes
      <4>1. \A i \in DOMAIN connected : connected[i] # <<Current, 1>>
        BY <2>1, CurrentIsNew
      <4> QED
        BY <4>1 DEF ConnectedOnes
    <3>3. transports' = ConnectedOnes \union {<<Current, 2>>}
      BY <2>1, <2>3, <3>1, <3>2
    <3> QED
      BY <2>1, <2>3, <3>1, <3>3 DEF Authorizing
  <2> QED
    BY <1>11, <2>2, <2>3 DEF Authorized
<1>12. CASE ListTools
  <2>1. bridge = "connecting" /\ link = "list" /\ UNCHANGED <<transports, listening, connected>>
    BY <1>12 DEF ListTools, Connecting
  <2>2. /\ ConnectedOnes' = ConnectedOnes /\ (OAuthConnected' <=> OAuthConnected)
        /\ transports = ConnectedOnes /\ Len(connected) = nth /\ (listening => OAuthConnected)
    BY <2>1, SameConnections
  <2>3. \/ bridge' = "undoing" /\ UNCHANGED <<nth, link>>
        \/ UNCHANGED <<bridge, nth, link>>
        \/ nth = Len(Configs) /\ bridge' = "ready" /\ UNCHANGED <<nth, link>>
        \/ nth # Len(Configs) /\ nth' = nth + 1 /\ link' = "make" /\ UNCHANGED bridge
    BY <1>12 DEF ListTools
  <2>4. CASE nth # Len(Configs) /\ nth' = nth + 1 /\ link' = "make" /\ UNCHANGED bridge
    <3>1. nth' \in 1 .. Len(Configs) /\ Len(connected') = nth' - 1
      BY <1>0, <2>1, <2>2, <2>4, ConfigsAreServers
    <3> QED
      BY <2>1, <2>2, <2>4, <3>1 DEF Authorizing
  <2> QED
    BY <2>1, <2>2, <2>3, <2>4 DEF Authorizing
<1>13. CASE ListFails
  <2>1. bridge = "connecting" /\ link = "list" /\ bridge' = "undoing" /\ UNCHANGED <<nth, link, transports, listening, connected>>
    BY <1>13 DEF ListFails, Connecting
  <2> QED
    BY <2>1, SameConnections DEF Authorizing
<1>14. CASE RunEnds
  <2>1. bridge = "ready" /\ bridge' = "closing" /\ UNCHANGED <<nth, link, transports, listening, connected>>
    BY <1>14 DEF RunEnds
  <2> QED
    BY <2>1, SameConnections DEF Authorizing
<1>15. CASE CloseLast
  <2>1. bridge \in {"undoing", "closing"} /\ UNCHANGED <<nth, link>>
    BY <1>15 DEF CloseLast
  <2>2. CASE connected = <<>>
    <3>1. bridge' \in {"failed", "closed"} /\ UNCHANGED <<transports, listening, connected>>
      BY <1>15, <2>2 DEF CloseLast
    <3>2. ConnectedOnes = {} /\ ~OAuthConnected
      BY <2>2 DEF ConnectedOnes, OAuthConnected
    <3> QED
      BY <2>1, <2>2, <3>1, <3>2
  <2>3. CASE connected # <<>>
    <3> DEFINE last == connected[Len(connected)]
    <3>1. /\ transports' = transports \ {last} /\ listening' = (listening /\ last[1] # OAuthServer)
          /\ connected' = SubSeq(connected, 1, Len(connected) - 1) /\ UNCHANGED bridge
      BY <1>15, <2>3 DEF CloseLast
    <3>2. /\ connected' \in Seq(Servers \X {1, 2}) /\ Len(connected') = Len(connected) - 1
          /\ \A i \in DOMAIN connected' : i \in DOMAIN connected /\ connected'[i] = connected[i]
          /\ \A i \in DOMAIN connected : i \in DOMAIN connected' \/ i = Len(connected)
      <4> DEFINE n == Len(connected) - 1
      <4>1. n \in Int /\ n + 1 = Len(connected) /\ 0 <= n /\ n - 1 + 1 = n /\ DOMAIN connected = 1 .. Len(connected)
        BY <1>0, <2>3
      <4> HIDE DEF n
      <4>2. \A i \in 1 .. n : connected[i] \in Servers \X {1, 2} /\ i \in DOMAIN connected /\ 1 + i - 1 = i
        BY <1>0, <4>1
      <4>3. /\ SubSeq(connected, 1, n) \in Seq(Servers \X {1, 2})
            /\ Len(SubSeq(connected, 1, n)) = IF 1 <= n THEN n - 1 + 1 ELSE 0
            /\ \A i \in 1 .. n - 1 + 1 : SubSeq(connected, 1, n)[i] = connected[1 + i - 1]
        BY <4>1, <4>2, SubSeqProperties
      <4>4. Len(SubSeq(connected, 1, n)) = n
        BY <4>1, <4>3
      <4>5. connected' = SubSeq(connected, 1, n) /\ connected' \in Seq(Servers \X {1, 2}) /\ Len(connected') = n
        BY <3>1, <4>3, <4>4 DEF n
      <4>6. \A i \in 1 .. n : connected'[i] = connected[i]
        BY <4>1, <4>2, <4>3, <4>5
      <4>7. DOMAIN connected' = 1 .. n
        BY <4>5
      <4>8. \A i \in DOMAIN connected : i \in 1 .. n \/ i = Len(connected)
        BY <4>1
      <4>9. Len(connected) - 1 = n
        BY DEF n
      <4> QED
        BY <4>2, <4>5, <4>6, <4>7, <4>8, <4>9
    <3>3. transports' \subseteq ConnectedOnes'
      BY <2>1, <3>1, <3>2 DEF ConnectedOnes
    <3>4. listening' \in BOOLEAN /\ (listening' => OAuthConnected')
      BY <2>1, <3>1, <3>2 DEF OAuthConnected
    <3> QED
      BY <2>1, <3>1, <3>2, <3>3, <3>4
  <2> QED
    BY <2>2, <2>3
<1> QED
  BY <1>1, <1>2, <1>3, <1>4, <1>5, <1>7, <1>8, <1>9, <1>10, <1>11, <1>12, <1>13, <1>14, <1>15
     DEF BridgeNext, bridgeVars, CallbackReceived, SdkUpdates, InvalidateAll, Load, Save,
         RevokeStarts, Revokes, RevokeEnds

LEMMA ToolsStep ==
  ASSUME ToolsInv, LinkInv, [BridgeNext]_bridgeVars
  PROVE  ToolsInv'
<1>1. CASE UNCHANGED tools
  BY <1>1 DEF ToolsInv, ToolDefs, RiskOf
<1>2. CASE ListTools
  <2>1. PICK page \in UNION {[1 .. n -> RemoteTools] : n \in 0 .. 2} :
          LET all == tools \o [i \in DOMAIN page |-> Tool(page[i])]
              collide == \E i, j \in DOMAIN all : i # j /\ all[i] = all[j]
          IN  \/ UNCHANGED tools
              \/ ~collide /\ ~(Len(all) > MaxTools) /\ tools' = all
    BY <1>2 DEF ListTools
  <2> DEFINE more == [i \in DOMAIN page |-> Tool(page[i])]
  <2>2. PICK n \in 0 .. 2 : page \in [1 .. n -> RemoteTools]
    BY <2>1
  <2>3. \A remote \in RemoteTools : Tool(remote) \in ToolDefs
    BY ConfigsAreServers DEF Tool, ToolDefs, RiskOf, LinkInv, LinkTyped, Current
  <2>4. more \in [1 .. n -> ToolDefs]
    BY <2>2, <2>3
  <2>5. more \in Seq(ToolDefs)
    BY <2>4, n \in Nat
  <2> HIDE DEF more
  <2>6. tools \o more \in Seq(ToolDefs) /\ Len(tools \o more) \in Nat
    BY <2>5 DEF ToolsInv
  <2>7. CASE UNCHANGED tools
    BY <1>1, <2>7
  <2>8. CASE /\ tools' = tools \o more /\ ~(Len(tools \o more) > MaxTools)
             /\ ~\E i, j \in DOMAIN (tools \o more) : i # j /\ (tools \o more)[i] = (tools \o more)[j]
    <3>1. Len(tools') <= MaxTools
      BY <2>6, <2>8, BridgeAssumption
    <3> QED
      BY <2>6, <2>8, <3>1 DEF ToolsInv, ToolDefs, RiskOf
  <2> QED
    BY <2>1, <2>7, <2>8 DEF more
<1> QED
  BY <1>1, <1>2
     DEF BridgeNext, bridgeVars, linkVars, Begin, MakeTransport, Connects, ConnectFails, Unauthorized,
         CallbackReceived, CodeReceived, CallbackTimesOut, Exchange, Authorized, ListFails,
         RunEnds, CloseLast, SdkUpdates, InvalidateAll, Load, Save, Fails,
         RevokeStarts, Revokes, RevokeEnds

\* One name for each tool.
LEMMA ToolsAreDistinct ==
  ASSUME ToolsInv
  PROVE  \A i, j \in DOMAIN tools : i # j => <<tools[i].server, tools[i].remote>> # <<tools[j].server, tools[j].remote>>
<1> SUFFICES ASSUME NEW i \in DOMAIN tools, NEW j \in DOMAIN tools,
                    tools[i].server = tools[j].server, tools[i].remote = tools[j].remote
             PROVE  i = j
  OBVIOUS
<1>1. tools[i] \in ToolDefs /\ tools[j] \in ToolDefs
  BY DEF ToolsInv
<1>2. tools[i] = tools[j]
  BY <1>1 DEF ToolDefs
<1> QED
  BY <1>2 DEF ToolsInv

LEMMA UsedStep ==
  ASSUME UsedInv, LinkInv, [BridgeNext]_bridgeVars
  PROVE  UsedInv'
<1>0. nth \in Nat /\ nth \in 1 .. Len(Configs)
  BY ConfigsAreServers DEF LinkInv, LinkTyped
<1>1. CASE UNCHANGED <<callback, used, nth>> /\ (link' # "make" \/ UNCHANGED link)
  BY <1>1 DEF UsedInv
<1>2. CASE MakeTransport
  <2>1. link = "make" /\ UNCHANGED <<nth, used>>
    BY <1>2 DEF MakeTransport
  <2>2. used # 0 => Current # OAuthServer
    <3> SUFFICES ASSUME used # 0, Configs[nth] = OAuthServer PROVE FALSE
      BY DEF Current
    <3>1. PICK i \in 1 .. nth : Configs[i] = OAuthServer /\ i # nth
      BY <2>1 DEF UsedInv
    <3>2. i \in DOMAIN Configs /\ nth \in DOMAIN Configs
      BY <1>0, BridgeAssumption
    <3> QED
      BY <3>1, <3>2, BridgeAssumption
  <2>3. (link' = "connect" \/ UNCHANGED link) /\ (used # 0 => UNCHANGED callback)
    BY <1>2, <2>2 DEF MakeTransport
  <2> QED
    BY <2>1, <2>3 DEF UsedInv
<1>3. CASE CallbackReceived
  <2>1. UNCHANGED <<nth, link, used>> /\ (callback.settled => UNCHANGED callback)
    BY <1>3 DEF CallbackReceived, linkVars
  <2> QED
    BY <2>1 DEF UsedInv
<1>4. CASE CodeReceived
  <2>1. CASE UNCHANGED used
    BY <1>1, <1>4, <2>1 DEF CodeReceived, Fails
  <2>2. CASE callback.ours /\ used' = callback.code /\ link' = "exchange" /\ UNCHANGED nth
    <3>1. callback.settled /\ UNCHANGED callback /\ Configs[nth] = OAuthServer /\ nth \in 1 .. nth
      BY <1>0, <1>4 DEF CodeReceived, Connecting, LinkInv, Current, Authorizing
    <3> QED
      BY <2>2, <3>1 DEF UsedInv
  <2> QED
    BY <1>4, <2>1, <2>2 DEF CodeReceived
<1>5. CASE ListTools
  <2>1. link = "list" /\ UNCHANGED <<callback, used>>
        /\ (UNCHANGED <<nth, link>> \/ nth' = nth + 1)
    BY <1>5 DEF ListTools, Connecting, callbackVars
  <2>2. CASE nth' = nth + 1
    <3>1. \A i \in 1 .. nth : i \in 1 .. nth' /\ i # nth'
      BY <1>0, <2>2
    <3> QED
      BY <2>1, <3>1 DEF UsedInv
  <2> QED
    BY <1>1, <2>1, <2>2
<1> QED
  BY <1>1, <1>2, <1>3, <1>4, <1>5
     DEF BridgeNext, bridgeVars, linkVars, callbackVars, Begin, Connects, ConnectFails, Unauthorized,
         CallbackTimesOut, Exchange, Authorized, ListFails,
         RunEnds, CloseLast, SdkUpdates, InvalidateAll, Load, Save, Fails,
         RevokeStarts, Revokes, RevokeEnds

\* A revocation that is under way, or was made, when its part of the state is left alone.
LEMMA RevokeFrame ==
  ASSUME RevokeInv, revoking # "no" => bridge' \in {"failed", "closed"},
         UNCHANGED <<revoking, revoked, queue, awaited>>,
         lost \subseteq lost', revoking \in {"storing", "done"} => UNCHANGED record
  PROVE  RevokeInv'
BY DEF RevokeInv, IsTheDrop

LEMMA RevokeStep ==
  ASSUME RecordInv, LinkInv, RevokeInv, [BridgeNext]_bridgeVars
  PROVE  RevokeInv'
<1>1. CASE UNCHANGED <<bridge, record, queue, lost, awaited, revoking, revoked>>
  BY <1>1, RevokeFrame DEF RevokeInv
<1>2. CASE revoking = "no" /\ UNCHANGED <<revoking, revoked>>
  BY <1>2 DEF RevokeInv
<1>3. CASE revoking # "no" /\ (SdkUpdates \/ InvalidateAll)
  BY <1>3 DEF RevokeInv, LinkInv, SdkUpdates, InvalidateAll
<1>4. CASE revoking # "no" /\ \E k \in DOMAIN queue : Save(k)
  <2>1. PICK k \in DOMAIN queue : Save(k)
    BY <1>4
  <2>2. /\ queue # <<>>
        /\ queue' = SubSeq(queue, 1, 0) \o SubSeq(queue, 2, Len(queue))
        /\ \/ record' = Applied(record, queue[1])
           \/ lost' = lost \union {queue[1].id}
        /\ UNCHANGED <<bridge, awaited, revoking, revoked>>
        /\ queue \in Seq(Updates) /\ record \in Records
        /\ lost \subseteq lost'
    <3>1. /\ queue[1] \in Updates /\ queue' = SubSeq(queue, 1, 0) \o SubSeq(queue, 2, Len(queue))
          /\ \/ record' = Applied(record, queue[1])
             \/ lost' = lost \union {queue[1].id}
      BY <2>1, SaveIsOfFirst
    <3>2. UNCHANGED <<bridge, awaited, revoking, revoked>> /\ lost \subseteq lost'
      BY <2>1 DEF Save, linkVars, revokeVars
    <3>3. queue \in Seq(Updates) /\ record \in Records
      BY DEF RecordInv, RecordTyped
    <3>4. queue # <<>>
      BY <2>1, <3>3
    <3> QED
      BY <3>1, <3>2, <3>3, <3>4
  <2>3. revoking \in {"storing", "failed"}
    BY <1>4, <2>2 DEF RevokeInv
  <2>4. CASE revoking = "failed"
    BY <2>2, <2>4 DEF RevokeInv
  <2>5. CASE revoking = "storing"
    <3>1. Len(queue) = 1 /\ IsTheDrop(queue[1])
      BY <2>2, <2>5 DEF RevokeInv
    <3>2. queue' = <<>>
      <4>1. queue' \in Seq(Updates) /\ Len(queue') = Len(queue) - 1
        BY <2>2, WithoutFirst
      <4> QED
        BY <3>1, <4>1
    <3>3. awaited' \in lost' \/ record'.tokens = 0
      BY <2>2, <3>1 DEF IsTheDrop, Applied, Records, Fields
    <3> QED
      BY <2>2, <2>5, <3>2, <3>3 DEF RevokeInv
  <2> QED
    BY <2>3, <2>4, <2>5
<1>5. CASE RevokeStarts
  <2>1. /\ revoking = "no" /\ bridge \in {"failed", "closed"} /\ queue = <<>> /\ revoked = {}
        /\ UNCHANGED <<bridge, queue, record, revoked>>
        /\ \/ record.tokens = 0 /\ revoking' = "done"
           \/ revoking' \in {"failed", "refresh"}
    BY <1>5 DEF RevokeStarts, RevokeInv, linkVars, recordVars
  <2> QED
    BY <2>1 DEF RevokeInv
<1>6. CASE Revokes
  <2>1. revoking \in Hints /\ bridge \in {"failed", "closed"} /\ UNCHANGED bridge /\ queue = <<>>
    BY <1>6 DEF Revokes, RevokeInv, Hints, linkVars
  <2>2. CASE revoking' = "failed"
    BY <2>1, <2>2 DEF RevokeInv
  <2>3. CASE /\ revoking = "refresh" /\ revoked' = revoked \union {revoking} /\ revoking' = "access" /\ UNCHANGED queue
    BY <2>1, <2>3 DEF RevokeInv
  <2>4. CASE /\ revoking = "access" /\ revoked' = revoked \union {revoking} /\ Queued("tokens", TRUE)
             /\ awaited' = issued' /\ revoking' = "storing"
    <3>1. revoked' = Hints
      BY <2>4 DEF RevokeInv, Hints
    <3>2. queue' = Append(<<>>, [id |-> issued', field |-> "tokens", drop |-> TRUE])
      BY <2>1, <2>4 DEF Queued
    <3>3. Len(queue') = 1 /\ queue'[1] = [id |-> issued', field |-> "tokens", drop |-> TRUE]
      BY <3>2
    <3> QED
      BY <2>1, <2>4, <3>1, <3>3 DEF RevokeInv, IsTheDrop
  <2> QED
    BY <1>6, <2>1, <2>2, <2>3, <2>4 DEF Revokes, Hints
<1>7. CASE RevokeEnds
  <2>1. /\ revoking = "storing" /\ ~Waits(awaited) /\ revoked = Hints
        /\ revoking' \in {"done", "failed"} /\ (revoking' = "done" => awaited \notin lost)
        /\ UNCHANGED <<bridge, queue, record, revoked>> /\ bridge \in {"failed", "closed"}
    BY <1>7 DEF RevokeEnds, RevokeInv, Done, linkVars, recordVars
  <2>2. ~(Len(queue) = 1 /\ IsTheDrop(queue[1]))
    <3>1. queue \in Seq(Updates)
      BY DEF RecordInv, RecordTyped
    <3> QED
      BY <2>1, <3>1 DEF Waits, IsTheDrop
  <2>3. queue = <<>> /\ (revoking' = "done" => record.tokens = 0)
    BY <2>1, <2>2 DEF RevokeInv
  <2> QED
    BY <2>1, <2>3 DEF RevokeInv
<1>8. CASE revoking # "no" /\ \E k \in DOMAIN queue : Load(k)
  <2>1. UNCHANGED <<bridge, record, queue, lost, awaited, revoking, revoked>>
    BY <1>8 DEF Load, linkVars, revokeVars
  <2> QED
    BY <1>1, <2>1
<1>9. CASE revoking # "no" /\ bridge \notin {"failed", "closed"}
  BY <1>9 DEF RevokeInv
<1>10. ASSUME Begin \/ MakeTransport \/ Connects \/ ConnectFails \/ Unauthorized \/ CodeReceived
              \/ CallbackTimesOut \/ Exchange \/ Authorized \/ ListTools \/ ListFails \/ RunEnds \/ CloseLast
       PROVE  bridge \notin {"failed", "closed"} /\ UNCHANGED <<revoking, revoked>>
  BY <1>10 DEF Begin, MakeTransport, Connects, ConnectFails, Unauthorized, CodeReceived,
     CallbackTimesOut,
       Exchange, Authorized, ListTools, ListFails, RunEnds, CloseLast, Connecting, revokeVars
<1>11. CASE CallbackReceived
  BY <1>1, <1>11 DEF CallbackReceived, linkVars, recordVars, revokeVars
<1>12. ASSUME SdkUpdates \/ InvalidateAll \/ \E k \in DOMAIN queue : Load(k) \/ Save(k)
       PROVE  UNCHANGED <<revoking, revoked>>
  BY <1>12 DEF SdkUpdates, InvalidateAll, Load, Save, revokeVars
<1> QED
  BY <1>1, <1>2, <1>3, <1>4, <1>5, <1>6, <1>7, <1>8, <1>9, <1>10, <1>11, <1>12
     DEF BridgeNext, bridgeVars, linkVars, recordVars, revokeVars

\* Connections that failed or ended leave nothing open and those that are ready are all
\* there; the code that is exchanged came with this provider's state; no overlap of updates
\* loses one that was reported as done; and a revocation that ended well revoked both tokens
\* and left none.  For any servers, tools and bounds.
THEOREM BridgeIsSoundCorrect == BridgeSpec => []BridgeIsSound
<1>1. BridgeInit => BridgeInv
  <2> SUFFICES ASSUME BridgeInit PROVE BridgeInv
    OBVIOUS
  <2>1. Empty \in Records /\ Registered \in Records /\ NotLoaded \in Records
    <3>1. Empty \in Records /\ Earlier \in Nat
      BY BridgeAssumption DEF Empty, Records, Earlier
    <3>2. Registered \in Records
      BY <3>1 DEF Registered, Records
    <3> QED
      BY <3>1, <3>2, BridgeAssumption DEF Records, NotLoaded
  <2>2. RecordInv
    BY <2>1, BridgeAssumption DEF BridgeInit, RecordInv, RecordTyped, QueueInOrder
  <2>3. LinkInv
    <3>1. LinkTyped
      <4>1. <<>> \in Seq(Servers \X {1, 2}) /\ 1 \in 1 .. Len(Configs)
        BY ConfigsAreServers
      <4> QED
        BY <4>1 DEF BridgeInit, LinkTyped
    <3>2. connected = <<>> /\ bridge = "idle"
      BY DEF BridgeInit
    <3>3. DOMAIN connected = {}
      BY <3>2
    <3> QED
      BY <3>1, <3>2, <3>3 DEF BridgeInit, LinkInv
  <2>4. ToolsInv
    BY BridgeAssumption DEF BridgeInit, ToolsInv
  <2> QED
    BY <2>2, <2>3, <2>4 DEF BridgeInit, BridgeInv, UsedInv, RevokeInv
<1>2. BridgeInv /\ [BridgeNext]_bridgeVars => BridgeInv'
  BY RecordStep, LinkStep, ToolsStep, UsedStep, RevokeStep DEF BridgeInv
<1>3. BridgeInv => BridgeIsSound
  <2> SUFFICES ASSUME BridgeInv PROVE BridgeIsSound
    OBVIOUS
  <2>1. bridge = "ready" => [i \in DOMAIN connected |-> connected[i][1]] = Configs
    <3> SUFFICES ASSUME bridge = "ready" PROVE [i \in DOMAIN connected |-> connected[i][1]] = Configs
      OBVIOUS
    <3>1. /\ connected \in Seq(Servers \X {1, 2}) /\ Len(connected) = Len(Configs)
          /\ \A i \in DOMAIN connected : connected[i][1] = Configs[i]
      BY DEF BridgeInv, LinkInv, LinkTyped
    <3>2. DOMAIN connected = DOMAIN Configs /\ Configs = [i \in DOMAIN Configs |-> Configs[i]]
      BY <3>1, BridgeAssumption
    <3> QED
      BY <3>1, <3>2
  <2> QED
    BY <2>1, ToolsAreDistinct
       DEF BridgeInv, BridgeIsSound, RecordInv, RecordTyped, LinkInv, ConnectedOnes, ToolsInv, UsedInv, RevokeInv, Hints
<1> QED
  BY <1>1, <1>2, <1>3, PTL DEF BridgeSpec

-----------------------------------------------------------------------------
(* Plans.                                                                  *)

PlanTask == [id : PlanIds, sources : (SUBSET SourceIds) \union {Absent}, mentions : SUBSET SourceIds,
             owned : SUBSET OwnedPaths]

\* The tasks compilePlan makes of the plan.
DefinitionOf == [i \in 1 .. Len(plan) + 1 |-> IF i <= Len(plan) THEN Worker(i) ELSE Integrator]

PlanTyped ==
  /\ planMode \in {"research", "code"}
  /\ planStep \in {"asking", "parsed", "covered", "assigned", "reviewed", "compiled", "failed"}
  /\ selected \in Seq(SourceIds) /\ plan \in Seq(PlanTask)

\* What holds of a plan once it was parsed, covers the sources, was approved, was compiled.
PlanParsed ==
  planStep \in {"parsed", "covered", "assigned", "reviewed", "compiled"} =>
    /\ Len(plan) >= 1 /\ UniqueIds(plan)
    /\ planMode = "code" => Disjoint(plan)

SourcesCovered ==
  /\ planStep \in {"covered", "assigned"} => planMode = "research"
  /\ planMode = "research" /\ planStep \in {"covered", "assigned", "reviewed", "compiled"} /\ selected # <<>> =>
       /\ AllSources(plan) = Elements(selected)
       /\ \A i \in DOMAIN plan : SharedSources \subseteq PlannedSources(plan[i])
  /\ planMode = "research" /\ planStep \in {"assigned", "reviewed", "compiled"} => Assignable

PlanCompiled ==
  /\ planStep \in {"reviewed", "compiled"} => reviewed = plan
  /\ planStep = "compiled" => definition = DefinitionOf /\ UniqueIds(definition)

PlansInv == PlanTyped /\ PlanParsed /\ SourcesCovered /\ PlanCompiled

LEMMA WiderSeq ==
  ASSUME NEW A, NEW B, A \subseteq B, NEW s \in Seq(A)
  PROVE  s \in Seq(B)
  OBVIOUS

\* Two claims that overlap nowhere have no file in common.
LEMMA DisjointClaims ==
  ASSUME NEW p \in OwnedPaths, NEW q \in OwnedPaths, NEW f \in Files, ~Overlaps(p, q),
         (~p.dir /\ p.segments = f) \/ (p.dir /\ Under(p, f)),
         (~q.dir /\ q.segments = f) \/ (q.dir /\ Under(q, f))
  PROVE  FALSE
<1> DEFINE S == Elements(p.segments) \union Elements(q.segments) \union Elements(f)
<1>1. p.segments \in Seq(S) /\ q.segments \in Seq(S) /\ f \in Seq(S)
      /\ Len(p.segments) > 0 /\ Len(q.segments) > 0
  <2>1. /\ p.segments \in Seq(Elements(p.segments)) /\ q.segments \in Seq(Elements(q.segments))
        /\ f \in Seq(Elements(f)) /\ Len(p.segments) > 0 /\ Len(q.segments) > 0
    BY PlanAssumption, Zenon
  <2>2. Elements(p.segments) \subseteq S /\ Elements(q.segments) \subseteq S /\ Elements(f) \subseteq S
    OBVIOUS
  <2> HIDE DEF S
  <2> QED
    BY <2>1, <2>2, WiderSeq
<1>2. Len(p.segments) \in Nat /\ Len(q.segments) \in Nat /\ Len(f) \in Nat
  BY <1>1
<1> HIDE DEF S
<1>3. CASE ~p.dir \/ ~q.dir
  BY <1>3 DEF Overlaps
<1>4. ASSUME NEW a \in Seq(S), NEW b \in Seq(S), Len(a) <= Len(b), Len(b) < Len(f),
             SubSeq(f, 1, Len(a)) = a, SubSeq(f, 1, Len(b)) = b
      PROVE  SubSeq(b, 1, Len(a)) = a
  <2> DEFINE new == SubSeq(b, 1, Len(a))
  <2>1. Len(a) \in Nat /\ Len(b) \in Nat
    OBVIOUS
  <2>2. new \in Seq(S) /\ Len(new) = Len(a) /\ \A i \in 1 .. Len(a) : new[i] = b[i]
    BY <1>4, <2>1, SubSeqProperties
  <2>3. \A i \in 1 .. Len(a) : a[i] = f[i]
    BY <1>1, <1>4, <2>1, SubSeqProperties
  <2>4. \A i \in 1 .. Len(b) : b[i] = f[i]
    BY <1>1, <1>4, <2>1, SubSeqProperties
  <2>5. \A i \in 1 .. Len(a) : new[i] = a[i]
    BY <1>4, <2>1, <2>2, <2>3, <2>4
  <2> HIDE DEF new
  <2> QED
    BY <2>2, <2>5, SeqEqual
<1>5. CASE p.dir /\ q.dir
  <2>1. /\ Len(p.segments) < Len(f) /\ SubSeq(f, 1, Len(p.segments)) = p.segments
        /\ Len(q.segments) < Len(f) /\ SubSeq(f, 1, Len(q.segments)) = q.segments
    BY <1>2, <1>5 DEF Under
  <2>2. CASE Len(p.segments) = Len(q.segments)
    BY <2>1, <2>2 DEF Overlaps
  <2>3. CASE Len(p.segments) < Len(q.segments)
    <3>1. SubSeq(q.segments, 1, Len(p.segments)) = p.segments
      BY <1>1, <1>2, <1>4, <2>1, <2>3
    <3> QED
      BY <1>5, <1>2, <2>3, <3>1 DEF Overlaps, Under
  <2>4. CASE Len(q.segments) < Len(p.segments)
    <3>1. SubSeq(p.segments, 1, Len(q.segments)) = q.segments
      BY <1>1, <1>2, <1>4, <2>1, <2>4
    <3> QED
      BY <1>5, <1>2, <2>4, <3>1 DEF Overlaps, Under
  <2> QED
    BY <1>2, <2>2, <2>3, <2>4
<1> QED
  BY <1>3, <1>5, PlanAssumption, Zenon

\* The answers of the model are sequences of tasks.
LEMMA AnswersTyped ==
  ASSUME NEW tasks \in Answers
  PROVE  tasks \in Seq(PlanTask)
<1>1. ASSUME NEW t \in ResearchTasks PROVE t \in PlanTask
  BY <1>1 DEF ResearchTasks, PlanTask
<1>2. ASSUME NEW t \in CodingTasks PROVE t \in PlanTask
  BY <1>2 DEF CodingTasks, PlanTask
<1>3. PICK n \in 0 .. MaxWorkerTasks + 1 : tasks \in [1 .. n -> IF planMode = "code" THEN CodingTasks ELSE ResearchTasks]
  BY DEF Answers
<1>4. n \in Nat
  <2>1. MaxWorkerTasks \in Nat
    BY PlanAssumption, Zenon
  <2> QED
    BY <2>1
<1>5. \A i \in 1 .. n : tasks[i] \in PlanTask
  <2>1. CASE planMode = "code"
    BY <1>2, <1>3, <2>1
  <2>2. CASE planMode # "code"
    BY <1>1, <1>3, <2>2
  <2> QED
    BY <2>1, <2>2
<1>6. tasks \in [1 .. n -> PlanTask]
  BY <1>3, <1>5
<1> QED
  BY <1>4, <1>6

\* Going round, the omitted sources all find a task.
LEMMA EachIsGiven ==
  ASSUME selected \in Seq(SourceIds), NEW tasks, Len(tasks) \in Nat, Len(tasks) >= 1, NEW k \in Omitted(tasks)
  PROVE  \E i \in 1 .. Len(tasks) : selected[k] \in Given(tasks, i)
<1> DEFINE before == {j \in Omitted(tasks) : j < k}
           n == Cardinality(before)
           m == Len(tasks)
<1>1. before \subseteq 1 .. Len(selected) /\ Len(selected) \in Nat
  BY DEF Omitted
<1>2. IsFiniteSet(1 .. Len(selected))
  BY <1>1, FS_Interval
<1>3. n \in Nat
  BY <1>1, <1>2, FS_Subset, FS_CardinalityType
<1> HIDE DEF before
<1>4. n % m \in 0 .. m - 1
  <2> HIDE DEF n, m
  <2>1. m \in Nat \ {0}
    BY DEF m
  <2> QED
    BY <1>3, <2>1
<1>5. (n % m) + 1 \in 1 .. m /\ n % m = ((n % m) + 1) - 1
  <2> HIDE DEF n
  <2> QED
    BY <1>4
<1>6. selected[k] \in Given(tasks, (n % m) + 1)
  BY <1>5 DEF Given, before
<1> QED
  BY <1>5, <1>6

\* The plan the coverage makes of the parsed one.
LEMMA CoveringCovers ==
  ASSUME PlansInv, Covered, planStep' = "covered", selected # <<>>
  PROVE  /\ plan' \in Seq(PlanTask) /\ Len(plan') = Len(plan)
         /\ \A i \in 1 .. Len(plan) : plan'[i].id = plan[i].id /\ plan'[i].owned = plan[i].owned
         /\ AllSources(plan') = Elements(selected)
         /\ \A i \in DOMAIN plan' : SharedSources \subseteq PlannedSources(plan'[i])
<1> DEFINE n == Len(plan)
           All(i) == PlannedSources(plan[i]) \union SharedSources \union Given(plan, i)
<1>1. /\ selected \in Seq(SourceIds) /\ plan \in Seq(PlanTask) /\ n \in Nat /\ n >= 1 /\ DOMAIN plan = 1 .. n
      /\ \A i \in 1 .. n : plan[i] \in PlanTask
  BY DEF PlansInv, PlanTyped, PlanParsed, Covered
<1>2. /\ AllSources(plan) \subseteq Elements(selected)
      /\ plan' = [i \in 1 .. n |-> [plan[i] EXCEPT !.sources = All(i)]]
  BY <1>1 DEF Covered
<1>3. Elements(selected) \subseteq SourceIds
  BY <1>1 DEF Elements
<1>4. ASSUME NEW i \in 1 .. n PROVE All(i) \subseteq Elements(selected)
  <2>1. PlannedSources(plan[i]) \subseteq AllSources(plan)
    BY <1>1 DEF AllSources
  <2>2. Given(plan, i) \subseteq Elements(selected)
    BY DEF Given, Omitted, Elements
  <2> QED
    BY <1>2, <2>1, <2>2 DEF SharedSources
<1>5. ASSUME NEW i \in 1 .. n
      PROVE  /\ plan'[i] \in PlanTask /\ plan'[i].id = plan[i].id /\ plan'[i].owned = plan[i].owned
             /\ PlannedSources(plan'[i]) = All(i)
  <2>1. All(i) \in SUBSET SourceIds /\ All(i) # Absent
    BY <1>3, <1>4, PlanAssumption, Zenon DEF Absent
  <2>2. plan'[i] = [plan[i] EXCEPT !.sources = All(i)] /\ plan[i] \in PlanTask
    BY <1>1, <1>2
  <2> HIDE DEF All
  <2>3. plan'[i] \in PlanTask /\ plan'[i].id = plan[i].id /\ plan'[i].owned = plan[i].owned
        /\ plan'[i].sources = All(i)
    BY <2>1, <2>2 DEF PlanTask
  <2> QED
    BY <2>1, <2>3 DEF PlannedSources
<1>6. plan' \in Seq(PlanTask) /\ Len(plan') = n /\ DOMAIN plan' = 1 .. n
  <2>1. DOMAIN plan' = 1 .. n /\ plan' = [i \in 1 .. n |-> plan'[i]]
    BY <1>2
  <2>2. plan' \in [1 .. n -> PlanTask]
    BY <1>5, <2>1
  <2> HIDE DEF n
  <2> QED
    BY <1>1, <2>1, <2>2
<1>7. AllSources(plan') \subseteq Elements(selected)
  <2> HIDE DEF All
  <2> QED
    BY <1>4, <1>5, <1>6 DEF AllSources
<1>8. Elements(selected) \subseteq AllSources(plan')
  <2> SUFFICES ASSUME NEW k \in DOMAIN selected PROVE selected[k] \in AllSources(plan')
    BY DEF Elements
  <2>1. PICK i \in 1 .. n : selected[k] \in All(i)
    <3>1. CASE selected[k] \in AllSources(plan)
      BY <1>1, <3>1 DEF AllSources
    <3>2. CASE selected[k] \in SharedSources
      BY <1>1, <3>2
    <3>3. CASE selected[k] \notin AllSources(plan) \union SharedSources
      <4>1. k \in Omitted(plan)
        BY <3>3 DEF Omitted
      <4>2. PICK i \in 1 .. n : selected[k] \in Given(plan, i)
        BY <1>1, <4>1, EachIsGiven
      <4> QED
        BY <4>2
    <3> QED
      BY <3>1, <3>2, <3>3
  <2> HIDE DEF All
  <2> QED
    BY <1>5, <1>6, <2>1 DEF AllSources
<1>9. \A i \in DOMAIN plan' : SharedSources \subseteq PlannedSources(plan'[i])
  BY <1>5, <1>6
<1> QED
  BY <1>5, <1>6, <1>7, <1>8, <1>9

LEMMA PlanStepInv ==
  ASSUME PlansInv, [PlanNext]_planVars
  PROVE  PlansInv'
<1> USE DEF PlansInv, PlanTyped, PlanParsed, SourcesCovered, PlanCompiled
<1>1. CASE UNCHANGED planVars
  BY <1>1 DEF planVars, UniqueIds, Disjoint, AllSources, PlannedSources, SharedSources,
     Assignable, DefinitionOf,
       Worker, Integrator, Visible
<1>2. CASE Planned
  <2>1. PICK tasks \in Answers : Parses(tasks) /\ plan' = tasks
    BY <1>2 DEF Planned
  <2>2. tasks \in Seq(PlanTask) /\ Len(tasks) >= 1 /\ UniqueIds(tasks) /\ (planMode = "code" => Disjoint(tasks))
    <3>1. MaxWorkerTasks \in Nat
      BY PlanAssumption, Zenon
    <3>2. tasks \in Seq(PlanTask)
      BY AnswersTyped
    <3>3. Len(tasks) \in 1 .. MaxWorkerTasks
      BY <2>1 DEF Parses
    <3> QED
      BY <2>1, <3>1, <3>2, <3>3 DEF Parses
  <2>3. planStep = "asking" /\ planStep' = "parsed" /\ UNCHANGED <<planMode, selected, repairs, reviewed, definition>>
    BY <1>2 DEF Planned
  <2> QED
    BY <2>1, <2>2, <2>3
<1>3. CASE Refused
  BY <1>3 DEF Refused
<1>4. CASE Covered
  <2>1. /\ planStep = "parsed" /\ planMode = "research" /\ planStep' \in {"covered", "failed"}
        /\ UNCHANGED <<planMode, selected, repairs, reviewed, definition>>
    BY <1>4 DEF Covered
  <2>2. CASE planStep' = "failed" \/ selected = <<>>
    <3>1. plan' = plan
      BY <1>4, <2>2 DEF Covered
    <3> QED
      BY <2>1, <2>2, <3>1
  <2>3. CASE planStep' = "covered" /\ selected # <<>>
    <3>1. /\ plan' \in Seq(PlanTask) /\ Len(plan') = Len(plan)
          /\ \A i \in 1 .. Len(plan) : plan'[i].id = plan[i].id /\ plan'[i].owned = plan[i].owned
          /\ AllSources(plan') = Elements(selected)
          /\ \A i \in DOMAIN plan' : SharedSources \subseteq PlannedSources(plan'[i])
      BY <1>4, <2>3, CoveringCovers
    <3>2. DOMAIN plan = 1 .. Len(plan) /\ DOMAIN plan' = 1 .. Len(plan)
      BY <3>1
    <3>3. UniqueIds(plan')
      BY <2>1, <3>1, <3>2 DEF UniqueIds
    <3>4. SharedSources' = SharedSources
      BY <2>1 DEF SharedSources
    <3> QED
      BY <2>1, <2>3, <3>1, <3>3, <3>4
  <2> QED
    BY <2>1, <2>2, <2>3
<1>5. CASE Assigned
  <2>1. planStep = "covered" /\ planStep' \in {"assigned", "failed"} /\ (planStep' = "assigned" => Assignable)
        /\ UNCHANGED <<planMode, selected, repairs, plan, reviewed, definition>>
    BY <1>5 DEF Assigned
  <2>2. (planStep' = "assigned" => Assignable') /\ SharedSources' = SharedSources
    BY <2>1 DEF Assignable, SharedSources
  <2> QED
    BY <2>1, <2>2
<1>6. CASE Reviewed
  <2>1. /\ planStep = (IF planMode = "code" THEN "parsed" ELSE "assigned") /\ planStep' = "reviewed"
        /\ reviewed' = plan /\ UNCHANGED <<planMode, selected, repairs, plan, definition>>
    BY <1>6 DEF Reviewed
  <2>2. (Assignable => Assignable') /\ SharedSources' = SharedSources
    BY <2>1 DEF Assignable, SharedSources
  <2> QED
    BY <2>1, <2>2
<1>7. CASE Rejected
  BY <1>7 DEF Rejected
<1>8. CASE Compiled
  <2>1. /\ planStep = "reviewed" /\ planStep' \in {"compiled", "failed"}
        /\ UNCHANGED <<planMode, selected, repairs, plan, reviewed>>
        /\ planStep' = "compiled" => definition' = DefinitionOf /\ UniqueIds(definition')
    BY <1>8 DEF Compiled, DefinitionOf, Accepts
  <2>2. DefinitionOf' = DefinitionOf
    BY <2>1 DEF DefinitionOf, Worker, Integrator, Visible
  <2>3. (Assignable => Assignable') /\ SharedSources' = SharedSources
    BY <2>1 DEF Assignable, SharedSources
  <2> QED
    BY <2>1, <2>2, <2>3
<1> QED
  BY <1>1, <1>2, <1>3, <1>4, <1>5, <1>6, <1>7, <1>8 DEF PlanNext

LEMMA PlansStart ==
  ASSUME PlanInit
  PROVE  PlansInv
<1>1. selected \in Seq(SourceIds)
  <2>1. CASE planMode = "research"
    <3>1. selected \in Selections
      BY <2>1 DEF PlanInit
    <3> QED
      BY <3>1, PlanAssumption, Zenon
  <2>2. CASE planMode # "research"
    BY <2>2 DEF PlanInit
  <2> QED
    BY <2>1, <2>2
<1>2. plan \in Seq(PlanTask)
  BY DEF PlanInit
<1> QED
  BY <1>1, <1>2 DEF PlanInit, PlansInv, PlanTyped, PlanParsed, SourcesCovered, PlanCompiled

\* A plan that is compiled: its workers and its integrator.
LEMMA CompiledIsSound ==
  ASSUME PlansInv
  PROVE  PlansAreSound
<1> SUFFICES ASSUME planStep = "compiled"
             PROVE  LET n == Len(plan) IN
        /\ reviewed = plan /\ Len(definition) = n + 1
        /\ planMode = "code" =>
             \A i, j \in 1 .. n : i # j => \A f \in Files : ~(MayChange(plan[i], f) /\ MayChange(plan[j], f))
        /\ planMode = "research" =>
             /\ UNION {definition[i].reads : i \in 1 .. n} = Elements(selected)
             /\ \A i \in 1 .. n : SharedSources \subseteq definition[i].reads
        /\ \A i, j \in DOMAIN definition : i # j =>
             definition[i].agent # definition[j].agent /\ definition[i].id # definition[j].id
        /\ {i \in DOMAIN definition : definition[i].publishes} = {n + 1}
        /\ definition[n + 1].needs = {definition[i].id : i \in 1 .. n}
  BY DEF PlansAreSound
<1> DEFINE n == Len(plan)
<1>1. /\ plan \in Seq(PlanTask) /\ n \in Nat /\ n >= 1 /\ DOMAIN plan = 1 .. n /\ reviewed = plan
      /\ definition = DefinitionOf /\ UniqueIds(definition) /\ (planMode = "code" => Disjoint(plan))
  BY DEF PlansInv, PlanTyped, PlanParsed, PlanCompiled
<1>2. /\ DOMAIN definition = 1 .. n + 1 /\ Len(definition) = n + 1 /\ definition[n + 1] = Integrator
      /\ \A i \in 1 .. n : definition[i] = Worker(i)
  <2>1. definition = [i \in 1 .. n + 1 |-> IF i <= n THEN Worker(i) ELSE Integrator]
    BY <1>1 DEF DefinitionOf
  <2> HIDE DEF n
  <2> QED
    BY <1>1, <2>1
<1> HIDE DEF n
<1>3. \A i \in 1 .. n + 1 : i \in 1 .. n \/ i = n + 1
  BY <1>1
<1>4. ASSUME planMode = "code", NEW i \in 1 .. n, NEW j \in 1 .. n, i < j, NEW f \in Files,
             MayChange(plan[i], f), MayChange(plan[j], f)
      PROVE  FALSE
  <2>1. PICK p \in plan[i].owned : (~p.dir /\ p.segments = f) \/ (p.dir /\ Under(p, f))
    BY <1>4 DEF MayChange
  <2>2. PICK q \in plan[j].owned : (~q.dir /\ q.segments = f) \/ (q.dir /\ Under(q, f))
    BY <1>4 DEF MayChange
  <2>3. plan[i] \in PlanTask /\ plan[j] \in PlanTask
    BY <1>1
  <2>4. p \in OwnedPaths /\ q \in OwnedPaths
    BY <2>3 DEF PlanTask
  <2>5. ~Overlaps(p, q)
    BY <1>1, <1>4 DEF Disjoint
  <2> QED
    BY <2>1, <2>2, <2>4, <2>5, DisjointClaims
<1>5. planMode = "code" =>
        \A i, j \in 1 .. n : i # j => \A f \in Files : ~(MayChange(plan[i], f) /\ MayChange(plan[j], f))
  BY <1>1, <1>4
<1>6. \A i \in 1 .. n : /\ definition[i].reads = Visible(plan[i]) /\ definition[i].agent = i
                       /\ ~definition[i].publishes /\ definition[i].id = plan[i].id
  <2> SUFFICES ASSUME NEW i \in 1 .. n
               PROVE  /\ definition[i].reads = Visible(plan[i]) /\ definition[i].agent = i
                      /\ ~definition[i].publishes /\ definition[i].id = plan[i].id
    OBVIOUS
  <2>1. definition[i] = Worker(i)
    BY <1>2
  <2>2. /\ Worker(i).reads = Visible(plan[i]) /\ Worker(i).agent = i
        /\ ~Worker(i).publishes /\ Worker(i).id = plan[i].id
    BY DEF Worker
  <2> QED
    BY <2>1, <2>2
<1>7. ASSUME planMode = "research"
      PROVE  /\ UNION {definition[i].reads : i \in 1 .. n} = Elements(selected)
             /\ \A i \in 1 .. n : SharedSources \subseteq definition[i].reads
  <2>1. Assignable /\ (selected # <<>> => \A i \in 1 .. n : SharedSources \subseteq PlannedSources(plan[i]))
    BY <1>1, <1>7 DEF PlansInv, SourcesCovered
  <2>2. CASE AllSources(plan) = {}
    <3>1. \A i \in 1 .. n : definition[i].reads = Elements(selected)
      BY <1>6, <2>2 DEF Visible
    <3> QED
      BY <1>1, <3>1 DEF SharedSources
  <2>3. CASE AllSources(plan) # {}
    <3>1. AllSources(plan) = Elements(selected) /\ selected # <<>>
      BY <2>1, <2>3 DEF Assignable, Elements
    <3>2. \A i \in 1 .. n : definition[i].reads = PlannedSources(plan[i])
      BY <1>6, <2>3 DEF Visible
    <3>3. AllSources(plan) = UNION {definition[i].reads : i \in 1 .. n}
      BY <1>1, <3>2 DEF AllSources
    <3> QED
      BY <2>1, <3>1, <3>2, <3>3
  <2> QED
    BY <2>2, <2>3
<1>8. \A i, j \in DOMAIN definition : i # j =>
        definition[i].agent # definition[j].agent /\ definition[i].id # definition[j].id
  <2>1. \A i \in 1 .. n : definition[i].agent = i
    BY <1>6
  <2>2. definition[n + 1].agent = 0
    BY <1>2 DEF Integrator
  <2>3. \A i, j \in 1 .. n + 1 : i # j => definition[i].agent # definition[j].agent
    BY <1>1, <1>3, <2>1, <2>2
  <2> QED
    BY <1>1, <1>2, <2>3 DEF UniqueIds
<1>9. {i \in DOMAIN definition : definition[i].publishes} = {n + 1}
  <2>1. \A i \in 1 .. n : ~definition[i].publishes
    BY <1>6
  <2>2. definition[n + 1].publishes /\ n + 1 \in 1 .. n + 1
    BY <1>1, <1>2 DEF Integrator
  <2> QED
    BY <1>2, <1>3, <2>1, <2>2
<1>10. definition[n + 1].needs = {definition[i].id : i \in 1 .. n}
  <2>1. \A i \in 1 .. n : definition[i].id = plan[i].id
    BY <1>6
  <2>2. definition[n + 1].needs = {plan[i].id : i \in 1 .. n}
    BY <1>1, <1>2 DEF Integrator
  <2> QED
    BY <2>1, <2>2
<1> QED
  BY <1>1, <1>2, <1>5, <1>7, <1>8, <1>9, <1>10 DEF n

\* The Run the scheduler is given is the plan that was approved, whatever the model
\* answers, the sources and the claimed paths: no two tasks may change one file, the
\* selected sources are all read and no other, lists of sources by every task, and one
\* task publishes after all others.
THEOREM PlansAreSoundCorrect == PlanSpec => []PlansAreSound
  BY PlansStart, PlanStepInv, CompiledIsSound, PTL DEF PlanSpec

\* A plan that the coverage of a selection let through is never refused by the
\* assignment of its sources: each omitted source found a task to read it.
CoveringSuffices == planStep = "covered" /\ selected # <<>> => Assignable

\* So it is for any plan and selection.
THEOREM CoveringSufficesCorrect == PlanSpec => []CoveringSuffices
<1>1. PlansInv => CoveringSuffices
  BY DEF PlansInv, SourcesCovered, CoveringSuffices, Assignable
<1> QED
  BY <1>1, PlansStart, PlanStepInv, PTL DEF PlanSpec
=============================================================================
