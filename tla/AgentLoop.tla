----------------------------- MODULE AgentLoop -----------------------------
(***************************************************************************)
(* src/src/agent-loop.ts: AgentLoopExecutor.execute of one task, with the  *)
(* ToolRuntime it calls, the checkpoint it saves and the journal of its    *)
(* tools, across any number of crashes and resumes.                        *)
(*                                                                         *)
(* The durable state is checkpoint and receipts (and the world the tools   *)
(* change); everything else is lost when the process stops.  Each action   *)
(* is the code from one await to the next, so the process may stop between *)
(* any two.                                                                *)
(***************************************************************************)
EXTENDS ToolJournal, SequencesExt, Functions

CONSTANTS
  ArtifactCalls,      \* calls of a final artifact tool
  Unavailable,        \* calls of a tool the task may not use
  Prompted,           \* calls the approval policy asks the user about
  MaxTurns,           \* maxTurns: the turns of one execution
  MaxReviews,         \* MAX_ARTIFACT_REVIEW_REVISIONS
  MaxCalls,           \* bound: the calls in one answer of the model
  MaxResumes          \* bound: how often the user resumes the Run

ASSUME AgentLoopAssumption ==
  /\ ArtifactCalls \subseteq Writes
  /\ Unavailable \subseteq Calls /\ Prompted \subseteq Calls
  /\ MaxTurns \in Nat \ {0} /\ MaxReviews \in Nat \ {0}
  /\ MaxCalls \in Nat \ {0} /\ MaxResumes \in Nat

VARIABLES
  checkpoint,         \* tasks/<taskId>.json, or NoCheckpoint
  executions,         \* [Calls -> Nat]: how often tool.execute was entered
  pc,                 \* where the process stands
  mind,               \* the loop's phase, turn, messages, pending calls, cursor
  result,             \* the outcome of the call in hand
  turnLimit,
  reviews,            \* artifactReviewRevisions
  resumes

durable == <<checkpoint, receipts, executions>>
volatile == <<mind, result, turnLimit, reviews>>
vars == <<durable, pc, volatile, resumes>>

-----------------------------------------------------------------------------
(* Messages.                                                               *)

Outcomes == Results \cup {"denied"}

Asks(calls) == [role |-> "assistant", calls |-> calls]
Says == [role |-> "assistant", calls |-> <<>>]
Answer(c, r) == [role |-> "tool", call |-> c, outcome |-> r]

Messages == [role : {"assistant"}, calls : Seq(Calls)]
              \cup [role : {"tool"}, call : Calls, outcome : Outcomes]

\* The task may use a final artifact tool.
MakesArtifact == ArtifactCalls \ Unavailable # {}

\* artifactCallIds: the ids under which the history asks for an artifact tool.
ArtifactIds(messages) ==
  {CallId[c] : c \in {d \in ArtifactCalls :
                        \E m \in Range(messages) : m.role = "assistant" /\ d \in Range(m.calls)}}

ArtifactAnswer(messages, m) == m.role = "tool" /\ CallId[m.call] \in ArtifactIds(messages)

\* countArtifactReviewRevisions.
ReviewCount(messages) ==
  Cardinality({i \in DOMAIN messages :
                 ArtifactAnswer(messages, messages[i]) /\ messages[i].outcome = "revise"})

\* successfulArtifactWriteOutput # undefined.
ArtifactWritten(messages) ==
  \E m \in Range(messages) : ArtifactAnswer(messages, m) /\ m.outcome = "ok"

-----------------------------------------------------------------------------
(* Checkpoints.                                                            *)

Phases == {"ready_for_model", "model_inflight", "tool_inflight", "succeeded"}
NoCheckpoint == [phase |-> "none"]
Minds == [phase : Phases, turn : Nat, messages : Seq(Messages), pending : Seq(Calls), next : Nat]

Fresh == [phase |-> "ready_for_model", turn |-> 0, messages |-> <<>>, pending |-> <<>>, next |-> 0]

\* assertCompatibleTaskUpdate.
Compatible(old, new) ==
  \/ old = NoCheckpoint
  \/ /\ old.phase = "succeeded" => new.phase = "succeeded"
     /\ old.turn <= new.turn
     /\ IsPrefix(old.messages, new.messages)

\* The call at the cursor.
Cursor(m) == m.pending[m.next + 1]
CallPending(m) == m.phase = "tool_inflight" /\ m.next < Len(m.pending)

\* inspectTaskRecovery: only the receipt of the call at the cursor can be ambiguous.
ResumeAvailable ==
  checkpoint # NoCheckpoint /\ CallPending(checkpoint)
    => ~AmbiguousReceipt(Cursor(checkpoint))


-----------------------------------------------------------------------------
(* The process.                                                            *)

Active == {"load", "saving", "loop", "tool", "start", "execute", "complete", "push", "model",
           "returning"}
Halted == {"done", "stopped", "blocked"}

Init ==
  /\ JournalInit
  /\ checkpoint = NoCheckpoint
  /\ executions = [c \in Calls |-> 0]
  /\ pc = "load" /\ resumes = 0
  /\ mind = Fresh /\ result = "ok" /\ turnLimit = 0 /\ reviews = 0

\* The process ends, or an await rejects and the task has failed: a retry starts
\* from the files.
Stop ==
  /\ pc' = "stopped"
  /\ mind' = Fresh /\ result' = "ok" /\ turnLimit' = 0 /\ reviews' = 0

Interrupt ==
  /\ pc \in Active
  /\ Stop
  /\ UNCHANGED <<durable, resumes>>

\* The user resumes the Run.  Nothing changes a blocked one.
Resume ==
  /\ pc = "stopped" /\ resumes < MaxResumes
  /\ resumes' = resumes + 1
  /\ pc' = IF ResumeAvailable THEN "load" ELSE "blocked"
  /\ UNCHANGED <<durable, volatile>>

ContinueFromForgetsReviews(saved) ==            \* mutant: the budget starts anew
  /\ reviews' = 0
  /\ turnLimit' = saved.turn + MaxTurns
  /\ mind' = saved
  /\ pc' = "loop"
  /\ UNCHANGED result

ContinueFromForgetsCursor(saved) ==             \* mutant: the cursor is not restored
  /\ reviews' = ReviewCount(saved.messages)
  /\ turnLimit' = saved.turn + MaxTurns
  /\ mind' = [saved EXCEPT !.next = 0]
  /\ pc' = "loop"
  /\ UNCHANGED result

\* A checkpoint that is not yet "succeeded" is continued, unless its reviews are
\* used up; one whose artifact is already written has only to say so.
ContinueFrom(saved) ==
  IF ReviewCount(saved.messages) >= MaxReviews
  THEN Stop
  ELSE /\ reviews' = ReviewCount(saved.messages)
       /\ turnLimit' = saved.turn + MaxTurns
       /\ IF saved.phase # "tool_inflight" /\ MakesArtifact /\ ArtifactWritten(saved.messages)
          THEN mind' = [saved EXCEPT !.phase = "succeeded"] /\ pc' = "saving"
          ELSE mind' = saved /\ pc' = "loop"
       /\ UNCHANGED result

\* Its output is returned; a scheduler that restores it does not even call.
LoadSucceeded ==
  /\ pc = "load" /\ checkpoint.phase = "succeeded"
  /\ pc' = "returning"
  /\ UNCHANGED <<durable, volatile, resumes>>

LoadCheckpoint ==
  /\ pc = "load" /\ checkpoint.phase \notin {"none", "succeeded"}
  /\ ContinueFrom(checkpoint)
  /\ UNCHANGED <<durable, resumes>>

LoadNothing ==
  /\ pc = "load" /\ checkpoint = NoCheckpoint
  /\ mind' = Fresh /\ turnLimit' = MaxTurns
  /\ pc' = "saving"
  /\ UNCHANGED <<durable, result, reviews, resumes>>

\* Where execute goes on, by the phase it has saved.
Onward == CASE mind.phase = "succeeded" -> "returning"
            [] mind.phase = "model_inflight" -> "model"
            [] OTHER -> "loop"

\* What execute does once its save has returned.  An artifact the reviewer sent
\* back is counted, and the last one allowed ends the task.
RejectedByReviewer ==
  /\ mind.phase = "tool_inflight" /\ mind.next > 0
  /\ mind.pending[mind.next] \in ArtifactCalls /\ result = "revise"

AfterSave ==
  IF RejectedByReviewer
  THEN IF reviews + 1 >= MaxReviews
       THEN Stop
       ELSE reviews' = reviews + 1 /\ pc' = "loop" /\ UNCHANGED <<mind, result, turnLimit>>
  ELSE pc' = Onward /\ UNCHANGED volatile

\* saveTask: the file is replaced as a whole, or the save is refused.
SaveCheckpoint ==
  /\ pc = "saving"
  /\ IF Compatible(checkpoint, mind)
     THEN checkpoint' = mind /\ AfterSave
     ELSE Stop /\ UNCHANGED checkpoint
  /\ UNCHANGED <<receipts, executions, resumes>>

\* The scheduler has recorded the output.
Return ==
  /\ pc = "returning"
  /\ pc' = "done"
  /\ UNCHANGED <<durable, volatile, resumes>>

-----------------------------------------------------------------------------
(* The loop.                                                               *)

TurnsLeft == mind.turn < turnLimit

Exhausted ==
  /\ pc = "loop" /\ ~TurnsLeft
  /\ Stop
  /\ UNCHANGED <<durable, resumes>>

AskModel ==
  /\ pc = "loop" /\ TurnsLeft /\ mind.phase # "tool_inflight"
  /\ mind' = [mind EXCEPT !.phase = "model_inflight"]
  /\ pc' = "saving"
  /\ UNCHANGED <<durable, result, turnLimit, reviews, resumes>>

ModelAsksForTools ==
  /\ pc = "model"
  /\ \E calls \in SeqOf(Calls, MaxCalls) \ {<<>>} :
       mind' = [mind EXCEPT !.phase = "tool_inflight", !.pending = calls, !.next = 0,
                            !.messages = Append(@, Asks(calls))]
  /\ pc' = "saving"
  /\ UNCHANGED <<durable, result, turnLimit, reviews, resumes>>

\* A task that owes an artifact may not end with words.
AnswerAccepted == MakesArtifact => ArtifactWritten(mind.messages)

\* Any other answer without a call throws (Interrupt).
ModelAnswers ==
  /\ pc = "model" /\ AnswerAccepted
  /\ mind' = [mind EXCEPT !.phase = "succeeded", !.turn = @ + 1, !.messages = Append(@, Says)]
  /\ pc' = "saving"
  /\ UNCHANGED <<durable, result, turnLimit, reviews, resumes>>

NextTool ==
  /\ pc = "loop" /\ TurnsLeft /\ CallPending(mind)
  /\ pc' = "tool"
  /\ UNCHANGED <<durable, volatile, resumes>>

EndOfTools ==
  /\ pc = "loop" /\ TurnsLeft /\ mind.phase = "tool_inflight" /\ ~CallPending(mind)
  /\ mind' = [mind EXCEPT !.turn = @ + 1, !.pending = <<>>, !.next = 0,
                !.phase = IF MakesArtifact /\ ArtifactWritten(mind.messages)
                          THEN "succeeded" ELSE "ready_for_model"]
  /\ pc' = "saving"
  /\ UNCHANGED <<durable, result, turnLimit, reviews, resumes>>

-----------------------------------------------------------------------------
(* ToolRuntime.execute of the call at the cursor.                          *)

InHand == Cursor(mind)

DenyLeavesReceipt ==                            \* mutant: a refusal is journaled as well
  /\ pc = "tool" /\ InHand \in Unavailable \cup Prompted
  /\ WriteCompleted(InHand, "denied")
  /\ result' = "denied" /\ pc' = "push"
  /\ UNCHANGED <<checkpoint, executions, mind, turnLimit, reviews, resumes>>

\* The tool is unknown to the task, or the policy or the user refuses it.
Deny ==
  /\ pc = "tool" /\ InHand \in Unavailable \cup Prompted
  /\ result' = "denied" /\ pc' = "push"
  /\ UNCHANGED <<durable, mind, turnLimit, reviews, resumes>>

Approve ==
  /\ pc = "tool" /\ InHand \notin Unavailable
  /\ pc' = "start"
  /\ UNCHANGED <<durable, volatile, resumes>>

BeginCall ==
  /\ pc = "start" /\ Receipt(InHand) = NoReceipt
  /\ WriteStarted(InHand)
  /\ pc' = "execute"
  /\ UNCHANGED <<checkpoint, executions, volatile, resumes>>

\* tool.reused.
ReuseResult ==
  /\ pc = "start" /\ ReceiptOf(InHand) /\ Receipt(InHand).status = "completed"
  /\ result' = Receipt(InHand).result
  /\ pc' = "push"
  /\ UNCHANGED <<durable, mind, turnLimit, reviews, resumes>>

\* Without an effect a started call is simply made again.
RetryCall ==
  /\ pc = "start" /\ ReceiptOf(InHand) /\ Receipt(InHand).status = "started"
  /\ InHand \notin Writes
  /\ pc' = "execute"
  /\ UNCHANGED <<durable, volatile, resumes>>

RefuseCallAgain ==                              \* mutant: a refused call is tried again
  /\ pc = "start" /\ (IF ReceiptOfAnother(InHand) THEN TRUE ELSE Ambiguous(InHand))
  /\ pc' = "tool"
  /\ UNCHANGED <<durable, volatile, resumes>>

\* "tool journal identity changed", or UnsafeToolRecoveryError.
RefuseCall ==
  /\ pc = "start" /\ (IF ReceiptOfAnother(InHand) THEN TRUE ELSE Ambiguous(InHand))
  /\ Stop
  /\ UNCHANGED <<durable, resumes>>

\* Only a final artifact tool passes by the reviewer.
ToolResults(c) == IF c \in ArtifactCalls THEN Results ELSE Results \ {"revise"}

ExecuteTool ==
  /\ pc = "execute"
  /\ executions' = [executions EXCEPT ![InHand] = @ + 1]
  /\ result' \in ToolResults(InHand)
  /\ pc' = "complete"
  /\ UNCHANGED <<checkpoint, receipts, mind, turnLimit, reviews, resumes>>

CompleteCall ==
  /\ pc = "complete" /\ Receipt(InHand) = Started(InHand)
  /\ WriteCompleted(InHand, result)
  /\ pc' = "push"
  /\ UNCHANGED <<checkpoint, executions, volatile, resumes>>

Push ==
  /\ pc = "push"
  /\ mind' = [mind EXCEPT !.messages = Append(@, Answer(InHand, result)), !.next = @ + 1]
  /\ pc' = "saving"
  /\ UNCHANGED <<durable, result, turnLimit, reviews, resumes>>

-----------------------------------------------------------------------------
Load == LoadSucceeded \/ LoadCheckpoint \/ LoadNothing \/ Return
Turn == Exhausted \/ AskModel \/ ModelAsksForTools \/ ModelAnswers \/ NextTool \/ EndOfTools
RunTool == Deny \/ Approve \/ BeginCall \/ ReuseResult \/ RetryCall \/ RefuseCall
             \/ ExecuteTool \/ CompleteCall \/ Push

Work == Load \/ SaveCheckpoint \/ Turn \/ RunTool

Next == Work \/ Interrupt \/ Resume

Spec == Init /\ [][Next]_vars

\* Every await of a living process settles: a file operation ends, the
\* HTTP client gives up on a silent model, a question to the user has a timeout.
FairSpec == Spec /\ WF_vars(Work)

-----------------------------------------------------------------------------
(* Properties.                                                             *)

TypeOK ==
  /\ receipts \in [Ids -> Receipts]
  /\ checkpoint \in Minds \cup {NoCheckpoint}
  /\ executions \in [Calls -> Nat]
  /\ pc \in Active \cup Halted
  /\ mind \in Minds
  /\ result \in Outcomes
  /\ turnLimit \in Nat /\ reviews \in Nat
  /\ resumes \in 0..MaxResumes

\* The effect of a writing or executing call happens at most once, wherever the
\* process stops and however often the Run is resumed (ToolRuntime.execute and
\* the journal around it).
WriteAtMostOnce == \A c \in Writes : executions[c] <= 1

\* What the saved conversation says a tool answered is what its receipt says;
\* only a refusal has no receipt.
HistoryMatchesReceipts ==
  checkpoint # NoCheckpoint =>
    \A m \in Range(checkpoint.messages) :
      m.role = "tool" /\ m.outcome # "denied" => Receipt(m.call) = Completed(m.call, m.outcome)

\* The calls of the request at i are answered one by one in their order.
AnsweredTo(messages, i) ==
  LET calls == messages[i].calls
      given == (DOMAIN messages) \cap (i + 1)..(i + Len(calls)) IN
  \A j \in given : messages[j].role = "tool" /\ messages[j].call = calls[j - i]

\* Every request is answered in full, but for the one in flight, which is answered
\* up to the cursor; and no answer stands alone.
WellFormed(m) ==
  LET messages == m.messages
      asks == {i \in DOMAIN messages : messages[i].role = "assistant"}
      inFlight == Len(messages) - m.next IN
  /\ \A i \in asks :
       /\ AnsweredTo(messages, i)
       /\ i + Len(messages[i].calls) > Len(messages) => m.phase = "tool_inflight" /\ i = inFlight
  /\ \A j \in DOMAIN messages \ asks : \E i \in asks : j - i \in 1..Len(messages[i].calls)
  /\ IF m.phase = "tool_inflight"
     THEN inFlight \in asks /\ messages[inFlight].calls = m.pending /\ m.next <= Len(m.pending)
     ELSE m.pending = <<>>

\* The saved conversation is one a provider accepts: no answer is lost,
\* repeated or out of order over any crash (the tool_inflight cursor).
ConversationWellFormed == checkpoint # NoCheckpoint => WellFormed(checkpoint)

\* The loop never asks the store for an update it refuses: the turn never moves
\* back and the history is never rewritten, through any crash and resume
\* (assertCompatibleTaskUpdate would fail the task).
SaveNeverRefused == pc = "saving" => Compatible(checkpoint, mind)

\* The inspection before a resume is exact: a resumed task never comes upon a
\* call whose effect is in doubt (UnsafeToolRecoveryError is never thrown).
InspectionIsExact == pc = "start" => ~Ambiguous(InHand)

\* What a stop leaves on disk is enough to go on from: the conversation is one a
\* provider accepts and says what the receipts say, the inspection tells exactly
\* whether a resume is safe, and the resumed task's saves are accepted.
CheckpointsAreSound ==
  HistoryMatchesReceipts /\ ConversationWellFormed /\ SaveNeverRefused /\ InspectionIsExact

\* Once the reviewer has sent back MaxReviews candidates, the task asks no model
\* and runs no tool any more, in this execution or a later one.
ReviewBudget ==
  pc \in {"loop", "tool", "start", "execute", "complete", "push", "model"} =>
    ReviewCount(mind.messages) < MaxReviews

\* An execution takes at most MaxTurns turns, counting what it resumed from.
TurnBudget ==
  checkpoint # NoCheckpoint => checkpoint.turn <= MaxTurns * (resumes + 1)

\* A task that may write a final artifact only succeeds once a call of such a
\* tool succeeded (the write gate).
SuccessHasArtifact ==
  checkpoint.phase = "succeeded" /\ MakesArtifact =>
    \E c \in ArtifactCalls : Receipt(c) = Completed(c, "ok")

\* Over an execution and its resumes: no more turns and reviews than allowed, and
\* no success without the artifact.
BudgetsHold == TurnBudget /\ ReviewBudget /\ SuccessHasArtifact

\* An execution ends: by success, by an error or by the turn budget.
Ends == []<>(pc \in Halted)
=============================================================================
