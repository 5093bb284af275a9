-------------------------- MODULE AgentLoop_proofs --------------------------
(***************************************************************************)
(* Proofs about AgentLoop, for every set of calls, every numbering of them *)
(* and every number of turns, reviews and resumes.                         *)
(***************************************************************************)
EXTENDS AgentLoop, SequenceTheorems, FiniteSetTheorems, TLAPS

ToolPcs == {"tool", "start", "execute", "complete", "push"}

\* The count of rejected candidates is a number: the history is finite.
LEMMA ReviewCountType ==
  ASSUME NEW messages \in Seq(Messages)
  PROVE  ReviewCount(messages) \in Nat
<1> DEFINE D == {i \in DOMAIN messages :
                   ArtifactAnswer(messages, messages[i]) /\ messages[i].outcome = "revise"}
<1>1. IsFiniteSet(1..Len(messages))
  BY FS_Interval
<1>2. D \subseteq 1..Len(messages)
  OBVIOUS
<1>3. IsFiniteSet(D)
  BY <1>1, <1>2, FS_Subset
<1> QED
  BY <1>3, FS_CardinalityType DEF ReviewCount

\* The call at the cursor is one of the calls.
LEMMA CursorType ==
  ASSUME NEW m \in Minds, CallPending(m)
  PROVE  Cursor(m) \in Calls
<1>1. m.pending \in Seq(Calls) /\ m.next \in Nat /\ m.next + 1 \in 1..Len(m.pending)
  BY DEF Minds, CallPending
<1> QED
  BY <1>1 DEF Cursor

\* What a model asks for is a turn of its own.
LEMMA AnswersType ==
  ASSUME NEW calls \in SeqOf(Calls, MaxCalls), calls # <<>>
  PROVE  calls \in Seq(Calls) /\ Len(calls) > 0
<1>1. PICK n \in 0..MaxCalls : calls \in [1..n -> Calls]
  BY DEF SeqOf
<1>2. n \in Nat
  BY <1>1, AgentLoopAssumption
<1>3. calls \in Seq(Calls)
  BY <1>1, <1>2
<1> QED
  BY <1>3

\* The fields of the loop's state.
LEMMA MindFields ==
  ASSUME NEW m \in Minds
  PROVE  /\ m.phase \in Phases /\ m.turn \in Nat /\ m.next \in Nat
         /\ m.messages \in Seq(Messages) /\ m.pending \in Seq(Calls)
  BY DEF Minds

\* A loop that has just begun has a mind of the right type.
LEMMA FreshType == Fresh \in Minds
  BY DEF Fresh, Minds, Phases

-----------------------------------------------------------------------------
(* Types.                                                                  *)

\* While a call is worked on the cursor points at it, and what completes it is
\* an answer of the tool.
CallInHand ==
  /\ pc \in ToolPcs => CallPending(mind)
  /\ pc = "complete" => result \in Results

TypeInv == TypeOK /\ CallInHand

\* The call that is being run is one of the calls.
LEMMA InHandType == TypeInv /\ pc \in ToolPcs => InHand \in Calls
  BY CursorType DEF TypeInv, TypeOK, CallInHand, InHand

\* A process that ends keeps the types.
LEMMA StopType ==
  ASSUME TypeInv, Stop, UNCHANGED <<durable, resumes>>
  PROVE  TypeInv'
<1>1. mind' \in Minds
  BY FreshType DEF Stop
<1>2. pc' = "stopped" /\ result' \in Outcomes /\ turnLimit' \in Nat /\ reviews' \in Nat
  BY DEF Stop, Outcomes, Results
<1> QED
  BY <1>1, <1>2 DEF TypeInv, TypeOK, CallInHand, ToolPcs, Halted, durable

\* Reading the checkpoint keeps the types.
LEMMA LoadType ==
  ASSUME TypeInv, Load
  PROVE  TypeInv'
<1>1. CASE LoadSucceeded
  BY <1>1 DEF LoadSucceeded, TypeInv, TypeOK, CallInHand, ToolPcs, Active, durable, volatile
<1>2. CASE LoadCheckpoint
  <2>1. checkpoint \in Minds /\ checkpoint.messages \in Seq(Messages) /\ checkpoint.turn \in Nat
    BY <1>2 DEF LoadCheckpoint, TypeInv, TypeOK, NoCheckpoint, Minds
  <2>2. ReviewCount(checkpoint.messages) \in Nat
    BY <2>1, ReviewCountType
  <2>3. CASE Stop
    BY <1>2, <2>3, StopType DEF LoadCheckpoint
  <2>4. CASE ~Stop
    <3>1. /\ reviews' \in Nat
          /\ turnLimit' \in Nat
          /\ pc' \in {"saving", "loop"}
          /\ result' = result
      BY <1>2, <2>1, <2>2, <2>4, AgentLoopAssumption DEF LoadCheckpoint, ContinueFrom
    <3>2. [checkpoint EXCEPT !.phase = "succeeded"] \in Minds
      BY <2>1 DEF Minds, Phases
    <3>3. mind' \in Minds
      BY <1>2, <2>1, <2>4, <3>2 DEF LoadCheckpoint, ContinueFrom
    <3> QED
      BY <1>2, <3>1, <3>3
      DEF LoadCheckpoint, TypeInv, TypeOK, CallInHand, ToolPcs, Active, durable
  <2> QED
    BY <2>3, <2>4
<1>3. CASE LoadNothing
  BY <1>3, FreshType, AgentLoopAssumption
  DEF LoadNothing, TypeInv, TypeOK, CallInHand, ToolPcs, Active, durable
<1>4. CASE Return
  BY <1>4 DEF Return, TypeInv, TypeOK, CallInHand, ToolPcs, Halted, durable, volatile
<1> QED
  BY <1>1, <1>2, <1>3, <1>4 DEF Load

\* Writing the checkpoint keeps the types.
LEMMA SaveType ==
  ASSUME TypeInv, SaveCheckpoint
  PROVE  TypeInv'
<1>1. checkpoint' \in Minds \cup {NoCheckpoint}
  BY DEF SaveCheckpoint, TypeInv, TypeOK
<1>2. UNCHANGED <<receipts, executions, resumes>>
  BY DEF SaveCheckpoint
<1>3. CASE Stop
  <2>1. mind' \in Minds
    BY <1>3, FreshType DEF Stop
  <2> QED
    BY <1>1, <1>2, <1>3, <2>1
    DEF Stop, TypeInv, TypeOK, CallInHand, ToolPcs, Halted, Outcomes, Results
<1>4. CASE ~Stop
  <2>1. AfterSave
    BY <1>4 DEF SaveCheckpoint
  <2>2. pc' \in {"loop", "model", "returning"} /\ reviews' \in Nat
        /\ UNCHANGED <<mind, result, turnLimit>>
    BY <1>4, <2>1 DEF AfterSave, Onward, volatile, TypeInv, TypeOK
  <2> QED
    BY <1>1, <1>2, <2>2 DEF TypeInv, TypeOK, CallInHand, ToolPcs, Active
<1> QED
  BY <1>3, <1>4

\* A turn of the model keeps the types.
LEMMA TurnType ==
  ASSUME TypeInv, Turn
  PROVE  TypeInv'
<1>1. CASE Exhausted
  BY <1>1, StopType DEF Exhausted
<1>2. CASE AskModel
  <2>1. mind' \in Minds
    BY <1>2 DEF AskModel, TypeInv, TypeOK, Minds, Phases
  <2> QED
    BY <1>2, <2>1 DEF AskModel, TypeInv, TypeOK, CallInHand, ToolPcs, Active, durable
<1>3. CASE ModelAsksForTools
  <2>1. PICK calls \in SeqOf(Calls, MaxCalls) \ {<<>>} :
          mind' = [mind EXCEPT !.phase = "tool_inflight", !.pending = calls, !.next = 0,
                               !.messages = Append(@, Asks(calls))]
    BY <1>3 DEF ModelAsksForTools
  <2>2. calls \in Seq(Calls)
    BY AnswersType
  <2>3. Asks(calls) \in Messages
    BY <2>2 DEF Asks, Messages
  <2>4. Append(mind.messages, Asks(calls)) \in Seq(Messages)
    BY <2>3 DEF TypeInv, TypeOK, Minds
  <2>5. mind' \in Minds
    BY <2>1, <2>2, <2>4 DEF TypeInv, TypeOK, Minds, Phases
  <2> QED
    BY <1>3, <2>5 DEF ModelAsksForTools, TypeInv, TypeOK, CallInHand, ToolPcs, Active, durable
<1>4. CASE ModelAnswers
  <2>1. Says \in Messages
    BY DEF Says, Messages
  <2>2. Append(mind.messages, Says) \in Seq(Messages)
    BY <2>1 DEF TypeInv, TypeOK, Minds
  <2>3. mind \in Minds /\ mind.turn + 1 \in Nat /\ "succeeded" \in Phases
    BY MindFields DEF TypeInv, TypeOK, Phases
  <2> DEFINE h == Append(mind.messages, Says)
             t == mind.turn + 1
  <2>4. mind' = [mind EXCEPT !.phase = "succeeded", !.turn = t, !.messages = h]
    BY <1>4 DEF ModelAnswers
  <2>5. h \in Seq(Messages) /\ t \in Nat
    BY <2>2, <2>3
  <2> HIDE DEF h, t
  <2>6. mind' \in Minds
    BY <2>3, <2>4, <2>5 DEF Minds
  <2> QED
    BY <1>4, <2>6 DEF ModelAnswers, TypeInv, TypeOK, CallInHand, ToolPcs, Active, durable
<1>5. CASE NextTool
  BY <1>5 DEF NextTool, TypeInv, TypeOK, CallInHand, ToolPcs, Active, durable, volatile
<1>6. CASE EndOfTools
  <2> DEFINE p == IF MakesArtifact /\ ArtifactWritten(mind.messages)
                  THEN "succeeded" ELSE "ready_for_model"
             t == mind.turn + 1
  <2>2. mind' = [mind EXCEPT !.turn = t, !.pending = <<>>, !.next = 0, !.phase = p]
    BY <1>6 DEF EndOfTools
  <2>3. mind \in Minds /\ t \in Nat /\ p \in Phases /\ <<>> \in Seq(Calls)
    BY MindFields DEF TypeInv, TypeOK, Phases
  <2> HIDE DEF p, t
  <2>1. mind' \in Minds
    BY <2>2, <2>3 DEF Minds
  <2> QED
    BY <1>6, <2>1 DEF EndOfTools, TypeInv, TypeOK, CallInHand, ToolPcs, Active, durable
<1> QED
  BY <1>1, <1>2, <1>3, <1>4, <1>5, <1>6 DEF Turn

\* A step of a tool call keeps the types.
LEMMA ToolType ==
  ASSUME TypeInv, RunTool
  PROVE  TypeInv'
<1>1. pc \in ToolPcs
  BY DEF RunTool, ToolPcs, Deny, Approve, BeginCall, ReuseResult, RetryCall, RefuseCall,
         ExecuteTool, CompleteCall, Push
<1>2. InHand \in Calls /\ CallPending(mind)
  BY <1>1, InHandType DEF TypeInv, CallInHand
<1>3. CallId[InHand] \in Ids /\ Receipt(InHand) \in Receipts
  BY <1>2, JournalAssumption DEF TypeInv, TypeOK, Receipt
<1>4. CASE Deny
  BY <1>2, <1>4 DEF Deny, TypeInv, TypeOK, CallInHand, ToolPcs, Active, Outcomes, durable
<1>5. CASE Approve
  BY <1>2, <1>5 DEF Approve, TypeInv, TypeOK, CallInHand, ToolPcs, Active, durable, volatile
<1>6. CASE BeginCall
  <2>1. Started(InHand) \in Receipts
    BY <1>2 DEF Started, Receipts
  <2>2. receipts' \in [Ids -> Receipts]
    BY <1>3, <1>6, <2>1 DEF BeginCall, WriteStarted, TypeInv, TypeOK
  <2> QED
    BY <1>2, <1>6, <2>2 DEF BeginCall, TypeInv, TypeOK, CallInHand, ToolPcs, Active, volatile
<1>7. CASE ReuseResult
  <2>1. result' \in Outcomes
    BY <1>3, <1>7 DEF ReuseResult, Receipts, Outcomes
  <2> QED
    BY <1>2, <1>7, <2>1 DEF ReuseResult, TypeInv, TypeOK, CallInHand, ToolPcs, Active, durable
<1>8. CASE RetryCall
  BY <1>2, <1>8 DEF RetryCall, TypeInv, TypeOK, CallInHand, ToolPcs, Active, durable, volatile
<1>9. CASE RefuseCall
  BY <1>9, StopType DEF RefuseCall
<1>10. CASE ExecuteTool
  <2>1. executions' \in [Calls -> Nat]
    BY <1>2, <1>10 DEF ExecuteTool, TypeInv, TypeOK
  <2>2. result' \in Results
    BY <1>10 DEF ExecuteTool, ToolResults
  <2> QED
    BY <1>2, <1>10, <2>1, <2>2
    DEF ExecuteTool, TypeInv, TypeOK, CallInHand, ToolPcs, Active, Outcomes
<1>11. CASE CompleteCall
  <2>1. result \in Results
    BY <1>11 DEF CompleteCall, TypeInv, CallInHand
  <2>2. Completed(InHand, result) \in Receipts
    BY <1>2, <2>1 DEF Completed, Receipts
  <2>3. receipts' \in [Ids -> Receipts]
    BY <1>3, <1>11, <2>2 DEF CompleteCall, WriteCompleted, TypeInv, TypeOK
  <2> QED
    BY <1>2, <1>11, <2>3 DEF CompleteCall, TypeInv, TypeOK, CallInHand, ToolPcs, Active, volatile
<1>12. CASE Push
  <2>1. Answer(InHand, result) \in Messages
    BY <1>2 DEF Answer, Messages, TypeInv, TypeOK
  <2>2. Append(mind.messages, Answer(InHand, result)) \in Seq(Messages)
    BY <2>1 DEF TypeInv, TypeOK, Minds
  <2> DEFINE h == Append(mind.messages, Answer(InHand, result))
             n == mind.next + 1
  <2>4. mind' = [mind EXCEPT !.messages = h, !.next = n]
    BY <1>12 DEF Push
  <2>5. mind \in Minds /\ h \in Seq(Messages) /\ n \in Nat
    BY <2>2, MindFields DEF TypeInv, TypeOK
  <2> HIDE DEF h, n
  <2>3. mind' \in Minds
    BY <2>4, <2>5 DEF Minds
  <2> QED
    BY <1>12, <2>3 DEF Push, TypeInv, TypeOK, CallInHand, ToolPcs, Active, durable
<1> QED
  BY <1>4, <1>5, <1>6, <1>7, <1>8, <1>9, <1>10, <1>11, <1>12 DEF RunTool

\* A new process keeps the types.
LEMMA ResumeType ==
  ASSUME TypeInv, Resume
  PROVE  TypeInv'
<1>1. resumes' \in 0..MaxResumes
  BY AgentLoopAssumption DEF Resume, TypeInv, TypeOK
<1> QED
  BY <1>1 DEF Resume, TypeInv, TypeOK, CallInHand, ToolPcs, Active, Halted, durable, volatile

\* The loop, the checkpoint and the receipts keep their types, and a call in
\* hand is a call of the turn in flight.
THEOREM TypeInvCorrect == Spec => []TypeInv
<1>1. Init => TypeInv
  <2> SUFFICES ASSUME Init PROVE TypeInv
    OBVIOUS
  <2>1. receipts \in [Ids -> Receipts]
    BY DEF Init, JournalInit, NoReceipt, Receipts
  <2> QED
    BY <2>1, FreshType, AgentLoopAssumption
    DEF Init, TypeInv, TypeOK, CallInHand, ToolPcs, Active, Outcomes, Results
<1>2. TypeInv /\ [Next]_vars => TypeInv'
  <2> SUFFICES ASSUME TypeInv, [Next]_vars PROVE TypeInv'
    OBVIOUS
  <2>1. CASE Interrupt
    BY <2>1, StopType DEF Interrupt
  <2>2. CASE UNCHANGED vars
    BY <2>2 DEF vars, durable, volatile, TypeInv, TypeOK, CallInHand
  <2> QED
    BY <2>1, <2>2, LoadType, SaveType, TurnType, ToolType, ResumeType DEF Next, Work
<1> QED
  BY <1>1, <1>2, PTL DEF Spec

\* Every variable keeps its type.
THEOREM TypeCorrect == Spec => []TypeOK
<1>1. TypeInv => TypeOK
  BY DEF TypeInv
<1> QED
  BY <1>1, TypeInvCorrect, PTL

-----------------------------------------------------------------------------
(* A writing call takes effect at most once.                               *)

\* What was ever executed left a receipt that names it, and a call about to be
\* executed has its receipt and, if it writes, has not been executed.
EffectsLeaveReceipts == \A c \in Calls : executions[c] > 0 => ReceiptOf(c)

ExecutesNew ==
  pc = "execute" => ReceiptOf(InHand) /\ (InHand \in Writes => executions[InHand] = 0)

WriteInv == EffectsLeaveReceipts /\ ExecutesNew /\ WriteAtMostOnce

\* A step that neither executes nor touches the receipts, and is not about to.
LEMMA WriteFrame ==
  ASSUME WriteInv, UNCHANGED <<receipts, executions>>, pc' # "execute"
  PROVE  WriteInv'
  BY DEF WriteInv, EffectsLeaveReceipts, ExecutesNew, WriteAtMostOnce, ReceiptOf, Receipt

\* Every step keeps the writes of the workspace counted.
LEMMA WriteStep ==
  ASSUME TypeInv, WriteInv, [Next]_vars
  PROVE  WriteInv'
<1>1. CASE Load
  <2>1. pc' # "execute" /\ UNCHANGED <<receipts, executions>>
    BY <1>1 DEF Load, LoadSucceeded, LoadCheckpoint, LoadNothing, Return, ContinueFrom, Stop,
                durable
  <2> QED
    BY <2>1, WriteFrame
<1>2. CASE SaveCheckpoint
  <2>1. pc' # "execute" /\ UNCHANGED <<receipts, executions>>
    BY <1>2 DEF SaveCheckpoint, AfterSave, Onward, Stop
  <2> QED
    BY <2>1, WriteFrame
<1>3. CASE Turn
  <2>1. pc' # "execute" /\ UNCHANGED <<receipts, executions>>
    BY <1>3 DEF Turn, Exhausted, AskModel, ModelAsksForTools, ModelAnswers, NextTool,
                EndOfTools, Stop, durable
  <2> QED
    BY <2>1, WriteFrame
<1>4. CASE Deny \/ Approve \/ ReuseResult \/ RefuseCall \/ Push
  <2>1. pc' # "execute" /\ UNCHANGED <<receipts, executions>>
    BY <1>4 DEF Deny, Approve, ReuseResult, RefuseCall, Push, Stop, durable
  <2> QED
    BY <2>1, WriteFrame
<1>5. CASE BeginCall
  <2>1. InHand \in Calls /\ CallId[InHand] \in Ids
    BY <1>5, InHandType, JournalAssumption DEF BeginCall, ToolPcs
  <2>2. receipts \in [Ids -> Receipts] /\ CallId \in [Calls -> Ids] /\ executions \in [Calls -> Nat]
    BY JournalAssumption DEF TypeInv, TypeOK
  <2>3. receipts' = [receipts EXCEPT ![CallId[InHand]] = Started(InHand)]
        /\ UNCHANGED <<executions, mind>> /\ receipts[CallId[InHand]].status = "none"
    BY <1>5 DEF BeginCall, WriteStarted, volatile, Receipt, NoReceipt
  <2>4. ASSUME NEW c \in Calls, executions[c] > 0
        PROVE  CallId[c] # CallId[InHand] /\ ReceiptOf(c)'
    <3>1. ReceiptOf(c)
      BY <2>4 DEF WriteInv, EffectsLeaveReceipts
    <3>2. CallId[c] # CallId[InHand]
      BY <2>3, <3>1 DEF ReceiptOf, Receipt
    <3>3. receipts'[CallId[c]] = receipts[CallId[c]]
      BY <2>2, <2>3, <3>2
    <3> QED
      BY <3>1, <3>2, <3>3 DEF ReceiptOf, Receipt
  <2>5. EffectsLeaveReceipts'
    BY <2>3, <2>4 DEF EffectsLeaveReceipts
  <2>6. InHand' = InHand /\ receipts'[CallId[InHand]] = Started(InHand)
    BY <2>1, <2>2, <2>3 DEF InHand, Cursor
  <2>7. ExecutesNew'
    <3>1. ReceiptOf(InHand)'
      BY <2>6 DEF ReceiptOf, Receipt, Started
    <3>2. executions[InHand] = 0
      BY <2>1, <2>2, <2>4
    <3> QED
      BY <2>3, <2>6, <3>1, <3>2 DEF ExecutesNew
  <2>8. WriteAtMostOnce'
    BY <2>3 DEF WriteInv, WriteAtMostOnce
  <2> QED
    BY <2>5, <2>7, <2>8 DEF WriteInv
<1>6. CASE RetryCall
  <2>1. InHand' = InHand /\ UNCHANGED <<receipts, executions>>
    BY <1>6 DEF RetryCall, durable, volatile, InHand, Cursor
  <2> QED
    BY <1>6, <2>1
    DEF RetryCall, WriteInv, EffectsLeaveReceipts, ExecutesNew, WriteAtMostOnce, ReceiptOf, Receipt
<1>7. CASE ExecuteTool
  <2>1. InHand \in Calls /\ executions \in [Calls -> Nat]
    BY <1>7, InHandType DEF ExecuteTool, ToolPcs, TypeInv, TypeOK
  <2>2. /\ executions' = [executions EXCEPT ![InHand] = executions[InHand] + 1]
        /\ UNCHANGED receipts /\ pc = "execute" /\ pc' = "complete"
    BY <1>7 DEF ExecuteTool
  <2>3. ReceiptOf(InHand) /\ (InHand \in Writes => executions[InHand] = 0)
    BY <2>2 DEF WriteInv, ExecutesNew
  <2>4. EffectsLeaveReceipts'
    BY <2>1, <2>2, <2>3 DEF WriteInv, EffectsLeaveReceipts, ReceiptOf, Receipt
  <2>5. WriteAtMostOnce'
    BY <2>1, <2>2, <2>3, JournalAssumption DEF WriteInv, WriteAtMostOnce
  <2> QED
    BY <2>2, <2>4, <2>5 DEF WriteInv, ExecutesNew
<1>8. CASE CompleteCall
  <2>1. InHand \in Calls /\ CallId[InHand] \in Ids /\ receipts \in [Ids -> Receipts]
        /\ CallId \in [Calls -> Ids]
    BY <1>8, InHandType, JournalAssumption DEF CompleteCall, ToolPcs, TypeInv, TypeOK
  <2>2. /\ receipts' = [receipts EXCEPT ![CallId[InHand]] = Completed(InHand, result)]
        /\ receipts[CallId[InHand]] = Started(InHand)
        /\ UNCHANGED executions /\ pc' = "push"
    BY <1>8 DEF CompleteCall, WriteCompleted, Receipt
  <2>3. ASSUME NEW c \in Calls, ReceiptOf(c)
        PROVE  ReceiptOf(c)'
    <3>1. CASE CallId[c] = CallId[InHand]
      <4>1. c = InHand
        BY <2>2, <2>3, <3>1 DEF ReceiptOf, Receipt, Started
      <4>2. receipts'[CallId[c]] = Completed(c, result)
        BY <2>1, <2>2, <4>1
      <4> QED
        BY <4>2 DEF ReceiptOf, Receipt, Completed
    <3>2. CASE CallId[c] # CallId[InHand]
      <4>1. receipts'[CallId[c]] = receipts[CallId[c]]
        BY <2>1, <2>2, <3>2
      <4> QED
        BY <2>3, <4>1 DEF ReceiptOf, Receipt
    <3> QED
      BY <3>1, <3>2
  <2>4. EffectsLeaveReceipts'
    BY <2>2, <2>3 DEF WriteInv, EffectsLeaveReceipts
  <2> QED
    BY <2>2, <2>4 DEF WriteInv, ExecutesNew, WriteAtMostOnce
<1>9. CASE Interrupt \/ Resume
  <2>1. pc' # "execute" /\ UNCHANGED <<receipts, executions>>
    BY <1>9 DEF Interrupt, Resume, Stop, durable
  <2> QED
    BY <2>1, WriteFrame
<1>10. CASE UNCHANGED vars
  BY <1>10 DEF vars, durable, volatile, WriteInv, EffectsLeaveReceipts, ExecutesNew,
               WriteAtMostOnce, ReceiptOf, Receipt, InHand, Cursor
<1> QED
  BY <1>1, <1>2, <1>3, <1>4, <1>5, <1>6, <1>7, <1>8, <1>9, <1>10 DEF Next, Work, RunTool

\* No writing or executing call ever takes effect twice, wherever the process
\* stops, however often the Run is resumed and even if two calls share an id.
THEOREM WriteAtMostOnceCorrect == Spec => []WriteAtMostOnce
<1>1. Init => WriteInv
  BY JournalAssumption DEF Init, WriteInv, EffectsLeaveReceipts, ExecutesNew, WriteAtMostOnce
<1>2. TypeInv /\ WriteInv /\ [Next]_vars => WriteInv'
  BY WriteStep
<1>3. WriteInv => WriteAtMostOnce
  BY DEF WriteInv
<1> QED
  BY <1>1, <1>2, <1>3, TypeInvCorrect, PTL DEF Spec

-----------------------------------------------------------------------------
(* What the receipts and the checkpoint say of the call in hand.           *)

Working == {"loop", "model"} \cup ToolPcs

\* A receipt lies under the id of the call it names, and only the reviewer of an
\* artifact asks for a revision.
ReceiptsAreNamed ==
  \A i \in Ids :
    /\ receipts[i].status # "none" => CallId[receipts[i].call] = i
    /\ receipts[i].status = "completed" /\ receipts[i].result = "revise" =>
         receipts[i].call \in ArtifactCalls

\* The result in hand is one its tool can give, and once the call is complete the
\* one its receipt says.
OutcomeInHand ==
  /\ pc = "complete" /\ result = "revise" => InHand \in ArtifactCalls
  /\ pc = "push" /\ result # "denied" => Receipt(InHand) = Completed(InHand, result)

\* Between two saves the loop works on what is saved, and what it is about to save
\* extends it.
MindIsSaved ==
  /\ pc \in Working => checkpoint = mind /\ mind.phase # "succeeded"
  /\ pc = "model" => mind.phase = "model_inflight"
  /\ pc = "saving" /\ checkpoint # NoCheckpoint =>
       /\ checkpoint.phase # "succeeded" /\ checkpoint.turn <= mind.turn
       /\ IsPrefix(checkpoint.messages, mind.messages)

\* An effect in doubt is the one being made or, after a stop, the one at the
\* cursor of the checkpoint.
InDoubt(i) == receipts[i].status = "started" /\ receipts[i].call \in Writes
DoubtIsAtCursor ==
  \A i \in Ids : InDoubt(i) =>
    \/ pc \in {"execute", "complete"} /\ receipts[i].call = InHand
    \/ /\ pc \in {"stopped", "blocked"} /\ checkpoint # NoCheckpoint
       /\ CallPending(checkpoint) /\ receipts[i].call = Cursor(checkpoint)

JournalInv == ReceiptsAreNamed /\ OutcomeInHand /\ MindIsSaved /\ DoubtIsAtCursor

\* A history extends itself, and a message appended extends it.
LEMMA PrefixOfAppend ==
  ASSUME NEW S, NEW s \in Seq(S), NEW e \in S
  PROVE  IsPrefix(s, s) /\ IsPrefix(s, Append(s, e))
<1> DEFINE t == Append(s, e)
<1>1. t \in Seq(S) /\ Len(t) = Len(s) + 1 /\ \A i \in 1..Len(s) : t[i] = s[i]
  BY AppendProperties
<1>2. SubSeq(s, 1, Len(s)) = s
  BY SubSeqFull
<1>3. SubSeq(t, 1, Len(s)) = s
  <2>1. Len(s) \in Nat
    OBVIOUS
  <2>2. /\ SubSeq(t, 1, Len(s)) \in Seq(S)
        /\ Len(SubSeq(t, 1, Len(s))) = Len(s)
        /\ \A i \in 1..Len(s) : SubSeq(t, 1, Len(s))[i] = t[i]
    BY <1>1, <2>1
  <2> HIDE DEF t
  <2> QED
    BY <1>1, <2>2, SeqEqual
<1> QED
  BY <1>1, <1>2, <1>3 DEF IsPrefix

\* A checkpoint that is none has no phase of a conversation.
LEMMA CheckpointPhase ==
  ASSUME TypeInv, checkpoint.phase # "none"
  PROVE  checkpoint \in Minds /\ checkpoint # NoCheckpoint
  BY DEF TypeInv, TypeOK, NoCheckpoint

\* A checkpoint that is there is the mind of a loop that has begun.
LEMMA CheckpointIs ==
  ASSUME TypeInv, checkpoint # NoCheckpoint
  PROVE  checkpoint \in Minds /\ checkpoint.phase # "none"
  BY DEF TypeInv, TypeOK, NoCheckpoint, Minds, Phases

\* What is known of a step that changes no receipt: only the call in hand can
\* disturb what the journal says.
LEMMA DoubtAfterStop ==
  ASSUME TypeInv, JournalInv, pc \in Active, pc' = "stopped", UNCHANGED <<checkpoint, receipts>>
  PROVE  DoubtIsAtCursor'
<1> SUFFICES ASSUME NEW i \in Ids, InDoubt(i)
             PROVE  /\ checkpoint # NoCheckpoint
                    /\ CallPending(checkpoint) /\ receipts[i].call = Cursor(checkpoint)
  BY DEF DoubtIsAtCursor, InDoubt
<1>1. pc \in {"execute", "complete"} /\ receipts[i].call = InHand
  BY DEF JournalInv, DoubtIsAtCursor, Active
<1>2. checkpoint = mind /\ CallPending(mind) /\ mind \in Minds
  BY <1>1 DEF JournalInv, MindIsSaved, Working, ToolPcs, TypeInv, TypeOK, CallInHand
<1>3. checkpoint # NoCheckpoint
  BY <1>2 DEF CallPending, NoCheckpoint
<1> QED
  BY <1>1, <1>2, <1>3 DEF InHand

\* A process that ends leaves journal, receipts and results in agreement.
LEMMA StopJournal ==
  ASSUME TypeInv, JournalInv, pc \in Active, Stop, UNCHANGED <<checkpoint, receipts>>
  PROVE  JournalInv'
<1>1. pc' = "stopped"
  BY DEF Stop
<1>2. DoubtIsAtCursor'
  BY <1>1, DoubtAfterStop
<1> QED
  BY <1>1, <1>2 DEF JournalInv, ReceiptsAreNamed, OutcomeInHand, MindIsSaved, Working, ToolPcs

\* Away from the call in hand no effect is in doubt, and that stays so.
LEMMA NoDoubt ==
  ASSUME JournalInv, pc \notin {"execute", "complete", "stopped", "blocked"},
         UNCHANGED receipts
  PROVE  ReceiptsAreNamed' /\ DoubtIsAtCursor'
  BY DEF JournalInv, ReceiptsAreNamed, DoubtIsAtCursor, InDoubt

\* So does reading the checkpoint.
LEMMA LoadJournal ==
  ASSUME TypeInv, JournalInv, Load
  PROVE  JournalInv'
<1>1. UNCHANGED <<checkpoint, receipts>> /\ pc \in Active /\ pc \in {"load", "returning"}
  BY DEF Load, LoadSucceeded, LoadCheckpoint, LoadNothing, Return, durable, Active
<1>2. ReceiptsAreNamed' /\ DoubtIsAtCursor'
  BY <1>1, NoDoubt
<1>3. CASE Stop
  BY <1>1, <1>3, StopJournal
<1>4. CASE ~Stop
  <2>1. CASE LoadSucceeded \/ Return
    <3>1. pc' \in {"returning", "done"}
      BY <2>1 DEF LoadSucceeded, Return
    <3> QED
      BY <1>2, <3>1 DEF JournalInv, OutcomeInHand, MindIsSaved, Working, ToolPcs
  <2>2. CASE LoadNothing
    BY <1>1, <1>2, <2>2 DEF LoadNothing, JournalInv, OutcomeInHand, MindIsSaved, Working, ToolPcs
  <2>3. CASE LoadCheckpoint
    <3>1. checkpoint \in Minds /\ checkpoint.phase # "succeeded"
      BY <2>3, CheckpointPhase DEF LoadCheckpoint
    <3>2. \/ mind' = checkpoint /\ pc' = "loop"
          \/ mind' = [checkpoint EXCEPT !.phase = "succeeded"] /\ pc' = "saving"
      BY <1>4, <2>3 DEF LoadCheckpoint, ContinueFrom
    <3>3. MindIsSaved'
      <4>1. CASE mind' = checkpoint /\ pc' = "loop"
        BY <1>1, <3>1, <4>1 DEF MindIsSaved
      <4>2. CASE mind' = [checkpoint EXCEPT !.phase = "succeeded"] /\ pc' = "saving"
        <5>1. mind'.turn = checkpoint.turn /\ mind'.messages = checkpoint.messages
          BY <3>1, <4>2 DEF Minds
        <5>2. IsPrefix(checkpoint.messages, checkpoint.messages)
          BY <3>1 DEF IsPrefix, Minds
        <5>3. checkpoint.turn <= checkpoint.turn
          BY <3>1 DEF Minds
        <5> QED
          BY <1>1, <3>1, <4>2, <5>1, <5>2, <5>3 DEF MindIsSaved, Working, ToolPcs
      <4> QED
        BY <3>2, <4>1, <4>2
    <3> QED
      BY <1>2, <3>2, <3>3 DEF JournalInv, OutcomeInHand
  <2> QED
    BY <2>1, <2>2, <2>3 DEF Load
<1> QED
  BY <1>3, <1>4

\* The store accepts every save of the loop.
LEMMA SavesAreAccepted ==
  JournalInv => SaveNeverRefused
  BY DEF JournalInv, MindIsSaved, SaveNeverRefused, Compatible

\* So does writing it.
LEMMA SaveJournal ==
  ASSUME TypeInv, JournalInv, SaveCheckpoint
  PROVE  JournalInv'
<1>1. pc = "saving" /\ UNCHANGED receipts /\ checkpoint' = mind /\ AfterSave
  BY SavesAreAccepted DEF SaveCheckpoint, SaveNeverRefused
<1>2. ReceiptsAreNamed' /\ DoubtIsAtCursor'
  BY <1>1, NoDoubt
<1>3. CASE Stop
  BY <1>2, <1>3 DEF Stop, JournalInv, OutcomeInHand, MindIsSaved, Working, ToolPcs
<1>4. CASE ~Stop
  <2>1. mind' = mind /\ pc' \in {"loop", "model", "returning"}
    BY <1>1, <1>4 DEF AfterSave, Onward, volatile
  <2>2. /\ pc' \in {"loop", "model"} => mind.phase # "succeeded"
        /\ pc' = "model" => mind.phase = "model_inflight"
    BY <1>1, <1>4 DEF AfterSave, Onward, RejectedByReviewer
  <2>3. MindIsSaved'
    BY <1>1, <2>1, <2>2 DEF MindIsSaved, Working, ToolPcs
  <2> QED
    BY <1>2, <2>1, <2>3 DEF JournalInv, OutcomeInHand
<1> QED
  BY <1>3, <1>4

\* What the loop is about to save extends what is saved.
LEMMA ExtendsSaved ==
  ASSUME TypeInv, JournalInv, pc \in Working, pc' = "saving", UNCHANGED checkpoint,
         mind.turn <= mind'.turn, IsPrefix(mind.messages, mind'.messages)
  PROVE  MindIsSaved'
  BY DEF JournalInv, MindIsSaved, Working, ToolPcs

\* So does a turn of the model.
LEMMA TurnJournal ==
  ASSUME TypeInv, JournalInv, Turn
  PROVE  JournalInv'
<1>1. UNCHANGED <<checkpoint, receipts>> /\ pc \in Active /\ pc \in {"loop", "model"}
  BY DEF Turn, Exhausted, AskModel, ModelAsksForTools, ModelAnswers, NextTool, EndOfTools,
         durable, Active
<1>2. ReceiptsAreNamed' /\ DoubtIsAtCursor'
  BY <1>1, NoDoubt
<1>3. mind \in Minds /\ mind.turn \in Nat /\ mind.messages \in Seq(Messages)
  BY MindFields DEF TypeInv, TypeOK
<1>4. CASE Exhausted
  BY <1>1, <1>4, StopJournal DEF Exhausted
<1>5. CASE NextTool
  <2>1. mind' = mind /\ pc' = "tool"
    BY <1>5 DEF NextTool, volatile
  <2>2. checkpoint = mind /\ mind.phase # "succeeded"
    BY <1>1 DEF JournalInv, MindIsSaved, Working
  <2> QED
    BY <1>1, <1>2, <2>1, <2>2 DEF JournalInv, OutcomeInHand, MindIsSaved
<1>6. CASE AskModel \/ ModelAsksForTools \/ ModelAnswers \/ EndOfTools
  <2>1. pc' = "saving"
    BY <1>6 DEF AskModel, ModelAsksForTools, ModelAnswers, EndOfTools
  <2>2. mind'.turn \in {mind.turn, mind.turn + 1}
    BY <1>3, <1>6 DEF AskModel, ModelAsksForTools, ModelAnswers, EndOfTools, Minds
  <2>3. mind'.messages = mind.messages \/ \E m \in Messages : mind'.messages = Append(mind.messages, m)
    <3>1. CASE AskModel \/ EndOfTools
      BY <1>3, <3>1 DEF AskModel, EndOfTools, Minds
    <3>2. CASE ModelAnswers
      <4>1. Says \in Messages
        BY DEF Says, Messages
      <4> QED
        BY <1>3, <3>2, <4>1 DEF ModelAnswers, Minds
    <3>3. CASE ModelAsksForTools
      <4>1. PICK calls \in SeqOf(Calls, MaxCalls) \ {<<>>} :
              mind' = [mind EXCEPT !.phase = "tool_inflight", !.pending = calls, !.next = 0,
                                   !.messages = Append(@, Asks(calls))]
        BY <3>3 DEF ModelAsksForTools
      <4>2. Asks(calls) \in Messages
        BY AnswersType DEF Asks, Messages
      <4> QED
        BY <1>3, <4>1, <4>2 DEF Minds
    <3> QED
      BY <1>6, <3>1, <3>2, <3>3
  <2>4. mind.turn <= mind'.turn
    BY <1>3, <2>2
  <2>5. Says \in Messages
    BY DEF Says, Messages
  <2>6. IsPrefix(mind.messages, mind'.messages)
    BY <1>3, <2>3, <2>5, PrefixOfAppend
  <2>7. MindIsSaved'
    BY <1>1, <2>1, <2>4, <2>6, ExtendsSaved DEF Working
  <2> QED
    BY <1>2, <2>1, <2>7 DEF JournalInv, OutcomeInHand
<1> QED
  BY <1>4, <1>5, <1>6 DEF Turn

\* The pieces of a step on the call in hand.
LEMMA CallInHandFacts ==
  ASSUME TypeInv, JournalInv, pc \in ToolPcs
  PROVE  /\ InHand \in Calls /\ CallId[InHand] \in Ids /\ CallPending(mind)
         /\ receipts \in [Ids -> Receipts] /\ mind \in Minds
         /\ checkpoint = mind /\ mind.phase # "succeeded"
  BY InHandType, JournalAssumption
  DEF TypeInv, TypeOK, CallInHand, JournalInv, MindIsSaved, Working

\* A completed receipt is the one that completed it.
LEMMA ReuseIsCompleted ==
  ASSUME TypeInv, JournalInv, ReuseResult
  PROVE  Receipt(InHand) = Completed(InHand, result')
<1>1. Receipt(InHand) \in Receipts
  BY CallInHandFacts DEF ReuseResult, ToolPcs, Receipt
<1>2. Receipt(InHand).status = "completed" /\ Receipt(InHand).call = InHand
      /\ result' = Receipt(InHand).result
  BY DEF ReuseResult, ReceiptOf
<1> QED
  BY <1>1, <1>2 DEF Receipts, Completed

\* So does a step of a tool call.
LEMMA ToolJournalStep ==
  ASSUME TypeInv, JournalInv, RunTool
  PROVE  JournalInv'
<1>1. pc \in ToolPcs /\ pc \in Active
  BY DEF RunTool, ToolPcs, Active, Deny, Approve, BeginCall, ReuseResult, RetryCall, RefuseCall,
         ExecuteTool, CompleteCall, Push
<1>2. /\ InHand \in Calls /\ CallId[InHand] \in Ids /\ CallPending(mind)
      /\ receipts \in [Ids -> Receipts] /\ mind \in Minds
      /\ checkpoint = mind /\ mind.phase # "succeeded"
  BY <1>1, CallInHandFacts
<1>3. CASE Deny \/ Approve \/ ReuseResult
  <2>1. /\ UNCHANGED <<checkpoint, receipts, mind>> /\ pc \in {"tool", "start"}
        /\ pc' \in {"push", "start"}
    BY <1>3 DEF Deny, Approve, ReuseResult, durable, volatile
  <2>2. ReceiptsAreNamed' /\ DoubtIsAtCursor'
    BY <2>1, NoDoubt
  <2>3. MindIsSaved'
    BY <1>2, <2>1 DEF MindIsSaved
  <2>4. pc' = "push" /\ result' # "denied" => Receipt(InHand) = Completed(InHand, result')
    BY <1>3, ReuseIsCompleted DEF Deny, Approve
  <2>5. OutcomeInHand'
    BY <2>1, <2>4 DEF OutcomeInHand, InHand, Receipt
  <2> QED
    BY <2>2, <2>3, <2>5 DEF JournalInv
<1>4. CASE BeginCall
  <2>1. /\ receipts' = [receipts EXCEPT ![CallId[InHand]] = Started(InHand)]
        /\ UNCHANGED <<checkpoint, mind>> /\ pc = "start" /\ pc' = "execute"
    BY <1>4 DEF BeginCall, WriteStarted, volatile
  <2>2. ASSUME NEW i \in Ids
        PROVE  receipts'[i] = IF i = CallId[InHand] THEN Started(InHand) ELSE receipts[i]
    BY <1>2, <2>1
  <2>3. ReceiptsAreNamed'
    BY <2>2 DEF JournalInv, ReceiptsAreNamed, Started
  <2>4. DoubtIsAtCursor'
    <3>1. \A i \in Ids : ~InDoubt(i)
      BY <2>1 DEF JournalInv, DoubtIsAtCursor
    <3>2. \A i \in Ids : InDoubt(i)' => receipts'[i].call = InHand
      BY <2>2, <3>1 DEF InDoubt, Started
    <3> QED
      BY <2>1, <3>2 DEF DoubtIsAtCursor, InHand
  <2> QED
    BY <1>2, <2>1, <2>3, <2>4 DEF JournalInv, OutcomeInHand, MindIsSaved
<1>5. CASE RetryCall
  <2>1. UNCHANGED <<checkpoint, receipts, mind>> /\ pc = "start" /\ pc' = "execute"
    BY <1>5 DEF RetryCall, durable, volatile
  <2>2. ReceiptsAreNamed' /\ DoubtIsAtCursor'
    BY <2>1, NoDoubt
  <2> QED
    BY <1>2, <2>1, <2>2 DEF JournalInv, OutcomeInHand, MindIsSaved
<1>6. CASE RefuseCall
  BY <1>1, <1>6, StopJournal DEF RefuseCall, durable
<1>7. CASE ExecuteTool
  <2>1. /\ UNCHANGED <<checkpoint, receipts, mind>> /\ pc = "execute" /\ pc' = "complete"
        /\ result' = "revise" => InHand \in ArtifactCalls
    BY <1>7 DEF ExecuteTool, ToolResults, Results
  <2>2. ReceiptsAreNamed' /\ DoubtIsAtCursor'
    BY <2>1 DEF JournalInv, ReceiptsAreNamed, DoubtIsAtCursor, InDoubt, InHand
  <2> QED
    BY <1>2, <2>1, <2>2 DEF JournalInv, OutcomeInHand, MindIsSaved, InHand
<1>8. CASE CompleteCall
  <2>1. /\ receipts' = [receipts EXCEPT ![CallId[InHand]] = Completed(InHand, result)]
        /\ UNCHANGED <<checkpoint, mind, result>> /\ pc = "complete" /\ pc' = "push"
    BY <1>8 DEF CompleteCall, WriteCompleted, volatile
  <2>2. ASSUME NEW i \in Ids
        PROVE  receipts'[i] =
                 IF i = CallId[InHand] THEN Completed(InHand, result) ELSE receipts[i]
    BY <1>2, <2>1
  <2>3. result = "revise" => InHand \in ArtifactCalls
    BY <2>1 DEF JournalInv, OutcomeInHand
  <2>4. ReceiptsAreNamed'
    BY <2>2, <2>3 DEF JournalInv, ReceiptsAreNamed, Completed
  <2>5. ASSUME NEW i \in Ids PROVE ~InDoubt(i)'
    <3>1. CASE i = CallId[InHand]
      BY <2>2, <3>1 DEF InDoubt, Completed
    <3>2. CASE i # CallId[InHand]
      <4>1. InDoubt(i) => receipts[i].call = InHand /\ CallId[receipts[i].call] = i
        BY <2>1 DEF JournalInv, DoubtIsAtCursor, ReceiptsAreNamed, InDoubt
      <4> QED
        BY <2>2, <3>2, <4>1 DEF InDoubt
    <3> QED
      BY <3>1, <3>2
  <2>6. Receipt(InHand)' = Completed(InHand, result)
    BY <1>2, <2>1, <2>2 DEF Receipt, InHand
  <2> QED
    BY <1>2, <2>1, <2>4, <2>5, <2>6
    DEF JournalInv, OutcomeInHand, MindIsSaved, DoubtIsAtCursor, InHand
<1>9. CASE Push
  <2>1. UNCHANGED <<checkpoint, receipts>> /\ pc = "push" /\ pc' = "saving"
    BY <1>9 DEF Push, durable
  <2>2. ReceiptsAreNamed' /\ DoubtIsAtCursor'
    BY <2>1, NoDoubt
  <2>3. Answer(InHand, result) \in Messages
    BY <1>2 DEF Answer, Messages, TypeInv, TypeOK
  <2>4. mind'.turn = mind.turn /\ mind'.messages = Append(mind.messages, Answer(InHand, result))
    BY <1>2, <1>9 DEF Push, Minds
  <2>5. IsPrefix(mind.messages, mind'.messages)
    BY <1>2, <2>3, <2>4, PrefixOfAppend, MindFields
  <2>6. mind.turn <= mind'.turn
    BY <1>2, <2>4, MindFields
  <2>7. MindIsSaved'
    BY <1>1, <2>1, <2>5, <2>6, ExtendsSaved DEF Working
  <2> QED
    BY <2>1, <2>2, <2>7 DEF JournalInv, OutcomeInHand
<1> QED
  BY <1>3, <1>4, <1>5, <1>6, <1>7, <1>8, <1>9 DEF RunTool

\* So does a new process.
LEMMA ResumeJournal ==
  ASSUME TypeInv, JournalInv, Resume
  PROVE  JournalInv'
<1>1. /\ UNCHANGED <<checkpoint, receipts>> /\ pc = "stopped"
      /\ pc' = IF ResumeAvailable THEN "load" ELSE "blocked"
  BY DEF Resume, durable
<1>2. ReceiptsAreNamed'
  BY <1>1 DEF JournalInv, ReceiptsAreNamed
<1>3. DoubtIsAtCursor'
  <2> SUFFICES ASSUME NEW i \in Ids, InDoubt(i)
               PROVE  /\ pc' \in {"stopped", "blocked"} /\ checkpoint # NoCheckpoint
                      /\ CallPending(checkpoint) /\ receipts[i].call = Cursor(checkpoint)
    BY <1>1 DEF DoubtIsAtCursor, InDoubt
  <2>1. /\ checkpoint # NoCheckpoint /\ CallPending(checkpoint)
        /\ receipts[i].call = Cursor(checkpoint)
    BY <1>1 DEF JournalInv, DoubtIsAtCursor
  <2>2. CallId[receipts[i].call] = i
    BY DEF JournalInv, ReceiptsAreNamed, InDoubt
  <2>3. AmbiguousReceipt(Cursor(checkpoint))
    BY <2>1, <2>2 DEF AmbiguousReceipt, Receipt, InDoubt
  <2> QED
    BY <1>1, <2>1, <2>3 DEF ResumeAvailable
<1> QED
  BY <1>1, <1>2, <1>3 DEF JournalInv, OutcomeInHand, MindIsSaved, Working, ToolPcs

\* So does every step.
LEMMA JournalStep ==
  ASSUME TypeInv, JournalInv, [Next]_vars
  PROVE  JournalInv'
<1>1. CASE Interrupt
  BY <1>1, StopJournal DEF Interrupt, durable
<1>2. CASE UNCHANGED vars
  BY <1>2 DEF vars, durable, volatile, JournalInv, ReceiptsAreNamed, OutcomeInHand, MindIsSaved,
              DoubtIsAtCursor, InDoubt, InHand, Receipt
<1> QED
  BY <1>1, <1>2, LoadJournal, SaveJournal, TurnJournal, ToolJournalStep, ResumeJournal
  DEF Next, Work

\* Journal, receipts and results agree in every reachable state.
LEMMA JournalInvCorrect == Spec => []JournalInv
<1>1. Init => JournalInv
  BY DEF Init, JournalInit, NoReceipt, JournalInv, ReceiptsAreNamed, OutcomeInHand, MindIsSaved,
         DoubtIsAtCursor, InDoubt, Working, ToolPcs
<1>2. TypeInv /\ JournalInv /\ [Next]_vars => JournalInv'
  BY JournalStep
<1> QED
  BY <1>1, <1>2, TypeInvCorrect, PTL DEF Spec

\* A resumed task never comes upon an effect in doubt: the inspection saw it.
LEMMA InspectionIsSound == TypeInv /\ JournalInv => InspectionIsExact
<1> SUFFICES ASSUME TypeInv, JournalInv, pc = "start", Ambiguous(InHand) PROVE FALSE
  BY DEF InspectionIsExact
<1>1. CallId[InHand] \in Ids
  BY CallInHandFacts DEF ToolPcs
<1>2. InDoubt(CallId[InHand])
  BY DEF Ambiguous, ReceiptOf, Receipt, InDoubt
<1> QED
  BY <1>1, <1>2 DEF JournalInv, DoubtIsAtCursor

-----------------------------------------------------------------------------
(* The conversation: every request followed by its answers, in order.      *)

AskAt(messages, i) == i \in 1..Len(messages) /\ messages[i].role = "assistant"

\* A message is a request or an answer.
LEMMA MessageAt ==
  ASSUME NEW messages \in Seq(Messages), NEW i \in 1..Len(messages)
  PROVE  \/ messages[i].role = "assistant" /\ messages[i].calls \in Seq(Calls)
         \/ /\ messages[i].role = "tool" /\ messages[i].call \in Calls
            /\ messages[i].outcome \in Outcomes
<1>1. messages[i] \in Messages
  OBVIOUS
<1> QED
  BY <1>1 DEF Messages

\* WellFormed, position by position.
Positions(m) ==
  LET s == m.messages IN
  /\ \A i \in 1..Len(s) : AskAt(s, i) =>
       /\ \A j \in 1..Len(s) : j - i \in 1..Len(s[i].calls) =>
            s[j].role = "tool" /\ s[j].call = s[i].calls[j - i]
       /\ i + Len(s[i].calls) > Len(s) => m.phase = "tool_inflight" /\ i = Len(s) - m.next
  /\ \A j \in 1..Len(s) : ~AskAt(s, j) =>
       \E i \in 1..Len(s) : AskAt(s, i) /\ j - i \in 1..Len(s[i].calls)
  /\ IF m.phase = "tool_inflight"
     THEN /\ AskAt(s, Len(s) - m.next) /\ s[Len(s) - m.next].calls = m.pending
          /\ m.next <= Len(m.pending)
     ELSE m.pending = <<>>

\* WellFormed, said of the positions of the messages one by one.
LEMMA WellFormedAt ==
  ASSUME NEW m \in Minds
  PROVE  WellFormed(m) <=> Positions(m)
<1> DEFINE s == m.messages
           asks == {i \in DOMAIN s : s[i].role = "assistant"}
           inFlight == Len(s) - m.next
<1>1. s \in Seq(Messages) /\ DOMAIN s = 1..Len(s) /\ Len(s) \in Nat
  BY MindFields
<1>2. asks = {i \in 1..Len(s) : AskAt(s, i)}
  BY <1>1 DEF AskAt
<1>3. ASSUME NEW i \in 1..Len(s), AskAt(s, i)
      PROVE  AnsweredTo(s, i) <=>
               \A j \in 1..Len(s) : j - i \in 1..Len(s[i].calls) =>
                 s[j].role = "tool" /\ s[j].call = s[i].calls[j - i]
  <2>1. s[i].calls \in Seq(Calls) /\ Len(s[i].calls) \in Nat
    BY <1>1, <1>3, MessageAt DEF AskAt
  <2>2. \A j \in 1..Len(s) :
          j \in (i + 1)..(i + Len(s[i].calls)) <=> j - i \in 1..Len(s[i].calls)
    BY <1>1, <2>1
  <2> QED
    BY <1>1, <2>2 DEF AnsweredTo
<1> HIDE DEF asks
<1>4. WellFormed(m) <=>
        /\ \A i \in asks :
             /\ AnsweredTo(s, i)
             /\ i + Len(s[i].calls) > Len(s) => m.phase = "tool_inflight" /\ i = inFlight
        /\ \A j \in DOMAIN s \ asks : \E i \in asks : j - i \in 1..Len(s[i].calls)
        /\ IF m.phase = "tool_inflight"
           THEN inFlight \in asks /\ s[inFlight].calls = m.pending /\ m.next <= Len(m.pending)
           ELSE m.pending = <<>>
  BY DEF WellFormed, asks
<1>5. inFlight \in asks <=> AskAt(s, inFlight)
  BY <1>2 DEF AskAt
<1> HIDE DEF s, inFlight
<1>6. (\A i \in asks :
             /\ AnsweredTo(s, i)
             /\ i + Len(s[i].calls) > Len(s) => m.phase = "tool_inflight" /\ i = inFlight)
      <=> (\A i \in 1..Len(s) : AskAt(s, i) =>
             /\ \A j \in 1..Len(s) : j - i \in 1..Len(s[i].calls) =>
                  s[j].role = "tool" /\ s[j].call = s[i].calls[j - i]
             /\ i + Len(s[i].calls) > Len(s) => m.phase = "tool_inflight" /\ i = inFlight)
  BY <1>2, <1>3
<1>7. (\A j \in DOMAIN s \ asks : \E i \in asks : j - i \in 1..Len(s[i].calls))
      <=> (\A j \in 1..Len(s) : ~AskAt(s, j) =>
             \E i \in 1..Len(s) : AskAt(s, i) /\ j - i \in 1..Len(s[i].calls))
  BY <1>1, <1>2
<1> QED
  BY <1>4, <1>5, <1>6, <1>7 DEF s, inFlight, Positions

\* A request of the model opens a turn; an answer in words is a turn of its own.
LEMMA WellFormedAsk ==
  ASSUME NEW m \in Minds, WellFormed(m), m.phase # "tool_inflight",
         NEW calls \in Seq(Calls), NEW n \in Minds,
         n.messages = Append(m.messages, Asks(calls)), n.pending = calls, n.next = 0,
         n.phase = "tool_inflight" \/ calls = <<>>
  PROVE  WellFormed(n)
<1> DEFINE s == m.messages
           t == n.messages
           L == Len(s)
<1>1. s \in Seq(Messages) /\ L \in Nat /\ Asks(calls) \in Messages /\ Len(calls) \in Nat
  BY MindFields DEF Asks, Messages
<1>2. /\ t \in Seq(Messages) /\ Len(t) = L + 1 /\ t[L + 1] = Asks(calls)
      /\ \A i \in 1..L : t[i] = s[i]
  BY <1>1, AppendProperties
<1>3. AskAt(t, L + 1) /\ t[L + 1].calls = calls
  BY <1>1, <1>2 DEF AskAt, Asks
<1>4. \A i \in 1..L : AskAt(t, i) <=> AskAt(s, i)
  BY <1>1, <1>2 DEF AskAt
<1>5. /\ \A i \in 1..L : AskAt(s, i) =>
           /\ \A j \in 1..L : j - i \in 1..Len(s[i].calls) =>
                s[j].role = "tool" /\ s[j].call = s[i].calls[j - i]
           /\ i + Len(s[i].calls) <= L /\ Len(s[i].calls) \in Nat
      /\ \A j \in 1..L : ~AskAt(s, j) =>
           \E i \in 1..L : AskAt(s, i) /\ j - i \in 1..Len(s[i].calls)
  <2>1. \A i \in 1..L : AskAt(s, i) => Len(s[i].calls) \in Nat
    BY <1>1, MessageAt DEF AskAt
  <2>2. Positions(m)
    BY WellFormedAt
  <2>3. \A i \in 1..L : AskAt(s, i) => ~(i + Len(s[i].calls) > L)
    BY <2>2 DEF Positions
  <2> QED
    BY <1>1, <2>1, <2>2, <2>3 DEF Positions
<1> HIDE DEF s, t, L
<1>6. ASSUME NEW i \in 1..Len(t), AskAt(t, i)
      PROVE  /\ \A j \in 1..Len(t) : j - i \in 1..Len(t[i].calls) =>
                  t[j].role = "tool" /\ t[j].call = t[i].calls[j - i]
             /\ i + Len(t[i].calls) > Len(t) => n.phase = "tool_inflight" /\ i = Len(t) - n.next
  <2>1. CASE i = L + 1
    <3>1. \A j \in 1..Len(t) : ~(j - i \in 1..Len(t[i].calls))
      BY <1>1, <1>2, <1>3, <2>1
    <3>2. i + Len(t[i].calls) > Len(t) => calls # <<>>
      <4>1. calls = <<>> => Len(calls) = 0
        OBVIOUS
      <4>2. t[i].calls = calls /\ i = Len(t)
        BY <1>2, <1>3, <2>1
      <4>3. calls = <<>> => ~(i + Len(t[i].calls) > Len(t))
        BY <1>1, <1>2, <4>1, <4>2
      <4> QED
        BY <4>3
    <3>3. Len(t) - n.next = i
      BY <1>1, <1>2, <2>1
    <3> QED
      BY <3>1, <3>2, <3>3
  <2>2. CASE i \in 1..L
    <3>1. AskAt(s, i) /\ t[i] = s[i]
      BY <1>2, <1>4, <1>6, <2>2
    <3>2. i + Len(t[i].calls) <= L /\ Len(t[i].calls) \in Nat
      BY <1>5, <2>2, <3>1
    <3>3. ASSUME NEW j \in 1..Len(t), j - i \in 1..Len(t[i].calls)
          PROVE  t[j].role = "tool" /\ t[j].call = t[i].calls[j - i]
      <4>1. j \in 1..L
        BY <1>1, <1>2, <2>2, <3>2, <3>3
      <4>2. j - i \in 1..Len(s[i].calls) /\ t[i].calls = s[i].calls /\ t[j] = s[j]
        BY <1>2, <3>1, <3>3, <4>1
      <4>3. s[j].role = "tool" /\ s[j].call = s[i].calls[j - i]
        BY <1>5, <2>2, <3>1, <4>1, <4>2
      <4> QED
        BY <4>2, <4>3
    <3> QED
      BY <1>1, <1>2, <2>2, <3>2, <3>3
  <2> QED
    BY <1>1, <1>2, <2>1, <2>2
<1>7. ASSUME NEW j \in 1..Len(t), ~AskAt(t, j)
      PROVE  \E i \in 1..Len(t) : AskAt(t, i) /\ j - i \in 1..Len(t[i].calls)
  <2>1. j \in 1..L /\ ~AskAt(s, j)
    BY <1>1, <1>2, <1>3, <1>4, <1>7
  <2>2. PICK i \in 1..L : AskAt(s, i) /\ j - i \in 1..Len(s[i].calls)
    BY <1>5, <2>1
  <2> QED
    BY <1>1, <1>2, <1>4, <2>2, SMTT(30)
<1>8. IF n.phase = "tool_inflight"
      THEN AskAt(t, Len(t) - n.next) /\ t[Len(t) - n.next].calls = n.pending /\ n.next <= Len(n.pending)
      ELSE n.pending = <<>>
  BY <1>1, <1>2, <1>3
<1>9. Positions(n)
  BY <1>6, <1>7, <1>8 DEF Positions, t
<1> QED
  BY <1>9, WellFormedAt

\* The answer to the call at the cursor continues the turn in flight.
LEMMA WellFormedAnswer ==
  ASSUME NEW m \in Minds, WellFormed(m), CallPending(m), NEW r \in Outcomes, NEW n \in Minds,
         n.messages = Append(m.messages, Answer(Cursor(m), r)), n.pending = m.pending,
         n.next = m.next + 1, n.phase = "tool_inflight"
  PROVE  WellFormed(n)
<1> DEFINE s == m.messages
           t == n.messages
           L == Len(s)
           a == Answer(Cursor(m), r)
           f == L - m.next
<1>1. /\ s \in Seq(Messages) /\ L \in Nat /\ a \in Messages /\ m.next \in Nat
      /\ m.pending \in Seq(Calls) /\ m.next < Len(m.pending) /\ Len(m.pending) \in Nat
      /\ m.phase = "tool_inflight"
  BY MindFields, CursorType DEF Answer, Messages, CallPending
<1>2. /\ t \in Seq(Messages) /\ Len(t) = L + 1 /\ t[L + 1] = a
      /\ \A i \in 1..L : t[i] = s[i]
  BY <1>1, AppendProperties
<1>3. ~AskAt(t, L + 1) /\ t[L + 1].role = "tool" /\ t[L + 1].call = m.pending[m.next + 1]
  BY <1>1, <1>2 DEF AskAt, Answer, Cursor
<1>4. \A i \in 1..L : AskAt(t, i) <=> AskAt(s, i)
  BY <1>1, <1>2 DEF AskAt
<1>5. /\ \A i \in 1..L : AskAt(s, i) =>
           /\ \A j \in 1..L : j - i \in 1..Len(s[i].calls) =>
                s[j].role = "tool" /\ s[j].call = s[i].calls[j - i]
           /\ i + Len(s[i].calls) <= L \/ i = f
           /\ Len(s[i].calls) \in Nat
      /\ \A j \in 1..L : ~AskAt(s, j) =>
           \E i \in 1..L : AskAt(s, i) /\ j - i \in 1..Len(s[i].calls)
      /\ AskAt(s, f) /\ f \in 1..L /\ s[f].calls = m.pending
  <2>1. \A i \in 1..L : AskAt(s, i) => Len(s[i].calls) \in Nat
    BY <1>1, MessageAt, SMTT(30) DEF AskAt
  <2>2. Positions(m)
    BY WellFormedAt
  <2>3. AskAt(s, f) /\ f \in 1..L /\ s[f].calls = m.pending
    BY <1>1, <2>2 DEF AskAt, Positions
  <2>4. \A i \in 1..L : AskAt(s, i) => (i + Len(s[i].calls) > L => i = f)
    BY <2>2 DEF Positions
  <2> QED
    BY <1>1, <2>1, <2>2, <2>3, <2>4 DEF Positions
<1>10. f = L - m.next /\ f \in Nat
  BY <1>1, <1>5
<1> HIDE DEF s, t, L, a, f
<1>6. ASSUME NEW i \in 1..Len(t), AskAt(t, i)
      PROVE  /\ \A j \in 1..Len(t) : j - i \in 1..Len(t[i].calls) =>
                  t[j].role = "tool" /\ t[j].call = t[i].calls[j - i]
             /\ i + Len(t[i].calls) > Len(t) => n.phase = "tool_inflight" /\ i = Len(t) - n.next
  <2>1. i \in 1..L /\ AskAt(s, i) /\ t[i] = s[i]
    BY <1>1, <1>2, <1>3, <1>4, <1>6
  <2>2. ASSUME NEW j \in 1..Len(t), j - i \in 1..Len(t[i].calls)
        PROVE  t[j].role = "tool" /\ t[j].call = t[i].calls[j - i]
    <3>1. CASE j \in 1..L
      BY <1>2, <1>5, <2>1, <2>2, <3>1, SMTT(60)
    <3>2. CASE j = L + 1
      <4>1. i = f
        <5>1. Len(s[i].calls) \in Nat /\ t[i].calls = s[i].calls
          BY <1>5, <2>1
        <5>2. i + Len(s[i].calls) > L
          BY <1>1, <2>1, <2>2, <3>2, <5>1
        <5> QED
          BY <1>1, <1>5, <2>1, <5>1, <5>2
      <4>2. j - i = m.next + 1 /\ t[i].calls = m.pending
        BY <1>1, <1>5, <1>10, <2>1, <3>2, <4>1
      <4> QED
        BY <1>3, <3>2, <4>2
    <3> QED
      BY <1>1, <1>2, <3>1, <3>2
  <2>3. i + Len(t[i].calls) > Len(t) => n.phase = "tool_inflight" /\ i = Len(t) - n.next
    <3>1. Len(s[i].calls) \in Nat /\ t[i].calls = s[i].calls
      BY <1>5, <2>1
    <3>2. Len(t) - n.next = f
      BY <1>1, <1>2, <1>10
    <3>3. i + Len(t[i].calls) > Len(t) => i = f
      BY <1>1, <1>2, <1>5, <2>1, <3>1
    <3> QED
      BY <3>2, <3>3
  <2> QED
    BY <2>2, <2>3
<1>7. ASSUME NEW j \in 1..Len(t), ~AskAt(t, j)
      PROVE  \E i \in 1..Len(t) : AskAt(t, i) /\ j - i \in 1..Len(t[i].calls)
  <2>1. CASE j \in 1..L
    <3>1. PICK i \in 1..L : AskAt(s, i) /\ j - i \in 1..Len(s[i].calls)
      BY <1>4, <1>5, <1>7, <2>1
    <3> QED
      BY <1>1, <1>2, <1>4, <3>1
  <2>2. CASE j = L + 1
    <3>1. j - f \in 1..Len(t[f].calls)
      BY <1>1, <1>2, <1>5, <1>10, <2>2, SMTT(60)
    <3>2. f \in 1..Len(t) /\ AskAt(t, f)
      BY <1>1, <1>2, <1>4, <1>5
    <3> QED
      BY <3>1, <3>2
  <2>3. j \in 1..L \/ j = L + 1
    BY <1>1, <1>2
  <2> QED
    BY <2>1, <2>2, <2>3
<1>8. /\ AskAt(t, Len(t) - n.next) /\ t[Len(t) - n.next].calls = n.pending
      /\ n.next <= Len(n.pending)
  <2>1. Len(t) - n.next = f
    BY <1>1, <1>2, <1>10
  <2>2. t[f] = s[f] /\ AskAt(t, f)
    BY <1>2, <1>4, <1>5
  <2>3. n.next <= Len(n.pending)
    BY <1>1
  <2> QED
    BY <1>5, <2>1, <2>2, <2>3
<1>9. Positions(n)
  BY <1>6, <1>7, <1>8 DEF Positions, t
<1> QED
  BY <1>9, WellFormedAt

\* A turn whose calls are all answered is complete.
LEMMA WellFormedEnd ==
  ASSUME NEW m \in Minds, WellFormed(m), ~CallPending(m), NEW n \in Minds,
         n.messages = m.messages, n.pending = <<>>, n.phase # "tool_inflight"
  PROVE  WellFormed(n)
<1> DEFINE s == m.messages
<1>1. s \in Seq(Messages) /\ Len(s) \in Nat /\ m.next \in Nat /\ m.pending \in Seq(Calls)
      /\ Len(m.pending) \in Nat
  BY MindFields
<1>2. \A i \in 1..Len(s) : AskAt(s, i) => i + Len(s[i].calls) <= Len(s)
  <2> SUFFICES ASSUME NEW i \in 1..Len(s), AskAt(s, i), ~(i + Len(s[i].calls) <= Len(s))
               PROVE  FALSE
    OBVIOUS
  <2>1. Len(s[i].calls) \in Nat
    BY <1>1, MessageAt DEF AskAt
  <2>5. Positions(m)
    BY WellFormedAt
  <2>2. m.phase = "tool_inflight" /\ i = Len(s) - m.next
    BY <1>1, <2>1, <2>5 DEF Positions
  <2>3. s[i].calls = m.pending /\ m.next <= Len(m.pending)
    BY <2>2, <2>5 DEF Positions
  <2>4. m.next = Len(m.pending)
    BY <1>1, <2>2, <2>3 DEF CallPending
  <2> QED
    BY <1>1, <2>2, <2>3, <2>4
<1>3. \A i \in 1..Len(s) : AskAt(s, i) => ~(i + Len(s[i].calls) > Len(s))
  <2>1. \A i \in 1..Len(s) : AskAt(s, i) => Len(s[i].calls) \in Nat
    BY <1>1, MessageAt DEF AskAt
  <2> QED
    BY <1>1, <1>2, <2>1
<1>4. Positions(m)
  BY WellFormedAt
<1>5. Positions(n)
  BY <1>3, <1>4 DEF Positions
<1> QED
  BY <1>5, WellFormedAt

-----------------------------------------------------------------------------
(* What is saved is a conversation, and says what the receipts say.        *)

Holding == Working \cup {"saving"}

Faithful(messages) ==
  \A i \in 1..Len(messages) :
    messages[i].role = "tool" /\ messages[i].outcome # "denied" =>
      Receipt(messages[i].call) = Completed(messages[i].call, messages[i].outcome)

Sound(m) == WellFormed(m) /\ Faithful(m.messages)

\* Both what is saved and what the loop holds are sound.
HistoryInv ==
  /\ pc \in Holding => Sound(mind)
  /\ checkpoint # NoCheckpoint => Sound(checkpoint)

\* A completed receipt is never changed.
LEMMA CompletedStays ==
  ASSUME TypeInv, JournalInv, [Next]_vars,
         NEW i \in Ids, receipts[i].status = "completed"
  PROVE  receipts'[i] = receipts[i]
<1>1. CASE UNCHANGED receipts
  BY <1>1
<1>2. CASE BeginCall
  <2>1. CallId[InHand] \in Ids /\ receipts \in [Ids -> Receipts]
    BY <1>2, CallInHandFacts DEF BeginCall, ToolPcs
  <2>2. /\ receipts' = [receipts EXCEPT ![CallId[InHand]] = Started(InHand)]
        /\ receipts[CallId[InHand]].status = "none"
    BY <1>2 DEF BeginCall, WriteStarted, Receipt, NoReceipt
  <2> QED
    BY <2>1, <2>2
<1>3. CASE CompleteCall
  <2>1. CallId[InHand] \in Ids /\ receipts \in [Ids -> Receipts]
    BY <1>3, CallInHandFacts DEF CompleteCall, ToolPcs
  <2>2. /\ receipts' = [receipts EXCEPT ![CallId[InHand]] = Completed(InHand, result)]
        /\ receipts[CallId[InHand]].status = "started"
    BY <1>3 DEF CompleteCall, WriteCompleted, Receipt, Started
  <2> QED
    BY <2>1, <2>2
<1> QED
  BY <1>1, <1>2, <1>3
  DEF Next, Work, Load, LoadSucceeded, LoadCheckpoint, LoadNothing, Return, SaveCheckpoint, Turn,
      Exhausted, AskModel, ModelAsksForTools, ModelAnswers, NextTool, EndOfTools, RunTool, Deny,
      Approve, ReuseResult, RetryCall, RefuseCall, ExecuteTool, Push, Interrupt, Resume, vars,
      durable

\* Receipts are never taken back, so an answer they bear out stays borne out.
LEMMA FaithfulStays ==
  ASSUME TypeInv, JournalInv, [Next]_vars, NEW messages \in Seq(Messages), Faithful(messages)
  PROVE  Faithful(messages)'
<1> SUFFICES ASSUME NEW i \in 1..Len(messages), messages[i].role = "tool",
                    messages[i].outcome # "denied"
             PROVE  Receipt(messages[i].call)'
                      = Completed(messages[i].call, messages[i].outcome)
  BY DEF Faithful
<1>1. Receipt(messages[i].call) = Completed(messages[i].call, messages[i].outcome)
  BY DEF Faithful
<1>2. messages[i].call \in Calls
  BY MessageAt
<1>3. CallId[messages[i].call] \in Ids
  BY <1>2, JournalAssumption
<1>4. receipts[CallId[messages[i].call]].status = "completed"
  BY <1>1 DEF Receipt, Completed
<1>5. receipts'[CallId[messages[i].call]] = receipts[CallId[messages[i].call]]
  BY <1>3, <1>4, CompletedStays
<1> QED
  BY <1>1, <1>5 DEF Receipt

\* What was sound of a mind stays sound of it.
LEMMA SoundStays ==
  ASSUME TypeInv, JournalInv, [Next]_vars, NEW m \in Minds, Sound(m)
  PROVE  Sound(m)'
<1>1. m.messages \in Seq(Messages) /\ Faithful(m.messages)
  BY MindFields DEF Sound
<1>2. Faithful(m.messages)'
  BY <1>1, FaithfulStays
<1> QED
  BY <1>2 DEF Sound, WellFormed, AnsweredTo

\* A message that reports no result is faithful whatever the receipts say.
LEMMA FaithfulAppend ==
  ASSUME NEW messages \in Seq(Messages), Faithful(messages), NEW e \in Messages,
         e.role = "tool" /\ e.outcome # "denied" => Receipt(e.call) = Completed(e.call, e.outcome)
  PROVE  Faithful(Append(messages, e))
<1> DEFINE t == Append(messages, e)
           L == Len(messages)
<1>1. L \in Nat /\ Len(t) = L + 1 /\ t[L + 1] = e /\ \A i \in 1..L : t[i] = messages[i]
  BY AppendProperties
<1> SUFFICES ASSUME NEW i \in 1..Len(t), t[i].role = "tool", t[i].outcome # "denied"
             PROVE  Receipt(t[i].call) = Completed(t[i].call, t[i].outcome)
  BY DEF Faithful
<1>2. CASE i = L + 1
  BY <1>1, <1>2
<1>3. CASE i \in 1..L
  BY <1>1, <1>3 DEF Faithful
<1>4. i \in 1..L \/ i = L + 1
  BY <1>1
<1> QED
  BY <1>2, <1>3, <1>4

\* A fresh history is sound, and the phase of a complete turn does not matter.
LEMMA FreshSound == Sound(Fresh)
<1>1. Fresh \in Minds /\ Fresh.messages = <<>> /\ Fresh.pending = <<>>
      /\ Fresh.phase # "tool_inflight"
  BY FreshType DEF Fresh
<1>2. Positions(Fresh) /\ Faithful(Fresh.messages)
  BY <1>1 DEF Positions, Faithful
<1> QED
  BY <1>1, <1>2, WellFormedAt DEF Sound

\* Soundness reads only the messages and the pending calls, but in tool_inflight.
LEMMA SoundPhase ==
  ASSUME NEW m \in Minds, Sound(m), m.phase # "tool_inflight", NEW n \in Minds,
         n.phase # "tool_inflight", n.messages = m.messages, n.pending = m.pending
  PROVE  Sound(n)
<1>1. m.pending = <<>>
  BY DEF Sound, WellFormed
<1>2. ~CallPending(m)
  BY DEF CallPending
<1> QED
  BY <1>1, <1>2, WellFormedEnd DEF Sound

\* The steps that add to the history.
LEMMA SoundAsk ==
  ASSUME NEW m \in Minds, Sound(m), m.phase # "tool_inflight",
         NEW calls \in Seq(Calls), NEW n \in Minds,
         n.messages = Append(m.messages, Asks(calls)), n.pending = calls, n.next = 0,
         n.phase = "tool_inflight" \/ calls = <<>>
  PROVE  Sound(n)
<1>1. m.messages \in Seq(Messages) /\ Asks(calls) \in Messages /\ Asks(calls).role # "tool"
  BY MindFields DEF Asks, Messages
<1>2. Faithful(n.messages)
  BY <1>1, FaithfulAppend DEF Sound
<1> QED
  BY <1>2, WellFormedAsk DEF Sound

\* Answering the call at the cursor keeps a mind sound.
LEMMA SoundAnswer ==
  ASSUME NEW m \in Minds, Sound(m), CallPending(m), NEW r \in Outcomes, NEW n \in Minds,
         n.messages = Append(m.messages, Answer(Cursor(m), r)), n.pending = m.pending,
         n.next = m.next + 1, n.phase = "tool_inflight",
         r # "denied" => Receipt(Cursor(m)) = Completed(Cursor(m), r)
  PROVE  Sound(n)
<1>1. m.messages \in Seq(Messages) /\ Answer(Cursor(m), r) \in Messages
  BY MindFields, CursorType DEF Answer, Messages
<1>2. Faithful(n.messages)
  BY <1>1, FaithfulAppend DEF Sound, Answer
<1> QED
  BY <1>2, WellFormedAnswer DEF Sound

\* The loop's state after a step, and the checkpoint, named.
LEMMA SoundMind ==
  ASSUME NEW m \in Minds, mind' = m, Sound(m)'
  PROVE  Sound(mind)'
  BY DEF Sound, WellFormed, AnsweredTo, Faithful

\* A sound mind that is written is a sound checkpoint.
LEMMA SoundCheckpoint ==
  ASSUME NEW m \in Minds, checkpoint' = m, Sound(m)'
  PROVE  Sound(checkpoint)'
  BY DEF Sound, WellFormed, AnsweredTo, Faithful

\* A sound loop state that a step arrives at.
LEMMA ArrivesSound ==
  ASSUME TypeInv, JournalInv, [Next]_vars, NEW m \in Minds, mind' = m, Sound(m)
  PROVE  Sound(mind)'
  BY SoundStays, SoundMind

\* A checkpoint that is not written stays sound.
LEMMA SavedStaysSound ==
  ASSUME TypeInv, JournalInv, HistoryInv, [Next]_vars, UNCHANGED checkpoint
  PROVE  (checkpoint # NoCheckpoint => Sound(checkpoint))'
<1> SUFFICES ASSUME checkpoint # NoCheckpoint PROVE Sound(checkpoint)'
  OBVIOUS
<1>1. PICK m \in Minds : m = checkpoint
  BY CheckpointIs
<1>2. Sound(m)
  BY <1>1 DEF HistoryInv
<1>3. Sound(m)'
  BY <1>2, SoundStays
<1> QED
  BY <1>1, <1>3, SoundCheckpoint

\* What a step that appends to the conversation leaves in the loop is sound.
LEMMA TurnSound ==
  ASSUME TypeInv, JournalInv, HistoryInv, Turn, TypeInv', pc' \in Holding, NEW n \in Minds, n = mind'
  PROVE  Sound(n)
<1>1. pc \in Working /\ pc \in {"loop", "model"}
  BY DEF Turn, Exhausted, AskModel, ModelAsksForTools, ModelAnswers, NextTool, EndOfTools, Working
<1>2. PICK m \in Minds : m = mind
  BY DEF TypeInv, TypeOK
<1>3. Sound(m)
  BY <1>1, <1>2 DEF HistoryInv, Holding
<1>4. CASE Exhausted
  BY <1>4 DEF Exhausted, Stop, Holding, Working, ToolPcs
<1>5. CASE NextTool
  BY <1>2, <1>3, <1>5 DEF NextTool, volatile
<1>6. CASE AskModel
  <2>1. n.messages = m.messages /\ n.pending = m.pending /\ n.phase = "model_inflight"
        /\ m.phase # "tool_inflight"
    BY <1>2, <1>6 DEF AskModel, Minds
  <2> QED
    BY <1>3, <2>1, SoundPhase
<1>7. CASE ModelAsksForTools
  <2>1. PICK calls \in SeqOf(Calls, MaxCalls) \ {<<>>} :
          mind' = [mind EXCEPT !.phase = "tool_inflight", !.pending = calls, !.next = 0,
                               !.messages = Append(@, Asks(calls))]
    BY <1>7 DEF ModelAsksForTools
  <2>2. calls \in Seq(Calls)
    BY AnswersType
  <2>3. /\ n.messages = Append(m.messages, Asks(calls)) /\ n.pending = calls /\ n.next = 0
        /\ n.phase = "tool_inflight"
    BY <1>2, <2>1 DEF Minds
  <2>4. m.phase # "tool_inflight"
    BY <1>2, <1>7 DEF ModelAsksForTools, JournalInv, MindIsSaved
  <2> QED
    BY <1>3, <2>2, <2>3, <2>4, SoundAsk
<1>8. CASE ModelAnswers
  <2>1. Says = Asks(<<>>)
    BY DEF Says, Asks
  <2>2. m.phase # "tool_inflight"
    BY <1>2, <1>8 DEF ModelAnswers, JournalInv, MindIsSaved
  <2>3. n.messages = Append(m.messages, Says) /\ n.pending = m.pending
        /\ n.phase = "succeeded"
    BY <1>2, <1>8 DEF ModelAnswers, Minds
  <2>4. m.pending = <<>> /\ <<>> \in Seq(Calls)
    BY <1>3, <2>2 DEF Sound, WellFormed
  <2> DEFINE k == [n EXCEPT !.next = 0]
  <2>5. k \in Minds /\ k.messages = n.messages /\ k.pending = <<>> /\ k.next = 0
        /\ k.phase = "succeeded"
    BY <2>3, <2>4 DEF Minds
  <2>6. Sound(k)
    BY <1>3, <2>1, <2>2, <2>3, <2>4, <2>5, SoundAsk
  <2> QED
    BY <2>3, <2>4, <2>5, <2>6, SoundPhase
<1>9. CASE EndOfTools
  <2>1. n.messages = m.messages /\ n.pending = <<>> /\ n.phase # "tool_inflight"
        /\ ~CallPending(m)
    BY <1>2, <1>9 DEF EndOfTools, Minds
  <2> QED
    BY <1>3, <2>1, WellFormedEnd DEF Sound
<1> QED
  BY <1>4, <1>5, <1>6, <1>7, <1>8, <1>9 DEF Turn

\* Answering the call in hand keeps it sound; the other steps of the tool leave it
\* alone.
LEMMA ToolSound ==
  ASSUME TypeInv, JournalInv, HistoryInv, RunTool, pc' \in Holding, NEW n \in Minds, n = mind'
  PROVE  Sound(n)
<1>1. pc \in ToolPcs
  BY DEF RunTool, ToolPcs, Deny, Approve, BeginCall, ReuseResult, RetryCall, RefuseCall,
         ExecuteTool, CompleteCall, Push
<1>2. PICK m \in Minds : m = mind
  BY DEF TypeInv, TypeOK
<1>3. Sound(m)
  BY <1>1, <1>2 DEF HistoryInv, Holding, Working
<1>4. CASE Push
  <2>1. CallPending(m) /\ result \in Outcomes
    BY <1>1, <1>2 DEF TypeInv, TypeOK, CallInHand
  <2>2. /\ n.messages = Append(m.messages, Answer(Cursor(m), result)) /\ n.pending = m.pending
        /\ n.next = m.next + 1 /\ n.phase = "tool_inflight"
    BY <1>2, <1>4, <2>1 DEF Push, Minds, InHand, CallPending
  <2>3. result # "denied" => Receipt(Cursor(m)) = Completed(Cursor(m), result)
    BY <1>2, <1>4 DEF Push, JournalInv, OutcomeInHand, InHand
  <2> QED
    BY <1>3, <2>1, <2>2, <2>3, SoundAnswer
<1>5. CASE ~Push
  <2>1. mind' = mind
    BY <1>5 DEF RunTool, Deny, Approve, BeginCall, ReuseResult, RetryCall, RefuseCall,
                ExecuteTool, CompleteCall, Stop, volatile, Holding, Working, ToolPcs
  <2> QED
    BY <1>2, <1>3, <2>1
<1> QED
  BY <1>4, <1>5

\* What a task goes on from is what was saved.
LEMMA LoadSound ==
  ASSUME TypeInv, JournalInv, HistoryInv, Load, pc' \in Holding, NEW n \in Minds, n = mind'
  PROVE  Sound(n)
<1>1. CASE LoadSucceeded \/ Return
  BY <1>1 DEF LoadSucceeded, Return, Holding, Working, ToolPcs
<1>2. CASE LoadNothing
  BY <1>2, FreshSound DEF LoadNothing
<1>3. CASE LoadCheckpoint
  <2>1. PICK m \in Minds : m = checkpoint
    BY <1>3, CheckpointPhase DEF LoadCheckpoint
  <2>2. Sound(m)
    BY <1>3, <2>1, CheckpointPhase DEF LoadCheckpoint, HistoryInv
  <2>3. \/ n = m
        \/ m.phase # "tool_inflight" /\ n = [m EXCEPT !.phase = "succeeded"]
    BY <1>3, <2>1 DEF LoadCheckpoint, ContinueFrom, Stop, Holding, Working, ToolPcs
  <2>4. CASE n = m
    BY <2>2, <2>4
  <2>5. CASE m.phase # "tool_inflight" /\ n = [m EXCEPT !.phase = "succeeded"]
    <3>1. n.messages = m.messages /\ n.pending = m.pending /\ n.phase = "succeeded"
      BY <2>5 DEF Minds
    <3> QED
      BY <2>2, <2>5, <3>1, SoundPhase
  <2> QED
    BY <2>3, <2>4, <2>5
<1> QED
  BY <1>1, <1>2, <1>3 DEF Load

\* Every step keeps mind and checkpoint sound.
LEMMA HistoryStep ==
  ASSUME TypeInv, JournalInv, HistoryInv, [Next]_vars, TypeInv'
  PROVE  HistoryInv'
<1>1. PICK n \in Minds : n = mind'
  BY DEF TypeInv, TypeOK
<1>2. ASSUME Sound(n) PROVE Sound(mind)'
  BY <1>1, <1>2, ArrivesSound
<1>3. CASE SaveCheckpoint
  <2>1. pc = "saving" /\ checkpoint' = mind
    BY <1>3, SavesAreAccepted DEF SaveCheckpoint, SaveNeverRefused
  <2>2. PICK m \in Minds : m = mind
    BY DEF TypeInv, TypeOK
  <2>3. Sound(m)
    BY <2>1, <2>2 DEF HistoryInv, Holding
  <2>4. Sound(checkpoint)'
    BY <2>1, <2>2, <2>3, SoundStays, SoundCheckpoint
  <2>5. pc' \in Holding => mind' = mind
    BY <1>3 DEF SaveCheckpoint, AfterSave, Stop, volatile, Holding, Working, ToolPcs
  <2>6. pc' \in Holding => Sound(mind)'
    BY <1>1, <1>2, <2>2, <2>3, <2>5
  <2> QED
    BY <2>4, <2>6 DEF HistoryInv
<1>4. CASE ~SaveCheckpoint
  <2>1. UNCHANGED checkpoint
    BY <1>4 DEF Next, Work, Load, LoadSucceeded, LoadCheckpoint, LoadNothing, Return, Turn,
      Exhausted, AskModel, ModelAsksForTools, ModelAnswers, NextTool, EndOfTools, RunTool, Deny,
      Approve, BeginCall, ReuseResult, RetryCall, RefuseCall, ExecuteTool, CompleteCall, Push,
      Interrupt, Resume, vars, durable
  <2>2. (checkpoint # NoCheckpoint => Sound(checkpoint))'
    BY <2>1, SavedStaysSound
  <2>3. ASSUME pc' \in Holding PROVE Sound(n)
    <3>1. CASE Interrupt \/ Resume
      BY <2>3, <3>1 DEF Interrupt, Resume, Stop, Holding, Working, ToolPcs
    <3>2. CASE UNCHANGED vars
      BY <1>1, <2>3, <3>2 DEF vars, volatile, HistoryInv
    <3> QED
      BY <1>1, <1>4, <2>3, <3>1, <3>2, LoadSound, TurnSound, ToolSound DEF Next, Work
  <2> QED
    BY <1>2, <2>2, <2>3 DEF HistoryInv
<1> QED
  BY <1>3, <1>4

\* Mind and checkpoint are sound in every reachable state.
LEMMA HistoryInvCorrect == Spec => []HistoryInv
<1>1. Init => HistoryInv
  BY DEF Init, HistoryInv, Holding, Working, ToolPcs
<1>2. TypeInv /\ TypeInv' /\ JournalInv /\ HistoryInv /\ [Next]_vars => HistoryInv'
  BY HistoryStep
<1> QED
  BY <1>1, <1>2, TypeInvCorrect, JournalInvCorrect, PTL DEF Spec

\* Wherever a task stops, what it leaves on disk is enough to go on from: the
\* saved conversation is complete, ordered and says what the receipts say, the
\* inspection before a resume is exact, and no later save is refused.
THEOREM CheckpointsAreSoundCorrect == Spec => []CheckpointsAreSound
<1>1. TypeInv /\ JournalInv /\ HistoryInv => CheckpointsAreSound
  <2> SUFFICES ASSUME TypeInv, JournalInv, HistoryInv PROVE CheckpointsAreSound
    OBVIOUS
  <2>1. HistoryMatchesReceipts
    <3> SUFFICES ASSUME checkpoint # NoCheckpoint, NEW m \in Range(checkpoint.messages),
                        m.role = "tool", m.outcome # "denied"
                 PROVE  Receipt(m.call) = Completed(m.call, m.outcome)
      BY DEF HistoryMatchesReceipts
    <3>1. checkpoint.messages \in Seq(Messages)
      BY CheckpointIs, MindFields
    <3>2. PICK i \in 1..Len(checkpoint.messages) : m = checkpoint.messages[i]
      BY <3>1 DEF Range
    <3> QED
      BY <3>2 DEF HistoryInv, Sound, Faithful
  <2>2. ConversationWellFormed
    BY DEF ConversationWellFormed, HistoryInv, Sound
  <2> QED
    BY <2>1, <2>2, SavesAreAccepted, InspectionIsSound DEF CheckpointsAreSound
<1> QED
  BY <1>1, TypeInvCorrect, JournalInvCorrect, HistoryInvCorrect, PTL

-----------------------------------------------------------------------------
(* The turns of an execution.                                              *)

\* What the executions so far may have used.
Allowed(n) == MaxTurns * n

\* Each resumption allows MaxTurns turns more.
LEMMA AllowedGrows ==
  ASSUME NEW n \in Nat
  PROVE  /\ Allowed(n) \in Nat /\ Allowed(n + 1) = Allowed(n) + MaxTurns
         /\ Allowed(n) <= Allowed(n + 1)
<1>1. MaxTurns \in Nat
  BY AgentLoopAssumption
<1>2. MaxTurns * n \in Nat /\ MaxTurns * (n + 1) = MaxTurns * n + MaxTurns
  BY <1>1
<1> QED
  BY <1>1, <1>2 DEF Allowed

\* A resume starts from what the earlier executions were allowed, an execution
\* stays within its limit, and a turn is only begun below it.
TurnInv ==
  /\ checkpoint # NoCheckpoint => checkpoint.turn <= Allowed(resumes + 1)
  /\ pc = "load" /\ checkpoint # NoCheckpoint => checkpoint.turn <= Allowed(resumes)
  /\ pc \in Holding => mind.turn <= turnLimit /\ turnLimit <= Allowed(resumes + 1)
  /\ pc \in Working \ {"loop"} => TurnsLeft
  /\ pc = "saving" /\ mind.phase = "model_inflight" => TurnsLeft

\* Every step keeps the turns within what was allowed.
LEMMA TurnStep ==
  ASSUME TypeInv, JournalInv, TurnInv, [Next]_vars
  PROVE  TurnInv'
<1>1. /\ resumes \in Nat /\ turnLimit \in Nat /\ mind \in Minds /\ mind.turn \in Nat
      /\ MaxTurns \in Nat
      /\ checkpoint # NoCheckpoint => checkpoint \in Minds /\ checkpoint.turn \in Nat
  BY MindFields, CheckpointIs, AgentLoopAssumption DEF TypeInv, TypeOK
<1>2. /\ Allowed(resumes) \in Nat /\ Allowed(resumes + 1) = Allowed(resumes) + MaxTurns
      /\ Allowed(resumes) <= Allowed(resumes + 1)
  BY <1>1, AllowedGrows
<1>3. ASSUME UNCHANGED <<checkpoint, resumes>>, pc' \notin Holding \cup {"load"}
      PROVE  TurnInv'
  BY <1>3 DEF TurnInv, Holding
<1>4. CASE Load
  <2>1. UNCHANGED <<checkpoint, resumes>> /\ pc \in {"load", "returning"}
    BY <1>4 DEF Load, LoadSucceeded, LoadCheckpoint, LoadNothing, Return, durable
  <2>2. CASE pc' \notin Holding
    <3>1. pc' # "load"
      BY <1>4 DEF Load, LoadSucceeded, LoadCheckpoint, LoadNothing, Return, ContinueFrom, Stop
    <3> QED
      BY <1>3, <2>1, <2>2, <3>1
  <2>3. CASE LoadNothing
    BY <1>1, <1>2, <2>1, <2>3
    DEF LoadNothing, TurnInv, Fresh, Allowed, Holding, Working, ToolPcs, TurnsLeft
  <2>4. CASE LoadCheckpoint /\ pc' \in Holding
    <3>1. checkpoint \in Minds /\ checkpoint # NoCheckpoint /\ pc = "load"
      BY <2>4, CheckpointPhase DEF LoadCheckpoint
    <3>2. checkpoint.turn <= Allowed(resumes) /\ checkpoint.turn \in Nat
      BY <1>1, <3>1 DEF TurnInv
    <3>3. /\ turnLimit' = checkpoint.turn + MaxTurns
          /\ pc' \in {"loop", "saving"}
          /\ mind' = checkpoint \/ mind' = [checkpoint EXCEPT !.phase = "succeeded"]
          /\ pc' = "saving" => mind' = [checkpoint EXCEPT !.phase = "succeeded"]
      BY <2>4 DEF LoadCheckpoint, ContinueFrom, Stop, Holding, Working, ToolPcs
    <3>4. mind'.turn = checkpoint.turn
      BY <3>1, <3>3 DEF Minds
    <3>5. pc' = "saving" => mind'.phase = "succeeded"
      BY <3>1, <3>3 DEF Minds
    <3>6. mind'.turn <= turnLimit' /\ turnLimit' <= Allowed(resumes + 1)
      BY <1>1, <1>2, <3>2, <3>3, <3>4
    <3> QED
      BY <2>1, <3>3, <3>5, <3>6 DEF TurnInv, Working, ToolPcs
  <2>5. LoadSucceeded \/ Return => pc' \notin Holding
    BY DEF LoadSucceeded, Return, Holding, Working, ToolPcs
  <2> QED
    BY <1>4, <2>2, <2>3, <2>4, <2>5 DEF Load
<1>5. CASE SaveCheckpoint
  <2>1. pc = "saving" /\ checkpoint' = mind /\ UNCHANGED resumes /\ AfterSave
    BY <1>5, SavesAreAccepted DEF SaveCheckpoint, SaveNeverRefused
  <2>2. mind.turn <= turnLimit /\ turnLimit <= Allowed(resumes + 1)
    BY <2>1 DEF TurnInv, Holding
  <2>3. checkpoint'.turn <= Allowed(resumes + 1)
    BY <1>1, <1>2, <2>1, <2>2
  <2>4. CASE Stop
    BY <2>1, <2>3, <2>4 DEF Stop, TurnInv, Holding, Working, ToolPcs
  <2>5. CASE ~Stop
    <3>1. UNCHANGED <<mind, turnLimit>> /\ pc' \in {"loop", "model", "returning"}
          /\ (pc' = "model" => mind.phase = "model_inflight")
      BY <2>1, <2>5 DEF AfterSave, Onward, volatile
    <3>2. pc' = "model" => TurnsLeft
      BY <2>1, <3>1 DEF TurnInv
    <3> QED
      BY <2>1, <2>2, <2>3, <3>1, <3>2 DEF TurnInv, Working, ToolPcs, Holding, TurnsLeft
  <2> QED
    BY <2>4, <2>5
<1>6. CASE Turn
  <2>1. UNCHANGED <<checkpoint, resumes>> /\ pc \in {"loop", "model"}
    BY <1>6 DEF Turn, Exhausted, AskModel, ModelAsksForTools, ModelAnswers, NextTool, EndOfTools,
                durable
  <2>2. mind.turn <= turnLimit /\ turnLimit <= Allowed(resumes + 1)
    BY <2>1 DEF TurnInv, Holding, Working
  <2>3. CASE Exhausted
    BY <1>3, <2>1, <2>3 DEF Exhausted, Stop, Holding, Working, ToolPcs
  <2>4. CASE NextTool
    BY <2>1, <2>4 DEF NextTool, volatile, TurnInv, Holding, Working, ToolPcs, TurnsLeft
  <2>5. CASE AskModel
    <3>1. mind'.turn = mind.turn /\ turnLimit' = turnLimit /\ pc' = "saving" /\ TurnsLeft
      BY <1>1, <2>5 DEF AskModel, Minds
    <3> QED
      BY <2>1, <2>2, <3>1 DEF TurnInv, Working, ToolPcs, TurnsLeft
  <2>6. CASE ModelAsksForTools
    <3>1. mind'.turn = mind.turn /\ mind'.phase = "tool_inflight"
      BY <1>1, <2>6 DEF ModelAsksForTools, Minds
    <3>2. turnLimit' = turnLimit /\ pc' = "saving"
      BY <2>6 DEF ModelAsksForTools
    <3> QED
      BY <2>1, <2>2, <3>1, <3>2 DEF TurnInv, Working, ToolPcs
  <2>7. CASE ModelAnswers \/ EndOfTools
    <3>1. TurnsLeft
      BY <2>7 DEF ModelAnswers, EndOfTools, TurnInv, Working, ToolPcs
    <3>2. /\ mind'.turn = mind.turn + 1 /\ mind'.phase # "model_inflight"
          /\ turnLimit' = turnLimit /\ pc' = "saving"
      BY <1>1, <2>7 DEF ModelAnswers, EndOfTools, Minds
    <3>3. mind'.turn <= turnLimit'
      BY <1>1, <3>1, <3>2 DEF TurnsLeft
    <3> QED
      BY <2>1, <2>2, <3>2, <3>3 DEF TurnInv, Working, ToolPcs
  <2> QED
    BY <1>6, <2>3, <2>4, <2>5, <2>6, <2>7 DEF Turn
<1>7. CASE RunTool
  <2>1. UNCHANGED <<checkpoint, resumes>> /\ pc \in ToolPcs
    BY <1>7 DEF RunTool, ToolPcs, Deny, Approve, BeginCall, ReuseResult, RetryCall, RefuseCall,
                ExecuteTool, CompleteCall, Push, durable
  <2>2. mind.turn <= turnLimit /\ turnLimit <= Allowed(resumes + 1) /\ TurnsLeft
    BY <2>1 DEF TurnInv, Holding, Working, ToolPcs
  <2>3. CASE RefuseCall
    BY <1>3, <2>1, <2>3 DEF RefuseCall, Stop, Holding, Working, ToolPcs
  <2>4. CASE ~RefuseCall
    <3>1. mind'.turn = mind.turn /\ turnLimit' = turnLimit
      BY <1>1, <1>7, <2>4 DEF RunTool, Deny, Approve, BeginCall, ReuseResult, RetryCall,
           ExecuteTool, CompleteCall, Push, volatile, Minds
    <3>2. pc' # "load"
      BY <1>7, <2>4 DEF RunTool, Deny, Approve, BeginCall, ReuseResult, RetryCall,
           ExecuteTool, CompleteCall, Push
    <3> QED
      BY <2>1, <2>2, <3>1, <3>2 DEF TurnInv, TurnsLeft
  <2> QED
    BY <2>3, <2>4
<1>8. CASE Interrupt
  BY <1>3, <1>8 DEF Interrupt, Stop, durable, Holding, Working, ToolPcs
<1>9. CASE Resume
  <2>1. resumes' = resumes + 1 /\ UNCHANGED checkpoint /\ pc' \in {"load", "blocked"}
    BY <1>9 DEF Resume, durable
  <2>2. /\ Allowed(resumes') \in Nat /\ Allowed(resumes' + 1) \in Nat
        /\ Allowed(resumes') <= Allowed(resumes' + 1)
    BY <1>1, <2>1, AllowedGrows
  <2>3. checkpoint # NoCheckpoint => checkpoint.turn <= Allowed(resumes')
    BY <2>1 DEF TurnInv
  <2>4. checkpoint # NoCheckpoint => checkpoint.turn <= Allowed(resumes' + 1)
    BY <1>1, <2>1, <2>2, <2>3
  <2> QED
    BY <2>1, <2>3, <2>4 DEF TurnInv, Holding, Working, ToolPcs
<1>10. CASE UNCHANGED vars
  BY <1>10 DEF vars, durable, volatile, TurnInv, TurnsLeft
<1> QED
  BY <1>4, <1>5, <1>6, <1>7, <1>8, <1>9, <1>10 DEF Next, Work

\* However often a task is resumed, its turns stay within the executions it had.
THEOREM TurnBudgetCorrect == Spec => []TurnBudget
<1>1. Init => TurnInv
  BY DEF Init, TurnInv, Holding, Working, ToolPcs
<1>2. TypeInv /\ JournalInv /\ TurnInv /\ [Next]_vars => TurnInv'
  BY TurnStep
<1>3. TurnInv => TurnBudget
  BY DEF TurnInv, TurnBudget, Allowed
<1> QED
  BY <1>1, <1>2, <1>3, TypeInvCorrect, JournalInvCorrect, PTL DEF Spec

-----------------------------------------------------------------------------
(* The reviewer's revisions.                                               *)

\* The answers that ask for a revision, whatever tool gave them.
Revisions(messages) ==
  {i \in 1..Len(messages) : messages[i].role = "tool" /\ messages[i].outcome = "revise"}

\* Of a finite conversation the revisions can be counted.
LEMMA RevisionsFinite ==
  ASSUME NEW messages \in Seq(Messages)
  PROVE  IsFiniteSet(Revisions(messages)) /\ Cardinality(Revisions(messages)) \in Nat
<1>1. IsFiniteSet(1..Len(messages))
  BY FS_Interval
<1>2. Revisions(messages) \subseteq 1..Len(messages)
  BY DEF Revisions
<1>3. IsFiniteSet(Revisions(messages))
  BY <1>1, <1>2, FS_Subset
<1> QED
  BY <1>3, FS_CardinalityType

\* A message appended is a revision more or none.
LEMMA RevisionsAppend ==
  ASSUME NEW messages \in Seq(Messages), NEW e \in Messages
  PROVE  Cardinality(Revisions(Append(messages, e))) =
           Cardinality(Revisions(messages))
             + (IF e.role = "tool" /\ e.outcome = "revise" THEN 1 ELSE 0)
<1> DEFINE t == Append(messages, e)
           L == Len(messages)
<1>1. L \in Nat /\ Len(t) = L + 1 /\ t[L + 1] = e /\ \A i \in 1..L : t[i] = messages[i]
  BY AppendProperties
<1>2. IsFiniteSet(Revisions(messages)) /\ Cardinality(Revisions(messages)) \in Nat
  BY RevisionsFinite
<1> HIDE DEF t, L
<1>3. L = Len(messages) /\ 1..(L + 1) = 1..L \cup {L + 1} /\ L + 1 \notin 1..L
  BY <1>1 DEF L
<1>4. CASE e.role = "tool" /\ e.outcome = "revise"
  <2>1. Revisions(t) = Revisions(messages) \cup {L + 1}
    BY <1>1, <1>3, <1>4 DEF Revisions
  <2>2. L + 1 \notin Revisions(messages)
    BY <1>3 DEF Revisions
  <2>3. Cardinality(Revisions(messages) \cup {L + 1}) = Cardinality(Revisions(messages)) + 1
    BY <1>2, <2>2, FS_AddElement
  <2> QED
    BY <1>4, <2>1, <2>3 DEF t
<1>5. CASE ~(e.role = "tool" /\ e.outcome = "revise")
  <2>1. Revisions(t) = Revisions(messages)
    BY <1>1, <1>3, <1>5 DEF Revisions
  <2> QED
    BY <1>2, <1>5, <2>1 DEF t
<1> QED
  BY <1>4, <1>5

\* In a sound history every answer was asked for.
LEMMA AnswersWereAsked ==
  ASSUME NEW m \in Minds, WellFormed(m), NEW j \in 1..Len(m.messages),
         m.messages[j].role = "tool"
  PROVE  \E a \in Range(m.messages) : a.role = "assistant" /\ m.messages[j].call \in Range(a.calls)
<1> DEFINE s == m.messages
<1>1. s \in Seq(Messages)
  BY MindFields
<1>2. PICK i \in 1..Len(s) : AskAt(s, i) /\ j - i \in 1..Len(s[i].calls)
  <2>1. ~AskAt(s, j)
    BY DEF AskAt
  <2> QED
    BY <2>1, WellFormedAt DEF Positions
<1>3. s[j].call = s[i].calls[j - i]
  BY <1>2, WellFormedAt DEF Positions
<1>4. s[i].calls \in Seq(Calls)
  BY <1>1, <1>2, MessageAt DEF AskAt
<1>5. s[j].call \in Range(s[i].calls)
  BY <1>2, <1>3, <1>4 DEF Range
<1>6. s[i] \in Range(s)
  BY <1>1 DEF Range
<1> QED
  BY <1>2, <1>5, <1>6 DEF AskAt

\* countArtifactReviewRevisions counts every revision: a revision comes from an
\* artifact call that was asked for.
LEMMA CountsRevisions ==
  ASSUME TypeInv, JournalInv, NEW m \in Minds, Sound(m)
  PROVE  ReviewCount(m.messages) = Cardinality(Revisions(m.messages))
<1> DEFINE s == m.messages
<1>1. s \in Seq(Messages) /\ DOMAIN s = 1..Len(s)
  BY MindFields
<1>2. ASSUME NEW j \in Revisions(s) PROVE CallId[s[j].call] \in ArtifactIds(s)
  <2>1. j \in 1..Len(s) /\ s[j].role = "tool" /\ s[j].outcome = "revise"
    BY <1>2 DEF Revisions
  <2>2. Receipt(s[j].call) = Completed(s[j].call, "revise")
    BY <2>1 DEF Sound, Faithful
  <2>3. s[j].call \in Calls /\ CallId[s[j].call] \in Ids
    BY <1>1, <2>1, MessageAt, JournalAssumption
  <2>4. s[j].call \in ArtifactCalls
    <3>1. /\ receipts[CallId[s[j].call]].status = "completed"
          /\ receipts[CallId[s[j].call]].result = "revise"
          /\ receipts[CallId[s[j].call]].call = s[j].call
      BY <2>2 DEF Receipt, Completed
    <3> QED
      BY <2>3, <3>1 DEF JournalInv, ReceiptsAreNamed
  <2>5. \E a \in Range(s) : a.role = "assistant" /\ s[j].call \in Range(a.calls)
    BY <2>1, AnswersWereAsked DEF Sound
  <2> QED
    BY <2>4, <2>5 DEF ArtifactIds
<1>3. {i \in DOMAIN s : ArtifactAnswer(s, s[i]) /\ s[i].outcome = "revise"} = Revisions(s)
  BY <1>1, <1>2 DEF Revisions, ArtifactAnswer
<1> QED
  BY <1>3 DEF ReviewCount

\* The count in memory is the count of the history, or one behind it while the
\* revision is being saved.
Rejected(messages) == Cardinality(Revisions(messages))

ReviewInv ==
  /\ pc \in {"load", "stopped"} => reviews = 0
  /\ pc \in Holding =>
       /\ reviews < MaxReviews
       /\ Rejected(mind.messages) =
            IF pc = "saving" /\ RejectedByReviewer THEN reviews + 1 ELSE reviews

\* Only an artifact call is sent back for revision.
LEMMA RejectedByOutcome ==
  ASSUME TypeInv, JournalInv, pc = "push"
  PROVE  result = "revise" => InHand \in ArtifactCalls
<1>1. InHand \in Calls /\ CallId[InHand] \in Ids
  BY CallInHandFacts DEF ToolPcs
<1>2. result = "revise" => Receipt(InHand) = Completed(InHand, "revise")
  BY DEF JournalInv, OutcomeInHand
<1> QED
  BY <1>1, <1>2 DEF JournalInv, ReceiptsAreNamed, Receipt, Completed

\* Every step keeps the revisions counted and within their bound.
LEMMA ReviewStep ==
  ASSUME TypeInv, JournalInv, HistoryInv, ReviewInv, [Next]_vars
  PROVE  ReviewInv'
<1>1. reviews \in Nat /\ mind \in Minds /\ mind.messages \in Seq(Messages)
      /\ MaxReviews \in Nat \ {0}
  BY MindFields, AgentLoopAssumption DEF TypeInv, TypeOK
<1>2. ASSUME Stop PROVE ReviewInv'
  BY <1>2 DEF Stop, ReviewInv, Holding, Working, ToolPcs
<1>3. ASSUME UNCHANGED <<mind, reviews>>, pc \in Working, pc' \in Working
      PROVE  ReviewInv'
  <2>1. reviews < MaxReviews /\ Rejected(mind.messages) = reviews
    BY <1>3 DEF ReviewInv, Holding, Working, ToolPcs
  <2> QED
    BY <1>3, <2>1 DEF ReviewInv, Holding, Working, ToolPcs
<1>4. CASE Load
  <2>1. CASE LoadSucceeded \/ Return
    BY <2>1 DEF LoadSucceeded, Return, ReviewInv, Holding, Working, ToolPcs
  <2>2. CASE LoadNothing
    <3>1. reviews' = 0 /\ mind' = Fresh /\ pc' = "saving"
      BY <2>2 DEF LoadNothing, ReviewInv
    <3>2. Revisions(<<>>) = {}
      BY DEF Revisions
    <3>3. Rejected(Fresh.messages) = 0
      BY <3>2, FS_EmptySet DEF Rejected, Fresh
    <3>4. ~RejectedByReviewer'
      BY <3>1 DEF RejectedByReviewer, Fresh
    <3> QED
      BY <1>1, <3>1, <3>3, <3>4 DEF ReviewInv
  <2>3. CASE LoadCheckpoint
    <3>1. CASE Stop
      BY <1>2, <3>1
    <3>2. CASE ~Stop
      <4>1. checkpoint \in Minds /\ Sound(checkpoint)
        BY <2>3, CheckpointPhase DEF LoadCheckpoint, HistoryInv
      <4>2. ReviewCount(checkpoint.messages) = Rejected(checkpoint.messages)
            /\ Rejected(checkpoint.messages) \in Nat
        BY <4>1, CountsRevisions, RevisionsFinite, MindFields DEF Rejected
      <4>3. /\ reviews' = Rejected(checkpoint.messages)
            /\ Rejected(checkpoint.messages) < MaxReviews
            /\ pc' \in {"saving", "loop"}
            /\ mind' = checkpoint \/ mind' = [checkpoint EXCEPT !.phase = "succeeded"]
            /\ pc' = "saving" => mind' = [checkpoint EXCEPT !.phase = "succeeded"]
        BY <1>1, <2>3, <3>2, <4>2 DEF LoadCheckpoint, ContinueFrom
      <4>4. mind'.messages = checkpoint.messages /\ (pc' = "saving" => mind'.phase = "succeeded")
        BY <4>1, <4>3 DEF Minds
      <4>5. ~(pc' = "saving" /\ RejectedByReviewer')
        BY <4>4 DEF RejectedByReviewer
      <4> QED
        BY <4>3, <4>4, <4>5 DEF ReviewInv
    <3> QED
      BY <3>1, <3>2
  <2> QED
    BY <1>4, <2>1, <2>2, <2>3 DEF Load
<1>5. CASE SaveCheckpoint
  <2>1. pc = "saving" /\ AfterSave
    BY <1>5, SavesAreAccepted DEF SaveCheckpoint, SaveNeverRefused
  <2>2. /\ reviews < MaxReviews
        /\ Rejected(mind.messages) = IF RejectedByReviewer THEN reviews + 1 ELSE reviews
    BY <2>1 DEF ReviewInv, Holding
  <2>3. CASE Stop
    BY <1>2, <2>3
  <2>4. CASE ~Stop /\ RejectedByReviewer
    <3>1. reviews' = reviews + 1 /\ pc' = "loop" /\ mind' = mind /\ reviews + 1 < MaxReviews
      BY <1>1, <2>1, <2>4 DEF AfterSave
    <3> QED
      BY <2>2, <2>4, <3>1 DEF ReviewInv
  <2>5. CASE ~Stop /\ ~RejectedByReviewer
    <3>1. reviews' = reviews /\ mind' = mind /\ pc' \in {"returning", "model", "loop"}
      BY <2>1, <2>5 DEF AfterSave, Onward, volatile
    <3> QED
      BY <2>2, <2>5, <3>1 DEF ReviewInv
  <2> QED
    BY <2>3, <2>4, <2>5
<1>6. CASE Turn
  <2>1. pc \in {"loop", "model"}
    BY <1>6 DEF Turn, Exhausted, AskModel, ModelAsksForTools, ModelAnswers, NextTool, EndOfTools
  <2>2. reviews < MaxReviews /\ Rejected(mind.messages) = reviews
    BY <2>1 DEF ReviewInv, Holding, Working
  <2>3. CASE Exhausted
    BY <1>2, <2>3 DEF Exhausted
  <2>4. CASE NextTool
    BY <1>3, <2>1, <2>4 DEF NextTool, volatile, Working, ToolPcs
  <2>5. CASE AskModel \/ ModelAsksForTools \/ ModelAnswers \/ EndOfTools
    <3>1. pc' = "saving" /\ reviews' = reviews
      BY <2>5 DEF AskModel, ModelAsksForTools, ModelAnswers, EndOfTools
    <3>2. ~RejectedByReviewer'
      <4>1. mind'.phase # "tool_inflight" \/ mind'.next = 0
        BY <1>1, <2>5 DEF AskModel, ModelAsksForTools, ModelAnswers, EndOfTools, Minds
      <4> QED
        BY <4>1 DEF RejectedByReviewer
    <3>3. Rejected(mind'.messages) = Rejected(mind.messages)
      <4>1. CASE AskModel \/ EndOfTools
        BY <1>1, <4>1 DEF AskModel, EndOfTools, Minds
      <4>2. ASSUME NEW e \in Messages, e.role = "assistant",
                   mind'.messages = Append(mind.messages, e)
            PROVE  Rejected(mind'.messages) = Rejected(mind.messages)
        <5>1. Cardinality(Revisions(Append(mind.messages, e)))
                = Cardinality(Revisions(mind.messages)) + 0
          BY <1>1, <4>2, RevisionsAppend
        <5>2. Cardinality(Revisions(mind.messages)) \in Nat
          BY <1>1, RevisionsFinite
        <5> QED
          BY <4>2, <5>1, <5>2 DEF Rejected
      <4>3. CASE ModelAnswers
        <5>1. Says \in Messages /\ Says.role = "assistant"
          BY DEF Says, Messages
        <5>2. mind'.messages = Append(mind.messages, Says)
          BY <1>1, <4>3 DEF ModelAnswers, Minds
        <5> QED
          BY <4>2, <5>1, <5>2
      <4>4. CASE ModelAsksForTools
        <5>1. PICK calls \in SeqOf(Calls, MaxCalls) \ {<<>>} :
                mind' = [mind EXCEPT !.phase = "tool_inflight", !.pending = calls, !.next = 0,
                                     !.messages = Append(@, Asks(calls))]
          BY <4>4 DEF ModelAsksForTools
        <5>2. Asks(calls) \in Messages /\ Asks(calls).role = "assistant"
          BY AnswersType DEF Asks, Messages
        <5>3. mind'.messages = Append(mind.messages, Asks(calls))
          BY <1>1, <5>1 DEF Minds
        <5> QED
          BY <4>2, <5>2, <5>3
      <4> QED
        BY <2>5, <4>1, <4>3, <4>4
    <3> QED
      BY <2>2, <3>1, <3>2, <3>3 DEF ReviewInv
  <2> QED
    BY <1>6, <2>3, <2>4, <2>5 DEF Turn
<1>7. CASE RunTool
  <2>1. CASE RefuseCall
    BY <1>2, <2>1 DEF RefuseCall
  <2>2. CASE Push
    <3>1. /\ pc = "push" /\ pc' = "saving" /\ reviews' = reviews /\ result' = result
          /\ result \in Outcomes
      BY <2>2 DEF Push, TypeInv, TypeOK
    <3>2. reviews < MaxReviews /\ Rejected(mind.messages) = reviews
      BY <3>1 DEF ReviewInv, Holding, Working, ToolPcs
    <3>3. InHand \in Calls /\ CallPending(mind)
      BY <3>1, CallInHandFacts DEF ToolPcs
    <3>4. /\ mind'.messages = Append(mind.messages, Answer(InHand, result))
          /\ mind'.next = mind.next + 1 /\ mind'.pending = mind.pending
          /\ mind'.phase = mind.phase
      BY <1>1, <2>2 DEF Push, Minds
    <3>5. RejectedByReviewer' <=> result = "revise"
      <4>1. mind'.phase = "tool_inflight" /\ mind'.next > 0
            /\ mind'.pending[mind'.next] = InHand
        BY <1>1, <3>3, <3>4, MindFields DEF CallPending, InHand, Cursor
      <4>2. result = "revise" => InHand \in ArtifactCalls
        BY <3>1, RejectedByOutcome
      <4> QED
        BY <3>1, <4>1, <4>2 DEF RejectedByReviewer
    <3>6. Rejected(mind'.messages) = reviews + (IF result = "revise" THEN 1 ELSE 0)
      <4>1. Answer(InHand, result) \in Messages
        BY <3>1, <3>3 DEF Answer, Messages
      <4>2. Answer(InHand, result).role = "tool" /\ Answer(InHand, result).outcome = result
        BY DEF Answer
      <4> QED
        BY <1>1, <3>2, <3>4, <4>1, <4>2, RevisionsAppend DEF Rejected
    <3> QED
      BY <1>1, <3>1, <3>2, <3>5, <3>6 DEF ReviewInv
  <2>3. CASE ~RefuseCall /\ ~Push
    <3>1. UNCHANGED <<mind, reviews>> /\ pc \in Working /\ pc' \in Working
      BY <1>7, <2>3 DEF RunTool, Deny, Approve, BeginCall, ReuseResult, RetryCall, ExecuteTool,
                       CompleteCall, volatile, Working, ToolPcs
    <3> QED
      BY <1>3, <3>1
  <2> QED
    BY <2>1, <2>2, <2>3
<1>8. CASE Interrupt
  BY <1>2, <1>8 DEF Interrupt
<1>9. CASE Resume
  BY <1>9 DEF Resume, volatile, ReviewInv, Holding, Working, ToolPcs
<1>10. CASE UNCHANGED vars
  BY <1>10 DEF vars, volatile, ReviewInv, RejectedByReviewer
<1> QED
  BY <1>4, <1>5, <1>6, <1>7, <1>8, <1>9, <1>10 DEF Next, Work

\* Once the reviewer has sent back the last candidate allowed, no execution, this
\* one or a later one, asks the model or runs a tool again.
THEOREM ReviewBudgetCorrect == Spec => []ReviewBudget
<1>1. Init => ReviewInv
  BY DEF Init, ReviewInv, Holding, Working, ToolPcs
<1>2. TypeInv /\ JournalInv /\ HistoryInv /\ ReviewInv /\ [Next]_vars => ReviewInv'
  BY ReviewStep
<1>3. TypeInv /\ JournalInv /\ HistoryInv /\ ReviewInv => ReviewBudget
  <2> SUFFICES ASSUME TypeInv, JournalInv, HistoryInv, ReviewInv, pc \in Working
               PROVE  ReviewCount(mind.messages) < MaxReviews
    BY DEF ReviewBudget, Working, ToolPcs
  <2>1. mind \in Minds /\ Sound(mind) /\ pc \in Holding /\ pc # "saving"
    BY DEF TypeInv, TypeOK, HistoryInv, Holding, Working, ToolPcs
  <2>2. ReviewCount(mind.messages) = Rejected(mind.messages)
    BY <2>1, CountsRevisions DEF Rejected
  <2> QED
    BY <2>1, <2>2 DEF ReviewInv
<1> QED
  BY <1>1, <1>2, <1>3, TypeInvCorrect, JournalInvCorrect, HistoryInvCorrect, PTL DEF Spec

-----------------------------------------------------------------------------
(* The write gate.                                                         *)

\* Success is only ever concluded from a history with a written artifact.
SuccessInv ==
  /\ pc \in Holding /\ mind.phase = "succeeded" /\ MakesArtifact =>
       ArtifactWritten(mind.messages)
  /\ checkpoint.phase = "succeeded" /\ MakesArtifact => ArtifactWritten(checkpoint.messages)

\* A written artifact stays in a history that grows.
LEMMA WrittenAppend ==
  ASSUME NEW messages \in Seq(Messages), NEW e \in Messages, ArtifactWritten(messages)
  PROVE  ArtifactWritten(Append(messages, e))
<1> DEFINE t == Append(messages, e)
           L == Len(messages)
<1>1. /\ t \in Seq(Messages) /\ L \in Nat /\ Len(t) = L + 1
      /\ \A i \in 1..L : t[i] = messages[i]
  BY AppendProperties
<1>2. Range(messages) \subseteq Range(t)
  BY <1>1 DEF Range
<1>3. ArtifactIds(messages) \subseteq ArtifactIds(t)
  BY <1>2 DEF ArtifactIds
<1> QED
  BY <1>2, <1>3 DEF ArtifactWritten, ArtifactAnswer

\* Every step keeps the artifact calls that succeeded apart.
LEMMA SuccessStep ==
  ASSUME TypeInv, JournalInv, SuccessInv, [Next]_vars
  PROVE  SuccessInv'
<1>1. mind \in Minds /\ mind.messages \in Seq(Messages)
  BY MindFields DEF TypeInv, TypeOK
<1>2. ASSUME UNCHANGED checkpoint, pc' \notin Holding \/ mind'.phase # "succeeded"
      PROVE  SuccessInv'
  BY <1>2 DEF SuccessInv
<1>3. CASE SaveCheckpoint
  <2>1. pc = "saving" /\ checkpoint' = mind
    BY <1>3, SavesAreAccepted DEF SaveCheckpoint, SaveNeverRefused
  <2>2. pc' \in Holding => mind' = mind
    BY <1>3 DEF SaveCheckpoint, AfterSave, Stop, volatile, Holding, Working, ToolPcs
  <2> QED
    BY <2>1, <2>2 DEF SuccessInv, Holding
<1>4. CASE Load
  <2>1. UNCHANGED checkpoint
    BY <1>4 DEF Load, LoadSucceeded, LoadCheckpoint, LoadNothing, Return, durable
  <2>2. CASE LoadNothing \/ LoadSucceeded \/ Return
    <3>1. pc' \notin Holding \/ mind'.phase # "succeeded"
      BY <2>2 DEF LoadNothing, LoadSucceeded, Return, Fresh, Holding, Working, ToolPcs
    <3> QED
      BY <1>2, <2>1, <3>1
  <2>3. CASE LoadCheckpoint
    <3>1. checkpoint \in Minds /\ checkpoint.phase # "succeeded"
      BY <2>3, CheckpointPhase DEF LoadCheckpoint
    <3>2. \/ Stop
          \/ mind' = checkpoint
          \/ /\ mind' = [checkpoint EXCEPT !.phase = "succeeded"]
             /\ ArtifactWritten(checkpoint.messages)
      BY <2>3 DEF LoadCheckpoint, ContinueFrom
    <3>3. CASE Stop \/ mind' = checkpoint
      BY <1>2, <2>1, <3>1, <3>3 DEF Stop, Fresh
    <3>4. CASE mind' = [checkpoint EXCEPT !.phase = "succeeded"]
               /\ ArtifactWritten(checkpoint.messages)
      <4>1. mind'.messages = checkpoint.messages
        BY <3>1, <3>4 DEF Minds
      <4> QED
        BY <2>1, <3>1, <3>4, <4>1 DEF SuccessInv
    <3> QED
      BY <3>2, <3>3, <3>4
  <2> QED
    BY <1>4, <2>2, <2>3 DEF Load
<1>5. CASE Turn
  <2>1. UNCHANGED checkpoint /\ pc \in {"loop", "model"} /\ mind.phase # "succeeded"
    BY <1>5 DEF Turn, Exhausted, AskModel, ModelAsksForTools, ModelAnswers, NextTool, EndOfTools,
                durable, JournalInv, MindIsSaved, Working
  <2>2. CASE Exhausted \/ NextTool \/ AskModel \/ ModelAsksForTools
    <3>1. mind'.phase # "succeeded"
      <4>1. CASE Exhausted
        BY <4>1 DEF Exhausted, Stop, Fresh
      <4>2. CASE NextTool
        BY <2>1, <4>2 DEF NextTool, volatile
      <4>3. CASE AskModel
        BY <1>1, <4>3 DEF AskModel, Minds
      <4>4. CASE ModelAsksForTools
        BY <1>1, <4>4 DEF ModelAsksForTools, Minds
      <4> QED
        BY <2>2, <4>1, <4>2, <4>3, <4>4
    <3> QED
      BY <1>2, <2>1, <3>1
  <2>3. CASE ModelAnswers
    <3>1. /\ MakesArtifact => ArtifactWritten(mind.messages)
          /\ mind'.messages = Append(mind.messages, Says)
      BY <1>1, <2>3 DEF ModelAnswers, AnswerAccepted, Minds
    <3>2. Says \in Messages
      BY DEF Says, Messages
    <3>3. MakesArtifact => ArtifactWritten(mind'.messages)
      BY <1>1, <3>1, <3>2, WrittenAppend
    <3> QED
      BY <2>1, <3>3 DEF SuccessInv
  <2>4. CASE EndOfTools
    <3>1. /\ mind'.phase = "succeeded" => ArtifactWritten(mind.messages)
          /\ mind'.messages = mind.messages
      BY <1>1, <2>4 DEF EndOfTools, Minds
    <3> QED
      BY <2>1, <3>1 DEF SuccessInv
  <2> QED
    BY <1>5, <2>2, <2>3, <2>4 DEF Turn
<1>6. CASE RunTool
  <2>1. UNCHANGED checkpoint /\ pc \in Working
    BY <1>6 DEF RunTool, Deny, Approve, BeginCall, ReuseResult, RetryCall, RefuseCall,
                ExecuteTool, CompleteCall, Push, durable, Working, ToolPcs
  <2>2. mind.phase # "succeeded"
    BY <2>1 DEF JournalInv, MindIsSaved
  <2>3. mind'.phase # "succeeded"
    <3>1. CASE Push
      BY <1>1, <2>2, <3>1 DEF Push, Minds
    <3>2. CASE RefuseCall
      BY <3>2 DEF RefuseCall, Stop, Fresh
    <3>3. CASE ~Push /\ ~RefuseCall
      <4>1. mind' = mind
        BY <1>6, <3>3 DEF RunTool, Deny, Approve, BeginCall, ReuseResult, RetryCall,
                         ExecuteTool, CompleteCall, volatile
      <4> QED
        BY <2>2, <4>1
    <3> QED
      BY <3>1, <3>2, <3>3
  <2> QED
    BY <1>2, <2>1, <2>3
<1>7. CASE Interrupt \/ Resume
  <2>1. UNCHANGED checkpoint /\ pc' \notin Holding
    BY <1>7 DEF Interrupt, Resume, Stop, durable, Holding, Working, ToolPcs
  <2> QED
    BY <1>2, <2>1
<1>8. CASE UNCHANGED vars
  BY <1>8 DEF vars, durable, volatile, SuccessInv
<1> QED
  BY <1>3, <1>4, <1>5, <1>6, <1>7, <1>8 DEF Next, Work

\* Where no other tool's call carries the id of an artifact call, a task that may
\* write an artifact succeeds only with an artifact that was written, in at most
\* the turns and revisions it is allowed.
THEOREM BudgetsHoldCorrect ==
  ASSUME \A c \in ArtifactCalls, d \in Calls : CallId[c] = CallId[d] => d \in ArtifactCalls
  PROVE  Spec => []BudgetsHold
<1>1. Init => SuccessInv
  BY DEF Init, NoCheckpoint, SuccessInv, Holding, Working, ToolPcs
<1>2. TypeInv /\ JournalInv /\ SuccessInv /\ [Next]_vars => SuccessInv'
  BY SuccessStep
<1>3. TypeInv /\ JournalInv /\ HistoryInv /\ SuccessInv => SuccessHasArtifact
  <2> SUFFICES ASSUME TypeInv, JournalInv, HistoryInv, SuccessInv,
                      checkpoint.phase = "succeeded", MakesArtifact
               PROVE  \E c \in ArtifactCalls : Receipt(c) = Completed(c, "ok")
    BY DEF SuccessHasArtifact
  <2>1. checkpoint \in Minds /\ checkpoint # NoCheckpoint
    BY CheckpointPhase
  <2>2. checkpoint.messages \in Seq(Messages) /\ Sound(checkpoint)
    BY <2>1, MindFields DEF HistoryInv
  <2>3. PICK i \in 1..Len(checkpoint.messages) :
          ArtifactAnswer(checkpoint.messages, checkpoint.messages[i])
            /\ checkpoint.messages[i].outcome = "ok"
    BY <2>2 DEF SuccessInv, ArtifactWritten, Range
  <2> DEFINE d == checkpoint.messages[i].call
  <2>4. checkpoint.messages[i].role = "tool" /\ d \in Calls
    BY <2>2, <2>3, MessageAt DEF ArtifactAnswer
  <2>5. Receipt(d) = Completed(d, "ok")
    BY <2>2, <2>3, <2>4 DEF Sound, Faithful
  <2>6. \E c \in ArtifactCalls : CallId[d] = CallId[c]
    BY <2>3 DEF ArtifactAnswer, ArtifactIds
  <2>7. d \in ArtifactCalls
    BY <2>4, <2>6
  <2> QED
    BY <2>5, <2>7
<1>4. Spec => []SuccessHasArtifact
  BY <1>1, <1>2, <1>3, TypeInvCorrect, JournalInvCorrect, HistoryInvCorrect, PTL DEF Spec
<1>5. TurnBudget /\ ReviewBudget /\ SuccessHasArtifact => BudgetsHold
  BY DEF BudgetsHold
<1> QED
  BY <1>4, <1>5, TurnBudgetCorrect, ReviewBudgetCorrect, PTL
=============================================================================
