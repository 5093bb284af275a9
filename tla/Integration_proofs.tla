------------------------- MODULE Integration_proofs -------------------------
(***************************************************************************)
(* Proofs about Integration: for any number of calls in flight, whichever  *)
(* overlap, and any failures, crashes and steps of the user.               *)
(***************************************************************************)
EXTENDS Integration, TLAPS

\* The types the argument needs.
Typed ==
  /\ proposal \in Proposals
  /\ log \in Seq(Commits)
  /\ pc \in [Ops -> Steps]
  /\ mind \in [Ops -> Proposals]

\* Between the saved intent and the end of its effects the proposal no longer
\* awaits its approval, and what a call is about to save never makes it so again.
AfterIntent == {"announceIntent", "validate", "apply", "commit", "verify"}
Saving == {"record", "recordFailure"}
IntentSaved ==
  \A o \in Ops :
    /\ pc[o] \in AfterIntent => proposal.status # "awaiting_approval"
    /\ pc[o] \in Saving => mind[o].status # "awaiting_approval"

Declared == Typed /\ IntentSaved /\ EffectsAreDeclared

\* What git adds to the history by one commit.
LEMMA RangeOfAppend ==
  ASSUME NEW s \in Seq(Commits), NEW c \in Commits
  PROVE  Append(s, c) \in Seq(Commits) /\ Range(Append(s, c)) = Range(s) \cup {c}
<1>1. Append(s, c) \in Seq(Commits)  OBVIOUS
<1>2. Len(s) \in Nat /\ DOMAIN s = 1..Len(s)
        /\ DOMAIN Append(s, c) = 1..(Len(s) + 1)
        /\ \A i \in 1..(Len(s) + 1) : Append(s, c)[i] = IF i <= Len(s) THEN s[i] ELSE c
  OBVIOUS
<1>3. Range(Append(s, c)) = Range(s) \cup {c}  BY <1>2 DEF Range
<1> QED  BY <1>1, <1>3

\* Nothing is applied at the start.
LEMMA DeclaredInit == Init => Declared
  BY DEF Init, Declared, Typed, IntentSaved, AfterIntent, Saving, EffectsAreDeclared,
       Prepared, Proposals, Statuses,
         Steps, Integrated, Range, Commits
-----------------------------------------------------------------------------
(* How a call moves on.                                                    *)

\* A copy of the proposal with another status is a proposal of that status.
LEMMA Marked ==
  ASSUME NEW p \in Proposals, NEW s \in Statuses
  PROVE  [p EXCEPT !.status = s] \in Proposals /\ [p EXCEPT !.status = s].status = s
  BY DEF Proposals

\* What a failure writes on a proposal.
LEMMA MarkedFailed ==
  ASSUME NEW p \in Proposals, NEW s \in Statuses, NEW b \in BOOLEAN
  PROVE  /\ [p EXCEPT !.status = s, !.rolledBack = b] \in Proposals
         /\ [p EXCEPT !.status = s, !.rolledBack = b].status = s
         /\ [p EXCEPT !.rolledBack = b, !.status = s] \in Proposals
         /\ [p EXCEPT !.rolledBack = b, !.status = s].status = s
  BY DEF Proposals

\* The prepared proposal is a proposal.
LEMMA PreparedType == Prepared \in Proposals
  BY DEF Prepared, Proposals, Statuses

\* One call moves on to a step with its copy m of the proposal.  What it does to
\* the proposal and the repository is left to its action.
LEMMA Moves ==
  ASSUME Declared, NEW o \in Ops, NEW step \in Steps, NEW m \in Proposals,
         pc' = [pc EXCEPT ![o] = step],
         mind' = [mind EXCEPT ![o] = m],
         proposal' \in Proposals, log' \in Seq(Commits),
         proposal.status # "awaiting_approval" => proposal'.status # "awaiting_approval",
         step \in AfterIntent => proposal'.status # "awaiting_approval",
         step \in Saving => m.status # "awaiting_approval",
         EffectsAreDeclared'
  PROVE  Declared'
<1>1. Typed'
  BY DEF Declared, Typed
<1>2. IntentSaved'
  BY DEF Declared, Typed, IntentSaved
<1> QED
  BY <1>1, <1>2 DEF Declared

\* The call touches neither the proposal nor the repository.
LEMMA MovesQuietly ==
  ASSUME Declared, NEW o \in Ops, NEW step \in Steps, NEW m \in Proposals,
         pc' = [pc EXCEPT ![o] = step],
         mind' = [mind EXCEPT ![o] = m],
         UNCHANGED <<proposal, log, tree>>,
         step \in AfterIntent => proposal.status # "awaiting_approval",
         step \in Saving => m.status # "awaiting_approval"
  PROVE  Declared'
<1>1. EffectsAreDeclared'
  BY DEF Declared, EffectsAreDeclared, Integrated
<1> QED
  BY <1>1, Moves DEF Declared, Typed

\* Not to change one's copy is to change it to itself.
LEMMA SameMind ==
  ASSUME Declared, NEW o \in Ops, UNCHANGED mind
  PROVE  mind' = [mind EXCEPT ![o] = mind[o]] /\ mind[o] \in Proposals
  BY DEF Declared, Typed

\* A proposal that awaits its approval has no call at its effects: nothing that is
\* left behind holds a part of the patch.
LEMMA TornIsClean ==
  ASSUME Declared, NEW o \in Ops, NEW t \in Torn(o), proposal.status = "awaiting_approval"
  PROVE  t \cap {"patch", "partial"} = {}
<1>1. tree \cap {"patch", "partial"} = {} /\ pc[o] # "apply"
  BY DEF Declared, EffectsAreDeclared, IntentSaved, AfterIntent
<1> QED
  BY <1>1 DEF Torn

\* No trace of the patch is left behind of a proposal that still awaits approval.
LEMMA LeftBehindClean ==
  ASSUME Declared, NEW o \in Ops, NEW t \in LeftBehind(o), proposal.status = "awaiting_approval"
  PROVE  t \cap {"patch", "partial"} = {}
<1>1. CASE t \in Torn(o)
  BY <1>1, TornIsClean
<1>2. CASE t = tree
  BY <1>2 DEF Declared, EffectsAreDeclared
<1> QED
  BY <1>1, <1>2 DEF LeftBehind

\* A commit of anything but the patch integrates nothing.
LEMMA OtherCommits ==
  ASSUME Declared, NEW c \in {"revert", "user"}, log' = Append(log, c)
  PROVE  /\ log' \in Seq(Commits)
         /\ Integrated' => Integrated
         /\ "mixed" \in Range(log') => "mixed" \in Range(log)
<1>1. log \in Seq(Commits) /\ c \in Commits
  BY DEF Declared, Typed, Commits
<1> QED
  BY <1>1, RangeOfAppend DEF Integrated

-----------------------------------------------------------------------------
(* Every step.                                                             *)

\* Every step declares its effects.
LEMMA DeclaredStep ==
  ASSUME Declared, Next
  PROVE  Declared'
<1> USE DEF disk, calls, env, Goto
<1>1. ASSUME NEW o \in Ops, Acquire(o) PROVE Declared'
  <2>1. FirstStep(o) \in Steps \ Saving
    BY DEF Steps, ApproveSteps, FailureSteps, RevertSteps, ReconcileSteps, Saving,
         FirstStep
  <2>2. FirstStep(o) \in AfterIntent => proposal.status # "awaiting_approval"
    BY <1>1 DEF Acquire, Declared, IntentSaved, AfterIntent, FirstStep
  <2> QED
    BY <1>1, <2>1, <2>2, SameMind, MovesQuietly DEF Acquire
<1>2. ASSUME NEW o \in Ops, Validate(o) PROVE Declared'
  <2>1. "apply" \in Steps \ Saving
    BY DEF Steps, ApproveSteps, FailureSteps, RevertSteps, ReconcileSteps, Saving
  <2>2. "apply" \in AfterIntent => proposal.status # "awaiting_approval"
    BY <1>2 DEF Validate, Declared, IntentSaved, AfterIntent
  <2> QED
    BY <1>2, <2>1, <2>2, SameMind, MovesQuietly DEF Validate
<1>3. ASSUME NEW o \in Ops, AnnounceIntent(o) PROVE Declared'
  <2>1. "validate" \in Steps \ Saving
    BY DEF Steps, ApproveSteps, FailureSteps, RevertSteps, ReconcileSteps, Saving
  <2>2. "validate" \in AfterIntent => proposal.status # "awaiting_approval"
    BY <1>3 DEF AnnounceIntent, Declared, IntentSaved, AfterIntent
  <2> QED
    BY <1>3, <2>1, <2>2, SameMind, MovesQuietly DEF AnnounceIntent
<1>4. ASSUME NEW o \in Ops, CheckRevert(o) PROVE Declared'
  <2>1. "unapply" \in Steps \ Saving
    BY DEF Steps, ApproveSteps, FailureSteps, RevertSteps, ReconcileSteps, Saving
  <2>2. "unapply" \in AfterIntent => proposal.status # "awaiting_approval"
    BY <1>4 DEF CheckRevert, Declared, IntentSaved, AfterIntent
  <2> QED
    BY <1>4, <2>1, <2>2, SameMind, MovesQuietly DEF CheckRevert
<1>5. ASSUME NEW o \in Ops, ReadHead(o) PROVE Declared'
  <2>1. "inspect" \in Steps \ Saving
    BY DEF Steps, ApproveSteps, FailureSteps, RevertSteps, ReconcileSteps, Saving
  <2>2. "inspect" \in AfterIntent => proposal.status # "awaiting_approval"
    BY <1>5 DEF ReadHead, Declared, IntentSaved, AfterIntent
  <2> QED
    BY <1>5, <2>1, <2>2, SameMind, MovesQuietly DEF ReadHead
<1>6. ASSUME NEW o \in Ops, GiveUp(o) PROVE Declared'
  <2>1. "idle" \in Steps \ (Saving \cup AfterIntent)
    BY DEF Steps, ApproveSteps, FailureSteps, RevertSteps, ReconcileSteps, Saving,
         AfterIntent
  <2> QED
    BY <1>6, <2>1, PreparedType, MovesQuietly DEF GiveUp, End
<1>7. ASSUME NEW o \in Ops, Announce(o) PROVE Declared'
  <2>1. "idle" \in Steps \ (Saving \cup AfterIntent)
    BY DEF Steps, ApproveSteps, FailureSteps, RevertSteps, ReconcileSteps, Saving,
         AfterIntent
  <2> QED
    BY <1>7, <2>1, PreparedType, MovesQuietly DEF Announce, End
<1>8. ASSUME NEW o \in Ops, AnnounceFailure(o) PROVE Declared'
  <2>1. "idle" \in Steps \ (Saving \cup AfterIntent)
    BY DEF Steps, ApproveSteps, FailureSteps, RevertSteps, ReconcileSteps, Saving,
         AfterIntent
  <2> QED
    BY <1>8, <2>1, PreparedType, MovesQuietly DEF AnnounceFailure, End
<1>9. ASSUME NEW o \in Ops, ReconcileFails(o) PROVE Declared'
  <2>1. "idle" \in Steps \ (Saving \cup AfterIntent)
    BY DEF Steps, ApproveSteps, FailureSteps, RevertSteps, ReconcileSteps, Saving,
         AfterIntent
  <2> QED
    BY <1>9, <2>1, PreparedType, MovesQuietly DEF ReconcileFails, End
<1>10. ASSUME NEW o \in Ops, StartApprove(o) PROVE Declared'
  <2>1. PICK commit \in BOOLEAN :
          Begin(o, "approve", "acquire", [proposal EXCEPT !.commit = commit])
    BY <1>10, IntegrationAssumption DEF StartApprove
  <2>2. [proposal EXCEPT !.commit = commit] \in Proposals
    BY DEF Declared, Typed, Proposals
  <2>3. "acquire" \in Steps \ (Saving \cup AfterIntent)
    BY DEF Steps, ApproveSteps, FailureSteps, RevertSteps, ReconcileSteps, Saving,
         AfterIntent
  <2> QED
    BY <2>1, <2>2, <2>3, MovesQuietly DEF Begin
<1>11. ASSUME NEW o \in Ops, StartRevert(o) PROVE Declared'
  <2>1. "acquire" \in Steps \ (Saving \cup AfterIntent)
    BY DEF Steps, ApproveSteps, FailureSteps, RevertSteps, ReconcileSteps, Saving,
         AfterIntent
  <2> QED
    BY <1>11, <2>1, MovesQuietly DEF StartRevert, Begin, Declared, Typed
<1>12. ASSUME NEW o \in Ops, StartReconcile(o) PROVE Declared'
  <2>1. "readHead" \in Steps \ (Saving \cup AfterIntent)
    BY DEF Steps, ApproveSteps, FailureSteps, RevertSteps, ReconcileSteps, Saving,
         AfterIntent
  <2> QED
    BY <1>12, <2>1, MovesQuietly DEF StartReconcile, Begin, Declared, Typed
<1>13. ASSUME NEW o \in Ops, Verify(o) PROVE Declared'
  <2> DEFINE m == [mind[o] EXCEPT !.status = "applied"]
  <2>1. m \in Proposals /\ m.status = "applied"
    BY SameMind, Marked DEF Statuses, Declared, Typed
  <2>2. "record" \in Steps \ AfterIntent
    BY DEF Steps, ApproveSteps, FailureSteps, RevertSteps, ReconcileSteps, Saving,
         AfterIntent
  <2>3. mind' = [mind EXCEPT ![o] = m]
    BY <1>13 DEF Verify
  <2> HIDE DEF m
  <2> QED
    BY <1>13, <2>1, <2>2, <2>3, MovesQuietly DEF Verify
<1>14. ASSUME NEW o \in Ops, ConfirmRevert(o) PROVE Declared'
  <2> DEFINE m == [mind[o] EXCEPT !.status = "reverted"]
  <2>1. m \in Proposals /\ m.status = "reverted"
    BY SameMind, Marked DEF Statuses, Declared, Typed
  <2>2. "record" \in Steps \ AfterIntent
    BY DEF Steps, ApproveSteps, FailureSteps, RevertSteps, ReconcileSteps, Saving,
         AfterIntent
  <2>3. mind' = [mind EXCEPT ![o] = m]
    BY <1>14 DEF ConfirmRevert
  <2> HIDE DEF m
  <2> QED
    BY <1>14, <2>1, <2>2, <2>3, MovesQuietly DEF ConfirmRevert
<1>15. ASSUME NEW o \in Ops, ConfirmCommit(o) PROVE Declared'
  <2> DEFINE m == [mind[o] EXCEPT !.status = "revert_committed"]
  <2>1. m \in Proposals /\ m.status = "revert_committed"
    BY SameMind, Marked DEF Statuses, Declared, Typed
  <2>2. "record" \in Steps \ AfterIntent
    BY DEF Steps, ApproveSteps, FailureSteps, RevertSteps, ReconcileSteps, Saving,
         AfterIntent
  <2>3. mind' = [mind EXCEPT ![o] = m]
    BY <1>15 DEF ConfirmCommit
  <2> HIDE DEF m
  <2> QED
    BY <1>15, <2>1, <2>2, <2>3, MovesQuietly DEF ConfirmCommit
<1>16. ASSUME NEW o \in Ops, RevertCommitFails(o) PROVE Declared'
  <2> DEFINE m == [mind[o] EXCEPT !.status = "recovery_required"]
  <2>1. m \in Proposals /\ m.status = "recovery_required"
    BY SameMind, Marked DEF Statuses, Declared, Typed
  <2>2. "recordFailure" \in Steps \ AfterIntent
    BY DEF Steps, ApproveSteps, FailureSteps, RevertSteps, ReconcileSteps, Saving,
         AfterIntent
  <2>3. mind' = [mind EXCEPT ![o] = m]
    BY <1>16 DEF RevertCommitFails
  <2> HIDE DEF m
  <2> QED
    BY <1>16, <2>1, <2>2, <2>3, MovesQuietly DEF RevertCommitFails
<1>17. ASSUME NEW o \in Ops, Intend(o) PROVE Declared'
  <2> DEFINE m == [mind[o] EXCEPT !.status = "applying"]
  <2>1. m \in Proposals /\ m.status = "applying"
    BY SameMind, Marked DEF Statuses, Declared, Typed
  <2>2. "announceIntent" \in Steps \ Saving
    BY DEF Steps, ApproveSteps, FailureSteps, RevertSteps, ReconcileSteps, Saving,
         AfterIntent
  <2>3. mind' = [mind EXCEPT ![o] = m] /\ proposal' = m
    BY <1>17 DEF Intend, Declared, Typed
  <2> HIDE DEF m
  <2>4. proposal'.status # "awaiting_approval" /\ log' \in Seq(Commits)
    BY <1>17, <2>1, <2>3 DEF Intend, Declared, Typed
  <2>5. EffectsAreDeclared'
    BY <2>4 DEF EffectsAreDeclared
  <2> QED
    BY <1>17, <2>1, <2>2, <2>3, <2>4, <2>5, Moves DEF Intend
<1>18. ASSUME NEW o \in Ops, Record(o) PROVE Declared'
  <2>1. "announce" \in Steps \ (Saving \cup AfterIntent)
    BY DEF Steps, ApproveSteps, FailureSteps, RevertSteps, ReconcileSteps, Saving,
         AfterIntent
  <2>2. proposal' = mind[o] /\ mind[o].status # "awaiting_approval" /\ log' \in Seq(Commits)
    BY <1>18 DEF Record, Declared, Typed, IntentSaved, Saving
  <2>3. EffectsAreDeclared'
    BY <2>2 DEF EffectsAreDeclared
  <2> QED
    BY <1>18, <2>1, <2>2, <2>3, SameMind, Moves DEF Record
<1>19. ASSUME NEW o \in Ops, RecordFailure(o) PROVE Declared'
  <2>1. "announceFailure" \in Steps \ (Saving \cup AfterIntent)
    BY DEF Steps, ApproveSteps, FailureSteps, RevertSteps, ReconcileSteps, Saving,
         AfterIntent
  <2>2. proposal' = mind[o] /\ mind[o].status # "awaiting_approval" /\ log' \in Seq(Commits)
    BY <1>19 DEF RecordFailure, Declared, Typed, IntentSaved, Saving
  <2>3. EffectsAreDeclared'
    BY <2>2 DEF EffectsAreDeclared
  <2> QED
    BY <1>19, <2>1, <2>2, <2>3, SameMind, Moves DEF RecordFailure
<1>20. ASSUME NEW o \in Ops, ApplyPatch(o) PROVE Declared'
  <2> DEFINE step == IF mind[o].commit THEN "commit" ELSE "verify"
  <2>1. step \in Steps \ Saving
    BY DEF Steps, ApproveSteps, FailureSteps, RevertSteps, ReconcileSteps, Saving,
         AfterIntent
  <2>2. proposal' = proposal /\ proposal.status # "awaiting_approval"
    BY <1>20 DEF ApplyPatch, Declared, IntentSaved, AfterIntent
  <2>3. EffectsAreDeclared'
    BY <2>2 DEF EffectsAreDeclared
  <2>4. pc' = [pc EXCEPT ![o] = step]
    BY <1>20 DEF ApplyPatch
  <2>5. proposal' \in Proposals /\ log' \in Seq(Commits) /\ proposal'.status # "awaiting_approval"
    BY <1>20, <2>2 DEF ApplyPatch, Declared, Typed
  <2>6. UNCHANGED mind
    BY <1>20 DEF ApplyPatch
  <2> HIDE DEF step
  <2> QED
    BY <2>1, <2>3, <2>4, <2>5, <2>6, SameMind, Moves
<1>21. ASSUME NEW o \in Ops, CommitPatch(o) PROVE Declared'
  <2> DEFINE m == [mind[o] EXCEPT !.status = "committed"]
  <2>1. m \in Proposals /\ m.status = "committed"
    BY SameMind, Marked DEF Statuses, Declared, Typed
  <2>2. "record" \in Steps \ AfterIntent
    BY DEF Steps, ApproveSteps, FailureSteps, RevertSteps, ReconcileSteps, Saving,
         AfterIntent
  <2>3. mind' = [mind EXCEPT ![o] = m]
    BY <1>21 DEF CommitPatch
  <2> HIDE DEF m
  <2>4. proposal' = proposal /\ proposal.status # "awaiting_approval"
    BY <1>21 DEF CommitPatch, Declared, IntentSaved, AfterIntent
  <2>5. EffectsAreDeclared'
    BY <2>4 DEF EffectsAreDeclared
  <2>6. log' \in Seq(Commits)
    <3>1. log \in Seq(Commits) /\ {"mixed", "integration"} \subseteq Commits
      BY DEF Declared, Typed, Commits
    <3> QED
      BY <1>21, <3>1, RangeOfAppend DEF CommitPatch
  <2> QED
    BY <1>21, <2>1, <2>2, <2>3, <2>4, <2>5, <2>6, Moves DEF CommitPatch, Declared, Typed
<1>22. ASSUME NEW o \in Ops, ApproveFails(o) PROVE Declared'
  <2>1. "rollback" \in Steps \ (Saving \cup AfterIntent)
    BY DEF Steps, ApproveSteps, FailureSteps, RevertSteps, ReconcileSteps, Saving,
         AfterIntent
  <2>2. EffectsAreDeclared'
    <3>1. SUFFICES ASSUME proposal.status = "awaiting_approval"
                   PROVE  tree' \cap {"patch", "partial"} = {}
      BY <1>22 DEF ApproveFails, Declared, EffectsAreDeclared, Integrated
    <3> QED
      BY <1>22, <3>1, LeftBehindClean DEF ApproveFails
  <2> QED
    BY <1>22, <2>1, <2>2, SameMind, Moves DEF ApproveFails, Declared, Typed
<1>23. ASSUME NEW o \in Ops, RevertFails(o) PROVE Declared'
  <2>1. "idle" \in Steps \ (Saving \cup AfterIntent)
    BY DEF Steps, ApproveSteps, FailureSteps, RevertSteps, ReconcileSteps, Saving,
         AfterIntent
  <2>2. EffectsAreDeclared'
    <3>1. SUFFICES ASSUME proposal.status = "awaiting_approval"
                   PROVE  tree' \cap {"patch", "partial"} = {}
      BY <1>23 DEF RevertFails, Declared, EffectsAreDeclared, Integrated
    <3> QED
      BY <1>23, <3>1, LeftBehindClean DEF RevertFails
  <2> QED
    BY <1>23, <2>1, <2>2, PreparedType, Moves DEF RevertFails, End, Declared, Typed
<1>24. ASSUME NEW o \in Ops, Unapply(o) PROVE Declared'
  <2>1. "confirmRevert" \in Steps \ (Saving \cup AfterIntent)
    BY DEF Steps, ApproveSteps, FailureSteps, RevertSteps, ReconcileSteps, Saving,
         AfterIntent
  <2>2. EffectsAreDeclared'
    <3>1. SUFFICES ASSUME proposal.status = "awaiting_approval"
                   PROVE  tree' \cap {"patch", "partial"} = {}
      BY <1>24 DEF Unapply, Declared, EffectsAreDeclared, Integrated
    <3> QED
      BY <1>24, <3>1 DEF Unapply, Declared, EffectsAreDeclared
  <2> QED
    BY <1>24, <2>1, <2>2, SameMind, Moves DEF Unapply, Declared, Typed
<1>25. ASSUME NEW o \in Ops, StageRevert(o) PROVE Declared'
  <2>1. "commitRevert" \in Steps \ (Saving \cup AfterIntent)
    BY DEF Steps, ApproveSteps, FailureSteps, RevertSteps, ReconcileSteps, Saving,
         AfterIntent
  <2>2. EffectsAreDeclared'
    <3>1. SUFFICES ASSUME proposal.status = "awaiting_approval"
                   PROVE  tree' \cap {"patch", "partial"} = {}
      BY <1>25 DEF StageRevert, Declared, EffectsAreDeclared, Integrated
    <3> QED
      BY <1>25, <3>1 DEF StageRevert, Declared, EffectsAreDeclared
  <2> QED
    BY <1>25, <2>1, <2>2, SameMind, Moves DEF StageRevert, Declared, Typed
<1>26. ASSUME NEW o \in Ops, CommitRevert(o) PROVE Declared'
  <2>1. "confirmCommit" \in Steps \ (Saving \cup AfterIntent)
    BY DEF Steps, ApproveSteps, FailureSteps, RevertSteps, ReconcileSteps, Saving,
         AfterIntent
  <2>2. log' = Append(log, "revert") /\ tree' = tree \ {"undo"} /\ proposal' = proposal
    BY <1>26 DEF CommitRevert
  <2>3. log' \in Seq(Commits) /\ EffectsAreDeclared'
    BY <2>2, OtherCommits DEF Declared, EffectsAreDeclared
  <2>4. /\ proposal' \in Proposals /\ UNCHANGED mind
        /\ (proposal.status # "awaiting_approval" => proposal'.status # "awaiting_approval")
    BY <1>26, <2>2 DEF CommitRevert, Declared, Typed
  <2>5. pc' = [pc EXCEPT ![o] = "confirmCommit"]
    BY <1>26 DEF CommitRevert
  <2> QED
    BY <2>1, <2>3, <2>4, <2>5, SameMind, Moves
<1>27. ASSUME NEW o \in Ops, Rollback(o) PROVE Declared'
  <2>1. PICK rolledBack \in BOOLEAN :
          mind' = [mind EXCEPT ![o].rolledBack = rolledBack,
                    ![o].status = IF o \in patched /\ ~rolledBack THEN "recovery_required" ELSE "failed"]
    BY <1>27 DEF Rollback
  <2> DEFINE s == IF o \in patched /\ ~rolledBack THEN "recovery_required" ELSE "failed"
             m == [mind[o] EXCEPT !.rolledBack = rolledBack, !.status = s]
  <2>2. s \in Statuses /\ s # "awaiting_approval"
    BY DEF Statuses
  <2>3. mind' = [mind EXCEPT ![o] = m]
    BY <2>1 DEF Declared, Typed
  <2>4. mind[o] \in Proposals
    BY DEF Declared, Typed
  <2> HIDE DEF s
  <2>5. m \in Proposals /\ m.status # "awaiting_approval"
    BY <2>2, <2>4, MarkedFailed
  <2> HIDE DEF m
  <2>6. "recordFailure" \in Steps \ AfterIntent
    BY DEF Steps, ApproveSteps, FailureSteps, RevertSteps, ReconcileSteps, Saving,
         AfterIntent
  <2>7. EffectsAreDeclared'
    <3>1. SUFFICES ASSUME proposal.status = "awaiting_approval"
                   PROVE  tree' \cap {"patch", "partial"} = {}
      BY <1>27 DEF Rollback, Declared, EffectsAreDeclared, Integrated
    <3>2. tree \cap {"patch", "partial"} = {}
      BY <3>1 DEF Declared, EffectsAreDeclared
    <3>3. tree' = tree \/ tree' = Restored(o) \/ tree' \in LeftBehind(o)
      BY <1>27 DEF Rollback
    <3> QED
      BY <3>1, <3>2, <3>3, LeftBehindClean DEF Restored
  <2> QED
    BY <1>27, <2>3, <2>5, <2>6, <2>7, Moves DEF Rollback, Declared, Typed
<1>28. ASSUME NEW o \in Ops, FailureFails(o) PROVE Declared'
  <2>1. {"announceFailure", "idle"} \subseteq Steps \ (Saving \cup AfterIntent)
    BY DEF Steps, ApproveSteps, FailureSteps, RevertSteps, ReconcileSteps, Saving,
         AfterIntent
  <2>2. CASE kind[o] = "revert" /\ pc[o] = "recordFailure"
    BY <1>28, <2>1, <2>2, SameMind, MovesQuietly DEF FailureFails
  <2>3. CASE ~(kind[o] = "revert" /\ pc[o] = "recordFailure")
    BY <1>28, <2>1, <2>3, PreparedType, MovesQuietly DEF FailureFails, End
  <2> QED
    BY <2>2, <2>3
<1>29. ASSUME NEW o \in Ops, Compare(o) PROVE Declared'
  <2> DEFINE s == IF ExactlyPatched THEN "applied" ELSE "recovery_required"
             m == [mind[o] EXCEPT !.status = s]
  <2>1. s \in Statuses /\ s # "awaiting_approval" /\ mind[o] \in Proposals
    BY DEF Statuses, Declared, Typed
  <2>2. mind' = [mind EXCEPT ![o] = m]
    BY <1>29 DEF Compare
  <2> HIDE DEF s
  <2>3. m \in Proposals /\ m.status # "awaiting_approval"
    BY <2>1, Marked
  <2>4. "record" \in Steps \ AfterIntent
    BY DEF Steps, ApproveSteps, FailureSteps, RevertSteps, ReconcileSteps, Saving,
         AfterIntent
  <2> HIDE DEF m
  <2> QED
    BY <1>29, <2>2, <2>3, <2>4, MovesQuietly DEF Compare
<1>30. ASSUME NEW o \in Ops, Inspect(o) PROVE Declared'
  <2>1. {"compare", "record"} \subseteq Steps \ AfterIntent /\ "compare" \notin Saving
    BY DEF Steps, ApproveSteps, FailureSteps, RevertSteps, ReconcileSteps, Saving,
         AfterIntent
  <2>2. CASE Verdict(o) = "compare"
    BY <1>30, <2>1, <2>2, SameMind, MovesQuietly DEF Inspect
  <2>3. CASE Verdict(o) # "compare"
    <3> DEFINE s == Verdict(o)
               b == Verdict(o) = "failed"
               m == [mind[o] EXCEPT !.status = s, !.rolledBack = b]
    <3>1. s \in Statuses /\ s # "awaiting_approval" /\ b \in BOOLEAN /\ mind[o] \in Proposals
      BY <2>3 DEF Verdict, Statuses, Declared, Typed
    <3>2. mind' = [mind EXCEPT ![o] = m]
      BY <1>30, <2>3 DEF Inspect, Declared, Typed
    <3> HIDE DEF s, b
    <3>3. m \in Proposals /\ m.status # "awaiting_approval"
      BY <3>1, MarkedFailed, ZenonT(60)
    <3> HIDE DEF m
    <3> QED
      BY <1>30, <2>1, <2>3, <3>2, <3>3, MovesQuietly DEF Inspect
  <2> QED
    BY <2>2, <2>3
<1>31. CASE UserTouches
  <2>1. PICK c \in MayTouch : tree' = tree \cup {c}
    BY <1>31 DEF UserTouches
  <2>2. c \notin {"patch", "partial"}
    BY IntegrationAssumption
  <2> QED
    BY <1>31, <2>1, <2>2 DEF UserTouches, Declared, Typed, IntentSaved,
         EffectsAreDeclared, Integrated
<1>32. CASE UserCommits
  <2>1. /\ UNCHANGED <<proposal, pc, mind>> /\ tree' = {}
        /\ log' = Append(log, IF tree = {"patch"} THEN "integration" ELSE "user")
    BY <1>32 DEF UserCommits
  <2>2. CASE tree = {"patch"}
    <3>1. proposal.status # "awaiting_approval"
      BY <2>2 DEF Declared, EffectsAreDeclared
    <3>2. log' \in Seq(Commits)
      BY <2>1, <2>2, RangeOfAppend DEF Declared, Typed, Commits
    <3> QED
      BY <2>1, <3>1, <3>2 DEF Declared, Typed, IntentSaved, EffectsAreDeclared
  <2>3. CASE tree # {"patch"}
    <3>1. log' = Append(log, "user")
      BY <2>1, <2>3
    <3> QED
      BY <2>1, <3>1, OtherCommits DEF Declared, Typed, IntentSaved, EffectsAreDeclared
  <2> QED
    BY <2>2, <2>3
<1>33. CASE Crash
  <2>1. PICK o \in Ops : tree' \in Torn(o)
    BY <1>33 DEF Crash
  <2>2. EffectsAreDeclared'
    BY <1>33, <2>1, TornIsClean DEF Crash, Declared, EffectsAreDeclared, Integrated
  <2>3. Typed'
    BY <1>33, PreparedType DEF Crash, Declared, Typed, Steps, ApproveSteps,
         FailureSteps, RevertSteps, ReconcileSteps
  <2>4. IntentSaved'
    BY <1>33 DEF Crash, IntentSaved, AfterIntent, Saving
  <2> QED
    BY <2>2, <2>3, <2>4 DEF Declared
<1> QED
  BY <1>1, <1>2, <1>3, <1>4, <1>5, <1>6, <1>7, <1>8, <1>9, <1>10, <1>11, <1>12, <1>13,
       <1>14, <1>15, <1>16, <1>17, <1>18, <1>19, <1>20, <1>21, <1>22, <1>23, <1>24,
       <1>25, <1>26, <1>27, <1>28, <1>29, <1>30, <1>31, <1>32, <1>33 DEF Next, Step

\* Effects are declared in every reachable state.
LEMMA DeclaredCorrect == Spec => []Declared
<1>1. Declared /\ [Next]_vars => Declared'
  <2>1. ASSUME Declared, UNCHANGED vars PROVE Declared'
    BY <2>1 DEF vars, disk, calls, Declared, Typed, IntentSaved, EffectsAreDeclared,
         Integrated
  <2> QED
    BY <2>1, DeclaredStep
<1> QED
  BY <1>1, DeclaredInit, PTL DEF Spec

\* Whatever interrupts an approval, nothing of the patch is in the repository of a
\* proposal that still awaits it: approve saves its intent before its first effect.
THEOREM EffectsAreDeclaredCorrect == Spec => []EffectsAreDeclared
<1>1. Declared => EffectsAreDeclared
  BY DEF Declared
<1> QED
  BY <1>1, DeclaredCorrect, PTL

-----------------------------------------------------------------------------
(* The calls in flight.                                                    *)

\* A call stands at a step of its method; one at rest has no copy of the proposal;
\* one that has its lease keeps it to its end; only an approval puts the patch in.
LegalAt(o) ==
  /\ pc[o] = "idle" <=> kind[o] = "none"
  /\ pc[o] = "idle" => ~mind[o].commit /\ o \notin patched
  /\ pc[o] \in ApproveSteps \cup {"rollback"} => kind[o] = "approve"
  /\ pc[o] \in RevertSteps => kind[o] = "revert"
  /\ pc[o] \in ReconcileSteps => kind[o] = "reconcile"
  /\ kind[o] = "reconcile" => pc[o] \in ReconcileSteps \cup {"record", "announce"}
  /\ kind[o] \in {"approve", "revert"} /\ pc[o] # "acquire" <=> holder = o
  /\ o \in patched => kind[o] = "approve"

Legal ==
  /\ kind \in [Ops -> Kinds] /\ patched \subseteq Ops /\ holder \in Ops \cup {NoOp}
  /\ \A o \in Ops : LegalAt(o)

\* Every step keeps each call within its own operation.
LEMMA LegalStep ==
  ASSUME Typed, Legal, Next
  PROVE  Legal'
<1> USE DEF Typed, Legal, LegalAt, Goto, disk, calls, env, Kinds, Steps,
            ApproveSteps, FailureSteps, RevertSteps, ReconcileSteps
<1> USE IntegrationAssumption
<1>1. ASSUME NEW o \in Ops, Acquire(o) PROVE Legal'
  BY <1>1 DEF Acquire, FirstStep
<1>2. ASSUME NEW o \in Ops, Record(o) PROVE Legal'
  BY <1>2 DEF Record
<1>3. ASSUME NEW o \in Ops, Announce(o) PROVE Legal'
  BY <1>3 DEF Announce, End, Prepared
<1>4. ASSUME NEW o \in Ops, Intend(o) PROVE Legal'
  BY <1>4 DEF Intend
<1>5. ASSUME NEW o \in Ops, AnnounceIntent(o) PROVE Legal'
  BY <1>5 DEF AnnounceIntent
<1>6. ASSUME NEW o \in Ops, Validate(o) PROVE Legal'
  BY <1>6 DEF Validate
<1>7. ASSUME NEW o \in Ops, ApplyPatch(o) PROVE Legal'
  BY <1>7 DEF ApplyPatch
<1>8. ASSUME NEW o \in Ops, CommitPatch(o) PROVE Legal'
  BY <1>8 DEF CommitPatch
<1>9. ASSUME NEW o \in Ops, Verify(o) PROVE Legal'
  BY <1>9 DEF Verify
<1>10. ASSUME NEW o \in Ops, ApproveFails(o) PROVE Legal'
  BY <1>10 DEF ApproveFails
<1>11. ASSUME NEW o \in Ops, Rollback(o) PROVE Legal'
  BY <1>11 DEF Rollback
<1>12. ASSUME NEW o \in Ops, RecordFailure(o) PROVE Legal'
  BY <1>12 DEF RecordFailure
<1>13. ASSUME NEW o \in Ops, AnnounceFailure(o) PROVE Legal'
  BY <1>13 DEF AnnounceFailure, End, Prepared
<1>14. ASSUME NEW o \in Ops, FailureFails(o) PROVE Legal'
  BY <1>14 DEF FailureFails, End, Prepared
<1>15. ASSUME NEW o \in Ops, CheckRevert(o) PROVE Legal'
  BY <1>15 DEF CheckRevert
<1>16. ASSUME NEW o \in Ops, Unapply(o) PROVE Legal'
  BY <1>16 DEF Unapply
<1>17. ASSUME NEW o \in Ops, ConfirmRevert(o) PROVE Legal'
  BY <1>17 DEF ConfirmRevert
<1>18. ASSUME NEW o \in Ops, StageRevert(o) PROVE Legal'
  BY <1>18 DEF StageRevert
<1>19. ASSUME NEW o \in Ops, CommitRevert(o) PROVE Legal'
  BY <1>19 DEF CommitRevert
<1>20. ASSUME NEW o \in Ops, ConfirmCommit(o) PROVE Legal'
  BY <1>20 DEF ConfirmCommit
<1>21. ASSUME NEW o \in Ops, RevertCommitFails(o) PROVE Legal'
  BY <1>21 DEF RevertCommitFails
<1>22. ASSUME NEW o \in Ops, RevertFails(o) PROVE Legal'
  BY <1>22 DEF RevertFails, End, Prepared
<1>23. ASSUME NEW o \in Ops, ReadHead(o) PROVE Legal'
  BY <1>23 DEF ReadHead
<1>24. ASSUME NEW o \in Ops, Inspect(o) PROVE Legal'
  BY <1>24 DEF Inspect
<1>25. ASSUME NEW o \in Ops, Compare(o) PROVE Legal'
  BY <1>25 DEF Compare
<1>26. ASSUME NEW o \in Ops, ReconcileFails(o) PROVE Legal'
  BY <1>26 DEF ReconcileFails, End, Prepared
<1>27. ASSUME NEW o \in Ops, StartApprove(o) PROVE Legal'
  BY <1>27 DEF StartApprove, Begin
<1>28. ASSUME NEW o \in Ops, StartRevert(o) PROVE Legal'
  BY <1>28 DEF StartRevert, Begin
<1>29. ASSUME NEW o \in Ops, StartReconcile(o) PROVE Legal'
  BY <1>29 DEF StartReconcile, Begin
<1>30. ASSUME NEW o \in Ops, GiveUp(o) PROVE Legal'
  BY <1>30 DEF GiveUp, End, Prepared
<1>31. CASE UserTouches
  BY <1>31 DEF UserTouches
<1>32. CASE UserCommits
  BY <1>32 DEF UserCommits
<1>33. CASE Crash
  BY <1>33 DEF Crash, Prepared
<1> QED
  BY <1>1, <1>2, <1>3, <1>4, <1>5, <1>6, <1>7, <1>8, <1>9, <1>10, <1>11, <1>12, <1>13, <1>14,
     <1>15, <1>16, <1>17, <1>18, <1>19, <1>20, <1>21, <1>22, <1>23, <1>24, <1>25, <1>26, <1>27,
     <1>28, <1>29, <1>30, <1>31, <1>32, <1>33 DEF Next, Step

\* The other variables keep their types.
OthersTyped ==
  /\ shown \in Statuses /\ tree \subseteq Changes
  /\ headSeen \in [Ops -> Seq(Commits)]
  /\ userSteps \in 0..MaxUserSteps /\ crashes \in 0..MaxCrashes

\* Every step keeps the types of the copies.
LEMMA OthersStep ==
  ASSUME Typed, OthersTyped, Next
  PROVE  OthersTyped'
<1> USE DEF Goto, disk, calls, env
<1>1. mind \in [Ops -> Proposals] /\ log \in Seq(Commits) /\ <<>> \in Seq(Commits)
      /\ \A o \in Ops : mind[o].status \in Statuses
  BY DEF Typed, Proposals
<1>2. ASSUME NEW o \in Ops, StartApprove(o) \/ StartRevert(o) \/ StartReconcile(o) \/ GiveUp(o)
      PROVE  OthersTyped'
  BY <1>1, <1>2 DEF StartApprove, StartRevert, StartReconcile, GiveUp, Begin, End, OthersTyped
<1>3. ASSUME NEW o \in Ops, Acquire(o) \/ Record(o) \/ Announce(o) \/ Intend(o) \/ AnnounceIntent(o)
                              \/ Validate(o) \/ Verify(o)
      PROVE  OthersTyped'
  BY <1>1, <1>3 DEF Acquire, Record, Announce, Intend, AnnounceIntent, Validate, Verify, End,
                    OthersTyped, Statuses
<1>4. ASSUME NEW o \in Ops, NEW t \in LeftBehind(o)
      PROVE  t \subseteq Changes
  BY <1>4 DEF LeftBehind, Torn, OthersTyped, Changes
<1>5. ASSUME NEW o \in Ops, ApplyPatch(o) \/ CommitPatch(o) \/ ApproveFails(o) \/ Rollback(o)
      PROVE  OthersTyped'
  <2>1. tree' \subseteq Changes
    BY <1>4, <1>5 DEF ApplyPatch, CommitPatch, ApproveFails, Rollback, Restored, OthersTyped,
       Changes
  <2> QED
    BY <1>5, <2>1 DEF ApplyPatch, CommitPatch, ApproveFails, Rollback, OthersTyped
<1>6. ASSUME NEW o \in Ops, RecordFailure(o) \/ AnnounceFailure(o) \/ FailureFails(o)
      PROVE  OthersTyped'
  BY <1>1, <1>6 DEF RecordFailure, AnnounceFailure, FailureFails, End, OthersTyped
<1>7. ASSUME NEW o \in Ops, CheckRevert(o) \/ Unapply(o) \/ ConfirmRevert(o) \/ StageRevert(o)
                              \/ CommitRevert(o) \/ ConfirmCommit(o) \/ RevertCommitFails(o)
      PROVE  OthersTyped'
  BY <1>7 DEF CheckRevert, Unapply, ConfirmRevert, StageRevert, CommitRevert, ConfirmCommit,
              RevertCommitFails, OthersTyped, Changes
<1>8. ASSUME NEW o \in Ops, RevertFails(o) PROVE OthersTyped'
  <2>1. tree' \subseteq Changes
    BY <1>4, <1>8 DEF RevertFails
  <2> QED
    BY <1>1, <1>8, <2>1 DEF RevertFails, End, OthersTyped
<1>9. ASSUME NEW o \in Ops, ReadHead(o) \/ Inspect(o) \/ Compare(o) \/ ReconcileFails(o)
      PROVE  OthersTyped'
  BY <1>1, <1>9 DEF ReadHead, Inspect, Compare, ReconcileFails, End, OthersTyped, Statuses
<1>10. CASE UserTouches
  BY <1>10, IntegrationAssumption DEF UserTouches, UserMayAct, OthersTyped, Changes
<1>11. CASE UserCommits
  BY <1>11, IntegrationAssumption DEF UserCommits, UserMayAct, OthersTyped
<1>12. CASE Crash
  <2>1. tree' \subseteq Changes
    BY <1>12 DEF Crash, Torn, OthersTyped, Changes
  <2> QED
    BY <1>1, <1>12, <2>1, IntegrationAssumption DEF Crash, OthersTyped
<1> QED
  BY <1>2, <1>3, <1>5, <1>6, <1>7, <1>8, <1>9, <1>10, <1>11, <1>12 DEF Next, Step

CallsInv == Typed /\ Legal /\ OthersTyped

\* Calls and copies are typed and legal in every reachable state.
LEMMA CallsInvCorrect == Spec => []CallsInv
<1>1. Init => Legal /\ OthersTyped
  BY IntegrationAssumption DEF Init, Legal, LegalAt, OthersTyped, Kinds, Steps, Statuses, Prepared,
     ApproveSteps, FailureSteps, RevertSteps, ReconcileSteps
<1>2. Typed /\ Legal /\ OthersTyped /\ [Next]_vars => (Legal /\ OthersTyped)'
  <2> SUFFICES ASSUME Typed, Legal, OthersTyped, [Next]_vars PROVE (Legal /\ OthersTyped)'
    OBVIOUS
  <2>1. CASE UNCHANGED vars
    BY <2>1 DEF vars, disk, calls, env, Legal, LegalAt, OthersTyped
  <2> QED
    BY <2>1, LegalStep, OthersStep
<1>3. Declared => Typed
  BY DEF Declared
<1> QED
  BY <1>1, <1>2, <1>3, DeclaredCorrect, PTL DEF Spec, CallsInv

\* Every variable keeps its type, the lease belongs to the one call that took it and
\* still runs, and a reconciliation never holds it.
THEOREM TypeCorrect == Spec => []TypeOK
<1>1. CallsInv => TypeOK
  BY DEF CallsInv, Typed, Legal, LegalAt, OthersTyped, TypeOK
<1> QED
  BY <1>1, CallsInvCorrect, PTL

-----------------------------------------------------------------------------
(* What the user adds to the tree.                                         *)

\* Beside an approval that is to make a commit, at its effects, there is no edit of
\* the user: it found the tree clean, and the user makes none until it has ended.
EditsApart ==
  \A o \in Ops :
    /\ pc[o] = "commit" => mind[o].commit
    /\ (pc[o] \in {"apply", "commit"} \/ o \in patched) /\ mind[o].commit => "edit" \notin tree

\* What a step leaves of the user's changes.
KeepsEdits ==
  \A c \in {"edit", "stray"} : c \in tree /\ c \notin tree' => log' = Append(log, "user")

\* A torn git operation touches none of the user's edits.
LEMMA TornKeepsEdits ==
  ASSUME NEW o \in Ops, NEW t \in LeftBehind(o) \cup Torn(o)
  PROVE  \A c \in {"edit", "stray"} : c \in tree <=> c \in t
  BY DEF LeftBehind, Torn

\* Every step leaves the user's edits as they were.
LEMMA EditsStep ==
  ASSUME CallsInv, EditsApart, Next
  PROVE  EditsApart' /\ KeepsEdits
<1> USE DEF CallsInv, Typed, Legal, LegalAt, EditsApart, KeepsEdits, Goto, disk, calls, env
<1>0. \A p \in Ops : mind[p] \in Proposals
  OBVIOUS
<1>1. ASSUME NEW o \in Ops, StartApprove(o) PROVE EditsApart' /\ KeepsEdits
  BY <1>0, <1>1 DEF StartApprove, Begin, Steps, ApproveSteps, FailureSteps, RevertSteps,
     ReconcileSteps
<1>2. ASSUME NEW o \in Ops, StartRevert(o) PROVE EditsApart' /\ KeepsEdits
  BY <1>0, <1>2 DEF StartRevert, Begin
<1>3. ASSUME NEW o \in Ops, StartReconcile(o) PROVE EditsApart' /\ KeepsEdits
  BY <1>0, <1>3 DEF StartReconcile, Begin
<1>4. ASSUME NEW o \in Ops, GiveUp(o) PROVE EditsApart' /\ KeepsEdits
  BY <1>0, <1>4 DEF GiveUp, End, Prepared
<1>5. ASSUME NEW o \in Ops, Acquire(o) PROVE EditsApart' /\ KeepsEdits
  BY <1>0, <1>5 DEF Acquire, FirstStep
<1>6. ASSUME NEW o \in Ops, Record(o) PROVE EditsApart' /\ KeepsEdits
  BY <1>0, <1>6 DEF Record
<1>7. ASSUME NEW o \in Ops, Announce(o) PROVE EditsApart' /\ KeepsEdits
  BY <1>0, <1>7 DEF Announce, End, Prepared
<1>8. ASSUME NEW o \in Ops, Intend(o) PROVE EditsApart' /\ KeepsEdits
  BY <1>0, <1>8 DEF Intend, Proposals
<1>9. ASSUME NEW o \in Ops, AnnounceIntent(o) PROVE EditsApart' /\ KeepsEdits
  BY <1>0, <1>9 DEF AnnounceIntent
<1>10. ASSUME NEW o \in Ops, Validate(o) PROVE EditsApart' /\ KeepsEdits
  BY <1>0, <1>10 DEF Validate, Valid, Clean
<1>11. ASSUME NEW o \in Ops, ApplyPatch(o) PROVE EditsApart' /\ KeepsEdits
  BY <1>0, <1>11 DEF ApplyPatch
<1>12. ASSUME NEW o \in Ops, CommitPatch(o) PROVE EditsApart' /\ KeepsEdits
  BY <1>0, <1>12 DEF CommitPatch, Proposals
<1>13. ASSUME NEW o \in Ops, Verify(o) PROVE EditsApart' /\ KeepsEdits
  BY <1>0, <1>13 DEF Verify, Proposals
<1>14. ASSUME NEW o \in Ops, ApproveFails(o) PROVE EditsApart' /\ KeepsEdits
  BY <1>0, <1>14, TornKeepsEdits DEF ApproveFails
<1>15. ASSUME NEW o \in Ops, Rollback(o) PROVE EditsApart' /\ KeepsEdits
  <2>1. tree' \in LeftBehind(o) \cup {tree} \/ (o \in patched /\ tree' = Restored(o))
    BY <1>15 DEF Rollback
  <2>2. \A c \in {"edit", "stray"} : c \in tree <=> c \in tree'
    BY <2>1, TornKeepsEdits DEF Restored
  <2>3. \A p \in Ops : mind'[p].commit = mind[p].commit
    BY <1>0, <1>15 DEF Rollback, Proposals
  <2>4. UNCHANGED patched /\ \A p \in Ops : pc'[p] \in {pc[p], "recordFailure"}
    BY <1>15 DEF Rollback
  <2> QED
    BY <2>2, <2>3, <2>4
<1>16. ASSUME NEW o \in Ops, RecordFailure(o) PROVE EditsApart' /\ KeepsEdits
  BY <1>0, <1>16 DEF RecordFailure
<1>17. ASSUME NEW o \in Ops, AnnounceFailure(o) PROVE EditsApart' /\ KeepsEdits
  BY <1>0, <1>17 DEF AnnounceFailure, End, Prepared
<1>18. ASSUME NEW o \in Ops, FailureFails(o) PROVE EditsApart' /\ KeepsEdits
  BY <1>0, <1>18 DEF FailureFails, End, Prepared
<1>19. ASSUME NEW o \in Ops, CheckRevert(o) PROVE EditsApart' /\ KeepsEdits
  BY <1>0, <1>19 DEF CheckRevert
<1>20. ASSUME NEW o \in Ops, Unapply(o) PROVE EditsApart' /\ KeepsEdits
  BY <1>0, <1>20 DEF Unapply
<1>21. ASSUME NEW o \in Ops, ConfirmRevert(o) PROVE EditsApart' /\ KeepsEdits
  BY <1>0, <1>21 DEF ConfirmRevert, Proposals
<1>22. ASSUME NEW o \in Ops, StageRevert(o) PROVE EditsApart' /\ KeepsEdits
  BY <1>0, <1>22 DEF StageRevert
<1>23. ASSUME NEW o \in Ops, CommitRevert(o) PROVE EditsApart' /\ KeepsEdits
  BY <1>0, <1>23 DEF CommitRevert
<1>24. ASSUME NEW o \in Ops, ConfirmCommit(o) PROVE EditsApart' /\ KeepsEdits
  BY <1>0, <1>24 DEF ConfirmCommit, Proposals
<1>25. ASSUME NEW o \in Ops, RevertCommitFails(o) PROVE EditsApart' /\ KeepsEdits
  BY <1>0, <1>25 DEF RevertCommitFails, Proposals
<1>26. ASSUME NEW o \in Ops, RevertFails(o) PROVE EditsApart' /\ KeepsEdits
  BY <1>0, <1>26, TornKeepsEdits DEF RevertFails, End, Prepared
<1>27. ASSUME NEW o \in Ops, ReadHead(o) PROVE EditsApart' /\ KeepsEdits
  BY <1>0, <1>27 DEF ReadHead
<1>28. ASSUME NEW o \in Ops, Inspect(o) PROVE EditsApart' /\ KeepsEdits
  BY <1>0, <1>28 DEF Inspect, Proposals
<1>29. ASSUME NEW o \in Ops, Compare(o) PROVE EditsApart' /\ KeepsEdits
  BY <1>0, <1>29 DEF Compare, Proposals
<1>30. ASSUME NEW o \in Ops, ReconcileFails(o) PROVE EditsApart' /\ KeepsEdits
  BY <1>0, <1>30 DEF ReconcileFails, End, Prepared
<1>31. CASE UserTouches
  <2>1. CASE Busy = {}
    <3>1. \A o \in Ops : kind[o] = "none"
      BY <2>1 DEF Busy
    <3> QED
      BY <1>31, <3>1 DEF UserTouches
  <2>2. CASE Busy # {}
    BY <1>31, <2>2 DEF UserTouches, UserMayAct
  <2> QED
    BY <2>1, <2>2
<1>32. CASE UserCommits
  BY <1>32 DEF UserCommits
<1>33. CASE Crash
  <2>1. PICK o \in Ops : tree' \in Torn(o)
    BY <1>33 DEF Crash
  <2>2. KeepsEdits
    BY <2>1, TornKeepsEdits
  <2>3. EditsApart'
    BY <1>33 DEF Crash, Prepared
  <2> QED
    BY <2>2, <2>3
<1> QED
  BY <1>1, <1>2, <1>3, <1>4, <1>5, <1>6, <1>7, <1>8, <1>9, <1>10, <1>11, <1>12, <1>13, <1>14,
     <1>15, <1>16, <1>17, <1>18, <1>19, <1>20, <1>21, <1>22, <1>23, <1>24, <1>25, <1>26, <1>27,
     <1>28, <1>29, <1>30, <1>31, <1>32, <1>33 DEF Next, Step

\* No operation ever takes away what the user added to the working tree, whatever
\* fails, crashes or overlaps: it only leaves it in a commit of the user's own.
THEOREM UserEditsKeptCorrect == Spec => UserEditsKept
<1>1. Init => EditsApart
  BY DEF Init, EditsApart, Prepared
<1>2. CallsInv /\ EditsApart /\ [Next]_vars => EditsApart' /\ [KeepsEdits]_vars
  <2> SUFFICES ASSUME CallsInv, EditsApart, [Next]_vars PROVE EditsApart' /\ [KeepsEdits]_vars
    OBVIOUS
  <2>1. CASE UNCHANGED vars
    BY <2>1 DEF vars, disk, calls, EditsApart
  <2> QED
    BY <2>1, EditsStep
<1>3. Spec => [][KeepsEdits]_vars
  BY <1>1, <1>2, CallsInvCorrect, PTL DEF Spec
<1> QED
  BY <1>3 DEF UserEditsKept, KeepsEdits

-----------------------------------------------------------------------------
(* Calls that do not overlap a reconciliation.                             *)

\* A reconciliation, which takes no lease, is the only call in flight, and what it
\* read of HEAD still is so.
Alone == \A o, p \in Ops : kind[o] = "reconcile" /\ kind[p] # "none" => o = p
HeadIsSeen == \A o \in Ops : pc[o] \in {"inspect", "compare"} => headSeen[o] = log

ApartInv == Alone /\ HeadIsSeen

\* While a call is past its lease, the others wait for theirs.
LEMMA OthersWait ==
  ASSUME CallsInv, Alone, NEW o \in Ops, pc[o] \notin {"idle", "acquire"}, NEW p \in Ops, p # o
  PROVE  pc[p] \in {"idle", "acquire"}
BY DEF CallsInv, Typed, Legal, LegalAt, Alone, Kinds

\* So they do when a call gets the lease.
LEMMA NobodyElse ==
  ASSUME CallsInv, Alone, NEW o \in Ops, Acquire(o), NEW p \in Ops
  PROVE  pc[p] \in {"idle", "acquire"}
BY IntegrationAssumption
DEF Acquire, CallsInv, Typed, Legal, LegalAt, Alone, Kinds, ReconcileSteps

\* Every step keeps the calls that hold the leases apart.
LEMMA ApartStep ==
  ASSUME "reconcile" \notin Races, CallsInv, ApartInv, Next
  PROVE  ApartInv'
<1> USE DEF CallsInv, Typed, Legal, LegalAt, ApartInv, Alone, HeadIsSeen, Goto, disk, calls, env
<1> USE DEF ApproveSteps, RevertSteps, ReconcileSteps, Kinds
<1>1. ASSUME NEW o \in Ops, StartApprove(o) PROVE ApartInv'
  <2>1. \A p \in Ops : kind[p] # "reconcile"
    BY <1>1 DEF StartApprove, MayStart, Busy
  <2> QED
    BY <1>1, <2>1 DEF StartApprove, Begin
<1>2. ASSUME NEW o \in Ops, StartRevert(o) PROVE ApartInv'
  <2>1. \A p \in Ops : kind[p] # "reconcile"
    BY <1>2 DEF StartRevert, MayStart, Busy
  <2> QED
    BY <1>2, <2>1 DEF StartRevert, Begin
<1>3. ASSUME NEW o \in Ops, StartReconcile(o) PROVE ApartInv'
  <2>1. \A p \in Ops : kind[p] # "reconcile"
    BY <1>3 DEF StartReconcile, MayStart, Busy
  <2>2. \A p \in Ops : kind[p] = "none"
    BY <1>3 DEF StartReconcile, MayStart, Busy
  <2> QED
    BY <1>3, <2>1, <2>2 DEF StartReconcile, Begin
<1>4. ASSUME NEW o \in Ops, GiveUp(o) PROVE ApartInv'
  BY <1>4 DEF GiveUp, End, Prepared
<1>5. ASSUME NEW o \in Ops, Acquire(o) PROVE ApartInv'
  BY <1>5 DEF Acquire, FirstStep
<1>6. ASSUME NEW o \in Ops, Record(o) PROVE ApartInv'
  BY <1>6 DEF Record
<1>7. ASSUME NEW o \in Ops, Announce(o) PROVE ApartInv'
  BY <1>7 DEF Announce, End, Prepared
<1>8. ASSUME NEW o \in Ops, Intend(o) PROVE ApartInv'
  BY <1>8 DEF Intend, Proposals
<1>9. ASSUME NEW o \in Ops, AnnounceIntent(o) PROVE ApartInv'
  BY <1>9 DEF AnnounceIntent
<1>10. ASSUME NEW o \in Ops, Validate(o) PROVE ApartInv'
  BY <1>10 DEF Validate
<1>11. ASSUME NEW o \in Ops, ApplyPatch(o) PROVE ApartInv'
  BY <1>11 DEF ApplyPatch
<1>12. ASSUME NEW o \in Ops, CommitPatch(o) PROVE ApartInv'
  BY <1>12 DEF CommitPatch, Proposals
<1>13. ASSUME NEW o \in Ops, Verify(o) PROVE ApartInv'
  BY <1>13 DEF Verify, Proposals
<1>14. ASSUME NEW o \in Ops, ApproveFails(o) PROVE ApartInv'
  BY <1>14 DEF ApproveFails
<1>15. ASSUME NEW o \in Ops, Rollback(o) PROVE ApartInv'
  BY <1>15 DEF Rollback, Proposals
<1>16. ASSUME NEW o \in Ops, RecordFailure(o) PROVE ApartInv'
  BY <1>16 DEF RecordFailure
<1>17. ASSUME NEW o \in Ops, AnnounceFailure(o) PROVE ApartInv'
  BY <1>17 DEF AnnounceFailure, End, Prepared
<1>18. ASSUME NEW o \in Ops, FailureFails(o) PROVE ApartInv'
  BY <1>18 DEF FailureFails, End, Prepared
<1>19. ASSUME NEW o \in Ops, CheckRevert(o) PROVE ApartInv'
  BY <1>19 DEF CheckRevert
<1>20. ASSUME NEW o \in Ops, Unapply(o) PROVE ApartInv'
  BY <1>20 DEF Unapply
<1>21. ASSUME NEW o \in Ops, ConfirmRevert(o) PROVE ApartInv'
  BY <1>21 DEF ConfirmRevert, Proposals
<1>22. ASSUME NEW o \in Ops, StageRevert(o) PROVE ApartInv'
  BY <1>22 DEF StageRevert
<1>23. ASSUME NEW o \in Ops, CommitRevert(o) PROVE ApartInv'
  BY <1>23 DEF CommitRevert
<1>24. ASSUME NEW o \in Ops, ConfirmCommit(o) PROVE ApartInv'
  BY <1>24 DEF ConfirmCommit, Proposals
<1>25. ASSUME NEW o \in Ops, RevertCommitFails(o) PROVE ApartInv'
  BY <1>25 DEF RevertCommitFails, Proposals
<1>26. ASSUME NEW o \in Ops, RevertFails(o) PROVE ApartInv'
  BY <1>26 DEF RevertFails, End, Prepared
<1>27. ASSUME NEW o \in Ops, ReadHead(o) PROVE ApartInv'
  BY <1>27 DEF ReadHead, OthersTyped
<1>28. ASSUME NEW o \in Ops, Inspect(o) PROVE ApartInv'
  BY <1>28 DEF Inspect, Proposals
<1>29. ASSUME NEW o \in Ops, Compare(o) PROVE ApartInv'
  BY <1>29 DEF Compare, Proposals
<1>30. ASSUME NEW o \in Ops, ReconcileFails(o) PROVE ApartInv'
  BY <1>30 DEF ReconcileFails, End, Prepared
<1>31. CASE UserTouches
  BY <1>31 DEF UserTouches
<1>32. CASE UserCommits
  <2>1. \A o \in Ops : kind[o] = "none"
    BY <1>32 DEF UserCommits, Busy
  <2> QED
    BY <1>32, <2>1 DEF UserCommits
<1>33. CASE Crash
  BY <1>33 DEF Crash, Prepared
<1> QED
BY <1>1, <1>2, <1>3, <1>4, <1>5, <1>6, <1>7, <1>8, <1>9, <1>10, <1>11, <1>12, <1>13, <1>14,
     <1>15, <1>16, <1>17, <1>18, <1>19, <1>20, <1>21, <1>22, <1>23, <1>24, <1>25, <1>26, <1>27,
     <1>28, <1>29, <1>30, <1>31, <1>32, <1>33 DEF Next, Step

\* At most one call is at work in every reachable state.
LEMMA ApartInvCorrect ==
  ASSUME "reconcile" \notin Races
  PROVE  Spec => []ApartInv
<1>1. Init => ApartInv
  BY DEF Init, ApartInv, Alone, HeadIsSeen
<1>2. CallsInv /\ ApartInv /\ [Next]_vars => ApartInv'
  <2>1. ASSUME ApartInv, UNCHANGED vars PROVE ApartInv'
    BY <2>1 DEF vars, disk, calls, ApartInv, Alone, HeadIsSeen
  <2> QED
    BY <2>1, ApartStep
<1> QED
  BY <1>1, <1>2, CallsInvCorrect, PTL DEF Spec

-----------------------------------------------------------------------------
(* What a proposal at rest says of the repository.                         *)

\* Nothing of the patch is in the tree or in the history.
Untouched == ~Integrated /\ tree \cap {"patch", "partial"} = {}

\* From its saved intent to its outcome a call finds the proposal as it left it, and
\* until its commit the history at the baseline; what it is about to save of a
\* rollback is so.
RestAt(o) ==
  /\ pc[o] \in AfterIntent => proposal.status = "applying"
  /\ pc[o] \in {"apply", "commit", "verify"} => AtBaseline
  /\ pc[o] = "commit" => mind[o].commit
  /\ o \in patched => pc[o] \notin {"acquire", "intend", "announceIntent", "validate"}
  /\ o \in patched /\ (pc[o] = "rollback" \/ (pc[o] \in {"record", "announce"} /\ ~mind[o].commit))
       => AtBaseline
  /\ pc[o] \in {"record", "recordFailure"} /\ mind[o].status = "failed" /\ mind[o].rolledBack
       => Untouched

RestSaved == proposal.status = "failed" /\ proposal.rolledBack => Untouched
RestInv == RestSaved /\ \A o \in Ops : RestAt(o)

\* A commit of something else does not integrate the patch.
LEMMA OtherCommitsAdd ==
  ASSUME Typed, NEW c \in Commits \ {"integration"}, log' = Append(log, c)
  PROVE  Integrated' <=> Integrated
BY RangeOfAppend DEF Typed, Integrated

\* What git leaves of a tree without the patch holds no part of it, but where it
\* was applying it.
LEMMA TornIsUntouched ==
  ASSUME Untouched, NEW o \in Ops, tree' \in Torn(o) \cup LeftBehind(o), pc[o] # "apply",
         UNCHANGED log
  PROVE  Untouched'
BY DEF Torn, LeftBehind, Untouched, Integrated

\* A step of one call while the others wait: what it must show is its own part.
LEMMA RestMoves ==
  ASSUME CallsInv, RestInv, NEW o \in Ops,
         \A p \in Ops \ {o} : /\ pc[p] \in {"idle", "acquire"}
                              /\ pc'[p] = pc[p],
         patched' \ {o} \subseteq patched,
         RestSaved', RestAt(o)'
  PROVE  RestInv'
BY DEF RestInv, RestAt, AfterIntent

\* Every step keeps status, tree and index in agreement while nobody is at work.
LEMMA RestStep ==
  ASSUME "reconcile" \notin Races, ~BookkeepingMayFail, CallsInv, ApartInv, RestInv, Next
  PROVE  RestInv'
<1> USE DEF Goto, disk, calls, env
<1>a. \A o, p \in Ops : pc[o] \notin {"idle", "acquire"} /\ p # o => pc[p] \in {"idle", "acquire"}
  BY OthersWait DEF ApartInv
<1>b. UNCHANGED <<log, tree>> => (Untouched <=> Untouched')
  BY DEF Untouched, Integrated
<1>c. AtBaseline /\ UNCHANGED log /\ tree' = {} => Untouched'
  BY DEF AtBaseline, Untouched, Integrated, Range
<1>d. AtBaseline /\ Clean => Untouched
  BY DEF AtBaseline, Clean, Untouched, Integrated, Range
<1>1. ASSUME NEW o \in Ops, StartApprove(o) PROVE RestInv'
BY <1>1, <1>b DEF StartApprove, Begin, CallsInv, Typed, Legal, LegalAt, RestInv, RestAt,
     RestSaved, AtBaseline, AfterIntent, ApproveSteps, RevertSteps, ReconcileSteps
<1>2. ASSUME NEW o \in Ops, StartRevert(o) PROVE RestInv'
BY <1>2, <1>b DEF StartRevert, Begin, CallsInv, Typed, Legal, LegalAt, RestInv, RestAt,
     RestSaved, AtBaseline, AfterIntent, ApproveSteps, RevertSteps, ReconcileSteps
<1>3. ASSUME NEW o \in Ops, StartReconcile(o) PROVE RestInv'
BY <1>3, <1>b DEF StartReconcile, Begin, CallsInv, Typed, Legal, LegalAt, RestInv, RestAt,
     RestSaved, AtBaseline, AfterIntent, ApproveSteps, RevertSteps, ReconcileSteps
<1>4. ASSUME NEW o \in Ops, GiveUp(o) PROVE RestInv'
BY <1>4, <1>b DEF GiveUp, End, Prepared, CallsInv, Typed, Legal, LegalAt, RestInv, RestAt,
     RestSaved, AtBaseline, AfterIntent, ApproveSteps, RevertSteps, ReconcileSteps
<1>5. ASSUME NEW o \in Ops, Acquire(o) PROVE RestInv'
  <2>1. \A p \in Ops \ {o} : pc[p] \in {"idle", "acquire"} /\ pc'[p] = pc[p]
BY <1>5, NobodyElse DEF Acquire, FirstStep, CallsInv, Typed, Legal, LegalAt, ApartInv,
       ApproveSteps, RevertSteps, ReconcileSteps
  <2>2. patched' \ {o} \subseteq patched
    BY <1>5 DEF Acquire, FirstStep
  <2>3. RestSaved'
    BY <1>5, <1>b DEF Acquire, FirstStep, RestInv, RestSaved
  <2>4. RestAt(o)'
BY <1>5, <1>b DEF Acquire, FirstStep, CallsInv, Typed, Legal, LegalAt, RestInv, RestAt,
       RestSaved, AtBaseline, AfterIntent, ApproveSteps, RevertSteps, ReconcileSteps
  <2> QED
    BY <2>1, <2>2, <2>3, <2>4, RestMoves
<1>6. ASSUME NEW o \in Ops, Record(o) PROVE RestInv'
  <2>1. \A p \in Ops \ {o} : pc[p] \in {"idle", "acquire"} /\ pc'[p] = pc[p]
BY <1>6, <1>a DEF Record, CallsInv, Typed, Legal, LegalAt, ApartInv, ApproveSteps, RevertSteps,
       ReconcileSteps
  <2>2. patched' \ {o} \subseteq patched
    BY <1>6 DEF Record
  <2>3. RestSaved'
    BY <1>6, <1>b DEF Record, CallsInv, Typed, RestInv, RestSaved, RestAt
  <2>4. RestAt(o)'
BY <1>6, <1>b DEF Record, CallsInv, Typed, Legal, LegalAt, RestInv, RestAt, RestSaved,
       AtBaseline, AfterIntent, ApproveSteps, RevertSteps, ReconcileSteps
  <2> QED
    BY <2>1, <2>2, <2>3, <2>4, RestMoves
<1>7. ASSUME NEW o \in Ops, Announce(o) PROVE RestInv'
  <2>1. \A p \in Ops \ {o} : pc[p] \in {"idle", "acquire"} /\ pc'[p] = pc[p]
BY <1>7, <1>a DEF Announce, End, Prepared, CallsInv, Typed, Legal, LegalAt, ApartInv,
       ApproveSteps, RevertSteps, ReconcileSteps
  <2>2. patched' \ {o} \subseteq patched
    BY <1>7 DEF Announce, End, Prepared
  <2>3. RestSaved'
    BY <1>7, <1>b DEF Announce, End, Prepared, RestInv, RestSaved
  <2>4. RestAt(o)'
BY <1>7, <1>b DEF Announce, End, Prepared, CallsInv, Typed, Legal, LegalAt, RestInv, RestAt,
       RestSaved, AtBaseline, AfterIntent, ApproveSteps, RevertSteps, ReconcileSteps
  <2> QED
    BY <2>1, <2>2, <2>3, <2>4, RestMoves
<1>8. ASSUME NEW o \in Ops, Intend(o) PROVE RestInv'
  <2>1. \A p \in Ops \ {o} : pc[p] \in {"idle", "acquire"} /\ pc'[p] = pc[p]
BY <1>8, <1>a DEF Intend, Proposals, CallsInv, Typed, Legal, LegalAt, ApartInv, ApproveSteps,
       RevertSteps, ReconcileSteps
  <2>2. patched' \ {o} \subseteq patched
    BY <1>8 DEF Intend, Proposals
  <2>3. RestSaved'
    BY <1>8, <1>b DEF Intend, Proposals, CallsInv, Typed, RestInv, RestSaved, RestAt
  <2>4. RestAt(o)'
BY <1>8, <1>b DEF Intend, Proposals, CallsInv, Typed, Legal, LegalAt, RestInv, RestAt,
       RestSaved, AtBaseline, AfterIntent, ApproveSteps, RevertSteps, ReconcileSteps
  <2> QED
    BY <2>1, <2>2, <2>3, <2>4, RestMoves
<1>9. ASSUME NEW o \in Ops, AnnounceIntent(o) PROVE RestInv'
  <2>1. \A p \in Ops \ {o} : pc[p] \in {"idle", "acquire"} /\ pc'[p] = pc[p]
BY <1>9, <1>a DEF AnnounceIntent, CallsInv, Typed, Legal, LegalAt, ApartInv, ApproveSteps,
       RevertSteps, ReconcileSteps
  <2>2. patched' \ {o} \subseteq patched
    BY <1>9 DEF AnnounceIntent
  <2>3. RestSaved'
    BY <1>9, <1>b DEF AnnounceIntent, RestInv, RestSaved
  <2>4. RestAt(o)'
BY <1>9, <1>b DEF AnnounceIntent, CallsInv, Typed, Legal, LegalAt, RestInv, RestAt, RestSaved,
       AtBaseline, AfterIntent, ApproveSteps, RevertSteps, ReconcileSteps
  <2> QED
    BY <2>1, <2>2, <2>3, <2>4, RestMoves
<1>10. ASSUME NEW o \in Ops, Validate(o) PROVE RestInv'
  <2>1. \A p \in Ops \ {o} : pc[p] \in {"idle", "acquire"} /\ pc'[p] = pc[p]
BY <1>10, <1>a DEF Validate, CallsInv, Typed, Legal, LegalAt, ApartInv, ApproveSteps,
       RevertSteps, ReconcileSteps
  <2>2. patched' \ {o} \subseteq patched
    BY <1>10 DEF Validate
  <2>3. RestSaved'
    BY <1>10, <1>b DEF Validate, RestInv, RestSaved
  <2>4. RestAt(o)'
BY <1>10, <1>b DEF Validate, Valid, CallsInv, Typed, Legal, LegalAt, RestInv, RestAt, RestSaved,
       AtBaseline, AfterIntent, ApproveSteps, RevertSteps, ReconcileSteps
  <2> QED
    BY <2>1, <2>2, <2>3, <2>4, RestMoves
<1>11. ASSUME NEW o \in Ops, ApplyPatch(o) PROVE RestInv'
  <2>1. \A p \in Ops \ {o} : pc[p] \in {"idle", "acquire"} /\ pc'[p] = pc[p]
BY <1>11, <1>a DEF ApplyPatch, CallsInv, Typed, Legal, LegalAt, ApartInv, ApproveSteps,
       RevertSteps, ReconcileSteps
  <2>2. patched' \ {o} \subseteq patched
    BY <1>11 DEF ApplyPatch
  <2>3. RestSaved'
    BY <1>11 DEF ApplyPatch, RestInv, RestSaved, RestAt, AfterIntent
  <2>4. RestAt(o)'
BY <1>11, <1>b DEF ApplyPatch, CallsInv, Typed, Legal, LegalAt, RestInv, RestAt, RestSaved,
       AtBaseline, AfterIntent, ApproveSteps, RevertSteps, ReconcileSteps
  <2> QED
    BY <2>1, <2>2, <2>3, <2>4, RestMoves
<1>12. ASSUME NEW o \in Ops, CommitPatch(o) PROVE RestInv'
  <2>1. \A p \in Ops \ {o} : pc[p] \in {"idle", "acquire"} /\ pc'[p] = pc[p]
BY <1>12, <1>a DEF CommitPatch, Proposals, CallsInv, Typed, Legal, LegalAt, ApartInv,
       ApproveSteps, RevertSteps, ReconcileSteps
  <2>2. patched' \ {o} \subseteq patched
    BY <1>12 DEF CommitPatch, Proposals
  <2>3. RestSaved'
    BY <1>12 DEF CommitPatch, Proposals, RestInv, RestSaved, RestAt, AfterIntent
  <2>4. RestAt(o)'
BY <1>12, <1>b DEF CommitPatch, Proposals, CallsInv, Typed, Legal, LegalAt, RestInv, RestAt,
       RestSaved, AtBaseline, AfterIntent, ApproveSteps, RevertSteps, ReconcileSteps
  <2> QED
    BY <2>1, <2>2, <2>3, <2>4, RestMoves
<1>13. ASSUME NEW o \in Ops, Verify(o) PROVE RestInv'
  <2>1. \A p \in Ops \ {o} : pc[p] \in {"idle", "acquire"} /\ pc'[p] = pc[p]
BY <1>13, <1>a DEF Verify, Proposals, CallsInv, Typed, Legal, LegalAt, ApartInv, ApproveSteps,
       RevertSteps, ReconcileSteps
  <2>2. patched' \ {o} \subseteq patched
    BY <1>13 DEF Verify, Proposals
  <2>3. RestSaved'
    BY <1>13, <1>b DEF Verify, Proposals, RestInv, RestSaved
  <2>4. RestAt(o)'
BY <1>13, <1>b DEF Verify, Proposals, CallsInv, Typed, Legal, LegalAt, RestInv, RestAt,
       RestSaved, AtBaseline, AfterIntent, ApproveSteps, RevertSteps, ReconcileSteps
  <2> QED
    BY <2>1, <2>2, <2>3, <2>4, RestMoves
<1>14. ASSUME NEW o \in Ops, ApproveFails(o) PROVE RestInv'
  <2>1. \A p \in Ops \ {o} : pc[p] \in {"idle", "acquire"} /\ pc'[p] = pc[p]
BY <1>14, <1>a DEF ApproveFails, CallsInv, Typed, Legal, LegalAt, ApartInv, ApproveSteps,
       RevertSteps, ReconcileSteps
  <2>2. patched' \ {o} \subseteq patched
    BY <1>14 DEF ApproveFails
  <2>3. RestSaved'
    BY <1>14, TornIsUntouched DEF ApproveFails, RestInv, RestSaved, RestAt, AfterIntent
  <2>4. RestAt(o)'
BY <1>14, <1>b DEF ApproveFails, CommitIsMade, CallsInv, Typed, Legal, LegalAt, RestInv, RestAt,
       RestSaved, AtBaseline, AfterIntent, ApproveSteps, RevertSteps, ReconcileSteps
  <2> QED
    BY <2>1, <2>2, <2>3, <2>4, RestMoves
<1>15. ASSUME NEW o \in Ops, Rollback(o) PROVE RestInv'
  <2>1. \A p \in Ops \ {o} : pc[p] \in {"idle", "acquire"} /\ pc'[p] = pc[p]
BY <1>15, <1>a DEF Rollback, Proposals, CallsInv, Typed, Legal, LegalAt, ApartInv, ApproveSteps,
       RevertSteps, ReconcileSteps
  <2>2. patched' \ {o} \subseteq patched
    BY <1>15 DEF Rollback, Proposals
  <2>3. RestSaved'
BY <1>15 DEF Rollback, RestInv, RestSaved, RestAt, Untouched, Integrated, Restored, Torn,
       LeftBehind
  <2>4. RestAt(o)'
BY <1>15, <1>c DEF Rollback, Proposals, CallsInv, Typed, Legal, LegalAt, RestInv, RestAt,
       RestSaved, AtBaseline, AfterIntent, ApproveSteps, RevertSteps, ReconcileSteps
  <2> QED
    BY <2>1, <2>2, <2>3, <2>4, RestMoves
<1>16. ASSUME NEW o \in Ops, RecordFailure(o) PROVE RestInv'
  <2>1. \A p \in Ops \ {o} : pc[p] \in {"idle", "acquire"} /\ pc'[p] = pc[p]
BY <1>16, <1>a DEF RecordFailure, CallsInv, Typed, Legal, LegalAt, ApartInv, ApproveSteps,
       RevertSteps, ReconcileSteps
  <2>2. patched' \ {o} \subseteq patched
    BY <1>16 DEF RecordFailure
  <2>3. RestSaved'
    BY <1>16, <1>b DEF RecordFailure, CallsInv, Typed, RestInv, RestSaved, RestAt
  <2>4. RestAt(o)'
BY <1>16, <1>b DEF RecordFailure, CallsInv, Typed, Legal, LegalAt, RestInv, RestAt, RestSaved,
       AtBaseline, AfterIntent, ApproveSteps, RevertSteps, ReconcileSteps
  <2> QED
    BY <2>1, <2>2, <2>3, <2>4, RestMoves
<1>17. ASSUME NEW o \in Ops, AnnounceFailure(o) PROVE RestInv'
  <2>1. \A p \in Ops \ {o} : pc[p] \in {"idle", "acquire"} /\ pc'[p] = pc[p]
BY <1>17, <1>a DEF AnnounceFailure, End, Prepared, CallsInv, Typed, Legal, LegalAt, ApartInv,
       ApproveSteps, RevertSteps, ReconcileSteps
  <2>2. patched' \ {o} \subseteq patched
    BY <1>17 DEF AnnounceFailure, End, Prepared
  <2>3. RestSaved'
    BY <1>17, <1>b DEF AnnounceFailure, End, Prepared, RestInv, RestSaved
  <2>4. RestAt(o)'
BY <1>17, <1>b DEF AnnounceFailure, End, Prepared, CallsInv, Typed, Legal, LegalAt, RestInv,
       RestAt, RestSaved, AtBaseline, AfterIntent, ApproveSteps, RevertSteps, ReconcileSteps
  <2> QED
    BY <2>1, <2>2, <2>3, <2>4, RestMoves
<1>18. ASSUME NEW o \in Ops, FailureFails(o) PROVE RestInv'
  <2>1. \A p \in Ops \ {o} : pc[p] \in {"idle", "acquire"} /\ pc'[p] = pc[p]
BY <1>18, <1>a DEF FailureFails, End, Prepared, CallsInv, Typed, Legal, LegalAt, ApartInv,
       ApproveSteps, RevertSteps, ReconcileSteps
  <2>2. patched' \ {o} \subseteq patched
    BY <1>18 DEF FailureFails, End, Prepared
  <2>3. RestSaved'
    BY <1>18, <1>b DEF FailureFails, End, Prepared, RestInv, RestSaved
  <2>4. RestAt(o)'
BY <1>18, <1>b DEF FailureFails, End, Prepared, CallsInv, Typed, Legal, LegalAt, RestInv,
       RestAt, RestSaved, AtBaseline, AfterIntent, ApproveSteps, RevertSteps, ReconcileSteps
  <2> QED
    BY <2>1, <2>2, <2>3, <2>4, RestMoves
<1>19. ASSUME NEW o \in Ops, CheckRevert(o) PROVE RestInv'
  <2>1. \A p \in Ops \ {o} : pc[p] \in {"idle", "acquire"} /\ pc'[p] = pc[p]
BY <1>19, <1>a DEF CheckRevert, CallsInv, Typed, Legal, LegalAt, ApartInv, ApproveSteps,
       RevertSteps, ReconcileSteps
  <2>2. patched' \ {o} \subseteq patched
    BY <1>19 DEF CheckRevert
  <2>3. RestSaved'
    BY <1>19, <1>b DEF CheckRevert, RestInv, RestSaved
  <2>4. RestAt(o)'
BY <1>19, <1>b DEF CheckRevert, CallsInv, Typed, Legal, LegalAt, RestInv, RestAt, RestSaved,
       AtBaseline, AfterIntent, ApproveSteps, RevertSteps, ReconcileSteps
  <2> QED
    BY <2>1, <2>2, <2>3, <2>4, RestMoves
<1>20. ASSUME NEW o \in Ops, Unapply(o) PROVE RestInv'
  <2>1. \A p \in Ops \ {o} : pc[p] \in {"idle", "acquire"} /\ pc'[p] = pc[p]
BY <1>20, <1>a DEF Unapply, CallsInv, Typed, Legal, LegalAt, ApartInv, ApproveSteps,
       RevertSteps, ReconcileSteps
  <2>2. patched' \ {o} \subseteq patched
    BY <1>20 DEF Unapply
  <2>3. RestSaved'
    BY <1>20 DEF Unapply, RestInv, RestSaved, Untouched, Integrated
  <2>4. RestAt(o)'
BY <1>20, <1>b DEF Unapply, CallsInv, Typed, Legal, LegalAt, RestInv, RestAt, RestSaved,
       AtBaseline, AfterIntent, ApproveSteps, RevertSteps, ReconcileSteps
  <2> QED
    BY <2>1, <2>2, <2>3, <2>4, RestMoves
<1>21. ASSUME NEW o \in Ops, ConfirmRevert(o) PROVE RestInv'
  <2>1. \A p \in Ops \ {o} : pc[p] \in {"idle", "acquire"} /\ pc'[p] = pc[p]
BY <1>21, <1>a DEF ConfirmRevert, Proposals, CallsInv, Typed, Legal, LegalAt, ApartInv,
       ApproveSteps, RevertSteps, ReconcileSteps
  <2>2. patched' \ {o} \subseteq patched
    BY <1>21 DEF ConfirmRevert, Proposals
  <2>3. RestSaved'
    BY <1>21, <1>b DEF ConfirmRevert, Proposals, RestInv, RestSaved
  <2>4. RestAt(o)'
BY <1>21, <1>b DEF ConfirmRevert, Proposals, CallsInv, Typed, Legal, LegalAt, RestInv, RestAt,
       RestSaved, AtBaseline, AfterIntent, ApproveSteps, RevertSteps, ReconcileSteps
  <2> QED
    BY <2>1, <2>2, <2>3, <2>4, RestMoves
<1>22. ASSUME NEW o \in Ops, StageRevert(o) PROVE RestInv'
  <2>1. \A p \in Ops \ {o} : pc[p] \in {"idle", "acquire"} /\ pc'[p] = pc[p]
BY <1>22, <1>a DEF StageRevert, CallsInv, Typed, Legal, LegalAt, ApartInv, ApproveSteps,
       RevertSteps, ReconcileSteps
  <2>2. patched' \ {o} \subseteq patched
    BY <1>22 DEF StageRevert
  <2>3. RestSaved'
    BY <1>22 DEF StageRevert, RestInv, RestSaved, Untouched, Integrated
  <2>4. RestAt(o)'
BY <1>22, <1>b DEF StageRevert, CallsInv, Typed, Legal, LegalAt, RestInv, RestAt, RestSaved,
       AtBaseline, AfterIntent, ApproveSteps, RevertSteps, ReconcileSteps
  <2> QED
    BY <2>1, <2>2, <2>3, <2>4, RestMoves
<1>23. ASSUME NEW o \in Ops, CommitRevert(o) PROVE RestInv'
  <2>1. \A p \in Ops \ {o} : pc[p] \in {"idle", "acquire"} /\ pc'[p] = pc[p]
BY <1>23, <1>a DEF CommitRevert, CallsInv, Typed, Legal, LegalAt, ApartInv, ApproveSteps,
       RevertSteps, ReconcileSteps
  <2>2. patched' \ {o} \subseteq patched
    BY <1>23 DEF CommitRevert
  <2>3. RestSaved'
    BY <1>23, OtherCommitsAdd DEF CommitRevert, CallsInv, RestInv, RestSaved, Untouched, Commits
  <2>4. RestAt(o)'
BY <1>23, <1>b DEF CommitRevert, CallsInv, Typed, Legal, LegalAt, RestInv, RestAt, RestSaved,
       AtBaseline, AfterIntent, ApproveSteps, RevertSteps, ReconcileSteps
  <2> QED
    BY <2>1, <2>2, <2>3, <2>4, RestMoves
<1>24. ASSUME NEW o \in Ops, ConfirmCommit(o) PROVE RestInv'
  <2>1. \A p \in Ops \ {o} : pc[p] \in {"idle", "acquire"} /\ pc'[p] = pc[p]
BY <1>24, <1>a DEF ConfirmCommit, Proposals, CallsInv, Typed, Legal, LegalAt, ApartInv,
       ApproveSteps, RevertSteps, ReconcileSteps
  <2>2. patched' \ {o} \subseteq patched
    BY <1>24 DEF ConfirmCommit, Proposals
  <2>3. RestSaved'
    BY <1>24, <1>b DEF ConfirmCommit, Proposals, RestInv, RestSaved
  <2>4. RestAt(o)'
BY <1>24, <1>b DEF ConfirmCommit, Proposals, CallsInv, Typed, Legal, LegalAt, RestInv, RestAt,
       RestSaved, AtBaseline, AfterIntent, ApproveSteps, RevertSteps, ReconcileSteps
  <2> QED
    BY <2>1, <2>2, <2>3, <2>4, RestMoves
<1>25. ASSUME NEW o \in Ops, RevertCommitFails(o) PROVE RestInv'
  <2>1. \A p \in Ops \ {o} : pc[p] \in {"idle", "acquire"} /\ pc'[p] = pc[p]
BY <1>25, <1>a DEF RevertCommitFails, Proposals, CallsInv, Typed, Legal, LegalAt, ApartInv,
       ApproveSteps, RevertSteps, ReconcileSteps
  <2>2. patched' \ {o} \subseteq patched
    BY <1>25 DEF RevertCommitFails, Proposals
  <2>3. RestSaved'
    BY <1>25, <1>b DEF RevertCommitFails, Proposals, RestInv, RestSaved
  <2>4. RestAt(o)'
BY <1>25, <1>b DEF RevertCommitFails, Proposals, CallsInv, Typed, Legal, LegalAt, RestInv,
       RestAt, RestSaved, AtBaseline, AfterIntent, ApproveSteps, RevertSteps, ReconcileSteps
  <2> QED
    BY <2>1, <2>2, <2>3, <2>4, RestMoves
<1>26. ASSUME NEW o \in Ops, RevertFails(o) PROVE RestInv'
  <2>1. \A p \in Ops \ {o} : pc[p] \in {"idle", "acquire"} /\ pc'[p] = pc[p]
BY <1>26, <1>a DEF RevertFails, End, Prepared, CallsInv, Typed, Legal, LegalAt, ApartInv,
       ApproveSteps, RevertSteps, ReconcileSteps
  <2>2. patched' \ {o} \subseteq patched
    BY <1>26 DEF RevertFails, End, Prepared
  <2>3. RestSaved'
BY <1>26, TornIsUntouched DEF RevertFails, End, Prepared, RestInv, RestSaved, RestAt,
       AfterIntent
  <2>4. RestAt(o)'
BY <1>26, <1>b DEF RevertFails, End, Prepared, CallsInv, Typed, Legal, LegalAt, RestInv, RestAt,
       RestSaved, AtBaseline, AfterIntent, ApproveSteps, RevertSteps, ReconcileSteps
  <2> QED
    BY <2>1, <2>2, <2>3, <2>4, RestMoves
<1>27. ASSUME NEW o \in Ops, ReadHead(o) PROVE RestInv'
  <2>1. \A p \in Ops \ {o} : pc[p] \in {"idle", "acquire"} /\ pc'[p] = pc[p]
BY <1>27, <1>a DEF ReadHead, CallsInv, Typed, Legal, LegalAt, ApartInv, ApproveSteps,
       RevertSteps, ReconcileSteps
  <2>2. patched' \ {o} \subseteq patched
    BY <1>27 DEF ReadHead
  <2>3. RestSaved'
    BY <1>27, <1>b DEF ReadHead, RestInv, RestSaved
  <2>4. RestAt(o)'
BY <1>27, <1>b DEF ReadHead, CallsInv, Typed, Legal, LegalAt, RestInv, RestAt, RestSaved,
       AtBaseline, AfterIntent, ApproveSteps, RevertSteps, ReconcileSteps
  <2> QED
    BY <2>1, <2>2, <2>3, <2>4, RestMoves
<1>28. ASSUME NEW o \in Ops, Inspect(o) PROVE RestInv'
  <2>1. \A p \in Ops \ {o} : pc[p] \in {"idle", "acquire"} /\ pc'[p] = pc[p]
BY <1>28, <1>a DEF Inspect, Proposals, CallsInv, Typed, Legal, LegalAt, ApartInv, ApproveSteps,
       RevertSteps, ReconcileSteps
  <2>2. patched' \ {o} \subseteq patched
    BY <1>28 DEF Inspect, Proposals
  <2>3. RestSaved'
    BY <1>28, <1>b DEF Inspect, Proposals, RestInv, RestSaved
  <2>4. RestAt(o)'
BY <1>28, <1>b, <1>d DEF Inspect, Verdict, ApartInv, HeadIsSeen, Proposals, CallsInv, Typed,
       Legal, LegalAt, RestInv, RestAt, RestSaved, AtBaseline, AfterIntent, ApproveSteps,
       RevertSteps, ReconcileSteps
  <2> QED
    BY <2>1, <2>2, <2>3, <2>4, RestMoves
<1>29. ASSUME NEW o \in Ops, Compare(o) PROVE RestInv'
  <2>1. \A p \in Ops \ {o} : pc[p] \in {"idle", "acquire"} /\ pc'[p] = pc[p]
BY <1>29, <1>a DEF Compare, Proposals, CallsInv, Typed, Legal, LegalAt, ApartInv, ApproveSteps,
       RevertSteps, ReconcileSteps
  <2>2. patched' \ {o} \subseteq patched
    BY <1>29 DEF Compare, Proposals
  <2>3. RestSaved'
    BY <1>29, <1>b DEF Compare, Proposals, RestInv, RestSaved
  <2>4. RestAt(o)'
BY <1>29, <1>b DEF Compare, Proposals, CallsInv, Typed, Legal, LegalAt, RestInv, RestAt,
       RestSaved, AtBaseline, AfterIntent, ApproveSteps, RevertSteps, ReconcileSteps
  <2> QED
    BY <2>1, <2>2, <2>3, <2>4, RestMoves
<1>30. ASSUME NEW o \in Ops, ReconcileFails(o) PROVE RestInv'
  <2>1. \A p \in Ops \ {o} : pc[p] \in {"idle", "acquire"} /\ pc'[p] = pc[p]
BY <1>30, <1>a DEF ReconcileFails, End, Prepared, CallsInv, Typed, Legal, LegalAt, ApartInv,
       ApproveSteps, RevertSteps, ReconcileSteps
  <2>2. patched' \ {o} \subseteq patched
    BY <1>30 DEF ReconcileFails, End, Prepared
  <2>3. RestSaved'
    BY <1>30, <1>b DEF ReconcileFails, End, Prepared, RestInv, RestSaved
  <2>4. RestAt(o)'
BY <1>30, <1>b DEF ReconcileFails, End, Prepared, CallsInv, Typed, Legal, LegalAt, RestInv,
       RestAt, RestSaved, AtBaseline, AfterIntent, ApproveSteps, RevertSteps, ReconcileSteps
  <2> QED
    BY <2>1, <2>2, <2>3, <2>4, RestMoves
<1>31. CASE UserTouches
  <2>1. Untouched <=> Untouched'
    BY <1>31, IntegrationAssumption DEF UserTouches, UserMayAct, Untouched, Integrated
  <2> QED
    BY <1>31, <2>1 DEF UserTouches, RestInv, RestAt, RestSaved, AtBaseline
<1>32. CASE UserCommits
  <2>1. Untouched => Untouched'
    BY <1>32, OtherCommitsAdd DEF UserCommits, Untouched, CallsInv, Commits
  <2>2. \A o \in Ops : pc[o] = "idle"
    BY <1>32 DEF UserCommits, Busy, CallsInv, Legal, LegalAt
  <2> QED
BY <1>32, <2>1, <2>2 DEF UserCommits, CallsInv, Legal, LegalAt, RestInv, RestAt, RestSaved,
       AfterIntent
<1>33. CASE Crash
  <2>1. RestSaved'
    BY <1>33, TornIsUntouched DEF Crash, RestInv, RestAt, RestSaved, AfterIntent
  <2> QED
    BY <1>33, <2>1 DEF Crash, RestInv, RestAt, AfterIntent
<1> QED
BY <1>1, <1>2, <1>3, <1>4, <1>5, <1>6, <1>7, <1>8, <1>9, <1>10, <1>11, <1>12, <1>13, <1>14,
     <1>15, <1>16, <1>17, <1>18, <1>19, <1>20, <1>21, <1>22, <1>23, <1>24, <1>25, <1>26, <1>27,
     <1>28, <1>29, <1>30, <1>31, <1>32, <1>33 DEF Next, Step

\* They agree in every reachable state.
LEMMA RestInvCorrect ==
  ASSUME "reconcile" \notin Races, ~BookkeepingMayFail
  PROVE  Spec => []RestInv
<1>1. Init => RestInv
  BY DEF Init, RestInv, RestSaved, RestAt, AfterIntent, Prepared
<1>2. CallsInv /\ ApartInv /\ RestInv /\ [Next]_vars => RestInv'
  <2>1. ASSUME RestInv, UNCHANGED vars PROVE RestInv'
    BY <2>1 DEF vars, disk, calls, RestInv, RestSaved, RestAt, AtBaseline, Untouched, Integrated
  <2> QED
    BY <2>1, RestStep
<1> QED
  BY <1>1, <1>2, CallsInvCorrect, ApartInvCorrect, PTL DEF Spec

-----------------------------------------------------------------------------
(* What the events of the Run show of it.                                  *)

\* While nothing failed, what is shown is what is saved, but for a call that has
\* saved and not yet announced it.
Announcing == {"announceIntent", "announce", "announceFailure"}
ShownAt(o) ==
  /\ pc[o] \in {"announce", "announceFailure"} => mind[o].status = proposal.status
  /\ pc[o] = "announceIntent" => proposal.status = "applying"
ShownInv ==
  crashes = 0 /\ ~IoMayFail =>
    /\ (\A o \in Ops : pc[o] \notin Announcing) => shown = proposal.status
    /\ \A o \in Ops : ShownAt(o)

\* Every step keeps what the status shows honest.
LEMMA ShownStep ==
  ASSUME "reconcile" \notin Races, CallsInv, ApartInv, ShownInv, Next
  PROVE  ShownInv'
<1> USE DEF CallsInv, Typed, Legal, LegalAt, OthersTyped, ShownInv, ShownAt, Announcing,
            Goto, disk, calls, env
<1>a. \A o, p \in Ops : pc[o] \notin {"idle", "acquire"} /\ p # o => pc[p] \in {"idle", "acquire"}
  BY OthersWait DEF ApartInv
<1>1. ASSUME NEW o \in Ops, StartApprove(o) PROVE ShownInv'
  BY <1>1 DEF StartApprove, Begin
<1>2. ASSUME NEW o \in Ops, StartRevert(o) PROVE ShownInv'
  BY <1>2 DEF StartRevert, Begin
<1>3. ASSUME NEW o \in Ops, StartReconcile(o) PROVE ShownInv'
  BY <1>3 DEF StartReconcile, Begin
<1>4. ASSUME NEW o \in Ops, GiveUp(o) PROVE ShownInv'
  BY <1>4 DEF GiveUp, End, Prepared
<1>5. ASSUME NEW o \in Ops, Acquire(o) PROVE ShownInv'
  BY <1>5 DEF Acquire, FirstStep
<1>6. ASSUME NEW o \in Ops, Record(o) PROVE ShownInv'
  BY <1>a, <1>6 DEF Record
<1>7. ASSUME NEW o \in Ops, Announce(o) PROVE ShownInv'
  BY <1>7 DEF Announce, End, Prepared
<1>8. ASSUME NEW o \in Ops, Intend(o) PROVE ShownInv'
  BY <1>a, <1>8 DEF Intend, Proposals
<1>9. ASSUME NEW o \in Ops, AnnounceIntent(o) PROVE ShownInv'
  BY <1>9 DEF AnnounceIntent
<1>10. ASSUME NEW o \in Ops, Validate(o) PROVE ShownInv'
  BY <1>10 DEF Validate
<1>11. ASSUME NEW o \in Ops, ApplyPatch(o) PROVE ShownInv'
  BY <1>11 DEF ApplyPatch
<1>12. ASSUME NEW o \in Ops, CommitPatch(o) PROVE ShownInv'
  BY <1>12 DEF CommitPatch, Proposals
<1>13. ASSUME NEW o \in Ops, Verify(o) PROVE ShownInv'
  BY <1>13 DEF Verify, Proposals
<1>14. ASSUME NEW o \in Ops, ApproveFails(o) PROVE ShownInv'
  BY <1>14 DEF ApproveFails, ApproveSteps, RevertSteps, ReconcileSteps
<1>15. ASSUME NEW o \in Ops, Rollback(o) PROVE ShownInv'
  BY <1>15 DEF Rollback, Proposals
<1>16. ASSUME NEW o \in Ops, RecordFailure(o) PROVE ShownInv'
  BY <1>a, <1>16 DEF RecordFailure
<1>17. ASSUME NEW o \in Ops, AnnounceFailure(o) PROVE ShownInv'
  BY <1>17 DEF AnnounceFailure, End, Prepared
<1>18. ASSUME NEW o \in Ops, FailureFails(o) PROVE ShownInv'
  BY <1>18 DEF FailureFails, End, Prepared
<1>19. ASSUME NEW o \in Ops, CheckRevert(o) PROVE ShownInv'
  BY <1>19 DEF CheckRevert
<1>20. ASSUME NEW o \in Ops, Unapply(o) PROVE ShownInv'
  BY <1>20 DEF Unapply
<1>21. ASSUME NEW o \in Ops, ConfirmRevert(o) PROVE ShownInv'
  BY <1>21 DEF ConfirmRevert, Proposals
<1>22. ASSUME NEW o \in Ops, StageRevert(o) PROVE ShownInv'
  BY <1>22 DEF StageRevert
<1>23. ASSUME NEW o \in Ops, CommitRevert(o) PROVE ShownInv'
  BY <1>23 DEF CommitRevert
<1>24. ASSUME NEW o \in Ops, ConfirmCommit(o) PROVE ShownInv'
  BY <1>24 DEF ConfirmCommit, Proposals
<1>25. ASSUME NEW o \in Ops, RevertCommitFails(o) PROVE ShownInv'
  BY <1>25 DEF RevertCommitFails, Proposals
<1>26. ASSUME NEW o \in Ops, RevertFails(o) PROVE ShownInv'
  BY <1>26 DEF RevertFails, End, Prepared, ApproveSteps, RevertSteps, ReconcileSteps
<1>27. ASSUME NEW o \in Ops, ReadHead(o) PROVE ShownInv'
  BY <1>27 DEF ReadHead
<1>28. ASSUME NEW o \in Ops, Inspect(o) PROVE ShownInv'
  BY <1>28 DEF Inspect, Proposals
<1>29. ASSUME NEW o \in Ops, Compare(o) PROVE ShownInv'
  BY <1>29 DEF Compare, Proposals
<1>30. ASSUME NEW o \in Ops, ReconcileFails(o) PROVE ShownInv'
  BY <1>30 DEF ReconcileFails, End, Prepared, ApproveSteps, RevertSteps, ReconcileSteps
<1>31. CASE UserTouches
  BY <1>31 DEF UserTouches
<1>32. CASE UserCommits
  BY <1>32 DEF UserCommits
<1>33. CASE Crash
  BY <1>33 DEF Crash, Prepared
<1> QED
BY <1>1, <1>2, <1>3, <1>4, <1>5, <1>6, <1>7, <1>8, <1>9, <1>10, <1>11, <1>12, <1>13, <1>14,
     <1>15, <1>16, <1>17, <1>18, <1>19, <1>20, <1>21, <1>22, <1>23, <1>24, <1>25, <1>26, <1>27,
     <1>28, <1>29, <1>30, <1>31, <1>32, <1>33 DEF Next, Step

\* While nothing crashed or failed, what the events show of a proposal at rest is what
\* is saved in it; and a rollback that is recorded left nothing of the patch behind,
\* whatever failed or crashed.  Two hypotheses name the bounds under which the run
\* checks it: no reconciliation beside another call, which takes no lease and may save
\* over the outcome of a live one, and no failure between a commit and the end of its
\* bookkeeping, after which approve takes the files of a commit that stands for rolled
\* back.
THEOREM StatusIsHonestCorrect ==
  ASSUME "reconcile" \notin Races, ~BookkeepingMayFail
  PROVE  Spec => []StatusIsHonest
<1>1. Init => ShownInv
  BY DEF Init, ShownInv, ShownAt, Announcing, Prepared
<1>2. CallsInv /\ ApartInv /\ ShownInv /\ [Next]_vars => ShownInv'
  <2>1. ASSUME ShownInv, UNCHANGED vars PROVE ShownInv'
    BY <2>1 DEF vars, disk, calls, env, ShownInv, ShownAt, Announcing
  <2> QED
    BY <2>1, ShownStep
<1>3. CallsInv /\ RestInv /\ ShownInv => StatusIsHonest
  <2>1. RestInv => RolledBackMeansUntouched
    BY DEF RestInv, RestSaved, RolledBackMeansUntouched, Untouched
  <2>2. CallsInv /\ ShownInv => ShownIsRecorded
    BY DEF CallsInv, Legal, LegalAt, Busy, ShownInv, ShownIsRecorded, Announcing
  <2> QED
    BY <2>1, <2>2 DEF StatusIsHonest
<1> QED
  BY <1>1, <1>2, <1>3, CallsInvCorrect, ApartInvCorrect, RestInvCorrect, PTL DEF Spec

-----------------------------------------------------------------------------
(* What is true of the repository when a status is saved.                  *)

\* A call that is about to save a status has made it so, and on its way there no
\* step of another call or of the user undid what it checked.
RecAt(o) ==
  /\ pc[o] = "record" => Holds(mind[o].status)
  /\ pc[o] = "recordFailure" => mind[o].status \in {"failed", "recovery_required"}
  /\ pc[o] = "apply" => AtBaseline /\ Clean
  /\ pc[o] \in {"commit", "verify"} => AtBaseline /\ tree = {"patch"}
  /\ pc[o] \in {"unapply", "confirmRevert", "compare"} => AtBaseline
  /\ pc[o] = "commitRevert" => Integrated /\ tree = {"undo"}
  /\ pc[o] = "confirmCommit" => Integrated /\ log[Len(log)] = "revert"
RecInv == \A o \in Ops : RecAt(o)

SavesTrue == proposal'.status # proposal.status => Holds(proposal'.status)

\* While one call works, what the others wait with stays so.
LEMMA RecMoves ==
  ASSUME NEW o \in Ops,
         \A p \in Ops \ {o} : pc'[p] \in {"idle", "acquire"},
         RecAt(o)', SavesTrue
  PROVE  RecInv' /\ SavesTrue
BY DEF RecInv, RecAt

\* The last commit is the one that was just made.
LEMMA RevertIsLast ==
  ASSUME Typed, log' = Append(log, "revert")
  PROVE  log'[Len(log')] = "revert"
BY DEF Typed

\* Every step keeps the records, and a save writes only what is true.
LEMMA RecStep ==
  ASSUME "reconcile" \notin Races, "user" \notin Races, CallsInv, ApartInv, RecInv, Next
  PROVE  RecInv' /\ SavesTrue
<1> USE DEF Goto, disk, calls, env
<1>a. \A o, p \in Ops : pc[o] \notin {"idle", "acquire"} /\ p # o => pc[p] \in {"idle", "acquire"}
  BY OthersWait DEF ApartInv
<1>1. ASSUME NEW o \in Ops, StartApprove(o) PROVE RecInv' /\ SavesTrue
BY <1>1 DEF StartApprove, Begin, CallsInv, Typed, RecInv, RecAt, AtBaseline, Clean, Integrated,
     Holds, SavesTrue, ExactlyPatched
<1>2. ASSUME NEW o \in Ops, StartRevert(o) PROVE RecInv' /\ SavesTrue
BY <1>2 DEF StartRevert, Begin, CallsInv, Typed, RecInv, RecAt, AtBaseline, Clean, Integrated,
     Holds, SavesTrue, ExactlyPatched
<1>3. ASSUME NEW o \in Ops, StartReconcile(o) PROVE RecInv' /\ SavesTrue
BY <1>3 DEF StartReconcile, Begin, CallsInv, Typed, RecInv, RecAt, AtBaseline, Clean,
     Integrated, Holds, SavesTrue, ExactlyPatched
<1>4. ASSUME NEW o \in Ops, GiveUp(o) PROVE RecInv' /\ SavesTrue
BY <1>4 DEF GiveUp, End, Prepared, CallsInv, Typed, RecInv, RecAt, AtBaseline, Clean,
     Integrated, Holds, SavesTrue, ExactlyPatched
<1>5. ASSUME NEW o \in Ops, Acquire(o) PROVE RecInv' /\ SavesTrue
  <2>1. \A p \in Ops \ {o} : pc'[p] \in {"idle", "acquire"}
BY <1>5, NobodyElse DEF Acquire, FirstStep, CallsInv, Typed, Legal, LegalAt, ApartInv,
       ApproveSteps, RevertSteps, ReconcileSteps
  <2>2. SavesTrue
    BY <1>5 DEF Acquire, FirstStep, SavesTrue
  <2>3. RecAt(o)'
    BY <1>5 DEF Acquire, FirstStep, CallsInv, Typed, RecInv, RecAt, AtBaseline, Clean
  <2> QED
    BY <2>1, <2>2, <2>3, RecMoves
<1>6. ASSUME NEW o \in Ops, Record(o) PROVE RecInv' /\ SavesTrue
  <2>1. \A p \in Ops \ {o} : pc'[p] \in {"idle", "acquire"}
    BY <1>6, <1>a DEF Record, CallsInv, Typed
  <2>2. SavesTrue
    BY <1>6 DEF Record, SavesTrue, RecInv, RecAt, Holds
  <2>3. RecAt(o)'
    BY <1>6 DEF Record, CallsInv, Typed, RecInv, RecAt, AtBaseline, Clean
  <2> QED
    BY <2>1, <2>2, <2>3, RecMoves
<1>7. ASSUME NEW o \in Ops, Announce(o) PROVE RecInv' /\ SavesTrue
  <2>1. \A p \in Ops \ {o} : pc'[p] \in {"idle", "acquire"}
    BY <1>7, <1>a DEF Announce, End, Prepared, CallsInv, Typed
  <2>2. SavesTrue
    BY <1>7 DEF Announce, End, Prepared, SavesTrue
  <2>3. RecAt(o)'
    BY <1>7 DEF Announce, End, Prepared, CallsInv, Typed, RecInv, RecAt, AtBaseline, Clean
  <2> QED
    BY <2>1, <2>2, <2>3, RecMoves
<1>8. ASSUME NEW o \in Ops, Intend(o) PROVE RecInv' /\ SavesTrue
  <2>1. \A p \in Ops \ {o} : pc'[p] \in {"idle", "acquire"}
    BY <1>8, <1>a DEF Intend, Proposals, CallsInv, Typed
  <2>2. SavesTrue
    BY <1>8 DEF Intend, Proposals, SavesTrue, Holds, CallsInv, Typed
  <2>3. RecAt(o)'
    BY <1>8 DEF Intend, Proposals, CallsInv, Typed, RecInv, RecAt, AtBaseline, Clean
  <2> QED
    BY <2>1, <2>2, <2>3, RecMoves
<1>9. ASSUME NEW o \in Ops, AnnounceIntent(o) PROVE RecInv' /\ SavesTrue
  <2>1. \A p \in Ops \ {o} : pc'[p] \in {"idle", "acquire"}
    BY <1>9, <1>a DEF AnnounceIntent, CallsInv, Typed
  <2>2. SavesTrue
    BY <1>9 DEF AnnounceIntent, SavesTrue
  <2>3. RecAt(o)'
    BY <1>9 DEF AnnounceIntent, CallsInv, Typed, RecInv, RecAt, AtBaseline, Clean
  <2> QED
    BY <2>1, <2>2, <2>3, RecMoves
<1>10. ASSUME NEW o \in Ops, Validate(o) PROVE RecInv' /\ SavesTrue
  <2>1. \A p \in Ops \ {o} : pc'[p] \in {"idle", "acquire"}
    BY <1>10, <1>a DEF Validate, CallsInv, Typed
  <2>2. SavesTrue
    BY <1>10 DEF Validate, SavesTrue
  <2>3. RecAt(o)'
    BY <1>10 DEF Validate, CallsInv, Typed, RecInv, RecAt, AtBaseline, Clean, Valid
  <2> QED
    BY <2>1, <2>2, <2>3, RecMoves
<1>11. ASSUME NEW o \in Ops, ApplyPatch(o) PROVE RecInv' /\ SavesTrue
  <2>1. \A p \in Ops \ {o} : pc'[p] \in {"idle", "acquire"}
    BY <1>11, <1>a DEF ApplyPatch, CallsInv, Typed
  <2>2. SavesTrue
    BY <1>11 DEF ApplyPatch, SavesTrue
  <2>3. RecAt(o)'
    BY <1>11 DEF ApplyPatch, CallsInv, Typed, RecInv, RecAt, AtBaseline, Clean
  <2> QED
    BY <2>1, <2>2, <2>3, RecMoves
<1>12. ASSUME NEW o \in Ops, CommitPatch(o) PROVE RecInv' /\ SavesTrue
  <2>1. \A p \in Ops \ {o} : pc'[p] \in {"idle", "acquire"}
    BY <1>12, <1>a DEF CommitPatch, Proposals, CallsInv, Typed
  <2>2. SavesTrue
    BY <1>12 DEF CommitPatch, Proposals, SavesTrue
  <2>3. RecAt(o)'
    <3>1. log = <<>> /\ tree = {"patch"}
      BY <1>12 DEF CommitPatch, RecInv, RecAt, AtBaseline
    <3>2. log' = <<"integration">> /\ tree' = {}
      BY <1>12, <3>1 DEF CommitPatch
    <3> QED
BY <1>12, <3>2, ZenonT(60) DEF CommitPatch, Proposals, CallsInv, Typed, RecInv, RecAt, AtBaseline, Clean,
         Holds
  <2> QED
    BY <2>1, <2>2, <2>3, RecMoves
<1>13. ASSUME NEW o \in Ops, Verify(o) PROVE RecInv' /\ SavesTrue
  <2>1. \A p \in Ops \ {o} : pc'[p] \in {"idle", "acquire"}
    BY <1>13, <1>a DEF Verify, Proposals, CallsInv, Typed
  <2>2. SavesTrue
    BY <1>13 DEF Verify, Proposals, SavesTrue
  <2>3. RecAt(o)'
    <3>1. pc'[o] = "record" /\ mind'[o].status = "applied"
      BY <1>13 DEF Verify, Proposals, CallsInv, Typed
    <3> QED
BY <1>13, <3>1 DEF Verify, CallsInv, Typed, RecInv, RecAt, AtBaseline, Clean, ExactlyPatched,
         Holds
  <2> QED
    BY <2>1, <2>2, <2>3, RecMoves
<1>14. ASSUME NEW o \in Ops, ApproveFails(o) PROVE RecInv' /\ SavesTrue
  <2>1. \A p \in Ops \ {o} : pc'[p] \in {"idle", "acquire"}
BY <1>14, <1>a DEF ApproveFails, CallsInv, Typed, Legal, LegalAt, ApartInv, ApproveSteps,
       RevertSteps, ReconcileSteps
  <2>2. SavesTrue
    BY <1>14 DEF ApproveFails, SavesTrue
  <2>3. RecAt(o)'
    BY <1>14 DEF ApproveFails, CallsInv, Typed, RecInv, RecAt, AtBaseline, Clean, ApproveSteps
  <2> QED
    BY <2>1, <2>2, <2>3, RecMoves
<1>15. ASSUME NEW o \in Ops, Rollback(o) PROVE RecInv' /\ SavesTrue
  <2>1. \A p \in Ops \ {o} : pc'[p] \in {"idle", "acquire"}
    BY <1>15, <1>a DEF Rollback, Proposals, CallsInv, Typed
  <2>2. SavesTrue
    BY <1>15 DEF Rollback, Proposals, SavesTrue
  <2>3. RecAt(o)'
    BY <1>15 DEF Rollback, Proposals, CallsInv, Typed, RecInv, RecAt, AtBaseline, Clean
  <2> QED
    BY <2>1, <2>2, <2>3, RecMoves
<1>16. ASSUME NEW o \in Ops, RecordFailure(o) PROVE RecInv' /\ SavesTrue
  <2>1. \A p \in Ops \ {o} : pc'[p] \in {"idle", "acquire"}
    BY <1>16, <1>a DEF RecordFailure, CallsInv, Typed
  <2>2. SavesTrue
    BY <1>16 DEF RecordFailure, SavesTrue, RecInv, RecAt, Holds
  <2>3. RecAt(o)'
    BY <1>16 DEF RecordFailure, CallsInv, Typed, RecInv, RecAt, AtBaseline, Clean
  <2> QED
    BY <2>1, <2>2, <2>3, RecMoves
<1>17. ASSUME NEW o \in Ops, AnnounceFailure(o) PROVE RecInv' /\ SavesTrue
  <2>1. \A p \in Ops \ {o} : pc'[p] \in {"idle", "acquire"}
    BY <1>17, <1>a DEF AnnounceFailure, End, Prepared, CallsInv, Typed
  <2>2. SavesTrue
    BY <1>17 DEF AnnounceFailure, End, Prepared, SavesTrue
  <2>3. RecAt(o)'
    BY <1>17 DEF AnnounceFailure, End, Prepared, CallsInv, Typed, RecInv, RecAt, AtBaseline, Clean
  <2> QED
    BY <2>1, <2>2, <2>3, RecMoves
<1>18. ASSUME NEW o \in Ops, FailureFails(o) PROVE RecInv' /\ SavesTrue
  <2>1. \A p \in Ops \ {o} : pc'[p] \in {"idle", "acquire"}
    BY <1>18, <1>a DEF FailureFails, End, Prepared, CallsInv, Typed
  <2>2. SavesTrue
    BY <1>18 DEF FailureFails, End, Prepared, SavesTrue
  <2>3. RecAt(o)'
    BY <1>18 DEF FailureFails, End, Prepared, CallsInv, Typed, RecInv, RecAt, AtBaseline, Clean
  <2> QED
    BY <2>1, <2>2, <2>3, RecMoves
<1>19. ASSUME NEW o \in Ops, CheckRevert(o) PROVE RecInv' /\ SavesTrue
  <2>1. \A p \in Ops \ {o} : pc'[p] \in {"idle", "acquire"}
    BY <1>19, <1>a DEF CheckRevert, CallsInv, Typed
  <2>2. SavesTrue
    BY <1>19 DEF CheckRevert, SavesTrue
  <2>3. RecAt(o)'
    BY <1>19 DEF CheckRevert, CallsInv, Typed, RecInv, RecAt, AtBaseline, Clean
  <2> QED
    BY <2>1, <2>2, <2>3, RecMoves
<1>20. ASSUME NEW o \in Ops, Unapply(o) PROVE RecInv' /\ SavesTrue
  <2>1. \A p \in Ops \ {o} : pc'[p] \in {"idle", "acquire"}
    BY <1>20, <1>a DEF Unapply, CallsInv, Typed
  <2>2. SavesTrue
    BY <1>20 DEF Unapply, SavesTrue
  <2>3. RecAt(o)'
    BY <1>20 DEF Unapply, CallsInv, Typed, RecInv, RecAt, AtBaseline, Clean
  <2> QED
    BY <2>1, <2>2, <2>3, RecMoves
<1>21. ASSUME NEW o \in Ops, ConfirmRevert(o) PROVE RecInv' /\ SavesTrue
  <2>1. \A p \in Ops \ {o} : pc'[p] \in {"idle", "acquire"}
    BY <1>21, <1>a DEF ConfirmRevert, Proposals, CallsInv, Typed
  <2>2. SavesTrue
    BY <1>21 DEF ConfirmRevert, Proposals, SavesTrue
  <2>3. RecAt(o)'
BY <1>21 DEF ConfirmRevert, Proposals, CallsInv, Typed, RecInv, RecAt, AtBaseline, Clean, Holds
  <2> QED
    BY <2>1, <2>2, <2>3, RecMoves
<1>22. ASSUME NEW o \in Ops, StageRevert(o) PROVE RecInv' /\ SavesTrue
  <2>1. \A p \in Ops \ {o} : pc'[p] \in {"idle", "acquire"}
    BY <1>22, <1>a DEF StageRevert, CallsInv, Typed
  <2>2. SavesTrue
    BY <1>22 DEF StageRevert, SavesTrue
  <2>3. RecAt(o)'
BY <1>22 DEF StageRevert, CallsInv, Typed, RecInv, RecAt, AtBaseline, Clean, MayRevertCommit,
       Integrated, Range
  <2> QED
    BY <2>1, <2>2, <2>3, RecMoves
<1>23. ASSUME NEW o \in Ops, CommitRevert(o) PROVE RecInv' /\ SavesTrue
  <2>1. \A p \in Ops \ {o} : pc'[p] \in {"idle", "acquire"}
    BY <1>23, <1>a DEF CommitRevert, CallsInv, Typed
  <2>2. SavesTrue
    BY <1>23 DEF CommitRevert, SavesTrue
  <2>3. RecAt(o)'
BY <1>23, OtherCommitsAdd, RevertIsLast DEF CommitRevert, CallsInv, Typed, RecInv, RecAt,
       AtBaseline, Clean, Commits
  <2> QED
    BY <2>1, <2>2, <2>3, RecMoves
<1>24. ASSUME NEW o \in Ops, ConfirmCommit(o) PROVE RecInv' /\ SavesTrue
  <2>1. \A p \in Ops \ {o} : pc'[p] \in {"idle", "acquire"}
    BY <1>24, <1>a DEF ConfirmCommit, Proposals, CallsInv, Typed
  <2>2. SavesTrue
    BY <1>24 DEF ConfirmCommit, Proposals, SavesTrue
  <2>3. RecAt(o)'
    <3>1. pc'[o] = "record" /\ mind'[o].status = "revert_committed"
      BY <1>24 DEF ConfirmCommit, Proposals, CallsInv, Typed
    <3> QED
BY <1>24, <3>1 DEF ConfirmCommit, CallsInv, Typed, RecInv, RecAt, AtBaseline, Clean,
         ExactlyPatched, Holds, Integrated
  <2> QED
    BY <2>1, <2>2, <2>3, RecMoves
<1>25. ASSUME NEW o \in Ops, RevertCommitFails(o) PROVE RecInv' /\ SavesTrue
  <2>1. \A p \in Ops \ {o} : pc'[p] \in {"idle", "acquire"}
    BY <1>25, <1>a DEF RevertCommitFails, Proposals, CallsInv, Typed
  <2>2. SavesTrue
    BY <1>25 DEF RevertCommitFails, Proposals, SavesTrue
  <2>3. RecAt(o)'
    BY <1>25 DEF RevertCommitFails, Proposals, CallsInv, Typed, RecInv, RecAt, AtBaseline, Clean
  <2> QED
    BY <2>1, <2>2, <2>3, RecMoves
<1>26. ASSUME NEW o \in Ops, RevertFails(o) PROVE RecInv' /\ SavesTrue
  <2>1. \A p \in Ops \ {o} : pc'[p] \in {"idle", "acquire"}
BY <1>26, <1>a DEF RevertFails, End, Prepared, CallsInv, Typed, Legal, LegalAt, ApartInv,
       ApproveSteps, RevertSteps, ReconcileSteps
  <2>2. SavesTrue
    BY <1>26 DEF RevertFails, End, Prepared, SavesTrue
  <2>3. RecAt(o)'
BY <1>26 DEF RevertFails, End, Prepared, CallsInv, Typed, RecInv, RecAt, AtBaseline, Clean,
       RevertSteps
  <2> QED
    BY <2>1, <2>2, <2>3, RecMoves
<1>27. ASSUME NEW o \in Ops, ReadHead(o) PROVE RecInv' /\ SavesTrue
  <2>1. \A p \in Ops \ {o} : pc'[p] \in {"idle", "acquire"}
    BY <1>27, <1>a DEF ReadHead, CallsInv, Typed
  <2>2. SavesTrue
    BY <1>27 DEF ReadHead, SavesTrue
  <2>3. RecAt(o)'
    BY <1>27 DEF ReadHead, CallsInv, Typed, RecInv, RecAt, AtBaseline, Clean
  <2> QED
    BY <2>1, <2>2, <2>3, RecMoves
<1>28. ASSUME NEW o \in Ops, Inspect(o) PROVE RecInv' /\ SavesTrue
  <2>1. \A p \in Ops \ {o} : pc'[p] \in {"idle", "acquire"}
    BY <1>28, <1>a DEF Inspect, Proposals, CallsInv, Typed
  <2>2. SavesTrue
    BY <1>28 DEF Inspect, Proposals, SavesTrue
  <2>3. RecAt(o)'
<3>1. (IF Verdict(o) = "compare" THEN pc'[o] = "compare" ELSE pc'[o] = "record" /\
       mind'[o].status = Verdict(o))
      BY <1>28 DEF Inspect, Proposals, CallsInv, Typed
    <3> QED
BY <1>28, <3>1 DEF Inspect, CallsInv, Typed, RecInv, RecAt, AtBaseline, Clean, ExactlyPatched,
         Verdict, ApartInv, HeadIsSeen, Holds
  <2> QED
    BY <2>1, <2>2, <2>3, RecMoves
<1>29. ASSUME NEW o \in Ops, Compare(o) PROVE RecInv' /\ SavesTrue
  <2>1. \A p \in Ops \ {o} : pc'[p] \in {"idle", "acquire"}
    BY <1>29, <1>a DEF Compare, Proposals, CallsInv, Typed
  <2>2. SavesTrue
    BY <1>29 DEF Compare, Proposals, SavesTrue
  <2>3. RecAt(o)'
<3>1. pc'[o] = "record" /\ mind'[o].status = (IF ExactlyPatched THEN "applied" ELSE
       "recovery_required")
      BY <1>29 DEF Compare, Proposals, CallsInv, Typed, Statuses
    <3> QED
BY <1>29, <3>1 DEF Compare, CallsInv, Typed, RecInv, RecAt, AtBaseline, Clean, ExactlyPatched,
         Holds
  <2> QED
    BY <2>1, <2>2, <2>3, RecMoves
<1>30. ASSUME NEW o \in Ops, ReconcileFails(o) PROVE RecInv' /\ SavesTrue
  <2>1. \A p \in Ops \ {o} : pc'[p] \in {"idle", "acquire"}
BY <1>30, <1>a DEF ReconcileFails, End, Prepared, CallsInv, Typed, Legal, LegalAt, ApartInv,
       ApproveSteps, RevertSteps, ReconcileSteps
  <2>2. SavesTrue
    BY <1>30 DEF ReconcileFails, End, Prepared, SavesTrue
  <2>3. RecAt(o)'
    BY <1>30 DEF ReconcileFails, End, Prepared, CallsInv, Typed, RecInv, RecAt, AtBaseline, Clean
  <2> QED
    BY <2>1, <2>2, <2>3, RecMoves
<1>31. CASE UserTouches
  <2>1. \A o \in Ops : pc[o] = "idle"
    BY <1>31 DEF UserTouches, UserMayAct, Busy, CallsInv, Legal, LegalAt
  <2> QED
    BY <1>31, <2>1 DEF UserTouches, RecInv, RecAt, SavesTrue
<1>32. CASE UserCommits
  <2>1. \A o \in Ops : pc[o] = "idle"
    BY <1>32 DEF UserCommits, UserMayAct, Busy, CallsInv, Legal, LegalAt
  <2> QED
    BY <1>32, <2>1 DEF UserCommits, RecInv, RecAt, SavesTrue
<1>33. CASE Crash
  BY <1>33 DEF Crash, RecInv, RecAt, SavesTrue
<1> QED
BY <1>1, <1>2, <1>3, <1>4, <1>5, <1>6, <1>7, <1>8, <1>9, <1>10, <1>11, <1>12, <1>13, <1>14,
     <1>15, <1>16, <1>17, <1>18, <1>19, <1>20, <1>21, <1>22, <1>23, <1>24, <1>25, <1>26, <1>27,
     <1>28, <1>29, <1>30, <1>31, <1>32, <1>33 DEF Next, Step

\* A status is saved only when it is true of the repository, by a call that saw it
\* happen and by a reconciliation that finds what a crash left, whatever fails or
\* crashes.  Two hypotheses, as the run that checks it has them: the user does not edit
\* between a call's check and its save (nothing in the code can prevent it), and no
\* reconciliation, which takes no lease, runs beside another call.
THEOREM RecordsAreTrueCorrect ==
  ASSUME "reconcile" \notin Races, "user" \notin Races
  PROVE  Spec => RecordsAreTrue
<1>1. Init => RecInv
  BY DEF Init, RecInv, RecAt
<1>2. CallsInv /\ ApartInv /\ RecInv /\ [Next]_vars => RecInv' /\ [SavesTrue]_vars
  <2>1. ASSUME RecInv, UNCHANGED vars PROVE RecInv'
    BY <2>1 DEF vars, disk, calls, RecInv, RecAt, Holds, AtBaseline, Clean, Integrated,
       ExactlyPatched
  <2> QED
    BY <2>1, RecStep
<1> QED
  BY <1>1, <1>2, CallsInvCorrect, ApartInvCorrect, PTL DEF Spec, RecordsAreTrue, SavesTrue
=============================================================================
