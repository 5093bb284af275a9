---------------------------- MODULE Integration ----------------------------
(***************************************************************************)
(* src/src/integration-manager.ts: what approve, revert and                *)
(* reconcileApplying do to one proposal and to the user's repository, as   *)
(* DesktopRunManager calls them: concurrent calls of one process, stopped  *)
(* at any point, beside a user who edits the same repository.              *)
(*                                                                         *)
(* proposal (integration-proposal.json), shown (what the events of the Run *)
(* project), log and tree are durable.  Each action of an operation is the *)
(* code from one await to the next.                                        *)
(***************************************************************************)
EXTENDS Integers, Sequences, FiniteSets, SequencesExt

CONSTANTS
  Ops,                \* calls that may be in flight at once
  Races,              \* who may act while a call is in flight
  CommitModes,        \* whether an approval asks for a commit: {FALSE}, or BOOLEAN
  IoMayFail,          \* whether git, a save or an append may fail
  BookkeepingMayFail, \* ... also between a commit and the end of its bookkeeping
  MayTouch,           \* what the user may add to the tree: {"edit", "stray"}
  MaxUserSteps,       \* bound: the steps of the user
  MaxCrashes,         \* bound
  NoOp

ASSUME IntegrationAssumption ==
  /\ Races \subseteq {"approve", "reconcile", "user"}
  /\ CommitModes \subseteq BOOLEAN
  /\ IoMayFail \in BOOLEAN /\ BookkeepingMayFail \in BOOLEAN
  /\ MayTouch \subseteq {"edit", "stray"}
  /\ MaxUserSteps \in Nat /\ MaxCrashes \in Nat
  /\ NoOp \notin Ops

VARIABLES
  proposal,           \* the saved proposal
  shown,              \* projectIntegrationEvent over the Run's events
  log,                \* the commits on top of the baseline
  tree,               \* how index and working tree differ from HEAD
  pc,                 \* [Ops -> Steps]
  kind,               \* [Ops -> Kinds]: the method an operation runs
  mind,               \* [Ops -> Proposals]: its own copy of the proposal
  patched,            \* operations whose patchApplied is true
  headSeen,           \* [Ops -> Seq(Commits)]: what rev-parse HEAD answered
  holder,             \* the operation with the repository's write lease
  userSteps, crashes

disk == <<proposal, shown, log, tree>>
calls == <<pc, kind, mind, patched, headSeen, holder>>
env == <<userSteps, crashes>>
vars == <<disk, calls, env>>

\* The awaits at which an operation may stand.
ApproveSteps == {"intend", "announceIntent", "validate", "apply", "commit", "verify"}
FailureSteps == {"rollback", "recordFailure", "announceFailure"}
RevertSteps == {"checkRevert", "unapply", "confirmRevert",
                "stageRevert", "commitRevert", "confirmCommit"}
ReconcileSteps == {"readHead", "inspect", "compare"}
Steps == {"idle", "acquire", "record", "announce"}
           \cup ApproveSteps \cup FailureSteps \cup RevertSteps \cup ReconcileSteps
Kinds == {"none", "approve", "revert", "reconcile"}

Statuses == {"awaiting_approval", "applying", "applied", "committed", "reverted",
             "revert_committed", "failed", "recovery_required"}
Proposals == [status : Statuses, commit : BOOLEAN, rolledBack : BOOLEAN]

\* "mixed" holds the patch and an edit of the user, "undo" reverts a commit.
Commits == {"integration", "mixed", "revert", "user"}

\* "patch": the approved patch; "partial": a part of it; "undo": the staged
\* reverse of its commit; "edit": the user's change to one of the approved paths;
\* "stray": a file of the user's outside them.
Changes == {"patch", "partial", "undo", "edit", "stray"}

Prepared == [status |-> "awaiting_approval", commit |-> FALSE, rolledBack |-> FALSE]

Init ==
  /\ proposal = Prepared /\ shown = "awaiting_approval"
  /\ log = <<>> /\ tree = {}
  /\ pc = [o \in Ops |-> "idle"] /\ kind = [o \in Ops |-> "none"]
  /\ mind = [o \in Ops |-> Prepared] /\ patched = {}
  /\ headSeen = [o \in Ops |-> <<>>]
  /\ holder = NoOp
  /\ userSteps = 0 /\ crashes = 0

AtBaseline == log = <<>>
Clean == tree = {}
ExactlyPatched == "patch" \in tree /\ tree \cap {"partial", "edit", "undo"} = {}
Integrated == "integration" \in Range(log)     \* the exact patch, as one commit
Fits == tree \cap {"edit", "patch", "partial"} = {}

-----------------------------------------------------------------------------
(* One call.                                                               *)

Begin(o, k, step, p) ==
  /\ pc' = [pc EXCEPT ![o] = step]
  /\ kind' = [kind EXCEPT ![o] = k]
  /\ mind' = [mind EXCEPT ![o] = p]
  /\ UNCHANGED <<disk, patched, headSeen, holder, env>>

Goto(o, step) == pc' = [pc EXCEPT ![o] = step]

\* The call returns or throws: its locals go, and its lease is released.
End(o) ==
  /\ pc' = [pc EXCEPT ![o] = "idle"]
  /\ kind' = [kind EXCEPT ![o] = "none"]
  /\ mind' = [mind EXCEPT ![o] = Prepared]
  /\ headSeen' = [headSeen EXCEPT ![o] = <<>>]
  /\ patched' = patched \ {o}
  /\ holder' = IF holder = o THEN NoOp ELSE holder

Busy == {kind[o] : o \in Ops} \ {"none"}

\* Which calls overlap is the bound Races; two reverts always may.
MayStart(k) ==
  /\ k = "approve" /\ k \in Busy => "approve" \in Races
  /\ "reconcile" \in Busy \/ (k = "reconcile" /\ Busy # {}) => "reconcile" \in Races

\* approve reads the proposal before it waits for the lease.
StartApprove(o) ==
  /\ pc[o] = "idle" /\ MayStart("approve")
  /\ proposal.status = "awaiting_approval"
  /\ \E commit \in CommitModes :
       Begin(o, "approve", "acquire", [proposal EXCEPT !.commit = commit])

\* So does revert.
StartRevert(o) ==
  /\ pc[o] = "idle" /\ MayStart("revert")
  /\ proposal.status \in {"applied", "committed"}
  /\ Begin(o, "revert", "acquire", proposal)

\* Listing the Runs reconciles, without the lease.
StartReconcile(o) ==
  /\ pc[o] = "idle" /\ MayStart("reconcile")
  /\ proposal.status = "applying"
  /\ Begin(o, "reconcile", "readHead", proposal)

FirstStep(o) ==
  IF kind[o] = "approve" THEN "intend"
  ELSE IF mind[o].status = "applied" THEN "checkRevert" ELSE "stageRevert"

Acquire(o) ==
  /\ pc[o] = "acquire" /\ holder = NoOp
  /\ holder' = o
  /\ Goto(o, FirstStep(o))
  /\ UNCHANGED <<disk, kind, mind, patched, headSeen, env>>

\* The caller's signal aborts while the call waits for the lease.
GiveUp(o) ==
  /\ pc[o] = "acquire" /\ IoMayFail
  /\ End(o)
  /\ UNCHANGED <<disk, env>>

\* saveProposal and the append after it, of every method.
Record(o) ==
  /\ pc[o] = "record"
  /\ proposal' = mind[o]
  /\ Goto(o, "announce")
  /\ UNCHANGED <<shown, log, tree, kind, mind, patched, headSeen, holder, env>>

Announce(o) ==
  /\ pc[o] = "announce"
  /\ shown' = mind[o].status
  /\ End(o)
  /\ UNCHANGED <<proposal, log, tree, env>>

\* What a failed or interrupted git command may leave of the tree.
Torn(o) ==
  CASE pc[o] = "apply" -> {tree, tree \cup {"partial"}}
    [] pc[o] \in {"unapply", "rollback"} /\ "patch" \in tree ->
         {tree, (tree \ {"patch"}) \cup {"partial"}}
    [] pc[o] = "stageRevert" -> {tree, tree \cup {"undo"}}
    [] pc[o] = "commitRevert" -> {tree, tree \ {"undo"}}
    [] OTHER -> {tree}
LeftBehind(o) == IF IoMayFail THEN Torn(o) ELSE {tree}

-----------------------------------------------------------------------------
(* approve.                                                                *)

IntendByEventOnly(o) ==                         \* mutant: "applying" is not saved first
  /\ pc[o] = "intend"
  /\ mind' = [mind EXCEPT ![o].status = "applying"]
  /\ Goto(o, "announceIntent")
  /\ UNCHANGED <<disk, kind, patched, headSeen, holder, env>>

Intend(o) ==
  /\ pc[o] = "intend"
  /\ mind' = [mind EXCEPT ![o].status = "applying"]
  /\ proposal' = mind'[o]
  /\ Goto(o, "announceIntent")
  /\ UNCHANGED <<shown, log, tree, kind, patched, headSeen, holder, env>>

AnnounceIntent(o) ==
  /\ pc[o] = "announceIntent"
  /\ shown' = "applying"
  /\ Goto(o, "validate")
  /\ UNCHANGED <<proposal, log, tree, kind, mind, patched, headSeen, holder, env>>

ValidIgnoresHead == Clean                       \* mutant: HEAD is not compared

\* validatePrimary and the comparison of HEAD; the patch file does not change.
Valid == Clean /\ AtBaseline

Validate(o) ==
  /\ pc[o] = "validate" /\ Valid
  /\ Goto(o, "apply")
  /\ UNCHANGED <<disk, kind, mind, patched, headSeen, holder, env>>

ApplyPatch(o) ==
  /\ pc[o] = "apply" /\ Fits
  /\ tree' = tree \cup {"patch"}
  /\ patched' = patched \cup {o}
  /\ Goto(o, IF mind[o].commit THEN "commit" ELSE "verify")
  /\ UNCHANGED <<proposal, shown, log, kind, mind, headSeen, holder, env>>

\* git commit -- changedPaths takes these paths as they are.
CommitPatch(o) ==
  /\ pc[o] = "commit"
  /\ log' = Append(log, IF "edit" \in tree THEN "mixed" ELSE "integration")
  /\ tree' = tree \ {"patch", "edit"}
  /\ mind' = [mind EXCEPT ![o].status = "committed"]
  /\ Goto(o, "record")
  /\ UNCHANGED <<proposal, shown, kind, patched, headSeen, holder, env>>

\* The hash of the diff, without untracked files outside the approved paths.
Verify(o) ==
  /\ pc[o] = "verify" /\ ExactlyPatched
  /\ mind' = [mind EXCEPT ![o].status = "applied"]
  /\ Goto(o, "record")
  /\ UNCHANGED <<disk, kind, patched, headSeen, holder, env>>

\* An await of the try block rejects: by itself, or as its check demands.
CommitIsMade(o) == pc[o] \in {"record", "announce"} /\ mind[o].commit
ApproveFails(o) ==
  /\ kind[o] = "approve" /\ pc[o] \in ApproveSteps \cup {"record", "announce"}
  /\ \/ IoMayFail /\ (CommitIsMade(o) => BookkeepingMayFail)
     \/ pc[o] = "validate" /\ ~Valid
     \/ pc[o] = "apply" /\ ~Fits
     \/ pc[o] = "verify" /\ ~ExactlyPatched
  /\ tree' \in LeftBehind(o)
  /\ Goto(o, "rollback")
  /\ UNCHANGED <<proposal, shown, log, kind, mind, patched, headSeen, holder, env>>

RestoredByReset(o) == {}                        \* mutant: reset --hard and clean

\* restore --source=HEAD of the changed paths, or the reverse patch.
Restored(o) ==
  IF mind[o].commit THEN tree \ {"patch", "partial", "edit"} ELSE tree \ {"patch"}

\* rolledBack is what the status of the tree says after the restore; the reverse
\* patch may not fit over an edit of the user.
RollbackTrusted(o) ==                           \* mutant: the status is not read again
  /\ pc[o] = "rollback"
  /\ tree' \in IF o \in patched THEN {Restored(o)} \cup LeftBehind(o) ELSE {tree}
  /\ mind' = [mind EXCEPT ![o].status = "failed", ![o].rolledBack = o \in patched]
  /\ Goto(o, "recordFailure")
  /\ UNCHANGED <<proposal, shown, log, kind, patched, headSeen, holder, env>>

Rollback(o) ==
  /\ pc[o] = "rollback"
  /\ \E rolledBack \in BOOLEAN :
       /\ IF o \in patched
          THEN \/ /\ tree' = Restored(o)
                  /\ rolledBack => tree' = {}
                  /\ rolledBack \/ IoMayFail \/ tree' # {}
               \/ /\ IoMayFail \/ (~mind[o].commit /\ ~ExactlyPatched)
                  /\ ~rolledBack /\ tree' \in LeftBehind(o)
          ELSE ~rolledBack /\ UNCHANGED tree
       /\ mind' = [mind EXCEPT
            ![o].rolledBack = rolledBack,
            ![o].status = IF o \in patched /\ ~rolledBack THEN "recovery_required" ELSE "failed"]
  /\ Goto(o, "recordFailure")
  /\ UNCHANGED <<proposal, shown, log, kind, patched, headSeen, holder, env>>

RecordFailure(o) ==
  /\ pc[o] = "recordFailure"
  /\ proposal' = mind[o]
  /\ Goto(o, "announceFailure")
  /\ UNCHANGED <<shown, log, tree, kind, mind, patched, headSeen, holder, env>>

AnnounceFailed(o) ==                            \* mutant: always integration.failed
  /\ pc[o] = "announceFailure"
  /\ shown' = "failed"
  /\ End(o)
  /\ UNCHANGED <<proposal, log, tree, env>>

AnnounceFailure(o) ==
  /\ pc[o] = "announceFailure"
  /\ shown' = mind[o].status
  /\ End(o)
  /\ UNCHANGED <<proposal, log, tree, env>>

\* A catch block cannot save or append: approve throws, revert goes on.
FailureFails(o) ==
  /\ IoMayFail /\ pc[o] \in {"recordFailure", "announceFailure"}
  /\ IF kind[o] = "revert" /\ pc[o] = "recordFailure"
     THEN Goto(o, "announceFailure") /\ UNCHANGED <<kind, mind, patched, headSeen, holder>>
     ELSE End(o)
  /\ UNCHANGED <<disk, env>>

-----------------------------------------------------------------------------
(* revert of an applied patch.                                             *)

CheckRevert(o) ==
  /\ pc[o] = "checkRevert" /\ AtBaseline /\ ExactlyPatched
  /\ Goto(o, "unapply")
  /\ UNCHANGED <<disk, kind, mind, patched, headSeen, holder, env>>

Unapply(o) ==
  /\ pc[o] = "unapply" /\ "patch" \in tree
  /\ tree' = tree \ {"patch"}
  /\ Goto(o, "confirmRevert")
  /\ UNCHANGED <<proposal, shown, log, kind, mind, patched, headSeen, holder, env>>

ConfirmRevert(o) ==
  /\ pc[o] = "confirmRevert" /\ Clean
  /\ mind' = [mind EXCEPT ![o].status = "reverted"]
  /\ Goto(o, "record")
  /\ UNCHANGED <<disk, kind, patched, headSeen, holder, env>>

-----------------------------------------------------------------------------
(* revert of a commit (#revertCommitted).                                  *)

\* The integration is the one child of the baseline, and not reverted already:
\* git revert would stage nothing.
MayRevertCommit ==
  /\ Clean /\ log # <<>> /\ Head(log) = "integration"
  /\ "revert" \notin Range(log)

StageRevert(o) ==
  /\ pc[o] = "stageRevert" /\ MayRevertCommit
  /\ tree' = tree \cup {"undo"}
  /\ Goto(o, "commitRevert")
  /\ UNCHANGED <<proposal, shown, log, kind, mind, patched, headSeen, holder, env>>

CommitRevert(o) ==
  /\ pc[o] = "commitRevert"
  /\ log' = Append(log, "revert")
  /\ tree' = tree \ {"undo"}
  /\ Goto(o, "confirmCommit")
  /\ UNCHANGED <<proposal, shown, kind, mind, patched, headSeen, holder, env>>

ConfirmCommit(o) ==
  /\ pc[o] = "confirmCommit" /\ Clean
  /\ mind' = [mind EXCEPT ![o].status = "revert_committed"]
  /\ Goto(o, "record")
  /\ UNCHANGED <<disk, kind, patched, headSeen, holder, env>>

\* The revert commit exists: what fails now asks for recovery.
RevertCommitFails(o) ==
  /\ kind[o] = "revert"
  /\ \/ pc[o] = "confirmCommit" /\ (IoMayFail \/ ~Clean)
     \/ /\ pc[o] \in {"record", "announce"} /\ IoMayFail
        /\ mind[o].status = "revert_committed"
  /\ mind' = [mind EXCEPT ![o].status = "recovery_required"]
  /\ Goto(o, "recordFailure")
  /\ UNCHANGED <<disk, kind, patched, headSeen, holder, env>>

\* revert throws; before its commit it gives up what it staged, if git lets it.
RevertFails(o) ==
  /\ kind[o] = "revert"
  /\ \/ IoMayFail /\ pc[o] \in RevertSteps
     \/ IoMayFail /\ pc[o] \in {"record", "announce"} /\ mind[o].status = "reverted"
     \/ pc[o] = "checkRevert" /\ ~(AtBaseline /\ ExactlyPatched)
     \/ pc[o] = "unapply" /\ ~ExactlyPatched
     \/ pc[o] = "confirmRevert" /\ ~Clean
     \/ pc[o] = "stageRevert" /\ (~MayRevertCommit \/ "user" \in Range(log))
  /\ tree' \in LeftBehind(o)
  /\ End(o)
  /\ UNCHANGED <<proposal, shown, log, env>>

-----------------------------------------------------------------------------
(* reconcileApplying.                                                      *)

ReadHead(o) ==
  /\ pc[o] = "readHead"
  /\ headSeen' = [headSeen EXCEPT ![o] = log]
  /\ Goto(o, "inspect")
  /\ UNCHANGED <<disk, kind, mind, patched, holder, env>>

\* What HEAD, read before, and the status of the tree, read now, decide;
\* "compare" where the diff has to.
Verdict(o) ==
  LET head == headSeen[o] IN
  IF head = <<>> /\ Clean THEN "failed"
  ELSE IF ~mind[o].commit /\ head = <<>> /\ "stray" \notin tree THEN "compare"
  ELSE IF mind[o].commit /\ Clean /\ head = <<"integration">> THEN "committed"
  ELSE "recovery_required"

InspectKeepsAmbiguous(o) ==                     \* mutant: the last return is "return proposal"
  /\ pc[o] = "inspect"
  /\ IF Verdict(o) = "compare"
     THEN Goto(o, "compare") /\ UNCHANGED <<kind, mind, patched, headSeen, holder>>
     ELSE IF Verdict(o) = "recovery_required" THEN End(o)
     ELSE /\ mind' = [mind EXCEPT ![o].status = Verdict(o),
                                  ![o].rolledBack = Verdict(o) = "failed"]
          /\ Goto(o, "record")
          /\ UNCHANGED <<kind, patched, headSeen, holder>>
  /\ UNCHANGED <<disk, env>>

Inspect(o) ==
  /\ pc[o] = "inspect"
  /\ IF Verdict(o) = "compare"
     THEN Goto(o, "compare") /\ UNCHANGED mind
     ELSE /\ mind' = [mind EXCEPT ![o].status = Verdict(o),
                                  ![o].rolledBack = Verdict(o) = "failed"]
          /\ Goto(o, "record")
  /\ UNCHANGED <<disk, kind, patched, headSeen, holder, env>>

Compare(o) ==
  /\ pc[o] = "compare"
  /\ mind' = [mind EXCEPT ![o].status =
                IF ExactlyPatched THEN "applied" ELSE "recovery_required"]
  /\ Goto(o, "record")
  /\ UNCHANGED <<disk, kind, patched, headSeen, holder, env>>

\* #reconcileApplyingIntegrations reports what reconcileApplying throws.
ReconcileFails(o) ==
  /\ IoMayFail /\ kind[o] = "reconcile"
  /\ shown' \in {shown, "recovery_required"}
  /\ End(o)
  /\ UNCHANGED <<proposal, log, tree, env>>

-----------------------------------------------------------------------------
(* The user, the crash, and the specification.                             *)

\* Bound: beside a call the user acts only where it makes no commit.
UserMayAct ==
  /\ userSteps < MaxUserSteps
  /\ Busy = {} \/ ("user" \in Races /\ \A o \in Ops : ~mind[o].commit)

UserTouches ==
  /\ UserMayAct
  /\ \E c \in MayTouch \ tree : tree' = tree \cup {c}
  /\ userSteps' = userSteps + 1
  /\ UNCHANGED <<proposal, shown, log, calls, crashes>>

\* A commit of everything; that of the exact patch is like the integration's own.
UserCommits ==
  /\ UserMayAct /\ Busy = {} /\ ~Clean
  /\ log' = Append(log, IF tree = {"patch"} THEN "integration" ELSE "user")
  /\ tree' = {}
  /\ userSteps' = userSteps + 1
  /\ UNCHANGED <<proposal, shown, calls, crashes>>

Crash ==
  /\ crashes < MaxCrashes /\ Busy # {}
  /\ tree' \in UNION {Torn(o) : o \in Ops}
  /\ pc' = [o \in Ops |-> "idle"] /\ kind' = [o \in Ops |-> "none"]
  /\ mind' = [o \in Ops |-> Prepared] /\ headSeen' = [o \in Ops |-> <<>>]
  /\ patched' = {} /\ holder' = NoOp
  /\ crashes' = crashes + 1
  /\ UNCHANGED <<proposal, shown, log, userSteps>>

Step(o) ==
  \/ Acquire(o) \/ Record(o) \/ Announce(o)
  \/ Intend(o) \/ AnnounceIntent(o) \/ Validate(o) \/ ApplyPatch(o) \/ CommitPatch(o)
  \/ Verify(o) \/ ApproveFails(o) \/ Rollback(o) \/ RecordFailure(o) \/ AnnounceFailure(o)
  \/ FailureFails(o)
  \/ CheckRevert(o) \/ Unapply(o) \/ ConfirmRevert(o)
  \/ StageRevert(o) \/ CommitRevert(o) \/ ConfirmCommit(o)
  \/ RevertCommitFails(o) \/ RevertFails(o)
  \/ ReadHead(o) \/ Inspect(o) \/ Compare(o) \/ ReconcileFails(o)

Next ==
  \/ \E o \in Ops : StartApprove(o) \/ StartRevert(o) \/ StartReconcile(o) \/ GiveUp(o)
  \/ \E o \in Ops : Step(o)
  \/ UserTouches \/ UserCommits \/ Crash

Spec == Init /\ [][Next]_vars

\* Every await ends, and the Runs are listed again after a restart.
FairSpec ==
  /\ Spec
  /\ \A o \in Ops : WF_vars(Step(o))
  /\ WF_vars(\E o \in Ops : StartReconcile(o))

-----------------------------------------------------------------------------
(* Properties.                                                             *)

\* The locals have their types; the lease belongs to a call that took it and runs,
\* and a reconciliation never has it.
TypeOK ==
  /\ proposal \in Proposals /\ shown \in Statuses
  /\ log \in Seq(Commits) /\ tree \subseteq Changes
  /\ pc \in [Ops -> Steps] /\ kind \in [Ops -> Kinds]
  /\ mind \in [Ops -> Proposals] /\ patched \subseteq Ops
  /\ headSeen \in [Ops -> Seq(Commits)]
  /\ holder \in Ops \cup {NoOp}
  /\ holder # NoOp => kind[holder] \in {"approve", "revert"} /\ pc[holder] # "acquire"
  /\ userSteps \in 0..MaxUserSteps /\ crashes \in 0..MaxCrashes

\* Nothing of the patch is in the repository of a proposal that still waits for its
\* approval, whatever was interrupted: the intent is saved before any effect.
EffectsAreDeclared ==
  proposal.status = "awaiting_approval"
    => ~Integrated /\ "mixed" \notin Range(log) /\ tree \cap {"patch", "partial"} = {}

\* A proposal recorded as failed and rolled back left neither its patch in the tree
\* nor its commit in the history.
RolledBackMeansUntouched ==
  proposal.status = "failed" /\ proposal.rolledBack
    => ~Integrated /\ tree \cap {"patch", "partial"} = {}

\* What a status recorded of the proposal says of HEAD and of the tree.
Holds(status) ==
  CASE status = "applied" -> AtBaseline /\ ExactlyPatched
    [] status = "committed" -> log = <<"integration">> /\ Clean
    [] status = "reverted" -> AtBaseline /\ Clean
    [] status = "revert_committed" -> Integrated /\ log[Len(log)] = "revert" /\ Clean
    [] OTHER -> TRUE

\* A status is saved only when it is true of the repository, by an operation that
\* saw it happen and by a reconciliation that finds what a crash left.
RecordsAreTrue ==
  [][proposal'.status # proposal.status => Holds(proposal'.status)]_vars

\* No operation takes away what the user added to the tree: it goes only into a
\* commit of the user's own.
UserEditsKept ==
  [][\A c \in {"edit", "stray"} :
       c \in tree /\ c \notin tree' => log' = Append(log, "user")]_vars

\* While nothing crashed or failed, what the events show of a proposal at rest is
\* the status saved in it, whichever way its calls ended.
ShownIsRecorded == Busy = {} /\ crashes = 0 /\ ~IoMayFail => shown = proposal.status

\* What the user is told of a proposal is so: a rollback that is recorded left
\* nothing behind, and the events show the status that is saved.
StatusIsHonest == RolledBackMeansUntouched /\ ShownIsRecorded

\* Settled: the user is told of an interrupted approval, whatever it left behind.
EveryApprovalSettles == proposal.status = "applying" ~> proposal.status # "applying"
=============================================================================
