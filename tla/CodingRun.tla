----------------------------- MODULE CodingRun -----------------------------
(***************************************************************************)
(* A Run in code mode and what it leaves on disk: the manifest, a Git      *)
(* worktree for each task, the agents' checkpoints, the patches and their  *)
(* registry, the task results, the preview worktree and the integration    *)
(* proposal, with the process stopping anywhere, the resume that inspects  *)
(* all of it, the user who edits a worktree or commits, and the cleanup of *)
(* the worktrees.  How an agent calls tools is in AgentLoop, the order of  *)
(* the tasks in Scheduler, what becomes of a proposal in Integration.      *)
(***************************************************************************)
EXTENDS Integers, FiniteSets

CONSTANTS
  Tasks,              \* the workers' tasks
  MaxCrashes, MaxEdits, MaxCommits, MaxAttempts,       \* bounds
  CleanupOverlaps     \* bound: whether a cleanup and a Run may be under way together

ASSUME CodingAssumption ==
  /\ IsFiniteSet(Tasks) /\ Tasks # {} /\ Tasks \cap Nat = {}
  /\ MaxCrashes \in Nat /\ MaxEdits \in Nat /\ MaxCommits \in Nat
  /\ MaxAttempts \in Nat \ {0} /\ CleanupOverlaps \in BOOLEAN

Attempts == 1..MaxAttempts
Trees == Tasks \cup Attempts              \* a preview worktree for each attempt

VARIABLES
  manifest,           \* [worktrees, attempt, baseline], or NoManifest
  head,               \* the HEAD of the primary checkout
  tree,               \* [Trees -> TreeStates]
  agent,              \* [Tasks -> {"none", "partial", "done", "silent"}]: the agents' checkpoints
  patch,              \* [Tasks -> Contents]: the patch files
  registered,         \* [Tasks -> Contents]: artifacts.json
  result,             \* [Tasks -> Contents]: the patch of each saved task result
  proposal,           \* [status, base, patches, preview], or NoProposal
  last, protected, retained,    \* what the event log amounts to
  phase,              \* where the workflow stands
  step,               \* [Tasks -> Steps]: where each task stands
  diff,               \* [Tasks -> Contents]: the diff it captured
  base,               \* the HEAD the preflight started from
  cleanup,            \* [at, todo, gone]
  crashes, edits, commits

disk == <<manifest, tree, agent, patch, registered, result, proposal>>
log == <<last, protected, retained>>
tasks == <<step, diff>>
memory == <<phase, tasks, base>>
counters == <<crashes, edits, commits>>
vars == <<disk, head, log, memory, cleanup, counters>>

Contents == {"none", "partial", "done", "edited"}
TreeStates == {"none", "torn", "fresh", "partial", "done", "edited"}
Steps == {"idle", "record", "announce", "ready", "agent", "diff", "write", "register", "save", "over", "failed"}
Phases == {"idle", "validate", "plan", "trees", "work", "preview", "show", "combine", "save",
           "tell", "end", "fail", "block"}
NoManifest == [worktrees |-> {}, attempt |-> 0, baseline |-> -1]
NoProposal == [status |-> "none", base |-> 0, patches |-> [t \in Tasks |-> "none"], preview |-> 0]
NoCleanup == [at |-> "idle", todo |-> {}, gone |-> 0]

TypeOK ==
  /\ manifest \in [worktrees : SUBSET Tasks, attempt : {0} \cup Attempts, baseline : -1..MaxCommits]
  /\ head \in 0..MaxCommits
  /\ tree \in [Trees -> TreeStates] /\ agent \in [Tasks -> {"none", "partial", "done", "silent"}]
  /\ patch \in [Tasks -> Contents] /\ registered \in [Tasks -> Contents] /\ result \in [Tasks -> Contents]
  /\ proposal \in [status : {"none", "awaiting", "failed", "settled"}, base : 0..MaxCommits, patches : [Tasks -> Contents],
                   preview : {0} \cup Attempts]
  /\ last \in {"none", "started", "resumed", "succeeded", "failed", "interrupted"}
  /\ protected \in BOOLEAN /\ retained \subseteq Trees
  /\ phase \in Phases /\ step \in [Tasks -> Steps] /\ diff \in [Tasks -> Contents] /\ base \in 0..MaxCommits
  /\ cleanup \in [at : {"idle", "wait", "remove", "event"}, todo : SUBSET Trees, gone : Trees \cup {0}]
  /\ crashes \in 0..MaxCrashes /\ edits \in 0..MaxEdits /\ commits \in 0..MaxCommits

Init ==
  /\ manifest = NoManifest /\ head = 0
  /\ tree = [w \in Trees |-> "none"] /\ agent = [t \in Tasks |-> "none"]
  /\ patch = [t \in Tasks |-> "none"] /\ registered = [t \in Tasks |-> "none"]
  /\ result = [t \in Tasks |-> "none"] /\ proposal = NoProposal
  /\ last = "none" /\ protected = FALSE /\ retained = {}
  /\ phase = "idle" /\ step = [t \in Tasks |-> "idle"] /\ diff = [t \in Tasks |-> "none"] /\ base = 0
  /\ cleanup = NoCleanup
  /\ crashes = 0 /\ edits = 0 /\ commits = 0

Goto(p) == phase' = p

Terminal == last \in {"succeeded", "failed", "interrupted"}

Results == {t \in Tasks : result[t] # "none"}

-----------------------------------------------------------------------------
(* GitWorktreeManager.                                                     *)

\* inspectExpected throws for a worktree that Git and the disk do not agree on.
Expected(t) == head = manifest.baseline /\ tree[t] # "torn"

\* git worktree add: the process may stop half way.
Add(w) == [tree EXCEPT ![w] = "fresh"]

Exists(w) == tree[w] \notin {"none", "torn"}

\* captureDiff: the content of a worktree, "none" if there is nothing to commit.
Diff(w) == IF tree[w] \in {"partial", "done", "edited"} THEN tree[w] ELSE "none"

-----------------------------------------------------------------------------
(* CodingWorkflow.#execute.                                                *)

MayStart == phase = "idle" /\ (CleanupOverlaps \/ cleanup.at = "idle")

Run ==
  /\ MayStart /\ last = "none"
  /\ last' = "started" /\ Goto("plan")
  /\ UNCHANGED <<disk, head, protected, retained, tasks, base, cleanup, counters>>

\* validatePrimary, the planner, initialize; or one of them throws.
Plan ==
  /\ phase = "plan"
  /\ \/ /\ manifest' = [NoManifest EXCEPT !.baseline = head]
        /\ Goto("trees")
     \/ Goto("fail") /\ UNCHANGED manifest
  /\ UNCHANGED <<tree, agent, patch, registered, result, proposal, head, log, tasks, base, cleanup, counters>>

Resume ==
  /\ MayStart /\ last \in {"failed", "interrupted"}
  /\ Goto("validate")
  /\ UNCHANGED <<disk, head, log, tasks, base, cleanup, counters>>

\* #validateWorkerResult: the worktree, the patch and the registry still agree with it.
ValidResult(t) ==
  /\ Exists(t) /\ Diff(t) = result[t]
  /\ patch[t] = result[t] /\ registered[t] = result[t]

ResumableUnlisted ==                      \* mutant: recorded worktrees are not compared
  /\ manifest # NoManifest /\ head = manifest.baseline
  /\ \A t \in Tasks : Expected(t)
  /\ \A t \in Results : Diff(t) = result[t]

\* inspectResume
Resumable ==
  /\ manifest # NoManifest /\ head = manifest.baseline
  /\ \A t \in Tasks : Expected(t) /\ (t \in manifest.worktrees => Exists(t))
  /\ \A t \in Results : ValidResult(t)

Validate ==
  /\ phase = "validate"
  /\ Goto(IF Resumable THEN "trees" ELSE "block")
  /\ UNCHANGED <<disk, head, log, tasks, base, cleanup, counters>>

Resuming == last \in {"failed", "interrupted"}

Stop == IF Resuming THEN "block" ELSE "fail"

Advance(t, s) == step' = [step EXCEPT ![t] = s]

Turn(t) == phase = "trees" /\ step[t] = "idle" /\ \A u \in Tasks : step[u] \notin {"record", "announce"}

Adding(t) == Turn(t) /\ Expected(t) /\ tree[t] = "none"

\* restoreOrCreate, then recordWorktree and workspace.created: one task after the other.
PrepareTree(t) ==
  /\ Turn(t)
  /\ IF Expected(t)
     THEN /\ tree' = IF tree[t] = "none" THEN Add(t) ELSE tree
          /\ Advance(t, "record") /\ UNCHANGED phase
     ELSE Goto(Stop) /\ UNCHANGED <<tree, step>>
  /\ UNCHANGED <<manifest, agent, patch, registered, result, proposal, head, log, diff, base, cleanup, counters>>

RecordTree(t) ==
  /\ phase = "trees" /\ step[t] = "record"
  /\ manifest' = [manifest EXCEPT !.worktrees = @ \cup {t}]
  /\ Advance(t, "announce")
  /\ UNCHANGED <<tree, agent, patch, registered, result, proposal, head, log, phase, diff, base, cleanup, counters>>

AnnounceTree(t) ==
  /\ phase = "trees" /\ step[t] = "announce"
  /\ retained' = retained \cup {t}
  /\ Advance(t, "ready")
  /\ UNCHANGED <<disk, head, last, protected, phase, diff, base, cleanup, counters>>

RestoreByAgents ==                        \* mutant: an agent that ended stands for its result
  /\ phase = "trees" /\ \A t \in Tasks : step[t] = "ready"
  /\ step' = [t \in Tasks |-> IF agent[t] = "done" THEN "over" ELSE "agent"]
  /\ last' = IF Resuming THEN "resumed" ELSE last
  /\ Goto("work")
  /\ UNCHANGED <<disk, head, protected, retained, diff, base, cleanup, counters>>

\* The results are restored, run.resumed is appended and the scheduler starts.
Restore ==
  /\ phase = "trees" /\ \A t \in Tasks : step[t] = "ready"
  /\ IF \A t \in Results : agent[t] = "done"
     THEN /\ step' = [t \in Tasks |-> IF t \in Results THEN "over" ELSE "agent"]
          /\ last' = IF Resuming THEN "resumed" ELSE last
          /\ Goto("work")
     ELSE Goto("block") /\ UNCHANGED <<step, last>>
  /\ UNCHANGED <<disk, head, protected, retained, diff, base, cleanup, counters>>

-----------------------------------------------------------------------------
(* CodingTaskExecutor: the worker's agent, then the patch of what it did.  *)

Working(t, s) == phase = "work" /\ step[t] = s

\* A write of the agent with its checkpoint: see AgentLoop for what is in between.
AgentWrites(t) ==
  /\ Working(t, "agent") /\ agent[t] = "none" /\ Exists(t)
  /\ tree' = [tree EXCEPT ![t] = IF @ = "fresh" THEN "partial" ELSE @]
  /\ agent' = [agent EXCEPT ![t] = "partial"]
  /\ UNCHANGED <<manifest, patch, registered, result, proposal, head, log, memory, cleanup, counters>>

\* Its last turns, or at once the output of a checkpoint that was already complete.
AgentEnds(t) ==
  /\ Working(t, "agent") /\ Exists(t)
  /\ tree' = [tree EXCEPT ![t] = IF agent[t] = "partial" /\ @ = "partial" THEN "done" ELSE @]
  /\ agent' = [agent EXCEPT ![t] = CASE @ = "none" -> "silent" [] @ = "partial" -> "done" [] OTHER -> @]
  /\ Advance(t, "diff")
  /\ UNCHANGED <<manifest, patch, registered, result, proposal, head, log, phase, diff, base, cleanup, counters>>

\* The task fails; the others end as they do.
Break(t) == Advance(t, "failed")

\* captureDiff; an empty one, or one outside of the owned paths, fails the task.
Capture(t) ==
  /\ Working(t, "diff")
  /\ \/ /\ Diff(t) # "none"
        /\ diff' = [diff EXCEPT ![t] = Diff(t)]
        /\ Advance(t, "write")
     \/ Diff(t) \in {"none", "edited"} /\ Break(t) /\ UNCHANGED diff
  /\ UNCHANGED <<disk, head, log, phase, base, cleanup, counters>>

\* writePatchArtifact: a patch that is there already must be this one.
WritePatch(t) ==
  /\ Working(t, "write")
  /\ IF patch[t] \in {"none", diff[t]}
     THEN patch' = [patch EXCEPT ![t] = diff[t]] /\ Advance(t, "register")
     ELSE Break(t) /\ UNCHANGED patch
  /\ UNCHANGED <<manifest, tree, agent, registered, result, proposal, head, log, phase, diff, base, cleanup, counters>>

\* The registry refuses another record for the same path.
Register(t) ==
  /\ Working(t, "register")
  /\ IF registered[t] \in {"none", diff[t]}
     THEN registered' = [registered EXCEPT ![t] = diff[t]] /\ Advance(t, "save")
     ELSE Break(t) /\ UNCHANGED registered
  /\ UNCHANGED <<manifest, tree, agent, patch, result, proposal, head, log, phase, diff, base, cleanup, counters>>

SaveResult(t) ==
  /\ Working(t, "save")
  /\ IF result[t] \in {"none", diff[t]}
     THEN result' = [result EXCEPT ![t] = diff[t]] /\ Advance(t, "over")
     ELSE Break(t) /\ UNCHANGED result
  /\ UNCHANGED <<manifest, tree, agent, patch, registered, proposal, head, log, phase, diff, base, cleanup, counters>>

AgentFails(t) ==
  /\ Working(t, "agent") /\ Break(t)
  /\ UNCHANGED <<disk, head, log, phase, diff, base, cleanup, counters>>

WorkFails ==
  /\ phase = "work" /\ \A t \in Tasks : step[t] \in {"over", "failed"}
  /\ Goto("fail")                         \* a worker or, after them, the integrator
  /\ UNCHANGED <<disk, head, log, tasks, base, cleanup, counters>>

-----------------------------------------------------------------------------
(* The preflight: IntegrationManager.prepare under beginPreflightAttempt.  *)

Worked == phase = "work" /\ \A t \in Tasks : step[t] = "over"

\* loadPrepared: a proposal of an earlier process is taken if it still fits.
Reuse ==
  /\ Worked /\ proposal # NoProposal
  /\ IF /\ proposal.status \in {"awaiting", "failed"} /\ proposal.base = manifest.baseline
        /\ proposal.patches = registered /\ registered = patch /\ head = manifest.baseline
     THEN /\ protected' = (proposal.status = "awaiting")
          /\ Goto("end")
     ELSE Goto("fail") /\ UNCHANGED protected
  /\ UNCHANGED <<disk, head, last, retained, tasks, base, cleanup, counters>>

\* The primary checkout may have changes: prepare throws before it began.
BeginAttempt ==
  /\ Worked /\ proposal = NoProposal /\ manifest.attempt < MaxAttempts
  /\ manifest' = [manifest EXCEPT !.attempt = @ + 1] /\ base' = head
  /\ Goto("preview") \/ Goto("fail")
  /\ UNCHANGED <<tree, agent, patch, registered, result, proposal, head, log, tasks, cleanup, counters>>

Preview == manifest.attempt

\* create refuses a path that is there.
CreatePreview ==
  /\ phase = "preview"
  /\ IF tree[Preview] = "none" THEN tree' = Add(Preview) /\ Goto("show")
     ELSE Goto("combine") /\ UNCHANGED tree
  /\ UNCHANGED <<manifest, agent, patch, registered, result, proposal, head, log, tasks, base, cleanup, counters>>

ShowPreview ==
  /\ phase = "show"
  /\ retained' = retained \cup {Preview}
  /\ Goto("save")
  /\ UNCHANGED <<disk, head, last, protected, tasks, base, cleanup, counters>>

\* Applying the patches, the checks and the combined patch succeed or throw.
SaveProposal ==
  /\ phase \in {"save", "combine"}
  /\ \E status \in {"awaiting", "failed"} :
       /\ status = "awaiting" => phase = "save" /\ registered = patch
       /\ proposal' = [status |-> status, base |-> base, patches |-> registered, preview |-> Preview]
  /\ Goto("tell")
  /\ UNCHANGED <<manifest, tree, agent, patch, registered, result, head, log, tasks, base, cleanup, counters>>

TellProposal ==
  /\ phase = "tell"
  /\ protected' = (proposal.status = "awaiting")
  /\ Goto("end")
  /\ UNCHANGED <<disk, head, last, retained, tasks, base, cleanup, counters>>

Forget ==
  /\ Goto("idle")
  /\ step' = [t \in Tasks |-> "idle"] /\ diff' = [t \in Tasks |-> "none"]

Succeed ==
  /\ phase = "end"
  /\ last' = "succeeded" /\ Forget
  /\ UNCHANGED <<disk, head, protected, retained, base, cleanup, counters>>

Fail ==
  /\ phase = "fail"
  /\ last' = "failed" /\ Forget
  /\ UNCHANGED <<disk, head, protected, retained, base, cleanup, counters>>

\* checkpoint.resume_blocked is no lifecycle event.
Block ==
  /\ phase = "block" /\ Forget
  /\ UNCHANGED <<disk, head, log, base, cleanup, counters>>

-----------------------------------------------------------------------------
(* WorktreeLifecycleManager.cleanup, for a Run that is not active.         *)

Cleanup ==
  /\ (phase = "idle" \/ CleanupOverlaps) /\ cleanup.at = "idle"
  /\ Terminal /\ ~protected /\ retained # {}
  /\ cleanup' = [NoCleanup EXCEPT !.at = "wait", !.todo = retained]
  /\ UNCHANGED <<disk, head, log, memory, counters>>

\* The coordinator's write lease: not while a worker or a preflight has one.
CleanupGranted ==
  /\ cleanup.at = "wait"
  /\ phase \notin {"work", "preview", "show", "combine", "save", "tell"}
  /\ cleanup' = [cleanup EXCEPT !.at = "remove"]
  /\ UNCHANGED <<disk, head, log, memory, counters>>

RemovePreviewFirst ==                     \* mutant: in another order
  /\ cleanup.at = "remove" /\ cleanup.todo # {}
  /\ \E w \in cleanup.todo :
       /\ tree' = [tree EXCEPT ![w] = "none"]
       /\ cleanup' = [cleanup EXCEPT !.at = "event", !.gone = w]
  /\ UNCHANGED <<manifest, agent, patch, registered, result, proposal, head, log, memory, counters>>

\* In the order of the events: the tasks' worktrees before the previews.
RemoveTree ==
  /\ cleanup.at = "remove" /\ cleanup.todo # {}
  /\ \E w \in cleanup.todo :
       /\ w \in Attempts => cleanup.todo \subseteq Attempts
       /\ IF tree[w] = "torn" THEN cleanup' = NoCleanup /\ UNCHANGED tree
          ELSE /\ tree' = [tree EXCEPT ![w] = "none"]
               /\ cleanup' = [cleanup EXCEPT !.at = "event", !.gone = w]
  /\ UNCHANGED <<manifest, agent, patch, registered, result, proposal, head, log, memory, counters>>

TellRemoved ==
  /\ cleanup.at = "event"
  /\ retained' = retained \ {cleanup.gone}
  /\ cleanup' = [cleanup EXCEPT !.at = "remove", !.todo = @ \ {cleanup.gone}, !.gone = 0]
  /\ UNCHANGED <<disk, head, last, protected, memory, counters>>

CleanupEnds ==
  /\ cleanup.at = "remove" /\ cleanup.todo = {}
  /\ cleanup' = NoCleanup
  /\ UNCHANGED <<disk, head, log, memory, counters>>

-----------------------------------------------------------------------------
(* The world around.                                                       *)

\* The process stops, perhaps in the middle of git worktree add; the next one
\* reconciles before anything else.
Crash ==
  /\ crashes < MaxCrashes /\ crashes' = crashes + 1
  /\ phase # "idle" \/ cleanup.at # "idle"
  /\ last' = IF phase # "idle" /\ last \in {"started", "resumed"} THEN "interrupted" ELSE last
  /\ UNCHANGED tree \/ \E t \in Tasks : Adding(t) /\ tree' = [tree EXCEPT ![t] = "torn"]
  /\ Forget /\ cleanup' = NoCleanup
  /\ UNCHANGED <<manifest, agent, patch, registered, result, proposal, head, protected, retained, base, edits, commits>>

\* The user works in a worktree.
Edit ==
  /\ edits < MaxEdits /\ edits' = edits + 1
  /\ \E t \in Tasks : tree[t] \in {"partial", "done"} /\ tree' = [tree EXCEPT ![t] = "edited"]
  /\ UNCHANGED <<manifest, agent, patch, registered, result, proposal, head, log, memory, cleanup, crashes, commits>>

\* The user commits in the primary checkout.
Commit ==
  /\ commits < MaxCommits /\ commits' = commits + 1
  /\ head' = head + 1
  /\ UNCHANGED <<disk, log, memory, cleanup, crashes, edits>>

\* The user decides on the proposal: see Integration.
Decide ==
  /\ phase = "idle" /\ protected /\ proposal.status = "awaiting"
  /\ proposal' = [proposal EXCEPT !.status = "settled"]
  /\ protected' = FALSE
  /\ UNCHANGED <<manifest, tree, agent, patch, registered, result, head, last, retained, memory, cleanup, counters>>

Next ==
  \/ Run \/ Plan \/ Resume \/ Validate \/ Restore
  \/ \E t \in Tasks :
       \/ PrepareTree(t) \/ RecordTree(t) \/ AnnounceTree(t)
       \/ AgentWrites(t) \/ AgentEnds(t) \/ AgentFails(t)
       \/ Capture(t) \/ WritePatch(t) \/ Register(t) \/ SaveResult(t)
  \/ WorkFails \/ Reuse \/ BeginAttempt \/ CreatePreview \/ ShowPreview \/ SaveProposal \/ TellProposal
  \/ Succeed \/ Fail \/ Block
  \/ Cleanup \/ CleanupGranted \/ RemoveTree \/ TellRemoved \/ CleanupEnds
  \/ Crash \/ Edit \/ Commit \/ Decide

Spec == Init /\ [][Next]_vars

-----------------------------------------------------------------------------
(* Properties.                                                             *)

\* Across crashes, edits and resumes a proposal the user may approve is made of
\* the patches that the results of this Run report, each of them registered, and
\* no patch file changes afterwards.
ProposalIsTheResults ==
  proposal.status \in {"awaiting", "settled"} =>
    /\ proposal.patches = result /\ proposal.patches = patch /\ proposal.patches = registered
    /\ \A t \in Tasks : result[t] # "none"

\* A task whose agent has written goes on in the worktree it wrote in: no resume
\* gives a checkpoint with history a new and empty worktree.
WorkIsKept ==
  phase = "work" => \A t \in Tasks : agent[t] \in {"partial", "done"} => Diff(t) # "none" \/ result[t] # "none"

\* While the log says that a proposal awaits the user's decision, its preview
\* worktree stands, whatever a cleanup had begun to remove before a crash.
AwaitedPreviewStands == protected => Exists(proposal.preview)

\* The preflight of a resumed Run never meets the preview worktree of a preflight
\* that an earlier process left behind, which create would refuse for good.
PreviewsAreFresh == phase = "preview" => tree[Preview] = "none"

\* A preview worktree is there as long as the user may look at it, and in the way
\* of no later one.
PreviewsStand == AwaitedPreviewStands /\ PreviewsAreFresh
=============================================================================
