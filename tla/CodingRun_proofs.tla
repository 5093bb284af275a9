------------------------- MODULE CodingRun_proofs ---------------------------
(***************************************************************************)
(* Theorems about CodingRun, for any number of tasks, crashes, edits,      *)
(* commits and attempts.                                                   *)
(***************************************************************************)
EXTENDS CodingRun, TLAPS

-----------------------------------------------------------------------------
(* The inductive invariants.                                               *)

\* What was reported is registered, and what is registered is in the patch file; on
\* the way there a task has in hand what it captured.
PatchAt(t) ==
  /\ registered[t] # "none" => patch[t] = registered[t]
  /\ result[t] # "none" => registered[t] = result[t]
  /\ step[t] \in {"write", "register", "save"} => diff[t] # "none"
  /\ step[t] \in {"register", "save"} => patch[t] = diff[t]
  /\ step[t] = "save" => registered[t] = diff[t]
  /\ step[t] = "over" => result[t] # "none"

Preflight == {"preview", "show", "combine", "save", "tell"}

PatchInv ==
  /\ \A t \in Tasks : PatchAt(t)
  /\ phase \in Preflight => \A t \in Tasks : step[t] = "over"
  /\ proposal.status \in {"awaiting", "settled"} =>
       \A t \in Tasks : result[t] # "none" /\ proposal.patches[t] = result[t]

\* The commits are counted, and a preflight has an attempt.
Numbered ==
  /\ head = commits
  /\ phase \in Preflight => Preview \in Attempts

Typed == TypeOK /\ Numbered

\* Nothing is there before the plan; a cleanup and a workflow are not under way together.
Unbegun ==
  /\ last = "none" => phase = "idle"
  /\ phase = "plan" => last = "started"
  /\ last = "none" \/ phase = "plan" =>
       /\ manifest = NoManifest /\ proposal = NoProposal /\ ~protected
       /\ \A w \in Trees : tree[w] = "none"
       /\ \A t \in Tasks : agent[t] = "none"

Apart ==
  /\ phase # "idle" => cleanup.at = "idle"
  /\ phase \in {"idle", "plan", "validate"} => \A t \in Tasks : step[t] = "idle"

\* Where the worktrees of the manifest stand: from the moment a resume has compared them.
Standing == {"trees", "work", "end"} \cup Preflight

\* A task that wrote has a recorded worktree with what it wrote, until a cleanup takes it.
WorktreeAt(t) ==
  /\ agent[t] # "none" => t \in manifest.worktrees
  /\ agent[t] \in {"partial", "done"} => tree[t] \in {"none", "partial", "done", "edited"}
  /\ phase \in Standing /\ t \in manifest.worktrees => Exists(t)
  /\ phase = "trees" =>
       /\ step[t] = "record" => Exists(t)
       /\ step[t] \in {"announce", "ready"} => t \in manifest.worktrees
       /\ step[t] = "ready" => t \in retained
  /\ phase \in Standing \ {"trees"} => t \in manifest.worktrees /\ t \in retained

WorktreeInv == Unbegun /\ Apart /\ \A t \in Tasks : WorktreeAt(t)

\* The previews: none before its attempt, and the one of a proposal that waits goes
\* after the worktrees of the tasks, without which no resume gets to it.
Previews ==
  /\ \A a \in Attempts : a > manifest.attempt => tree[a] = "none"
  /\ phase = "preview" => tree[Preview] = "none"
  /\ phase \in {"show", "save"} => Exists(Preview)
  /\ phase \in Preflight \ {"tell"} => proposal = NoProposal
  /\ phase = "tell" => proposal # NoProposal

Awaited ==
  /\ proposal.status = "awaiting" =>
       /\ proposal.preview \in Attempts
       /\ Exists(proposal.preview) \/ \E t \in Tasks : tree[t] = "none"
       /\ \A t \in Tasks : t \in manifest.worktrees /\ (t \in retained \/ tree[t] = "none")
       /\ cleanup.at # "idle" => \A t \in Tasks : t \in cleanup.todo \/ tree[t] = "none"
  /\ cleanup.at = "event" => cleanup.gone \in Trees /\ tree[cleanup.gone] = "none"
  /\ protected => proposal.status = "awaiting" /\ cleanup.at = "idle" /\ Exists(proposal.preview)

PreviewInv == Previews /\ Awaited


-----------------------------------------------------------------------------
(* The types.                                                              *)

\* The worktrees of tasks and previews are told apart, and so are their states.
LEMMA Names ==
  /\ Trees = Tasks \cup Attempts /\ Tasks \cap Attempts = {} /\ Tasks # {} /\ 0 \notin Trees
  /\ 0 \notin Attempts /\ Attempts \subseteq Nat /\ \A t \in Tasks : t \notin Attempts
BY CodingAssumption DEF Trees, Attempts

\* The types hold at the start.
LEMMA TypeInit == Init => Typed
<1> SUFFICES ASSUME Init PROVE Typed
  OBVIOUS
<1>1. NoManifest \in [worktrees : SUBSET Tasks, attempt : {0} \cup Attempts, baseline : -1..MaxCommits]
  BY CodingAssumption DEF NoManifest
<1>2. NoProposal \in [status : {"none", "awaiting", "failed", "settled"}, base : 0..MaxCommits,
                      patches : [Tasks -> Contents], preview : {0} \cup Attempts]
  BY CodingAssumption DEF NoProposal, Contents
<1>3. NoCleanup \in [at : {"idle", "wait", "remove", "event"}, todo : SUBSET Trees, gone : Trees \cup {0}]
  BY DEF NoCleanup
<1>4. /\ manifest = NoManifest /\ proposal = NoProposal /\ cleanup = NoCleanup
      /\ head \in 0..MaxCommits /\ base \in 0..MaxCommits /\ head = commits
      /\ crashes \in 0..MaxCrashes /\ edits \in 0..MaxEdits /\ commits \in 0..MaxCommits
  BY CodingAssumption DEF Init
<1>5. /\ tree \in [Trees -> TreeStates] /\ agent \in [Tasks -> {"none", "partial", "done", "silent"}]
      /\ patch \in [Tasks -> Contents] /\ registered \in [Tasks -> Contents] /\ result \in [Tasks -> Contents]
      /\ step \in [Tasks -> Steps] /\ diff \in [Tasks -> Contents]
  BY DEF Init, Contents, TreeStates, Steps
<1>6. phase \in Phases /\ phase \notin Preflight /\ protected \in BOOLEAN /\ retained \subseteq Trees /\ last = "none"
  BY DEF Init, Phases, Preflight
<1> QED
  BY <1>1, <1>2, <1>3, <1>4, <1>5, <1>6 DEF TypeOK, Typed, Numbered

\* Every step keeps the types.
LEMMA TypeStep == Typed /\ [Next]_vars => Typed'
<1> SUFFICES ASSUME Typed, [Next]_vars PROVE Typed'
  OBVIOUS
<1> USE CodingAssumption, Names DEF TypeOK, Typed, Numbered, Preflight, Preview, disk, log, tasks,
   memory, counters, Goto, Advance, Forget, Break
<1>1. CASE UNCHANGED vars
  BY <1>1 DEF vars
<1>2. CASE Run
  BY <1>2 DEF Run, Phases
<1>3. CASE Plan
  BY <1>3 DEF Plan, NoManifest, Phases
<1>4. CASE Resume
  BY <1>4 DEF Resume, Phases
<1>5. CASE Validate
  BY <1>5 DEF Validate, Phases
<1>6. CASE Restore
  BY <1>6 DEF Restore, Steps, Phases
<1>7. CASE WorkFails
  BY <1>7 DEF WorkFails, Phases
<1>8. CASE Reuse
  <2>1. protected' \in BOOLEAN
    BY <1>8 DEF Reuse
  <2>2. UNCHANGED <<manifest, tree, agent, patch, registered, result, proposal, head, last, retained, step, diff, base,
                    cleanup, crashes, edits, commits>>
    BY <1>8 DEF Reuse
  <2>3. phase' \in {"end", "fail"}
    BY <1>8 DEF Reuse
  <2> QED
    BY <2>1, <2>2, <2>3 DEF Phases
<1>9. CASE BeginAttempt
  BY <1>9 DEF BeginAttempt, Attempts, Phases
<1>10. CASE CreatePreview
  BY <1>10 DEF CreatePreview, Add, Preview, TreeStates, Phases
<1>11. CASE ShowPreview
  BY <1>11 DEF ShowPreview, Preview, Phases
<1>12. CASE SaveProposal
  BY <1>12 DEF SaveProposal, Preview, Phases
<1>13. CASE TellProposal
  BY <1>13 DEF TellProposal, Phases
<1>14. CASE Succeed
  BY <1>14 DEF Succeed, Steps, Contents, Phases
<1>15. CASE Fail
  BY <1>15 DEF Fail, Steps, Contents, Phases
<1>16. CASE Block
  BY <1>16 DEF Block, Steps, Contents, Phases
<1>17. CASE Cleanup
  BY <1>17 DEF Cleanup, NoCleanup
<1>18. CASE CleanupGranted
  BY <1>18 DEF CleanupGranted
<1>19. CASE RemoveTree
  <2>1. PICK w \in cleanup.todo :
          IF tree[w] = "torn" THEN cleanup' = NoCleanup /\ UNCHANGED tree
          ELSE /\ tree' = [tree EXCEPT ![w] = "none"]
               /\ cleanup' = [cleanup EXCEPT !.at = "event", !.gone = w]
    BY <1>19 DEF RemoveTree
  <2>2. w \in Trees /\ tree' \in [Trees -> TreeStates]
    BY <2>1 DEF TreeStates
  <2>3. CASE tree[w] = "torn"
    BY <1>19, <2>1, <2>2, <2>3 DEF RemoveTree, NoCleanup
  <2>4. CASE tree[w] # "torn"
    <3>1. cleanup' = [cleanup EXCEPT !.at = "event", !.gone = w]
      BY <2>1, <2>4
    <3> QED
      BY <1>19, <2>2, <3>1, ZenonT(40) DEF RemoveTree
  <2> QED
    BY <2>3, <2>4
<1>20. CASE TellRemoved
  BY <1>20, ZenonT(40) DEF TellRemoved
<1>21. CASE CleanupEnds
  BY <1>21 DEF CleanupEnds, NoCleanup
<1>22. CASE Crash
  BY <1>22 DEF Crash, NoCleanup, Steps, Contents, TreeStates, Phases
<1>23. CASE Edit
  BY <1>23 DEF Edit, TreeStates
<1>24. CASE Commit
  BY <1>24 DEF Commit
<1>25. CASE Decide
  BY <1>25 DEF Decide
<1>26. ASSUME NEW t \in Tasks, PrepareTree(t) PROVE Typed'
  BY <1>26 DEF PrepareTree, Add, Stop, TreeStates, Steps, Phases
<1>27. ASSUME NEW t \in Tasks, RecordTree(t) PROVE Typed'
  BY <1>27 DEF RecordTree, Steps
<1>28. ASSUME NEW t \in Tasks, AnnounceTree(t) PROVE Typed'
  BY <1>28 DEF AnnounceTree, Steps
<1>29. ASSUME NEW t \in Tasks, AgentWrites(t) PROVE Typed'
  BY <1>29 DEF AgentWrites, TreeStates
<1>30. ASSUME NEW t \in Tasks, AgentEnds(t) PROVE Typed'
  BY <1>30 DEF AgentEnds, TreeStates, Steps
<1>31. ASSUME NEW t \in Tasks, AgentFails(t) PROVE Typed'
  BY <1>31 DEF AgentFails, Steps
<1>32. ASSUME NEW t \in Tasks, Capture(t) PROVE Typed'
  BY <1>32 DEF Capture, Diff, Contents, TreeStates, Steps
<1>33. ASSUME NEW t \in Tasks, WritePatch(t) PROVE Typed'
  BY <1>33 DEF WritePatch, Steps
<1>34. ASSUME NEW t \in Tasks, Register(t) PROVE Typed'
  BY <1>34 DEF Register, Steps
<1>35. ASSUME NEW t \in Tasks, SaveResult(t) PROVE Typed'
  BY <1>35 DEF SaveResult, Steps
<1> QED
  BY <1>1, <1>2, <1>3, <1>4, <1>5, <1>6, <1>7, <1>8, <1>9, <1>10, <1>11, <1>12, <1>13, <1>14,
     <1>15, <1>16, <1>17, <1>18, <1>19, <1>20, <1>21, <1>22, <1>23, <1>24, <1>25, <1>26, <1>27,
     <1>28, <1>29, <1>30, <1>31, <1>32, <1>33, <1>34, <1>35 DEF Next

-----------------------------------------------------------------------------
(* The proposal is made of the results.                                    *)

\* No patch is there at the start.
LEMMA PatchInit == Init => PatchInv
BY SMTT(30) DEF Init, PatchInv, PatchAt, Preflight, NoProposal

\* Each step leaves results, registry and patch files in agreement.
LEMMA PatchStep ==
  ASSUME Typed, PatchInv, [Next]_vars
  PROVE  PatchInv'
<1> USE CodingAssumption, Names DEF TypeOK, Typed, Preflight, disk, log, tasks, memory, counters,
   Goto, Advance, Forget, Break, PatchInv, PatchAt
<1>1. CASE UNCHANGED vars
  BY <1>1 DEF vars
<1>2. CASE Run
  BY <1>2 DEF Run
<1>3. CASE Plan
  BY <1>3 DEF Plan
<1>4. CASE Resume
  BY <1>4 DEF Resume
<1>5. CASE Validate
  BY <1>5 DEF Validate
<1>6. CASE Restore
  BY <1>6 DEF Restore, Results
<1>7. CASE WorkFails
  BY <1>7 DEF WorkFails
<1>8. CASE Reuse
  BY <1>8 DEF Reuse, Worked
<1>9. CASE BeginAttempt
  BY <1>9 DEF BeginAttempt, Worked
<1>10. CASE CreatePreview
  BY <1>10 DEF CreatePreview
<1>11. CASE ShowPreview
  BY <1>11 DEF ShowPreview
<1>12. CASE SaveProposal
  BY <1>12 DEF SaveProposal
<1>13. CASE TellProposal
  BY <1>13 DEF TellProposal
<1>14. CASE Succeed
  BY <1>14 DEF Succeed
<1>15. CASE Fail
  BY <1>15 DEF Fail
<1>16. CASE Block
  BY <1>16 DEF Block
<1>17. CASE Cleanup
  BY <1>17 DEF Cleanup
<1>18. CASE CleanupGranted
  BY <1>18 DEF CleanupGranted
<1>19. CASE RemoveTree
  BY <1>19 DEF RemoveTree
<1>20. CASE TellRemoved
  BY <1>20 DEF TellRemoved
<1>21. CASE CleanupEnds
  BY <1>21 DEF CleanupEnds
<1>22. CASE Crash
  BY <1>22 DEF Crash
<1>23. CASE Edit
  BY <1>23 DEF Edit
<1>24. CASE Commit
  BY <1>24 DEF Commit
<1>25. CASE Decide
  BY <1>25 DEF Decide
<1>26. ASSUME NEW t \in Tasks, PrepareTree(t) PROVE PatchInv'
  BY <1>26 DEF PrepareTree, Turn, Stop
<1>27. ASSUME NEW t \in Tasks, RecordTree(t) PROVE PatchInv'
  BY <1>27 DEF RecordTree
<1>28. ASSUME NEW t \in Tasks, AnnounceTree(t) PROVE PatchInv'
  BY <1>28 DEF AnnounceTree
<1>29. ASSUME NEW t \in Tasks, AgentWrites(t) PROVE PatchInv'
  BY <1>29 DEF AgentWrites
<1>30. ASSUME NEW t \in Tasks, AgentEnds(t) PROVE PatchInv'
  BY <1>30 DEF AgentEnds, Working
<1>31. ASSUME NEW t \in Tasks, AgentFails(t) PROVE PatchInv'
  BY <1>31 DEF AgentFails, Working
<1>32. ASSUME NEW t \in Tasks, Capture(t) PROVE PatchInv'
  BY <1>32 DEF Capture, Working, Diff
<1>33. ASSUME NEW t \in Tasks, WritePatch(t) PROVE PatchInv'
  BY <1>33 DEF WritePatch, Working
<1>34. ASSUME NEW t \in Tasks, Register(t) PROVE PatchInv'
  BY <1>34 DEF Register, Working
<1>35. ASSUME NEW t \in Tasks, SaveResult(t) PROVE PatchInv'
  BY <1>35 DEF SaveResult, Working
<1> QED
  BY <1>1, <1>2, <1>3, <1>4, <1>5, <1>6, <1>7, <1>8, <1>9, <1>10, <1>11, <1>12, <1>13, <1>14,
     <1>15, <1>16, <1>17, <1>18, <1>19, <1>20, <1>21, <1>22, <1>23, <1>24, <1>25, <1>26, <1>27,
     <1>28, <1>29, <1>30, <1>31, <1>32, <1>33, <1>34, <1>35 DEF Next

\* Across crashes, edits and resumes a proposal the user may approve is made of the
\* patches that the results of the Run report, each registered and in its file.
THEOREM ProposalIsTheResultsCorrect == Spec => []ProposalIsTheResults
<1>1. Init => Typed /\ PatchInv
  BY TypeInit, PatchInit
<1>2. Typed /\ PatchInv /\ [Next]_vars => (Typed /\ PatchInv)'
  BY TypeStep, PatchStep
<1>3. Typed /\ PatchInv => ProposalIsTheResults
  <2> SUFFICES ASSUME Typed, PatchInv, proposal.status \in {"awaiting", "settled"}
               PROVE  /\ proposal.patches = result /\ proposal.patches = patch /\ proposal.patches = registered
                      /\ \A t \in Tasks : result[t] # "none"
    BY DEF ProposalIsTheResults
  <2>1. \A t \in Tasks : /\ result[t] # "none" /\ proposal.patches[t] = result[t]
                         /\ proposal.patches[t] = registered[t] /\ proposal.patches[t] = patch[t]
    BY DEF PatchInv, PatchAt
  <2>2. /\ proposal.patches \in [Tasks -> Contents] /\ result \in [Tasks -> Contents]
        /\ registered \in [Tasks -> Contents] /\ patch \in [Tasks -> Contents]
    BY DEF Typed, TypeOK
  <2> QED
    BY <2>1, <2>2
<1> QED
  BY <1>1, <1>2, <1>3, PTL DEF Spec

-----------------------------------------------------------------------------
(* The worktrees, where a cleanup and a Run are not under way together.    *)

\* No worktree is there at the start.
LEMMA WorktreeInit == Init => WorktreeInv
BY Names DEF Init, WorktreeInv, Unbegun, Apart, WorktreeAt, Standing, Preflight, NoProposal,
   NoManifest, NoCleanup


\* A workflow and a cleanup keep out of each other's way.
LEMMA ApartStep ==
  ASSUME ~CleanupOverlaps, Typed, WorktreeInv, [Next]_vars
  PROVE  (Unbegun /\ Apart)'
<1> USE CodingAssumption, Names DEF TypeOK, Typed, Preflight, Preview, Standing, disk, log, tasks,
   memory, counters, Goto, Advance, Forget, Break, NoCleanup, WorktreeInv, Unbegun, Apart
<1>1. CASE UNCHANGED vars
  BY <1>1 DEF vars
<1>2. CASE Run
  BY <1>2 DEF Run, MayStart
<1>3. CASE Plan
  <2>1. /\ last' = "started" /\ phase' \in {"trees", "fail"} /\ cleanup' = cleanup /\ step' = step
        /\ cleanup.at = "idle" /\ \A t \in Tasks : step[t] = "idle"
    BY <1>3 DEF Plan
  <2> QED
    BY <2>1
<1>4. CASE Resume
  BY <1>4 DEF Resume, MayStart
<1>5. CASE Validate
  BY <1>5 DEF Validate, Resumable, Exists, Expected
<1>6. CASE Restore
  BY <1>6 DEF Restore, Results
<1>7. CASE WorkFails
  BY <1>7 DEF WorkFails
<1>8. CASE Reuse
  BY <1>8 DEF Reuse, Worked
<1>9. CASE BeginAttempt
  BY <1>9 DEF BeginAttempt, Worked
<1>10. CASE CreatePreview
  BY <1>10 DEF CreatePreview, Add
<1>11. CASE ShowPreview
  BY <1>11 DEF ShowPreview
<1>12. CASE SaveProposal
  BY <1>12 DEF SaveProposal
<1>13. CASE TellProposal
  BY <1>13 DEF TellProposal
<1>14. CASE Succeed
  BY <1>14 DEF Succeed
<1>15. CASE Fail
  BY <1>15 DEF Fail
<1>16. CASE Block
  BY <1>16 DEF Block
<1>17. CASE Cleanup
  BY <1>17 DEF Cleanup, Terminal
<1>18. CASE CleanupGranted
  BY <1>18 DEF CleanupGranted
<1>19. CASE RemoveTree
  BY <1>19 DEF RemoveTree
<1>20. CASE TellRemoved
  BY <1>20 DEF TellRemoved
<1>21. CASE CleanupEnds
  BY <1>21 DEF CleanupEnds
<1>22. CASE Crash
  BY <1>22 DEF Crash, Adding, Turn
<1>23. CASE Edit
  BY <1>23 DEF Edit
<1>24. CASE Commit
  BY <1>24 DEF Commit
<1>25. CASE Decide
  BY <1>25 DEF Decide
<1>26. ASSUME NEW t \in Tasks, PrepareTree(t) PROVE (Unbegun /\ Apart)'
  BY <1>26 DEF PrepareTree, Turn, Stop, Expected, Add
<1>27. ASSUME NEW t \in Tasks, RecordTree(t) PROVE (Unbegun /\ Apart)'
  BY <1>27 DEF RecordTree
<1>28. ASSUME NEW t \in Tasks, AnnounceTree(t) PROVE (Unbegun /\ Apart)'
  BY <1>28 DEF AnnounceTree
<1>29. ASSUME NEW t \in Tasks, AgentWrites(t) PROVE (Unbegun /\ Apart)'
  BY <1>29 DEF AgentWrites, Working, Exists
<1>30. ASSUME NEW t \in Tasks, AgentEnds(t) PROVE (Unbegun /\ Apart)'
  BY <1>30 DEF AgentEnds, Working, Exists
<1>31. ASSUME NEW t \in Tasks, AgentFails(t) PROVE (Unbegun /\ Apart)'
  BY <1>31 DEF AgentFails, Working
<1>32. ASSUME NEW t \in Tasks, Capture(t) PROVE (Unbegun /\ Apart)'
  BY <1>32 DEF Capture, Working, Diff
<1>33. ASSUME NEW t \in Tasks, WritePatch(t) PROVE (Unbegun /\ Apart)'
  BY <1>33 DEF WritePatch, Working
<1>34. ASSUME NEW t \in Tasks, Register(t) PROVE (Unbegun /\ Apart)'
  BY <1>34 DEF Register, Working
<1>35. ASSUME NEW t \in Tasks, SaveResult(t) PROVE (Unbegun /\ Apart)'
  BY <1>35 DEF SaveResult, Working
<1> QED
  BY <1>1, <1>2, <1>3, <1>4, <1>5, <1>6, <1>7, <1>8, <1>9, <1>10, <1>11, <1>12, <1>13, <1>14,
     <1>15, <1>16, <1>17, <1>18, <1>19, <1>20, <1>21, <1>22, <1>23, <1>24, <1>25, <1>26, <1>27,
     <1>28, <1>29, <1>30, <1>31, <1>32, <1>33, <1>34, <1>35 DEF Next

\* No step takes what a task wrote from it, but a cleanup that takes the worktree.
LEMMA WorktreeStep ==
  ASSUME ~CleanupOverlaps, Typed, WorktreeInv, [Next]_vars
  PROVE  (\A u \in Tasks : WorktreeAt(u))'
<1> USE CodingAssumption, Names DEF TypeOK, Typed, Preflight, Preview, Standing, disk, log, tasks,
   memory, counters, Goto, Advance, Forget, Break, NoCleanup, WorktreeInv, Unbegun, Apart,
   WorktreeAt, Exists
<1>1. CASE UNCHANGED vars
  BY <1>1 DEF vars
<1>2. CASE Run
  BY <1>2 DEF Run, MayStart
<1>3. CASE Plan
  BY <1>3 DEF Plan, NoManifest
<1>4. CASE Resume
  BY <1>4 DEF Resume, MayStart
<1>5. CASE Validate
  BY <1>5 DEF Validate, Resumable, Exists, Expected
<1>6. CASE Restore
  BY <1>6 DEF Restore, Results
<1>7. CASE WorkFails
  BY <1>7 DEF WorkFails
<1>8. CASE Reuse
  BY <1>8 DEF Reuse, Worked
<1>9. CASE BeginAttempt
  BY <1>9 DEF BeginAttempt, Worked
<1>10. CASE CreatePreview
  BY <1>10 DEF CreatePreview, Add
<1>11. CASE ShowPreview
  BY <1>11 DEF ShowPreview
<1>12. CASE SaveProposal
  BY <1>12 DEF SaveProposal
<1>13. CASE TellProposal
  BY <1>13 DEF TellProposal
<1>14. CASE Succeed
  BY <1>14 DEF Succeed
<1>15. CASE Fail
  BY <1>15 DEF Fail
<1>16. CASE Block
  BY <1>16 DEF Block
<1>17. CASE Cleanup
  BY <1>17 DEF Cleanup, Terminal
<1>18. CASE CleanupGranted
  BY <1>18 DEF CleanupGranted
<1>19. CASE RemoveTree
  BY <1>19 DEF RemoveTree
<1>20. CASE TellRemoved
  BY <1>20 DEF TellRemoved
<1>21. CASE CleanupEnds
  BY <1>21 DEF CleanupEnds
<1>22. CASE Crash
  BY <1>22 DEF Crash, Adding, Turn
<1>23. CASE Edit
  BY <1>23 DEF Edit
<1>24. CASE Commit
  BY <1>24 DEF Commit
<1>25. CASE Decide
  BY <1>25 DEF Decide
<1>26. ASSUME NEW t \in Tasks, PrepareTree(t) PROVE (\A u \in Tasks : WorktreeAt(u))'
  BY <1>26 DEF PrepareTree, Turn, Stop, Expected, Add
<1>27. ASSUME NEW t \in Tasks, RecordTree(t) PROVE (\A u \in Tasks : WorktreeAt(u))'
  BY <1>27 DEF RecordTree
<1>28. ASSUME NEW t \in Tasks, AnnounceTree(t) PROVE (\A u \in Tasks : WorktreeAt(u))'
  BY <1>28 DEF AnnounceTree
<1>29. ASSUME NEW t \in Tasks, AgentWrites(t) PROVE (\A u \in Tasks : WorktreeAt(u))'
  <2> SUFFICES ASSUME NEW u \in Tasks PROVE WorktreeAt(u)'
    OBVIOUS
  <2>1. /\ phase = "work" /\ tree' = [tree EXCEPT ![t] = IF @ = "fresh" THEN "partial" ELSE @]
        /\ agent' = [agent EXCEPT ![t] = "partial"] /\ UNCHANGED <<phase, manifest, retained, step>>
        /\ tree[t] \in {"fresh", "partial", "done", "edited"} /\ t \in Trees
    BY <1>29 DEF AgentWrites, Working, TreeStates
  <2>2. CASE u = t
    <3>1. tree'[u] \in {"partial", "done", "edited"}
      BY <2>1, <2>2
    <3> QED
      BY <2>1, <2>2, <3>1
  <2>3. CASE u # t
    BY <2>1, <2>3
  <2> QED
    BY <2>2, <2>3
<1>30. ASSUME NEW t \in Tasks, AgentEnds(t) PROVE (\A u \in Tasks : WorktreeAt(u))'
  BY <1>30 DEF AgentEnds, Working, Exists
<1>31. ASSUME NEW t \in Tasks, AgentFails(t) PROVE (\A u \in Tasks : WorktreeAt(u))'
  BY <1>31 DEF AgentFails, Working
<1>32. ASSUME NEW t \in Tasks, Capture(t) PROVE (\A u \in Tasks : WorktreeAt(u))'
  BY <1>32 DEF Capture, Working, Diff
<1>33. ASSUME NEW t \in Tasks, WritePatch(t) PROVE (\A u \in Tasks : WorktreeAt(u))'
  BY <1>33 DEF WritePatch, Working
<1>34. ASSUME NEW t \in Tasks, Register(t) PROVE (\A u \in Tasks : WorktreeAt(u))'
  BY <1>34 DEF Register, Working
<1>35. ASSUME NEW t \in Tasks, SaveResult(t) PROVE (\A u \in Tasks : WorktreeAt(u))'
  BY <1>35 DEF SaveResult, Working
<1> QED
  BY <1>1, <1>2, <1>3, <1>4, <1>5, <1>6, <1>7, <1>8, <1>9, <1>10, <1>11, <1>12, <1>13, <1>14,
     <1>15, <1>16, <1>17, <1>18, <1>19, <1>20, <1>21, <1>22, <1>23, <1>24, <1>25, <1>26, <1>27,
     <1>28, <1>29, <1>30, <1>31, <1>32, <1>33, <1>34, <1>35 DEF Next

\* A task whose agent has written goes on in the worktree it wrote in.  The hypothesis
\* is that nobody cleans up while the Run goes on: the code reads that the Run is
\* over before it waits for the write lease, and not again.
THEOREM WorkIsKeptCorrect ==
  ASSUME ~CleanupOverlaps
  PROVE  Spec => []WorkIsKept
<1>1. Init => Typed /\ WorktreeInv
  BY TypeInit, WorktreeInit
<1>2. Typed /\ WorktreeInv /\ [Next]_vars => (Typed /\ WorktreeInv)'
  BY TypeStep, ApartStep, WorktreeStep DEF WorktreeInv
<1>3. Typed /\ WorktreeInv => WorkIsKept
  <2> SUFFICES ASSUME WorktreeInv, phase = "work", NEW t \in Tasks, agent[t] \in {"partial", "done"}
               PROVE  Diff(t) # "none"
    BY DEF WorkIsKept
  <2>1. WorktreeAt(t) /\ tree[t] \in {"partial", "done", "edited"}
    BY DEF WorktreeInv, WorktreeAt, Standing, Exists
  <2> QED
    BY <2>1 DEF Diff
<1> QED
  BY <1>1, <1>2, <1>3, PTL DEF Spec

-----------------------------------------------------------------------------
(* The previews.                                                           *)

\* No preview is there at the start.
LEMMA PreviewInit == Init => PreviewInv
BY Names, CodingAssumption DEF Init, PreviewInv, Previews, Awaited, Preflight, NoProposal,
   NoManifest, NoCleanup, Attempts, Trees

\* Each attempt has a preview of its own.
LEMMA PreviewsStep ==
  ASSUME ~CleanupOverlaps, Typed, WorktreeInv, PreviewInv, [Next]_vars
  PROVE  Previews'
<1> USE CodingAssumption, Names DEF Attempts, TypeOK, Typed, Numbered, Preflight, Preview, disk,
   log, tasks, memory, counters, Goto, Advance, Forget, Break, NoCleanup, NoProposal, NoManifest,
   WorktreeInv, Unbegun, Apart, PreviewInv, Previews, Exists
<1>1. CASE UNCHANGED vars
  BY <1>1 DEF vars
<1>2. CASE Run
  BY <1>2 DEF Run, MayStart
<1>3. CASE Plan
  BY <1>3 DEF Plan, NoManifest
<1>4. CASE Resume
  BY <1>4 DEF Resume, MayStart
<1>5. CASE Validate
  BY <1>5 DEF Validate, Resumable, Exists, Expected
<1>6. CASE Restore
  BY <1>6 DEF Restore, Results
<1>7. CASE WorkFails
  BY <1>7 DEF WorkFails
<1>8. CASE Reuse
  BY <1>8 DEF Reuse, Worked
<1>9. CASE BeginAttempt
  BY <1>9 DEF BeginAttempt, Worked
<1>10. CASE CreatePreview
  BY <1>10 DEF CreatePreview, Add
<1>11. CASE ShowPreview
  BY <1>11 DEF ShowPreview
<1>12. CASE SaveProposal
  BY <1>12 DEF SaveProposal
<1>13. CASE TellProposal
  BY <1>13 DEF TellProposal
<1>14. CASE Succeed
  BY <1>14 DEF Succeed
<1>15. CASE Fail
  BY <1>15 DEF Fail
<1>16. CASE Block
  BY <1>16 DEF Block
<1>17. CASE Cleanup
  BY <1>17 DEF Cleanup, Terminal
<1>18. CASE CleanupGranted
  BY <1>18 DEF CleanupGranted
<1>19. CASE RemoveTree
  BY <1>19 DEF RemoveTree
<1>20. CASE TellRemoved
  BY <1>20 DEF TellRemoved
<1>21. CASE CleanupEnds
  BY <1>21 DEF CleanupEnds
<1>22. CASE Crash
  BY <1>22 DEF Crash, Adding, Turn
<1>23. CASE Edit
  BY <1>23 DEF Edit
<1>24. CASE Commit
  BY <1>24 DEF Commit
<1>25. CASE Decide
  BY <1>25 DEF Decide
<1>26. ASSUME NEW t \in Tasks, PrepareTree(t) PROVE Previews'
  BY <1>26 DEF PrepareTree, Turn, Stop, Expected, Add
<1>27. ASSUME NEW t \in Tasks, RecordTree(t) PROVE Previews'
  BY <1>27 DEF RecordTree
<1>28. ASSUME NEW t \in Tasks, AnnounceTree(t) PROVE Previews'
  BY <1>28 DEF AnnounceTree
<1>29. ASSUME NEW t \in Tasks, AgentWrites(t) PROVE Previews'
  BY <1>29 DEF AgentWrites, Working, Exists
<1>30. ASSUME NEW t \in Tasks, AgentEnds(t) PROVE Previews'
  BY <1>30 DEF AgentEnds, Working, Exists
<1>31. ASSUME NEW t \in Tasks, AgentFails(t) PROVE Previews'
  BY <1>31 DEF AgentFails, Working
<1>32. ASSUME NEW t \in Tasks, Capture(t) PROVE Previews'
  BY <1>32 DEF Capture, Working, Diff
<1>33. ASSUME NEW t \in Tasks, WritePatch(t) PROVE Previews'
  BY <1>33 DEF WritePatch, Working
<1>34. ASSUME NEW t \in Tasks, Register(t) PROVE Previews'
  BY <1>34 DEF Register, Working
<1>35. ASSUME NEW t \in Tasks, SaveResult(t) PROVE Previews'
  BY <1>35 DEF SaveResult, Working
<1> QED
  BY <1>1, <1>2, <1>3, <1>4, <1>5, <1>6, <1>7, <1>8, <1>9, <1>10, <1>11, <1>12, <1>13, <1>14,
     <1>15, <1>16, <1>17, <1>18, <1>19, <1>20, <1>21, <1>22, <1>23, <1>24, <1>25, <1>26, <1>27,
     <1>28, <1>29, <1>30, <1>31, <1>32, <1>33, <1>34, <1>35 DEF Next

\* The preview of a proposal that waits stands, or a resume cannot get to it.
LEMMA AwaitedStep ==
  ASSUME ~CleanupOverlaps, Typed, WorktreeInv, PreviewInv, [Next]_vars
  PROVE  Awaited'
<1> USE CodingAssumption, Names DEF TypeOK, Typed, Preflight, Preview, Standing, disk, log, tasks,
   memory, counters, Goto, Advance, Forget, Break, NoCleanup, NoProposal, Numbered, WorktreeInv,
   Unbegun, Apart, WorktreeAt, PreviewInv, Previews, Awaited, Exists
<1>1. CASE UNCHANGED vars
  BY <1>1 DEF vars
<1>2. CASE Run
  BY <1>2 DEF Run, MayStart
<1>3. CASE Plan
  BY <1>3 DEF Plan, NoManifest
<1>4. CASE Resume
  BY <1>4 DEF Resume, MayStart
<1>5. CASE Validate
  BY <1>5 DEF Validate, Resumable, Exists, Expected
<1>6. CASE Restore
  BY <1>6 DEF Restore, Results
<1>7. CASE WorkFails
  BY <1>7 DEF WorkFails
<1>8. CASE Reuse
  BY <1>8 DEF Reuse, Worked
<1>9. CASE BeginAttempt
  BY <1>9 DEF BeginAttempt, Worked
<1>10. CASE CreatePreview
  BY <1>10 DEF CreatePreview, Add
<1>11. CASE ShowPreview
  BY <1>11 DEF ShowPreview
<1>12. CASE SaveProposal
  BY <1>12 DEF SaveProposal
<1>13. CASE TellProposal
  BY <1>13 DEF TellProposal
<1>14. CASE Succeed
  BY <1>14 DEF Succeed
<1>15. CASE Fail
  BY <1>15 DEF Fail
<1>16. CASE Block
  BY <1>16 DEF Block
<1>17. CASE Cleanup
  BY <1>17 DEF Cleanup, Terminal
<1>18. CASE CleanupGranted
  BY <1>18 DEF CleanupGranted
<1>19. CASE RemoveTree
  <2>1. PICK w \in cleanup.todo :
          /\ w \in Attempts => cleanup.todo \subseteq Attempts
          /\ IF tree[w] = "torn" THEN cleanup' = NoCleanup /\ UNCHANGED tree
             ELSE /\ tree' = [tree EXCEPT ![w] = "none"]
                  /\ cleanup' = [cleanup EXCEPT !.at = "event", !.gone = w]
    BY <1>19 DEF RemoveTree
  <2>2. /\ UNCHANGED <<manifest, proposal, retained, protected, phase, head>> /\ cleanup.at = "remove" /\ ~protected
        /\ w \in Trees /\ cleanup.todo \subseteq Trees
    BY <1>19 DEF RemoveTree
  <2>3. CASE tree[w] = "torn"
    BY <2>1, <2>2, <2>3
  <2>4. CASE tree[w] # "torn"
    <3>1. tree' = [tree EXCEPT ![w] = "none"] /\ cleanup' = [cleanup EXCEPT !.at = "event", !.gone = w]
      BY <2>1, <2>4
    <3>2. cleanup'.at = "event" /\ cleanup'.gone = w /\ cleanup'.todo = cleanup.todo
      BY <3>1
    <3>3. tree'[w] = "none" /\ \A x \in Trees : tree[x] = "none" => tree'[x] = "none"
      BY <2>2, <3>1
    <3>4. \A t \in Tasks : t \in Trees
      OBVIOUS
    <3>5. ASSUME proposal.status = "awaiting" PROVE Exists(proposal.preview)' \/ \E t \in Tasks : tree'[t] = "none"
      <4>1. CASE w = proposal.preview
        <5>1. \A t \in Tasks : t \notin cleanup.todo
          BY <2>1, <3>5, <4>1
        <5>2. \A t \in Tasks : tree[t] = "none"
          BY <2>2, <3>5, <5>1
        <5> QED
          BY <3>3, <3>4, <5>2
      <4>2. CASE w # proposal.preview
        <5>1. proposal.preview \in Trees /\ tree'[proposal.preview] = tree[proposal.preview] /\ UNCHANGED proposal
          BY <2>2, <3>1, <3>5, <4>2
        <5> QED
          BY <3>3, <3>4, <3>5, <5>1
      <4> QED
        BY <4>1, <4>2
    <3> QED
      BY <2>2, <3>2, <3>3, <3>4, <3>5
  <2> QED
    BY <2>3, <2>4
<1>20. CASE TellRemoved
  BY <1>20 DEF TellRemoved
<1>21. CASE CleanupEnds
  BY <1>21 DEF CleanupEnds
<1>22. CASE Crash
  BY <1>22 DEF Crash, Adding, Turn
<1>23. CASE Edit
  BY <1>23 DEF Edit
<1>24. CASE Commit
  BY <1>24 DEF Commit
<1>25. CASE Decide
  BY <1>25 DEF Decide
<1>26. ASSUME NEW t \in Tasks, PrepareTree(t) PROVE Awaited'
  BY <1>26 DEF PrepareTree, Turn, Stop, Expected, Add
<1>27. ASSUME NEW t \in Tasks, RecordTree(t) PROVE Awaited'
  BY <1>27 DEF RecordTree
<1>28. ASSUME NEW t \in Tasks, AnnounceTree(t) PROVE Awaited'
  BY <1>28 DEF AnnounceTree
<1>29. ASSUME NEW t \in Tasks, AgentWrites(t) PROVE Awaited'
  BY <1>29 DEF AgentWrites, Working, Exists
<1>30. ASSUME NEW t \in Tasks, AgentEnds(t) PROVE Awaited'
  BY <1>30 DEF AgentEnds, Working, Exists
<1>31. ASSUME NEW t \in Tasks, AgentFails(t) PROVE Awaited'
  BY <1>31 DEF AgentFails, Working
<1>32. ASSUME NEW t \in Tasks, Capture(t) PROVE Awaited'
  BY <1>32 DEF Capture, Working, Diff
<1>33. ASSUME NEW t \in Tasks, WritePatch(t) PROVE Awaited'
  BY <1>33 DEF WritePatch, Working
<1>34. ASSUME NEW t \in Tasks, Register(t) PROVE Awaited'
  BY <1>34 DEF Register, Working
<1>35. ASSUME NEW t \in Tasks, SaveResult(t) PROVE Awaited'
  BY <1>35 DEF SaveResult, Working
<1> QED
  BY <1>1, <1>2, <1>3, <1>4, <1>5, <1>6, <1>7, <1>8, <1>9, <1>10, <1>11, <1>12, <1>13, <1>14,
     <1>15, <1>16, <1>17, <1>18, <1>19, <1>20, <1>21, <1>22, <1>23, <1>24, <1>25, <1>26, <1>27,
     <1>28, <1>29, <1>30, <1>31, <1>32, <1>33, <1>34, <1>35 DEF Next

\* A preview worktree is there as long as the user may look at it, whatever a cleanup
\* had begun to remove before the process stopped, and in the way of no later one.
\* The hypothesis is that of WorkIsKeptCorrect.
THEOREM PreviewsStandCorrect ==
  ASSUME ~CleanupOverlaps
  PROVE  Spec => []PreviewsStand
<1>1. Init => Typed /\ WorktreeInv /\ PreviewInv
  BY TypeInit, WorktreeInit, PreviewInit
<1>2. Typed /\ WorktreeInv /\ PreviewInv /\ [Next]_vars => (Typed /\ WorktreeInv /\ PreviewInv)'
  <2> SUFFICES ASSUME Typed, WorktreeInv, PreviewInv, [Next]_vars
               PROVE  (Typed /\ WorktreeInv /\ PreviewInv)'
    OBVIOUS
  <2>1. Typed'
    BY TypeStep
  <2>2. WorktreeInv'
    BY ApartStep, WorktreeStep DEF WorktreeInv
  <2>3. PreviewInv'
    BY PreviewsStep, AwaitedStep DEF PreviewInv
  <2> QED
    BY <2>1, <2>2, <2>3
<1>3. PreviewInv => PreviewsStand
  BY DEF PreviewInv, Previews, Awaited, PreviewsStand, AwaitedPreviewStands, PreviewsAreFresh
<1> QED
  BY <1>1, <1>2, <1>3, PTL DEF Spec

\* The state stays within its types, whatever is crashed, edited or cleaned up.
THEOREM TypeCorrect == Spec => []TypeOK
<1>1. Typed => TypeOK
  BY DEF Typed
<1> QED
  BY <1>1, TypeInit, TypeStep, PTL DEF Spec
=============================================================================
