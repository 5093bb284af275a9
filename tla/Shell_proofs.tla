---------------------------- MODULE Shell_proofs ----------------------------
(***************************************************************************)
(* Theorems about the parts of the desktop shell: the update of the        *)
(* application, public reports, the versions of artifacts, the workbench,  *)
(* and the comparison of two versions of a text.                           *)
(***************************************************************************)
EXTENDS AppUpdates, PublicReports, ArtifactThreads, Workbench, TextDiff,
        SequenceTheorems, FiniteSetTheorems, WellFoundedInduction, TLAPS

-----------------------------------------------------------------------------
(* Updates: the window shows the coordinator's view, and a version that is *)
(* shown as downloaded is one the updater has staged.                      *)

UpdateInv ==
  /\ view \in Views /\ shown = view
  /\ view.status = "downloaded" => updater \in {"staged", "quitting"}

LEMMA InstallStep ==
  ASSUME UpdateInv, QuitAndInstallNow
  PROVE  /\ view' \in Views /\ (view'.status = "downloaded" => updater' \in {"staged", "quitting"})
         /\ updater' = "quitting" /\ updater # "quitting" =>
              view.status = "downloaded" /\ updater = "staged" /\ active = 0
<1>1. CASE view.status # "downloaded" /\ UNCHANGED <<view, updater>>
  BY <1>1 DEF UpdateInv
<1>2. CASE view.status = "downloaded" /\ view' = [view EXCEPT !.blocked = TRUE] /\ UNCHANGED updater
  BY <1>2 DEF UpdateInv, Views
<1>3. CASE /\ view.status = "downloaded" /\ Idle
           /\ view' = [view EXCEPT !.status = "installing", !.blocked = FALSE, !.error = FALSE]
           /\ updater' = "quitting"
  BY <1>3 DEF UpdateInv, Views, Statuses, Idle
<1> QED
  BY <1>1, <1>2, <1>3 DEF QuitAndInstallNow

LEMMA UpdateStep ==
  ASSUME UpdateInv, [UpdateNext]_updateVars
  PROVE  /\ UpdateInv'
         /\ updater' = "quitting" /\ updater # "quitting" =>
              /\ updater = "staged" /\ asked = "confirm"
              /\ shown.status = "downloaded" /\ active = 0
<1>1. CASE UNCHANGED <<view, shown, updater>>
  BY <1>1 DEF UpdateInv
<1>2. CASE CheckForUpdates
  <2>1. CASE shown' = view /\ UNCHANGED <<view, updater>>
    BY <2>1 DEF UpdateInv
  <2>2. CASE /\ Publish([view EXCEPT !.status = "checking", !.since = FALSE, !.error = FALSE, !.blocked = FALSE])
             /\ updater' = "searching"
    BY <2>2 DEF UpdateInv, Views, Statuses, Publish
  <2> QED
    BY <1>2, <2>1, <2>2 DEF CheckForUpdates
<1>3. CASE CheckReturns
  <2>1. CASE shown' = view' /\ view' = view /\ UNCHANGED updater
    BY <2>1 DEF UpdateInv
  <2>2. CASE shown' = view' /\ updater' = "idle" /\ view' = [view EXCEPT !.status = "error", !.error = TRUE]
    BY <2>2 DEF UpdateInv, Views, Statuses
  <2> QED
    BY <1>3, <2>1, <2>2 DEF CheckReturns, Reply
<1>4. CASE QuitAndInstall
  <2>1. CASE ~Idle /\ QuitAndInstallNow /\ shown' = view'
    BY <2>1, InstallStep DEF UpdateInv, Idle
  <2> QED
    BY <1>1, <1>4, <2>1 DEF QuitAndInstall, Reply
<1>5. CASE Confirm
  <2>1. asked = "confirm" /\ shown' = view' /\ shown = view
    BY <1>5 DEF Confirm, Reply, UpdateInv
  <2>2. CASE QuitAndInstallNow
    BY <2>1, <2>2, InstallStep DEF UpdateInv
  <2>3. CASE UNCHANGED <<view, updater>>
    BY <2>1, <2>3 DEF UpdateInv
  <2> QED
    BY <1>5, <2>2, <2>3 DEF Confirm
<1>6. CASE UpdaterEvent
  <2>1. CASE updater' = "downloading" /\ Handle("available")
    BY <2>1 DEF UpdateInv, Views, Statuses, Handle, Publish
  <2>2. CASE updater' = "idle" /\ Handle("not_available")
    BY <2>2 DEF UpdateInv, Views, Statuses, Handle, Publish
  <2>3. CASE updater' = "staged" /\ Handle("downloaded")
    BY <2>3 DEF UpdateInv, Views, Statuses, Handle, Publish
  <2>4. CASE updater' = "idle" /\ Handle("error")
    BY <2>4 DEF UpdateInv, Views, Statuses, Handle, Publish
  <2> QED
    BY <1>6, <2>1, <2>2, <2>3, <2>4 DEF UpdaterEvent
<1> QED
  BY <1>1, <1>2, <1>3, <1>4, <1>5, <1>6
     DEF UpdateNext, updateVars, StartClicked, RunLaunches, RunEnds

\* Whatever checks, dialogs, events and starting Runs overlap, the application only
\* quits to install a version that was downloaded and offered, once the user confirmed
\* and with no Run launching or active.
THEOREM InstallsOnlyWhenIdleCorrect == UpdateSpec => InstallsOnlyWhenIdle
<1>1. UpdateInit => UpdateInv
  <2>1. \A v \in InitialViews : v \in Views
    <3> DEFINE Start(s, c, e) ==
                 [status |-> s, configured |-> c, blocked |-> FALSE, error |-> e, since |-> FALSE]
    <3>1. \A s \in Statuses, c, e \in BOOLEAN : Start(s, c, e) \in Views
      BY DEF Views
    <3>2. InitialViews =
            {Start("disabled", FALSE, FALSE), Start("error", FALSE, TRUE), Start("ready", TRUE, FALSE)}
      BY DEF InitialViews
    <3>3. {"disabled", "error", "ready"} \subseteq Statuses
      BY DEF Statuses
    <3> HIDE DEF Start
    <3> QED
      BY <3>1, <3>2, <3>3
  <2>2. \A v \in InitialViews : v.status # "downloaded"
    BY DEF InitialViews
  <2> QED
    BY <2>1, <2>2 DEF UpdateInit, UpdateInv
<1>2. UpdateInv /\ [UpdateNext]_updateVars => UpdateInv'
  BY UpdateStep
<1>3. UpdateInv /\ [UpdateNext]_updateVars =>
        [updater' = "quitting" /\ updater # "quitting" =>
          /\ updater = "staged" /\ asked = "confirm"
          /\ shown.status = "downloaded" /\ active = 0]_updateVars
  BY UpdateStep
<1> QED
  BY <1>1, <1>2, <1>3, PTL DEF UpdateSpec, InstallsOnlyWhenIdle

-----------------------------------------------------------------------------
(* Versions of an artifact: a Run that revises one was begun from what the *)
(* user saw, which is what its contract and its agents have.               *)

Revisions == [parent : RunIds, sha : Contents, thread : ThreadIds, revision : Nat]
VersionViews == [revision : Nat, run : RunIds, verified : BOOLEAN]

FilesTyped ==
  /\ launched \in RunIds /\ disk \in [RunIds -> SUBSET Contents] /\ registered \in [RunIds -> SUBSET Contents]
  /\ copy \in [RunIds -> SUBSET Contents] /\ worked \in [RunIds -> SUBSET Contents]
  /\ seen \in [RunIds -> SUBSET Contents] /\ contract \in [RunIds -> SUBSET Revisions]

ShownTyped ==
  /\ at \in RunIds /\ shownThread \subseteq VersionViews
  /\ \A p \in shownPreview : p.content \in Contents

\* A Run revises nothing, or what the user saw.
RevisesAt(r) ==
  \/ contract[r] = {} /\ copy[r] = {} /\ worked[r] = {} /\ seen[r] = {}
  \/ \E c \in Revisions : contract[r] = {c} /\ seen[r] = {c.sha} /\ worked[r] = {c.sha}

\* A continuation names what the user saw, and keeps doing so while the Run starts.
Kept(d) == d.parent \in RunIds /\ d.sha \in Contents /\ d.saw = d.sha

ContinuationsKept ==
  /\ \A d \in continuation : Kept(d)
  /\ \A q \in pending :
       /\ DOMAIN q = {"id", "kind", "run", "from", "got"} /\ q.run \in RunIds /\ q.got \subseteq Contents
       /\ \A d \in q.from : Kept(d)

DiffsAreSeen == \A d \in shownDiff : seen[d.run] = {d.before}

ThreadInv ==
  FilesTyped /\ ShownTyped /\ (\A r \in RunIds : RevisesAt(r)) /\ ContinuationsKept /\ DiffsAreSeen

\* What the window shows of a thread names Runs, and a diff starts from what was seen.
LEMMA ThreadViewIsTyped ==
  ASSUME FilesTyped, NEW r \in RunIds, NEW sha
  PROVE  ThreadView(r, sha) \subseteq VersionViews
<1> DEFINE threads == ThreadOf(r, sha)
           Members == {k \in Started : \E c \in contract[k] : c.thread \in threads}
           Contracts == UNION {contract[k] : k \in Members}
           Roots == {[revision |-> IF c.revision > 1 THEN c.revision - 1 ELSE 1,
                      run |-> c.parent,
                      verified |-> ReadVerified(c.parent) = {c.sha}] :
                        c \in {c \in Contracts : c.parent \notin Members}}
           Own == UNION {{[revision |-> c.revision, run |-> k, verified |-> ReadVerified(k) # {}] :
                             c \in contract[k]} : k \in Members}
<1>1. ThreadView(r, sha) = IF Members = {} THEN {[revision |-> 1, run |-> r, verified |-> TRUE]} ELSE Roots \union Own
  BY DEF ThreadView
<1>2. \A k \in Started : k \in RunIds
  BY ThreadBounds DEF FilesTyped, Started, RunIds
<1>3. \A k \in Members : k \in RunIds /\ contract[k] \subseteq Revisions
  BY <1>2 DEF FilesTyped
<1>4. Contracts \subseteq Revisions
  BY <1>3
<1>5. \A c \in Revisions : /\ c.parent \in RunIds /\ c.revision \in Nat
                           /\ (IF c.revision > 1 THEN c.revision - 1 ELSE 1) \in Nat
  BY DEF Revisions
<1> HIDE DEF Members, Contracts
<1>6. Roots \subseteq VersionViews
  <2> SUFFICES ASSUME NEW c \in Contracts
               PROVE  [revision |-> IF c.revision > 1 THEN c.revision - 1 ELSE 1, run |-> c.parent,
                       verified |-> ReadVerified(c.parent) = {c.sha}] \in VersionViews
    OBVIOUS
  <2>1. c.parent \in RunIds /\ (IF c.revision > 1 THEN c.revision - 1 ELSE 1) \in Nat
    BY <1>4, <1>5
  <2>2. (ReadVerified(c.parent) = {c.sha}) \in BOOLEAN
    OBVIOUS
  <2> QED
    BY <2>1, <2>2, Zenon DEF VersionViews
<1>7. Own \subseteq VersionViews
  <2> SUFFICES ASSUME NEW k \in Members, NEW c \in contract[k]
               PROVE  [revision |-> c.revision, run |-> k, verified |-> ReadVerified(k) # {}] \in VersionViews
    OBVIOUS
  <2>1. k \in RunIds /\ c.revision \in Nat
    BY <1>3, <1>5
  <2>2. (ReadVerified(k) # {}) \in BOOLEAN
    OBVIOUS
  <2> QED
    BY <2>1, <2>2, Zenon DEF VersionViews
<1>8. [revision |-> 1, run |-> r, verified |-> TRUE] \in VersionViews
  BY DEF VersionViews
<1> QED
  BY <1>1, <1>6, <1>7, <1>8

LEMMA DiffIsSeen ==
  ASSUME ThreadInv, NEW r \in RunIds, NEW d \in Diff(r)
  PROVE  seen[d.run] = {d.before}
<1>1. \E c \in contract[r] : d.run = r /\ d.before = c.sha
  BY DEF Diff
<1> QED
  BY <1>1 DEF ThreadInv, RevisesAt

\* What the steps of the window do to all this.
LEMMA ShownStep ==
  ASSUME ThreadInv, UNCHANGED runState,
         at' \in RunIds, shownThread' \subseteq VersionViews, \A p \in shownPreview' : p.content \in Contents,
         ContinuationsKept', shownDiff' = {} \/ UNCHANGED shownDiff
  PROVE  ThreadInv'
BY DEF ThreadInv, runState, FilesTyped, ShownTyped, RevisesAt, DiffsAreSeen

LEMMA AskStep ==
  ASSUME ContinuationsKept, NEW kind, NEW r \in RunIds, NEW from, \A d \in from : Kept(d),
         AskFor(kind, r, from), UNCHANGED continuation
  PROVE  ContinuationsKept'
BY DEF ContinuationsKept, AskFor, Kept

LEMMA WindowStep ==
  ASSUME ThreadInv,
         \/ SelectVersion \/ OpenArtifact \/ ViewParent \/ LoadDiff \/ ContinueFromArtifact
         \/ DropContinuation \/ StartRevision \/ RestartRevision
  PROVE  ThreadInv'
<1> USE DEF ThreadInv, ShownTyped
<1>1. CASE SelectVersion
  <2>1. at' \in RunIds
    BY <1>1, ThreadBounds DEF SelectVersion, Started, FilesTyped, RunIds
  <2>2. shownThread' = {} /\ shownPreview' = {} /\ shownDiff' = {} /\ UNCHANGED runState
        /\ UNCHANGED <<continuation, pending>>
    BY <1>1 DEF SelectVersion, ResetShown
  <2>3. ContinuationsKept'
    BY <2>2 DEF ContinuationsKept, Kept
  <2> QED
    BY <2>1, <2>2, <2>3, ShownStep
<1>2. CASE OpenArtifact
  <2>1. PICK r \in {at} \union {v.run : v \in shownThread} :
          /\ AskFor("preview", r, {}) /\ at' = r
          /\ IF r = at THEN shownDiff' = {} /\ UNCHANGED <<shownPreview, shownThread>> ELSE ResetShown
    BY <1>2 DEF OpenArtifact
  <2>2. r \in RunIds
    BY DEF VersionViews
  <2>3. UNCHANGED <<runState, continuation>>
    BY <1>2 DEF OpenArtifact
  <2>4. ContinuationsKept'
    BY <2>1, <2>2, <2>3, AskStep
  <2>5. shownThread' \subseteq VersionViews /\ shownDiff' = {} /\ \A p \in shownPreview' : p.content \in Contents
    BY <2>1 DEF ResetShown
  <2> QED
    BY <2>1, <2>2, <2>3, <2>4, <2>5, ShownStep
<1>3. CASE ViewParent
  <2>1. PICK c \in contract[at] : AskFor("preview", c.parent, {}) /\ at' = c.parent
    BY <1>3 DEF ViewParent
  <2>2. c.parent \in RunIds
    BY DEF FilesTyped, Revisions
  <2>3. UNCHANGED <<runState, continuation>> /\ shownThread' = {} /\ shownPreview' = {} /\ shownDiff' = {}
    BY <1>3 DEF ViewParent, ResetShown
  <2>4. ContinuationsKept'
    BY <2>1, <2>2, <2>3, AskStep
  <2> QED
    BY <2>1, <2>2, <2>3, <2>4, ShownStep
<1>4. CASE LoadDiff
  <2>1. AskFor("diff", at, {}) /\ UNCHANGED <<runState, shownState>>
    BY <1>4 DEF LoadDiff
  <2>2. ContinuationsKept'
    BY <2>1, AskStep DEF shownState
  <2> QED
    BY <2>1, <2>2, ShownStep DEF shownState
<1>5. CASE ContinueFromArtifact
  <2>1. /\ continuation' = {[parent |-> at, sha |-> p.content, saw |-> p.content] : p \in shownPreview}
        /\ UNCHANGED <<runState, at, shownPreview, shownThread, shownDiff, pending>>
    BY <1>5 DEF ContinueFromArtifact
  <2>2. ContinuationsKept'
    BY <2>1 DEF ContinuationsKept, Kept
  <2> QED
    BY <2>1, <2>2, ShownStep
<1>6. CASE DropContinuation
  <2>1. continuation' = {} /\ UNCHANGED <<runState, at, shownPreview, shownThread, shownDiff, pending>>
    BY <1>6 DEF DropContinuation
  <2>2. ContinuationsKept'
    BY <2>1 DEF ContinuationsKept, Kept
  <2> QED
    BY <2>1, <2>2, ShownStep
<1>7. CASE StartRevision
  <2>1. PICK d \in continuation : AskFor("start", d.parent, {d})
    BY <1>7 DEF StartRevision
  <2>2. Kept(d) /\ d.parent \in RunIds /\ UNCHANGED <<runState, shownState>>
    BY <1>7 DEF StartRevision, ContinuationsKept, Kept
  <2>3. ContinuationsKept'
    BY <2>1, <2>2, AskStep DEF shownState
  <2> QED
    BY <2>2, <2>3, ShownStep DEF shownState
<1>8. CASE RestartRevision
  <2>1. AskFor("restart", at, {}) /\ UNCHANGED <<runState, shownState>>
    BY <1>8 DEF RestartRevision
  <2>2. ContinuationsKept'
    BY <2>1, AskStep DEF shownState
  <2> QED
    BY <2>1, <2>2, ShownStep DEF shownState
<1> QED
  BY <1>1, <1>2, <1>3, <1>4, <1>5, <1>6, <1>7, <1>8

\* A Run that starts revises what was seen.
LEMMA LaunchStep ==
  ASSUME ThreadInv, launched < RunCount, ContinuationsKept',
         NEW revision \in Revisions, Launch(launched + 1, revision, revision.sha, {revision.sha})
  PROVE  ThreadInv'
<1> DEFINE new == launched + 1
<1>1. new \in RunIds
  BY ThreadBounds DEF ThreadInv, FilesTyped, RunIds
<1>2. revision.sha \in Contents
  BY DEF Revisions
<1>3. /\ contract' = [contract EXCEPT ![new] = {revision}]
      /\ copy' = [copy EXCEPT ![new] = {revision.sha}]
      /\ worked' = [worked EXCEPT ![new] = {revision.sha}]
      /\ seen' = [seen EXCEPT ![new] = {revision.sha}]
      /\ launched' = new /\ at' = new /\ shownPreview' = {} /\ shownThread' = {} /\ shownDiff' = {}
      /\ UNCHANGED <<disk, registered>>
  BY DEF Launch, ResetShown
<1> HIDE DEF new
<1>4. FilesTyped' /\ ShownTyped'
  BY <1>1, <1>2, <1>3 DEF ThreadInv, FilesTyped, ShownTyped
<1>5. ASSUME NEW r \in RunIds PROVE RevisesAt(r)'
  <2>1. CASE r = new
    BY <1>1, <1>3, <2>1 DEF ThreadInv, FilesTyped, RevisesAt
  <2>2. CASE r # new
    <3>1. /\ contract'[r] = contract[r] /\ copy'[r] = copy[r] /\ worked'[r] = worked[r] /\ seen'[r] = seen[r]
      BY <1>1, <1>3, <2>2 DEF ThreadInv, FilesTyped
    <3> QED
      BY <3>1 DEF ThreadInv, RevisesAt
  <2> QED
    BY <2>1, <2>2
<1> QED
  BY <1>3, <1>4, <1>5 DEF ThreadInv, DiffsAreSeen

LEMMA RevisionIsTyped ==
  ASSUME FilesTyped, NEW parent \in RunIds, NEW sha \in Contents
  PROVE  Revision(parent, sha) \in Revisions /\ Revision(parent, sha).sha = sha
<1>1. CASE contract[parent] = {}
  BY <1>1 DEF Revision, Revisions, ThreadId, ThreadIds
<1>2. CASE contract[parent] # {}
  <2> DEFINE p == CHOOSE p \in contract[parent] : TRUE
  <2>1. p \in Revisions
    BY <1>2 DEF FilesTyped
  <2>2. Revision(parent, sha) = [parent |-> parent, sha |-> sha, thread |-> p.thread, revision |-> p.revision + 1]
    BY <1>2 DEF Revision
  <2> HIDE DEF p
  <2> QED
    BY <2>1, <2>2 DEF Revisions
<1> QED
  BY <1>1, <1>2

LEMMA AnswerStep ==
  ASSUME ThreadInv, ReadPreview \/ ShowPreview \/ ShowDiff \/ RevisionStarted \/ RevisionRestarted
  PROVE  ThreadInv'
<1> USE DEF ThreadInv, ShownTyped
<1>0. \A r \in RunIds : ReadVerified(r) \subseteq Contents
  BY DEF ReadVerified, FilesTyped
<1>1. CASE ReadPreview
  <2>1. PICK q \in pending :
          pending' = (pending \ {q}) \union {[q EXCEPT !.got = {c}] : c \in ReadVerified(q.run)}
    BY <1>1 DEF ReadPreview
  <2>2. UNCHANGED <<runState, shownState>>
    BY <1>1 DEF ReadPreview
  <2>3. ASSUME NEW c \in ReadVerified(q.run)
        PROVE  LET e == [q EXCEPT !.got = {c}] IN e.run \in RunIds /\ e.got \subseteq Contents /\ \A d \in e.from : Kept(d)
    BY <1>0, <2>3 DEF ContinuationsKept
  <2>4. ContinuationsKept'
    BY <2>1, <2>2, <2>3 DEF ContinuationsKept, shownState, Kept
  <2> QED
    BY <2>2, <2>4, ShownStep DEF shownState
<1>2. ASSUME NEW q \in pending, Settled(q), UNCHANGED continuation \/ continuation' = {}
      PROVE  ContinuationsKept'
  BY <1>2 DEF Settled, ContinuationsKept, Kept
<1>3. CASE ShowPreview
  <2>0. PICK q \in pending : \E c \in q.got :
          /\ Settled(q)
          /\ IF ReadVerified(q.run) = {} THEN UNCHANGED <<shownPreview, shownThread>>
             ELSE /\ shownPreview' = {[run |-> q.run, content |-> c]}
                  /\ shownThread' = UNION {ThreadView(q.run, now) : now \in ReadVerified(q.run)}
    BY <1>3 DEF ShowPreview
  <2>1. PICK c \in q.got :
          /\ Settled(q)
          /\ IF ReadVerified(q.run) = {} THEN UNCHANGED <<shownPreview, shownThread>>
             ELSE /\ shownPreview' = {[run |-> q.run, content |-> c]}
                  /\ shownThread' = UNION {ThreadView(q.run, now) : now \in ReadVerified(q.run)}
    BY <2>0
  <2>2. UNCHANGED <<runState, at, shownDiff, continuation>>
    BY <1>3 DEF ShowPreview
  <2>3. q.run \in RunIds /\ c \in Contents
    BY DEF ContinuationsKept
  <2>4. ContinuationsKept'
    BY <1>2, <2>1, <2>2
  <2>5. shownThread' \subseteq VersionViews
    BY <2>1, <2>3, ThreadViewIsTyped
  <2>6. \A p \in shownPreview' : p.content \in Contents
    BY <2>1, <2>3
  <2> QED
    BY <2>2, <2>4, <2>5, <2>6, ShownStep
<1>4. CASE ShowDiff
  <2>1. PICK q \in pending : Settled(q) /\ shownDiff' = IF Diff(q.run) = {} THEN shownDiff ELSE Diff(q.run)
    BY <1>4 DEF ShowDiff
  <2>2. UNCHANGED <<runState, at, shownPreview, shownThread, continuation>>
    BY <1>4 DEF ShowDiff
  <2>3. ContinuationsKept' /\ q.run \in RunIds
    BY <1>2, <2>1, <2>2 DEF ContinuationsKept
  <2>4. \A d \in shownDiff' : seen[d.run] = {d.before}
    BY <2>1, <2>3, DiffIsSeen DEF DiffsAreSeen
  <2> QED
    BY <2>2, <2>3, <2>4 DEF runState, FilesTyped, RevisesAt, DiffsAreSeen
<1>5. CASE RevisionStarted
  <2>0. PICK q \in pending : \E d \in q.from :
          /\ Settled(q)
          /\ \/ /\ \E content \in Revisable(d.parent, d.sha) :
                     Launch(launched + 1, Revision(d.parent, d.sha), content, {d.saw})
                /\ continuation' = {}
             \/ Refused /\ UNCHANGED continuation
    BY <1>5 DEF RevisionStarted
  <2>1. PICK d \in q.from :
          /\ Settled(q)
          /\ \/ /\ \E content \in Revisable(d.parent, d.sha) :
                     Launch(launched + 1, Revision(d.parent, d.sha), content, {d.saw})
                /\ continuation' = {}
             \/ Refused /\ UNCHANGED continuation
    BY <2>0
  <2>2. Kept(d) /\ launched < RunCount
    BY <1>5 DEF RevisionStarted, ContinuationsKept
  <2>3. ContinuationsKept'
    BY <1>2, <2>1
  <2>4. CASE \E content \in Revisable(d.parent, d.sha) :
               Launch(launched + 1, Revision(d.parent, d.sha), content, {d.saw})
    <3>1. Launch(launched + 1, Revision(d.parent, d.sha), d.sha, {d.sha})
      BY <2>2, <2>4 DEF Revisable, Kept
    <3>2. Revision(d.parent, d.sha) \in Revisions /\ Revision(d.parent, d.sha).sha = d.sha
      BY <2>2, RevisionIsTyped DEF Kept
    <3> QED
      BY <2>2, <2>3, <3>1, <3>2, LaunchStep
  <2>5. CASE Refused
    BY <2>3, <2>5, ShownStep DEF Refused
  <2> QED
    BY <2>1, <2>4, <2>5
<1>6. CASE RevisionRestarted
  <2>0. PICK q \in pending : \E c \in contract[q.run] :
          /\ Settled(q)
          /\ \/ \E content \in Revisable(c.parent, c.sha) : Launch(launched + 1, c, content, seen[q.run])
             \/ Refused
    BY <1>6 DEF RevisionRestarted
  <2>1. PICK c \in contract[q.run] :
          /\ Settled(q)
          /\ \/ \E content \in Revisable(c.parent, c.sha) : Launch(launched + 1, c, content, seen[q.run])
             \/ Refused
    BY <2>0
  <2>2. launched < RunCount /\ UNCHANGED continuation /\ q.run \in RunIds
    BY <1>6 DEF RevisionRestarted, ContinuationsKept
  <2>3. ContinuationsKept'
    BY <1>2, <2>1, <2>2
  <2>4. c \in Revisions /\ seen[q.run] = {c.sha}
    BY <2>1, <2>2 DEF RevisesAt
  <2>5. CASE \E content \in Revisable(c.parent, c.sha) : Launch(launched + 1, c, content, seen[q.run])
    <3>1. Launch(launched + 1, c, c.sha, {c.sha})
      BY <2>4, <2>5 DEF Revisable
    <3> QED
      BY <2>2, <2>3, <2>4, <3>1, LaunchStep
  <2>6. CASE Refused
    BY <2>3, <2>6, ShownStep DEF Refused
  <2> QED
    BY <2>1, <2>5, <2>6
<1> QED
  BY <1>1, <1>3, <1>4, <1>5, <1>6

LEMMA FilesStep ==
  ASSUME ThreadInv, PublishArtifact \/ RevisionFails \/ ResumeRevision \/ EditFiles
  PROVE  ThreadInv'
<1> USE DEF ThreadInv
<1>1. CASE PublishArtifact \/ RevisionFails
  <2>1. UNCHANGED <<launched, contract, copy, worked, seen, shownState, pending>>
    BY <1>1 DEF PublishArtifact, RevisionFails
  <2>2. disk' \in [RunIds -> SUBSET Contents] /\ registered' \in [RunIds -> SUBSET Contents]
    BY <1>1 DEF PublishArtifact, RevisionFails, FilesTyped
  <2> QED
    BY <2>1, <2>2 DEF shownState, FilesTyped, ShownTyped, RevisesAt, ContinuationsKept, Kept,
       DiffsAreSeen
<1>2. CASE ResumeRevision
  <2>1. PICK r \in Started : /\ \A c \in contract[r] : copy[r] = {c.sha}
                             /\ worked' = [worked EXCEPT ![r] = copy[r]]
    BY <1>2 DEF ResumeRevision
  <2>2. UNCHANGED <<launched, contract, disk, registered, copy, seen, shownState, pending>>
    BY <1>2 DEF ResumeRevision
  <2>3. r \in RunIds
    BY ThreadBounds DEF FilesTyped, Started, RunIds
  <2>4. FilesTyped'
    BY <2>1, <2>2, <2>3 DEF FilesTyped
  <2>5. RevisesAt(r)'
    BY <2>1, <2>2, <2>3 DEF FilesTyped, RevisesAt
  <2>6. ASSUME NEW e \in RunIds, e # r PROVE RevisesAt(e)'
    BY <2>1, <2>2, <2>6 DEF FilesTyped, RevisesAt
  <2> QED
    BY <2>2, <2>4, <2>5, <2>6 DEF shownState, ShownTyped, ContinuationsKept, Kept, DiffsAreSeen
<1>3. CASE EditFiles
  <2>1. PICK r \in Started, held \in {{}} \union {{c} : c \in Contents} :
          \/ disk' = [disk EXCEPT ![r] = held] /\ UNCHANGED copy
          \/ copy[r] # {} /\ copy' = [copy EXCEPT ![r] = held] /\ UNCHANGED disk
    BY <1>3 DEF EditFiles
  <2>2. UNCHANGED <<launched, contract, registered, worked, seen, shownState, pending>>
    BY <1>3 DEF EditFiles
  <2>3. r \in RunIds /\ held \subseteq Contents
    BY ThreadBounds DEF FilesTyped, Started, RunIds
  <2>4. FilesTyped'
    BY <2>1, <2>2, <2>3 DEF FilesTyped
  <2>5. ASSUME NEW e \in RunIds PROVE RevisesAt(e)'
    BY <2>1, <2>2, <2>3 DEF FilesTyped, RevisesAt
  <2> QED
    BY <2>2, <2>4, <2>5 DEF shownState, ShownTyped, ContinuationsKept, Kept, DiffsAreSeen
<1> QED
  BY <1>1, <1>2, <1>3

LEMMA ThreadStarts == ThreadInit => ThreadInv
<1> SUFFICES ASSUME ThreadInit PROVE ThreadInv
  OBVIOUS
<1>1. 1 \in RunIds
  BY ThreadBounds DEF RunIds
<1>2. FilesTyped
  BY <1>1 DEF ThreadInit, FilesTyped
<1>3. ShownTyped
  BY <1>1 DEF ThreadInit, ShownTyped
<1> QED
  BY <1>2, <1>3 DEF ThreadInit, ThreadInv, RevisesAt, ContinuationsKept, DiffsAreSeen

LEMMA ThreadStep == ThreadInv /\ [ThreadNext]_threadVars => ThreadInv'
<1>1. ASSUME ThreadInv, UNCHANGED threadVars PROVE ThreadInv'
  BY <1>1 DEF threadVars, runState, shownState, ThreadInv, FilesTyped, ShownTyped, RevisesAt,
              ContinuationsKept, Kept, DiffsAreSeen
<1> QED
  BY <1>1, WindowStep, AnswerStep, FilesStep DEF ThreadNext

LEMMA ThreadShows == ThreadInv => RevisesWhatWasShown
<1>1. ASSUME ThreadInv, NEW r \in Started PROVE r \in RunIds
  BY <1>1, ThreadBounds DEF ThreadInv, FilesTyped, Started, RunIds
<1> QED
  BY <1>1 DEF ThreadInv, RevisesAt, DiffsAreSeen, RevisesWhatWasShown

\* Over previews that arrive late, files that change and Runs that are restarted or
\* resumed, a revision's agents are given what the user saw when continuing, and a diff
\* compares with that.
THEOREM RevisesWhatWasShownCorrect == ThreadSpec => []RevisesWhatWasShown
BY ThreadStarts, ThreadStep, ThreadShows, PTL DEF ThreadSpec

-----------------------------------------------------------------------------
(* Versions of an artifact: the line a version descends from, its thread   *)
(* and its number.  They follow from what a Run that starts takes over     *)
(* from its parent, which has started before it.                           *)

ClosedIn(con, n) == {S \in SUBSET (1 .. n) : \A k \in S : \A c \in con[k] : c.parent \in S}
LineIn(con, n, r) == {k \in 1 .. n : \A S \in ClosedIn(con, n) : r \in S => k \in S}

\* What revises something revises what started before it.
Descends(con, n) == \A k \in 1 .. n : \A c \in con[k] : c.parent \in 1 .. n /\ c.parent < k

\* A thread is named after a root, and one of its versions revises that root.
HasRoot(t) ==
  /\ contract[t[1]] = {}
  /\ \E m \in Started : \E d \in contract[m] : d.thread = t /\ d.parent = t[1]

LinkAt(k) ==
  \A c \in contract[k] :
    /\ contract[k] = {c}
    /\ c.parent \in Started /\ c.parent < k
    /\ contract[c.parent] = {} => c.revision = 2 /\ c.thread = ThreadId(c.parent, c.sha)
    /\ \A p \in contract[c.parent] : c.thread = p.thread /\ c.revision = p.revision + 1
    /\ HasRoot(c.thread)
    /\ c.revision = Cardinality(LineIn(contract, launched, k))

LinksKnown ==
  /\ \A r \in RunIds : r \notin Started => contract[r] = {} /\ disk[r] = {}
  /\ \A k \in Started : LinkAt(k)

\* A line is closed, and the least closed set with its version.
LEMMA LineIsClosed ==
  ASSUME NEW con, NEW n \in Nat, NEW r \in 1 .. n, Descends(con, n)
  PROVE  LineIn(con, n, r) \in ClosedIn(con, n) /\ r \in LineIn(con, n, r)
<1>1. LineIn(con, n, r) \in SUBSET (1 .. n) /\ r \in LineIn(con, n, r)
  BY DEF LineIn
<1>2. ASSUME NEW k \in LineIn(con, n, r), NEW c \in con[k] PROVE c.parent \in LineIn(con, n, r)
  <2>1. k \in 1 .. n /\ \A S \in ClosedIn(con, n) : r \in S => k \in S
    BY DEF LineIn
  <2>2. c.parent \in 1 .. n
    BY <1>2, <2>1 DEF Descends
  <2>3. \A S \in ClosedIn(con, n) : r \in S => c.parent \in S
    BY <1>2, <2>1 DEF ClosedIn
  <2> QED
    BY <2>2, <2>3 DEF LineIn
<1> QED
  BY <1>1, <1>2 DEF ClosedIn

LEMMA LineIsLeast ==
  ASSUME NEW con, NEW n, NEW r, NEW S \in ClosedIn(con, n), r \in S
  PROVE  LineIn(con, n, r) \subseteq S
BY DEF LineIn

\* The line of a root is the root, that of a revision is its parent's and itself.
LEMMA LineOfRoot ==
  ASSUME NEW con, NEW n \in Nat, NEW r \in 1 .. n, con[r] = {}
  PROVE  LineIn(con, n, r) = {r} /\ Cardinality(LineIn(con, n, r)) = 1
<1>1. {r} \in ClosedIn(con, n)
  BY DEF ClosedIn
<1>2. LineIn(con, n, r) \subseteq {r}
  BY <1>1, LineIsLeast
<1>3. r \in LineIn(con, n, r)
  BY DEF LineIn
<1>4. LineIn(con, n, r) = {r}
  BY <1>2, <1>3
<1> QED
  BY <1>4, FS_Singleton

LEMMA LineOfRevision ==
  ASSUME NEW con, NEW n \in Nat, Descends(con, n), NEW k \in 1 .. n, NEW c, con[k] = {c}
  PROVE  Cardinality(LineIn(con, n, k)) = Cardinality(LineIn(con, n, c.parent)) + 1
<1> DEFINE line == LineIn(con, n, c.parent)
<1>1. c.parent \in 1 .. n /\ c.parent < k
  BY DEF Descends
<1>2. line \in ClosedIn(con, n) /\ c.parent \in line
  BY <1>1, LineIsClosed
<1>3. LineIn(con, n, k) \in ClosedIn(con, n) /\ k \in LineIn(con, n, k)
  BY LineIsClosed
<1>4. LineIn(con, n, k) \subseteq line \union {k}
  <2>1. line \union {k} \in ClosedIn(con, n)
    BY <1>2 DEF ClosedIn
  <2> QED
    BY <2>1, LineIsLeast
<1>5. line \subseteq LineIn(con, n, k)
  <2>1. c.parent \in LineIn(con, n, k)
    BY <1>3 DEF ClosedIn
  <2> QED
    BY <1>3, <2>1, LineIsLeast
<1>6. line \subseteq 1 .. c.parent
  <2>1. 1 .. c.parent \in ClosedIn(con, n)
    BY <1>1 DEF ClosedIn, Descends
  <2>2. c.parent \in 1 .. c.parent
    BY <1>1
  <2> QED
    BY <2>1, <2>2, LineIsLeast
<1>7. k \notin line
  BY <1>1, <1>6
<1>8. IsFiniteSet(line)
  <2>1. IsFiniteSet(1 .. c.parent)
    BY <1>1, FS_Interval
  <2> QED
    BY <1>6, <2>1, FS_Subset
<1>9. LineIn(con, n, k) = line \union {k}
  BY <1>3, <1>4, <1>5
<1> QED
  BY <1>7, <1>8, <1>9, FS_AddElement

\* A Run that starts changes no line.
LEMMA LineIsKept ==
  ASSUME NEW con, NEW next, NEW n \in Nat, Descends(con, n), \A k \in 1 .. n : next[k] = con[k],
         NEW r \in 1 .. n
  PROVE  LineIn(next, n + 1, r) = LineIn(con, n, r)
<1>1. LineIn(con, n, r) \in ClosedIn(con, n) /\ r \in LineIn(con, n, r)
  BY LineIsClosed
<1>2. LineIn(next, n + 1, r) \subseteq LineIn(con, n, r)
  <2>1. LineIn(con, n, r) \in ClosedIn(next, n + 1)
    BY <1>1 DEF ClosedIn
  <2> QED
    BY <1>1, <2>1, LineIsLeast
<1>3. ASSUME NEW S \in ClosedIn(next, n + 1), r \in S PROVE LineIn(con, n, r) \subseteq S
  <2>1. S \intersect (1 .. n) \in ClosedIn(con, n)
    BY DEF ClosedIn, Descends
  <2>2. LineIn(con, n, r) \subseteq S \intersect (1 .. n)
    BY <1>3, <2>1, LineIsLeast
  <2> QED
    BY <2>2
<1>4. LineIn(con, n, r) \subseteq 1 .. (n + 1)
  BY DEF LineIn
<1>5. LineIn(con, n, r) \subseteq LineIn(next, n + 1, r)
  BY <1>3, <1>4 DEF LineIn
<1> QED
  BY <1>2, <1>5

LEMMA StartedIsTyped ==
  ASSUME FilesTyped
  PROVE  launched \in Nat /\ Started = 1 .. launched /\ Started \subseteq RunIds
BY ThreadBounds DEF FilesTyped, Started, RunIds

LEMMA LinksDescend ==
  ASSUME FilesTyped, LinksKnown
  PROVE  Descends(contract, launched)
BY StartedIsTyped DEF LinksKnown, LinkAt, Descends

\* What starts is numbered after its parent and is of its thread.
LEMMA LinkOfNew ==
  ASSUME FilesTyped, LinksKnown, NEW parent \in Started, NEW sha \in Contents, NEW c,
         c = Revision(parent, sha)
  PROVE  /\ c.parent = parent /\ c.sha = sha
         /\ contract[parent] = {} => c.revision = 2 /\ c.thread = ThreadId(parent, sha)
         /\ \A p \in contract[parent] :
              contract[parent] = {p} /\ c.thread = p.thread /\ c.revision = p.revision + 1
         /\ c.revision = Cardinality(LineIn(contract, launched, parent)) + 1
<1>1. CASE contract[parent] = {}
  <2>1. Cardinality(LineIn(contract, launched, parent)) = 1
    BY <1>1, LineOfRoot, StartedIsTyped
  <2> QED
    BY <1>1, <2>1 DEF Revision
<1>2. CASE contract[parent] # {}
  <2>1. PICK p \in contract[parent] : TRUE
    BY <1>2
  <2>2. contract[parent] = {p} /\ p.revision = Cardinality(LineIn(contract, launched, parent))
    BY <2>1 DEF LinksKnown, LinkAt
  <2>3. (CHOOSE e \in contract[parent] : TRUE) = p
    BY <2>2
  <2>4. c = [parent |-> parent, sha |-> sha, thread |-> p.thread, revision |-> p.revision + 1]
    BY <1>2, <2>3 DEF Revision
  <2> QED
    BY <2>2, <2>4
<1> QED
  BY <1>1, <1>2

LEMMA LinkLaunch ==
  ASSUME FilesTyped, FilesTyped', LinksKnown, launched < RunCount,
         NEW parent \in RunIds, NEW sha \in Contents, Revisable(parent, sha) # {},
         NEW content, NEW saw, Launch(launched + 1, Revision(parent, sha), content, saw)
  PROVE  LinksKnown'
<1>0. PICK new, c : new = launched + 1 /\ c = Revision(parent, sha)
  OBVIOUS
<1>1. parent \in Started
  BY DEF Revisable, ReadVerified, LinksKnown
<1>2. /\ launched \in Nat /\ Started = 1 .. launched /\ Started \subseteq RunIds
      /\ launched' = new /\ Started' = 1 .. new /\ new \in RunIds /\ new \notin Started
      /\ contract' = [contract EXCEPT ![new] = {c}] /\ disk' = disk
  <2>1. launched \in Nat /\ Started = 1 .. launched /\ Started \subseteq RunIds
    BY StartedIsTyped
  <2>2. launched' = new /\ contract' = [contract EXCEPT ![new] = {c}] /\ disk' = disk
    BY <1>0 DEF Launch
  <2>3. new \in RunIds
    BY <1>0, <2>1, ThreadBounds DEF RunIds
  <2> QED
    BY <1>0, <2>1, <2>2, <2>3 DEF Started
<1>3. /\ contract'[new] = {c}
      /\ \A k \in RunIds : k # new => contract'[k] = contract[k]
  BY <1>2 DEF FilesTyped
<1>4. /\ c.parent = parent /\ c.sha = sha
      /\ contract[parent] = {} => c.revision = 2 /\ c.thread = ThreadId(parent, sha)
      /\ \A p \in contract[parent] : c.thread = p.thread /\ c.revision = p.revision + 1
      /\ \A p \in contract[parent] : contract[parent] = {p}
      /\ c.revision = Cardinality(LineIn(contract, launched, parent)) + 1
  BY <1>0, <1>1, LinkOfNew
<1>5. \A k \in Started : k < new /\ k # new /\ contract'[k] = contract[k] /\ k \in Started' /\ k \in 1 .. launched
  BY <1>0, <1>2, <1>3
<1>6. Descends(contract, launched)
  BY LinksDescend
<1>7. \A k \in Started : LineIn(contract', launched', k) = LineIn(contract, launched, k)
  <2>1. \A k \in 1 .. launched : contract'[k] = contract[k]
    BY <1>2, <1>5
  <2>2. ASSUME NEW k \in 1 .. launched
        PROVE  LineIn(contract', launched + 1, k) = LineIn(contract, launched, k)
    <3>1. launched \in Nat
      BY <1>2
    <3> QED
      BY <1>6, <2>1, <3>1, LineIsKept
  <2> QED
    BY <1>0, <1>2, <2>2
<1>8. ASSUME NEW t, t[1] \in Started, HasRoot(t) PROVE HasRoot(t)'
  <2>1. PICK m \in Started : \E d \in contract[m] : d.thread = t /\ d.parent = t[1]
    BY <1>8 DEF HasRoot
  <2>2. m \in Started' /\ \E d \in contract'[m] : d.thread = t /\ d.parent = t[1]
    BY <1>5, <2>1
  <2>3. contract'[t[1]] = {}
    BY <1>5, <1>8 DEF HasRoot
  <2> QED
    BY <2>2, <2>3 DEF HasRoot
<1>9. ASSUME NEW k \in Started, NEW e \in contract[k]
      PROVE  e.thread[1] \in Started /\ HasRoot(e.thread)'
  <2>1. HasRoot(e.thread) /\ \A m \in Started : \A d \in contract[m] : d.parent \in Started
    BY <1>9 DEF LinksKnown, LinkAt
  <2>2. e.thread[1] \in Started
    BY <2>1 DEF HasRoot
  <2> QED
    BY <1>8, <2>1, <2>2
<1>10. ASSUME NEW k \in Started PROVE LinkAt(k)'
  <2> SUFFICES ASSUME NEW e \in contract[k]
               PROVE  /\ contract'[k] = {e}
                      /\ e.parent \in Started' /\ e.parent < k
                      /\ contract'[e.parent] = {} => e.revision = 2 /\ e.thread = ThreadId(e.parent, e.sha)
                      /\ \A p \in contract'[e.parent] : e.thread = p.thread /\ e.revision = p.revision + 1
                      /\ HasRoot(e.thread)'
                      /\ e.revision = Cardinality(LineIn(contract', launched', k))
    BY <1>5 DEF LinkAt, ThreadId
  <2>1. /\ contract[k] = {e}
        /\ e.parent \in Started /\ e.parent < k
        /\ contract[e.parent] = {} => e.revision = 2 /\ e.thread = ThreadId(e.parent, e.sha)
        /\ \A p \in contract[e.parent] : e.thread = p.thread /\ e.revision = p.revision + 1
        /\ e.revision = Cardinality(LineIn(contract, launched, k))
    BY DEF LinksKnown, LinkAt
  <2>2. contract'[k] = contract[k] /\ contract'[e.parent] = contract[e.parent] /\ e.parent \in Started'
    BY <1>5, <2>1
  <2>3. e.revision = Cardinality(LineIn(contract', launched', k))
    BY <1>7, <2>1
  <2> QED
    BY <1>9, <2>1, <2>2, <2>3
<1>11. HasRoot(c.thread)'
  <2>1. CASE contract[parent] = {}
    <3>1. c.thread[1] = parent
      BY <1>4, <2>1 DEF ThreadId
    <3>2. contract'[parent] = {} /\ new \in Started' /\ c \in contract'[new]
      BY <1>1, <1>2, <1>3, <1>5, <2>1
    <3> QED
      BY <1>4, <3>1, <3>2 DEF HasRoot
  <2>2. CASE contract[parent] # {}
    <3>1. PICK p \in contract[parent] : TRUE
      BY <2>2
    <3> QED
      BY <1>1, <1>4, <1>9, <3>1
  <2> QED
    BY <2>1, <2>2
<1>12. c.revision = Cardinality(LineIn(contract', launched', new))
  <2>1. Descends(contract', launched')
    <3> SUFFICES ASSUME NEW k \in 1 .. launched', NEW e \in contract'[k]
                 PROVE  e.parent \in 1 .. launched' /\ e.parent < k
      BY DEF Descends
    <3>1. CASE k = new
      BY <1>1, <1>2, <1>3, <1>4, <1>5, <3>1
    <3>2. CASE k # new
      BY <1>0, <1>2, <1>5, <1>6, <3>2 DEF Descends
    <3> QED
      BY <3>1, <3>2
  <2>2. launched' \in Nat /\ new \in 1 .. launched'
    BY <1>0, <1>2
  <2>3. Cardinality(LineIn(contract', launched', new)) = Cardinality(LineIn(contract', launched', c.parent)) + 1
    BY <1>3, <2>1, <2>2, LineOfRevision
  <2> QED
    BY <1>1, <1>4, <1>7, <2>3
<1>13. LinkAt(new)'
  <2> SUFFICES ASSUME TRUE
               PROVE  /\ c.parent \in Started' /\ c.parent < new
                      /\ contract'[c.parent] = {} => c.revision = 2 /\ c.thread = ThreadId(c.parent, c.sha)
                      /\ \A p \in contract'[c.parent] : c.thread = p.thread /\ c.revision = p.revision + 1
    BY <1>2, <1>3, <1>11, <1>12 DEF LinkAt, ThreadId
  <2> QED
    BY <1>1, <1>4, <1>5
<1>14. \A r \in RunIds : r \notin Started' => contract'[r] = {} /\ disk'[r] = {}
  <2> SUFFICES ASSUME NEW r \in RunIds, r \notin Started' PROVE contract'[r] = {} /\ disk'[r] = {}
    OBVIOUS
  <2>1. r # new
    BY <1>0, <1>2
  <2>2. r \notin Started
    BY <1>5
  <2> QED
    BY <1>2, <1>3, <2>1, <2>2 DEF LinksKnown
<1>15. \A k \in Started' : k \in Started \/ k = new
  BY <1>0, <1>2
<1> QED
  BY <1>10, <1>13, <1>14, <1>15 DEF LinksKnown

LEMMA LinksStep ==
  ASSUME ThreadInv, ThreadInv', LinksKnown, [ThreadNext]_threadVars
  PROVE  LinksKnown'
<1>0. FilesTyped /\ FilesTyped' /\ Started \subseteq RunIds
  BY StartedIsTyped DEF ThreadInv
<1>1. ASSUME UNCHANGED <<launched, contract>>, \A r \in RunIds : r \notin Started => disk'[r] = disk[r]
      PROVE  LinksKnown'
  <2>1. Started' = Started
    BY <1>1 DEF Started
  <2>2. \A r \in RunIds : r \notin Started' => contract'[r] = {} /\ disk'[r] = {}
    BY <1>1, <2>1 DEF LinksKnown
  <2>3. \A k \in Started' : LinkAt(k)'
    BY <1>1, <2>1 DEF LinksKnown, LinkAt, HasRoot, ThreadId
  <2> QED
    BY <2>2, <2>3 DEF LinksKnown
<1>2. CASE UNCHANGED runState
  BY <1>1, <1>2 DEF runState
<1>3. CASE \/ SelectVersion \/ OpenArtifact \/ ViewParent \/ LoadDiff \/ ContinueFromArtifact
           \/ DropContinuation \/ StartRevision \/ RestartRevision
           \/ ReadPreview \/ ShowPreview \/ ShowDiff
  BY <1>2, <1>3 DEF SelectVersion, OpenArtifact, ViewParent, LoadDiff, ContinueFromArtifact,
     DropContinuation, StartRevision, RestartRevision, ReadPreview, ShowPreview, ShowDiff
<1>4. CASE RevisionStarted
  <2>1. PICK q \in pending : \E d \in q.from :
          \/ \E content \in Revisable(d.parent, d.sha) :
               Launch(launched + 1, Revision(d.parent, d.sha), content, {d.saw})
          \/ Refused
    BY <1>4 DEF RevisionStarted
  <2>2. PICK d \in q.from :
          \/ \E content \in Revisable(d.parent, d.sha) :
               Launch(launched + 1, Revision(d.parent, d.sha), content, {d.saw})
          \/ Refused
    BY <2>1
  <2>3. d.parent \in RunIds /\ d.sha \in Contents /\ launched < RunCount
    BY <1>4 DEF RevisionStarted, ThreadInv, ContinuationsKept, Kept
  <2>4. CASE \E content \in Revisable(d.parent, d.sha) :
               Launch(launched + 1, Revision(d.parent, d.sha), content, {d.saw})
    BY <1>0, <2>3, <2>4, LinkLaunch
  <2>5. CASE Refused
    BY <1>2, <2>5 DEF Refused
  <2> QED
    BY <2>2, <2>4, <2>5
<1>5. CASE RevisionRestarted
  <2>1. PICK q \in pending : \E c \in contract[q.run] :
          \/ /\ Revision(c.parent, c.sha) = c
             /\ \E content \in Revisable(c.parent, c.sha) : Launch(launched + 1, c, content, seen[q.run])
          \/ Refused
    BY <1>5 DEF RevisionRestarted
  <2>2. PICK c \in contract[q.run] :
          \/ /\ Revision(c.parent, c.sha) = c
             /\ \E content \in Revisable(c.parent, c.sha) : Launch(launched + 1, c, content, seen[q.run])
          \/ Refused
    BY <2>1
  <2>3. q.run \in RunIds /\ launched < RunCount
    BY <1>5 DEF RevisionRestarted, ThreadInv, ContinuationsKept
  <2>4. c.parent \in RunIds /\ c.sha \in Contents
    BY <1>0, <2>3 DEF FilesTyped, Revisions
  <2>5. CASE /\ Revision(c.parent, c.sha) = c
             /\ \E content \in Revisable(c.parent, c.sha) : Launch(launched + 1, c, content, seen[q.run])
    BY <1>0, <2>3, <2>4, <2>5, LinkLaunch
  <2>6. CASE Refused
    BY <1>2, <2>6 DEF Refused
  <2> QED
    BY <2>2, <2>5, <2>6
<1>6. CASE PublishArtifact
  <2>1. PICK r \in Started : \E c \in Contents : disk' = [disk EXCEPT ![r] = {c}]
    BY <1>6 DEF PublishArtifact
  <2>2. \A k \in RunIds : k \notin Started => disk'[k] = disk[k]
    BY <1>0, <2>1 DEF FilesTyped
  <2> QED
    BY <1>1, <1>6, <2>2 DEF PublishArtifact
<1>7. CASE EditFiles
  <2>1. PICK r \in Started : \E held \in {{}} \union {{c} : c \in Contents} :
          disk' = [disk EXCEPT ![r] = held] \/ UNCHANGED disk
    BY <1>7 DEF EditFiles
  <2>2. \A k \in RunIds : k \notin Started => disk'[k] = disk[k]
    BY <1>0, <2>1 DEF FilesTyped
  <2> QED
    BY <1>1, <1>7, <2>2 DEF EditFiles
<1>8. CASE RevisionFails \/ ResumeRevision
  BY <1>1, <1>8 DEF RevisionFails, ResumeRevision
<1> QED
  BY <1>2, <1>3, <1>4, <1>5, <1>6, <1>7, <1>8 DEF ThreadNext, threadVars

\* What is shown with a version is its thread.
LEMMA ThreadIsOne ==
  ASSUME FilesTyped, LinksKnown, NEW r \in Started, NEW sha
  PROVE  \E t : /\ ThreadOf(r, sha) = {t}
                /\ \A c \in contract[r] : t = c.thread
                /\ contract[r] = {} => t = ThreadId(r, sha)
<1> DEFINE children == {contract[k] : k \in {k \in Started : \E c \in contract[k] : c.parent = r /\ c.sha = sha}}
<1>1. CASE contract[r] # {}
  <2>1. PICK c \in contract[r] : contract[r] = {c}
    BY <1>1 DEF LinksKnown, LinkAt
  <2>2. ThreadOf(r, sha) = {c.thread}
    BY <2>1 DEF ThreadOf
  <2> QED
    BY <2>1, <2>2
<1>2. CASE contract[r] = {} /\ children = {}
  BY <1>2 DEF ThreadOf
<1>3. CASE contract[r] = {} /\ children # {}
  <2>1. ThreadOf(r, sha) = {c.thread : c \in UNION children}
    BY <1>3 DEF ThreadOf
  <2>2. ASSUME NEW c \in UNION children PROVE c.thread = ThreadId(r, sha)
    <3>1. PICK k \in Started : c \in contract[k] /\ \E e \in contract[k] : e.parent = r /\ e.sha = sha
      OBVIOUS
    <3>2. contract[k] = {c} /\ c.parent = r /\ c.sha = sha
      BY <3>1 DEF LinksKnown, LinkAt
    <3> QED
      BY <1>3, <3>1, <3>2 DEF LinksKnown, LinkAt
  <2>3. UNION children # {}
    BY <1>3
  <2> HIDE DEF children
  <2>4. ThreadOf(r, sha) = {ThreadId(r, sha)}
    BY <2>1, <2>2, <2>3
  <2> QED
    BY <1>3, <2>4
<1> QED
  BY <1>1, <1>2, <1>3

\* The numbers and the Runs of the versions that are shown.
LEMMA ThreadIsShown ==
  ASSUME FilesTyped, LinksKnown, NEW r \in Started, NEW sha
  PROVE  /\ LineIn(contract, launched, r) \subseteq {v.run : v \in ThreadView(r, sha)}
         /\ \A v \in ThreadView(r, sha) :
              v.run \in Started /\ v.revision = Cardinality(LineIn(contract, launched, v.run))
<1>1. PICK t : /\ ThreadOf(r, sha) = {t}
               /\ \A c \in contract[r] : t = c.thread
               /\ contract[r] = {} => t = ThreadId(r, sha)
  BY ThreadIsOne
<1> DEFINE Members == {k \in Started : \E c \in contract[k] : c.thread = t}
           Contracts == UNION {contract[k] : k \in Members}
           RootView(c) == [revision |-> IF c.revision > 1 THEN c.revision - 1 ELSE 1,
                        run |-> c.parent,
                        verified |-> ReadVerified(c.parent) = {c.sha}]
           OwnView(k, c) == [revision |-> c.revision, run |-> k, verified |-> ReadVerified(k) # {}]
           Roots == {RootView(c) : c \in {c \in Contracts : c.parent \notin Members}}
           Own == UNION {{OwnView(k, c) : c \in contract[k]} : k \in Members}
<1>2. ThreadView(r, sha) = IF Members = {} THEN {[revision |-> 1, run |-> r, verified |-> TRUE]} ELSE Roots \union Own
  <2>1. {k \in Started : \E c \in contract[k] : c.thread \in ThreadOf(r, sha)} = Members
    BY <1>1
  <2> QED
    BY <2>1 DEF ThreadView
<1>3. launched \in Nat /\ Started = 1 .. launched
  BY StartedIsTyped
<1>4. \A k \in Started : contract[k] = {} => Cardinality(LineIn(contract, launched, k)) = 1
                                            /\ LineIn(contract, launched, k) = {k}
  BY <1>3, LineOfRoot
<1>5. ASSUME NEW k \in Started, NEW c \in contract[k]
      PROVE  /\ contract[k] = {c} /\ c.parent \in Started
             /\ contract[c.parent] = {} => c.revision = 2
             /\ \A p \in contract[c.parent] : c.thread = p.thread
             /\ HasRoot(c.thread)
             /\ c.revision = Cardinality(LineIn(contract, launched, k))
  BY DEF LinksKnown, LinkAt
<1>6. ASSUME NEW k \in Members PROVE k \in Started /\ \A c \in contract[k] : c.thread = t
  BY <1>5
<1>7. \A k \in Started : \A c \in contract[k] : c.thread = t => k \in Members
  OBVIOUS
<1>8. CASE Members = {}
  <2>1. contract[r] = {}
    BY <1>1, <1>7, <1>8
  <2> QED
    BY <1>2, <1>4, <1>8, <2>1
<1>9. CASE Members # {}
  <2>1. ThreadView(r, sha) = Roots \union Own
    BY <1>2, <1>9
  <2>2. ASSUME NEW c \in Contracts, c.parent \notin Members
        PROVE  c.parent \in Started /\ contract[c.parent] = {} /\ c.revision = 2
    <3>1. PICK k \in Members : c \in contract[k]
      OBVIOUS
    <3>2. k \in Started /\ c.thread = t
      BY <1>6, <3>1
    <3>3. contract[c.parent] = {}
      BY <1>5, <1>7, <2>2, <3>1, <3>2
    <3> QED
      BY <1>5, <3>1, <3>2, <3>3
  <2> DEFINE S == Members \union {c.parent : c \in Contracts}
  <2>3. S \subseteq {v.run : v \in ThreadView(r, sha)}
    <3>1. ASSUME NEW k \in Members PROVE \E v \in Own : v.run = k
      <4>1. PICK c \in contract[k] : TRUE
        OBVIOUS
      <4>2. OwnView(k, c).run = k
        OBVIOUS
      <4> HIDE DEF Members, OwnView
      <4>3. OwnView(k, c) \in Own
        BY <4>1
      <4> QED
        BY <4>2, <4>3
    <3>2. ASSUME NEW c \in Contracts, c.parent \notin Members PROVE \E v \in Roots : v.run = c.parent
      <4>1. RootView(c) \in Roots /\ RootView(c).run = c.parent
        BY <3>2
      <4> QED
        BY <4>1
    <3> HIDE DEF Members, Contracts, Roots, Own
    <3> QED
      BY <2>1, <3>1, <3>2
  <2>4. \A k \in Members : contract[k] \subseteq Contracts
    OBVIOUS
  <2>5. S \in ClosedIn(contract, launched)
    <3>1. S \subseteq Started
      BY <1>5, <1>6
    <3>2. ASSUME NEW k \in S, NEW c \in contract[k] PROVE c.parent \in S
      <4>1. CASE k \in Members
        <5>1. c \in Contracts
          BY <2>4, <4>1
        <5> HIDE DEF Members, Contracts
        <5> QED
          BY <5>1
      <4>2. CASE k \notin Members
        <5>1. PICK e \in Contracts : k = e.parent
          BY <4>2
        <5> QED
          BY <2>2, <4>2, <5>1
      <4> QED
        BY <4>1, <4>2
    <3> HIDE DEF S
    <3> QED
      BY <1>3, <3>1, <3>2 DEF ClosedIn
  <2>6. r \in S
    <3>1. CASE contract[r] # {}
      BY <1>1, <1>7, <3>1
    <3>2. CASE contract[r] = {}
      <4>1. t[1] = r
        BY <1>1, <3>2 DEF ThreadId
      <4>0. PICK k \in Members : \E c \in contract[k] : c.thread = t
        BY <1>9
      <4>2. PICK c \in contract[k] : c.thread = t
        BY <4>0
      <4>3. HasRoot(t)
        BY <1>5, <1>6, <4>2
      <4>4. PICK m \in Started : \E d \in contract[m] : d.thread = t /\ d.parent = r
        BY <4>1, <4>3 DEF HasRoot
      <4> QED
        BY <4>4
    <3> QED
      BY <3>1, <3>2
  <2>7. LineIn(contract, launched, r) \subseteq S
    BY <2>5, <2>6, LineIsLeast
  <2>8. ASSUME NEW v \in Roots
        PROVE  v.run \in Started /\ v.revision = Cardinality(LineIn(contract, launched, v.run))
    <3>1. PICK c \in Contracts : c.parent \notin Members /\ v = RootView(c)
      OBVIOUS
    <3>2. c.parent \in Started /\ contract[c.parent] = {} /\ c.revision = 2
      BY <2>2, <3>1
    <3>3. v.revision = 1 /\ v.run = c.parent
      BY <3>1, <3>2
    <3> QED
      BY <1>4, <3>2, <3>3
  <2>9. ASSUME NEW v \in Own
        PROVE  v.run \in Started /\ v.revision = Cardinality(LineIn(contract, launched, v.run))
    <3>1. PICK k \in Members : \E c \in contract[k] : v = OwnView(k, c)
      OBVIOUS
    <3>2. PICK c \in contract[k] : v = OwnView(k, c)
      BY <3>1
    <3>3. v.revision = c.revision /\ v.run = k
      BY <3>2
    <3> QED
      BY <1>5, <1>6, <3>2, <3>3
  <2> HIDE DEF S, Roots, Own
  <2> QED
    BY <2>1, <2>3, <2>7, <2>8, <2>9
<1> QED
  BY <1>8, <1>9

LEMMA LinksShow ==
  ASSUME FilesTyped, LinksKnown
  PROVE  AncestorsAreShown
<1>1. Ancestors = [r \in Started |-> LineIn(contract, launched, r)]
  BY DEF Ancestors, ClosedIn, LineIn, Started
<1>2. ASSUME NEW r \in Started, NEW sha \in ReadVerified(r)
      PROVE  /\ Ancestors[r] \subseteq {v.run : v \in ThreadView(r, sha)}
             /\ Cardinality(ThreadOf(r, sha)) = 1
             /\ \A v \in ThreadView(r, sha) : v.revision = Cardinality(Ancestors[v.run])
  <2>1. Cardinality(ThreadOf(r, sha)) = 1
    <3>1. PICK t : ThreadOf(r, sha) = {t}
      BY ThreadIsOne
    <3> QED
      BY <3>1, FS_Singleton
  <2>2. /\ LineIn(contract, launched, r) \subseteq {v.run : v \in ThreadView(r, sha)}
        /\ \A v \in ThreadView(r, sha) :
             v.run \in Started /\ v.revision = Cardinality(LineIn(contract, launched, v.run))
    BY ThreadIsShown
  <2> QED
    BY <1>1, <2>1, <2>2
<1> QED
  BY <1>2, Zenon DEF AncestorsAreShown

\* Whichever versions are revised, restarted and resumed while files change, the thread
\* shown with a version is one, holds every version it descends from, numbers each by
\* its place in the line and names no version of another root; and diffs and agents
\* have what the user saw.
THEOREM RevisionsAreShownCorrect == ThreadSpec => []RevisionsAreShown
<1>1. ThreadInit => ThreadInv /\ LinksKnown
  <2> SUFFICES ASSUME ThreadInit PROVE LinksKnown
    BY ThreadStarts
  <2>1. launched = 1 /\ \A r \in RunIds : contract[r] = {} /\ (r # 1 => disk[r] = {})
    BY DEF ThreadInit
  <2>2. Started = {1} /\ 1 \in RunIds
    BY <2>1, ThreadBounds DEF Started, RunIds
  <2> QED
    BY <2>1, <2>2 DEF LinksKnown, LinkAt
<1>2. ThreadInv /\ LinksKnown /\ [ThreadNext]_threadVars => ThreadInv' /\ LinksKnown'
  BY ThreadStep, LinksStep
<1>3. ThreadInv /\ LinksKnown => RevisionsAreShown
  BY ThreadShows, LinksShow DEF ThreadInv, RevisionsAreShown
<1> QED
  BY <1>1, <1>2, <1>3, PTL DEF ThreadSpec

-----------------------------------------------------------------------------
(* Public reports: what a request confirms is what was shown with it, and  *)
(* an issue that was shown as found is neither closed nor forgotten for    *)
(* "none".                                                                 *)

Reports == {Report(f) : f \in Facts}
Previews == [report : Reports, duplicate : LookupResults]
Lookups == [signature : Signatures, result : LookupResults, fresh : BOOLEAN]

RequestTyped(c) ==
  /\ DOMAIN c = {"id", "kind", "run", "stage", "confirmed", "shown", "report"}
  /\ c.run \in Runs /\ c.shown \subseteq Previews
  /\ c.confirmed = {Sha256(p.report) : p \in c.shown}
  /\ c.report \subseteq Reports /\ \A x, y \in c.report : x = y
  /\ c.stage = "lookup" => c.report # {}

ReportTyped ==
  /\ facts \in [Runs -> Facts] /\ picked \in Runs
  /\ preview \subseteq Previews /\ cache \in Seq(Lookups)
  /\ \A c \in requests : RequestTyped(c)

KnownAsFound(signature) ==
  signature \in issues /\ \A i \in DOMAIN cache : cache[i].signature = signature => cache[i].result # "none"

AsFound(p) == p.duplicate = "found" => KnownAsFound(p.report.signature)

\* The cache says one thing of a signature, and what it says it found is an issue.
CacheAgrees ==
  /\ \A i, j \in DOMAIN cache : cache[i].signature = cache[j].signature => cache[i].result = cache[j].result
  /\ \A i \in DOMAIN cache : cache[i].result = "found" => cache[i].signature \in issues

ReportInv ==
  /\ ReportTyped /\ CacheAgrees /\ OpenedIsWhatWasShown
  /\ \A p \in preview : AsFound(p)
  /\ \A c \in requests : \A p \in c.shown : AsFound(p)

LEMMA ReportsAreSigned ==
  /\ \A report \in Reports : report.signature \in Signatures
  /\ \A f \in Facts : Report(f) \in Reports
BY DEF Reports, Report, Signatures

\* A lookup that is remembered replaces what was known of its signature.
LEMMA RememberedIsNew ==
  ASSUME cache \in Seq(Lookups), NEW signature \in Signatures, NEW result \in LookupResults,
         Remember(signature, result)
  PROVE  /\ cache' \in Seq(Lookups)
         /\ \A i \in DOMAIN cache' :
              \/ cache'[i].signature = signature /\ cache'[i].result = result
              \/ \E j \in DOMAIN cache : cache'[i] = cache[j] /\ cache[j].signature # signature
<1> DEFINE entry == [signature |-> signature, result |-> result, fresh |-> TRUE]
           Known == Remembered(signature)
           longer == IF Known = {} THEN Append(cache, entry)
                     ELSE [i \in DOMAIN cache |-> IF i \in Known THEN entry ELSE cache[i]]
           Fits(q) == /\ q \in Seq(Lookups)
                      /\ \A i \in DOMAIN q :
                           \/ q[i] = entry
                           \/ \E j \in DOMAIN cache : q[i] = cache[j] /\ cache[j].signature # signature
<1>1. entry \in Lookups /\ DOMAIN cache = 1 .. Len(cache) /\ Len(cache) \in Nat
  BY DEF Lookups
<1>2. \A i \in DOMAIN cache : i \notin Known => cache[i].signature # signature
  BY <1>1 DEF Remembered
<1>3. cache' = IF Len(longer) > CacheLimit THEN Tail(longer) ELSE longer
  BY DEF Remember
<1> HIDE DEF entry, Known
<1>4. Fits(longer) /\ longer # <<>>
  <2>1. CASE Known = {}
    <3>1. /\ longer \in Seq(Lookups) /\ Len(longer) = Len(cache) + 1
          /\ \A i \in DOMAIN longer : (i \in DOMAIN cache /\ longer[i] = cache[i]) \/ longer[i] = entry
      BY <1>1, <2>1
    <3> QED
      BY <1>2, <2>1, <3>1
  <2>2. CASE Known # {}
    <3>1. longer \in Seq(Lookups) /\ DOMAIN longer = DOMAIN cache
          /\ \A i \in DOMAIN longer : longer[i] = IF i \in Known THEN entry ELSE cache[i]
      BY <1>1, <2>2
    <3>2. longer # <<>>
      BY <2>2, <3>1 DEF Known, Remembered
    <3> QED
      BY <1>2, <3>1, <3>2
  <2> QED
    BY <2>1, <2>2
<1> HIDE DEF longer
<1>5. Fits(Tail(longer))
  <2>1. /\ Tail(longer) \in Seq(Lookups) /\ Len(Tail(longer)) = Len(longer) - 1 /\ Len(longer) \in Nat
        /\ \A i \in DOMAIN Tail(longer) : i + 1 \in DOMAIN longer /\ Tail(longer)[i] = longer[i + 1]
    BY <1>4
  <2> QED
    BY <1>4, <2>1
<1>6. Fits(cache')
  BY <1>3, <1>4, <1>5
<1> QED
  BY <1>6 DEF entry

\* What a step keeps when the cache and the issues lose nothing of what was shown.
LEMMA DeliverStep ==
  ASSUME ReportInv, NEW c \in requests, NEW report \in Reports, NEW duplicate \in LookupResults,
         Deliver(c, report, duplicate), UNCHANGED <<facts, picked>>,
         cache' \in Seq(Lookups), CacheAgrees',
         \A signature : KnownAsFound(signature) => KnownAsFound(signature)',
         duplicate = "found" => KnownAsFound(report.signature)',
         duplicate = "none" => ~KnownAsFound(report.signature)
  PROVE  ReportInv'
<1> USE DEF ReportInv, ReportTyped
<1>1. requests' = requests \ {c}
  BY DEF Deliver, Finished
<1>2. \A d \in requests' : RequestTyped(d) /\ \A p \in d.shown : AsFound(p)'
  BY <1>1 DEF AsFound
<1>3. ReportTyped' /\ \A p \in preview' : AsFound(p)'
  <2>1. CASE preview' = {[report |-> report, duplicate |-> duplicate]}
    BY <1>2, <2>1 DEF Previews, AsFound, RequestTyped
  <2>2. CASE UNCHANGED preview
    BY <1>2, <2>2 DEF AsFound, RequestTyped
  <2> QED
    BY <2>1, <2>2 DEF Deliver
<1>4. OpenedIsWhatWasShown'
  <2>1. CASE UNCHANGED opened
    BY <2>1 DEF OpenedIsWhatWasShown
  <2>2. CASE /\ c.confirmed = {Sha256(report)}
             /\ opened' = opened \union {[report |-> report, shown |-> c.shown, duplicate |-> duplicate]}
    <3>1. ASSUME NEW p \in c.shown
          PROVE  report = p.report /\ (p.duplicate = "found" => duplicate # "none")
      <4>1. Sha256(p.report) = Sha256(report)
        BY <2>2, <3>1, ZenonT(60) DEF RequestTyped
      <4> QED
        BY <3>1, <4>1 DEF Sha256, AsFound
    <3> QED
      BY <2>2, <3>1 DEF OpenedIsWhatWasShown
  <2> QED
    BY <2>1, <2>2 DEF Deliver, Open
<1> QED
  BY <1>2, <1>3, <1>4

LEMMA BuildStep ==
  ASSUME ReportInv, Build
  PROVE  ReportInv'
<1> USE DEF ReportInv, ReportTyped
<1>1. PICK c \in requests :
        \/ \E duplicate \in Fresh(Report(facts[c.run]).signature) : Deliver(c, Report(facts[c.run]), duplicate)
        \/ /\ requests' = (requests \ {c}) \union
                {[c EXCEPT !.report = {Report(facts[c.run])}, !.stage = IF c.kind = "save" THEN "dialog" ELSE "lookup"]}
           /\ UNCHANGED <<preview, opened>>
  BY DEF Build
<1>2. UNCHANGED <<facts, picked, cache, issues>>
  BY DEF Build
<1> DEFINE report == Report(facts[c.run])
<1>3. report \in Reports /\ report.signature \in Signatures
  BY ReportsAreSigned DEF RequestTyped
<1> HIDE DEF report
<1>4. CacheAgrees' /\ cache' \in Seq(Lookups) /\ \A signature : KnownAsFound(signature) <=> KnownAsFound(signature)'
  BY <1>2 DEF CacheAgrees, KnownAsFound
<1>5. ASSUME NEW duplicate \in Fresh(report.signature), Deliver(c, report, duplicate) PROVE ReportInv'
  <2>1. PICK i \in DOMAIN cache : cache[i].signature = report.signature /\ cache[i].result = duplicate
    BY <1>5 DEF Fresh, Remembered
  <2>2. duplicate \in LookupResults
    <3>1. cache \in Seq(Lookups)
      OBVIOUS
    <3>2. cache[i] \in Lookups
      BY <2>1, <3>1
    <3> QED
      BY <2>1, <3>2 DEF Lookups
  <2>3. duplicate = "found" => KnownAsFound(report.signature)
    BY <2>1 DEF CacheAgrees, KnownAsFound
  <2>4. duplicate = "none" => ~KnownAsFound(report.signature)
    BY <2>1 DEF KnownAsFound
  <2> QED
    BY <1>2, <1>3, <1>4, <1>5, <2>2, <2>3, <2>4, DeliverStep
<1>6. CASE /\ requests' = (requests \ {c}) \union
                {[c EXCEPT !.report = {report}, !.stage = IF c.kind = "save" THEN "dialog" ELSE "lookup"]}
           /\ UNCHANGED <<preview, opened>>
  <2> DEFINE d == [c EXCEPT !.report = {report}, !.stage = IF c.kind = "save" THEN "dialog" ELSE "lookup"]
  <2>1. /\ DOMAIN d = DOMAIN c /\ d.run = c.run /\ d.shown = c.shown
        /\ d.confirmed = c.confirmed /\ d.report = {report}
    BY DEF RequestTyped
  <2>2. RequestTyped(d)
    BY <1>3, <2>1 DEF RequestTyped
  <2>3. requests' = (requests \ {c}) \union {d} /\ d.shown = c.shown
    BY <1>6, <2>1
  <2> HIDE DEF d
  <2>4. \A e \in requests' : RequestTyped(e) /\ \A p \in e.shown : AsFound(p)
    BY <2>2, <2>3
  <2> QED
    BY <1>2, <1>4, <1>6, <2>4 DEF RequestTyped, AsFound, OpenedIsWhatWasShown
<1> QED
  BY <1>1, <1>5, <1>6 DEF report

LEMMA LookupStep ==
  ASSUME ReportInv, Lookup
  PROVE  ReportInv'
<1> USE DEF ReportInv, ReportTyped
<1>1. PICK c \in {d \in requests : d.stage = "lookup"} : \E duplicate \in LookupResults :
        LET report == CHOOSE r \in c.report : TRUE IN
        /\ duplicate = "found" => report.signature \in issues
        /\ duplicate = "none" => report.signature \notin issues
        /\ Remember(report.signature, duplicate)
        /\ Deliver(c, report, duplicate)
  BY DEF Lookup
<1> DEFINE report == CHOOSE r \in c.report : TRUE
<1>2. PICK duplicate \in LookupResults :
        /\ duplicate = "found" => report.signature \in issues
        /\ duplicate = "none" => report.signature \notin issues
        /\ Remember(report.signature, duplicate)
        /\ Deliver(c, report, duplicate)
  BY <1>1
<1>3. UNCHANGED <<facts, picked, issues>>
  BY DEF Lookup
<1>4. report \in Reports /\ report.signature \in Signatures
  BY <1>1, ReportsAreSigned DEF RequestTyped
<1> HIDE DEF report
<1>5. /\ cache' \in Seq(Lookups)
      /\ \A i \in DOMAIN cache' :
           \/ cache'[i].signature = report.signature /\ cache'[i].result = duplicate
           \/ \E j \in DOMAIN cache : cache'[i] = cache[j] /\ cache[j].signature # report.signature
  BY <1>2, <1>4, RememberedIsNew
<1>6. CacheAgrees'
  BY <1>2, <1>3, <1>5 DEF CacheAgrees
<1>7. \A signature : KnownAsFound(signature) => KnownAsFound(signature)'
  BY <1>2, <1>3, <1>5 DEF KnownAsFound
<1>8. duplicate = "found" => KnownAsFound(report.signature)'
  BY <1>2, <1>3, <1>5 DEF KnownAsFound
<1>9. duplicate = "none" => ~KnownAsFound(report.signature)
  BY <1>2 DEF KnownAsFound
<1> QED
  BY <1>1, <1>2, <1>3, <1>4, <1>5, <1>6, <1>7, <1>8, <1>9, DeliverStep

\* A request confirms what it is sent with.
LEMMA SendStep ==
  ASSUME ReportInv, NEW kind, NEW shows, Send(kind, shows), shows = {} \/ shows = preview,
         preview' \subseteq preview, UNCHANGED <<facts, picked, cache, issues, opened>>
  PROVE  ReportInv'
<1> DEFINE c == [id |-> sent, kind |-> kind, run |-> picked, stage |-> "list",
                 confirmed |-> {Sha256(p.report) : p \in shows}, shown |-> shows, report |-> {}]
<1>1. requests' = requests \union {c}
  BY DEF Send
<1>2. RequestTyped(c) /\ \A p \in c.shown : AsFound(p)
  BY DEF ReportInv, ReportTyped, RequestTyped
<1> HIDE DEF c
<1>3. \A signature : KnownAsFound(signature) <=> KnownAsFound(signature)'
  BY DEF KnownAsFound
<1> QED
  BY <1>1, <1>2, <1>3 DEF ReportInv, ReportTyped, CacheAgrees, OpenedIsWhatWasShown, AsFound,
     RequestTyped

LEMMA ReportStep ==
  ASSUME ReportInv, [ReportNext]_reportVars
  PROVE  ReportInv'
<1>1. CASE BeginBugReport
  <2>1. Send("prepare", {}) /\ preview' = {} /\ UNCHANGED <<facts, picked, cache, issues, opened>>
    BY <1>1 DEF BeginBugReport
  <2> QED
    BY <2>1, SendStep
<1>2. CASE PrepareBugReport
  <2>1. Send("prepare", {}) /\ UNCHANGED <<facts, picked, preview, cache, issues, opened>>
    BY <1>2 DEF PrepareBugReport
  <2> QED
    BY <2>1, SendStep
<1>3. CASE SaveOrOpen
  <2>1. PICK kind \in {"save", "open"} : Send(kind, preview)
    BY <1>3 DEF SaveOrOpen
  <2>2. UNCHANGED <<facts, picked, preview, cache, issues, opened>>
    BY <1>3 DEF SaveOrOpen
  <2> QED
    BY <2>1, <2>2, SendStep
<1>4. ASSUME requests' \subseteq requests, preview' \subseteq preview, picked' \in Runs, facts' \in [Runs -> Facts],
             UNCHANGED <<cache, opened>>, issues \subseteq issues'
      PROVE  ReportInv'
  <2>1. \A signature : KnownAsFound(signature) => KnownAsFound(signature)'
    BY <1>4 DEF KnownAsFound
  <2> QED
    BY <1>4, <2>1 DEF ReportInv, ReportTyped, CacheAgrees, OpenedIsWhatWasShown, AsFound,
       RequestTyped
<1>5. picked \in Runs /\ facts \in [Runs -> Facts]
  BY DEF ReportInv, ReportTyped
<1>6. CASE CloseDialog
  BY <1>4, <1>5, <1>6 DEF CloseDialog
<1>7. CASE SelectRun
  BY <1>4, <1>5, <1>7 DEF SelectRun
<1>8. CASE SaveToFile \/ RequestFails
  BY <1>4, <1>5, <1>8 DEF SaveToFile, RequestFails, Finished
<1>9. CASE RunChanges
  BY <1>4, <1>5, <1>9 DEF RunChanges
<1>10. CASE Submitted
  BY <1>4, <1>5, <1>10 DEF Submitted
<1>11. CASE MinutePasses
  <2>1. PICK i \in DOMAIN cache : cache' = [cache EXCEPT ![i].fresh = FALSE]
    BY <1>11 DEF MinutePasses
  <2>2. UNCHANGED <<facts, picked, preview, requests, issues, opened>>
    BY <1>11 DEF MinutePasses
  <2>3. cache \in Seq(Lookups)
    BY DEF ReportInv, ReportTyped
  <2>4. cache' \in Seq(Lookups) /\ DOMAIN cache' = DOMAIN cache
        /\ \A j \in DOMAIN cache : cache'[j].signature = cache[j].signature /\ cache'[j].result = cache[j].result
    <3>0. cache[i] \in Lookups
      BY <2>3
    <3>1. [cache[i] EXCEPT !.fresh = FALSE] \in Lookups
      BY <3>0 DEF Lookups
    <3>2. /\ [cache[i] EXCEPT !.fresh = FALSE].signature = cache[i].signature
          /\ [cache[i] EXCEPT !.fresh = FALSE].result = cache[i].result
      BY <3>0 DEF Lookups
    <3> QED
      BY <2>1, <2>3, <3>1, <3>2
  <2>5. \A signature : KnownAsFound(signature) => KnownAsFound(signature)'
    BY <2>2, <2>4 DEF KnownAsFound
  <2> QED
    BY <2>2, <2>4, <2>5 DEF ReportInv, ReportTyped, CacheAgrees, OpenedIsWhatWasShown, AsFound,
       RequestTyped
<1>12. CASE UNCHANGED reportVars
  BY <1>4, <1>5, <1>12 DEF reportVars
<1> QED
  BY <1>1, <1>2, <1>3, <1>6, <1>7, <1>8, <1>9, <1>10, <1>11, <1>12, BuildStep,
     LookupStep DEF ReportNext

\* Whatever Runs do, are selected or are submitted while requests are under way, what is
\* opened is the report that was confirmed, and it leads to the issue that was shown
\* unless the lookup is made again and not answered.
THEOREM OpenedIsWhatWasShownCorrect == ReportSpec => []OpenedIsWhatWasShown
<1>1. ReportInit => ReportInv
  <2> SUFFICES ASSUME ReportInit PROVE ReportInv
    OBVIOUS
  <2>1. facts \in [Runs -> Facts]
    BY DEF ReportInit
  <2> QED
    BY <2>1 DEF ReportInit, ReportInv, ReportTyped, CacheAgrees, OpenedIsWhatWasShown
<1>2. ReportInv /\ [ReportNext]_reportVars => ReportInv'
  BY ReportStep
<1>3. ReportInv => OpenedIsWhatWasShown
  BY DEF ReportInv
<1> QED
  BY <1>1, <1>2, <1>3, PTL DEF ReportSpec

-----------------------------------------------------------------------------
(* The workbench: its two files.  Updates wait for each other, so what the *)
(* first of them has read is what the file holds.                          *)

Notes == [seen : BOOLEAN, help : BOOLEAN, tutorial : SUBSET {Tutorial}]
RecentOps == [ask : Nat, place : Places, read : SUBSET Seq(Places)]
NoteOps == [ask : Nat, patch : {"seen", "tutorial"}, read : SUBSET Notes]

InTurn(ops, file) == \A i \in DOMAIN ops : ops[i].read # {} => i = 1 /\ ops[i].read = {file}

RecentsInv == recents \in Seq(Places) /\ recentOps \in Seq(RecentOps) /\ InTurn(recentOps, recents)
NotesInv == onboarding \in Notes /\ onboardingOps \in Seq(NoteOps) /\ InTurn(onboardingOps, onboarding)

\* What is left of a queue without its first element.
LEMMA WithoutFirst ==
  ASSUME NEW S, NEW q \in Seq(S), q # <<>>, NEW rest, rest = RemoveAt(q, 1)
  PROVE  /\ rest \in Seq(S) /\ Len(rest) = Len(q) - 1
         /\ \A i \in 1 .. Len(rest) : i + 1 \in 1 .. Len(q) /\ rest[i] = q[i + 1]
<1> DEFINE r == SubSeq(q, 2, Len(q))
<1>1. Len(q) \in Nat /\ 1 <= Len(q) /\ \A i \in 2 .. Len(q) : q[i] \in S
  OBVIOUS
<1>2. rest = SubSeq(q, 1, 0) \o r
  BY DEF RemoveAt
<1>3. SubSeq(q, 1, 0) = <<>>
  BY SubSeqEmpty
<1>4. rest = <<>> \o r
  BY <1>2, <1>3, Zenon
<1>5. /\ r \in Seq(S) /\ Len(r) = IF 2 <= Len(q) THEN Len(q) - 2 + 1 ELSE 0
      /\ \A i \in 1 .. Len(q) - 2 + 1 : r[i] = q[2 + i - 1]
  BY <1>1, SubSeqProperties
<1> HIDE DEF r
<1>6. Len(q) - 2 + 1 = Len(q) - 1 /\ (~(2 <= Len(q)) => Len(q) - 1 = 0)
  <2>1. Len(q) \in Nat /\ 1 <= Len(q)
    BY <1>1
  <2>2. \A n \in Nat : 1 <= n => n - 2 + 1 = n - 1 /\ (~(2 <= n) => n - 1 = 0)
    OBVIOUS
  <2> QED
    BY <2>1, <2>2, Zenon
<1>7. Len(r) = Len(q) - 1
  <2>1. CASE 2 <= Len(q)
    BY <1>5, <1>6, <2>1, Zenon
  <2>2. CASE ~(2 <= Len(q))
    BY <1>5, <1>6, <2>2, Zenon
  <2> QED
    BY <2>1, <2>2
<1>8. rest = r
  BY <1>4, <1>5
<1>9. ASSUME NEW i \in 1 .. Len(rest) PROVE i + 1 \in 1 .. Len(q) /\ rest[i] = q[i + 1]
  <2>1. i \in 1 .. Len(q) - 2 + 1 /\ 2 + i - 1 = i + 1
    BY <1>1, <1>7, <1>8, <1>9
  <2> QED
    BY <1>1, <1>5, <1>8, <2>1
<1> QED
  BY <1>5, <1>7, <1>8, <1>9

LEMMA PromoteIsTyped ==
  ASSUME NEW w \in Places, NEW paths \in Seq(Places)
  PROVE  Promote(w, paths) \in Seq(Places)
<1> DEFINE ats == {i \in DOMAIN paths : paths[i] = w}
           others == IF ats = {} THEN paths ELSE RemoveAt(paths, CHOOSE i \in ats : TRUE)
           n == IF Len(others) < RecentLimit THEN Len(others) + 1 ELSE RecentLimit
<1>1. others \in Seq(Places)
  <2>1. CASE ats = {}
    BY <2>1
  <2>2. CASE ats # {}
    <3> DEFINE k == CHOOSE i \in ats : TRUE
    <3>1. k \in 1 .. Len(paths)
      BY <2>2
    <3> HIDE DEF k
    <3>2. SubSeq(paths, 1, k - 1) \in Seq(Places) /\ SubSeq(paths, k + 1, Len(paths)) \in Seq(Places)
      BY <3>1
    <3>3. RemoveAt(paths, k) \in Seq(Places)
      BY <3>2 DEF RemoveAt
    <3> QED
      BY <2>2, <3>3 DEF k
  <2> QED
    BY <2>1, <2>2
<1>2. Promote(w, paths) = SubSeq(<<w>> \o others, 1, n)
  BY DEF Promote
<1> HIDE DEF others
<1>3. RecentLimit \in Nat /\ Len(others) \in Nat
  BY <1>1, WorkbenchBounds
<1>4. n \in Nat /\ n <= Len(others) + 1
  BY <1>3
<1>5. <<w>> \o others \in Seq(Places) /\ Len(<<w>> \o others) = Len(others) + 1
  <2> DEFINE top == <<w>>
  <2>1. top \in Seq(Places) /\ Len(top) = 1
    OBVIOUS
  <2> HIDE DEF top
  <2>2. top \o others \in Seq(Places) /\ Len(top \o others) = Len(top) + Len(others)
    BY <1>1, <2>1, ConcatProperties
  <2>3. Len(top \o others) = Len(others) + 1
    BY <1>3, <2>1, <2>2
  <2> QED
    BY <2>2, <2>3 DEF top
<1> HIDE DEF n
<1> QED
  BY <1>2, <1>4, <1>5

LEMMA QueueRecentStep ==
  ASSUME RecentsInv, NEW id \in Nat, NEW w \in Places, QueueRecent(id, w), UNCHANGED recents
  PROVE  RecentsInv'
<1> DEFINE op == [ask |-> id, place |-> w, read |-> {}]
<1>1. op \in RecentOps /\ op.read = {} /\ recentOps' = Append(recentOps, op)
  BY DEF RecentOps, QueueRecent
<1> HIDE DEF op
<1>2. /\ recentOps' \in Seq(RecentOps)
      /\ \A i \in DOMAIN recentOps' : (i \in DOMAIN recentOps /\ recentOps'[i] = recentOps[i]) \/ recentOps'[i] = op
  BY <1>1 DEF RecentsInv
<1> QED
  BY <1>1, <1>2 DEF RecentsInv, InTurn

LEMMA QueueNoteStep ==
  ASSUME NotesInv, NEW id \in Nat, NEW patch \in {"seen", "tutorial"}, QueueNote(id, patch), UNCHANGED onboarding
  PROVE  NotesInv'
<1> DEFINE op == [ask |-> id, patch |-> patch, read |-> {}]
<1>1. op \in NoteOps /\ op.read = {} /\ onboardingOps' = Append(onboardingOps, op)
  BY DEF NoteOps, QueueNote
<1> HIDE DEF op
<1>2. /\ onboardingOps' \in Seq(NoteOps)
      /\ \A i \in DOMAIN onboardingOps' :
           (i \in DOMAIN onboardingOps /\ onboardingOps'[i] = onboardingOps[i]) \/ onboardingOps'[i] = op
  BY <1>1 DEF NotesInv
<1> QED
  BY <1>1, <1>2 DEF NotesInv, InTurn

LEMMA RecentsStep ==
  ASSUME RecentsInv, ReadRecents \/ WriteRecents
  PROVE  RecentsInv' /\ (recents' # recents => \E w \in Places : recents' = Promote(w, recents))
<1> USE DEF RecentsInv
<1>1. CASE ReadRecents
  <2>1. PICK i \in DOMAIN recentOps : i = 1 /\ recentOps' = [recentOps EXCEPT ![i].read = {recents}]
    BY <1>1 DEF ReadRecents, Turn
  <2>2. UNCHANGED recents
    BY <1>1 DEF ReadRecents
  <2>3. recentOps[i] \in RecentOps
    OBVIOUS
  <2> DEFINE op == [recentOps[i] EXCEPT !.read = {recents}]
  <2>4. op \in RecentOps /\ op.read = {recents} /\ recentOps' = [recentOps EXCEPT ![i] = op]
    BY <2>1, <2>3 DEF RecentOps
  <2> HIDE DEF op
  <2>5. recentOps' \in Seq(RecentOps) /\ InTurn(recentOps', recents)
    <3>1. recentOps \in Seq(RecentOps) /\ InTurn(recentOps, recents)
      OBVIOUS
    <3>2. recentOps' \in Seq(RecentOps)
      BY <2>4, <3>1
    <3>3. /\ DOMAIN recentOps' = DOMAIN recentOps
          /\ \A j \in DOMAIN recentOps : recentOps'[j] = IF j = i THEN op ELSE recentOps[j]
      BY <2>4
    <3> QED
      BY <2>1, <2>4, <3>1, <3>2, <3>3 DEF InTurn
  <2> QED
    BY <2>2, <2>5
<1>2. CASE WriteRecents
  <2>0. PICK i \in DOMAIN recentOps : \E read \in recentOps[i].read :
          recentOps' = RemoveAt(recentOps, i) /\ recents' \in {recents, Promote(recentOps[i].place, read)}
    BY <1>2 DEF WriteRecents
  <2>1. PICK read \in recentOps[i].read :
          recentOps' = RemoveAt(recentOps, i) /\ recents' \in {recents, Promote(recentOps[i].place, read)}
    BY <2>0
  <2>2. i = 1 /\ read = recents /\ recentOps # <<>>
    BY <2>1 DEF InTurn
  <2>3. recentOps[i].place \in Places
    <3>1. recentOps[i] \in RecentOps
      OBVIOUS
    <3> QED
      BY <3>1 DEF RecentOps
  <2>4. recents' \in Seq(Places) /\ (recents' # recents => \E w \in Places : recents' = Promote(w, recents))
    BY <2>1, <2>2, <2>3, PromoteIsTyped
  <2>5. /\ recentOps' \in Seq(RecentOps)
        /\ \A j \in DOMAIN recentOps' : j \in Nat /\ 1 <= j /\ j + 1 \in DOMAIN recentOps /\ recentOps'[j] = recentOps[j + 1]
    <3>1. recentOps \in Seq(RecentOps) /\ DOMAIN recentOps = 1 .. Len(recentOps)
      OBVIOUS
    <3>2. /\ recentOps' \in Seq(RecentOps)
          /\ \A j \in 1 .. Len(recentOps') : j + 1 \in 1 .. Len(recentOps) /\ recentOps'[j] = recentOps[j + 1]
      BY <2>1, <2>2, <3>1, WithoutFirst
    <3>3. DOMAIN recentOps' = 1 .. Len(recentOps') /\ Len(recentOps') \in Nat
      BY <3>2
    <3> QED
      BY <3>1, <3>2, <3>3
  <2>6. \A j \in DOMAIN recentOps' : recentOps'[j].read = {}
    <3> SUFFICES ASSUME NEW j \in DOMAIN recentOps' PROVE recentOps'[j].read = {}
      OBVIOUS
    <3>1. j + 1 \in DOMAIN recentOps /\ j + 1 # 1 /\ recentOps'[j] = recentOps[j + 1]
      BY <2>5
    <3> QED
      BY <3>1 DEF InTurn
  <2> QED
    BY <2>4, <2>5, <2>6 DEF InTurn
<1> QED
  BY <1>1, <1>2

LEMMA NotesStep ==
  ASSUME NotesInv, ReadOnboarding \/ WriteOnboarding
  PROVE  /\ NotesInv'
         /\ onboarding' # onboarding =>
              \E patch \in {"seen", "tutorial"} : onboarding' = Patch(onboarding, patch)
<1> USE DEF NotesInv
<1>1. CASE ReadOnboarding
  <2>1. PICK i \in DOMAIN onboardingOps : i = 1 /\ onboardingOps' = [onboardingOps EXCEPT ![i].read = {onboarding}]
    BY <1>1 DEF ReadOnboarding, Turn
  <2>2. UNCHANGED onboarding
    BY <1>1 DEF ReadOnboarding
  <2>3. onboardingOps[i] \in NoteOps
    OBVIOUS
  <2> DEFINE op == [onboardingOps[i] EXCEPT !.read = {onboarding}]
  <2>4. op \in NoteOps /\ op.read = {onboarding} /\ onboardingOps' = [onboardingOps EXCEPT ![i] = op]
    BY <2>1, <2>3 DEF NoteOps
  <2> HIDE DEF op
  <2>5. onboardingOps' \in Seq(NoteOps) /\ InTurn(onboardingOps', onboarding)
    <3>1. onboardingOps \in Seq(NoteOps) /\ InTurn(onboardingOps, onboarding)
      OBVIOUS
    <3>2. onboardingOps' \in Seq(NoteOps)
      BY <2>4, <3>1
    <3>3. /\ DOMAIN onboardingOps' = DOMAIN onboardingOps
          /\ \A j \in DOMAIN onboardingOps : onboardingOps'[j] = IF j = i THEN op ELSE onboardingOps[j]
      BY <2>4
    <3> QED
      BY <2>1, <2>4, <3>1, <3>2, <3>3 DEF InTurn
  <2> QED
    BY <2>2, <2>5
<1>2. CASE WriteOnboarding
  <2>0. PICK i \in DOMAIN onboardingOps : \E read \in onboardingOps[i].read :
          onboardingOps' = RemoveAt(onboardingOps, i) /\ onboarding' = Patch(read, onboardingOps[i].patch)
    BY <1>2 DEF WriteOnboarding
  <2>1. PICK read \in onboardingOps[i].read :
          onboardingOps' = RemoveAt(onboardingOps, i) /\ onboarding' = Patch(read, onboardingOps[i].patch)
    BY <2>0
  <2>2. i = 1 /\ read = onboarding /\ onboardingOps # <<>>
    BY <2>1 DEF InTurn
  <2>3. onboardingOps[i].patch \in {"seen", "tutorial"}
    <3>1. onboardingOps[i] \in NoteOps
      OBVIOUS
    <3> QED
      BY <3>1 DEF NoteOps
  <2>4. /\ onboarding' \in Notes
        /\ \E patch \in {"seen", "tutorial"} : onboarding' = Patch(onboarding, patch)
    BY <2>1, <2>2, <2>3 DEF Patch, Notes
  <2>5. /\ onboardingOps' \in Seq(NoteOps)
        /\ \A j \in DOMAIN onboardingOps' :
             j \in Nat /\ 1 <= j /\ j + 1 \in DOMAIN onboardingOps /\ onboardingOps'[j] = onboardingOps[j + 1]
    <3>1. onboardingOps \in Seq(NoteOps) /\ DOMAIN onboardingOps = 1 .. Len(onboardingOps)
      OBVIOUS
    <3>2. /\ onboardingOps' \in Seq(NoteOps)
          /\ \A j \in 1 .. Len(onboardingOps') :
               j + 1 \in 1 .. Len(onboardingOps) /\ onboardingOps'[j] = onboardingOps[j + 1]
      BY <2>1, <2>2, <3>1, WithoutFirst
    <3>3. DOMAIN onboardingOps' = 1 .. Len(onboardingOps') /\ Len(onboardingOps') \in Nat
      BY <3>2
    <3> QED
      BY <3>1, <3>2, <3>3
  <2>6. \A j \in DOMAIN onboardingOps' : onboardingOps'[j].read = {}
    <3> SUFFICES ASSUME NEW j \in DOMAIN onboardingOps' PROVE onboardingOps'[j].read = {}
      OBVIOUS
    <3>1. j + 1 \in DOMAIN onboardingOps /\ j + 1 # 1 /\ onboardingOps'[j] = onboardingOps[j + 1]
      BY <2>5
    <3> QED
      BY <3>1 DEF InTurn
  <2> QED
    BY <2>4, <2>5, <2>6 DEF InTurn
<1> QED
  BY <1>1, <1>2

-----------------------------------------------------------------------------
(* The workbench: the requests in progress, and what the handlers that     *)
(* answer them queue on the two files.                                     *)

Kinds == {"choose", "open", "start", "tutorial", "note", "enter", "guide", "store", "delete"}
Subjects == Places \union Providers \union {"sample", "own", "open", "close"}
Asks == [id : Nat, kind : Kinds, about : Subjects]

AsksInv ==
  /\ acts \in Nat /\ asks \subseteq Asks
  /\ \A ask \in asks : ask.kind \in {"choose", "open", "start"} => ask.about \in Places

FilesInv ==
  /\ RecentsInv /\ NotesInv /\ AsksInv
  /\ place \in Places \union {Nothing} /\ provider \in Providers

LEMMA ActStep ==
  ASSUME AsksInv, NEW kind \in Kinds, NEW about \in Subjects, Act(kind, about),
         kind \in {"choose", "open", "start"} => about \in Places
  PROVE  AsksInv'
<1> DEFINE new == [id |-> acts, kind |-> kind, about |-> about]
<1>1. new \in Asks /\ new.kind = kind /\ new.about = about /\ asks' = asks \union {new} /\ acts' = acts + 1
  BY DEF Act, Asks, AsksInv
<1> HIDE DEF new
<1> QED
  BY <1>1 DEF AsksInv

\* A request that goes on to its next stage.
LEMMA NextStageStep ==
  ASSUME AsksInv, NEW ask \in asks, NEW kind \in Kinds, UNCHANGED acts,
         asks' = (asks \ {ask}) \union {[ask EXCEPT !.kind = kind]},
         kind \in {"choose", "open", "start"} => ask.about \in Places
  PROVE  AsksInv'
<1> DEFINE new == [ask EXCEPT !.kind = kind]
<1>1. ask \in Asks
  BY DEF AsksInv
<1>2. new \in Asks /\ new.kind = kind /\ new.about = ask.about /\ asks' = (asks \ {ask}) \union {new}
  BY <1>1 DEF Asks
<1> HIDE DEF new
<1> QED
  BY <1>2 DEF AsksInv

LEMMA AskIsTyped ==
  ASSUME AsksInv, NEW ask \in asks
  PROVE  /\ ask.id \in Nat /\ ask.about \in Subjects
         /\ ask.kind \in {"choose", "open", "start"} => ask.about \in Places
<1>1. ask \in Asks
  BY DEF AsksInv
<1> QED
  BY <1>1 DEF AsksInv, Asks

\* The workspace bootstrap opens is one the file holds.
LEMMA BootstrapStep ==
  ASSUME RecentsInv, Bootstrap
  PROVE  \E w \in Places \union {Nothing} :
           /\ place' = w /\ LoadCatalog(w)
           /\ \A p \in Providers : available'[p] = Source(p)
           /\ available' \in [Providers -> {"environment", "system", "none"}]
           /\ preferred # Nothing => provider' = provider
           /\ provider' \in Providers \union {provider}
           /\ UNCHANGED <<draft, preferred, environment, stored>>
<1> DEFINE w == IF recents = <<>> THEN Nothing ELSE Head(recents)
<1>1. recents \in Seq(Places)
  BY DEF RecentsInv
<1>2. w \in Places \union {Nothing}
  <2>1. CASE recents = <<>>
    BY <2>1
  <2>2. CASE recents # <<>>
    <3>1. Head(recents) \in Places
      BY <1>1, <2>2
    <3> QED
      BY <2>2, <3>1
  <2> QED
    BY <2>1, <2>2
<1>3. place' = w /\ LoadCatalog(w)
  BY DEF Bootstrap
<1>4. /\ available' = [p \in Providers |-> Source(p)] /\ UNCHANGED <<draft, preferred, environment, stored>>
      /\ preferred # Nothing => provider' = provider
      /\ provider' \in Providers \union {provider}
  BY DEF Bootstrap, Quiet, keys
<1>5. \A p \in Providers : Source(p) \in {"environment", "system", "none"}
  BY DEF Source
<1> HIDE DEF w
<1> QED
  BY <1>2, <1>3, <1>4, <1>5

LEMMA FilesInvStep ==
  ASSUME FilesInv, [BenchNext]_benchVars
  PROVE  /\ FilesInv'
         /\ recents' # recents => \E w \in Places : recents' = Promote(w, recents)
         /\ onboarding' # onboarding => \E patch \in {"seen", "tutorial"} : onboarding' = Patch(onboarding, patch)
<1> USE DEF FilesInv
<1>1. UNCHANGED <<recents, recentOps>> => RecentsInv' /\ recents' = recents
  BY DEF RecentsInv, InTurn
<1>2. UNCHANGED <<onboarding, onboardingOps>> => NotesInv' /\ onboarding' = onboarding
  BY DEF NotesInv, InTurn
<1>3. UNCHANGED <<asks, acts>> => AsksInv'
  BY DEF AsksInv
<1>4. asks' \subseteq asks /\ acts' \in {acts, acts + 1} => AsksInv'
  BY DEF AsksInv
<1>5. CASE ReadRecents \/ WriteRecents
  <2>1. UNCHANGED <<onboarding, onboardingOps, asks, acts, place, provider>>
    BY <1>5 DEF ReadRecents, WriteRecents, showing, providing
  <2> QED
    BY <1>5, <1>2, <1>3, <2>1, RecentsStep
<1>6. CASE ReadOnboarding \/ WriteOnboarding
  <2>1. UNCHANGED <<recents, recentOps, asks, acts, place, provider>>
    BY <1>6 DEF ReadOnboarding, WriteOnboarding, showing, providing
  <2> QED
    BY <1>6, <1>1, <1>3, <2>1, NotesStep
<1>7. CASE Bootstrap
  <2>1. UNCHANGED <<recents, recentOps, onboarding, onboardingOps, asks, acts>>
    BY <1>7 DEF Bootstrap, Quiet, files
  <2>2. place' \in Places \union {Nothing} /\ provider' \in Providers
    BY <1>7, BootstrapStep
  <2> QED
    BY <1>1, <1>2, <1>3, <2>1, <2>2
<1>8. CASE CatalogLoaded \/ RefreshCatalog \/ SelectSkill \/ BeginNewTask \/ RunIsOver
  <2>1. UNCHANGED <<recents, recentOps, onboarding, onboardingOps, asks, place, provider>> /\ acts' \in {acts, acts + 1}
    BY <1>8 DEF CatalogLoaded, RefreshCatalog, SelectSkill, BeginNewTask, RunIsOver, Quiet,
                 files, showing, providing
  <2> QED
    BY <1>1, <1>2, <1>4, <2>1
<1>9. CASE ChooseWorkspace
  <2>1. PICK w \in Workspaces : Act("choose", w) /\ QueueRecent(acts, w)
    BY <1>9 DEF ChooseWorkspace
  <2>2. UNCHANGED <<recents, onboarding, onboardingOps, place, provider>> /\ w \in Places
    BY <1>9 DEF ChooseWorkspace, showing, providing, Places
  <2>3. AsksInv' /\ acts \in Nat
    BY <2>1, <2>2, ActStep DEF Kinds, Subjects, AsksInv
  <2>4. RecentsInv'
    BY <2>1, <2>2, <2>3, QueueRecentStep
  <2> QED
    BY <1>2, <2>2, <2>3, <2>4
<1>10. CASE OpenRecentWorkspace
  <2>1. PICK w \in Range(recents) \ {place} : Act("open", w) /\ QueueRecent(acts, w)
    BY <1>10 DEF OpenRecentWorkspace
  <2>2. UNCHANGED <<recents, onboarding, onboardingOps, place, provider>>
    BY <1>10 DEF OpenRecentWorkspace, showing, providing
  <2>3. w \in Places
    <3>1. PICK i \in DOMAIN recents : w = recents[i]
      BY <2>1 DEF Range
    <3>2. recents \in Seq(Places)
      BY DEF RecentsInv
    <3> QED
      BY <3>1, <3>2
  <2>4. AsksInv' /\ acts \in Nat
    BY <2>1, <2>3, ActStep DEF Kinds, Subjects, AsksInv
  <2>5. RecentsInv'
    BY <2>1, <2>2, <2>3, <2>4, QueueRecentStep
  <2> QED
    BY <1>2, <2>2, <2>4, <2>5
<1>11. CASE WorkspaceChosen
  <2>1. PICK ask \in asks :
          /\ ask.kind = "choose" /\ QueueRecent(ask.id, ask.about)
          /\ asks' = (asks \ {ask}) \union {[ask EXCEPT !.kind = "open"]}
    BY <1>11 DEF WorkspaceChosen
  <2>2. UNCHANGED <<recents, onboarding, onboardingOps, place, provider, acts>>
    BY <1>11 DEF WorkspaceChosen, showing, providing
  <2>3. ask.about \in Places /\ ask.id \in Nat
    BY <2>1, AskIsTyped
  <2>4. AsksInv'
    BY <2>1, <2>2, <2>3, NextStageStep DEF Kinds
  <2>5. RecentsInv'
    BY <2>1, <2>2, <2>3, QueueRecentStep
  <2> QED
    BY <1>2, <2>2, <2>4, <2>5
<1>12. CASE WorkspaceOpened
  <2>1. PICK ask \in asks : ask.kind = "open" /\ asks' = asks \ {ask} /\ place' = ask.about
    BY <1>12 DEF WorkspaceOpened, Answered, Enter
  <2>2. UNCHANGED <<recents, recentOps, onboarding, onboardingOps, acts, provider>>
    BY <1>12 DEF WorkspaceOpened, Quiet, files, providing
  <2>3. ask.about \in Places
    BY <2>1, AskIsTyped
  <2> QED
    BY <1>1, <1>2, <1>4, <2>1, <2>2, <2>3
<1>13. CASE CreateTutorial
  <2>1. PICK file \in {"sample", "own"} : Act("tutorial", file)
    BY <1>13 DEF CreateTutorial
  <2>2. UNCHANGED <<recents, recentOps, onboarding, onboardingOps, place, provider>>
    BY <1>13 DEF CreateTutorial, Quiet, files, showing, providing
  <2>3. AsksInv'
    BY <2>1, ActStep DEF Kinds, Subjects
  <2> QED
    BY <1>1, <1>2, <2>2, <2>3
<1>14. CASE TutorialCreated
  <2>1. PICK ask \in asks :
          QueueNote(ask.id, "tutorial") /\ asks' = (asks \ {ask}) \union {[ask EXCEPT !.kind = "note"]}
    BY <1>14 DEF TutorialCreated
  <2>2. UNCHANGED <<recents, recentOps, onboarding, place, provider, acts>>
    BY <1>14 DEF TutorialCreated, showing, providing
  <2>3. AsksInv' /\ ask.id \in Nat
    BY <2>1, <2>2, NextStageStep, AskIsTyped DEF Kinds
  <2>4. NotesInv'
    BY <2>1, <2>2, <2>3, QueueNoteStep
  <2> QED
    BY <1>1, <2>2, <2>3, <2>4
<1>15. CASE TutorialNoted
  <2>1. PICK ask \in asks :
          QueueRecent(ask.id, Tutorial) /\ asks' = (asks \ {ask}) \union {[ask EXCEPT !.kind = "enter"]}
    BY <1>15 DEF TutorialNoted
  <2>2. UNCHANGED <<recents, onboarding, onboardingOps, place, provider, acts>>
    BY <1>15 DEF TutorialNoted, showing, providing
  <2>3. AsksInv' /\ ask.id \in Nat
    BY <2>1, <2>2, NextStageStep, AskIsTyped DEF Kinds
  <2>4. RecentsInv'
    BY <2>1, <2>2, <2>3, QueueRecentStep DEF Places
  <2> QED
    BY <1>2, <2>2, <2>3, <2>4
<1>16. CASE TutorialEntered
  <2>1. PICK ask \in asks : asks' = asks \ {ask} /\ place' = Tutorial
    BY <1>16 DEF TutorialEntered, Answered, Enter
  <2>2. UNCHANGED <<recents, recentOps, onboarding, onboardingOps, acts, provider>>
    BY <1>16 DEF TutorialEntered, Quiet, files, providing
  <2> QED
    BY <1>1, <1>2, <1>4, <2>1, <2>2 DEF Places
<1>17. CASE Guide
  <2>1. UNCHANGED <<recents, recentOps, onboarding, place, provider>>
    BY <1>17 DEF Guide, providing
  <2>2. CASE UNCHANGED <<onboardingOps, asks, acts>>
    BY <1>1, <1>2, <1>3, <2>1, <2>2
  <2>3. CASE \E how \in {"open", "close"} : Act("guide", how) /\ QueueNote(acts, "seen")
    <3>1. PICK how \in {"open", "close"} : Act("guide", how) /\ QueueNote(acts, "seen")
      BY <2>3
    <3>2. AsksInv' /\ acts \in Nat
      BY <3>1, ActStep DEF Kinds, Subjects, AsksInv
    <3>3. NotesInv'
      BY <2>1, <3>1, <3>2, QueueNoteStep
    <3> QED
      BY <1>1, <2>1, <3>2, <3>3
  <2> QED
    BY <1>17, <2>2, <2>3 DEF Guide
<1>18. CASE GuideNoted
  <2>1. PICK ask \in asks : asks' = asks \ {ask}
    BY <1>18 DEF GuideNoted, Answered
  <2>2. UNCHANGED <<recents, recentOps, onboarding, onboardingOps, place, provider, acts>>
    BY <1>18 DEF GuideNoted, Quiet, files, providing
  <2> QED
    BY <1>1, <1>2, <1>4, <2>1, <2>2
<1>19. CASE StartRun
  <2>1. Act("start", place) /\ QueueRecent(acts, place) /\ place \in Places
    BY <1>19 DEF StartRun
  <2>2. UNCHANGED <<recents, onboarding, onboardingOps, place, provider>>
    BY <1>19 DEF StartRun, showing, providing
  <2>3. AsksInv' /\ acts \in Nat
    BY <2>1, ActStep DEF Kinds, Subjects, AsksInv
  <2>4. RecentsInv'
    BY <2>1, <2>2, <2>3, QueueRecentStep
  <2> QED
    BY <1>2, <2>2, <2>3, <2>4
<1>20. CASE RunStarted
  <2>1. PICK ask \in asks : asks' = asks \ {ask}
    BY <1>20 DEF RunStarted, Answered
  <2>2. UNCHANGED <<recents, recentOps, onboarding, onboardingOps, place, provider, acts>>
    BY <1>20 DEF RunStarted, files, providing
  <2> QED
    BY <1>1, <1>2, <1>4, <2>1, <2>2
<1>21. CASE StoreOrDelete
  <2>1. PICK kind \in CredentialKinds : Act(kind, provider)
    BY <1>21 DEF StoreOrDelete
  <2>2. UNCHANGED <<recents, recentOps, onboarding, onboardingOps, place, provider>>
    BY <1>21 DEF StoreOrDelete, Quiet, files, showing, providing
  <2>3. AsksInv'
    BY <2>1, ActStep DEF Kinds, Subjects, CredentialKinds
  <2> QED
    BY <1>1, <1>2, <2>2, <2>3
<1>22. CASE CredentialAnswered
  <2>1. PICK ask \in asks : asks' = asks \ {ask}
    BY <1>22 DEF CredentialAnswered, Answered
  <2>2. UNCHANGED <<recents, recentOps, onboarding, onboardingOps, place, provider, acts>>
    BY <1>22 DEF CredentialAnswered, files, showing, providing
  <2> QED
    BY <1>1, <1>2, <1>4, <2>1, <2>2
<1>23. CASE UNCHANGED benchVars
  BY <1>1, <1>2, <1>3, <1>23 DEF benchVars, files, showing, providing
<1>24. CASE SelectProvider
  <2>1. UNCHANGED <<recents, recentOps, onboarding, onboardingOps, asks, place>> /\ acts' \in {acts, acts + 1}
    BY <1>24 DEF SelectProvider, Quiet, files, showing
  <2>2. provider' \in Providers
    BY <1>24 DEF SelectProvider
  <2> QED
    BY <1>1, <1>2, <1>4, <2>1, <2>2
<1> QED
  BY <1>5, <1>6, <1>7, <1>8, <1>9, <1>10, <1>11, <1>12, <1>13, <1>14, <1>15, <1>16, <1>17, <1>18,
     <1>19, <1>20, <1>21, <1>22, <1>23, <1>24 DEF BenchNext

LEMMA BenchStarts ==
  ASSUME BenchInit
  PROVE  FilesInv
<1>1. RecentsInv
  <2>1. PICK w \in Workspaces : recents \in {<<>>, <<w>>}
    BY DEF BenchInit
  <2>2. w \in Places
    BY DEF Places
  <2>3. recents \in Seq(Places)
    <3>1. <<w>> \in Seq(Places) /\ <<>> \in Seq(Places)
      BY <2>2
    <3> QED
      BY <2>1, <3>1, Zenon
  <2>4. recentOps = <<>>
    BY DEF BenchInit
  <2> QED
    BY <2>3, <2>4 DEF RecentsInv, InTurn
<1>2. NotesInv
  BY DEF BenchInit, NotesInv, InTurn, Notes
<1> QED
  BY <1>1, <1>2 DEF BenchInit, FilesInv, AsksInv

\* Of updates of one file that overlap, none is lost: for any number of requests, and
\* for any workspaces.
THEOREM FilesKeepUpdatesCorrect == BenchSpec => FilesKeepUpdates
<1>1. BenchInit => FilesInv
  BY BenchStarts
<1>2. FilesInv /\ [BenchNext]_benchVars => FilesInv'
  BY FilesInvStep
<1>3. FilesInv /\ [BenchNext]_benchVars =>
        [/\ recents' # recents => \E w \in Places : recents' = Promote(w, recents)
         /\ onboarding' # onboarding =>
              \E patch \in {"seen", "tutorial"} : onboarding' = Patch(onboarding, patch)]_benchVars
  BY FilesInvStep
<1> QED
  BY <1>1, <1>2, <1>3, PTL DEF BenchSpec, FilesKeepUpdates

-----------------------------------------------------------------------------
(* The workbench: what the window shows.                                   *)

Loads == [id : Nat, place : Places, current : BOOLEAN]
Drafts == [sources : SUBSET Subjects, skills : SUBSET Skills]
Sources == {"environment", "system", "none"}

\* The load that is waited for is of the workspace shown; when none is, the catalog
\* shown is that workspace's.
CatalogInv ==
  /\ loads \subseteq Loads /\ draft \in Drafts /\ catalog \in Places \union {Nothing}
  /\ \A l \in loads : l.current => l.place = place
  /\ \/ \E l \in loads : l.current
     \/ catalog = Nothing
     \/ catalog = place /\ draft.skills \subseteq Offers[place]

ProvidersInv ==
  /\ available \in [Providers -> Sources]
  /\ ready => \A p \in Providers : available[p] = Source(p)
  /\ preferred # Nothing => provider = preferred

WindowInv == FilesInv /\ CatalogInv /\ ProvidersInv

\* Whatever was loaded for the place shown before is not waited for any more.
LEMMA LoadStep ==
  ASSUME loads \subseteq Loads, catalog \in Places \union {Nothing}, acts \in Nat,
         NEW w \in Places \union {Nothing}, LoadCatalog(w), place' = w, draft' \in Drafts
  PROVE  CatalogInv'
<1> DEFINE old == {[l EXCEPT !.current = FALSE] : l \in loads}
           new == [id |-> acts, place |-> w, current |-> TRUE]
<1>1. old \subseteq Loads /\ \A l \in old : l.current = FALSE
  <2> SUFFICES ASSUME NEW l \in loads
               PROVE  /\ [l EXCEPT !.current = FALSE] \in Loads
                      /\ [l EXCEPT !.current = FALSE].current = FALSE
    OBVIOUS
  <2>1. l \in Loads
    OBVIOUS
  <2> QED
    BY <2>1 DEF Loads
<1>2. /\ w = Nothing => loads' = old /\ catalog' = Nothing
      /\ w # Nothing => loads' = old \union {new} /\ catalog' = catalog
  BY DEF LoadCatalog
<1>3. w # Nothing => new \in Loads /\ new.current = TRUE /\ new.place = w
  BY DEF Loads
<1> HIDE DEF old, new
<1>4. CASE w = Nothing
  BY <1>1, <1>2, <1>4 DEF CatalogInv
<1>5. CASE w # Nothing
  <2>1. loads' \subseteq Loads /\ catalog' \in Places \union {Nothing}
    BY <1>1, <1>2, <1>3, <1>5
  <2>2. \A l \in loads' : l.current => l.place = place'
    BY <1>1, <1>2, <1>3, <1>5
  <2>3. \E l \in loads' : l.current
    BY <1>2, <1>3, <1>5
  <2> QED
    BY <2>1, <2>2, <2>3 DEF CatalogInv
<1> QED
  BY <1>4, <1>5

LEMMA EnterStep ==
  ASSUME CatalogInv, acts \in Nat, NEW w \in Places, NEW sources \in SUBSET Subjects, Enter(w, sources)
  PROVE  CatalogInv'
<1>1. place' = w /\ draft' = [sources |-> sources, skills |-> {}]
  BY DEF Enter
<1>2. draft' \in Drafts /\ draft'.skills = {}
  BY <1>1 DEF Drafts
<1>3. CASE place = w
  <2>1. UNCHANGED <<catalog, loads>>
    BY <1>3 DEF Enter
  <2> QED
    BY <1>1, <1>2, <1>3, <2>1 DEF CatalogInv
<1>4. CASE place # w
  <2>1. LoadCatalog(w)
    BY <1>4 DEF Enter
  <2> QED
    BY <1>1, <1>2, <2>1, LoadStep DEF CatalogInv
<1> QED
  BY <1>3, <1>4

LEMMA CatalogStep ==
  ASSUME FilesInv, CatalogInv, [BenchNext]_benchVars
  PROVE  CatalogInv'
<1> USE DEF FilesInv
<1>1. acts \in Nat
  BY DEF AsksInv
<1>2. UNCHANGED <<place, catalog, loads, draft>> => CatalogInv'
  BY DEF CatalogInv
<1>3. CASE \/ ReadRecents \/ WriteRecents \/ ReadOnboarding \/ WriteOnboarding \/ SelectProvider
           \/ ChooseWorkspace \/ OpenRecentWorkspace \/ WorkspaceChosen
  BY <1>2, <1>3 DEF ReadRecents, WriteRecents, ReadOnboarding, WriteOnboarding, SelectProvider,
     ChooseWorkspace,
                    OpenRecentWorkspace, WorkspaceChosen, showing, drafting
<1>4. CASE \/ CreateTutorial \/ TutorialCreated \/ TutorialNoted \/ Guide \/ GuideNoted \/ StartRun
           \/ RunIsOver \/ StoreOrDelete \/ CredentialAnswered \/ UNCHANGED benchVars
  BY <1>2, <1>4 DEF CreateTutorial, TutorialCreated, TutorialNoted, Guide, GuideNoted, StartRun,
     RunIsOver,
                    StoreOrDelete, CredentialAnswered, benchVars, showing, drafting
<1>5. CASE Bootstrap
  <2>1. PICK w \in Places \union {Nothing} : place' = w /\ LoadCatalog(w) /\ UNCHANGED draft
    BY <1>5, BootstrapStep
  <2> QED
    BY <1>1, <2>1, LoadStep DEF CatalogInv
<1>6. CASE WorkspaceOpened
  <2>1. PICK ask \in asks : ask.kind = "open" /\ Enter(ask.about, {})
    BY <1>6 DEF WorkspaceOpened
  <2>2. ask.about \in Places
    BY <2>1, AskIsTyped
  <2> QED
    BY <1>1, <2>1, <2>2, EnterStep
<1>7. CASE TutorialEntered
  <2>1. PICK ask \in asks : Enter(Tutorial, {ask.about})
    BY <1>7 DEF TutorialEntered
  <2>2. {ask.about} \in SUBSET Subjects /\ Tutorial \in Places
    BY AskIsTyped DEF Places
  <2> QED
    BY <1>1, <2>1, <2>2, EnterStep
<1>8. CASE CatalogLoaded
  <2>1. PICK l \in loads :
          /\ loads' = loads \ {l}
          /\ IF ~ShowCurrent(l) THEN UNCHANGED <<catalog, draft>>
             ELSE \/ /\ catalog' = l.place
                     /\ draft' = [draft EXCEPT !.skills = @ \intersect Offers[l.place]]
                  \/ catalog' = Nothing /\ UNCHANGED draft
    BY <1>8 DEF CatalogLoaded
  <2>2. UNCHANGED place
    BY <1>8 DEF CatalogLoaded, showing
  <2>3. l \in Loads
    BY DEF CatalogInv
  <2>4. CASE ~l.current
    BY <2>1, <2>2, <2>4 DEF ShowCurrent, CatalogInv
  <2>5. CASE l.current /\ catalog' = Nothing /\ UNCHANGED draft
    BY <2>1, <2>2, <2>5 DEF CatalogInv
  <2>6. CASE /\ l.current /\ catalog' = l.place
             /\ draft' = [draft EXCEPT !.skills = @ \intersect Offers[l.place]]
    <3>1. l.place = place /\ l.place \in Places
      BY <2>3, <2>6 DEF CatalogInv, Loads
    <3>2. draft' \in Drafts /\ draft'.skills \subseteq Offers[l.place]
      BY <2>6 DEF CatalogInv, Drafts
    <3> QED
      BY <2>1, <2>2, <2>6, <3>1, <3>2 DEF CatalogInv
  <2> QED
    BY <2>1, <2>4, <2>5, <2>6 DEF ShowCurrent
<1>9. CASE RefreshCatalog
  <2>1. LoadCatalog(place) /\ UNCHANGED <<place, draft>>
    BY <1>9 DEF RefreshCatalog, showing
  <2> QED
    BY <1>1, <2>1, LoadStep DEF CatalogInv
<1>10. CASE SelectSkill
  <2>1. catalog # Nothing /\ UNCHANGED <<place, catalog, loads>>
    BY <1>10 DEF SelectSkill, showing
  <2>2. PICK s \in Offers[catalog] : draft' = [draft EXCEPT !.skills = @ \union {s}]
    BY <1>10 DEF SelectSkill
  <2>3. s \in Skills
    BY <2>1, <2>2, WorkbenchBounds DEF CatalogInv
  <2>4. draft' \in Drafts /\ draft'.skills = draft.skills \union {s}
    BY <2>2, <2>3 DEF CatalogInv, Drafts
  <2> QED
    BY <2>1, <2>2, <2>4 DEF CatalogInv
<1>11. CASE BeginNewTask \/ RunStarted
  <2>1. UNCHANGED <<place, catalog, loads>> /\ draft' = [draft EXCEPT !.sources = {}]
    BY <1>11 DEF BeginNewTask, RunStarted
  <2>2. draft' \in Drafts /\ draft'.skills = draft.skills
    BY <2>1 DEF CatalogInv, Drafts
  <2> QED
    BY <2>1, <2>2 DEF CatalogInv
<1> QED
  BY <1>3, <1>4, <1>5, <1>6, <1>7, <1>8, <1>9, <1>10, <1>11 DEF BenchNext

LEMMA ProvidersStep ==
  ASSUME FilesInv, ProvidersInv, [BenchNext]_benchVars
  PROVE  ProvidersInv'
<1> USE DEF FilesInv
<1>1. UNCHANGED <<available, environment, stored, ready, preferred, provider>> => ProvidersInv'
  BY DEF ProvidersInv, Source
<1>2. CASE \/ ReadRecents \/ WriteRecents \/ ReadOnboarding \/ WriteOnboarding
           \/ ChooseWorkspace \/ OpenRecentWorkspace \/ WorkspaceChosen \/ WorkspaceOpened
  BY <1>1, <1>2 DEF ReadRecents, WriteRecents, ReadOnboarding, WriteOnboarding, ChooseWorkspace,
                    OpenRecentWorkspace, WorkspaceChosen, WorkspaceOpened, Quiet, keys, providing
<1>3. CASE CreateTutorial \/ TutorialCreated \/ TutorialNoted \/ TutorialEntered \/ Guide \/ GuideNoted
  BY <1>1, <1>3 DEF CreateTutorial, TutorialCreated, TutorialNoted, TutorialEntered, Guide,
     GuideNoted, Quiet,
                    keys, providing
<1>4. CASE \/ CatalogLoaded \/ RefreshCatalog \/ SelectSkill \/ BeginNewTask
           \/ StartRun \/ RunStarted \/ RunIsOver \/ StoreOrDelete \/ UNCHANGED benchVars
  BY <1>1, <1>4 DEF CatalogLoaded, RefreshCatalog, SelectSkill, BeginNewTask, StartRun,
     RunStarted, RunIsOver,
                    StoreOrDelete, benchVars, Quiet, keys, providing
<1>5. CASE SelectProvider
  BY <1>5 DEF SelectProvider, ProvidersInv, Source, Quiet, keys
<1>6. CASE Bootstrap
  <2>1. /\ \A p \in Providers : available'[p] = Source(p)
        /\ available' \in [Providers -> {"environment", "system", "none"}]
        /\ preferred # Nothing => provider' = provider
        /\ UNCHANGED <<preferred, environment, stored>>
    BY <1>6, BootstrapStep
  <2> QED
    BY <2>1 DEF ProvidersInv, Sources, Source
<1>7. CASE CredentialAnswered
  <2>1. PICK ask \in asks :
          /\ stored' \in IF ask.kind = "store" THEN {stored \union {ask.about}}
                         ELSE {stored, stored \ {ask.about}}
          /\ available' = [available EXCEPT ![ask.about] =
                              IF ask.about \in environment THEN "environment"
                              ELSE IF ask.about \in stored' THEN "system" ELSE "none"]
    BY <1>7 DEF CredentialAnswered, About
  <2>2. UNCHANGED <<environment, ready, preferred, provider>>
    BY <1>7 DEF CredentialAnswered
  <2>3. available' \in [Providers -> Sources]
    BY <2>1 DEF ProvidersInv, Sources
  <2>4. ASSUME ready, NEW p \in Providers PROVE available'[p] = Source(p)'
    <3>1. available[p] = Source(p)
      BY <2>4 DEF ProvidersInv
    <3>2. CASE p = ask.about
      BY <2>1, <2>2, <3>2 DEF ProvidersInv, Source
    <3>3. CASE p # ask.about
      <4>1. available'[p] = available[p]
        BY <2>1, <3>3 DEF ProvidersInv
      <4>2. p \in stored' <=> p \in stored
        BY <2>1, <3>3
      <4> QED
        BY <2>2, <3>1, <4>1, <4>2 DEF Source
    <3> QED
      BY <3>2, <3>3
  <2> QED
    BY <2>2, <2>3, <2>4 DEF ProvidersInv
<1> QED
  BY <1>2, <1>3, <1>4, <1>5, <1>6, <1>7 DEF BenchNext

\* In whatever order the answers arrive, and whichever workspace is shown by then: with no
\* load under way the catalog and the draft are of the workspace shown, with no request
\* about credentials under way they are shown as stored, and a selected provider stays.
THEOREM WindowIsInStepCorrect == BenchSpec => []WindowIsInStep
<1>1. BenchInit => WindowInv
  <2> SUFFICES ASSUME BenchInit PROVE WindowInv
    OBVIOUS
  <2>1. FilesInv
    BY BenchStarts
  <2>2. CatalogInv
    BY DEF BenchInit, CatalogInv, Drafts
  <2>3. ProvidersInv
    BY DEF BenchInit, ProvidersInv, Sources
  <2> QED
    BY <2>1, <2>2, <2>3 DEF WindowInv
<1>2. WindowInv /\ [BenchNext]_benchVars => WindowInv'
  BY FilesInvStep, CatalogStep, ProvidersStep DEF WindowInv
<1>3. WindowInv => WindowIsInStep
  BY DEF WindowInv, CatalogInv, ProvidersInv, WindowIsInStep
<1> QED
  BY <1>1, <1>2, <1>3, PTL DEF BenchSpec
-----------------------------------------------------------------------------
(* Induction and recursion over numbers, from the fact that < is well      *)
(* founded: it takes sets and functions, not operators.                    *)

LEMMA LeastNumber ==
  ASSUME NEW T \in SUBSET Nat, T # {}
  PROVE  \E n \in T : \A m \in T : n <= m
<1> DEFINE R == {p \in Nat \X Nat : p[1] < p[2]}
<1>1. IsWellFoundedOn(OpToRel(<, Nat), Nat)
  BY NatLessThanWellFounded
<1>2. R = OpToRel(<, Nat)
  BY DEF OpToRel
<1>3. IsWellFoundedOn(R, Nat)
  BY <1>1, <1>2
<1> HIDE DEF R
<1>4. PICK x \in T : \A y \in T : ~ (<<y, x>> \in R)
  BY <1>3, WFMin
<1>5. ASSUME NEW y \in T PROVE x <= y
  <2>1. <<y, x>> \in Nat \X Nat /\ x \in Nat /\ y \in Nat
    OBVIOUS
  <2>2. ~(y < x)
    BY <1>4, <2>1 DEF R
  <2> QED
    BY <2>1, <2>2
<1> QED
  BY <1>5

\* What holds of 0 and of the successor of every number it holds of, up to N, holds up to N.
LEMMA Counting ==
  ASSUME NEW N \in Nat, NEW S, 0 \in S, \A n \in 0 .. N : n \in S /\ n + 1 <= N => n + 1 \in S
  PROVE  0 .. N \subseteq S
<1> DEFINE T == (0 .. N) \ S
<1> SUFFICES ASSUME T # {} PROVE FALSE
  OBVIOUS
<1>1. T \in SUBSET Nat
  OBVIOUS
<1> HIDE DEF T
<1>2. PICK n \in T : \A m \in T : n <= m
  BY <1>1, LeastNumber
<1>3. n # 0 /\ n \in 0 .. N /\ n \notin S
  BY DEF T
<1>4. n - 1 \in 0 .. N /\ n - 1 \notin T /\ n - 1 + 1 = n
  BY <1>2, <1>3
<1> QED
  BY <1>3, <1>4 DEF T

Narrows(D, V, N, rank, step) ==
  /\ rank \in [D -> 0 .. N] /\ step \in [[D -> V] -> [D -> V]]
  /\ \A F, G \in [D -> V] : \A x \in D :
       (\A y \in D : rank[y] < rank[x] => F[y] = G[y]) => step[F][x] = step[G][x]

HasFixpoint(D, V, step) == \E f \in [D -> V] : f = step[f]

\* A function is defined by recursion when its value at a point depends only on its
\* values at points of a lower rank.
LEMMA Recursion ==
  ASSUME NEW D, NEW V, V # {}, NEW N \in Nat, NEW rank, NEW step, Narrows(D, V, N, rank, step)
  PROVE  HasFixpoint(D, V, step)
<1>0. /\ rank \in [D -> 0 .. N] /\ step \in [[D -> V] -> [D -> V]]
      /\ \A F, G \in [D -> V] : \A x \in D :
           (\A y \in D : rank[y] < rank[x] => F[y] = G[y]) => step[F][x] = step[G][x]
  BY DEF Narrows
<1> DEFINE Reached(n) == \E F \in [D -> V] : \A x \in D : rank[x] < n => F[x] = step[F][x]
           S == {n \in 0 .. N + 1 : Reached(n)}
<1>1. 0 \in S
  <2>1. PICK v \in V : TRUE
    OBVIOUS
  <2>2. [x \in D |-> v] \in [D -> V]
    OBVIOUS
  <2>3. \A x \in D : ~(rank[x] < 0)
    BY <1>0
  <2>4. Reached(0)
    BY <2>2, <2>3, Zenon
  <2>5. 0 \in 0 .. N + 1
    OBVIOUS
  <2> HIDE DEF Reached
  <2> QED
    BY <2>4, <2>5
<1>2. ASSUME NEW n \in 0 .. N + 1, n \in S, n + 1 <= N + 1 PROVE n + 1 \in S
  <2>1. PICK F \in [D -> V] : \A x \in D : rank[x] < n => F[x] = step[F][x]
    BY <1>2
  <2> DEFINE G == step[F]
  <2>2. G \in [D -> V]
    BY <1>0
  <2>3. ASSUME NEW x \in D, rank[x] < n + 1 PROVE G[x] = step[G][x]
    <3>1. ASSUME NEW y \in D, rank[y] < rank[x] PROVE F[y] = G[y]
      <4>1. rank[x] \in Nat /\ rank[y] \in Nat
        BY <1>0
      <4>2. rank[y] < n
        BY <2>3, <3>1, <4>1
      <4> QED
        BY <2>1, <4>2
    <3> HIDE DEF G
    <3>2. step[F][x] = step[G][x]
      BY <1>0, <2>2, <3>1, Zenon
    <3> QED
      BY <3>2 DEF G
  <2>4. n + 1 \in 0 .. N + 1
    BY <1>2
  <2> HIDE DEF G
  <2> QED
    BY <2>2, <2>3, <2>4
<1>3. N + 1 \in S
  <2> HIDE DEF S
  <2>1. 0 .. N + 1 \subseteq S
    BY <1>1, <1>2, Counting
  <2> QED
    BY <2>1
<1>4. PICK F \in [D -> V] : \A x \in D : rank[x] < N + 1 => F[x] = step[F][x]
  BY <1>3
<1>5. \A x \in D : F[x] = step[F][x]
  BY <1>0, <1>4
<1>6. step[F] \in [D -> V]
  BY <1>0
<1>7. F = step[F]
  BY <1>5, <1>6
<1> QED
  BY <1>7 DEF HasFixpoint

-----------------------------------------------------------------------------
(* Counting the rows of a kind.                                            *)

OpKinds == {"equal", "added", "removed"}
Ops == [kind : OpKinds, text : TextLines]
Old == {"equal", "removed"}
New == {"equal", "added"}

\* The rows of these kinds among the first k.
UpTo(rows, k, kinds) == {m \in 1 .. k : rows[m].kind \in kinds}
Place(rows, k, kinds) == Cardinality(UpTo(rows, k, kinds))

LEMMA PlaceIsNat ==
  ASSUME NEW rows, NEW k \in Nat, NEW kinds
  PROVE  /\ IsFiniteSet(UpTo(rows, k, kinds)) /\ Place(rows, k, kinds) \in Nat
         /\ Place(rows, 0, kinds) = 0
<1>1. UpTo(rows, k, kinds) \subseteq 1 .. k
  BY DEF UpTo
<1>2. IsFiniteSet(1 .. k)
  BY FS_Interval
<1>3. IsFiniteSet(UpTo(rows, k, kinds))
  BY <1>1, <1>2, FS_Subset
<1>4. UpTo(rows, 0, kinds) = {}
  BY DEF UpTo
<1> QED
  BY <1>3, <1>4, FS_CardinalityType, FS_EmptySet DEF Place

LEMMA PlaceStep ==
  ASSUME NEW rows, NEW k \in Nat, NEW kinds
  PROVE  Place(rows, k + 1, kinds) = Place(rows, k, kinds) + (IF rows[k + 1].kind \in kinds THEN 1 ELSE 0)
<1>1. IsFiniteSet(UpTo(rows, k, kinds)) /\ Place(rows, k, kinds) \in Nat
  BY PlaceIsNat
<1>2. CASE rows[k + 1].kind \in kinds
  <2>1. UpTo(rows, k + 1, kinds) = UpTo(rows, k, kinds) \union {k + 1}
    BY <1>2 DEF UpTo
  <2>2. k + 1 \notin UpTo(rows, k, kinds)
    BY DEF UpTo
  <2>3. Cardinality(UpTo(rows, k, kinds) \union {k + 1}) = Cardinality(UpTo(rows, k, kinds)) + 1
    BY <1>1, <2>2, FS_AddElement
  <2> QED
    BY <1>2, <2>1, <2>3 DEF Place
<1>3. CASE rows[k + 1].kind \notin kinds
  <2>1. UpTo(rows, k + 1, kinds) = UpTo(rows, k, kinds)
    BY <1>3 DEF UpTo
  <2> QED
    BY <1>1, <1>3, <2>1 DEF Place
<1> QED
  BY <1>2, <1>3

\* Rows that agree on the first k have the same places there.
LEMMA PlaceAgrees ==
  ASSUME NEW rows, NEW other, NEW k \in Nat, \A m \in 1 .. k : other[m].kind = rows[m].kind, NEW kinds
  PROVE  Place(other, k, kinds) = Place(rows, k, kinds)
<1>1. UpTo(other, k, kinds) = UpTo(rows, k, kinds)
  BY DEF UpTo
<1> QED
  BY <1>1 DEF Place

LEMMA PlaceIsCount ==
  ASSUME NEW S, NEW rows \in Seq(S), NEW kinds
  PROVE  Count(rows, kinds) = Place(rows, Len(rows), kinds)
<1>1. DOMAIN rows = 1 .. Len(rows)
  BY LenProperties
<1> QED
  BY <1>1 DEF Count, Place, UpTo

\* Places grow, and over rows of these kinds one by one.
LEMMA PlaceGrows ==
  ASSUME NEW rows, NEW kinds, NEW j \in Nat, NEW n \in Nat
  PROVE  /\ Place(rows, j, kinds) <= Place(rows, j + n, kinds)
         /\ (\A m \in j + 1 .. j + n : rows[m].kind \in kinds) =>
              Place(rows, j + n, kinds) = Place(rows, j, kinds) + n
<1> DEFINE P(i) == /\ Place(rows, j, kinds) <= Place(rows, j + i, kinds)
                   /\ (\A m \in j + 1 .. j + i : rows[m].kind \in kinds) =>
                        Place(rows, j + i, kinds) = Place(rows, j, kinds) + i
           S == {i \in 0 .. n : P(i)}
<1>1. 0 \in S
  <2>1. j + 0 = j /\ Place(rows, j, kinds) \in Nat
    BY PlaceIsNat
  <2> QED
    BY <2>1
<1>2. ASSUME NEW i \in 0 .. n, i \in S, i + 1 <= n PROVE i + 1 \in S
  <2>1. j + (i + 1) = (j + i) + 1 /\ j + i \in Nat /\ i + 1 \in 0 .. n
    BY <1>2
  <2>2. P(i)
    <3> HIDE DEF P
    <3> QED
      BY <1>2
  <2> DEFINE first == Place(rows, j, kinds)
             now == Place(rows, j + i, kinds)
             next == Place(rows, j + (i + 1), kinds)
  <2>3. first \in Nat /\ now \in Nat
    BY <2>1, PlaceIsNat
  <2>4. next = now + (IF rows[j + (i + 1)].kind \in kinds THEN 1 ELSE 0)
    BY <2>1, PlaceStep
  <2> HIDE DEF first, now, next
  <2>5. first <= next
    BY <2>2, <2>3, <2>4 DEF first, now
  <2>6. ASSUME \A m \in j + 1 .. j + (i + 1) : rows[m].kind \in kinds
        PROVE  next = first + (i + 1)
    <3>1. rows[j + (i + 1)].kind \in kinds /\ \A m \in j + 1 .. j + i : rows[m].kind \in kinds
      BY <2>1, <2>6
    <3>2. now = first + i
      BY <2>2, <3>1 DEF first, now
    <3> QED
      BY <2>3, <2>4, <3>1, <3>2
  <2>7. P(i + 1)
    BY <2>5, <2>6 DEF first, next
  <2> HIDE DEF P
  <2> QED
    BY <2>1, <2>7
<1>3. n \in S
  <2> HIDE DEF S
  <2>1. 0 .. n \subseteq S
    BY <1>1, <1>2, Counting
  <2> QED
    BY <2>1
<1>4. P(n)
  <2> HIDE DEF P
  <2> QED
    BY <1>3
<1> QED
  BY <1>4

\* A row of one of two kinds is of one of them.
LEMMA PlacesAddUp ==
  ASSUME NEW rows, NEW n \in Nat
  PROVE  /\ Place(rows, n, {"equal"}) + Place(rows, n, {"removed"}) = Place(rows, n, Old)
         /\ Place(rows, n, {"equal"}) + Place(rows, n, {"added"}) = Place(rows, n, New)
         /\ Place(rows, n, {"removed"}) + Place(rows, n, {"added"}) = Place(rows, n, {"added", "removed"})
<1> DEFINE S == {i \in 0 .. n :
              /\ Place(rows, i, {"equal"}) + Place(rows, i, {"removed"}) = Place(rows, i, Old)
              /\ Place(rows, i, {"equal"}) + Place(rows, i, {"added"}) = Place(rows, i, New)
              /\ Place(rows, i, {"removed"}) + Place(rows, i, {"added"}) = Place(rows, i, {"added", "removed"})}
<1>1. 0 \in S
  BY PlaceIsNat
<1>2. ASSUME NEW i \in 0 .. n, i \in S, i + 1 <= n PROVE i + 1 \in S
  <2>1. \A kinds : Place(rows, i, kinds) \in Nat /\
          Place(rows, i + 1, kinds) = Place(rows, i, kinds) + (IF rows[i + 1].kind \in kinds THEN 1 ELSE 0)
    BY PlaceStep, PlaceIsNat
  <2>2. i + 1 \in 0 .. n
    BY <1>2
  <2> DEFINE kind == rows[i + 1].kind
             One(kinds) == IF kind \in kinds THEN 1 ELSE 0
  <2>3. /\ One({"equal"}) + One({"removed"}) = One(Old)
        /\ One({"equal"}) + One({"added"}) = One(New)
        /\ One({"removed"}) + One({"added"}) = One({"added", "removed"})
        /\ \A kinds : One(kinds) \in Nat
    BY DEF Old, New
  <2>4. \A kinds : Place(rows, i, kinds) \in Nat /\ Place(rows, i + 1, kinds) = Place(rows, i, kinds) + One(kinds)
    BY <2>1
  <2> HIDE DEF One
  <2> QED
    BY <1>2, <2>2, <2>3, <2>4
<1>3. n \in S
  <2> HIDE DEF S
  <2>1. 0 .. n \subseteq S
    BY <1>1, <1>2, Counting
  <2> QED
    BY <2>1
<1> QED
  BY <1>3

-----------------------------------------------------------------------------
(* A script of operations turns the first i lines of one text into the     *)
(* first j of the other: its rows are those lines, in their order.         *)

Script(ops, b, i, a, j) ==
  /\ ops \in Seq(Ops)
  /\ Place(ops, Len(ops), Old) = i /\ Place(ops, Len(ops), New) = j
  /\ \A k \in 1 .. Len(ops) :
       /\ ops[k].kind \in Old => ops[k].text = b[Place(ops, k, Old)]
       /\ ops[k].kind \in New => ops[k].text = a[Place(ops, k, New)]

One(kind, kinds) == IF kind \in kinds THEN 1 ELSE 0

LEMMA EmptyScript ==
  ASSUME NEW b, NEW a
  PROVE  Script(<<>>, b, 0, a, 0) /\ Place(<<>>, Len(<<>>), {"equal"}) = 0
<1>1. <<>> \in Seq(Ops) /\ Len(<<>>) = 0
  OBVIOUS
<1>2. \A kinds : Place(<<>>, 0, kinds) = 0
  BY PlaceIsNat
<1>3. \A k \in 1 .. 0 : FALSE
  OBVIOUS
<1> QED
  BY <1>1, <1>2, <1>3 DEF Script

\* The operation goes on from there.
Fits(op, b, i, a, j) ==
  (op.kind \in Old => op.text = b[i + 1]) /\ (op.kind \in New => op.text = a[j + 1])

LEMMA LongerScript ==
  ASSUME NEW b, NEW a, NEW i \in Nat, NEW j \in Nat, NEW ops, Script(ops, b, i, a, j), NEW op \in Ops,
         Fits(op, b, i, a, j)
  PROVE  /\ Script(Append(ops, op), b, i + One(op.kind, Old), a, j + One(op.kind, New))
         /\ Place(Append(ops, op), Len(Append(ops, op)), {"equal"}) =
              Place(ops, Len(ops), {"equal"}) + One(op.kind, {"equal"})
<1> DEFINE n == Len(ops)
           next == Append(ops, op)
<1>1. ops \in Seq(Ops) /\ n \in Nat
  BY DEF Script
<1>2. /\ next \in Seq(Ops) /\ Len(next) = n + 1
      /\ \A k \in 1 .. n : next[k] = ops[k]
      /\ next[n + 1] = op
  BY <1>1, AppendProperties
<1> HIDE DEF n, next
<1>3. ASSUME NEW k \in 0 .. n, NEW kinds PROVE Place(next, k, kinds) = Place(ops, k, kinds)
  <2>1. k \in Nat /\ \A m \in 1 .. k : next[m].kind = ops[m].kind
    BY <1>1, <1>2
  <2> QED
    BY <2>1, PlaceAgrees
<1>4. ASSUME NEW kinds
      PROVE  Place(next, n + 1, kinds) = Place(ops, n, kinds) + One(op.kind, kinds)
  <2>1. Place(next, n + 1, kinds) = Place(next, n, kinds) + (IF next[n + 1].kind \in kinds THEN 1 ELSE 0)
    BY <1>1, PlaceStep
  <2>2. Place(next, n, kinds) = Place(ops, n, kinds)
    BY <1>1, <1>3
  <2> QED
    BY <1>2, <2>1, <2>2 DEF One
<1>5. Place(ops, n, Old) = i /\ Place(ops, n, New) = j
  BY DEF Script, n
<1>6. ASSUME NEW k \in 1 .. n + 1
      PROVE  /\ next[k].kind \in Old => next[k].text = b[Place(next, k, Old)]
             /\ next[k].kind \in New => next[k].text = a[Place(next, k, New)]
  <2>1. CASE k = n + 1
    <3>1. next[k] = op
      BY <1>2, <2>1
    <3>2. op.kind \in Old => Place(next, k, Old) = i + 1
      BY <1>4, <1>5, <2>1 DEF One
    <3>3. op.kind \in New => Place(next, k, New) = j + 1
      BY <1>4, <1>5, <2>1 DEF One
    <3> QED
      BY <3>1, <3>2, <3>3 DEF Fits
  <2>2. CASE k # n + 1
    <3>1. k \in 1 .. n /\ k \in 0 .. n
      BY <1>1, <2>2
    <3>2. /\ ops[k].kind \in Old => ops[k].text = b[Place(ops, k, Old)]
          /\ ops[k].kind \in New => ops[k].text = a[Place(ops, k, New)]
      BY <3>1 DEF Script, n
    <3>3. next[k] = ops[k] /\ Place(next, k, Old) = Place(ops, k, Old) /\ Place(next, k, New) = Place(ops, k, New)
      BY <1>2, <1>3, <3>1
    <3> QED
      BY <3>2, <3>3
  <2> QED
    BY <2>1, <2>2
<1>7. Script(next, b, i + One(op.kind, Old), a, j + One(op.kind, New))
  BY <1>2, <1>4, <1>5, <1>6 DEF Script
<1> QED
  BY <1>2, <1>4, <1>7 DEF n, next

-----------------------------------------------------------------------------
(* The matrix of common lengths and the walk through it.                   *)

LEMMA CellInduction ==
  ASSUME NEW b \in Seq(TextLines), NEW a \in Seq(TextLines), NEW S,
         \A c \in Cells(b, a) :
           (\A d \in Cells(b, a) : d[1] + d[2] < c[1] + c[2] => d \in S) => c \in S
  PROVE  Cells(b, a) \subseteq S
<1> DEFINE T == {c[1] + c[2] : c \in Cells(b, a) \ S}
<1>1. \A c \in Cells(b, a) : c[1] \in Nat /\ c[2] \in Nat
  BY DEF Cells
<1> SUFFICES ASSUME NEW e \in Cells(b, a), e \notin S PROVE FALSE
  OBVIOUS
<1>2. T \in SUBSET Nat /\ T # {}
  BY <1>1
<1>3. PICK n \in T : \A m \in T : n <= m
  BY <1>2, LeastNumber
<1>4. PICK c \in Cells(b, a) : c \notin S /\ n = c[1] + c[2]
  BY <1>3
<1>5. ASSUME NEW d \in Cells(b, a), d[1] + d[2] < c[1] + c[2] PROVE d \in S
  <2>1. d \notin S => d[1] + d[2] \in T
    OBVIOUS
  <2>2. d[1] + d[2] \in Nat /\ c[1] + c[2] \in Nat
    BY <1>1
  <2> HIDE DEF T
  <2> QED
    BY <1>3, <1>4, <1>5, <2>1, <2>2
<1> QED
  BY <1>4, <1>5

MatrixAt(b, a, m, c) ==
  IF c[1] = 0 \/ c[2] = 0 THEN 0
  ELSE IF b[c[1]] = a[c[2]] THEN m[<<c[1] - 1, c[2] - 1>>] + 1
  ELSE IF m[<<c[1] - 1, c[2]>>] > m[<<c[1], c[2] - 1>>] THEN m[<<c[1] - 1, c[2]>>]
  ELSE m[<<c[1], c[2] - 1>>]

WalkAt(b, a, w, c) ==
  IF c[1] = 0 /\ c[2] = 0 THEN <<>>
  ELSE IF c[1] > 0 /\ c[2] > 0 /\ b[c[1]] = a[c[2]] THEN Append(w[<<c[1] - 1, c[2] - 1>>], Equal(b[c[1]]))
  ELSE IF c[2] > 0 /\ (c[1] = 0 \/ Matrix(b, a)[<<c[1], c[2] - 1>>] >= Matrix(b, a)[<<c[1] - 1, c[2]>>])
  THEN Append(w[<<c[1], c[2] - 1>>], Added(a[c[2]]))
  ELSE Append(w[<<c[1] - 1, c[2]>>], Removed(b[c[1]]))

LEMMA CellsBelow ==
  ASSUME NEW b \in Seq(TextLines), NEW a \in Seq(TextLines), NEW c \in Cells(b, a)
  PROVE  /\ c[1] \in 0 .. Len(b) /\ c[2] \in 0 .. Len(a) /\ c = <<c[1], c[2]>>
         /\ c[1] + c[2] \in 0 .. (Len(b) + Len(a))
         /\ c[1] > 0 /\ c[2] > 0 => <<c[1] - 1, c[2] - 1>> \in Cells(b, a)
         /\ c[1] > 0 => <<c[1] - 1, c[2]>> \in Cells(b, a) /\ b[c[1]] \in TextLines
         /\ c[2] > 0 => <<c[1], c[2] - 1>> \in Cells(b, a) /\ a[c[2]] \in TextLines
BY DEF Cells

AgreeBelow(b, a, F, G, c) == \A d \in Cells(b, a) : d[1] + d[2] < c[1] + c[2] => F[d] = G[d]
AgreeNext(F, G, c) ==
  /\ c[1] > 0 /\ c[2] > 0 => F[<<c[1] - 1, c[2] - 1>>] = G[<<c[1] - 1, c[2] - 1>>]
  /\ c[1] > 0 => F[<<c[1] - 1, c[2]>>] = G[<<c[1] - 1, c[2]>>]
  /\ c[2] > 0 => F[<<c[1], c[2] - 1>>] = G[<<c[1], c[2] - 1>>]

LEMMA CellsAgree ==
  ASSUME NEW b \in Seq(TextLines), NEW a \in Seq(TextLines), NEW F, NEW G, NEW c \in Cells(b, a),
         AgreeBelow(b, a, F, G, c)
  PROVE  AgreeNext(F, G, c)
<1>1. PICK i \in 0 .. Len(b), j \in 0 .. Len(a) : c = <<i, j>>
  BY DEF Cells
<1>2. ASSUME NEW p \in 0 .. Len(b), NEW q \in 0 .. Len(a), p + q < i + j
      PROVE  F[<<p, q>>] = G[<<p, q>>]
  <2>1. <<p, q>> \in Cells(b, a) /\ <<p, q>>[1] + <<p, q>>[2] < c[1] + c[2]
    BY <1>1, <1>2 DEF Cells
  <2> QED
    BY <2>1 DEF AgreeBelow
<1>3. i > 0 => i - 1 \in 0 .. Len(b) /\ (i - 1) + j < i + j
  BY <1>1
<1>4. j > 0 => j - 1 \in 0 .. Len(a) /\ i + (j - 1) < i + j
  BY <1>1
<1>5. i > 0 /\ j > 0 => (i - 1) + (j - 1) < i + j
  BY <1>1
<1>6. /\ i > 0 /\ j > 0 => F[<<i - 1, j - 1>>] = G[<<i - 1, j - 1>>]
      /\ i > 0 => F[<<i - 1, j>>] = G[<<i - 1, j>>]
      /\ j > 0 => F[<<i, j - 1>>] = G[<<i, j - 1>>]
  BY <1>2, <1>3, <1>4, <1>5
<1> QED
  BY <1>1, <1>6 DEF AgreeNext

LEMMA MatrixAtIsNat ==
  ASSUME NEW b \in Seq(TextLines), NEW a \in Seq(TextLines), NEW F \in [Cells(b, a) -> Nat],
         NEW c \in Cells(b, a)
  PROVE  MatrixAt(b, a, F, c) \in Nat
<1>1. /\ c[1] \in Nat /\ c[2] \in Nat
      /\ c[1] > 0 /\ c[2] > 0 => <<c[1] - 1, c[2] - 1>> \in Cells(b, a)
      /\ c[1] > 0 => <<c[1] - 1, c[2]>> \in Cells(b, a)
      /\ c[2] > 0 => <<c[1], c[2] - 1>> \in Cells(b, a)
  BY CellsBelow
<1>2. \A d \in Cells(b, a) : F[d] \in Nat
  OBVIOUS
<1> QED
  BY <1>1, <1>2 DEF MatrixAt

LEMMA MatrixDefined ==
  ASSUME NEW b \in Seq(TextLines), NEW a \in Seq(TextLines)
  PROVE  Matrix(b, a) = [c \in Cells(b, a) |-> MatrixAt(b, a, Matrix(b, a), c)]
<1> DEFINE D == Cells(b, a)
           step == [F \in [D -> Nat] |-> [c \in D |-> MatrixAt(b, a, F, c)]]
           rank == [c \in D |-> c[1] + c[2]]
<1>1. Matrix(b, a) = CHOOSE m : m = [c \in D |-> MatrixAt(b, a, m, c)]
  BY DEF Matrix, MatrixAt
<1>2. ASSUME NEW F \in [D -> Nat], NEW c \in D PROVE MatrixAt(b, a, F, c) \in Nat
  BY MatrixAtIsNat
<1>3. step \in [[D -> Nat] -> [D -> Nat]]
  <2>1. \A F \in [D -> Nat] : [c \in D |-> MatrixAt(b, a, F, c)] \in [D -> Nat]
    BY <1>2
  <2> QED
    BY <2>1
<1>4. rank \in [D -> 0 .. (Len(b) + Len(a))]
  BY CellsBelow
<1>5. ASSUME NEW F \in [D -> Nat], NEW G \in [D -> Nat], NEW c \in D, \A d \in D : rank[d] < rank[c] => F[d] = G[d]
      PROVE  step[F][c] = step[G][c]
  <2>1. c \in Cells(b, a) /\ AgreeBelow(b, a, F, G, c)
    BY <1>5 DEF AgreeBelow
  <2> HIDE DEF D, step, rank
  <2>2. c[1] \in Nat /\ c[2] \in Nat
    <3>1. \A d \in Cells(b, a) : d[1] \in Nat /\ d[2] \in Nat
      BY DEF Cells
    <3> QED
      BY <2>1, <3>1
  <2>3. AgreeNext(F, G, c)
    BY <2>1, CellsAgree
  <2>4. MatrixAt(b, a, F, c) = MatrixAt(b, a, G, c)
    BY <2>2, <2>3 DEF MatrixAt, AgreeNext
  <2> QED
    BY <2>4 DEF step
<1>6. Len(b) + Len(a) \in Nat
  OBVIOUS
<1>0. Nat # {}
  <2>1. 0 \in Nat
    OBVIOUS
  <2> QED
    BY <2>1, Zenon
<1> HIDE DEF step, rank, D
<1>7. \A F, G \in [D -> Nat] : \A c \in D :
        (\A d \in D : rank[d] < rank[c] => F[d] = G[d]) => step[F][c] = step[G][c]
  BY <1>5
<1>8. HasFixpoint(D, Nat, step)
  <2>1. PICK N \in Nat : N = Len(b) + Len(a)
    BY <1>6
  <2>2. Narrows(D, Nat, N, rank, step)
    BY <1>3, <1>4, <1>7, <2>1 DEF Narrows
  <2> QED
    BY <1>0, <2>2, Recursion
<1>9. PICK f \in [D -> Nat] : f = [c \in D |-> MatrixAt(b, a, f, c)]
  BY <1>8 DEF step, HasFixpoint
<1> QED
  BY <1>1, <1>9 DEF D

LEMMA MatrixTyped ==
  ASSUME NEW b \in Seq(TextLines), NEW a \in Seq(TextLines)
  PROVE  \A c \in Cells(b, a) : Matrix(b, a)[c] \in Nat
<1> DEFINE M == Matrix(b, a)
           S == {c \in Cells(b, a) : M[c] \in Nat}
<1> SUFFICES Cells(b, a) \subseteq S
  OBVIOUS
<1>1. M = [c \in Cells(b, a) |-> MatrixAt(b, a, M, c)]
  BY MatrixDefined
<1> HIDE DEF M
<1>2. ASSUME NEW c \in Cells(b, a), \A d \in Cells(b, a) : d[1] + d[2] < c[1] + c[2] => d \in S
      PROVE  c \in S
  <2> DEFINE zero == [d \in Cells(b, a) |-> IF M[d] \in Nat THEN M[d] ELSE 0]
  <2>1. AgreeBelow(b, a, M, zero, c)
    BY <1>2 DEF AgreeBelow
  <2>2. AgreeNext(M, zero, c)
    BY <2>1, CellsAgree
  <2>3. zero \in [Cells(b, a) -> Nat]
    OBVIOUS
  <2>4. MatrixAt(b, a, zero, c) \in Nat
    BY <2>3, MatrixAtIsNat
  <2>5. MatrixAt(b, a, M, c) = MatrixAt(b, a, zero, c)
    <3>1. c[1] \in Nat /\ c[2] \in Nat
      BY DEF Cells
    <3> HIDE DEF zero
    <3> QED
      BY <2>2, <3>1 DEF MatrixAt, AgreeNext
  <2> QED
    BY <1>1, <2>4, <2>5
<1> HIDE DEF S
<1> QED
  BY <1>2, CellInduction

Walk(b, a) == CHOOSE w : w = [c \in Cells(b, a) |-> WalkAt(b, a, w, c)]

LEMMA WalkIsLcs ==
  ASSUME NEW b, NEW a
  PROVE  LcsOperations(b, a) = Walk(b, a)[<<Len(b), Len(a)>>]
BY DEF LcsOperations, Walk, WalkAt

LEMMA WalkAtIsTyped ==
  ASSUME NEW b \in Seq(TextLines), NEW a \in Seq(TextLines), NEW F \in [Cells(b, a) -> Seq(Ops)],
         NEW c \in Cells(b, a)
  PROVE  WalkAt(b, a, F, c) \in Seq(Ops)
<1>1. /\ c[1] \in Nat /\ c[2] \in Nat
      /\ c[1] > 0 /\ c[2] > 0 => <<c[1] - 1, c[2] - 1>> \in Cells(b, a)
      /\ c[1] > 0 => <<c[1] - 1, c[2]>> \in Cells(b, a) /\ b[c[1]] \in TextLines
      /\ c[2] > 0 => <<c[1], c[2] - 1>> \in Cells(b, a) /\ a[c[2]] \in TextLines
  BY CellsBelow
<1>2. \A t \in TextLines : Equal(t) \in Ops /\ Added(t) \in Ops /\ Removed(t) \in Ops
  BY DEF Equal, Added, Removed, Ops, OpKinds
<1>3. \A d \in Cells(b, a) : \A op \in Ops : Append(F[d], op) \in Seq(Ops)
  BY AppendProperties
<1>4. <<>> \in Seq(Ops)
  OBVIOUS
<1>5. c[1] > 0 => Append(F[<<c[1] - 1, c[2]>>], Removed(b[c[1]])) \in Seq(Ops)
  BY <1>1, <1>2, <1>3
<1>6. c[2] > 0 => Append(F[<<c[1], c[2] - 1>>], Added(a[c[2]])) \in Seq(Ops)
  BY <1>1, <1>2, <1>3
<1>7. c[1] > 0 /\ c[2] > 0 => Append(F[<<c[1] - 1, c[2] - 1>>], Equal(b[c[1]])) \in Seq(Ops)
  BY <1>1, <1>2, <1>3
<1>8. (c[1] > 0 \/ c[1] = 0) /\ (c[2] > 0 \/ c[2] = 0)
  BY <1>1
<1> QED
  BY <1>4, <1>5, <1>6, <1>7, <1>8 DEF WalkAt

LEMMA WalkAtAgrees ==
  ASSUME NEW b \in Seq(TextLines), NEW a \in Seq(TextLines), NEW F, NEW G, NEW c \in Cells(b, a),
         AgreeBelow(b, a, F, G, c)
  PROVE  WalkAt(b, a, F, c) = WalkAt(b, a, G, c)
<1>1. AgreeNext(F, G, c)
  BY CellsAgree
<1>2. (c[1] > 0 \/ c[1] = 0) /\ (c[2] > 0 \/ c[2] = 0)
  BY DEF Cells
<1> QED
  BY <1>1, <1>2 DEF WalkAt, AgreeNext

LEMMA WalkDefined ==
  ASSUME NEW b \in Seq(TextLines), NEW a \in Seq(TextLines)
  PROVE  Walk(b, a) = [c \in Cells(b, a) |-> WalkAt(b, a, Walk(b, a), c)]
<1> DEFINE D == Cells(b, a)
           step == [F \in [D -> Seq(Ops)] |-> [c \in D |-> WalkAt(b, a, F, c)]]
           rank == [c \in D |-> c[1] + c[2]]
<1>1. Seq(Ops) # {}
  <2>1. <<>> \in Seq(Ops)
    OBVIOUS
  <2> QED
    BY <2>1, Zenon
<1>2. step \in [[D -> Seq(Ops)] -> [D -> Seq(Ops)]]
  <2>1. \A F \in [D -> Seq(Ops)] : [c \in D |-> WalkAt(b, a, F, c)] \in [D -> Seq(Ops)]
    BY WalkAtIsTyped
  <2> QED
    BY <2>1
<1>3. rank \in [D -> 0 .. (Len(b) + Len(a))]
  BY CellsBelow
<1>4. ASSUME NEW F \in [D -> Seq(Ops)], NEW G \in [D -> Seq(Ops)], NEW c \in D,
             \A d \in D : rank[d] < rank[c] => F[d] = G[d]
      PROVE  step[F][c] = step[G][c]
  <2>1. c \in Cells(b, a) /\ AgreeBelow(b, a, F, G, c)
    BY <1>4 DEF AgreeBelow
  <2>2. WalkAt(b, a, F, c) = WalkAt(b, a, G, c)
    BY <2>1, WalkAtAgrees
  <2> QED
    BY <2>2
<1>5. PICK N \in Nat : N = Len(b) + Len(a)
  OBVIOUS
<1> HIDE DEF step, rank, D
<1>6. Narrows(D, Seq(Ops), N, rank, step)
  BY <1>2, <1>3, <1>4, <1>5 DEF Narrows
<1>7. HasFixpoint(D, Seq(Ops), step)
  BY <1>1, <1>6, Recursion
<1>8. PICK f \in [D -> Seq(Ops)] : f = [c \in D |-> WalkAt(b, a, f, c)]
  BY <1>7 DEF step, HasFixpoint
<1> QED
  BY <1>8 DEF D, Walk

\* The walk to a cell is a script for its prefixes, with as many equal rows as the matrix has there.
WalkGood(b, a, c) ==
  LET w == Walk(b, a)[c]
  IN  Script(w, b, c[1], a, c[2]) /\ Place(w, Len(w), {"equal"}) = Matrix(b, a)[c]

LEMMA WalkLonger ==
  ASSUME NEW b \in Seq(TextLines), NEW a \in Seq(TextLines), NEW i \in Nat, NEW j \in Nat,
         NEW w, Script(w, b, i, a, j), NEW n \in Nat, Place(w, Len(w), {"equal"}) = n
  PROVE  /\ b[i + 1] \in TextLines /\ b[i + 1] = a[j + 1] =>
              LET e == Append(w, Equal(b[i + 1]))
              IN  Script(e, b, i + 1, a, j + 1) /\ Place(e, Len(e), {"equal"}) = n + 1
         /\ a[j + 1] \in TextLines =>
              LET e == Append(w, Added(a[j + 1]))
              IN  Script(e, b, i, a, j + 1) /\ Place(e, Len(e), {"equal"}) = n
         /\ b[i + 1] \in TextLines =>
              LET e == Append(w, Removed(b[i + 1]))
              IN  Script(e, b, i + 1, a, j) /\ Place(e, Len(e), {"equal"}) = n
<1>1. ASSUME b[i + 1] \in TextLines, b[i + 1] = a[j + 1]
      PROVE  LET e == Append(w, Equal(b[i + 1]))
             IN  Script(e, b, i + 1, a, j + 1) /\ Place(e, Len(e), {"equal"}) = n + 1
  <2> DEFINE op == Equal(b[i + 1])
  <2>1. op \in Ops /\ op.kind = "equal" /\ op.text = b[i + 1] /\ op.text = a[j + 1]
    BY <1>1 DEF Equal, Ops, OpKinds
  <2>2. One("equal", Old) = 1 /\ One("equal", New) = 1 /\ One("equal", {"equal"}) = 1
    BY DEF One, Old, New
  <2> HIDE DEF op
  <2>3. Fits(op, b, i, a, j)
    BY <2>1 DEF Fits
  <2>4. /\ Script(Append(w, op), b, i + One(op.kind, Old), a, j + One(op.kind, New))
        /\ Place(Append(w, op), Len(Append(w, op)), {"equal"}) = Place(w, Len(w), {"equal"}) + One(op.kind, {"equal"})
    BY <2>1, <2>3, LongerScript
  <2> QED
    BY <2>1, <2>2, <2>4 DEF op
<1>2. ASSUME a[j + 1] \in TextLines
      PROVE  LET e == Append(w, Added(a[j + 1]))
             IN  Script(e, b, i, a, j + 1) /\ Place(e, Len(e), {"equal"}) = n
  <2> DEFINE op == Added(a[j + 1])
  <2>1. op \in Ops /\ op.kind = "added" /\ op.text = a[j + 1]
    BY <1>2 DEF Added, Ops, OpKinds
  <2>2. One("added", Old) = 0 /\ One("added", New) = 1 /\ One("added", {"equal"}) = 0 /\ "added" \notin Old
    BY DEF One, Old, New
  <2> HIDE DEF op
  <2>5. Fits(op, b, i, a, j)
    BY <2>1, <2>2 DEF Fits
  <2>3. /\ Script(Append(w, op), b, i + One(op.kind, Old), a, j + One(op.kind, New))
        /\ Place(Append(w, op), Len(Append(w, op)), {"equal"}) = Place(w, Len(w), {"equal"}) + One(op.kind, {"equal"})
    BY <2>1, <2>5, LongerScript
  <2>4. i + 0 = i /\ n + 0 = n
    OBVIOUS
  <2> QED
    BY <2>1, <2>2, <2>3, <2>4 DEF op
<1>3. ASSUME b[i + 1] \in TextLines
      PROVE  LET e == Append(w, Removed(b[i + 1]))
             IN  Script(e, b, i + 1, a, j) /\ Place(e, Len(e), {"equal"}) = n
  <2> DEFINE op == Removed(b[i + 1])
  <2>1. op \in Ops /\ op.kind = "removed" /\ op.text = b[i + 1]
    BY <1>3 DEF Removed, Ops, OpKinds
  <2>2. One("removed", Old) = 1 /\ One("removed", New) = 0 /\ One("removed", {"equal"}) = 0 /\ "removed" \notin New
    BY DEF One, Old, New
  <2> HIDE DEF op
  <2>5. Fits(op, b, i, a, j)
    BY <2>1, <2>2 DEF Fits
  <2>3. /\ Script(Append(w, op), b, i + One(op.kind, Old), a, j + One(op.kind, New))
        /\ Place(Append(w, op), Len(Append(w, op)), {"equal"}) = Place(w, Len(w), {"equal"}) + One(op.kind, {"equal"})
    BY <2>1, <2>5, LongerScript
  <2>4. j + 0 = j /\ n + 0 = n
    OBVIOUS
  <2> QED
    BY <2>1, <2>2, <2>3, <2>4 DEF op
<1> QED
  BY <1>1, <1>2, <1>3

LEMMA WalksAreGood ==
  ASSUME NEW b \in Seq(TextLines), NEW a \in Seq(TextLines)
  PROVE  \A c \in Cells(b, a) : WalkGood(b, a, c)
<1> DEFINE M == Matrix(b, a)
           W == Walk(b, a)
           S == {c \in Cells(b, a) : WalkGood(b, a, c)}
<1> SUFFICES Cells(b, a) \subseteq S
  OBVIOUS
<1>1. ASSUME NEW c \in Cells(b, a), \A d \in Cells(b, a) : d[1] + d[2] < c[1] + c[2] => d \in S
      PROVE  c \in S
  <2>1. PICK i \in 0 .. Len(b), j \in 0 .. Len(a) : c = <<i, j>>
    BY DEF Cells
  <2>2. ASSUME NEW p \in 0 .. Len(b), NEW q \in 0 .. Len(a), p + q < i + j
        PROVE  /\ Script(W[<<p, q>>], b, p, a, q)
               /\ Place(W[<<p, q>>], Len(W[<<p, q>>]), {"equal"}) = M[<<p, q>>]
               /\ M[<<p, q>>] \in Nat
    <3>1. <<p, q>> \in Cells(b, a) /\ <<p, q>>[1] = p /\ <<p, q>>[2] = q /\ c[1] = i /\ c[2] = j
      BY <2>1 DEF Cells
    <3>2. WalkGood(b, a, <<p, q>>)
      BY <1>1, <2>2, <3>1
    <3>3. M[<<p, q>>] \in Nat
      BY <3>1, MatrixTyped
    <3> QED
      BY <3>1, <3>2, <3>3 DEF WalkGood
  <2>3. M[c] = MatrixAt(b, a, M, c) /\ W[c] = WalkAt(b, a, W, c)
    BY MatrixDefined, WalkDefined
  <2>4. c[1] = i /\ c[2] = j
    BY <2>1
  <2> HIDE DEF M, W, S
  <2>5. CASE i = 0 /\ j = 0
    <3>1. W[c] = <<>> /\ M[c] = 0
      BY <2>3, <2>4, <2>5 DEF WalkAt, MatrixAt
    <3> QED
      BY <2>4, <2>5, <3>1, EmptyScript DEF WalkGood, M, W, S
  <2>6. CASE i > 0 /\ j > 0 /\ b[i] = a[j]
    <3>1. i - 1 \in 0 .. Len(b) /\ j - 1 \in 0 .. Len(a) /\ (i - 1) + (j - 1) < i + j
          /\ (i - 1) + 1 = i /\ (j - 1) + 1 = j /\ b[i] \in TextLines
      BY <2>6
    <3>2. W[c] = Append(W[<<i - 1, j - 1>>], Equal(b[i])) /\ M[c] = M[<<i - 1, j - 1>>] + 1
      BY <2>3, <2>4, <2>6 DEF WalkAt, MatrixAt
    <3>3. Script(W[c], b, i, a, j) /\ Place(W[c], Len(W[c]), {"equal"}) = M[<<i - 1, j - 1>>] + 1
      <4> DEFINE w == W[<<i - 1, j - 1>>]
                 n == M[<<i - 1, j - 1>>]
                 k == i - 1
                 l == j - 1
      <4>1. Script(w, b, k, a, l) /\ Place(w, Len(w), {"equal"}) = n /\ n \in Nat /\ k \in Nat /\ l \in Nat
        BY <2>2, <3>1
      <4>2. k + 1 = i /\ l + 1 = j
        BY <3>1
      <4> HIDE DEF w, n, k, l
      <4>3. b[k + 1] \in TextLines /\ b[k + 1] = a[l + 1]
        BY <2>6, <3>1, <4>2
      <4>4. LET e == Append(w, Equal(b[k + 1]))
            IN  Script(e, b, k + 1, a, l + 1) /\ Place(e, Len(e), {"equal"}) = n + 1
        BY <4>1, <4>3, WalkLonger
      <4> QED
        BY <3>2, <4>2, <4>4 DEF w, n
    <3> QED
      BY <2>4, <3>2, <3>3 DEF WalkGood, M, W, S
  <2>7. CASE /\ ~(i > 0 /\ j > 0 /\ b[i] = a[j])
             /\ j > 0 /\ (i = 0 \/ M[<<i, j - 1>>] >= M[<<i - 1, j>>])
    <3>1. j - 1 \in 0 .. Len(a) /\ i + (j - 1) < i + j /\ (j - 1) + 1 = j /\ a[j] \in TextLines
      BY <2>7
    <3>2. W[c] = Append(W[<<i, j - 1>>], Added(a[j]))
      <4>1. Matrix(b, a) = M
        BY DEF M
      <4>2. CASE i = 0
        <5>1. j # 0 /\ j > 0 /\ ~(i > 0)
          BY <2>7, <4>2
        <5> QED
          BY <2>3, <2>4, <4>2, <5>1 DEF WalkAt
      <4>3. CASE i > 0
        <5>1. i # 0 /\ j > 0 /\ b[i] # a[j] /\ M[<<i, j - 1>>] >= M[<<i - 1, j>>]
          BY <2>7, <4>3
        <5> QED
          BY <2>3, <2>4, <4>1, <5>1 DEF WalkAt
      <4>4. i = 0 \/ i > 0
        OBVIOUS
      <4> QED
        BY <4>2, <4>3, <4>4
    <3>3. M[c] = M[<<i, j - 1>>]
      <4>1. CASE i = 0
        <5>1. <<i, j - 1>> \in Cells(b, a) /\ <<i, j - 1>>[1] = 0
          BY <3>1, <4>1 DEF Cells
        <5>2. M[<<i, j - 1>>] = 0
          <6>1. M[<<i, j - 1>>] = MatrixAt(b, a, M, <<i, j - 1>>)
            BY <5>1, MatrixDefined DEF M
          <6> QED
            BY <5>1, <6>1 DEF MatrixAt
        <5> QED
          BY <2>3, <2>4, <4>1, <5>2 DEF MatrixAt
      <4>2. CASE i # 0
        <5>1. i > 0 /\ j > 0 /\ b[i] # a[j] /\ i - 1 \in 0 .. Len(b) /\ (i - 1) + j < i + j
          BY <2>7, <4>2
        <5>2. M[<<i - 1, j>>] \in Nat /\ M[<<i, j - 1>>] \in Nat
          BY <2>2, <3>1, <5>1
        <5>3. ~(M[<<i - 1, j>>] > M[<<i, j - 1>>])
          BY <2>7, <4>2, <5>2
        <5> QED
          BY <2>3, <2>4, <5>1, <5>3 DEF MatrixAt
      <4> QED
        BY <4>1, <4>2
    <3>4. Script(W[c], b, i, a, j) /\ Place(W[c], Len(W[c]), {"equal"}) = M[<<i, j - 1>>]
      <4> DEFINE w == W[<<i, j - 1>>]
                 n == M[<<i, j - 1>>]
                 l == j - 1
      <4>1. Script(w, b, i, a, l) /\ Place(w, Len(w), {"equal"}) = n /\ n \in Nat /\ i \in Nat /\ l \in Nat
        BY <2>2, <3>1
      <4>2. l + 1 = j
        BY <3>1
      <4> HIDE DEF w, n, l
      <4>3. a[l + 1] \in TextLines
        BY <3>1, <4>2
      <4>4. LET e == Append(w, Added(a[l + 1]))
            IN  Script(e, b, i, a, l + 1) /\ Place(e, Len(e), {"equal"}) = n
        BY <4>1, <4>3, WalkLonger
      <4> QED
        BY <3>2, <4>2, <4>4 DEF w, n
    <3> QED
      BY <2>4, <3>3, <3>4 DEF WalkGood, M, W, S
  <2>8. CASE /\ ~(i = 0 /\ j = 0) /\ ~(i > 0 /\ j > 0 /\ b[i] = a[j])
             /\ ~(j > 0 /\ (i = 0 \/ M[<<i, j - 1>>] >= M[<<i - 1, j>>]))
    <3>1. i > 0 /\ i - 1 \in 0 .. Len(b) /\ (i - 1) + j < i + j /\ (i - 1) + 1 = i /\ b[i] \in TextLines
      BY <2>8
    <3>2. W[c] = Append(W[<<i - 1, j>>], Removed(b[i]))
      BY <2>3, <2>4, <2>8 DEF WalkAt, M
    <3>3. M[c] = M[<<i - 1, j>>]
      <4>1. CASE j = 0
        <5>1. <<i - 1, j>> \in Cells(b, a) /\ <<i - 1, j>>[2] = 0
          BY <3>1, <4>1 DEF Cells
        <5>2. M[<<i - 1, j>>] = 0
          <6>1. M[<<i - 1, j>>] = MatrixAt(b, a, M, <<i - 1, j>>)
            BY <5>1, MatrixDefined DEF M
          <6> QED
            BY <5>1, <6>1 DEF MatrixAt
        <5> QED
          BY <2>3, <2>4, <4>1, <5>2 DEF MatrixAt
      <4>2. CASE j # 0
        <5>1. j > 0 /\ b[i] # a[j] /\ j - 1 \in 0 .. Len(a) /\ i + (j - 1) < i + j
          BY <2>8, <3>1, <4>2
        <5>2. M[<<i - 1, j>>] \in Nat /\ M[<<i, j - 1>>] \in Nat
          BY <2>2, <3>1, <5>1
        <5>3. M[<<i - 1, j>>] > M[<<i, j - 1>>]
          BY <2>8, <5>1, <5>2
        <5> QED
          BY <2>3, <2>4, <3>1, <5>1, <5>3 DEF MatrixAt
      <4> QED
        BY <4>1, <4>2
    <3>4. Script(W[c], b, i, a, j) /\ Place(W[c], Len(W[c]), {"equal"}) = M[<<i - 1, j>>]
      <4> DEFINE w == W[<<i - 1, j>>]
                 n == M[<<i - 1, j>>]
                 k == i - 1
      <4>1. Script(w, b, k, a, j) /\ Place(w, Len(w), {"equal"}) = n /\ n \in Nat /\ k \in Nat /\ j \in Nat
        BY <2>2, <3>1
      <4>2. k + 1 = i
        BY <3>1
      <4> HIDE DEF w, n, k
      <4>3. b[k + 1] \in TextLines
        BY <3>1, <4>2
      <4>4. LET e == Append(w, Removed(b[k + 1]))
            IN  Script(e, b, k + 1, a, j) /\ Place(e, Len(e), {"equal"}) = n
        BY <4>1, <4>3, WalkLonger
      <4> QED
        BY <3>2, <4>2, <4>4 DEF w, n
    <3> QED
      BY <2>4, <3>3, <3>4 DEF WalkGood, M, W, S
  <2> QED
    BY <2>5, <2>6, <2>7, <2>8
<1> HIDE DEF S
<1> QED
  BY <1>1, CellInduction

-----------------------------------------------------------------------------
(* The matrix holds the greatest lengths of common subsequences.           *)

Matches(b, a, s, f) == \A x, y \in s : b[x] = a[f[x]] /\ (x < y => f[x] < f[y])
Common(b, i, a, j) == {s \in SUBSET (1 .. i) : \E f \in [s -> 1 .. j] : Matches(b, a, s, f)}

LEMMA PartIsCommon ==
  ASSUME NEW b, NEW a, NEW s, NEW f, Matches(b, a, s, f), NEW t \in SUBSET s,
         NEW p, t \subseteq 1 .. p, NEW q, \A x \in t : f[x] \in 1 .. q
  PROVE  t \in Common(b, p, a, q)
<1> DEFINE g == [x \in t |-> f[x]]
<1>1. g \in [t -> 1 .. q]
  OBVIOUS
<1>2. Matches(b, a, t, g)
  BY DEF Matches
<1> HIDE DEF g
<1> QED
  BY <1>1, <1>2 DEF Common

LEMMA CommonIsFinite ==
  ASSUME NEW b, NEW a, NEW i \in Nat, NEW j, NEW s \in Common(b, i, a, j)
  PROVE  IsFiniteSet(s) /\ Cardinality(s) \in Nat /\ s \subseteq 1 .. i
<1>1. s \subseteq 1 .. i /\ IsFiniteSet(1 .. i)
  BY FS_Interval DEF Common
<1>2. IsFiniteSet(s)
  BY <1>1, FS_Subset
<1> QED
  BY <1>1, <1>2, FS_CardinalityType

LEMMA CommonShrinks ==
  ASSUME NEW b, NEW a, NEW i \in Nat, NEW j \in Nat, i > 0, j > 0, NEW s \in Common(b, i, a, j)
  PROVE  \E t \in Common(b, i - 1, a, j - 1) : Cardinality(s) <= Cardinality(t) + 1
<1>1. IsFiniteSet(s) /\ Cardinality(s) \in Nat /\ s \subseteq 1 .. i
  BY CommonIsFinite
<1>2. PICK f \in [s -> 1 .. j] : Matches(b, a, s, f)
  BY DEF Common
<1>3. \A x, y \in s : x \in Nat /\ f[x] \in 1 .. j /\ (x < y => f[x] < f[y])
  BY <1>1, <1>2 DEF Matches
<1>4. ASSUME NEW k \in s, k = i \/ f[k] = j, NEW x \in s \ {k} PROVE f[x] \in 1 .. j - 1
  <2>1. x < k \/ k < x
    BY <1>3
  <2>2. x \in 1 .. i /\ k \in 1 .. i /\ f[x] \in 1 .. j /\ f[k] \in 1 .. j
    BY <1>1, <1>3
  <2>3. CASE x < k
    <3>1. f[x] < f[k]
      BY <1>3, <2>3
    <3> QED
      BY <2>2, <3>1
  <2>4. CASE k < x
    <3>1. f[k] < f[x]
      BY <1>3, <2>4
    <3>2. k # i
      BY <2>2, <2>4
    <3> QED
      BY <1>4, <2>2, <3>1, <3>2
  <2> QED
    BY <2>1, <2>3, <2>4
<1>5. ASSUME NEW k \in s, k = i \/ (f[k] = j /\ i \notin s)
      PROVE  \E t \in Common(b, i - 1, a, j - 1) : Cardinality(s) <= Cardinality(t) + 1
  <2> DEFINE t == s \ {k}
  <2>1. t \subseteq 1 .. i - 1
    BY <1>1, <1>5
  <2>2. \A x \in t : f[x] \in 1 .. j - 1
    BY <1>4, <1>5
  <2>3. t \in Common(b, i - 1, a, j - 1)
    BY <1>2, <2>1, <2>2, PartIsCommon
  <2>4. Cardinality(t) = Cardinality(s) - 1
    BY <1>1, FS_RemoveElement
  <2>5. Cardinality(s) <= Cardinality(t) + 1
    BY <1>1, <2>4
  <2> QED
    BY <2>3, <2>5
<1>6. CASE i \notin s /\ \A k \in s : f[k] # j
  <2>1. s \subseteq 1 .. i - 1
    BY <1>1, <1>6
  <2>2. \A x \in s : f[x] \in 1 .. j - 1
    BY <1>3, <1>6
  <2>3. s \in Common(b, i - 1, a, j - 1)
    BY <1>2, <2>1, <2>2, PartIsCommon
  <2>4. Cardinality(s) <= Cardinality(s) + 1
    BY <1>1
  <2> QED
    BY <2>3, <2>4
<1>7. CASE i \in s
  BY <1>5, <1>7
<1>8. CASE i \notin s /\ ~(\A k \in s : f[k] # j)
  BY <1>5, <1>8
<1> QED
  BY <1>6, <1>7, <1>8

LEMMA CommonOfOther ==
  ASSUME NEW b, NEW a, NEW i \in Nat, NEW j \in Nat, i > 0, j > 0, b[i] # a[j], NEW s \in Common(b, i, a, j)
  PROVE  s \in Common(b, i - 1, a, j) \/ s \in Common(b, i, a, j - 1)
<1>1. s \subseteq 1 .. i
  BY DEF Common
<1>2. PICK f \in [s -> 1 .. j] : Matches(b, a, s, f)
  BY DEF Common
<1>3. CASE i \notin s
  <2>1. s \subseteq 1 .. i - 1 /\ \A x \in s : f[x] \in 1 .. j
    BY <1>1, <1>3
  <2> QED
    BY <1>2, <2>1, PartIsCommon
<1>4. CASE i \in s
  <2>1. f[i] \in 1 .. j /\ f[i] # j
    BY <1>2, <1>4 DEF Matches
  <2>2. ASSUME NEW x \in s PROVE f[x] \in 1 .. j - 1
    <3>1. f[x] \in 1 .. j /\ x \in 1 .. i
      BY <1>1
    <3>2. x = i \/ f[x] < f[i]
      BY <1>2, <1>4, <3>1 DEF Matches
    <3> QED
      BY <2>1, <3>1, <3>2
  <2> QED
    BY <1>1, <1>2, <2>2, PartIsCommon
<1> QED
  BY <1>3, <1>4

LEMMA CommonGrows ==
  ASSUME NEW b, NEW a, NEW i \in Nat, NEW j \in Nat, NEW s
  PROVE  /\ i > 0 /\ s \in Common(b, i - 1, a, j) => s \in Common(b, i, a, j)
         /\ j > 0 /\ s \in Common(b, i, a, j - 1) => s \in Common(b, i, a, j)
<1>1. ASSUME i > 0, s \in Common(b, i - 1, a, j) PROVE s \in Common(b, i, a, j)
  <2>1. PICK f \in [s -> 1 .. j] : Matches(b, a, s, f)
    BY <1>1 DEF Common
  <2>2. s \subseteq 1 .. i /\ \A x \in s : f[x] \in 1 .. j
    BY <1>1 DEF Common
  <2> QED
    BY <2>1, <2>2, PartIsCommon
<1>2. ASSUME j > 0, s \in Common(b, i, a, j - 1) PROVE s \in Common(b, i, a, j)
  <2>1. PICK f \in [s -> 1 .. j - 1] : Matches(b, a, s, f)
    BY <1>2 DEF Common
  <2>2. s \subseteq 1 .. i /\ \A x \in s : f[x] \in 1 .. j
    BY <1>2 DEF Common
  <2> QED
    BY <2>1, <2>2, PartIsCommon
<1> QED
  BY <1>1, <1>2

LEMMA CommonExtends ==
  ASSUME NEW b, NEW a, NEW i \in Nat, NEW j \in Nat, i > 0, j > 0, b[i] = a[j],
         NEW s \in Common(b, i - 1, a, j - 1)
  PROVE  s \union {i} \in Common(b, i, a, j) /\ Cardinality(s \union {i}) = Cardinality(s) + 1
<1>0. i - 1 \in Nat
  OBVIOUS
<1>1. IsFiniteSet(s) /\ Cardinality(s) \in Nat /\ s \subseteq 1 .. i - 1
  BY <1>0, CommonIsFinite
<1>2. PICK f \in [s -> 1 .. j - 1] : Matches(b, a, s, f)
  BY DEF Common
<1> DEFINE g == [x \in s \union {i} |-> IF x = i THEN j ELSE f[x]]
<1>3. i \notin s /\ \A x \in s : x \in Nat /\ x < i /\ f[x] \in Nat /\ f[x] < j
  BY <1>1
<1>4. g \in [s \union {i} -> 1 .. j]
  <2>1. \A x \in s : f[x] \in 1 .. j
    OBVIOUS
  <2> QED
    BY <2>1
<1>5. g[i] = j /\ \A x \in s : g[x] = f[x]
  BY <1>3
<1> HIDE DEF g
<1>6. Matches(b, a, s \union {i}, g)
  <2> SUFFICES ASSUME NEW x \in s \union {i}, NEW y \in s \union {i}
               PROVE  b[x] = a[g[x]] /\ (x < y => g[x] < g[y])
    BY DEF Matches
  <2>1. b[x] = a[g[x]]
    BY <1>2, <1>5 DEF Matches
  <2>2. ASSUME x < y PROVE g[x] < g[y]
    <3>1. x \in s
      BY <1>3, <2>2
    <3>2. CASE y = i
      BY <1>3, <1>5, <3>1, <3>2
    <3>3. CASE y \in s
      BY <1>2, <1>5, <2>2, <3>1, <3>3 DEF Matches
    <3> QED
      BY <3>2, <3>3
  <2> QED
    BY <2>1, <2>2
<1>7. s \union {i} \subseteq 1 .. i /\ \A x \in s \union {i} : g[x] \in 1 .. j
  BY <1>1, <1>4
<1>8. s \union {i} \in Common(b, i, a, j)
  BY <1>6, <1>7, PartIsCommon
<1> QED
  BY <1>1, <1>3, <1>8, FS_AddElement

\* One of the common subsequences has the length in the matrix, and none is longer.
CommonGood(b, a, c) ==
  /\ \A s \in Common(b, c[1], a, c[2]) : Cardinality(s) <= Matrix(b, a)[c]
  /\ \E s \in Common(b, c[1], a, c[2]) : Cardinality(s) = Matrix(b, a)[c]

LEMMA MatrixIsLongest ==
  ASSUME NEW b \in Seq(TextLines), NEW a \in Seq(TextLines)
  PROVE  \A c \in Cells(b, a) : CommonGood(b, a, c)
<1> DEFINE M == Matrix(b, a)
           S == {c \in Cells(b, a) : CommonGood(b, a, c)}
<1> SUFFICES Cells(b, a) \subseteq S
  OBVIOUS
<1>1. ASSUME NEW c \in Cells(b, a), \A d \in Cells(b, a) : d[1] + d[2] < c[1] + c[2] => d \in S
      PROVE  c \in S
  <2>1. PICK i \in 0 .. Len(b), j \in 0 .. Len(a) : c = <<i, j>>
    BY DEF Cells
  <2>2. ASSUME NEW p \in 0 .. Len(b), NEW q \in 0 .. Len(a), p + q < i + j
        PROVE  /\ \A s \in Common(b, p, a, q) : Cardinality(s) <= M[<<p, q>>]
               /\ \E s \in Common(b, p, a, q) : Cardinality(s) = M[<<p, q>>]
               /\ M[<<p, q>>] \in Nat
    <3>1. <<p, q>> \in Cells(b, a) /\ <<p, q>>[1] = p /\ <<p, q>>[2] = q /\ c[1] = i /\ c[2] = j
      BY <2>1 DEF Cells
    <3>2. CommonGood(b, a, <<p, q>>)
      BY <1>1, <2>2, <3>1
    <3>3. M[<<p, q>>] \in Nat
      BY <3>1, MatrixTyped
    <3> QED
      BY <3>1, <3>2, <3>3 DEF CommonGood
  <2>3. M[c] = MatrixAt(b, a, M, c)
    BY MatrixDefined
  <2>4. c[1] = i /\ c[2] = j
    BY <2>1
  <2> HIDE DEF M, S
  <2> SUFFICES /\ \A s \in Common(b, i, a, j) : Cardinality(s) <= M[c]
               /\ \E s \in Common(b, i, a, j) : Cardinality(s) = M[c]
    BY <2>4 DEF CommonGood, M, S
  <2>5. CASE i = 0 \/ j = 0
    <3>1. M[c] = 0
      BY <2>3, <2>4, <2>5 DEF MatrixAt
    <3>2. \A s \in Common(b, i, a, j) : s = {}
      BY <2>5 DEF Common
    <3>3. [x \in {} |-> 1] \in [{} -> 1 .. j] /\ Matches(b, a, {}, [x \in {} |-> 1])
      BY DEF Matches
    <3>4. {} \in SUBSET (1 .. i)
      OBVIOUS
    <3>5. {} \in Common(b, i, a, j)
      BY <3>3, <3>4, Zenon DEF Common
    <3>6. Cardinality({}) = 0
      BY FS_EmptySet
    <3>7. ASSUME NEW s \in Common(b, i, a, j) PROVE Cardinality(s) <= 0
      <4>1. s = {}
        BY <3>2
      <4>2. Cardinality(s) = 0
        BY <3>6, <4>1
      <4> QED
        BY <4>2
    <3> QED
      BY <3>1, <3>5, <3>6, <3>7
  <2>6. CASE i > 0 /\ j > 0 /\ b[i] = a[j]
    <3>0. i \in Nat /\ j \in Nat
      OBVIOUS
    <3>1. i - 1 \in 0 .. Len(b) /\ j - 1 \in 0 .. Len(a) /\ (i - 1) + (j - 1) < i + j /\ i - 1 \in Nat /\ j - 1 \in Nat
      BY <2>6
    <3>2. M[c] = M[<<i - 1, j - 1>>] + 1
      BY <2>3, <2>4, <2>6 DEF MatrixAt
    <3> DEFINE n == M[<<i - 1, j - 1>>]
    <3>3. /\ \A t \in Common(b, i - 1, a, j - 1) : Cardinality(t) <= n
          /\ \E t \in Common(b, i - 1, a, j - 1) : Cardinality(t) = n
          /\ n \in Nat
      BY <2>2, <3>1
    <3> HIDE DEF n
    <3>4. ASSUME NEW s \in Common(b, i, a, j) PROVE Cardinality(s) <= n + 1
      <4>1. PICK t \in Common(b, i - 1, a, j - 1) : Cardinality(s) <= Cardinality(t) + 1
        BY <2>6, <3>0, CommonShrinks
      <4>2. Cardinality(t) \in Nat
        BY <3>1, CommonIsFinite
      <4>3. Cardinality(s) \in Nat
        BY <3>0, CommonIsFinite
      <4>4. Cardinality(t) <= n
        BY <3>3
      <4> QED
        BY <3>3, <4>1, <4>2, <4>3, <4>4
    <3>5. \E s \in Common(b, i, a, j) : Cardinality(s) = n + 1
      <4>1. PICK t \in Common(b, i - 1, a, j - 1) : Cardinality(t) = n
        BY <3>3
      <4>2. t \union {i} \in Common(b, i, a, j) /\ Cardinality(t \union {i}) = Cardinality(t) + 1
        BY <2>6, CommonExtends
      <4> QED
        BY <4>1, <4>2
    <3> QED
      BY <3>2, <3>4, <3>5 DEF n
  <2>7. CASE i > 0 /\ j > 0 /\ b[i] # a[j]
    <3> DEFINE above == M[<<i - 1, j>>]
               left == M[<<i, j - 1>>]
    <3>0. i \in Nat /\ j \in Nat
      OBVIOUS
    <3>1. i - 1 \in 0 .. Len(b) /\ j - 1 \in 0 .. Len(a) /\ (i - 1) + j < i + j /\ i + (j - 1) < i + j
      BY <2>7
    <3>2. M[c] = IF above > left THEN above ELSE left
      BY <2>3, <2>4, <2>7 DEF MatrixAt
    <3>3. /\ \A s \in Common(b, i - 1, a, j) : Cardinality(s) <= above
          /\ \E s \in Common(b, i - 1, a, j) : Cardinality(s) = above
          /\ above \in Nat
      BY <2>2, <3>1
    <3>4. /\ \A s \in Common(b, i, a, j - 1) : Cardinality(s) <= left
          /\ \E s \in Common(b, i, a, j - 1) : Cardinality(s) = left
          /\ left \in Nat
      BY <2>2, <3>1
    <3> HIDE DEF above, left
    <3>5. ASSUME NEW s \in Common(b, i, a, j) PROVE Cardinality(s) <= M[c]
      <4>1. s \in Common(b, i - 1, a, j) \/ s \in Common(b, i, a, j - 1)
        BY <2>7, CommonOfOther
      <4>2. Cardinality(s) \in Nat
        BY <3>0, CommonIsFinite
      <4>3. Cardinality(s) <= above \/ Cardinality(s) <= left
        BY <3>3, <3>4, <4>1
      <4> QED
        BY <3>2, <3>3, <3>4, <4>2, <4>3
    <3>6. \E s \in Common(b, i, a, j) : Cardinality(s) = above
      <4>1. PICK t \in Common(b, i - 1, a, j) : Cardinality(t) = above
        BY <3>3
      <4>2. t \in Common(b, i, a, j)
        BY <2>7, <3>0, CommonGrows
      <4> QED
        BY <4>1, <4>2
    <3>7. \E s \in Common(b, i, a, j) : Cardinality(s) = left
      <4>1. PICK t \in Common(b, i, a, j - 1) : Cardinality(t) = left
        BY <3>4
      <4>2. t \in Common(b, i, a, j)
        BY <2>7, <3>0, CommonGrows
      <4> QED
        BY <4>1, <4>2
    <3> QED
      BY <3>2, <3>5, <3>6, <3>7
  <2>8. i = 0 \/ j = 0 \/ (i > 0 /\ j > 0)
    OBVIOUS
  <2> QED
    BY <2>5, <2>6, <2>7, <2>8
<1> HIDE DEF S
<1> QED
  BY <1>1, CellInduction

LEMMA LongestIs ==
  ASSUME NEW b \in Seq(TextLines), NEW a \in Seq(TextLines)
  PROVE  CommonLength(b, a) = Matrix(b, a)[<<Len(b), Len(a)>>]
<1> DEFINE common == Common(b, Len(b), a, Len(a))
           n == Matrix(b, a)[<<Len(b), Len(a)>>]
           Longest(k) == (\E s \in common : Cardinality(s) = k) /\ \A s \in common : Cardinality(s) <= k
<1>0. Len(b) \in Nat /\ Len(a) \in Nat /\ DOMAIN b = 1 .. Len(b) /\ DOMAIN a = 1 .. Len(a)
  OBVIOUS
<1>1. CommonLength(b, a) = CHOOSE k \in 0 .. Len(b) : Longest(k)
  BY <1>0 DEF CommonLength, Common, Matches
<1>2. <<Len(b), Len(a)>> \in Cells(b, a)
  BY <1>0 DEF Cells
<1>3. CommonGood(b, a, <<Len(b), Len(a)>>)
  BY <1>2, MatrixIsLongest
<1>4. Longest(n)
  BY <1>3 DEF CommonGood
<1>5. \A s \in common : Cardinality(s) \in Nat /\ IsFiniteSet(s) /\ s \subseteq 1 .. Len(b)
  BY <1>0, CommonIsFinite
<1> HIDE DEF common, n
<1>6. n \in 0 .. Len(b)
  <2>1. PICK s \in common : Cardinality(s) = n
    BY <1>4
  <2>2. IsFiniteSet(1 .. Len(b)) /\ Cardinality(1 .. Len(b)) = Len(b)
    <3>1. 1 \in Int /\ Len(b) \in Int /\ (1 > Len(b) <=> Len(b) = 0)
      BY <1>0
    <3>2. IsFiniteSet(1 .. Len(b)) /\ Cardinality(1 .. Len(b)) = IF 1 > Len(b) THEN 0 ELSE Len(b) - 1 + 1
      BY <3>1, FS_Interval
    <3> QED
      BY <1>0, <3>1, <3>2
  <2>3. Cardinality(s) <= Len(b)
    BY <1>5, <2>2, FS_Subset
  <2> QED
    BY <1>0, <1>5, <2>1, <2>3
<1>7. ASSUME NEW k \in 0 .. Len(b), Longest(k) PROVE k = n
  <2>1. k <= n /\ n <= k
    BY <1>4, <1>7
  <2> QED
    BY <1>0, <1>6, <2>1
<1>8. CommonLength(b, a) = n
  <2> HIDE DEF Longest
  <2> QED
    BY <1>1, <1>4, <1>6, <1>7
<1> QED
  BY <1>8 DEF n

\* Every line of a text is common to it and itself.
LEMMA SameIsCommon ==
  ASSUME NEW b \in Seq(TextLines)
  PROVE  Matrix(b, b)[<<Len(b), Len(b)>>] >= Len(b)
<1> DEFINE s == 1 .. Len(b)
           f == [x \in s |-> x]
<1>0. Len(b) \in Nat
  OBVIOUS
<1>1. <<Len(b), Len(b)>> \in Cells(b, b)
  BY <1>0 DEF Cells
<1>2. CommonGood(b, b, <<Len(b), Len(b)>>)
  BY <1>1, MatrixIsLongest
<1>3. f \in [s -> 1 .. Len(b)] /\ Matches(b, b, s, f)
  BY DEF Matches
<1>4. s \in SUBSET (1 .. Len(b))
  OBVIOUS
<1>5. Cardinality(s) = Len(b)
  <2>1. 1 \in Int /\ Len(b) \in Int /\ (1 > Len(b) <=> Len(b) = 0)
    BY <1>0
  <2>2. Cardinality(1 .. Len(b)) = IF 1 > Len(b) THEN 0 ELSE Len(b) - 1 + 1
    BY <2>1, FS_Interval
  <2> QED
    BY <1>0, <2>1, <2>2
<1> HIDE DEF s, f
<1>6. s \in Common(b, Len(b), b, Len(b))
  BY <1>3, <1>4, Zenon DEF Common
<1>7. Cardinality(s) <= Matrix(b, b)[<<Len(b), Len(b)>>]
  BY <1>2, <1>6 DEF CommonGood
<1>8. Matrix(b, b)[<<Len(b), Len(b)>>] \in Nat
  BY <1>1, MatrixTyped
<1> QED
  BY <1>0, <1>5, <1>7, <1>8

-----------------------------------------------------------------------------
(* What either comparison gives: a script from one text to the other, that *)
(* changes nothing when they are the same.                                 *)

Compares(ops, b, a) ==
  /\ Script(ops, b, Len(b), a, Len(a))
  /\ b = a => Place(ops, Len(ops), {"added", "removed"}) = 0

LEMMA LcsCompares ==
  ASSUME NEW b \in Seq(TextLines), NEW a \in Seq(TextLines)
  PROVE  /\ Compares(LcsOperations(b, a), b, a)
         /\ Count(LcsOperations(b, a), {"equal"}) = CommonLength(b, a)
<1> DEFINE ops == LcsOperations(b, a)
           n == Matrix(b, a)[<<Len(b), Len(a)>>]
<1>0. Len(b) \in Nat /\ Len(a) \in Nat
  OBVIOUS
<1>1. <<Len(b), Len(a)>> \in Cells(b, a) /\ <<Len(b), Len(a)>>[1] = Len(b) /\ <<Len(b), Len(a)>>[2] = Len(a)
  BY <1>0 DEF Cells
<1>2. ops = Walk(b, a)[<<Len(b), Len(a)>>]
  BY WalkIsLcs
<1>3. Script(ops, b, Len(b), a, Len(a)) /\ Place(ops, Len(ops), {"equal"}) = n
  <2>1. WalkGood(b, a, <<Len(b), Len(a)>>)
    BY <1>1, WalksAreGood
  <2> HIDE DEF ops
  <2> QED
    BY <1>1, <1>2, <2>1 DEF WalkGood
<1> HIDE DEF ops
<1>4. ops \in Seq(Ops) /\ Len(ops) \in Nat
  BY <1>3 DEF Script
<1>5. ASSUME b = a PROVE Place(ops, Len(ops), {"added", "removed"}) = 0
  <2>1. n >= Len(b)
    BY <1>5, SameIsCommon
  <2>2. n \in Nat
    BY <1>1, MatrixTyped
  <2> DEFINE P(K) == Place(ops, Len(ops), K)
  <2>3. P({"equal"}) = n /\ P(Old) = Len(b) /\ P(New) = Len(a)
    BY <1>3 DEF Script
  <2>4. /\ P({"equal"}) + P({"removed"}) = P(Old) /\ P({"equal"}) + P({"added"}) = P(New)
        /\ P({"removed"}) + P({"added"}) = P({"added", "removed"})
    BY <1>4, PlacesAddUp
  <2>5. P({"removed"}) \in Nat /\ P({"added"}) \in Nat
    BY <1>4, PlaceIsNat
  <2> HIDE DEF P, n
  <2>6. P({"added", "removed"}) = 0
    BY <1>0, <1>5, <2>1, <2>2, <2>3, <2>4, <2>5
  <2> QED
    BY <2>6 DEF P
<1>6. Count(ops, {"equal"}) = CommonLength(b, a)
  <2>1. CommonLength(b, a) = n
    BY LongestIs
  <2>2. Count(ops, {"equal"}) = Place(ops, Len(ops), {"equal"})
    BY <1>4, PlaceIsCount
  <2> QED
    BY <1>3, <2>1, <2>2
<1> QED
  BY <1>3, <1>5, <1>6 DEF Compares, ops

LEMMA PrefixIsCommon ==
  ASSUME NEW b \in Seq(TextLines), NEW a \in Seq(TextLines)
  PROVE  LET n == CommonPrefix(b, a)
         IN  /\ n \in Nat /\ n <= Len(b) /\ n <= Len(a)
             /\ n = Len(b) \/ n = Len(a) \/ b[n + 1] # a[n + 1]
             /\ \A k \in 1 .. n : b[k] = a[k]
<1> DEFINE Stops(n) == n >= Len(b) \/ n >= Len(a) \/ b[n + 1] # a[n + 1]
           T == {n \in Nat : Stops(n)}
           Prefix(n) == n <= Len(a) /\ (n = Len(b) \/ n = Len(a) \/ b[n + 1] # a[n + 1])
                          /\ \A k \in 1 .. n : b[k] = a[k]
<1>0. Len(b) \in Nat /\ Len(a) \in Nat
  OBVIOUS
<1>1. Len(b) \in T /\ Len(a) \in T
  BY <1>0
<1>2. T \in SUBSET Nat /\ T # {}
  BY <1>1
<1>3. PICK n \in T : \A m \in T : n <= m
  <2> HIDE DEF T
  <2> QED
    BY <1>2, LeastNumber
<1>4. n \in Nat /\ n <= Len(b) /\ n <= Len(a)
  BY <1>0, <1>1, <1>3
<1>5. n = Len(b) \/ n = Len(a) \/ b[n + 1] # a[n + 1]
  BY <1>0, <1>3, <1>4
<1>6. ASSUME NEW k \in 1 .. n PROVE b[k] = a[k]
  <2>1. k - 1 \in Nat /\ k - 1 < n /\ (k - 1) + 1 = k
    BY <1>4
  <2>2. k - 1 \notin T
    <3> HIDE DEF T
    <3> QED
      BY <1>3, <1>4, <2>1
  <2>3. ~Stops(k - 1)
    <3> HIDE DEF Stops
    <3> QED
      BY <2>1, <2>2
  <2> QED
    BY <2>1, <2>3
<1>7. n \in 0 .. Len(b) /\ Prefix(n)
  BY <1>0, <1>4, <1>5, <1>6
<1>8. CommonPrefix(b, a) = CHOOSE m \in 0 .. Len(b) : Prefix(m)
  BY DEF CommonPrefix
<1>9. CommonPrefix(b, a) \in 0 .. Len(b) /\ Prefix(CommonPrefix(b, a))
  <2> HIDE DEF Prefix
  <2> QED
    BY <1>7, <1>8
<1> QED
  BY <1>0, <1>9

LEMMA ReverseIs ==
  ASSUME NEW s \in Seq(TextLines)
  PROVE  /\ Seqs!Reverse(s) \in Seq(TextLines) /\ Len(Seqs!Reverse(s)) = Len(s)
         /\ \A k \in 1 .. Len(s) : Seqs!Reverse(s)[k] = s[Len(s) - k + 1]
<1>1. Len(s) \in Nat /\ \A k \in 1 .. Len(s) : Len(s) - k + 1 \in 1 .. Len(s)
  OBVIOUS
<1>2. Seqs!Reverse(s) = [k \in 1 .. Len(s) |-> s[(Len(s) - k) + 1]]
  BY DEF Seqs!Reverse
<1>3. \A k \in 1 .. Len(s) : s[(Len(s) - k) + 1] \in TextLines
  BY <1>1
<1> QED
  BY <1>1, <1>2, <1>3

\* The last lines of both that are the same, and not among the first p.
LEMMA SuffixIsCommon ==
  ASSUME NEW b \in Seq(TextLines), NEW a \in Seq(TextLines), NEW p \in Nat, p <= Len(b), p <= Len(a)
  PROVE  LET n == CommonSuffix(b, a, p)
         IN  /\ n \in Nat /\ p + n <= Len(b) /\ p + n <= Len(a)
             /\ \A k \in 1 .. n : b[Len(b) - k + 1] = a[Len(a) - k + 1]
<1> DEFINE rb == SubSeq(b, p + 1, Len(b))
           ra == SubSeq(a, p + 1, Len(a))
           n == CommonSuffix(b, a, p)
<1>0. Len(b) \in Nat /\ Len(a) \in Nat
  OBVIOUS
<1>1. /\ rb \in Seq(TextLines) /\ Len(rb) = Len(b) - p /\ \A k \in 1 .. Len(rb) : rb[k] = b[p + k]
      /\ ra \in Seq(TextLines) /\ Len(ra) = Len(a) - p /\ \A k \in 1 .. Len(ra) : ra[k] = a[p + k]
  <2>1. \A k \in p + 1 .. Len(b) : k \in 1 .. Len(b)
    BY <1>0
  <2>2. \A k \in p + 1 .. Len(a) : k \in 1 .. Len(a)
    BY <1>0
  <2> QED
    BY <1>0, <2>1, <2>2
<1>2. n = CommonPrefix(Seqs!Reverse(rb), Seqs!Reverse(ra))
  BY DEF CommonSuffix
<1> HIDE DEF rb, ra, n
<1> DEFINE vb == Seqs!Reverse(rb)
           va == Seqs!Reverse(ra)
<1>3. /\ vb \in Seq(TextLines) /\ Len(vb) = Len(rb) /\ \A k \in 1 .. Len(rb) : vb[k] = rb[Len(rb) - k + 1]
      /\ va \in Seq(TextLines) /\ Len(va) = Len(ra) /\ \A k \in 1 .. Len(ra) : va[k] = ra[Len(ra) - k + 1]
  BY <1>1, ReverseIs
<1> HIDE DEF vb, va
<1>4. n \in Nat /\ n <= Len(vb) /\ n <= Len(va) /\ \A k \in 1 .. n : vb[k] = va[k]
  BY <1>2, <1>3, PrefixIsCommon DEF vb, va
<1>5. n \in Nat /\ p + n <= Len(b) /\ p + n <= Len(a)
  BY <1>0, <1>1, <1>3, <1>4
<1>6. ASSUME NEW k \in 1 .. n PROVE b[Len(b) - k + 1] = a[Len(a) - k + 1]
  <2>1. k \in 1 .. Len(rb) /\ k \in 1 .. Len(ra)
    BY <1>0, <1>1, <1>5
  <2>2. rb[Len(rb) - k + 1] = ra[Len(ra) - k + 1]
    BY <1>3, <1>4, <2>1
  <2>3. Len(rb) - k + 1 \in 1 .. Len(rb) /\ p + (Len(rb) - k + 1) = Len(b) - k + 1
    BY <1>0, <1>1, <2>1
  <2>4. Len(ra) - k + 1 \in 1 .. Len(ra) /\ p + (Len(ra) - k + 1) = Len(a) - k + 1
    BY <1>0, <1>1, <2>1
  <2>5. rb[Len(rb) - k + 1] = b[Len(b) - k + 1]
    <3>1. PICK q \in 1 .. Len(rb) : q = Len(rb) - k + 1 /\ p + q = Len(b) - k + 1
      BY <2>3
    <3>2. rb[q] = b[p + q]
      BY <1>1
    <3> QED
      BY <3>1, <3>2
  <2>6. ra[Len(ra) - k + 1] = a[Len(a) - k + 1]
    <3>1. PICK q \in 1 .. Len(ra) : q = Len(ra) - k + 1 /\ p + q = Len(a) - k + 1
      BY <2>4
    <3>2. ra[q] = a[p + q]
      BY <1>1
    <3> QED
      BY <3>1, <3>2
  <2> QED
    BY <2>2, <2>5, <2>6
<1> QED
  BY <1>5, <1>6 DEF n

EachOf(kind, s) == [k \in 1 .. Len(s) |-> [kind |-> kind, text |-> s[k]]]

\* Rows of one kind for the lines m .. n of a text.
IsEach(kind, s, m, n) ==
  LET e == EachOf(kind, SubSeq(s, m, n))
  IN  e \in Seq(Ops) /\ Len(e) = n + 1 - m
      /\ \A k \in 1 .. n + 1 - m : e[k] = [kind |-> kind, text |-> s[m + k - 1]]

LEMMA EachIs ==
  ASSUME NEW s \in Seq(TextLines), NEW m \in Nat \ {0}, NEW n \in Nat, m <= n + 1, n <= Len(s)
  PROVE  \A kind \in OpKinds : IsEach(kind, s, m, n)
<1> DEFINE part == SubSeq(s, m, n)
<1>0. \A k \in m .. n : s[k] \in TextLines
  BY LenProperties
<1>1. part \in Seq(TextLines) /\ Len(part) = n + 1 - m /\ \A k \in 1 .. n - m + 1 : part[k] = s[m + k - 1]
  <2>1. m \in Int /\ n \in Int
    OBVIOUS
  <2>2. /\ part \in Seq(TextLines) /\ Len(part) = (IF m <= n THEN n - m + 1 ELSE 0)
        /\ \A k \in 1 .. n - m + 1 : part[k] = s[m + k - 1]
    BY <1>0, <2>1, SubSeqProperties
  <2> HIDE DEF part
  <2> QED
    BY <2>2
<1>2. n - m + 1 = n + 1 - m /\ n + 1 - m \in Nat
  OBVIOUS
<1> HIDE DEF part
<1>3. ASSUME NEW kind \in OpKinds
      PROVE  LET e == EachOf(kind, part)
             IN  e \in Seq(Ops) /\ Len(e) = n + 1 - m
                 /\ \A k \in 1 .. n + 1 - m : e[k] = [kind |-> kind, text |-> s[m + k - 1]]
  <2>1. \A k \in 1 .. Len(part) : [kind |-> kind, text |-> part[k]] \in Ops
    BY <1>1, ElementOfSeq DEF Ops
  <2>2. EachOf(kind, part) \in [1 .. n + 1 - m -> Ops]
    BY <1>1, <2>1 DEF EachOf
  <2>3. EachOf(kind, part) \in Seq(Ops) /\ Len(EachOf(kind, part)) = n + 1 - m
    BY <1>2, <2>2
  <2>4. \A k \in 1 .. n + 1 - m : EachOf(kind, part)[k] = [kind |-> kind, text |-> s[m + k - 1]]
    BY <1>1, <1>2 DEF EachOf
  <2> QED
    BY <2>3, <2>4
<1> QED
  BY <1>3 DEF part, IsEach

LEMMA EachIsEachOf ==
  ASSUME NEW s \in Seq(TextLines)
  PROVE  /\ Each(Equal, s) = EachOf("equal", s)
         /\ Each(Removed, s) = EachOf("removed", s)
         /\ Each(Added, s) = EachOf("added", s)
<1>1. DOMAIN s = 1 .. Len(s)
  OBVIOUS
<1> QED
  BY <1>1 DEF Each, EachOf, Equal, Removed, Added

\* The four parts of the other comparison, for p lines before and s lines after them.
Parts(ops, b, a, p, s) ==
  LET u == Len(b) - s
      v == Len(b) + Len(a) - s - s - p
  IN  /\ ops \in Seq(Ops) /\ Len(ops) = v + s
      /\ \A k \in 1 .. p : ops[k] = [kind |-> "equal", text |-> b[k]]
      /\ \A k \in p + 1 .. u : ops[k] = [kind |-> "removed", text |-> b[k]]
      /\ \A k \in u + 1 .. v : ops[k] = [kind |-> "added", text |-> a[p + (k - u)]]
      /\ \A k \in v + 1 .. v + s : ops[k] = [kind |-> "equal", text |-> b[u + (k - v)]]

Split(b, a, p, s) ==
  /\ p \in Nat /\ s \in Nat /\ p + s <= Len(b) /\ p + s <= Len(a)
  /\ \A k \in 1 .. p : b[k] = a[k]
  /\ \A k \in 1 .. s : b[Len(b) - k + 1] = a[Len(a) - k + 1]

LEMMA FallbackHasParts ==
  ASSUME NEW b \in Seq(TextLines), NEW a \in Seq(TextLines)
  PROVE  \E p, s : /\ Split(b, a, p, s) /\ Parts(FallbackOperations(b, a), b, a, p, s)
                   /\ b = a => p = Len(b)
<1> DEFINE p == CommonPrefix(b, a)
           s == CommonSuffix(b, a, p)
<1>0. Len(b) \in Nat /\ Len(a) \in Nat
  OBVIOUS
<1>1. /\ p \in Nat /\ p <= Len(b) /\ p <= Len(a)
      /\ p = Len(b) \/ p = Len(a) \/ b[p + 1] # a[p + 1]
      /\ \A k \in 1 .. p : b[k] = a[k]
  BY PrefixIsCommon
<1> HIDE DEF p
<1>2. /\ s \in Nat /\ p + s <= Len(b) /\ p + s <= Len(a)
      /\ \A k \in 1 .. s : b[Len(b) - k + 1] = a[Len(a) - k + 1]
  BY <1>1, SuffixIsCommon
<1> HIDE DEF s
<1>3. Split(b, a, p, s)
  BY <1>1, <1>2 DEF Split
<1>4. b = a => p = Len(b)
  BY <1>1
<1> DEFINE u == Len(b) - s
           w == Len(a) - s
           o1 == EachOf("equal", SubSeq(b, 1, p))
           o2 == EachOf("removed", SubSeq(b, p + 1, u))
           o3 == EachOf("added", SubSeq(a, p + 1, w))
           o4 == EachOf("equal", SubSeq(b, u + 1, Len(b)))
<1>5. FallbackOperations(b, a) = o1 \o o2 \o o3 \o o4
  <2>1. \A m \in Nat \ {0}, n \in Nat : n <= Len(b) => SubSeq(b, m, n) \in Seq(TextLines)
    <3> SUFFICES ASSUME NEW m \in Nat \ {0}, NEW n \in Nat, n <= Len(b) PROVE SubSeq(b, m, n) \in Seq(TextLines)
      OBVIOUS
    <3>1. \A k \in m .. n : b[k] \in TextLines
      BY <1>0
    <3>2. m \in Int /\ n \in Int
      OBVIOUS
    <3> QED
      BY <3>1, <3>2, SubSeqProperties
  <2>2. SubSeq(a, p + 1, w) \in Seq(TextLines)
    <3>1. \A k \in p + 1 .. w : a[k] \in TextLines
      BY <1>0, <1>1, <1>2
    <3>2. p + 1 \in Int /\ w \in Int
      BY <1>0, <1>1, <1>2
    <3> QED
      BY <3>1, <3>2, SubSeqProperties
  <2>3. SubSeq(b, 1, p) \in Seq(TextLines) /\ SubSeq(b, p + 1, u) \in Seq(TextLines)
        /\ SubSeq(b, u + 1, Len(b)) \in Seq(TextLines)
    BY <1>0, <1>1, <1>2, <2>1
  <2>4. /\ Each(Equal, SubSeq(b, 1, p)) = o1 /\ Each(Removed, SubSeq(b, p + 1, u)) = o2
        /\ Each(Added, SubSeq(a, p + 1, w)) = o3 /\ Each(Equal, SubSeq(b, u + 1, Len(b))) = o4
    BY <2>2, <2>3, EachIsEachOf
  <2>5. FallbackOperations(b, a) =
          Each(Equal, SubSeq(b, 1, p)) \o Each(Removed, SubSeq(b, p + 1, u))
            \o Each(Added, SubSeq(a, p + 1, w)) \o Each(Equal, SubSeq(b, u + 1, Len(b)))
    BY DEF FallbackOperations, p, s
  <2> HIDE DEF o1, o2, o3, o4
  <2> QED
    BY <2>4, <2>5
<1>6. "equal" \in OpKinds /\ "removed" \in OpKinds /\ "added" \in OpKinds
  BY DEF OpKinds
<1>7. o1 \in Seq(Ops) /\ Len(o1) = p /\ \A k \in 1 .. p : o1[k] = [kind |-> "equal", text |-> b[k]]
  <2>1. LET e == EachOf("equal", SubSeq(b, 1, p))
        IN  e \in Seq(Ops) /\ Len(e) = p + 1 - 1 /\ \A k \in 1 .. p + 1 - 1 : e[k] = [kind |-> "equal", text |-> b[1 + k - 1]]
    <3>1. 1 \in Nat \ {0} /\ 1 <= p + 1
      BY <1>1
    <3>2. IsEach("equal", b, 1, p)
      BY <1>1, <1>6, <3>1, EachIs
    <3> QED
      BY <3>2 DEF IsEach
  <2>2. p + 1 - 1 = p /\ \A k \in 1 .. p : 1 + k - 1 = k
    BY <1>1
  <2> HIDE DEF o1
  <2> QED
    BY <2>1, <2>2 DEF o1
<1>8. o2 \in Seq(Ops) /\ Len(o2) = u - p /\ \A k \in 1 .. u - p : o2[k] = [kind |-> "removed", text |-> b[p + k]]
  <2>1. LET e == EachOf("removed", SubSeq(b, p + 1, u))
        IN  e \in Seq(Ops) /\ Len(e) = u + 1 - (p + 1)
            /\ \A k \in 1 .. u + 1 - (p + 1) : e[k] = [kind |-> "removed", text |-> b[(p + 1) + k - 1]]
    <3>1. p + 1 \in Nat \ {0} /\ u \in Nat /\ p + 1 <= u + 1 /\ u <= Len(b)
      BY <1>0, <1>1, <1>2
    <3> HIDE DEF u
    <3>2. PICK m \in Nat \ {0} : m = p + 1
      BY <3>1
    <3>3. IsEach("removed", b, m, u)
      BY <1>6, <3>1, <3>2, EachIs
    <3> QED
      BY <3>2, <3>3 DEF IsEach
  <2>2. u + 1 - (p + 1) = u - p /\ \A k \in 1 .. u - p : (p + 1) + k - 1 = p + k
    BY <1>0, <1>1, <1>2
  <2> HIDE DEF o2
  <2> QED
    BY <2>1, <2>2 DEF o2
<1>9. o3 \in Seq(Ops) /\ Len(o3) = w - p /\ \A k \in 1 .. w - p : o3[k] = [kind |-> "added", text |-> a[p + k]]
  <2>1. LET e == EachOf("added", SubSeq(a, p + 1, w))
        IN  e \in Seq(Ops) /\ Len(e) = w + 1 - (p + 1)
            /\ \A k \in 1 .. w + 1 - (p + 1) : e[k] = [kind |-> "added", text |-> a[(p + 1) + k - 1]]
    <3>1. p + 1 \in Nat \ {0} /\ w \in Nat /\ p + 1 <= w + 1 /\ w <= Len(a)
      BY <1>0, <1>1, <1>2
    <3> HIDE DEF w
    <3>2. PICK m \in Nat \ {0} : m = p + 1
      BY <3>1
    <3>3. IsEach("added", a, m, w)
      BY <1>6, <3>1, <3>2, EachIs
    <3> QED
      BY <3>2, <3>3 DEF IsEach
  <2>2. w + 1 - (p + 1) = w - p /\ \A k \in 1 .. w - p : (p + 1) + k - 1 = p + k
    BY <1>0, <1>1, <1>2
  <2> HIDE DEF o3
  <2> QED
    BY <2>1, <2>2 DEF o3
<1>10. o4 \in Seq(Ops) /\ Len(o4) = s /\ \A k \in 1 .. s : o4[k] = [kind |-> "equal", text |-> b[u + k]]
  <2>1. LET e == EachOf("equal", SubSeq(b, u + 1, Len(b)))
        IN  e \in Seq(Ops) /\ Len(e) = Len(b) + 1 - (u + 1)
            /\ \A k \in 1 .. Len(b) + 1 - (u + 1) : e[k] = [kind |-> "equal", text |-> b[(u + 1) + k - 1]]
    <3>1. u + 1 \in Nat \ {0} /\ Len(b) \in Nat /\ u + 1 <= Len(b) + 1 /\ Len(b) <= Len(b)
      BY <1>0, <1>1, <1>2
    <3> HIDE DEF u
    <3>2. PICK m \in Nat \ {0} : m = u + 1
      BY <3>1
    <3>3. IsEach("equal", b, m, Len(b))
      BY <1>6, <3>1, <3>2, EachIs
    <3> QED
      BY <3>2, <3>3 DEF IsEach
  <2>2. Len(b) + 1 - (u + 1) = s /\ \A k \in 1 .. s : (u + 1) + k - 1 = u + k
    BY <1>0, <1>1, <1>2
  <2> HIDE DEF o4
  <2> QED
    BY <2>1, <2>2 DEF o4
<1> HIDE DEF o1, o2, o3, o4
<1> DEFINE v == Len(b) + Len(a) - s - s - p
<1>11. /\ u \in Nat /\ w \in Nat /\ v \in Nat /\ u - p \in Nat /\ w - p \in Nat
       /\ p + (u - p) = u /\ u + (w - p) = v
  BY <1>0, <1>1, <1>2
<1> HIDE DEF u, w, v
<1> DEFINE c2 == o1 \o o2
           c3 == c2 \o o3
           c4 == c3 \o o4
<1>12. c2 \in Seq(Ops) /\ Len(c2) = u /\ \A k \in 1 .. u : c2[k] = IF k <= p THEN o1[k] ELSE o2[k - p]
  <2>1. Len(o1) + Len(o2) = u
    BY <1>1, <1>7, <1>8, <1>11
  <2> HIDE DEF c2
  <2>2. c2 \in Seq(Ops) /\ Len(c2) = Len(o1) + Len(o2)
        /\ \A k \in 1 .. Len(o1) + Len(o2) : c2[k] = IF k <= Len(o1) THEN o1[k] ELSE o2[k - Len(o1)]
    BY <1>7, <1>8, ConcatProperties DEF c2
  <2> QED
    BY <1>7, <2>1, <2>2
<1> HIDE DEF c2
<1>13. c3 \in Seq(Ops) /\ Len(c3) = v /\ \A k \in 1 .. v : c3[k] = IF k <= u THEN c2[k] ELSE o3[k - u]
  <2>1. Len(c2) + Len(o3) = v
    BY <1>9, <1>11, <1>12
  <2> HIDE DEF c3
  <2>2. c3 \in Seq(Ops) /\ Len(c3) = Len(c2) + Len(o3)
        /\ \A k \in 1 .. Len(c2) + Len(o3) : c3[k] = IF k <= Len(c2) THEN c2[k] ELSE o3[k - Len(c2)]
    BY <1>9, <1>12, ConcatProperties DEF c3
  <2> QED
    BY <1>12, <2>1, <2>2
<1> HIDE DEF c3
<1>14. c4 \in Seq(Ops) /\ Len(c4) = v + s /\ \A k \in 1 .. v + s : c4[k] = IF k <= v THEN c3[k] ELSE o4[k - v]
  <2>1. Len(c3) + Len(o4) = v + s
    BY <1>10, <1>13
  <2> HIDE DEF c4
  <2>2. c4 \in Seq(Ops) /\ Len(c4) = Len(c3) + Len(o4)
        /\ \A k \in 1 .. Len(c3) + Len(o4) : c4[k] = IF k <= Len(c3) THEN c3[k] ELSE o4[k - Len(c3)]
    BY <1>10, <1>13, ConcatProperties DEF c4
  <2> QED
    BY <1>13, <2>1, <2>2
<1>15. FallbackOperations(b, a) = c4
  BY <1>5 DEF c4, c3, c2
<1> HIDE DEF c4
<1>16. p <= u /\ u <= v /\ v <= v + s
  BY <1>1, <1>2, <1>11
<1>17. ASSUME NEW k \in 1 .. p PROVE c4[k] = [kind |-> "equal", text |-> b[k]]
  <2>1. k \in 1 .. u /\ k \in 1 .. v /\ k \in 1 .. v + s /\ k <= p /\ k <= u /\ k <= v
    BY <1>1, <1>2, <1>11, <1>16
  <2> QED
    BY <1>7, <1>12, <1>13, <1>14, <2>1
<1>18. ASSUME NEW k \in p + 1 .. u PROVE c4[k] = [kind |-> "removed", text |-> b[k]]
  <2>1. k \in 1 .. u /\ k \in 1 .. v /\ k \in 1 .. v + s /\ ~(k <= p) /\ k <= u /\ k <= v
    BY <1>1, <1>2, <1>11, <1>16
  <2>2. k - p \in 1 .. u - p /\ p + (k - p) = k
    BY <1>1, <1>11, <2>1
  <2>3. c4[k] = o2[k - p]
    BY <1>12, <1>13, <1>14, <2>1
  <2>4. o2[k - p] = [kind |-> "removed", text |-> b[p + (k - p)]]
    BY <1>8, <2>2
  <2> QED
    BY <2>2, <2>3, <2>4
<1>19. ASSUME NEW k \in u + 1 .. v PROVE c4[k] = [kind |-> "added", text |-> a[p + (k - u)]]
  <2>1. k \in 1 .. v /\ k \in 1 .. v + s /\ ~(k <= u) /\ k <= v
    BY <1>1, <1>2, <1>11, <1>16
  <2>2. k - u \in 1 .. w - p
    BY <1>1, <1>11, <2>1
  <2>3. c4[k] = o3[k - u]
    BY <1>13, <1>14, <2>1
  <2> QED
    BY <1>9, <2>2, <2>3
<1>20. ASSUME NEW k \in v + 1 .. v + s PROVE c4[k] = [kind |-> "equal", text |-> b[u + (k - v)]]
  <2>1. k \in 1 .. v + s /\ ~(k <= v)
    BY <1>2, <1>11
  <2>2. k - v \in 1 .. s
    BY <1>2, <1>11, <2>1
  <2>3. c4[k] = o4[k - v]
    BY <1>14, <2>1
  <2> QED
    BY <1>10, <2>2, <2>3
<1>21. Parts(FallbackOperations(b, a), b, a, p, s)
  BY <1>14, <1>15, <1>17, <1>18, <1>19, <1>20 DEF Parts, u, v
<1> QED
  BY <1>3, <1>4, <1>21

\* The place of a row of the parts, in either text.
LEMMA PartsPlaces ==
  ASSUME NEW b \in Seq(TextLines), NEW a \in Seq(TextLines), NEW p, NEW s, NEW ops,
         Split(b, a, p, s), Parts(ops, b, a, p, s)
  PROVE  LET u == Len(b) - s
             v == Len(b) + Len(a) - s - s - p
         IN  \A k \in 0 .. v + s :
               /\ Place(ops, k, Old) = IF k <= u THEN k ELSE IF k <= v THEN u ELSE u + (k - v)
               /\ Place(ops, k, New) = IF k <= p THEN k ELSE IF k <= u THEN p
                                       ELSE IF k <= v THEN p + (k - u) ELSE Len(a) - s + (k - v)
<1> DEFINE u == Len(b) - s
           v == Len(b) + Len(a) - s - s - p
           w == Len(a) - s
           N == v + s
           OldAt(k) == IF k <= u THEN k ELSE IF k <= v THEN u ELSE u + (k - v)
           NewAt(k) == IF k <= p THEN k ELSE IF k <= u THEN p ELSE IF k <= v THEN p + (k - u) ELSE w + (k - v)
           S == {k \in 0 .. N : Place(ops, k, Old) = OldAt(k) /\ Place(ops, k, New) = NewAt(k)}
<1>0. /\ p \in Nat /\ s \in Nat /\ u \in Nat /\ v \in Nat /\ w \in Nat /\ p <= u /\ u <= v /\ N \in Nat
      /\ v = u + (w - p) /\ p <= w
  BY DEF Split
<1>1. /\ \A k \in 1 .. p : ops[k].kind = "equal"
      /\ \A k \in p + 1 .. u : ops[k].kind = "removed"
      /\ \A k \in u + 1 .. v : ops[k].kind = "added"
      /\ \A k \in v + 1 .. N : ops[k].kind = "equal"
  <2> HIDE DEF u, v
  <2>1. ASSUME NEW k \in 1 .. p PROVE ops[k].kind = "equal" /\ ops[k].text = b[k]
    <3>1. ops[k] = [kind |-> "equal", text |-> b[k]]
      BY DEF Parts
    <3> QED
      BY <3>1
  <2>2. ASSUME NEW k \in p + 1 .. u PROVE ops[k].kind = "removed" /\ ops[k].text = b[k]
    <3>1. ops[k] = [kind |-> "removed", text |-> b[k]]
      BY DEF Parts, u
    <3> QED
      BY <3>1
  <2>3. ASSUME NEW k \in u + 1 .. v PROVE ops[k].kind = "added" /\ ops[k].text = a[p + (k - u)]
    <3>1. ops[k] = [kind |-> "added", text |-> a[p + (k - u)]]
      BY DEF Parts, u, v
    <3> QED
      BY <3>1
  <2>4. ASSUME NEW k \in v + 1 .. N PROVE ops[k].kind = "equal" /\ ops[k].text = b[u + (k - v)]
    <3>1. ops[k] = [kind |-> "equal", text |-> b[u + (k - v)]]
      BY DEF Parts, u, v
    <3> QED
      BY <3>1
  <2> QED
    BY <2>1, <2>2, <2>3, <2>4
<1> HIDE DEF u, v, w
<1>2. 0 \in S
  <2>1. 0 \in 0 .. N /\ Place(ops, 0, Old) = 0 /\ Place(ops, 0, New) = 0
    BY <1>0, PlaceIsNat
  <2> QED
    BY <1>0, <2>1
<1>3. ASSUME NEW k \in 0 .. N, k \in S, k + 1 <= N PROVE k + 1 \in S
  <2>1. k \in Nat /\ k + 1 \in 0 .. N
    BY <1>0, <1>3
  <2>2. Place(ops, k, Old) = OldAt(k) /\ Place(ops, k, New) = NewAt(k)
    BY <1>3
  <2> DEFINE kind == ops[k + 1].kind
  <2>3. /\ Place(ops, k + 1, Old) = OldAt(k) + (IF kind \in Old THEN 1 ELSE 0)
        /\ Place(ops, k + 1, New) = NewAt(k) + (IF kind \in New THEN 1 ELSE 0)
    <3> HIDE DEF OldAt, NewAt
    <3> QED
      BY <2>1, <2>2, PlaceStep
  <2>4. /\ k + 1 <= p => kind = "equal"
        /\ k + 1 > p /\ k + 1 <= u => kind = "removed"
        /\ k + 1 > u /\ k + 1 <= v => kind = "added"
        /\ k + 1 > v => kind = "equal"
    BY <1>0, <1>1, <1>3, <2>1
  <2> HIDE DEF kind
  <2>5. /\ "equal" \in Old /\ "equal" \in New /\ "removed" \in Old /\ "removed" \notin New
        /\ "added" \notin Old /\ "added" \in New
    BY DEF Old, New
  <2>6. OldAt(k) + (IF kind \in Old THEN 1 ELSE 0) = OldAt(k + 1)
    BY <1>0, <2>1, <2>4, <2>5
  <2>7. NewAt(k) + (IF kind \in New THEN 1 ELSE 0) = NewAt(k + 1)
    BY <1>0, <2>1, <2>4, <2>5
  <2> HIDE DEF OldAt, NewAt, N
  <2> QED
    BY <2>1, <2>3, <2>6, <2>7
<1>4. 0 .. N \subseteq S
  <2> HIDE DEF S, N
  <2> QED
    BY <1>0, <1>2, <1>3, Counting
<1> QED
  BY <1>4 DEF u, v, w

LEMMA PartsAreScript ==
  ASSUME NEW b \in Seq(TextLines), NEW a \in Seq(TextLines), NEW p, NEW s, NEW ops,
         Split(b, a, p, s), Parts(ops, b, a, p, s)
  PROVE  /\ Script(ops, b, Len(b), a, Len(a))
         /\ p = Len(b) /\ Len(a) = Len(b) => Place(ops, Len(ops), {"added", "removed"}) = 0
<1> DEFINE u == Len(b) - s
           v == Len(b) + Len(a) - s - s - p
           w == Len(a) - s
<1>0. /\ p \in Nat /\ s \in Nat /\ u \in Nat /\ v \in Nat /\ w \in Nat /\ p <= u /\ u <= v
      /\ v = u + (w - p) /\ p <= w /\ Len(b) = u + s /\ Len(a) = w + s
  BY DEF Split
<1>1. /\ ops \in Seq(Ops) /\ Len(ops) = v + s
      /\ \A k \in 1 .. p : ops[k].kind = "equal" /\ ops[k].text = b[k]
      /\ \A k \in p + 1 .. u : ops[k].kind = "removed" /\ ops[k].text = b[k]
      /\ \A k \in u + 1 .. v : ops[k].kind = "added" /\ ops[k].text = a[p + (k - u)]
      /\ \A k \in v + 1 .. v + s : ops[k].kind = "equal" /\ ops[k].text = b[u + (k - v)]
  <2> HIDE DEF u, v
  <2>1. ASSUME NEW k \in 1 .. p PROVE ops[k].kind = "equal" /\ ops[k].text = b[k]
    <3>1. ops[k] = [kind |-> "equal", text |-> b[k]]
      BY DEF Parts
    <3> QED
      BY <3>1
  <2>2. ASSUME NEW k \in p + 1 .. u PROVE ops[k].kind = "removed" /\ ops[k].text = b[k]
    <3>1. ops[k] = [kind |-> "removed", text |-> b[k]]
      BY DEF Parts, u
    <3> QED
      BY <3>1
  <2>3. ASSUME NEW k \in u + 1 .. v PROVE ops[k].kind = "added" /\ ops[k].text = a[p + (k - u)]
    <3>1. ops[k] = [kind |-> "added", text |-> a[p + (k - u)]]
      BY DEF Parts, u, v
    <3> QED
      BY <3>1
  <2>4. ASSUME NEW k \in v + 1 .. v + s PROVE ops[k].kind = "equal" /\ ops[k].text = b[u + (k - v)]
    <3>1. ops[k] = [kind |-> "equal", text |-> b[u + (k - v)]]
      BY DEF Parts, u, v
    <3> QED
      BY <3>1
  <2>5. ops \in Seq(Ops) /\ Len(ops) = v + s
    BY DEF Parts, u, v
  <2> QED
    BY <2>1, <2>2, <2>3, <2>4, <2>5
<1>2. \A k \in 0 .. v + s :
        /\ Place(ops, k, Old) = IF k <= u THEN k ELSE IF k <= v THEN u ELSE u + (k - v)
        /\ Place(ops, k, New) = IF k <= p THEN k ELSE IF k <= u THEN p
                                ELSE IF k <= v THEN p + (k - u) ELSE w + (k - v)
  BY PartsPlaces
<1>3. ASSUME NEW k \in 1 .. s PROVE b[u + k] = a[w + k]
  <2>1. PICK q \in 1 .. s : q = s - k + 1
    BY <1>0
  <2>2. b[Len(b) - q + 1] = a[Len(a) - q + 1]
    BY DEF Split
  <2>3. Len(b) - q + 1 = u + k /\ Len(a) - q + 1 = w + k
    BY <1>0, <2>1
  <2> QED
    BY <2>2, <2>3
<1>4. \A k \in 1 .. p : b[k] = a[k]
  BY DEF Split
<1> HIDE DEF u, v, w
<1>5. Place(ops, Len(ops), Old) = Len(b) /\ Place(ops, Len(ops), New) = Len(a)
  <2>1. v + s \in 0 .. v + s
    BY <1>0
  <2>2. Place(ops, v + s, Old) = IF v + s <= u THEN v + s ELSE IF v + s <= v THEN u ELSE u + ((v + s) - v)
    BY <1>2, <2>1
  <2>3. Place(ops, v + s, New) = IF v + s <= p THEN v + s ELSE IF v + s <= u THEN p
                                 ELSE IF v + s <= v THEN p + ((v + s) - u) ELSE w + ((v + s) - v)
    BY <1>2, <2>1
  <2>4. Place(ops, v + s, Old) = u + s
    BY <1>0, <2>2
  <2>5. Place(ops, v + s, New) = w + s
    BY <1>0, <2>3
  <2> QED
    BY <1>0, <1>1, <2>4, <2>5
<1>6. ASSUME NEW k \in 1 .. Len(ops)
      PROVE  /\ ops[k].kind \in Old => ops[k].text = b[Place(ops, k, Old)]
             /\ ops[k].kind \in New => ops[k].text = a[Place(ops, k, New)]
  <2>1. k \in 0 .. v + s /\ k \in 1 .. v + s
    BY <1>0, <1>1
  <2>2. /\ Place(ops, k, Old) = IF k <= u THEN k ELSE IF k <= v THEN u ELSE u + (k - v)
        /\ Place(ops, k, New) = IF k <= p THEN k ELSE IF k <= u THEN p
                                ELSE IF k <= v THEN p + (k - u) ELSE w + (k - v)
    BY <1>2, <2>1
  <2>3. CASE k <= p
    <3>1. k \in 1 .. p /\ k <= u
      BY <1>0, <2>1, <2>3
    <3> QED
      BY <1>1, <1>4, <2>2, <2>3, <3>1
  <2>4. CASE ~(k <= p) /\ k <= u
    <3>1. k \in p + 1 .. u
      BY <1>0, <2>1, <2>4
    <3>2. ops[k].kind = "removed" /\ ops[k].text = b[k]
      BY <1>1, <3>1
    <3> QED
      BY <2>2, <2>4, <3>2 DEF New
  <2>5. CASE ~(k <= u) /\ k <= v
    <3>1. k \in u + 1 .. v /\ ~(k <= p)
      BY <1>0, <2>1, <2>5
    <3>2. ops[k].kind = "added" /\ ops[k].text = a[p + (k - u)]
      BY <1>1, <3>1
    <3> QED
      BY <2>2, <2>5, <3>1, <3>2 DEF Old
  <2>6. CASE ~(k <= v)
    <3>1. k \in v + 1 .. v + s /\ ~(k <= p) /\ ~(k <= u) /\ k - v \in 1 .. s
      BY <1>0, <2>1, <2>6
    <3>2. ops[k].text = b[u + (k - v)]
      BY <1>1, <3>1
    <3>3. b[u + (k - v)] = a[w + (k - v)]
      BY <1>3, <3>1
    <3> QED
      BY <2>2, <2>6, <3>1, <3>2, <3>3
  <2> QED
    BY <2>3, <2>4, <2>5, <2>6
<1>7. ASSUME p = Len(b), Len(a) = Len(b) PROVE Place(ops, Len(ops), {"added", "removed"}) = 0
  <2>1. s = 0 /\ u = p /\ v = p
    BY <1>0, <1>7
  <2>2. \A k \in 1 .. Len(ops) : ops[k].kind = "equal"
    BY <1>0, <1>1, <2>1
  <2>3. UpTo(ops, Len(ops), {"added", "removed"}) = {}
    BY <2>2 DEF UpTo
  <2> QED
    BY <2>3, FS_EmptySet DEF Place
<1>8. Script(ops, b, Len(b), a, Len(a))
  BY <1>1, <1>5, <1>6 DEF Script
<1> QED
  BY <1>7, <1>8

LEMMA FallbackCompares ==
  ASSUME NEW b \in Seq(TextLines), NEW a \in Seq(TextLines)
  PROVE  Compares(FallbackOperations(b, a), b, a)
<1>1. PICK p, s : /\ Split(b, a, p, s) /\ Parts(FallbackOperations(b, a), b, a, p, s)
                  /\ b = a => p = Len(b)
  BY FallbackHasParts
<1> QED
  BY <1>1, PartsAreScript DEF Compares

-----------------------------------------------------------------------------
(* The lines of the operations, and the groups of equal rows.              *)

Row == [kind : OpKinds \union {"context"}, text : TextLines \union {""}, beforeLine : Nat, afterLine : Nat,
        skipped : Nat]

\* A row for the operation k, with its places.
NumberedRow(r, ops, k) ==
  /\ r.kind = ops[k].kind /\ r.text = ops[k].text /\ r.skipped = 0 /\ r.kind \in OpKinds
  /\ r.kind \in Old => r.beforeLine = Place(ops, k, Old)
  /\ r.kind \in New => r.afterLine = Place(ops, k, New)

LEMMA PlaceInPart ==
  ASSUME NEW ops \in Seq(Ops), NEW k \in 1 .. Len(ops), NEW kinds
  PROVE  Count(SubSeq(ops, 1, k), kinds) = Place(ops, k, kinds)
<1>1. SubSeq(ops, 1, k) \in Seq(Ops) /\ Len(SubSeq(ops, 1, k)) = k /\ \A m \in 1 .. k : SubSeq(ops, 1, k)[m] = ops[m]
  OBVIOUS
<1> DEFINE part == SubSeq(ops, 1, k)
<1> HIDE DEF part
<1>2. Count(part, kinds) = Place(part, k, kinds)
  BY <1>1, PlaceIsCount DEF part
<1>3. k \in Nat /\ \A m \in 1 .. k : part[m].kind = ops[m].kind
  BY <1>1 DEF part
<1>4. Place(part, k, kinds) = Place(ops, k, kinds)
  BY <1>3, PlaceAgrees
<1> QED
  BY <1>2, <1>4 DEF part

LEMMA NumberedIs ==
  ASSUME NEW ops \in Seq(Ops)
  PROVE  /\ Numbered(ops) \in Seq(Row) /\ Len(Numbered(ops)) = Len(ops)
         /\ \A k \in 1 .. Len(ops) : NumberedRow(Numbered(ops)[k], ops, k)
<1> DEFINE line(k, kind) == IF ops[k].kind \in {"equal", kind} THEN Count(SubSeq(ops, 1, k), {"equal", kind}) ELSE 0
           rows == [k \in 1 .. Len(ops) |->
                      [kind |-> ops[k].kind, text |-> ops[k].text, beforeLine |-> line(k, "removed"),
                       afterLine |-> line(k, "added"), skipped |-> 0]]
<1>0. Len(ops) \in Nat /\ DOMAIN ops = 1 .. Len(ops)
  OBVIOUS
<1>1. Numbered(ops) = rows
  BY <1>0 DEF Numbered
<1>2. ASSUME NEW k \in 1 .. Len(ops)
      PROVE  /\ line(k, "removed") \in Nat /\ line(k, "added") \in Nat
             /\ ops[k].kind \in Old => line(k, "removed") = Place(ops, k, Old)
             /\ ops[k].kind \in New => line(k, "added") = Place(ops, k, New)
  <2>1. Old = {"equal", "removed"} /\ New = {"equal", "added"}
    BY DEF Old, New
  <2>2. /\ Count(SubSeq(ops, 1, k), {"equal", "removed"}) = Place(ops, k, Old)
        /\ Count(SubSeq(ops, 1, k), {"equal", "added"}) = Place(ops, k, New)
    BY <2>1, PlaceInPart
  <2>3. k \in Nat
    OBVIOUS
  <2>4. Place(ops, k, Old) \in Nat /\ Place(ops, k, New) \in Nat
    BY <2>3, PlaceIsNat
  <2> QED
    BY <2>1, <2>2, <2>4
<1> HIDE DEF line
<1>3. ASSUME NEW k \in 1 .. Len(ops) PROVE rows[k] \in Row /\ NumberedRow(rows[k], ops, k)
  <2>1. ops[k] \in Ops
    OBVIOUS
  <2>2. ops[k].kind \in OpKinds /\ ops[k].text \in TextLines
    BY <2>1 DEF Ops
  <2>3. rows[k] = [kind |-> ops[k].kind, text |-> ops[k].text, beforeLine |-> line(k, "removed"),
                   afterLine |-> line(k, "added"), skipped |-> 0]
    OBVIOUS
  <2> HIDE DEF rows
  <2>4. rows[k] \in Row
    <3>1. \A x, y \in Nat :
            [kind |-> ops[k].kind, text |-> ops[k].text, beforeLine |-> x, afterLine |-> y, skipped |-> 0] \in Row
      BY <2>2 DEF Row
    <3> QED
      BY <1>2, <2>3, <3>1
  <2>5. /\ rows[k].kind = ops[k].kind /\ rows[k].text = ops[k].text /\ rows[k].skipped = 0
        /\ rows[k].beforeLine = line(k, "removed") /\ rows[k].afterLine = line(k, "added")
    BY <2>3
  <2> QED
    BY <1>2, <2>2, <2>4, <2>5 DEF NumberedRow
<1>4. rows \in [1 .. Len(ops) -> Row]
  BY <1>3
<1>5. DOMAIN rows = 1 .. Len(ops)
  OBVIOUS
<1> HIDE DEF rows
<1>6. rows \in Seq(Row) /\ Len(rows) = Len(ops)
  BY <1>0, <1>4
<1> QED
  BY <1>1, <1>3, <1>6

\* The group of equal rows around k.
Group(rows, k, i, j) ==
  /\ i \in 1 .. k /\ j \in k .. Len(rows)
  /\ \A m \in i .. j : rows[m].kind = "equal"
  /\ i = 1 \/ rows[i - 1].kind # "equal"
  /\ j = Len(rows) \/ rows[j + 1].kind # "equal"

LEMMA GroupIs ==
  ASSUME NEW rows \in Seq(Row), NEW k \in 1 .. Len(rows), rows[k].kind = "equal"
  PROVE  Group(rows, k, GroupStart(rows, k), GroupEnd(rows, k))
<1> DEFINE StartsAt(i) == (\A m \in i .. k : rows[m].kind = "equal") /\ (i = 1 \/ rows[i - 1].kind # "equal")
           EndsAt(j) == (\A m \in k .. j : rows[m].kind = "equal") /\ (j = Len(rows) \/ rows[j + 1].kind # "equal")
<1>0. Len(rows) \in Nat /\ k \in Nat
  OBVIOUS
<1>1. \E i \in 1 .. k : StartsAt(i)
  <2> DEFINE T == {i \in 1 .. k : \A m \in i .. k : rows[m].kind = "equal"}
  <2>1. k \in T
    BY <1>0
  <2>2. T \in SUBSET Nat /\ T # {}
    <3>1. T \subseteq 1 .. k /\ 1 .. k \subseteq Nat
      BY <1>0
    <3> HIDE DEF T
    <3> QED
      BY <2>1, <3>1
  <2>3. PICK i \in T : \A m \in T : i <= m
    <3> HIDE DEF T
    <3> QED
      BY <2>2, LeastNumber
  <2>4. i \in 1 .. k /\ \A m \in i .. k : rows[m].kind = "equal"
    OBVIOUS
  <2>5. ASSUME i # 1 PROVE rows[i - 1].kind # "equal"
    <3>1. i - 1 \in 1 .. k /\ i - 1 < i
      BY <1>0, <2>4, <2>5
    <3>2. i - 1 \notin T
      <4> HIDE DEF T
      <4> QED
        BY <2>3, <2>4, <3>1
    <3>3. PICK m \in i - 1 .. k : rows[m].kind # "equal"
      BY <3>1, <3>2
    <3>4. m = i - 1 \/ m \in i .. k
      BY <1>0, <2>4
    <3> QED
      BY <2>4, <3>3, <3>4
  <2> QED
    BY <2>4, <2>5
<1>2. \E j \in k .. Len(rows) : EndsAt(j)
  <2> DEFINE T == {j \in k .. Len(rows) : j = Len(rows) \/ rows[j + 1].kind # "equal"}
  <2>1. Len(rows) \in T
    BY <1>0
  <2>2. T \in SUBSET Nat /\ T # {}
    BY <1>0, <2>1
  <2>3. PICK j \in T : \A m \in T : j <= m
    <3> HIDE DEF T
    <3> QED
      BY <2>2, LeastNumber
  <2>4. j \in k .. Len(rows) /\ (j = Len(rows) \/ rows[j + 1].kind # "equal")
    OBVIOUS
  <2>5. ASSUME NEW m \in k .. j PROVE rows[m].kind = "equal"
    <3>1. CASE m = k
      BY <3>1
    <3>2. CASE m # k
      <4>1. m - 1 \in k .. Len(rows) /\ m - 1 < j /\ m - 1 # Len(rows) /\ (m - 1) + 1 = m
        BY <1>0, <2>4, <3>2
      <4>2. m - 1 \notin T
        <5>1. j \in Nat /\ m - 1 \in Nat
          BY <1>0, <2>4, <4>1
        <5> HIDE DEF T
        <5> QED
          BY <2>3, <4>1, <5>1
      <4> QED
        BY <4>1, <4>2
    <3> QED
      BY <3>1, <3>2
  <2> QED
    BY <2>4, <2>5
<1>3. GroupStart(rows, k) = CHOOSE i \in 1 .. k : StartsAt(i)
  BY DEF GroupStart
<1>4. GroupEnd(rows, k) = CHOOSE j \in k .. Len(rows) : EndsAt(j)
  BY DEF GroupEnd
<1>5. GroupStart(rows, k) \in 1 .. k /\ StartsAt(GroupStart(rows, k))
  <2> HIDE DEF StartsAt
  <2> QED
    BY <1>1, <1>3
<1>6. GroupEnd(rows, k) \in k .. Len(rows) /\ EndsAt(GroupEnd(rows, k))
  <2> HIDE DEF EndsAt
  <2> QED
    BY <1>2, <1>4
<1>7. \A m \in GroupStart(rows, k) .. GroupEnd(rows, k) : m \in GroupStart(rows, k) .. k \/ m \in k .. GroupEnd(rows, k)
  BY <1>0, <1>5, <1>6
<1> QED
  BY <1>5, <1>6, <1>7 DEF Group

\* Equal rows next to each other are in one group.
LEMMA GroupIsOne ==
  ASSUME NEW rows \in Seq(Row), NEW k \in 1 .. Len(rows), k + 1 \in 1 .. Len(rows),
         NEW i, NEW j, Group(rows, k, i, j), NEW p, NEW q, Group(rows, k + 1, p, q)
  PROVE  i = p /\ j = q
<1>0. Len(rows) \in Nat
  OBVIOUS
<1>1. /\ i \in 1 .. k /\ j \in k .. Len(rows) /\ p \in 1 .. k + 1 /\ q \in k + 1 .. Len(rows)
      /\ \A m \in i .. j : rows[m].kind = "equal"
      /\ \A m \in p .. q : rows[m].kind = "equal"
      /\ i = 1 \/ rows[i - 1].kind # "equal"
      /\ p = 1 \/ rows[p - 1].kind # "equal"
      /\ j = Len(rows) \/ rows[j + 1].kind # "equal"
      /\ q = Len(rows) \/ rows[q + 1].kind # "equal"
  BY DEF Group
<1>2. ~(i < p)
  <2> SUFFICES ASSUME i < p PROVE FALSE
    OBVIOUS
  <2>1. p - 1 \in i .. j /\ p # 1
    BY <1>0, <1>1
  <2> QED
    BY <1>1, <2>1
<1>3. ~(p < i)
  <2> SUFFICES ASSUME p < i PROVE FALSE
    OBVIOUS
  <2>1. i - 1 \in p .. q /\ i # 1
    BY <1>0, <1>1
  <2> QED
    BY <1>1, <2>1
<1>4. ~(j < q)
  <2> SUFFICES ASSUME j < q PROVE FALSE
    OBVIOUS
  <2>1. j + 1 \in p .. q /\ j # Len(rows)
    BY <1>0, <1>1
  <2> QED
    BY <1>1, <2>1
<1>5. ~(q < j)
  <2> SUFFICES ASSUME q < j PROVE FALSE
    OBVIOUS
  <2>1. q + 1 \in i .. j /\ q # Len(rows)
    BY <1>0, <1>1
  <2> QED
    BY <1>1, <2>1
<1> QED
  BY <1>0, <1>1, <1>2, <1>3, <1>4, <1>5

-----------------------------------------------------------------------------
(* Where rows stand: the sums of what they show and skip.                  *)

Weight(r, kinds) == IF r.kind = "context" THEN r.skipped ELSE IF r.kind \in kinds THEN 1 ELSE 0

SpansAt(rows, kinds, f, k) == IF k = 0 THEN 0 ELSE f[k - 1] + Weight(rows[k], kinds)
Spans(rows, kinds) == CHOOSE f : f = [k \in 0 .. Len(rows) |-> SpansAt(rows, kinds, f, k)]

LEMMA SpanIs ==
  ASSUME NEW rows, NEW kinds
  PROVE  Span(rows, kinds) = Spans(rows, kinds)[Len(rows)]
BY DEF Span, Spans, SpansAt, Weight

LEMMA SpansDefined ==
  ASSUME NEW rows \in Seq(Row), NEW kinds
  PROVE  /\ Spans(rows, kinds) \in [0 .. Len(rows) -> Nat]
         /\ Spans(rows, kinds)[0] = 0
         /\ \A k \in 1 .. Len(rows) : Spans(rows, kinds)[k] = Spans(rows, kinds)[k - 1] + Weight(rows[k], kinds)
<1>0. Len(rows) \in Nat /\ \A k \in 1 .. Len(rows) : Weight(rows[k], kinds) \in Nat
  <2>1. ASSUME NEW k \in 1 .. Len(rows) PROVE Weight(rows[k], kinds) \in Nat
    <3>1. rows[k] \in Row
      OBVIOUS
    <3>2. rows[k].skipped \in Nat
      BY <3>1 DEF Row
    <3> QED
      BY <3>2 DEF Weight
  <2> QED
    BY <2>1
<1>1. PICK N \in Nat : N = Len(rows)
  BY <1>0
<1> DEFINE D == 0 .. N
           step == [F \in [D -> Nat] |-> [k \in D |-> SpansAt(rows, kinds, F, k)]]
           rank == [k \in D |-> k]
<1>2. ASSUME NEW F \in [D -> Nat], NEW k \in D PROVE SpansAt(rows, kinds, F, k) \in Nat
  <2>1. k # 0 => k - 1 \in D /\ k \in 1 .. Len(rows)
    BY <1>1
  <2>2. \A m \in D : F[m] \in Nat
    OBVIOUS
  <2> QED
    BY <1>0, <2>1, <2>2 DEF SpansAt
<1>3. step \in [[D -> Nat] -> [D -> Nat]]
  <2>1. \A F \in [D -> Nat] : [k \in D |-> SpansAt(rows, kinds, F, k)] \in [D -> Nat]
    BY <1>2
  <2> QED
    BY <2>1
<1>4. rank \in [D -> 0 .. N]
  OBVIOUS
<1>5. ASSUME NEW F \in [D -> Nat], NEW G \in [D -> Nat], NEW k \in D, \A m \in D : rank[m] < rank[k] => F[m] = G[m]
      PROVE  step[F][k] = step[G][k]
  <2>1. k # 0 => k - 1 \in D /\ k - 1 < k
    BY <1>1
  <2>2. k # 0 => F[k - 1] = G[k - 1]
    BY <1>5, <2>1
  <2> QED
    BY <2>2 DEF SpansAt
<1>6. Nat # {}
  <2>1. 0 \in Nat
    OBVIOUS
  <2> QED
    BY <2>1, Zenon
<1> HIDE DEF D, step, rank
<1>7. Narrows(D, Nat, N, rank, step)
  BY <1>3, <1>4, <1>5 DEF Narrows
<1>8. HasFixpoint(D, Nat, step)
  BY <1>6, <1>7, Recursion
<1>9. PICK f \in [D -> Nat] : f = [k \in D |-> SpansAt(rows, kinds, f, k)]
  BY <1>8 DEF step, HasFixpoint
<1> DEFINE g == Spans(rows, kinds)
<1>10. g = [k \in D |-> SpansAt(rows, kinds, g, k)]
  BY <1>1, <1>9 DEF Spans, D
<1> HIDE DEF g
<1>11. 0 \in D /\ \A k \in 1 .. N : k \in D /\ k # 0 /\ k - 1 \in D
  BY DEF D
<1>12. g[0] = 0 /\ \A k \in 1 .. N : g[k] = g[k - 1] + Weight(rows[k], kinds)
  BY <1>10, <1>11 DEF SpansAt
<1>13. D \subseteq {k \in D : g[k] \in Nat}
  <2> DEFINE S == {k \in D : g[k] \in Nat}
  <2>1. 0 \in S
    BY <1>11, <1>12
  <2>2. ASSUME NEW k \in 0 .. N, k \in S, k + 1 <= N PROVE k + 1 \in S
    <3>1. k + 1 \in 1 .. N /\ (k + 1) - 1 = k /\ k + 1 \in D /\ g[k] \in Nat
      BY <1>11, <2>2
    <3>2. Weight(rows[k + 1], kinds) \in Nat
      BY <1>0, <1>1, <3>1
    <3>3. g[k + 1] = g[k] + Weight(rows[k + 1], kinds)
      BY <1>12, <3>1
    <3> QED
      BY <3>1, <3>2, <3>3
  <2> HIDE DEF S
  <2>3. 0 .. N \subseteq S
    BY <2>1, <2>2, Counting
  <2> QED
    BY <2>3 DEF D, S
<1>14. g \in [D -> Nat]
  BY <1>10, <1>13
<1> QED
  BY <1>1, <1>12, <1>14 DEF D, g

\* The same rows stand at the same places.
LEMMA SpansAgree ==
  ASSUME NEW rows \in Seq(Row), NEW other \in Seq(Row), NEW kinds, NEW n \in Nat,
         n <= Len(rows), n <= Len(other), \A k \in 1 .. n : rows[k] = other[k]
  PROVE  Spans(rows, kinds)[n] = Spans(other, kinds)[n]
<1> DEFINE f == Spans(rows, kinds)
           g == Spans(other, kinds)
           S == {k \in 0 .. n : f[k] = g[k]}
<1>0. Len(rows) \in Nat /\ Len(other) \in Nat
  OBVIOUS
<1>1. /\ f[0] = 0 /\ \A k \in 1 .. Len(rows) : f[k] = f[k - 1] + Weight(rows[k], kinds)
      /\ g[0] = 0 /\ \A k \in 1 .. Len(other) : g[k] = g[k - 1] + Weight(other[k], kinds)
  BY SpansDefined
<1> HIDE DEF f, g
<1>2. 0 \in S
  BY <1>1
<1>3. ASSUME NEW k \in 0 .. n, k \in S, k + 1 <= n PROVE k + 1 \in S
  <2>1. /\ k + 1 \in 1 .. Len(rows) /\ k + 1 \in 1 .. Len(other) /\ k + 1 \in 1 .. n /\ k + 1 \in 0 .. n
        /\ (k + 1) - 1 = k /\ f[k] = g[k]
    BY <1>0, <1>3
  <2> QED
    BY <1>1, <2>1
<1>4. n \in S
  <2> HIDE DEF S
  <2>1. 0 .. n \subseteq S
    BY <1>2, <1>3, Counting
  <2> QED
    BY <2>1
<1> QED
  BY <1>4 DEF f, g

LEMMA SpanOfPart ==
  ASSUME NEW rows \in Seq(Row), NEW n \in 0 .. Len(rows), NEW kinds
  PROVE  Span(SubSeq(rows, 1, n), kinds) = Spans(rows, kinds)[n]
<1> DEFINE part == SubSeq(rows, 1, n)
<1>1. n \in Nat /\ n <= Len(rows) /\ part \in Seq(Row) /\ Len(part) = n /\ \A k \in 1 .. n : part[k] = rows[k]
  OBVIOUS
<1> HIDE DEF part
<1>2. Span(part, kinds) = Spans(part, kinds)[n]
  BY <1>1, SpanIs
<1>3. n <= Len(part)
  BY <1>1
<1>4. Spans(part, kinds)[n] = Spans(rows, kinds)[n]
  BY <1>1, <1>3, SpansAgree
<1> QED
  BY <1>2, <1>4 DEF part

LEMMA SpanEmpty ==
  ASSUME NEW kinds
  PROVE  Span(<<>>, kinds) = 0
<1>1. <<>> \in Seq(Row) /\ Len(<<>>) = 0
  OBVIOUS
<1>2. Spans(<<>>, kinds)[0] = 0
  BY <1>1, SpansDefined
<1> QED
  BY <1>1, <1>2, SpanIs

LEMMA SpanLonger ==
  ASSUME NEW rows \in Seq(Row), NEW r \in Row, NEW kinds
  PROVE  /\ Span(Append(rows, r), kinds) = Span(rows, kinds) + Weight(r, kinds)
         /\ Span(rows, kinds) \in Nat
<1> DEFINE next == Append(rows, r)
           n == Len(rows)
<1>1. /\ n \in Nat /\ next \in Seq(Row) /\ Len(next) = n + 1 /\ next[n + 1] = r
      /\ \A k \in 1 .. n : rows[k] = next[k]
  BY AppendProperties
<1> HIDE DEF next, n
<1>2. n = Len(rows) /\ n <= Len(rows) /\ n <= Len(next) /\ n + 1 \in 1 .. Len(next) /\ (n + 1) - 1 = n
  BY <1>1 DEF n
<1>3. Spans(rows, kinds)[n] = Spans(next, kinds)[n]
  BY <1>1, <1>2, SpansAgree
<1>4. Spans(next, kinds)[n + 1] = Spans(next, kinds)[n] + Weight(r, kinds)
  BY <1>1, <1>2, SpansDefined
<1>5. Span(rows, kinds) = Spans(rows, kinds)[n] /\ Span(next, kinds) = Spans(next, kinds)[n + 1]
  BY <1>1, <1>2, SpanIs
<1>6. Spans(rows, kinds)[n] \in Nat
  <2>1. Spans(rows, kinds) \in [0 .. Len(rows) -> Nat] /\ n \in 0 .. Len(rows)
    BY <1>1, <1>2, SpansDefined
  <2> QED
    BY <2>1
<1> QED
  BY <1>3, <1>4, <1>5, <1>6 DEF next

\* A row tells of the lines up to x of the one text and y of the other.
SoundRow(b, a, r, x, y) ==
  /\ r.kind \in Old => r.beforeLine = x /\ b[x] = r.text
  /\ r.kind \in New => r.afterLine = y /\ a[y] = r.text
  /\ \A i \in 0 .. r.skipped - 1 : b[x - i] = a[y - i]

Sound(b, a, rows) ==
  /\ rows \in Seq(Row)
  /\ \A k \in 1 .. Len(rows) : SoundRow(b, a, rows[k], Spans(rows, Old)[k], Spans(rows, New)[k])

LEMMA SoundLonger ==
  ASSUME NEW b, NEW a, NEW rows, Sound(b, a, rows), NEW r \in Row,
         SoundRow(b, a, r, Span(rows, Old) + Weight(r, Old), Span(rows, New) + Weight(r, New))
  PROVE  Sound(b, a, Append(rows, r))
<1> DEFINE next == Append(rows, r)
           n == Len(rows)
<1>0. rows \in Seq(Row)
  BY DEF Sound
<1>1. /\ n \in Nat /\ next \in Seq(Row) /\ Len(next) = n + 1 /\ next[n + 1] = r
      /\ \A k \in 1 .. n : rows[k] = next[k]
  BY <1>0, AppendProperties
<1>2. \A kinds : Span(next, kinds) = Span(rows, kinds) + Weight(r, kinds)
  BY <1>0, SpanLonger
<1> HIDE DEF next
<1>3. ASSUME NEW k \in 1 .. n + 1
      PROVE  SoundRow(b, a, next[k], Spans(next, Old)[k], Spans(next, New)[k])
  <2>1. CASE k = n + 1
    <3>1. \A kinds : Span(next, kinds) = Spans(next, kinds)[n + 1]
      BY <1>1, SpanIs
    <3>2. Spans(next, Old)[k] = Span(rows, Old) + Weight(r, Old) /\ Spans(next, New)[k] = Span(rows, New) + Weight(r, New)
      BY <1>2, <2>1, <3>1
    <3> QED
      BY <1>1, <2>1, <3>2
  <2>2. CASE k # n + 1
    <3>1. k \in Nat /\ k \in 1 .. n /\ k <= n /\ k <= Len(next) /\ \A m \in 1 .. k : rows[m] = next[m]
      BY <1>1, <2>2
    <3>2. \A kinds : Spans(rows, kinds)[k] = Spans(next, kinds)[k]
      BY <1>0, <1>1, <3>1, SpansAgree
    <3>3. SoundRow(b, a, rows[k], Spans(rows, Old)[k], Spans(rows, New)[k])
      BY <3>1 DEF Sound
    <3>4. rows[k] = next[k]
      BY <3>1
    <3> QED
      BY <3>2, <3>3, <3>4
  <2> QED
    BY <2>1, <2>2
<1> QED
  BY <1>1, <1>3 DEF Sound, next

-----------------------------------------------------------------------------
(* Collapsing: what is left out of a long group of equal rows.             *)

\* The row k is left out.
Hidden(rows, k) ==
  /\ rows[k].kind = "equal"
  /\ GroupEnd(rows, k) - GroupStart(rows, k) + 1 > 2 * ContextLines
  /\ k >= GroupStart(rows, k) + ContextLines /\ k <= GroupEnd(rows, k) - ContextLines

\* After the pieces for k rows stand those, and what the last of them skips.
Reach(rows, k) == IF k > 0 /\ Hidden(rows, k) THEN GroupEnd(rows, k) - ContextLines ELSE k

Piece(rows, k) ==
  IF rows[k].kind # "equal" THEN <<rows[k]>>
  ELSE LET first == GroupStart(rows, k)
           last == GroupEnd(rows, k)
           size == last - first + 1
       IN  IF size <= 2 * ContextLines \/ k < first + ContextLines \/ k > last - ContextLines
           THEN <<rows[k]>>
           ELSE IF k = first + ContextLines THEN <<Skip(size - 2 * ContextLines)>> ELSE <<>>

\* The first of the rows that are left out, and how many they are.
FirstHidden(rows, k) == Hidden(rows, k) /\ k = GroupStart(rows, k) + ContextLines
HowMany(rows, k) == (GroupEnd(rows, k) - GroupStart(rows, k) + 1) - 2 * ContextLines

LEMMA SkipIsRow ==
  ASSUME NEW n \in Nat
  PROVE  Skip(n) \in Row /\ Skip(n).kind = "context" /\ Skip(n).skipped = n
BY DEF Skip, Row

LEMMA PieceIs ==
  ASSUME NEW rows \in Seq(Row), NEW k \in 1 .. Len(rows)
  PROVE  /\ ~Hidden(rows, k) => Piece(rows, k) = <<rows[k]>>
         /\ FirstHidden(rows, k) => Piece(rows, k) = <<Skip(HowMany(rows, k))>> /\ HowMany(rows, k) \in Nat \ {0}
         /\ Hidden(rows, k) /\ ~FirstHidden(rows, k) => Piece(rows, k) = <<>>
         /\ Piece(rows, k) \in Seq(Row)
<1> DEFINE i == GroupStart(rows, k)
           j == GroupEnd(rows, k)
<1>0. Len(rows) \in Nat /\ ContextLines \in Nat /\ k \in Nat /\ rows[k] \in Row
  BY DiffAssumption
<1>1. CASE rows[k].kind # "equal"
  <2>1. ~Hidden(rows, k) /\ ~FirstHidden(rows, k) /\ Piece(rows, k) = <<rows[k]>>
    BY <1>1 DEF Hidden, FirstHidden, Piece
  <2> QED
    BY <1>0, <2>1
<1>2. CASE rows[k].kind = "equal"
  <2>1. Group(rows, k, i, j)
    BY <1>2, GroupIs
  <2>2. i \in Nat /\ j \in Nat
    BY <1>0, <2>1 DEF Group
  <2>3. Hidden(rows, k) <=> j - i + 1 > 2 * ContextLines /\ k >= i + ContextLines /\ k <= j - ContextLines
    BY <1>2 DEF Hidden
  <2>4. FirstHidden(rows, k) <=> Hidden(rows, k) /\ k = i + ContextLines
    BY DEF FirstHidden
  <2>5. HowMany(rows, k) = (j - i + 1) - 2 * ContextLines
    BY DEF HowMany
  <2>6. Piece(rows, k) =
          IF j - i + 1 <= 2 * ContextLines \/ k < i + ContextLines \/ k > j - ContextLines THEN <<rows[k]>>
          ELSE IF k = i + ContextLines THEN <<Skip((j - i + 1) - 2 * ContextLines)>> ELSE <<>>
    <3> DEFINE Stays == j - i + 1 <= 2 * ContextLines \/ k < i + ContextLines \/ k > j - ContextLines
               left == Skip((j - i + 1) - 2 * ContextLines)
    <3>1. Piece(rows, k) =
            IF rows[k].kind # "equal" THEN <<rows[k]>>
            ELSE IF Stays THEN <<rows[k]>> ELSE IF k = i + ContextLines THEN <<left>> ELSE <<>>
      BY Zenon DEF Piece
    <3> HIDE DEF Stays, left
    <3>2. Piece(rows, k) = IF Stays THEN <<rows[k]>> ELSE IF k = i + ContextLines THEN <<left>> ELSE <<>>
      BY <1>2, <3>1
    <3> QED
      BY <3>2 DEF Stays, left
  <2> HIDE DEF i, j
  <2>7. ~Hidden(rows, k) => Piece(rows, k) = <<rows[k]>>
    BY <1>0, <2>2, <2>3, <2>6
  <2>8. FirstHidden(rows, k) => Piece(rows, k) = <<Skip(HowMany(rows, k))>> /\ HowMany(rows, k) \in Nat \ {0}
    <3> SUFFICES ASSUME FirstHidden(rows, k)
                 PROVE  Piece(rows, k) = <<Skip(HowMany(rows, k))>> /\ HowMany(rows, k) \in Nat \ {0}
      OBVIOUS
    <3>1. j - i + 1 > 2 * ContextLines /\ ~(k < i + ContextLines) /\ ~(k > j - ContextLines) /\ k = i + ContextLines
          /\ ~(j - i + 1 <= 2 * ContextLines)
      BY <1>0, <2>2, <2>3, <2>4
    <3>2. HowMany(rows, k) \in Nat \ {0}
      BY <1>0, <2>2, <2>5, <3>1
    <3> QED
      BY <2>5, <2>6, <3>1, <3>2
  <2>9. Hidden(rows, k) /\ ~FirstHidden(rows, k) => Piece(rows, k) = <<>>
    BY <1>0, <2>2, <2>3, <2>4, <2>6
  <2>10. Piece(rows, k) \in Seq(Row)
    <3>1. <<rows[k]>> \in Seq(Row) /\ <<>> \in Seq(Row)
      BY <1>0
    <3>2. FirstHidden(rows, k) => <<Skip(HowMany(rows, k))>> \in Seq(Row)
      <4>1. FirstHidden(rows, k) => Skip(HowMany(rows, k)) \in Row
        BY <2>8, SkipIsRow
      <4> QED
        BY <4>1
    <3>3. FirstHidden(rows, k) => Hidden(rows, k)
      BY DEF FirstHidden
    <3> QED
      BY <2>7, <2>8, <2>9, <3>1, <3>2
  <2> QED
    BY <2>7, <2>8, <2>9, <2>10
<1> QED
  BY <1>1, <1>2

\* From one row to the next.
LEMMA HiddenNext ==
  ASSUME NEW rows \in Seq(Row), NEW k \in Nat, k + 1 \in 1 .. Len(rows)
  PROVE  /\ ~Hidden(rows, k + 1) => Reach(rows, k) = k /\ Reach(rows, k + 1) = k + 1
         /\ FirstHidden(rows, k + 1) =>
              /\ Reach(rows, k) = k /\ Reach(rows, k + 1) = k + HowMany(rows, k + 1)
              /\ \A m \in k + 1 .. k + HowMany(rows, k + 1) : rows[m].kind = "equal" /\ m \in 1 .. Len(rows)
         /\ Hidden(rows, k + 1) /\ ~FirstHidden(rows, k + 1) => Reach(rows, k + 1) = Reach(rows, k)
<1> DEFINE i == GroupStart(rows, k)
           j == GroupEnd(rows, k)
           p == GroupStart(rows, k + 1)
           q == GroupEnd(rows, k + 1)
           E(m) == rows[m].kind = "equal"
<1>0. Len(rows) \in Nat /\ ContextLines \in Nat /\ ContextLines > 0 /\ k + 1 > 0
  BY DiffAssumption
<1>1. k > 0 => k \in 1 .. Len(rows)
  BY <1>0
<1>2. k > 0 /\ E(k) => Group(rows, k, i, j)
  BY <1>1, GroupIs
<1>3. E(k + 1) => Group(rows, k + 1, p, q)
  BY GroupIs
<1>4. k > 0 /\ E(k) /\ E(k + 1) => i = p /\ j = q
  BY <1>1, <1>2, <1>3, GroupIsOne
<1>5. /\ Hidden(rows, k) <=> E(k) /\ j - i + 1 > 2 * ContextLines /\ k >= i + ContextLines /\ k <= j - ContextLines
      /\ Hidden(rows, k + 1) <=> E(k + 1) /\ q - p + 1 > 2 * ContextLines
                                   /\ k + 1 >= p + ContextLines /\ k + 1 <= q - ContextLines
  BY DEF Hidden
<1>6. FirstHidden(rows, k + 1) <=> Hidden(rows, k + 1) /\ k + 1 = p + ContextLines
  BY DEF FirstHidden
<1>7. /\ Reach(rows, k) = IF k > 0 /\ Hidden(rows, k) THEN j - ContextLines ELSE k
      /\ Reach(rows, k + 1) = IF Hidden(rows, k + 1) THEN q - ContextLines ELSE k + 1
  BY <1>0 DEF Reach
<1>8. HowMany(rows, k + 1) = (q - p + 1) - 2 * ContextLines
  BY DEF HowMany
<1>9. /\ k > 0 /\ E(k) => i \in 1 .. k /\ j \in k .. Len(rows) /\ \A m \in i .. j : E(m)
      /\ E(k + 1) => p \in 1 .. k + 1 /\ q \in k + 1 .. Len(rows) /\ \A m \in p .. q : E(m)
  BY <1>2, <1>3 DEF Group
<1> HIDE DEF i, j, p, q, E
<1>10. k > 0 /\ Hidden(rows, k) => E(k) /\ E(k + 1)
  <2> SUFFICES ASSUME k > 0, Hidden(rows, k) PROVE E(k) /\ E(k + 1)
    OBVIOUS
  <2>1. E(k) /\ k <= j - ContextLines
    BY <1>5
  <2>2. k + 1 \in i .. j
    BY <1>0, <1>9, <2>1
  <2> QED
    BY <1>9, <2>1, <2>2
<1>11. ASSUME ~Hidden(rows, k + 1) PROVE Reach(rows, k) = k /\ Reach(rows, k + 1) = k + 1
  <2>1. CASE k > 0 /\ Hidden(rows, k)
    <3>1. i = p /\ j = q /\ E(k) /\ E(k + 1)
      BY <1>4, <1>10, <2>1
    <3>2. i \in Nat /\ j \in Nat
      BY <1>0, <1>9, <2>1, <3>1
    <3>3. k = j - ContextLines
      BY <1>0, <1>5, <1>11, <2>1, <3>1, <3>2
    <3> QED
      BY <1>7, <1>11, <2>1, <3>3
  <2> QED
    BY <1>7, <1>11, <2>1
<1>12. ASSUME FirstHidden(rows, k + 1)
       PROVE  /\ Reach(rows, k) = k /\ Reach(rows, k + 1) = k + HowMany(rows, k + 1)
              /\ \A m \in k + 1 .. k + HowMany(rows, k + 1) : E(m) /\ m \in 1 .. Len(rows)
  <2>1. Hidden(rows, k + 1) /\ k + 1 = p + ContextLines /\ E(k + 1) /\ k + 1 <= q - ContextLines
    BY <1>5, <1>6, <1>12
  <2>2. p \in 1 .. k + 1 /\ q \in k + 1 .. Len(rows) /\ \A m \in p .. q : E(m)
    BY <1>9, <2>1
  <2>3. ~(k > 0 /\ Hidden(rows, k))
    <3> SUFFICES ASSUME k > 0, Hidden(rows, k) PROVE FALSE
      OBVIOUS
    <3>1. i = p
      BY <1>4, <1>10
    <3>2. k >= i + ContextLines
      BY <1>5
    <3> QED
      BY <1>0, <2>1, <2>2, <3>1, <3>2
  <2>4. k + HowMany(rows, k + 1) = q - ContextLines
    BY <1>0, <1>8, <2>1, <2>2
  <2>5. ASSUME NEW m \in k + 1 .. q - ContextLines PROVE E(m) /\ m \in 1 .. Len(rows)
    <3>1. m \in p .. q /\ m \in 1 .. Len(rows)
      BY <1>0, <2>1, <2>2
    <3> QED
      BY <2>2, <3>1
  <2> QED
    BY <1>7, <2>1, <2>3, <2>4, <2>5
<1>13. ASSUME Hidden(rows, k + 1), ~FirstHidden(rows, k + 1) PROVE Reach(rows, k + 1) = Reach(rows, k)
  <2>1. /\ E(k + 1) /\ q - p + 1 > 2 * ContextLines /\ k + 1 >= p + ContextLines /\ k + 1 <= q - ContextLines
        /\ k + 1 # p + ContextLines
    BY <1>5, <1>6, <1>13
  <2>2. p \in 1 .. k + 1 /\ q \in k + 1 .. Len(rows) /\ \A m \in p .. q : E(m)
    BY <1>9, <2>1
  <2>3. k > 0 /\ k \in p .. q /\ k >= p + ContextLines /\ k <= q - ContextLines
    BY <1>0, <2>1, <2>2
  <2>4. E(k)
    BY <2>2, <2>3
  <2>5. i = p /\ j = q
    BY <1>4, <2>1, <2>3, <2>4
  <2>6. Hidden(rows, k)
    BY <1>5, <2>1, <2>3, <2>4, <2>5
  <2> QED
    BY <1>7, <1>13, <2>3, <2>5, <2>6
<1> QED
  BY <1>11, <1>12, <1>13 DEF E

-----------------------------------------------------------------------------
(* Joining the pieces.                                                     *)

FlatAt(s, f, k) == IF k = 1 THEN s[k] ELSE f[k - 1] \o s[k]

LEMMA FlattenIs ==
  ASSUME NEW s, NEW n \in Nat \ {0}, Len(s) = n, \A k \in 1 .. n : s[k] \in Seq(Row)
  PROVE  \E f : /\ Seqs!FlattenSeq(s) = f[n] /\ f[1] = s[1]
                /\ \A k \in 1 .. n : f[k] \in Seq(Row)
                /\ \A k \in 1 .. n - 1 : f[k + 1] = f[k] \o s[k + 1]
<1> DEFINE D == 1 .. n
           V == Seq(Row)
           step == [F \in [D -> V] |-> [k \in D |-> FlatAt(s, F, k)]]
           rank == [k \in D |-> k]
<1>1. ASSUME NEW F \in [D -> V], NEW k \in D PROVE FlatAt(s, F, k) \in V
  <2>1. CASE k = 1
    BY <2>1 DEF FlatAt
  <2>2. CASE k # 1
    <3>1. k - 1 \in D
      BY <2>2
    <3>2. F[k - 1] \in Seq(Row) /\ s[k] \in Seq(Row)
      BY <3>1
    <3>3. F[k - 1] \o s[k] \in Seq(Row)
      BY <3>2, ConcatProperties
    <3> QED
      BY <2>2, <3>3 DEF FlatAt
  <2> QED
    BY <2>1, <2>2
<1>2. step \in [[D -> V] -> [D -> V]]
  <2>1. \A F \in [D -> V] : [k \in D |-> FlatAt(s, F, k)] \in [D -> V]
    <3> HIDE DEF V
    <3> QED
      BY <1>1
  <2> HIDE DEF V
  <2> QED
    BY <2>1
<1>3. rank \in [D -> 0 .. n]
  OBVIOUS
<1>4. ASSUME NEW F \in [D -> V], NEW G \in [D -> V], NEW k \in D, \A m \in D : rank[m] < rank[k] => F[m] = G[m]
      PROVE  step[F][k] = step[G][k]
  <2>1. k # 1 => k - 1 \in D /\ k - 1 < k
    OBVIOUS
  <2>2. k # 1 => F[k - 1] = G[k - 1]
    <3> HIDE DEF V
    <3> QED
      BY <1>4, <2>1
  <2>3. FlatAt(s, F, k) = FlatAt(s, G, k)
    BY <2>2, Zenon DEF FlatAt
  <2> HIDE DEF V
  <2> QED
    BY <2>3
<1>5. V # {}
  <2>1. <<>> \in V
    OBVIOUS
  <2> QED
    BY <2>1, Zenon
<1>6. n \in Nat
  OBVIOUS
<1> HIDE DEF D, V, step, rank
<1>7. Narrows(D, V, n, rank, step)
  BY <1>2, <1>3, <1>4 DEF Narrows
<1>8. HasFixpoint(D, V, step)
  BY <1>5, <1>6, <1>7, Recursion
<1>9. PICK g \in [D -> V] : g = [k \in D |-> FlatAt(s, g, k)]
  BY <1>8 DEF step, HasFixpoint
<1> DEFINE f == CHOOSE h : h = [k \in D |-> FlatAt(s, h, k)]
<1>10. f = [k \in D |-> FlatAt(s, f, k)]
  BY <1>9
<1>11. Seqs!FlattenSeq(s) = f[n]
  <2>1. Len(s) # 0
    OBVIOUS
  <2>2. Seqs!FlattenSeq(s) = (CHOOSE h : h = [k \in 1 .. Len(s) |-> IF k = 1 THEN s[k] ELSE h[k - 1] \o s[k]])[Len(s)]
    BY <2>1, Zenon DEF Seqs!FlattenSeq
  <2> QED
    BY <2>2, Zenon DEF D, FlatAt
<1> HIDE DEF f
<1>12. 1 \in D /\ \A k \in 1 .. n - 1 : k \in D /\ k + 1 \in D /\ k + 1 # 1 /\ (k + 1) - 1 = k
  BY DEF D
<1>13. f[1] = s[1]
  BY <1>10, <1>12 DEF FlatAt
<1>14. ASSUME NEW k \in 1 .. n - 1 PROVE f[k + 1] = f[k] \o s[k + 1]
  <2>1. f[k + 1] = FlatAt(s, f, k + 1)
    BY <1>10, <1>12
  <2>2. k + 1 # 1 /\ (k + 1) - 1 = k
    BY <1>12
  <2> QED
    BY <2>1, <2>2 DEF FlatAt
<1>15. \A k \in 1 .. n : f[k] \in Seq(Row)
  <2> DEFINE S == {k \in 0 .. n - 1 : f[k + 1] \in Seq(Row)}
  <2>1. 0 \in S
    <3>1. s[1] \in Seq(Row) /\ 0 \in 0 .. n - 1 /\ 0 + 1 = 1
      OBVIOUS
    <3> QED
      BY <1>13, <3>1
  <2>2. ASSUME NEW k \in 0 .. n - 1, k \in S, k + 1 <= n - 1 PROVE k + 1 \in S
    <3>1. k + 1 \in 1 .. n - 1 /\ k + 1 \in 0 .. n - 1 /\ f[k + 1] \in Seq(Row) /\ (k + 1) + 1 \in 1 .. n
      BY <2>2
    <3>2. s[(k + 1) + 1] \in Seq(Row)
      BY <3>1
    <3>3. f[(k + 1) + 1] = f[k + 1] \o s[(k + 1) + 1]
      BY <1>14, <3>1
    <3>4. f[(k + 1) + 1] \in Seq(Row)
      BY <3>1, <3>2, <3>3, ConcatProperties
    <3> QED
      BY <3>1, <3>4
  <2>3. n - 1 \in Nat
    OBVIOUS
  <2> HIDE DEF S
  <2>4. PICK N \in Nat : N = n - 1
    BY <2>3
  <2>5. 0 .. N \subseteq S
    BY <2>1, <2>2, <2>4, Counting
  <2>6. ASSUME NEW k \in 1 .. n PROVE f[k] \in Seq(Row)
    <3>1. k - 1 \in 0 .. N /\ (k - 1) + 1 = k
      BY <2>4
    <3>2. k - 1 \in S
      BY <2>5, <3>1
    <3> QED
      BY <3>1, <3>2 DEF S
  <2> QED
    BY <2>6
<1> QED
  BY <1>11, <1>13, <1>14, <1>15

\* The rows shown so far are true, and stand where the operations do.
Shows(b, a, ops, rows, out, k) ==
  /\ Sound(b, a, out)
  /\ Span(out, Old) = Place(ops, Reach(rows, k), Old)
  /\ Span(out, New) = Place(ops, Reach(rows, k), New)

Lines(rows, ops) ==
  /\ rows \in Seq(Row) /\ Len(rows) = Len(ops)
  /\ \A k \in 1 .. Len(ops) : NumberedRow(rows[k], ops, k)

\* An equal row is the line of that place in both texts.
LEMMA EqualLine ==
  ASSUME NEW b, NEW i, NEW a, NEW j, NEW ops, Script(ops, b, i, a, j), NEW m \in 1 .. Len(ops), ops[m].kind = "equal"
  PROVE  b[Place(ops, m, Old)] = a[Place(ops, m, New)]
<1>1. "equal" \in Old /\ "equal" \in New
  BY DEF Old, New
<1> QED
  BY <1>1 DEF Script

LEMMA ShowRow ==
  ASSUME NEW b, NEW i, NEW a, NEW j, NEW ops, Script(ops, b, i, a, j), NEW rows, Lines(rows, ops),
         NEW out, NEW k \in Nat, k + 1 \in 1 .. Len(rows), Shows(b, a, ops, rows, out, k), ~Hidden(rows, k + 1)
  PROVE  Shows(b, a, ops, rows, Append(out, rows[k + 1]), k + 1)
<1> DEFINE r == rows[k + 1]
<1>0. rows \in Seq(Row) /\ k + 1 \in 1 .. Len(ops) /\ r \in Row /\ out \in Seq(Row)
  BY DEF Lines, Shows, Sound
<1>1. Reach(rows, k) = k /\ Reach(rows, k + 1) = k + 1
  BY <1>0, HiddenNext
<1>2. NumberedRow(r, ops, k + 1)
  BY <1>0 DEF Lines
<1> HIDE DEF r
<1>3. /\ r.kind = ops[k + 1].kind /\ r.text = ops[k + 1].text /\ r.skipped = 0 /\ r.kind # "context"
      /\ r.kind \in Old => r.beforeLine = Place(ops, k + 1, Old)
      /\ r.kind \in New => r.afterLine = Place(ops, k + 1, New)
  BY <1>2 DEF NumberedRow, OpKinds
<1>4. \A kinds : Place(ops, k, kinds) + Weight(r, kinds) = Place(ops, k + 1, kinds)
  <2>1. ASSUME NEW kinds PROVE Place(ops, k, kinds) + Weight(r, kinds) = Place(ops, k + 1, kinds)
    <3>1. Weight(r, kinds) = IF ops[k + 1].kind \in kinds THEN 1 ELSE 0
      BY <1>3 DEF Weight
    <3>2. Place(ops, k + 1, kinds) = Place(ops, k, kinds) + (IF ops[k + 1].kind \in kinds THEN 1 ELSE 0)
      BY PlaceStep
    <3> QED
      BY <3>1, <3>2
  <2> QED
    BY <2>1
<1>5. Span(out, Old) = Place(ops, k, Old) /\ Span(out, New) = Place(ops, k, New)
  BY <1>1 DEF Shows
<1>6. /\ ops[k + 1].kind \in Old => ops[k + 1].text = b[Place(ops, k + 1, Old)]
      /\ ops[k + 1].kind \in New => ops[k + 1].text = a[Place(ops, k + 1, New)]
  BY <1>0 DEF Script
<1>7. SoundRow(b, a, r, Place(ops, k + 1, Old), Place(ops, k + 1, New))
  <2>1. \A m \in 0 .. r.skipped - 1 : FALSE
    BY <1>3
  <2> QED
    BY <1>3, <1>6, <2>1 DEF SoundRow
<1>8. SoundRow(b, a, r, Span(out, Old) + Weight(r, Old), Span(out, New) + Weight(r, New))
  BY <1>4, <1>5, <1>7
<1>9. Sound(b, a, Append(out, r))
  BY <1>0, <1>8, SoundLonger DEF Shows
<1>10. \A kinds : Span(Append(out, r), kinds) = Span(out, kinds) + Weight(r, kinds)
  BY <1>0, SpanLonger
<1>11. Span(Append(out, r), Old) = Place(ops, k + 1, Old) /\ Span(Append(out, r), New) = Place(ops, k + 1, New)
  BY <1>4, <1>5, <1>10
<1> QED
  BY <1>1, <1>9, <1>11 DEF Shows, r

LEMMA ShowSkip ==
  ASSUME NEW b, NEW i, NEW a, NEW j, NEW ops, Script(ops, b, i, a, j), NEW rows, Lines(rows, ops),
         NEW out, NEW k \in Nat, k + 1 \in 1 .. Len(rows), Shows(b, a, ops, rows, out, k), FirstHidden(rows, k + 1)
  PROVE  Shows(b, a, ops, rows, Append(out, Skip(HowMany(rows, k + 1))), k + 1)
<1> DEFINE n == HowMany(rows, k + 1)
           r == Skip(n)
<1>0. rows \in Seq(Row) /\ Len(rows) = Len(ops) /\ k + 1 \in 1 .. Len(ops) /\ out \in Seq(Row)
  BY DEF Lines, Shows, Sound
<1>1. Reach(rows, k) = k /\ Reach(rows, k + 1) = k + n
      /\ \A m \in k + 1 .. k + n : rows[m].kind = "equal" /\ m \in 1 .. Len(rows)
  BY <1>0, HiddenNext
<1>2. n \in Nat
  BY <1>0, PieceIs
<1> HIDE DEF n
<1>3. r \in Row /\ r.kind = "context" /\ r.skipped = n
  BY <1>2, SkipIsRow
<1> HIDE DEF r
<1>4. \A m \in k + 1 .. k + n : m \in 1 .. Len(ops) /\ ops[m].kind = "equal"
  BY <1>0, <1>1 DEF Lines, NumberedRow
<1>5. Span(out, Old) = Place(ops, k, Old) /\ Span(out, New) = Place(ops, k, New)
  BY <1>1 DEF Shows
<1>6. Place(ops, k, Old) \in Nat /\ Place(ops, k, New) \in Nat
  BY PlaceIsNat
<1>7. ASSUME NEW d \in 0 .. n
      PROVE  Place(ops, k + d, Old) = Place(ops, k, Old) + d /\ Place(ops, k + d, New) = Place(ops, k, New) + d
  <2>1. \A m \in k + 1 .. k + d : m \in k + 1 .. k + n
    BY <1>2
  <2>2. d \in Nat /\ "equal" \in Old /\ "equal" \in New
    BY <1>2 DEF Old, New
  <2>3. \A m \in k + 1 .. k + d : ops[m].kind \in Old
    BY <1>4, <2>1, <2>2
  <2>4. \A m \in k + 1 .. k + d : ops[m].kind \in New
    BY <1>4, <2>1, <2>2
  <2>5. Place(ops, k + d, Old) = Place(ops, k, Old) + d
    BY <2>2, <2>3, PlaceGrows
  <2>6. Place(ops, k + d, New) = Place(ops, k, New) + d
    BY <2>2, <2>4, PlaceGrows
  <2> QED
    BY <2>5, <2>6
<1>8. n \in 0 .. n
  BY <1>2
<1>9. Place(ops, k + n, Old) = Place(ops, k, Old) + n /\ Place(ops, k + n, New) = Place(ops, k, New) + n
  BY <1>7, <1>8
<1>10. ASSUME NEW d \in 0 .. n - 1 PROVE b[Place(ops, k, Old) + n - d] = a[Place(ops, k, New) + n - d]
  <2>1. PICK e \in 0 .. n : e = n - d /\ e > 0
    BY <1>2
  <2>2. k + e \in k + 1 .. k + n
    BY <1>2, <2>1
  <2>3. b[Place(ops, k + e, Old)] = a[Place(ops, k + e, New)]
    <3>1. PICK m \in 1 .. Len(ops) : m = k + e /\ ops[m].kind = "equal"
      BY <1>4, <2>2
    <3>2. b[Place(ops, m, Old)] = a[Place(ops, m, New)]
      BY <3>1, EqualLine
    <3> QED
      BY <3>1, <3>2
  <2>4. Place(ops, k + e, Old) = Place(ops, k, Old) + n - d /\ Place(ops, k + e, New) = Place(ops, k, New) + n - d
    BY <1>2, <1>6, <1>7, <2>1
  <2> QED
    BY <2>3, <2>4
<1>11. "context" \notin Old /\ "context" \notin New
  BY DEF Old, New
<1>12. SoundRow(b, a, r, Place(ops, k, Old) + n, Place(ops, k, New) + n)
  <2>1. ASSUME NEW d \in 0 .. n - 1
        PROVE  b[(Place(ops, k, Old) + n) - d] = a[(Place(ops, k, New) + n) - d]
    <3>1. /\ (Place(ops, k, Old) + n) - d = Place(ops, k, Old) + n - d
          /\ (Place(ops, k, New) + n) - d = Place(ops, k, New) + n - d
      BY <1>2, <1>6
    <3> QED
      BY <1>10, <3>1
  <2> QED
    BY <1>3, <1>11, <2>1 DEF SoundRow
<1>13. Weight(r, Old) = n /\ Weight(r, New) = n
  BY <1>3 DEF Weight
<1>14. SoundRow(b, a, r, Span(out, Old) + Weight(r, Old), Span(out, New) + Weight(r, New))
  BY <1>5, <1>12, <1>13
<1>15. Sound(b, a, Append(out, r))
  BY <1>3, <1>14, SoundLonger DEF Shows
<1>16. \A kinds : Span(Append(out, r), kinds) = Span(out, kinds) + Weight(r, kinds)
  BY <1>0, <1>3, SpanLonger
<1>17. Span(Append(out, r), Old) = Place(ops, k + n, Old) /\ Span(Append(out, r), New) = Place(ops, k + n, New)
  BY <1>5, <1>9, <1>13, <1>16
<1> QED
  BY <1>1, <1>15, <1>17 DEF Shows, r, n

LEMMA CollapsedShows ==
  ASSUME NEW b, NEW i, NEW a, NEW j, NEW ops, Script(ops, b, i, a, j), Len(ops) > 0, NEW rows, Lines(rows, ops)
  PROVE  /\ Sound(b, a, Collapsed(rows))
         /\ Span(Collapsed(rows), Old) = i /\ Span(Collapsed(rows), New) = j
<1>0. /\ rows \in Seq(Row) /\ Len(rows) = Len(ops) /\ ops \in Seq(Ops) /\ DOMAIN rows = 1 .. Len(rows)
      /\ Len(ops) \in Nat
  BY DEF Lines, Script
<1>1. PICK n \in Nat \ {0} : n = Len(rows)
  <2>1. Len(rows) \in Nat \ {0}
    BY <1>0
  <2> QED
    BY <2>1, Zenon
<1> DEFINE pieces == [k \in 1 .. n |-> Piece(rows, k)]
<1>2. Collapsed(rows) = Seqs!FlattenSeq(pieces)
  <2>1. DOMAIN rows = 1 .. n
    BY <1>0, <1>1
  <2>2. Collapsed(rows) = Seqs!FlattenSeq([k \in DOMAIN rows |-> Piece(rows, k)])
    BY Zenon DEF Collapsed, Piece
  <2> QED
    BY <2>1, <2>2
<1>3. \A k \in 1 .. n : pieces[k] = Piece(rows, k) /\ pieces[k] \in Seq(Row)
  BY <1>0, <1>1, PieceIs
<1>4. Len(pieces) = n
  <2>1. pieces \in [1 .. n -> Seq(Row)]
    BY <1>3
  <2> HIDE DEF pieces
  <2> QED
    BY <2>1
<1> HIDE DEF pieces
<1>5. PICK f : /\ Seqs!FlattenSeq(pieces) = f[n] /\ f[1] = pieces[1]
               /\ \A k \in 1 .. n : f[k] \in Seq(Row)
               /\ \A k \in 1 .. n - 1 : f[k + 1] = f[k] \o pieces[k + 1]
  BY <1>3, <1>4, FlattenIs
<1>6. ASSUME NEW out, NEW k \in Nat, k + 1 \in 1 .. n, Shows(b, a, ops, rows, out, k)
      PROVE  Shows(b, a, ops, rows, out \o pieces[k + 1], k + 1)
  <2>1. out \in Seq(Row) /\ pieces[k + 1] = Piece(rows, k + 1) /\ k + 1 \in 1 .. Len(rows) /\ rows[k + 1] \in Row
    BY <1>0, <1>1, <1>3, <1>6 DEF Shows, Sound
  <2>2. CASE ~Hidden(rows, k + 1)
    <3>1. pieces[k + 1] = <<rows[k + 1]>>
      BY <1>0, <2>1, <2>2, PieceIs
    <3>2. out \o <<rows[k + 1]>> = Append(out, rows[k + 1])
      BY <2>1
    <3>3. Shows(b, a, ops, rows, Append(out, rows[k + 1]), k + 1)
      BY <1>6, <2>1, <2>2, ShowRow
    <3> QED
      BY <3>1, <3>2, <3>3
  <2>3. CASE FirstHidden(rows, k + 1)
    <3> DEFINE r == Skip(HowMany(rows, k + 1))
    <3>1. pieces[k + 1] = <<r>> /\ HowMany(rows, k + 1) \in Nat
      BY <1>0, <2>1, <2>3, PieceIs
    <3>2. r \in Row
      BY <3>1, SkipIsRow
    <3>3. Shows(b, a, ops, rows, Append(out, r), k + 1)
      BY <1>6, <2>1, <2>3, ShowSkip
    <3> HIDE DEF r
    <3>4. out \o <<r>> = Append(out, r)
      BY <2>1, <3>2
    <3> QED
      BY <3>1, <3>3, <3>4
  <2>4. CASE Hidden(rows, k + 1) /\ ~FirstHidden(rows, k + 1)
    <3>1. pieces[k + 1] = <<>>
      BY <1>0, <2>1, <2>4, PieceIs
    <3>2. out \o <<>> = out
      BY <2>1
    <3>3. Reach(rows, k + 1) = Reach(rows, k)
      BY <1>0, <2>1, <2>4, HiddenNext
    <3> QED
      BY <1>6, <3>1, <3>2, <3>3 DEF Shows
  <2> QED
    BY <2>2, <2>3, <2>4
<1>7. Shows(b, a, ops, rows, <<>>, 0)
  <2>1. Reach(rows, 0) = 0
    BY DEF Reach
  <2>2. Sound(b, a, <<>>)
    <3>1. <<>> \in Seq(Row) /\ \A k \in 1 .. Len(<<>>) : FALSE
      OBVIOUS
    <3> QED
      BY <3>1 DEF Sound
  <2>3. Place(ops, 0, Old) = 0 /\ Place(ops, 0, New) = 0
    BY PlaceIsNat
  <2>4. Span(<<>>, Old) = 0 /\ Span(<<>>, New) = 0
    BY SpanEmpty
  <2> QED
    BY <2>1, <2>2, <2>3, <2>4 DEF Shows
<1>8. Shows(b, a, ops, rows, f[1], 1)
  <2>1. 0 \in Nat /\ 0 + 1 \in 1 .. n /\ 0 + 1 = 1
    OBVIOUS
  <2>2. Shows(b, a, ops, rows, <<>> \o pieces[0 + 1], 0 + 1)
    BY <1>6, <1>7, <2>1
  <2>3. pieces[1] \in Seq(Row)
    BY <1>3, <2>1
  <2>4. <<>> \o pieces[1] = pieces[1]
    BY <2>3
  <2> QED
    BY <1>5, <2>1, <2>2, <2>4
<1> DEFINE S == {k \in 0 .. n - 1 : Shows(b, a, ops, rows, f[k + 1], k + 1)}
<1>9. 0 \in S
  <2>1. 0 \in 0 .. n - 1 /\ 0 + 1 = 1
    OBVIOUS
  <2> QED
    BY <1>8, <2>1
<1>10. ASSUME NEW k \in 0 .. n - 1, k \in S, k + 1 <= n - 1 PROVE k + 1 \in S
  <2>1. k + 1 \in Nat /\ (k + 1) + 1 \in 1 .. n /\ k + 1 \in 0 .. n - 1 /\ k + 1 \in 1 .. n - 1
    BY <1>10
  <2>2. Shows(b, a, ops, rows, f[k + 1], k + 1)
    BY <1>10
  <2>3. PICK m \in Nat : m = k + 1
    BY <2>1
  <2>4. Shows(b, a, ops, rows, f[m] \o pieces[m + 1], m + 1)
    BY <1>6, <2>1, <2>2, <2>3
  <2>5. f[m + 1] = f[m] \o pieces[m + 1]
    BY <1>5, <2>1, <2>3
  <2> QED
    BY <2>1, <2>3, <2>4, <2>5
<1>11. Shows(b, a, ops, rows, f[n], n)
  <2>1. PICK N \in Nat : N = n - 1 /\ N + 1 = n
    OBVIOUS
  <2> HIDE DEF S
  <2>2. 0 .. N \subseteq S
    BY <1>9, <1>10, <2>1, Counting
  <2>3. N \in S
    BY <2>2
  <2> QED
    BY <2>1, <2>3 DEF S
<1>12. ~Hidden(rows, n)
  <2> SUFFICES ASSUME Hidden(rows, n) PROVE FALSE
    OBVIOUS
  <2>1. n \in 1 .. Len(rows) /\ rows[n].kind = "equal" /\ n <= GroupEnd(rows, n) - ContextLines
    BY <1>1 DEF Hidden
  <2>2. Group(rows, n, GroupStart(rows, n), GroupEnd(rows, n))
    BY <1>0, <2>1, GroupIs
  <2>3. GroupEnd(rows, n) \in n .. Len(rows)
    BY <2>2 DEF Group
  <2> QED
    BY <1>1, <2>1, <2>3, DiffAssumption
<1>13. Reach(rows, n) = n
  BY <1>12 DEF Reach
<1>14. Place(ops, n, Old) = i /\ Place(ops, n, New) = j
  BY <1>0, <1>1 DEF Script
<1> QED
  BY <1>2, <1>5, <1>11, <1>13, <1>14 DEF Shows

-----------------------------------------------------------------------------
(* A comparison tells the truth about both texts.                          *)

\* Without a change, the two texts are one.
LEMMA UnchangedIsSame ==
  ASSUME NEW b \in Seq(TextLines), NEW a \in Seq(TextLines), NEW ops, Script(ops, b, Len(b), a, Len(a)),
         Place(ops, Len(ops), {"added", "removed"}) = 0
  PROVE  b = a
<1> DEFINE n == Len(ops)
<1>0. n \in Nat /\ ops \in Seq(Ops) /\ Len(b) \in Nat /\ Len(a) \in Nat
  BY DEF Script
<1>1. \A m \in 1 .. n : ops[m].kind = "equal"
  <2>1. UpTo(ops, n, {"added", "removed"}) = {}
    <3>1. IsFiniteSet(UpTo(ops, n, {"added", "removed"}))
      BY <1>0, PlaceIsNat
    <3> QED
      BY <3>1, FS_EmptySet DEF Place
  <2> SUFFICES ASSUME NEW m \in 1 .. n PROVE ops[m].kind = "equal"
    OBVIOUS
  <2>2. ops[m].kind \in OpKinds
    <3>1. ops[m] \in Ops
      BY <1>0
    <3> QED
      BY <3>1 DEF Ops
  <2>3. ops[m].kind \notin {"added", "removed"}
    BY <2>1 DEF UpTo
  <2> QED
    BY <2>2, <2>3 DEF OpKinds
<1>2. ASSUME NEW k \in 0 .. n PROVE Place(ops, k, Old) = k /\ Place(ops, k, New) = k
  <2>1. k \in Nat /\ 0 \in Nat /\ 0 + k = k /\ 0 + 1 = 1
    BY <1>0
  <2>2. \A m \in 0 + 1 .. 0 + k : ops[m].kind = "equal"
    BY <1>0, <1>1
  <2>3. \A m \in 0 + 1 .. 0 + k : ops[m].kind \in Old
    BY <2>2 DEF Old
  <2>4. \A m \in 0 + 1 .. 0 + k : ops[m].kind \in New
    BY <2>2 DEF New
  <2>5. Place(ops, 0, Old) = 0 /\ Place(ops, 0, New) = 0
    BY PlaceIsNat
  <2>6. Place(ops, 0 + k, Old) = Place(ops, 0, Old) + k
    BY <2>1, <2>3, PlaceGrows
  <2>7. Place(ops, 0 + k, New) = Place(ops, 0, New) + k
    BY <2>1, <2>4, PlaceGrows
  <2> QED
    BY <2>1, <2>5, <2>6, <2>7
<1>3. Len(b) = n /\ Len(a) = n
  <2>1. n \in 0 .. n
    BY <1>0
  <2> QED
    BY <1>2, <2>1 DEF Script
<1>4. ASSUME NEW k \in 1 .. n PROVE b[k] = a[k]
  <2>1. k \in 0 .. n
    BY <1>0
  <2>2. b[Place(ops, k, Old)] = a[Place(ops, k, New)]
    BY <1>1, EqualLine
  <2> QED
    BY <1>2, <2>1, <2>2
<1> QED
  BY <1>3, <1>4, SeqEqual

\* What a row shows is the line of that number.
TrueRow(b, a, r) ==
  /\ r.kind \in Old => b[r.beforeLine] = r.text
  /\ r.kind \in New => a[r.afterLine] = r.text

LEMMA TruncatedIsTrue ==
  ASSUME NEW b, NEW a, NEW rows, Sound(b, a, rows), Len(rows) > MaxRendered
  PROVE  /\ Truncated(rows) \in Seq(Row) /\ Len(Truncated(rows)) = MaxRendered
         /\ \A k \in 1 .. MaxRendered : TrueRow(b, a, Truncated(rows)[k])
<1> DEFINE head == (MaxRendered - 1) \div 2
           tail == MaxRendered - head - 1
           first == SubSeq(rows, 1, head)
           middle == <<Skip(Len(rows) - head - tail)>>
           last == SubSeq(rows, Len(rows) - tail + 1, Len(rows))
<1>0. rows \in Seq(Row) /\ Len(rows) \in Nat /\ MaxRendered \in Nat /\ MaxRendered > 2
  BY DiffAssumption DEF Sound
<1>1. head \in Nat /\ tail \in Nat /\ head + tail + 1 = MaxRendered
  BY <1>0
<1>2. Truncated(rows) = first \o middle \o last
  BY DEF Truncated
<1> HIDE DEF head, tail
<1>3. first \in Seq(Row) /\ Len(first) = head /\ \A k \in 1 .. head : first[k] = rows[k] /\ k \in 1 .. Len(rows)
  BY <1>0, <1>1
<1>4. last \in Seq(Row) /\ Len(last) = tail
      /\ \A k \in 1 .. tail : last[k] = rows[(Len(rows) - tail) + k] /\ (Len(rows) - tail) + k \in 1 .. Len(rows)
  BY <1>0, <1>1
<1>5. middle \in Seq(Row) /\ Len(middle) = 1 /\ middle[1].kind = "context"
  <2>1. Len(rows) - head - tail \in Nat
    BY <1>0, <1>1
  <2>2. PICK r \in Row : r = Skip(Len(rows) - head - tail) /\ r.kind = "context"
    BY <2>1, SkipIsRow
  <2> QED
    BY <2>2
<1>6. ASSUME NEW k \in 1 .. Len(rows) PROVE TrueRow(b, a, rows[k])
  <2>1. SoundRow(b, a, rows[k], Spans(rows, Old)[k], Spans(rows, New)[k])
    BY DEF Sound
  <2> QED
    BY <2>1 DEF SoundRow, TrueRow
<1>7. \A r : r.kind = "context" => TrueRow(b, a, r)
  BY DEF TrueRow, Old, New
<1> HIDE DEF first, middle, last
<1> DEFINE two == first \o middle
           all == two \o last
<1>8. two \in Seq(Row) /\ Len(two) = head + 1
      /\ \A k \in 1 .. head + 1 : two[k] = IF k <= head THEN first[k] ELSE middle[k - head]
  <2> HIDE DEF two
  <2>1. two \in Seq(Row) /\ Len(two) = Len(first) + Len(middle)
        /\ \A k \in 1 .. Len(first) + Len(middle) : two[k] = IF k <= Len(first) THEN first[k] ELSE middle[k - Len(first)]
    BY <1>3, <1>5, ConcatProperties DEF two
  <2> QED
    BY <1>3, <1>5, <2>1
<1> HIDE DEF two
<1>9. all \in Seq(Row) /\ Len(all) = (head + 1) + tail
      /\ \A k \in 1 .. (head + 1) + tail : all[k] = IF k <= head + 1 THEN two[k] ELSE last[k - (head + 1)]
  <2> HIDE DEF all
  <2>1. all \in Seq(Row) /\ Len(all) = Len(two) + Len(last)
        /\ \A k \in 1 .. Len(two) + Len(last) : all[k] = IF k <= Len(two) THEN two[k] ELSE last[k - Len(two)]
    BY <1>4, <1>8, ConcatProperties DEF all
  <2> QED
    BY <1>4, <1>8, <2>1
<1> HIDE DEF all
<1>10. (head + 1) + tail = MaxRendered
  BY <1>1
<1>11. ASSUME NEW k \in 1 .. MaxRendered PROVE TrueRow(b, a, all[k])
  <2>1. CASE k <= head
    <3>1. k \in 1 .. head /\ k \in 1 .. head + 1 /\ k <= head + 1
      BY <1>1, <2>1
    <3>2. all[k] = rows[k] /\ k \in 1 .. Len(rows)
      BY <1>3, <1>8, <1>9, <1>10, <2>1, <3>1
    <3> QED
      BY <1>6, <3>2
  <2>2. CASE k = head + 1
    <3>1. k \in 1 .. head + 1 /\ ~(k <= head) /\ k <= head + 1 /\ k - head = 1
      BY <1>1, <2>2
    <3>2. all[k] = middle[1]
      BY <1>8, <1>9, <1>10, <3>1
    <3> QED
      BY <1>5, <1>7, <3>2
  <2>3. CASE k > head + 1
    <3>1. PICK m \in 1 .. tail : m = k - (head + 1)
      BY <1>1, <1>10, <2>3
    <3>2. ~(k <= head + 1)
      BY <1>1, <2>3
    <3>3. all[k] = last[m]
      BY <1>9, <1>10, <3>1, <3>2
    <3> QED
      BY <1>4, <1>6, <3>3
  <2>4. k <= head \/ k = head + 1 \/ k > head + 1
    BY <1>1
  <2> QED
    BY <2>1, <2>2, <2>3, <2>4
<1> QED
  BY <1>2, <1>9, <1>10, <1>11 DEF all, two

\* What DiffIsFaithful says of a comparison d of b and a, with these rows.
FaithfulRows(b, a, d, rows) ==
  /\ d.unchangedLines + d.removedLines = Len(b)
  /\ d.unchangedLines + d.addedLines = Len(a)
  /\ (rows = <<>>) = (b = a)
  /\ Len(rows) <= MaxRendered
  /\ \A k \in DOMAIN rows : TrueRow(b, a, rows[k])
  /\ rows # <<>> /\ ~d.truncated =>
       /\ Span(rows, Old) = Len(b) /\ Span(rows, New) = Len(a)
       /\ \A k \in DOMAIN rows :
            SoundRow(b, a, rows[k], Span(SubSeq(rows, 1, k), Old), Span(SubSeq(rows, 1, k), New))
  /\ Len(b) * Len(a) <= MaxCells => d.unchangedLines = CommonLength(b, a)

Faithful(b, a, d) == FaithfulRows(b, a, d, d.lines)

LEMMA RowsAreTrue ==
  ASSUME NEW b \in Seq(TextLines), NEW a \in Seq(TextLines), Len(b) > 0, NEW ops, Script(ops, b, Len(b), a, Len(a)),
         Place(ops, Len(ops), {"added", "removed"}) # 0
  PROVE  LET rows == Collapsed(Numbered(ops))
         IN  /\ rows \in Seq(Row) /\ rows # <<>>
             /\ Span(rows, Old) = Len(b) /\ Span(rows, New) = Len(a)
             /\ Sound(b, a, rows)
             /\ \A k \in DOMAIN rows : TrueRow(b, a, rows[k])
             /\ \A k \in DOMAIN rows :
                  SoundRow(b, a, rows[k], Span(SubSeq(rows, 1, k), Old), Span(SubSeq(rows, 1, k), New))
<1> DEFINE rows == Collapsed(Numbered(ops))
<1>0. ops \in Seq(Ops) /\ Len(ops) \in Nat /\ Len(b) \in Nat
  BY DEF Script
<1>1. Len(ops) > 0
  <2>1. Place(ops, 0, {"added", "removed"}) = 0
    BY PlaceIsNat
  <2>2. Len(ops) # 0
    BY <2>1
  <2> QED
    BY <1>0, <2>2
<1>2. Lines(Numbered(ops), ops)
  BY <1>0, NumberedIs DEF Lines
<1>3. Sound(b, a, rows) /\ Span(rows, Old) = Len(b) /\ Span(rows, New) = Len(a)
  BY <1>1, <1>2, CollapsedShows
<1> HIDE DEF rows
<1>4. rows \in Seq(Row) /\ DOMAIN rows = 1 .. Len(rows)
  BY <1>3 DEF Sound
<1>5. rows # <<>>
  <2> SUFFICES ASSUME rows = <<>> PROVE FALSE
    OBVIOUS
  <2>1. Span(rows, Old) = 0
    BY SpanEmpty
  <2> QED
    BY <1>0, <1>3, <2>1
<1>6. ASSUME NEW k \in DOMAIN rows
      PROVE  /\ TrueRow(b, a, rows[k])
             /\ SoundRow(b, a, rows[k], Span(SubSeq(rows, 1, k), Old), Span(SubSeq(rows, 1, k), New))
  <2>1. k \in 1 .. Len(rows) /\ k \in 0 .. Len(rows)
    BY <1>4
  <2>2. SoundRow(b, a, rows[k], Spans(rows, Old)[k], Spans(rows, New)[k])
    BY <1>3, <2>1 DEF Sound
  <2>3. \A kinds : Span(SubSeq(rows, 1, k), kinds) = Spans(rows, kinds)[k]
    BY <1>4, <2>1, SpanOfPart
  <2>4. TrueRow(b, a, rows[k])
    BY <2>2 DEF SoundRow, TrueRow
  <2> QED
    BY <2>2, <2>3, <2>4
<1> QED
  BY <1>3, <1>4, <1>5, <1>6 DEF rows

LEMMA ComparisonIsFaithful ==
  ASSUME NEW b \in Seq(TextLines), NEW a \in Seq(TextLines), Len(b) > 0
  PROVE  Faithful(b, a, ArtifactTextDiff(b, a))
<1> DEFINE small == Len(b) * Len(a) <= MaxCells
           ops == IF small THEN LcsOperations(b, a) ELSE FallbackOperations(b, a)
           changed == Count(ops, {"added", "removed"})
           rows == IF changed = 0 THEN <<>> ELSE Collapsed(Numbered(ops))
           d == ArtifactTextDiff(b, a)
<1>1. Compares(ops, b, a) /\ (small => Count(ops, {"equal"}) = CommonLength(b, a))
  <2> HIDE DEF small
  <2> QED
    BY LcsCompares, FallbackCompares
<1>2. /\ d.unchangedLines = Count(ops, {"equal"}) /\ d.removedLines = Count(ops, {"removed"})
      /\ d.addedLines = Count(ops, {"added"}) /\ d.truncated = (Len(rows) > MaxRendered)
      /\ d.lines = IF Len(rows) > MaxRendered THEN Truncated(rows) ELSE rows
  <2>1. d = [kind |-> "diff", addedLines |-> Count(ops, {"added"}), removedLines |-> Count(ops, {"removed"}),
             unchangedLines |-> Count(ops, {"equal"}), truncated |-> Len(rows) > MaxRendered,
             lines |-> IF Len(rows) > MaxRendered THEN Truncated(rows) ELSE rows]
    BY DEF ArtifactTextDiff
  <2> HIDE DEF ops, rows, d
  <2> QED
    BY <2>1
<1>3. Script(ops, b, Len(b), a, Len(a)) /\ (b = a => Place(ops, Len(ops), {"added", "removed"}) = 0)
  BY <1>1 DEF Compares
<1> HIDE DEF ops, d
<1>4. ops \in Seq(Ops) /\ Len(ops) \in Nat
  BY <1>3 DEF Script
<1>5. \A kinds : Count(ops, kinds) = Place(ops, Len(ops), kinds)
  BY <1>4, PlaceIsCount
<1>6. d.unchangedLines + d.removedLines = Len(b) /\ d.unchangedLines + d.addedLines = Len(a)
  <2>1. /\ Count(ops, {"equal"}) + Count(ops, {"removed"}) = Place(ops, Len(ops), Old)
        /\ Count(ops, {"equal"}) + Count(ops, {"added"}) = Place(ops, Len(ops), New)
    BY <1>4, <1>5, PlacesAddUp
  <2> QED
    BY <1>2, <1>3, <2>1 DEF Script
<1>7. Len(b) * Len(a) <= MaxCells => d.unchangedLines = CommonLength(b, a)
  BY <1>1, <1>2
<1>8. changed = Place(ops, Len(ops), {"added", "removed"})
  BY <1>5
<1> HIDE DEF small, changed
<1>9. CASE changed = 0
  <2>1. b = a
    BY <1>3, <1>8, <1>9, UnchangedIsSame
  <2>2. rows = <<>> /\ Len(<<>>) = 0 /\ DOMAIN <<>> = {}
    BY <1>9
  <2>3. ~(0 > MaxRendered) /\ 0 <= MaxRendered
    BY DiffAssumption
  <2>4. d.lines = <<>> /\ Len(d.lines) <= MaxRendered
    BY <1>2, <2>2, <2>3
  <2>5. (d.lines = <<>>) = (b = a)
    BY <2>1, <2>4
  <2> QED
    <3>1. \A k \in DOMAIN <<>> : FALSE
      BY <2>2
    <3>2. Len(<<>>) <= MaxRendered /\ (<<>> = <<>>) = (b = a)
      BY <2>1, <2>2, <2>3
    <3>3. FaithfulRows(b, a, d, <<>>)
      BY <1>6, <1>7, <3>1, <3>2, Zenon DEF FaithfulRows
    <3> QED
      BY <2>4, <3>3 DEF Faithful, d
<1>10. CASE changed # 0
  <2>1. b # a
    BY <1>3, <1>8, <1>10
  <2>2. rows = Collapsed(Numbered(ops))
    BY <1>10
  <2> HIDE DEF rows
  <2>3. /\ rows \in Seq(Row) /\ rows # <<>>
        /\ Span(rows, Old) = Len(b) /\ Span(rows, New) = Len(a)
        /\ Sound(b, a, rows)
        /\ \A k \in DOMAIN rows : TrueRow(b, a, rows[k])
        /\ \A k \in DOMAIN rows :
             SoundRow(b, a, rows[k], Span(SubSeq(rows, 1, k), Old), Span(SubSeq(rows, 1, k), New))
    BY <1>3, <1>8, <1>10, <2>2, RowsAreTrue
  <2>4. CASE Len(rows) > MaxRendered
    <3>1. d.lines = Truncated(rows) /\ d.truncated
      BY <1>2, <2>4
    <3> DEFINE t == Truncated(rows)
    <3>2. t \in Seq(Row) /\ Len(t) = MaxRendered /\ \A k \in 1 .. MaxRendered : TrueRow(b, a, t[k])
      BY <2>3, <2>4, TruncatedIsTrue
    <3> HIDE DEF t
    <3>3. DOMAIN t = 1 .. MaxRendered /\ t # <<>> /\ Len(t) <= MaxRendered
      <4>1. MaxRendered \in Nat /\ MaxRendered > 2 /\ Len(<<>>) = 0
        BY DiffAssumption
      <4> QED
        BY <3>2, <4>1
    <3>4. (t = <<>>) = (b = a)
      BY <2>1, <3>3
    <3>5. d.lines = t
      BY <3>1 DEF t
    <3>6. \A k \in DOMAIN t : TrueRow(b, a, t[k])
      BY <3>2, <3>3
    <3> QED
      <4>1. FaithfulRows(b, a, d, t)
        BY <1>6, <1>7, <3>1, <3>3, <3>4, <3>6, Zenon DEF FaithfulRows
      <4> QED
        BY <3>5, <4>1 DEF Faithful, d
  <2>5. CASE ~(Len(rows) > MaxRendered)
    <3>1. d.lines = rows
      BY <1>2, <2>5
    <3>2. Len(rows) <= MaxRendered
      <4>1. MaxRendered \in Nat /\ Len(rows) \in Nat
        BY <2>3, DiffAssumption
      <4> QED
        BY <2>5, <4>1
    <3>3. (rows = <<>>) = (b = a)
      BY <2>1, <2>3
    <3> QED
      <4>1. FaithfulRows(b, a, d, rows)
        BY <1>6, <1>7, <2>3, <3>2, <3>3, Zenon DEF FaithfulRows
      <4> QED
        BY <3>1, <4>1 DEF Faithful, d
  <2> QED
    BY <2>4, <2>5
<1> QED
  BY <1>9, <1>10 DEF d

\* The comparison is of the two texts.
DiffInv ==
  /\ before \in Texts /\ after \in Texts
  /\ diff = NoDiff \/ diff = [kind |-> "refused"] \/ diff = ArtifactTextDiff(before, after)

LEMMA TextIsSeq ==
  ASSUME NEW t \in Texts
  PROVE  t \in Seq(TextLines) /\ Len(t) > 0
<1>1. PICK n \in 1 .. MaxDiffLines + 1 : t \in [1 .. n -> TextLines]
  BY DEF Texts
<1>2. n \in Nat /\ n > 0
  BY DiffAssumption
<1> QED
  BY <1>1, <1>2

LEMMA DiffInvSuffices ==
  ASSUME DiffInv
  PROVE  DiffIsFaithful
<1> SUFFICES ASSUME diff.kind = "diff" PROVE Faithful(before, after, diff)
  BY DEF DiffIsFaithful, Faithful, FaithfulRows, TrueRow, SoundRow, Old, New
<1>1. diff = ArtifactTextDiff(before, after)
  BY DEF DiffInv, NoDiff
<1>2. before \in Seq(TextLines) /\ after \in Seq(TextLines) /\ Len(before) > 0
  BY TextIsSeq DEF DiffInv
<1> QED
  BY <1>1, <1>2, ComparisonIsFaithful

\* A comparison of two versions of a text tells the truth about both, whatever they are: its counts
\* make up each of them, its rows are their lines at their numbers, what it leaves out is unchanged,
\* and small texts are compared with as few changes as there can be (artifact-text-diff.ts).
THEOREM DiffIsFaithfulCorrect == DiffSpec => []DiffIsFaithful
<1>1. DiffInit => DiffInv
  BY DEF DiffInit, DiffInv
<1>2. DiffInv /\ [Compared]_diffVars => DiffInv'
  <2> SUFFICES ASSUME DiffInv, [Compared]_diffVars PROVE DiffInv'
    OBVIOUS
  <2>1. CASE Compared
    BY <2>1 DEF DiffInv, Compared
  <2>2. CASE UNCHANGED diffVars
    BY <2>2 DEF DiffInv, diffVars
  <2> QED
    BY <2>1, <2>2
<1>3. DiffInv => DiffIsFaithful
  BY DiffInvSuffices
<1> QED
  BY <1>1, <1>2, <1>3, PTL DEF DiffSpec
=============================================================================
