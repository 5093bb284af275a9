-------------------------- MODULE ArtifactThreads ---------------------------
(***************************************************************************)
(* The versions of an artifact.  The window previews the artifact of a     *)
(* Run, the user continues from what it shows, and the Run manager starts  *)
(* a Run with a revision contract (src/artifact-revision.ts) that names    *)
(* its parent by Run and digest and joins it to the parent's thread.       *)
(*                                                                         *)
(* One artifact per Run, under one name.  Contents are compared as their   *)
(* digests are.  Runs are numbered in the order they start; Run 1 is a     *)
(* root, a Run that revises nothing.                                       *)
(***************************************************************************)
EXTENDS Naturals, FiniteSets

CONSTANTS RunCount,   \* Runs started in one behaviour
          Contents,
          MaxClicks,  \* requests of the window in one behaviour
          MaxEdits    \* changes of files behind LocalBuddy's back

ASSUME ThreadBounds == RunCount \in Nat \ {0} /\ {MaxClicks, MaxEdits} \subseteq Nat

RunIds == 1 .. RunCount

\* Sets of at most one element stand for what may be absent.
VARIABLES
    launched,   \* number of Runs started so far
    status,     \* of each Run: running, failed (it may be resumed) or succeeded
    contract,   \* the revision contract in the Run Request
    disk,       \* the artifact's file
    registered, \* the digest in the Run's artifact registry
    copy,       \* the parent's content in the Run's revision-source
    worked,     \* what the agents of the Run were given to revise
    seen,       \* what the user saw when continuing (for the properties)
    at,         \* the Run selected in the window
    shownPreview, shownThread, shownDiff,
    continuation,      \* the continuation the next started Run carries
    pending,    \* requests the main process works on
    clicks, edits

runState == <<launched, status, contract, disk, registered, copy, worked, seen>>
shownState == <<at, shownPreview, shownThread, shownDiff, continuation>>
threadVars == <<runState, shownState, pending, clicks, edits>>

Started == 1 .. launched
ThreadIds == RunIds \X Contents

ThreadTypeOK ==
    /\ launched \in RunIds
    /\ status \in [RunIds -> {"unborn", "running", "failed", "succeeded"}]
    /\ \A r \in RunIds :
         /\ contract[r] \subseteq [parent : RunIds, sha : Contents, thread : ThreadIds, revision : 2 .. RunCount]
         /\ \A held \in {disk[r], registered[r], copy[r], worked[r], seen[r]} :
              held \subseteq Contents /\ Cardinality(held) <= 1
    /\ at \in RunIds
    /\ shownPreview \subseteq [run : RunIds, content : Contents] /\ Cardinality(shownPreview) <= 1

ThreadInit ==
    /\ launched = 1
    /\ \E c \in Contents :
         LET OfRoot == [r \in RunIds |-> IF r = 1 THEN {c} ELSE {}] IN
         /\ status = [r \in RunIds |-> IF r = 1 THEN "succeeded" ELSE "unborn"]
         /\ disk = OfRoot /\ registered = OfRoot
    /\ contract = [r \in RunIds |-> {}] /\ copy = contract
    /\ worked = contract /\ seen = contract
    /\ at = 1 /\ shownPreview = {} /\ shownThread = {} /\ shownDiff = {} /\ continuation = {}
    /\ pending = {} /\ clicks = 0 /\ edits = 0
---------------------------------------------------------------------------
(* The Run manager.                                                        *)

\* #readVerifiedArtifact: the content, if it is what the registry recorded.
ReadVerified(r) == IF disk[r] = registered[r] THEN disk[r] ELSE {}

\* artifactThreadId: digest of the root's Run, file name and content.
ThreadId(parent, sha) == <<parent, sha>>

\* createArtifactRevision: the parent's thread, or the one it begins.
Revision(parent, sha) ==
    IF contract[parent] = {}
    THEN [parent |-> parent, sha |-> sha, thread |-> ThreadId(parent, sha), revision |-> 2]
    ELSE LET p == CHOOSE p \in contract[parent] : TRUE
         IN  [parent |-> parent, sha |-> sha, thread |-> p.thread, revision |-> p.revision + 1]

\* MUTANT: whatever the parent's artifact is by now is revised.
RevisableAnyway(parent, sha) == ReadVerified(parent)

\* #prepareArtifactRevision: the parent's content, if it is still the one the
\* contract is about.
Revisable(parent, sha) == ReadVerified(parent) \intersect {sha}

\* loadArtifactThread: the thread of a Run is its contract's, or the one its
\* children hold, or a new one.
ThreadOf(r, sha) ==
    LET children == {contract[k] : k \in {k \in Started : \E c \in contract[k] : c.parent = r /\ c.sha = sha}}
    IN  IF contract[r] # {} THEN {c.thread : c \in contract[r]}
        ELSE IF children # {} THEN {c.thread : c \in UNION children}
        ELSE {ThreadId(r, sha)}

ThreadView(r, sha) ==
    LET threads == ThreadOf(r, sha)
        Members == {k \in Started : \E c \in contract[k] : c.thread \in threads}
        Contracts == UNION {contract[k] : k \in Members}
        Roots == {[revision |-> IF c.revision > 1 THEN c.revision - 1 ELSE 1,
                   run |-> c.parent,
                   verified |-> ReadVerified(c.parent) = {c.sha}] :
                     c \in {c \in Contracts : c.parent \notin Members}}
        Own == UNION {{[revision |-> c.revision, run |-> k, verified |-> ReadVerified(k) # {}] :
                          c \in contract[k]} : k \in Members}
    IN  IF Members = {} THEN {[revision |-> 1, run |-> r, verified |-> TRUE]} ELSE Roots \union Own

\* loadArtifactRevisionDiff: both contents verified, the parent's the one of
\* the contract, and the contracts in one line.
Diff(r) ==
    {[run |-> r, before |-> before, after |-> after] : before \in
        {b \in Contents : \E c \in contract[r] :
            /\ b \in ReadVerified(c.parent) /\ b = c.sha
            /\ IF contract[c.parent] = {} THEN c.revision = 2
               ELSE \A p \in contract[c.parent] : p.thread = c.thread /\ p.revision + 1 = c.revision},
        after \in ReadVerified(r)}
---------------------------------------------------------------------------
(* The window.                                                             *)

ResetShown == shownPreview' = {} /\ shownThread' = {} /\ shownDiff' = {}

\* A change of the selected Run empties what is shown of its artifacts.
SelectVersion ==
    /\ \E r \in Started \ {at} : at' = r
    /\ ResetShown /\ UNCHANGED <<runState, continuation, pending, clicks, edits>>

AskFor(kind, run, from) ==
    /\ clicks < MaxClicks /\ clicks' = clicks + 1
    /\ pending' = pending \union {[id |-> clicks, kind |-> kind, run |-> run, from |-> from, got |-> {}]}

\* openArtifactVersion: of the selected Run, or of another version, which is
\* selected first.
OpenArtifact ==
    /\ \E r \in {at} \union {v.run : v \in shownThread} :
         /\ AskFor("preview", r, {})
         /\ at' = r
         /\ IF r = at THEN shownDiff' = {} /\ UNCHANGED <<shownPreview, shownThread>> ELSE ResetShown
    /\ UNCHANGED <<runState, continuation, edits>>

\* viewParentArtifactRevision.
ViewParent ==
    /\ \E c \in contract[at] : AskFor("preview", c.parent, {}) /\ at' = c.parent
    /\ ResetShown /\ UNCHANGED <<runState, continuation, edits>>

LoadDiff ==
    /\ shownPreview # {} /\ AskFor("diff", at, {})
    /\ UNCHANGED <<runState, shownState, edits>>

\* continueFromArtifact: the selected Run and the digest of what is shown.
ContinueFromArtifact ==
    /\ continuation' = {[parent |-> at, sha |-> p.content, saw |-> p.content] : p \in shownPreview}
    /\ shownPreview # {} /\ continuation' # continuation
    /\ UNCHANGED <<runState, at, shownPreview, shownThread, shownDiff, pending, clicks, edits>>

\* beginNewTask.
DropContinuation ==
    /\ continuation # {} /\ continuation' = {}
    /\ UNCHANGED <<runState, at, shownPreview, shownThread, shownDiff, pending, clicks, edits>>

StartRevision ==
    /\ \E d \in continuation : AskFor("start", d.parent, {d})
    /\ UNCHANGED <<runState, shownState, edits>>

\* restartRun of a failed Run replays its Run Request, contract included.
RestartRevision ==
    /\ status[at] = "failed" /\ contract[at] # {}
    /\ AskFor("restart", at, {})
    /\ UNCHANGED <<runState, shownState, edits>>
---------------------------------------------------------------------------
(* Answers.  What a handler reads it reads at a moment of its own; a       *)
(* failure only shows an error.                                            *)

Settled(q) == pending' = pending \ {q}

ReadPreview ==
    /\ \E q \in pending :
         /\ q.kind = "preview" /\ q.got = {}
         /\ LET got == ReadVerified(q.run)
            IN  pending' = (pending \ {q}) \union {[q EXCEPT !.got = {c}] : c \in got}
    /\ UNCHANGED <<runState, shownState, clicks, edits>>

ShowPreview ==
    /\ \E q \in pending : \E c \in q.got :
         /\ Settled(q)
         /\ IF ReadVerified(q.run) = {} THEN UNCHANGED <<shownPreview, shownThread>>
            ELSE /\ shownPreview' = {[run |-> q.run, content |-> c]}
                 /\ shownThread' = UNION {ThreadView(q.run, now) : now \in ReadVerified(q.run)}
    /\ UNCHANGED <<runState, at, shownDiff, continuation, clicks, edits>>

ShowDiff ==
    /\ \E q \in pending :
         /\ q.kind = "diff" /\ Settled(q)
         /\ shownDiff' = IF Diff(q.run) = {} THEN shownDiff ELSE Diff(q.run)
    /\ UNCHANGED <<runState, at, shownPreview, shownThread, continuation, clicks, edits>>

\* The Run is started with its contract and a copy of the parent's content,
\* which its agents are given.
Launch(new, revision, content, saw) ==
    /\ launched' = new
    /\ status' = [status EXCEPT ![new] = "running"]
    /\ contract' = [contract EXCEPT ![new] = {revision}]
    /\ copy' = [copy EXCEPT ![new] = {content}]
    /\ worked' = [worked EXCEPT ![new] = {content}]
    /\ seen' = [seen EXCEPT ![new] = saw]
    /\ at' = new /\ ResetShown
    /\ UNCHANGED <<disk, registered>>

Refused == UNCHANGED <<runState, at, shownPreview, shownThread, shownDiff>>

RevisionStarted ==
    /\ launched < RunCount
    /\ \E q \in pending : \E d \in q.from :
         /\ Settled(q)
         /\ \/ /\ \E content \in Revisable(d.parent, d.sha) :
                    Launch(launched + 1, Revision(d.parent, d.sha), content, {d.saw})
               /\ continuation' = {}
            \/ /\ Revisable(d.parent, d.sha) = {}
               /\ Refused /\ UNCHANGED continuation
    /\ UNCHANGED <<clicks, edits>>

RevisionRestarted ==
    /\ launched < RunCount
    /\ \E q \in pending : \E c \in contract[q.run] :
         /\ q.kind = "restart" /\ Settled(q)
         /\ \/ /\ Revision(c.parent, c.sha) = c
               /\ \E content \in Revisable(c.parent, c.sha) :
                    Launch(launched + 1, c, content, seen[q.run])
            \/ /\ (Revision(c.parent, c.sha) # c \/ Revisable(c.parent, c.sha) = {})
               /\ Refused
    /\ UNCHANGED <<continuation, clicks, edits>>
---------------------------------------------------------------------------
(* Runs and files.                                                         *)

\* An artifact is written and registered; a resumed Run writes it anew, but
\* what is registered once is not replaced.
PublishArtifact ==
    /\ \E r \in Started : \E c \in Contents :
         /\ status[r] = "running"
         /\ disk' = [disk EXCEPT ![r] = {c}]
         /\ \/ /\ registered[r] \subseteq {c} /\ registered' = [registered EXCEPT ![r] = {c}]
               /\ \E s \in {"failed", "succeeded"} : status' = [status EXCEPT ![r] = s]
            \/ UNCHANGED registered /\ status' = [status EXCEPT ![r] = "failed"]
    /\ UNCHANGED <<launched, contract, copy, worked, seen, shownState, pending, clicks, edits>>

RevisionFails ==
    /\ \E r \in Started : /\ status[r] = "running" /\ status' = [status EXCEPT ![r] = "failed"]
    /\ UNCHANGED <<launched, contract, disk, registered, copy, worked, seen, shownState, pending, clicks, edits>>

\* #loadVerifiedRevisionParent: a resumed revision reads the copy, and goes on
\* only if it is what the contract says.
ResumeRevision ==
    /\ \E r \in Started :
         /\ status[r] = "failed"
         /\ \A c \in contract[r] : copy[r] = {c.sha}
         /\ worked' = [worked EXCEPT ![r] = copy[r]]
         /\ status' = [status EXCEPT ![r] = "running"]
    /\ UNCHANGED <<launched, contract, disk, registered, copy, seen, shownState, pending, clicks, edits>>

\* Files of the workspace are the user's: an artifact, or the copy a revision
\* works from, is edited or removed.
EditFiles ==
    /\ edits < MaxEdits /\ edits' = edits + 1
    /\ \E r \in Started : \E held \in {{}} \union {{c} : c \in Contents} :
         \/ disk[r] # {} /\ disk' = [disk EXCEPT ![r] = held] /\ UNCHANGED copy
         \/ copy[r] # {} /\ copy' = [copy EXCEPT ![r] = held] /\ UNCHANGED disk
    /\ UNCHANGED <<launched, status, contract, registered, worked, seen, shownState, pending, clicks>>

ThreadNext ==
    \/ SelectVersion \/ OpenArtifact \/ ViewParent \/ LoadDiff \/ ContinueFromArtifact
    \/ DropContinuation \/ StartRevision \/ RestartRevision
    \/ ReadPreview \/ ShowPreview \/ ShowDiff \/ RevisionStarted \/ RevisionRestarted
    \/ PublishArtifact \/ RevisionFails \/ ResumeRevision \/ EditFiles

ThreadSpec == ThreadInit /\ [][ThreadNext]_threadVars
---------------------------------------------------------------------------
\* The agents of a revision revise the content the user saw when continuing,
\* also after a restart or a resume and whatever became of the files and of
\* the selected Run in between, and a diff compares with that content.
RevisesWhatWasShown ==
    /\ \A r \in Started : worked[r] # {} => worked[r] = seen[r]
    /\ \A d \in shownDiff : seen[d.run] = {d.before}

\* The line of a version: the least set that holds it and, with a version, the
\* parent of that version.
Ancestors ==
    LET Closed == {S \in SUBSET Started : \A k \in S : \A c \in contract[k] : c.parent \in S}
    IN  [r \in Started |-> {k \in Started : \A S \in Closed : r \in S => k \in S}]

\* The thread shown with a version holds every version it descends from, at
\* its place in the line, and no version of another root.
AncestorsAreShown ==
    LET Line == Ancestors
    IN  \A r \in Started : \A sha \in ReadVerified(r) :
            /\ Line[r] \subseteq {v.run : v \in ThreadView(r, sha)}
            /\ Cardinality(ThreadOf(r, sha)) = 1
            /\ \A v \in ThreadView(r, sha) : v.revision = Cardinality(Line[v.run])

\* What the user sees of an artifact's versions, its thread, its diffs and the
\* text a revision starts from, is what the agents worked on.
RevisionsAreShown == RevisesWhatWasShown /\ AncestorsAreShown
=============================================================================
