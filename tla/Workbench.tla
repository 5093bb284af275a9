----------------------------- MODULE Workbench ------------------------------
(***************************************************************************)
(* The workbench of the window (App.tsx) and the handlers of the main      *)
(* process behind it (desktop/main.ts): which workspace and Runs are       *)
(* shown, the draft of the next task with the capabilities the workspace   *)
(* offers, the providers' credentials, and the two files that outlive the  *)
(* application: the recent workspaces and the state of the onboarding.     *)
(*                                                                         *)
(* Listing the Runs of a workspace and showing them is one step here.      *)
(***************************************************************************)
EXTENDS Naturals, Sequences, FiniteSets, SequencesExt

CONSTANTS Workspaces,  \* the workspaces the user may choose
          Tutorial,    \* the workspace the onboarding creates
          Tasks,       \* Runs the user may start
          Providers, Skills,
          Offers,      \* the skills each workspace's catalog lists
          RecentLimit, \* 5 in the code
          MaxActs      \* what the user does in one behaviour

Places == Workspaces \union {Tutorial}
Nothing == "nothing"

ASSUME WorkbenchBounds ==
    /\ Tutorial \notin Workspaces /\ Nothing \notin Places \union Tasks \union Providers
    /\ Offers \in [Places -> SUBSET Skills] /\ RecentLimit \in Nat \ {0} /\ MaxActs \in Nat

VARIABLES
    recents, onboarding,       \* the two files
    recentOps, onboardingOps,  \* the updates queued on each, and what each has read
    environment, stored,       \* providers with a key in the environment, in the system's store
    home, state,               \* workspace and status of each Run
    place, list, chosen, creating, guide, known,  \* what the window shows
    draft,                     \* sources and skills of the next task
    catalog, loads,            \* the workspace whose catalog is shown, and the loads in progress
    provider, preferred, available,
    ready,                     \* the answer of bootstrap has arrived
    asks, acts                 \* requests in progress

files == <<recents, onboarding, recentOps, onboardingOps>>
keys == <<environment, stored>>
history == <<home, state>>
showing == <<place, list, chosen, creating, guide, known>>
drafting == <<draft, catalog, loads>>
providing == <<provider, preferred, available>>
benchVars == <<files, keys, history, showing, drafting, providing, ready, asks, acts>>

Source(p) == IF p \in environment THEN "environment" ELSE IF p \in stored THEN "system" ELSE "none"
RunsOf(w) == {<<r, state[r]>> : r \in {r \in Tasks : home[r] = w}}
Shown == {entry[1] : entry \in list}

BenchTypeOK ==
    /\ Len(recents) <= RecentLimit /\ Range(recents) \subseteq Places
    /\ onboarding \in [seen : BOOLEAN, help : BOOLEAN, tutorial : SUBSET {Tutorial}]
    /\ list \subseteq Tasks \X {"running", "ended"} /\ Cardinality(Shown) = Cardinality(list)
    /\ draft.skills \subseteq Skills /\ place \in Places \union {Nothing}
    /\ available \in [Providers -> {"environment", "system", "none"}]

BenchInit ==
    /\ \E w \in Workspaces : recents \in {<<>>, <<w>>}
    /\ onboarding = [seen |-> FALSE, help |-> TRUE, tutorial |-> {}]
    /\ recentOps = <<>> /\ onboardingOps = <<>>
    /\ environment \in {{}} \union {{p} : p \in Providers} /\ stored = {}
    /\ home = [r \in Tasks |-> Nothing] /\ state = [r \in Tasks |-> "running"]
    /\ place = Nothing /\ list = {} /\ chosen = Nothing /\ creating = FALSE /\ guide = TRUE
    /\ known = [seen |-> FALSE, help |-> TRUE, tutorial |-> {}]
    /\ draft = [sources |-> {}, skills |-> {}]
    /\ catalog = Nothing /\ loads = {}
    /\ provider \in Providers /\ preferred = Nothing
    /\ available = [p \in Providers |-> "none"]
    /\ ready = FALSE /\ asks = {} /\ acts = 0
---------------------------------------------------------------------------
(* RecentWorkspaceStore and OnboardingStateStore: an update waits for the  *)
(* ones queued before it, then reads the file and replaces it.             *)

\* The file holds a workspace once.
Promote(w, paths) ==
    LET at == {i \in DOMAIN paths : paths[i] = w}
        others == IF at = {} THEN paths ELSE RemoveAt(paths, CHOOSE i \in at : TRUE)
    IN  SubSeq(<<w>> \o others, 1, IF Len(others) < RecentLimit THEN Len(others) + 1 ELSE RecentLimit)

Patch(current, patch) ==
    CASE patch = "seen" -> [current EXCEPT !.seen = TRUE]
      [] patch = "tutorial" -> [current EXCEPT !.seen = TRUE, !.tutorial = {Tutorial}]

AnyTurn(i) == TRUE        \* mutant: an update does not wait for the ones before it
Turn(i) == i = 1

QueueRecent(ask, w) == recentOps' = Append(recentOps, [ask |-> ask, place |-> w, read |-> {}])
QueueNote(ask, patch) == onboardingOps' = Append(onboardingOps, [ask |-> ask, patch |-> patch, read |-> {}])

ReadRecents ==
    /\ \E i \in DOMAIN recentOps :
         Turn(i) /\ recentOps[i].read = {} /\ recentOps' = [recentOps EXCEPT ![i].read = {recents}]
    /\ UNCHANGED <<recents, onboarding, onboardingOps, keys, history, showing, drafting, providing, ready, asks, acts>>

\* A write that fails leaves the file as it was; the queue goes on.
WriteRecents ==
    /\ \E i \in DOMAIN recentOps : \E read \in recentOps[i].read :
         /\ recentOps' = RemoveAt(recentOps, i)
         /\ recents' \in {recents, Promote(recentOps[i].place, read)}
    /\ UNCHANGED <<onboarding, onboardingOps, keys, history, showing, drafting, providing, ready, asks, acts>>

ReadOnboarding ==
    /\ \E i \in DOMAIN onboardingOps :
         /\ Turn(i) /\ onboardingOps[i].read = {}
         /\ onboardingOps' = [onboardingOps EXCEPT ![i].read = {onboarding}]
    /\ UNCHANGED <<recents, onboarding, recentOps, keys, history, showing, drafting, providing, ready, asks, acts>>

WriteOnboarding ==
    /\ \E i \in DOMAIN onboardingOps : \E read \in onboardingOps[i].read :
         /\ onboardingOps' = RemoveAt(onboardingOps, i)
         /\ onboarding' = Patch(read, onboardingOps[i].patch)
    /\ UNCHANGED <<recents, recentOps, keys, history, showing, drafting, providing, ready, asks, acts>>

\* A handler goes on when the update it queued is through.
Through(ask) ==
    /\ \A i \in DOMAIN recentOps : recentOps[i].ask # ask
    /\ \A i \in DOMAIN onboardingOps : onboardingOps[i].ask # ask
---------------------------------------------------------------------------
(* What the window does with an answer.                                    *)

\* The effect on a change of the workspace, or of the version the user asked
\* for: what was being loaded is not waited for any more.
LoadCatalog(w) ==
    /\ loads' = {[l EXCEPT !.current = FALSE] : l \in loads} \union
                (IF w = Nothing THEN {} ELSE {[id |-> acts, place |-> w, current |-> TRUE]})
    /\ catalog' = IF w = Nothing THEN Nothing ELSE catalog

Upsert(r, s) == {entry \in list : entry[1] # r} \union {<<r, s>>}

First(w) == IF RunsOf(w) = {} THEN Nothing ELSE (CHOOSE entry \in RunsOf(w) : TRUE)[1]

\* activateWorkspace and the answers of the tutorial: another workspace, its
\* Runs, and a draft emptied but for the sources that come with it.
Enter(w, sources) ==
    /\ place' = w /\ list' = RunsOf(w) /\ chosen' = First(w)
    /\ draft' = [sources |-> sources, skills |-> {}]
    /\ IF place = w THEN UNCHANGED <<catalog, loads>> ELSE LoadCatalog(w)

Answered(ask) == asks' = asks \ {ask}
Act(kind, about) ==
    acts < MaxActs /\ acts' = acts + 1 /\ asks' = asks \union {[id |-> acts, kind |-> kind, about |-> about]}
Quiet == UNCHANGED <<files, keys, history>>
---------------------------------------------------------------------------
(* Starting the window.                                                    *)

Bootstrap ==
    /\ ~ready /\ ready' = TRUE
    /\ LET w == IF recents = <<>> THEN Nothing ELSE Head(recents) IN
         /\ place' = w /\ list' = RunsOf(w) /\ chosen' = First(w)
         /\ LoadCatalog(w)
    /\ available' = [p \in Providers |-> Source(p)]
    /\ provider' = IF preferred # Nothing \/ \A p \in Providers : Source(p) = "none" THEN provider
                   ELSE CHOOSE p \in Providers : Source(p) # "none"
    /\ known' = onboarding /\ guide' = ~onboarding.seen
    /\ Quiet /\ UNCHANGED <<creating, draft, preferred, asks, acts>>

\* selectProvider: before the answer of bootstrap too, which then leaves it.
SelectProvider ==
    /\ acts < MaxActs /\ acts' = acts + 1
    /\ \E p \in Providers : provider' = p /\ preferred' = p
    /\ Quiet /\ UNCHANGED <<showing, drafting, available, ready, asks>>
---------------------------------------------------------------------------
(* Workspaces.                                                             *)

\* chooseWorkspace: the handler remembers what the user picked.
ChooseWorkspace ==
    /\ ready
    /\ \E w \in Workspaces : Act("choose", w) /\ QueueRecent(acts, w)
    /\ UNCHANGED <<recents, onboarding, onboardingOps, keys, history, showing, drafting, providing, ready>>

\* openRecentWorkspace, and the second half of chooseWorkspace.
OpenRecentWorkspace ==
    /\ ready
    /\ \E w \in Range(recents) \ {place} :
         Act("open", w) /\ QueueRecent(acts, w)
    /\ UNCHANGED <<recents, onboarding, onboardingOps, keys, history, showing, drafting, providing, ready>>

WorkspaceChosen ==
    /\ \E ask \in asks :
         /\ ask.kind = "choose" /\ Through(ask.id)
         /\ asks' = (asks \ {ask}) \union {[ask EXCEPT !.kind = "open"]}
         /\ QueueRecent(ask.id, ask.about)
    /\ UNCHANGED <<recents, onboarding, onboardingOps, keys, history, showing, drafting, providing, ready, acts>>

WorkspaceOpened ==
    /\ \E ask \in asks :
         /\ ask.kind = "open" /\ Through(ask.id) /\ Answered(ask)
         /\ Enter(ask.about, {}) /\ creating' = (RunsOf(ask.about) = {})
    /\ Quiet /\ UNCHANGED <<guide, known, providing, ready, acts>>
---------------------------------------------------------------------------
(* The first task: createTutorialAndPrepare and chooseOwnMeetingRecord     *)
(* differ in the file they put into the draft.                             *)

CreateTutorial ==
    /\ ready /\ \A ask \in asks : ask.kind \notin {"tutorial", "note", "enter"}
    /\ \E file \in {"sample", "own"} : Act("tutorial", file)
    /\ Quiet /\ UNCHANGED <<showing, drafting, providing, ready>>

\* ensureTutorialWorkspace keeps a workspace it made before; then both files
\* are updated, one after the other.
TutorialCreated ==
    /\ \E ask \in asks :
         /\ ask.kind = "tutorial"
         /\ QueueNote(ask.id, "tutorial")
         /\ asks' = (asks \ {ask}) \union {[ask EXCEPT !.kind = "note"]}
    /\ UNCHANGED <<recents, onboarding, recentOps, keys, history, showing, drafting, providing, ready, acts>>

TutorialNoted ==
    /\ \E ask \in asks :
         /\ ask.kind = "note" /\ Through(ask.id)
         /\ QueueRecent(ask.id, Tutorial)
         /\ asks' = (asks \ {ask}) \union {[ask EXCEPT !.kind = "enter"]}
    /\ UNCHANGED <<recents, onboarding, onboardingOps, keys, history, showing, drafting, providing, ready, acts>>

TutorialEntered ==
    /\ \E ask \in asks :
         /\ ask.kind = "enter" /\ Through(ask.id) /\ Answered(ask)
         /\ Enter(Tutorial, {ask.about}) /\ known' = onboarding
    /\ Quiet /\ UNCHANGED <<creating, guide, providing, ready, acts>>

\* openGuide and closeGuide.
Guide ==
    /\ ready
    /\ \/ /\ guide' = TRUE /\ known.seen /\ ~guide
          /\ UNCHANGED <<onboardingOps, asks, acts>>
       \/ /\ guide' = TRUE /\ ~known.seen
          /\ Act("guide", "open") /\ QueueNote(acts, "seen")
       \/ /\ guide /\ UNCHANGED guide
          /\ Act("guide", "close") /\ QueueNote(acts, "seen")
    /\ UNCHANGED <<recents, onboarding, recentOps, keys, history, place, list, chosen, creating, known,
                   drafting, providing, ready>>

GuideNoted ==
    /\ \E ask \in asks :
         /\ ask.kind = "guide" /\ Through(ask.id) /\ Answered(ask)
         /\ known' = onboarding /\ guide' = (guide /\ ask.about # "close")
    /\ Quiet /\ UNCHANGED <<place, list, chosen, creating, drafting, providing, ready, acts>>
---------------------------------------------------------------------------
(* The draft and the catalog of capabilities.                              *)

ShowCurrent(l) == l.current

CatalogLoaded ==
    /\ \E l \in loads :
         /\ loads' = loads \ {l}
         /\ IF ~ShowCurrent(l) THEN UNCHANGED <<catalog, draft>>
            ELSE \/ /\ catalog' = l.place
                    /\ draft' = [draft EXCEPT !.skills = @ \intersect Offers[l.place]]
                 \/ catalog' = Nothing /\ UNCHANGED draft
    /\ Quiet /\ UNCHANGED <<showing, providing, ready, asks, acts>>

RefreshCatalog ==
    /\ ready /\ loads = {} /\ place # Nothing
    /\ acts < MaxActs /\ acts' = acts + 1 /\ LoadCatalog(place)
    /\ Quiet /\ UNCHANGED <<showing, draft, providing, ready, asks>>

\* selectSkillForRun, from the catalog that is shown.
SelectSkill ==
    /\ catalog # Nothing
    /\ \E s \in Offers[catalog] \ draft.skills : draft' = [draft EXCEPT !.skills = @ \union {s}]
    /\ acts < MaxActs /\ acts' = acts + 1
    /\ Quiet /\ UNCHANGED <<showing, catalog, loads, providing, ready, asks>>

\* beginNewTask empties the sources, not the capabilities.
BeginNewTask ==
    /\ ready /\ ~creating /\ creating' = TRUE /\ guide' = FALSE
    /\ draft' = [draft EXCEPT !.sources = {}]
    /\ Quiet /\ UNCHANGED <<place, list, chosen, known, catalog, loads, providing, ready, asks, acts>>

\* startRun: nothing is sent without a credential.  There is no busy flag.
StartRun ==
    /\ ready /\ place # Nothing /\ available[provider] # "none"
    /\ Act("start", place) /\ QueueRecent(acts, place)
    /\ UNCHANGED <<recents, onboarding, onboardingOps, keys, history, showing, drafting, providing, ready>>

RunStarted ==
    /\ \E ask \in asks : \E r \in Tasks :
         /\ ask.kind = "start" /\ Through(ask.id) /\ Answered(ask)
         /\ home[r] = Nothing /\ home' = [home EXCEPT ![r] = ask.about]
         /\ list' = Upsert(r, "running") /\ chosen' = r
    /\ creating' = FALSE /\ guide' = FALSE
    /\ draft' = [draft EXCEPT !.sources = {}]
    /\ UNCHANGED <<files, keys, state, place, known, catalog, loads, providing, ready, acts>>

\* Every Run's news is pushed, also of a workspace that is not shown.
RunIsOver ==
    /\ \E r \in Tasks :
         /\ home[r] # Nothing /\ state[r] = "running"
         /\ state' = [state EXCEPT ![r] = "ended"]
         /\ list' = Upsert(r, "ended")
         /\ chosen' = IF chosen = Nothing THEN r ELSE chosen
    /\ UNCHANGED <<files, keys, home, place, creating, guide, known, drafting, providing, ready, asks, acts>>
---------------------------------------------------------------------------
(* Credentials.  One request at a time; the answer is about the provider   *)
(* that was selected when it was sent.                                     *)

CredentialKinds == {"store", "delete"}
NoCredentialAsked == \A ask \in asks : ask.kind \notin CredentialKinds

StoreOrDelete ==
    /\ ready /\ NoCredentialAsked
    /\ \E kind \in CredentialKinds :
         /\ kind = "delete" => available[provider] = "system"
         /\ Act(kind, provider)
    /\ Quiet /\ UNCHANGED <<showing, drafting, providing, ready>>

AboutSelected(ask) == provider       \* mutant: about the provider selected by now
About(ask) == ask.about

\* A key is stored, or deleted if the user confirms; the answer says what
\* then holds, with the environment before the store.
CredentialAnswered ==
    /\ \E ask \in {ask \in asks : ask.kind \in CredentialKinds} :
         /\ Answered(ask)
         /\ stored' \in IF ask.kind = "store" THEN {stored \union {ask.about}}
                        ELSE {stored, stored \ {ask.about}}
         /\ available' = [available EXCEPT ![About(ask)] =
                             IF ask.about \in environment THEN "environment"
                             ELSE IF ask.about \in stored' THEN "system" ELSE "none"]
    /\ UNCHANGED <<files, environment, history, showing, drafting, provider, preferred, ready, acts>>

BenchNext ==
    \/ ReadRecents \/ WriteRecents \/ ReadOnboarding \/ WriteOnboarding
    \/ Bootstrap \/ SelectProvider
    \/ ChooseWorkspace \/ OpenRecentWorkspace \/ WorkspaceChosen \/ WorkspaceOpened
    \/ CreateTutorial \/ TutorialCreated \/ TutorialNoted \/ TutorialEntered \/ Guide \/ GuideNoted
    \/ CatalogLoaded \/ RefreshCatalog \/ SelectSkill \/ BeginNewTask
    \/ StartRun \/ RunStarted \/ RunIsOver \/ StoreOrDelete \/ CredentialAnswered

BenchSpec == BenchInit /\ [][BenchNext]_benchVars
---------------------------------------------------------------------------
\* Each write of one of the two files makes one update to what the file held
\* just before: of updates that overlap none is lost.
FilesKeepUpdates ==
    [][/\ recents' # recents => \E w \in Places : recents' = Promote(w, recents)
       /\ onboarding' # onboarding =>
            \E patch \in {"seen", "tutorial"} : onboarding' = Patch(onboarding, patch)]_benchVars

\* Whatever order answers arrive in: the catalog shown is of the workspace
\* shown, and holds the capabilities selected; each provider's credential is
\* shown as it is stored; the provider the user selected stays selected.
WindowIsInStep ==
    /\ loads = {} /\ catalog # Nothing => catalog = place /\ draft.skills \subseteq Offers[place]
    /\ ready /\ NoCredentialAsked => \A p \in Providers : available[p] = Source(p)
    /\ preferred # Nothing => provider = preferred
=============================================================================
