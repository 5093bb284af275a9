---------------------------- MODULE DesktopRuns ----------------------------
(***************************************************************************)
(* src/src/desktop-run-manager.ts and what it drives: the calls of the     *)
(* window (start, restart, resume, cancel, decide on a plan, list), the    *)
(* Runs they set going (HeadlessWorkflow), the plan review both meet in,   *)
(* and the files that are left when the process stops.  An action is the   *)
(* code between two awaits.  The calls that approve or revert an           *)
(* integration are in Integration.                                         *)
(***************************************************************************)
EXTENDS Naturals, FiniteSets

CONSTANTS
  Runs,               \* 1..n, in the order in which they are started
  Calls,
  NoRun,
  MaxActive,          \* maxActiveRuns
  PlanReview,         \* "required" or "skipped"
  Overlaps,           \* what may overlap on one Run: "scan", "resume", "decision"
  MaxCrashes, MaxLaunches   \* bounds: crashes; starts, restarts and resumes

ASSUME DesktopAssumption ==
  /\ Runs \subseteq Nat /\ NoRun \notin Runs /\ Runs \cap Calls = {}
  /\ MaxActive \in Nat \ {0} /\ PlanReview \in {"required", "skipped"}
  /\ Overlaps \subseteq {"scan", "resume", "decision"} /\ MaxCrashes \in Nat /\ MaxLaunches \in Nat

VARIABLES
  log,                \* [Runs -> Logs]: what events.jsonl amounts to
  request,            \* Runs with a run-request.json
  checkpoint,         \* Runs with a checkpoint
  review,             \* [Runs -> Reviews]: plan-review.json
  active, launching,  \* #active, #launching
  view,               \* [Runs -> Statuses]: the status of the view of an active Run
  current,            \* [Runs -> Reviews]: #current of the Run's broker
  waiter,             \* [Runs -> Decisions]: #waiter of the broker and what it was told
  exec,               \* [Runs -> Phases]: where the Run's workflow stands
  resuming, aborted,
  leases,             \* the calls and Runs that have a lease of the workspace
  cli,                \* whether another process has the workspace
  call,               \* [Calls -> CallStates]
  crashes, launches,  \* counters for the bounds
  approvedByUser      \* history: the Runs whose plan the user approved

files == <<log, request, checkpoint, review>>
broker == <<current, waiter>>
memory == <<active, launching, view, broker, exec, resuming, aborted>>
bounds == <<crashes, launches, approvedByUser>>
vars == <<files, memory, leases, cli, call, bounds>>

-----------------------------------------------------------------------------
(* Events, and the two ways in which they are read.                        *)

Terminal == {"succeeded", "failed", "cancelled", "interrupted"}
Lifecycle == Terminal \cup {"started", "resumed"}
Statuses == Terminal \cup {"none", "starting", "planning", "running", "awaiting", "cancelling"}
Reviews == {"none", "pending", "approved", "rejected", "cancelled"}

\* projectRun: the status after one more event.
Project(status, event) ==
  CASE event \in Terminal -> event
    [] event = "started" -> "planning"
    [] event \in {"resumed", "planned", "planApproved"} -> "running"
    [] event = "reviewRequested" -> "awaiting"
    [] event = "planRejected" -> "cancelling"
    [] OTHER -> status                          \* checkpointed, blocked, restarted

Logs == [status : Statuses, last : Lifecycle \cup {"none"}, replayed : BOOLEAN, audited : SUBSET Reviews]

Read(l, event) ==
  [l EXCEPT !.status = Project(@, event),
            !.last = IF event \in Lifecycle THEN event ELSE @,
            !.replayed = @ \/ event = "restarted",
            !.audited = CASE event = "planApproved" -> @ \cup {"approved"}
                          [] event = "planRejected" -> @ \cup {"rejected", "cancelled"}
                          [] OTHER -> @]

Append(r, event) == log' = [log EXCEPT ![r] = Read(@, event)]

\* NotifyingEventStore: the view is projected anew from all events, whatever it said.
Notify(r, event) ==
  /\ Append(r, event)
  /\ view' = [view EXCEPT ![r] = IF log'[r].status = "none" THEN @ ELSE log'[r].status]

\* hasTerminalRunState: by the last lifecycle event.
HasTerminalRunState(r) == log[r].last \in Terminal

-----------------------------------------------------------------------------
Phases == {"idle", "start", "plan", "planned", "inspect", "review", "audit", "ask", "wait",
           "restore", "revive", "work", "fail", "blocked", "close", "leave"}

\* What the promise of a waiting Run was settled with.
Decisions == {"none", "open", "go", "stop"}

Kinds == {"start", "restart", "resume", "list", "cancel", "approve", "reject"}

Launching == {"claim", "persist", "link", "enter", "load"}
Launched == {"provider", "own", "fail", "quit"}
Deciding == {"read", "write", "audit", "settle"}
Steps == Launching \cup Launched \cup Deciding \cup {"scan", "check"}

\* found: the Run a scan found unfinished, then the Run the call launches.
CallStates == [kind : Kinds \cup {"none"}, run : Runs \cup {NoRun}, at : Steps \cup {"none"},
               found : Runs \cup {NoRun}]

NoCall == [kind |-> "none", run |-> NoRun, at |-> "none", found |-> NoRun]

Init ==
  /\ log = [r \in Runs |-> [status |-> "none", last |-> "none", replayed |-> FALSE, audited |-> {}]]
  /\ request = {} /\ checkpoint = {} /\ review = [r \in Runs |-> "none"]
  /\ active = {} /\ launching = {} /\ view = [r \in Runs |-> "none"]
  /\ current = [r \in Runs |-> "none"] /\ waiter = [r \in Runs |-> "none"]
  /\ exec = [r \in Runs |-> "idle"] /\ resuming = {} /\ aborted = {}
  /\ leases = {} /\ cli = FALSE
  /\ call = [c \in Calls |-> NoCall]
  /\ crashes = 0 /\ launches = 0 /\ approvedByUser = {}

Return(c) == call' = [call EXCEPT ![c] = NoCall]

Step(c, at) == call' = [call EXCEPT ![c].at = at]

Is(c, kind, at) == call[c].kind = kind /\ call[c].at = at

Begin(c, kind, r, at) ==
  /\ call[c] = NoCall
  /\ call' = [call EXCEPT ![c] = [NoCall EXCEPT !.kind = kind, !.run = r, !.at = at]]

\* Bound: two calls of these kinds on one Run only if Overlaps has them.
MayCall(r, kinds, overlap) ==
  overlap \in Overlaps \/ \A c \in Calls : ~(call[c].kind \in kinds /\ call[c].run = r)

Crowded == Cardinality(active) + Cardinality(launching) >= MaxActive

\* Runs that were not started yet, the next one first.
Fresh(r) ==
  /\ r \notin request \cup launching \cup active
  /\ \A s \in Runs : s < r => s \in request \cup launching

-----------------------------------------------------------------------------
(* The workspace's lock, shared by the calls and Runs of this process.     *)

\* acquire: nothing of the manager changed before it, except by #start.  A list
\* that is refused the lease skips the reconciliation; the other calls throw.
Lock(c, kind, r, at) ==
  /\ ~cli
  /\ "scan" \in Overlaps \/ at # "scan" \/ \A e \in Calls : call[e].at # "scan"
  /\ leases' = leases \cup {c}
  /\ Begin(c, kind, r, at)

Unlock(c) == leases' = leases \ {c} /\ Return(c)

\* Another LocalBuddy process runs in the workspace for a while; bound: only when
\* a start may meet it, for the other calls it is as if they were not made.
Cli ==
  /\ cli \/ (leases = {} /\ \E c \in Calls : call[c].at = "claim")
  /\ cli' = ~cli
  /\ UNCHANGED <<files, memory, leases, call, bounds>>

-----------------------------------------------------------------------------
(* reconcileInterrupted, the first thing list, restart and resume do.      *)

Unfinished(r) ==
  /\ r \notin active \cup launching
  /\ r \in request /\ ~HasTerminalRunState(r)

\* It reads the events of one Run and awaits the Run's request and checkpoint.
Scan(c) ==
  /\ call[c].at = "scan" /\ call[c].found = NoRun
  /\ \E r \in Runs : Unfinished(r) /\ call' = [call EXCEPT ![c].found = r]
  /\ UNCHANGED <<files, memory, leases, cli, bounds>>

Mark(c) ==
  /\ call[c].at = "scan" /\ call[c].found # NoRun
  /\ Append(call[c].found, "interrupted")
  /\ call' = [call EXCEPT ![c].found = NoRun]
  /\ UNCHANGED <<request, checkpoint, review, memory, leases, cli, bounds>>

Scanned(c) == call[c].at = "scan" /\ call[c].found = NoRun /\ \A r \in Runs : ~Unfinished(r)

Listed(c) ==
  /\ Scanned(c) /\ call[c].kind = "list"
  /\ Unlock(c)
  /\ UNCHANGED <<files, memory, cli, bounds>>

-----------------------------------------------------------------------------
(* The calls up to the Run they launch.                                    *)

Recoverable(r) == log[r].status \in {"interrupted", "failed"} /\ ~log[r].replayed

\* The Runs whose view offers Resume and Restart, or did a moment ago.
Offered == {r \in request \ launching : Recoverable(r)}

List(c) ==
  /\ Lock(c, "list", NoRun, "scan")
  /\ UNCHANGED <<files, memory, cli, bounds>>

Recover(c) ==
  /\ launches < MaxLaunches /\ launches' = launches + 1
  /\ \E r \in Offered :
       \/ Lock(c, "restart", r, "scan")
       \/ MayCall(r, {"resume"}, "resume") /\ Lock(c, "resume", r, "scan")
  /\ UNCHANGED <<files, memory, cli, crashes, approvedByUser>>

\* #start, called by the window or by restartRun.
Claim(c, kind) ==
  /\ ~Crowded
  /\ \E r \in Runs :
       /\ Fresh(r)
       /\ launching' = launching \cup {r}
       /\ call' = [call EXCEPT ![c].kind = kind, ![c].found = r, ![c].at = "claim"]
  /\ UNCHANGED <<files, active, view, broker, exec, resuming, aborted, leases, cli, crashes, approvedByUser>>

Start(c) ==
  /\ call[c] = NoCall /\ Claim(c, "start")
  /\ launches < MaxLaunches /\ launches' = launches + 1

ReplayScanned(c) ==
  /\ Scanned(c) /\ call[c].kind = "restart"
  /\ Step(c, "check")
  /\ UNCHANGED <<files, memory, leases, cli, bounds>>

Replay(c) ==
  /\ Is(c, "restart", "check") /\ Recoverable(call[c].run) /\ Claim(c, "restart")
  /\ UNCHANGED launches

ReplayRefused(c) ==
  /\ Is(c, "restart", "check")
  /\ ~Recoverable(call[c].run) \/ Crowded \/ \A r \in Runs : ~Fresh(r)
  /\ Unlock(c)
  /\ UNCHANGED <<files, memory, cli, bounds>>

ClaimRefused(c) ==
  /\ call[c].at = "claim" /\ cli
  /\ launching' = launching \ {call[c].found}
  /\ Unlock(c)
  /\ UNCHANGED <<files, active, view, broker, exec, resuming, aborted, cli, bounds>>

Claimed(c) ==
  /\ call[c].at = "claim" /\ ~cli
  /\ leases' = leases \cup {call[c].found}
  /\ Step(c, "persist")
  /\ UNCHANGED <<files, memory, cli, bounds>>

\* prepareArtifactRevision and the save of the request.
Persist(c) ==
  /\ call[c].at = "persist"
  /\ request' = request \cup {call[c].found}
  /\ Step(c, IF call[c].kind = "restart" THEN "link" ELSE "enter")
  /\ UNCHANGED <<log, checkpoint, review, memory, leases, cli, bounds>>

\* onPersisted: the source learns which Run replays it.
Link(c) ==
  /\ call[c].at = "link"
  /\ Append(call[c].run, "restarted")
  /\ Step(c, "enter")
  /\ UNCHANGED <<request, checkpoint, review, memory, leases, cli, bounds>>

LaunchFailsHolding(c) ==                         \* mutant: the lease is not released
  /\ call[c].at \in {"persist", "link"}
  /\ launching' = launching \ {call[c].found}
  /\ Unlock(c)
  /\ UNCHANGED <<files, active, view, broker, exec, resuming, aborted, cli, bounds>>

LaunchFails(c) ==
  /\ call[c].at \in {"persist", "link"}
  /\ launching' = launching \ {call[c].found}
  /\ leases' = leases \ {c, call[c].found}
  /\ Return(c)
  /\ UNCHANGED <<files, active, view, broker, exec, resuming, aborted, cli, bounds>>

ResumeClaim(c) ==
  /\ Scanned(c) /\ call[c].kind = "resume"
  /\ LET r == call[c].run IN
       /\ r \notin active \cup launching /\ ~Crowded
       /\ launching' = launching \cup {r}
       /\ call' = [call EXCEPT ![c].found = r, ![c].at = "load"]
  /\ UNCHANGED <<files, active, view, broker, exec, resuming, aborted, leases, cli, bounds>>

\* The catch clause takes the mark of the Run away, whoever set it.
ResumeRefused(c) ==
  /\ Scanned(c) /\ call[c].kind = "resume" /\ (call[c].run \in active \cup launching \/ Crowded)
  /\ launching' = launching \ {call[c].run}
  /\ Unlock(c)
  /\ UNCHANGED <<files, active, view, broker, exec, resuming, aborted, cli, bounds>>

ResumeLoad(c) ==
  /\ call[c].at = "load" /\ Recoverable(call[c].run) /\ call[c].run \in checkpoint
  /\ Step(c, "enter")
  /\ UNCHANGED <<files, memory, leases, cli, bounds>>

\* Not recoverable, or no checkpoint: checkpoint.resume_blocked changes no status.
ResumeUnavailable(c) ==
  /\ call[c].at = "load" /\ ~(Recoverable(call[c].run) /\ call[c].run \in checkpoint)
  /\ launching' = launching \ {call[c].run}
  /\ Unlock(c)
  /\ UNCHANGED <<files, active, view, broker, exec, resuming, aborted, cli, bounds>>

Enter(c) ==
  /\ call[c].at = "enter"
  /\ LET r == call[c].found IN
       /\ active' = active \cup {r} /\ launching' = launching \ {r}
       /\ view' = [view EXCEPT ![r] = "starting"]
       /\ IF call[c].kind = "resume"
          THEN resuming' = resuming \cup {r} /\ leases' = (leases \ {c}) \cup {r}
          ELSE UNCHANGED <<resuming, leases>>
  /\ Step(c, "provider")
  /\ UNCHANGED <<files, broker, exec, aborted, cli, bounds>>

Provider(c) ==
  /\ call[c].at = "provider"
  /\ exec' = [exec EXCEPT ![call[c].found] = IF call[c].kind = "resume" THEN "inspect" ELSE "start"]
  /\ Unlock(c)
  /\ UNCHANGED <<files, active, launching, view, broker, resuming, aborted, cli, bounds>>

NoProvider(c) ==
  /\ call[c].at = "provider"
  /\ Step(c, "own")
  /\ UNCHANGED <<files, memory, leases, cli, bounds>>

Own(c) ==
  /\ call[c].at = "own"
  /\ Notify(call[c].found, IF call[c].kind = "resume" THEN "resumed" ELSE "started")
  /\ Step(c, "fail")
  /\ UNCHANGED <<request, checkpoint, review, active, launching, broker, exec, resuming, aborted,
                 leases, cli, bounds>>

FailStart(c) ==
  /\ call[c].at = "fail"
  /\ Notify(call[c].found, "failed")
  /\ Step(c, "quit")
  /\ UNCHANGED <<request, checkpoint, review, active, launching, broker, exec, resuming, aborted,
                 leases, cli, bounds>>

Forget(r) ==
  /\ active' = active \ {r} /\ resuming' = resuming \ {r} /\ aborted' = aborted \ {r}
  /\ view' = [view EXCEPT ![r] = "none"]
  /\ current' = [current EXCEPT ![r] = "none"] /\ waiter' = [waiter EXCEPT ![r] = "none"]

QuitStart(c) ==
  /\ call[c].at = "quit"
  /\ Forget(call[c].found)
  /\ leases' = leases \ {c, call[c].found}
  /\ Return(c)
  /\ UNCHANGED <<files, launching, exec, cli, bounds>>

-----------------------------------------------------------------------------
(* Decisions: cancel, approve and reject meet the Run in its broker.       *)

Live(r) == current[r] = "pending" /\ waiter[r] = "open"

Verdict(c) == CASE call[c].kind = "approve" -> "approved"
                [] call[c].kind = "reject" -> "rejected"
                [] OTHER -> "cancelled"

Undecided(r) == MayCall(r, {"cancel", "approve", "reject"}, "decision")

Decide(c) ==
  /\ \E r \in active, kind \in {"approve", "reject"} :
       /\ view[r] = "awaiting" /\ Live(r)
       /\ MayCall(r, {"approve", "reject"}, "decisions") /\ Undecided(r)
       /\ Begin(c, kind, r, "read")
       /\ approvedByUser' = IF kind = "approve" THEN approvedByUser \cup {r} ELSE approvedByUser
  /\ UNCHANGED <<files, memory, leases, cli, crashes, launches>>

\* Also one microtask after an abort: what waits is told to stop.
Abort(r) ==
  /\ aborted' = aborted \cup {r}
  /\ waiter' = [waiter EXCEPT ![r] = IF @ = "open" THEN "stop" ELSE @]

Cancel(c) ==
  /\ \E r \in active :
       /\ r \notin aborted
       /\ MayCall(r, {"cancel"}, "cancels") /\ Undecided(r)
       /\ view' = [view EXCEPT ![r] = "cancelling"]
       /\ IF Live(r) THEN Begin(c, "cancel", r, "read") /\ UNCHANGED <<aborted, waiter>>
          ELSE call[c] = NoCall /\ Abort(r) /\ UNCHANGED call
  /\ UNCHANGED <<files, active, launching, current, exec, resuming, leases, cli, bounds>>

GiveUpQuietly(c) == Return(c) /\ UNCHANGED <<aborted, waiter>>        \* mutant: no finally

\* cancel aborts whatever the broker threw (finally).
GiveUp(c) ==
  /\ IF call[c].kind = "cancel" /\ call[c].run \in active THEN Abort(call[c].run)
     ELSE UNCHANGED <<aborted, waiter>>
  /\ Return(c)

ReadReview(c) ==
  /\ call[c].at = "read"
  /\ LET status == review[call[c].run] IN
       \/ status = "pending" /\ Step(c, "write") /\ UNCHANGED <<aborted, waiter>>
       \/ status = Verdict(c) /\ Step(c, "audit") /\ UNCHANGED <<aborted, waiter>>
       \/ status \notin {"pending", Verdict(c)} /\ GiveUp(c)
  /\ UNCHANGED <<files, active, launching, view, current, exec, resuming, leases, cli, bounds>>

WriteReview(c) ==
  /\ call[c].at = "write"
  /\ review' = [review EXCEPT ![call[c].run] = Verdict(c)]
  /\ Step(c, "audit")
  /\ UNCHANGED <<log, request, checkpoint, memory, leases, cli, bounds>>

\* ensureResolutionAudited
Audit(r, status) ==
  LET event == IF status = "approved" THEN "planApproved" ELSE "planRejected" IN
    IF status \in log[r].audited THEN UNCHANGED <<log, view>>
    ELSE /\ Append(r, event)
         /\ view' = IF r \in active THEN [view EXCEPT ![r] = Project(@, event)] ELSE view

AuditReview(c) ==
  /\ call[c].at = "audit"
  /\ Audit(call[c].run, Verdict(c))
  /\ Step(c, "settle")
  /\ UNCHANGED <<request, checkpoint, review, active, launching, broker, exec, resuming, aborted,
                 leases, cli, bounds>>

\* Without a waiter it throws, after everything else was done.
SettleReview(c) ==
  /\ call[c].at = "settle"
  /\ LET r == call[c].run IN
       /\ current' = IF r \in active THEN [current EXCEPT ![r] = Verdict(c)] ELSE current
       /\ waiter' = [waiter EXCEPT ![r] = IF @ = "open" THEN (IF call[c].kind = "approve" THEN "go" ELSE "stop")
                                          ELSE @]
       /\ aborted' = IF call[c].kind = "cancel" /\ r \in active THEN aborted \cup {r} ELSE aborted
  /\ Return(c)
  /\ UNCHANGED <<files, active, launching, view, exec, resuming, leases, cli, bounds>>

-----------------------------------------------------------------------------
(* The Run: HeadlessWorkflow.#execute around planning, review and work.    *)

At(r, phase) == r \in active /\ exec[r] = phase

Goto(r, phase) == exec' = [exec EXCEPT ![r] = phase]

\* Where a Run goes that has its plan, and one whose plan was approved.
Planned(r) == IF PlanReview = "required" THEN "review"
              ELSE IF r \in resuming THEN "restore" ELSE "work"

Approved(r) == IF r \in resuming THEN "restore" ELSE "work"

Started(r) ==
  /\ At(r, "start") /\ Notify(r, "started") /\ Goto(r, "plan")
  /\ UNCHANGED <<request, checkpoint, review, active, launching, broker, resuming, aborted,
                 leases, cli, call, bounds>>

PlanCreated(r) ==
  /\ At(r, "plan") /\ Notify(r, "planned") /\ Goto(r, "planned")
  /\ UNCHANGED <<request, checkpoint, review, active, launching, broker, resuming, aborted,
                 leases, cli, call, bounds>>

CheckpointCreated(r) ==
  /\ At(r, "planned")
  /\ checkpoint' = checkpoint \cup {r}
  /\ Notify(r, "checkpointed") /\ Goto(r, Planned(r))
  /\ UNCHANGED <<request, review, active, launching, broker, resuming, aborted,
                 leases, cli, call, bounds>>

\* The planner or a file throws; after a throw of the scheduler see Finish.
Throws(r) ==
  /\ At(r, "plan") \/ At(r, "planned")
  /\ Goto(r, "fail")
  /\ UNCHANGED <<files, active, launching, view, broker, resuming, aborted,
                 leases, cli, call, bounds>>

\* inspectResume and, after the review, validateCheckpoint.
Inspected(r) ==
  /\ \/ At(r, "inspect") /\ (Goto(r, Planned(r)) \/ Goto(r, "blocked"))
     \/ At(r, "restore") /\ (Goto(r, "revive") \/ Goto(r, "blocked"))
  /\ UNCHANGED <<files, active, launching, view, broker, resuming, aborted,
                 leases, cli, call, bounds>>

\* PlanReviewStore.prepare, then the waiter unless the Run was aborted.
Prepare(r) ==
  /\ At(r, "review")
  /\ review' = [review EXCEPT ![r] = IF @ = "none" THEN "pending" ELSE @]
  /\ current' = [current EXCEPT ![r] = review'[r]]
  /\ IF review'[r] = "pending"
     THEN /\ waiter' = [waiter EXCEPT ![r] = IF r \in aborted THEN "stop" ELSE "open"]
          /\ Goto(r, "ask")
     ELSE Goto(r, "audit") /\ UNCHANGED waiter
  /\ UNCHANGED <<log, request, checkpoint, active, launching, view, resuming, aborted,
                 leases, cli, call, bounds>>

SettledUnread(r) ==                              \* mutant: any settled review lets the Run go on
  /\ At(r, "audit")
  /\ Audit(r, review[r])
  /\ Goto(r, Approved(r))
  /\ UNCHANGED <<request, checkpoint, review, active, launching, broker, resuming, aborted,
                 leases, cli, call, bounds>>

\* A review that an earlier process of this Run had settled.
Settled(r) ==
  /\ At(r, "audit")
  /\ Audit(r, review[r])
  /\ Goto(r, IF review[r] = "approved" THEN Approved(r) ELSE "fail")
  /\ UNCHANGED <<request, checkpoint, review, active, launching, broker, resuming, aborted,
                 leases, cli, call, bounds>>

Ask(r) ==
  /\ At(r, "ask") /\ Notify(r, "reviewRequested") /\ Goto(r, "wait")
  /\ UNCHANGED <<request, checkpoint, review, active, launching, broker, resuming, aborted,
                 leases, cli, call, bounds>>

Answered(r) ==
  /\ At(r, "wait") /\ waiter[r] \in {"go", "stop"}
  /\ waiter' = [waiter EXCEPT ![r] = "none"]
  /\ Goto(r, IF waiter[r] = "go" THEN Approved(r) ELSE "fail")
  /\ UNCHANGED <<files, active, launching, view, current, resuming, aborted,
                 leases, cli, call, bounds>>

Resumed(r) ==
  /\ At(r, "revive") /\ Notify(r, "resumed") /\ Goto(r, "work")
  /\ UNCHANGED <<request, checkpoint, review, active, launching, broker, resuming, aborted,
                 leases, cli, call, bounds>>

\* The scheduler returned: see Scheduler.
Finish(r) ==
  /\ At(r, "work")
  /\ \E outcome \in {"succeeded", "failed", "cancelled"} :
       /\ outcome = "cancelled" => r \in aborted
       /\ Notify(r, outcome)
  /\ Goto(r, "close")
  /\ UNCHANGED <<request, checkpoint, review, active, launching, broker, resuming, aborted,
                 leases, cli, call, bounds>>

\* The catch clause; "cancelled" also stands for a review that ended the Run.
Fails(r) ==
  /\ At(r, "fail")
  /\ Notify(r, IF r \in aborted \/ current[r] \in {"rejected", "cancelled"} THEN "cancelled" ELSE "failed")
  /\ Goto(r, "close")
  /\ UNCHANGED <<request, checkpoint, review, active, launching, broker, resuming, aborted,
                 leases, cli, call, bounds>>

\* checkpoint.resume_blocked: the status stays what the log says.
Blocked(r) ==
  /\ At(r, "blocked") /\ Notify(r, "blocked") /\ Goto(r, "close")
  /\ UNCHANGED <<request, checkpoint, review, active, launching, broker, resuming, aborted,
                 leases, cli, call, bounds>>

Close(r) ==
  /\ At(r, "close")
  /\ leases' = leases \ {r} /\ Goto(r, "leave")
  /\ UNCHANGED <<files, active, launching, view, broker, resuming, aborted, cli, call, bounds>>

Leave(r) ==
  /\ At(r, "leave")
  /\ Forget(r) /\ Goto(r, "idle")
  /\ UNCHANGED <<files, launching, leases, cli, call, bounds>>

\* The process stops; what it had written stays.
Crash ==
  /\ crashes < MaxCrashes
  /\ crashes' = crashes + 1
  /\ active' = {} /\ launching' = {} /\ resuming' = {} /\ aborted' = {} /\ leases' = {}
  /\ view' = [r \in Runs |-> "none"]
  /\ current' = [r \in Runs |-> "none"] /\ waiter' = [r \in Runs |-> "none"]
  /\ exec' = [r \in Runs |-> "idle"] /\ call' = [c \in Calls |-> NoCall]
  /\ UNCHANGED <<files, cli, launches, approvedByUser>>

-----------------------------------------------------------------------------
CallStep(c) ==
  \/ Scan(c) \/ Mark(c) \/ Listed(c)
  \/ ReplayScanned(c) \/ Replay(c) \/ ReplayRefused(c) \/ ClaimRefused(c) \/ Claimed(c) \/ Persist(c) \/ Link(c) \/ LaunchFails(c)
  \/ ResumeClaim(c) \/ ResumeRefused(c) \/ ResumeLoad(c) \/ ResumeUnavailable(c)
  \/ Enter(c) \/ Provider(c) \/ NoProvider(c) \/ Own(c) \/ FailStart(c) \/ QuitStart(c)
  \/ ReadReview(c) \/ WriteReview(c) \/ AuditReview(c) \/ SettleReview(c)

RunStep(r) ==
  \/ Started(r) \/ PlanCreated(r) \/ CheckpointCreated(r) \/ Throws(r) \/ Inspected(r)
  \/ Prepare(r) \/ Settled(r) \/ Ask(r) \/ Answered(r) \/ Resumed(r)
  \/ Fails(r) \/ Blocked(r) \/ Close(r) \/ Leave(r)

Next ==
  \/ \E c \in Calls : List(c) \/ Recover(c) \/ Start(c) \/ Decide(c) \/ Cancel(c) \/ CallStep(c)
  \/ \E r \in Runs : RunStep(r) \/ Finish(r)
  \/ Cli \/ Crash

\* Every await ends; the work of a Run that was not cancelled may take for ever.
Fairness ==
  /\ \A c \in Calls : WF_vars(CallStep(c))
  /\ \A r \in Runs : WF_vars(RunStep(r)) /\ WF_vars(r \in aborted /\ Finish(r))

Spec == Init /\ [][Next]_vars

FairSpec == Spec /\ Fairness

-----------------------------------------------------------------------------
(* Properties.                                                             *)

\* The data stays within its types.
TypeOK ==
  /\ log \in [Runs -> Logs] /\ request \subseteq Runs /\ checkpoint \subseteq Runs
  /\ review \in [Runs -> Reviews]
  /\ active \subseteq Runs /\ launching \subseteq Runs /\ view \in [Runs -> Statuses]
  /\ current \in [Runs -> Reviews] /\ waiter \in [Runs -> Decisions] /\ exec \in [Runs -> Phases]
  /\ resuming \subseteq Runs /\ aborted \subseteq Runs
  /\ leases \subseteq Runs \cup Calls /\ cli \in BOOLEAN /\ call \in [Calls -> CallStates]
  /\ crashes \in 0..MaxCrashes /\ approvedByUser \subseteq Runs

InFlight(steps) == {c \in Calls : call[c].at \in steps}

\* What the manager keeps is what is under way, whichever way each call and each
\* Run goes: a mark of launching for a call that is about to make its Run active,
\* an entry for a Run whose workflow (or whose failing start) goes on, and the
\* lease for these and for the calls that read or change the workspace.  So when
\* nothing is under way isIdle holds and another process gets the workspace.
NothingLeaks ==
  /\ launching = {call[c].found : c \in InFlight(Launching)}
  /\ active = {r \in Runs : exec[r] # "idle"} \cup {call[c].found : c \in InFlight(Launched)}
  /\ leases = {r \in Runs : exec[r] \notin {"idle", "leave"}}
       \cup {call[c].found : c \in {d \in InFlight({"persist", "link", "enter"} \cup Launched) :
                                      ~Is(d, "resume", "enter")}}
       \cup {c \in InFlight(Steps) : call[c].kind \in {"list", "restart"}}
       \cup {c \in InFlight({"scan", "load", "enter"}) : call[c].kind = "resume"}
  /\ cli => leases = {}

\* maxActiveRuns holds for Runs that are active and Runs that are being launched,
\* by start, restart or resume, however these calls interleave.
CapacityRespected == Cardinality(active \cup launching) <= MaxActive

\* The manager's books: nothing is held that nobody uses, nothing is used that is
\* not held, and no more of it than allowed.
BooksAreKept == NothingLeaks /\ CapacityRespected

\* A Run that must be reviewed works only on a plan whose approval the user gave
\* and the log has, also when the process stopped between the click, the file
\* and the log, and when a cancellation raced the approval.
WorkIsApproved ==
  PlanReview = "required" =>
    \A r \in Runs : exec[r] \in {"restore", "revive", "work"} =>
      r \in approvedByUser /\ "approved" \in log[r].audited

\* Every cancellation ends the Run, in whatever phase it is and whatever becomes
\* of the plan review it meets.
CancelEnds == \A c \in Calls, r \in Runs : (call[c].kind = "cancel" /\ call[c].run = r) ~> r \notin active

\* docs/M3.4-SPEC.md: when the process exits again after a resume, the next
\* reconciliation marks the Run interrupted again, and a blocked resume leaves the
\* interrupted history and the replay.  So once a list has reconciled, no Run that
\* is not active reads as planning, running or waiting.
ReconciledRunsAreSettled ==
  \A c \in Calls : Scanned(c) =>
    \A r \in request \ (active \cup launching) : log[r].status \in Terminal
=============================================================================
