------------------------- MODULE DesktopRuns_proofs -------------------------
(***************************************************************************)
(* Theorems about DesktopRuns, for any number of Runs, calls, crashes and  *)
(* launches.                                                               *)
(***************************************************************************)
EXTENDS DesktopRuns, FiniteSetTheorems, TLAPS

-----------------------------------------------------------------------------
(* The inductive invariants.                                               *)

\* The Run a call launches, from its claim to its workflow or its failing start.
Carries(c) == call[c].at \in Launching \cup Launched

\* Which calls get where, and what they have with them.
CallAt(c) ==
  /\ call[c].at \in {"claim", "persist"} => call[c].kind \in {"start", "restart"}
  /\ call[c].at \in {"link", "check"} => call[c].kind = "restart"
  /\ call[c].at = "load" => call[c].kind = "resume"
  /\ call[c].at = "scan" => call[c].kind \in {"list", "restart", "resume"}
  /\ call[c].at \in {"enter"} \cup Launched => call[c].kind \in {"start", "restart", "resume"}
  /\ call[c].at \in Deciding => call[c].kind \in {"cancel", "approve", "reject"} /\ call[c].run \in Runs
  /\ Carries(c) => call[c].found \in Runs /\ (call[c].kind = "resume" => call[c].found = call[c].run)
  /\ call[c].kind \in {"restart", "resume"} => call[c].run \in request
  /\ call[c].at = "none" <=> call[c].kind = "none"

\* No two calls launch the same Run; who is about to resume one is the only one that
\* is, and nobody launches it.
Resumes(c) == call[c].kind = "resume" /\ call[c].at = "scan"
CallsApart(c, d) ==
  /\ Carries(c) /\ Carries(d) => call[c].found # call[d].found
  /\ Resumes(c) /\ Resumes(d) => call[c].run # call[d].run
  /\ Resumes(c) /\ call[d].at \in Launching => call[d].found # call[c].run

\* The calls and Runs that have a lease.
HoldsIt(c) ==
  \/ call[c].kind \in {"list", "restart"} /\ call[c].at # "none"
  \/ call[c].kind = "resume" /\ call[c].at \in {"scan", "load", "enter"}
HoldsForRun(c) ==
  call[c].at \in {"persist", "link", "enter"} \cup Launched /\ ~Is(c, "resume", "enter")

\* One call's and one Run's part of the books.
CallBooked(c) ==
  /\ c \in leases <=> HoldsIt(c)
  /\ call[c].at \in Launching => call[c].found \in launching /\ call[c].found \notin active
  /\ call[c].at \in Launched => call[c].found \in active /\ call[c].found \notin launching
  /\ Carries(c) => exec[call[c].found] = "idle"
  /\ HoldsForRun(c) => call[c].found \in leases
RunBooked(r) ==
  /\ r \in launching => \E c \in Calls : call[c].at \in Launching /\ call[c].found = r
  /\ exec[r] # "idle" => r \in active /\ r \notin launching
  /\ r \in active => exec[r] # "idle" \/ \E c \in Calls : call[c].at \in Launched /\ call[c].found = r
  /\ exec[r] \notin {"idle", "leave"} => r \in leases
  /\ r \in leases => exec[r] \notin {"idle", "leave"} \/ \E c \in Calls : HoldsForRun(c) /\ call[c].found = r

BooksInv ==
  /\ \A c \in Calls : CallAt(c) /\ CallBooked(c)
  /\ \A c, d \in Calls : c # d => CallsApart(c, d)
  /\ \A r \in Runs : RunBooked(r)
  /\ cli => leases = {}

\* The Runs that are counted.
CountInv == IsFiniteSet(active) /\ IsFiniteSet(launching) /\ CapacityRespected

\* The user's approval: before the file, before the log, before the Run goes on.
CallApproves(c) ==
  call[c].kind = "approve" =>
    /\ call[c].run \in approvedByUser
    /\ call[c].at = "settle" => "approved" \in log[call[c].run].audited
RunApproved(r) ==
  /\ review[r] = "approved" => r \in approvedByUser
  /\ waiter[r] = "go" \/ (PlanReview = "required" /\ exec[r] \in {"restore", "revive", "work"}) =>
       r \in approvedByUser /\ "approved" \in log[r].audited

ApprovalInv == (\A c \in Calls : CallApproves(c)) /\ \A r \in Runs : RunApproved(r)


-----------------------------------------------------------------------------
(* What the operators of the model do.                                     *)

Events == Lifecycle \cup {"planned", "planApproved", "planRejected", "reviewRequested", "checkpointed",
                          "blocked", "restarted"}

\* One event more: what was audited stays, and an approval is.
LEMMA ReadFacts ==
  ASSUME NEW l \in Logs, NEW event \in Events
  PROVE  /\ Read(l, event) \in Logs /\ l.audited \subseteq Read(l, event).audited
         /\ event = "planApproved" => "approved" \in Read(l, event).audited
<1>1. Project(l.status, event) \in Statuses
  BY DEF Project, Logs, Statuses, Terminal
<1>2. (IF event \in Lifecycle THEN event ELSE l.last) \in Lifecycle \cup {"none"}
  BY DEF Logs
<1>3. (l.replayed \/ event = "restarted") \in BOOLEAN
  OBVIOUS
<1> DEFINE audited == CASE event = "planApproved" -> l.audited \cup {"approved"}
                        [] event = "planRejected" -> l.audited \cup {"rejected", "cancelled"}
                        [] OTHER -> l.audited
<1>4. /\ audited \in SUBSET Reviews /\ l.audited \subseteq audited
      /\ event = "planApproved" => "approved" \in audited
  BY DEF Logs, Reviews
<1>5. Read(l, event) = [l EXCEPT !.status = Project(l.status, event),
                                 !.last = IF event \in Lifecycle THEN event ELSE l.last,
                                 !.replayed = l.replayed \/ event = "restarted",
                                 !.audited = audited]
  BY DEF Read
<1>6. l \in [status : Statuses, last : Lifecycle \cup {"none"}, replayed : BOOLEAN, audited : SUBSET Reviews]
  BY DEF Logs
<1> HIDE DEF audited
<1>7. Read(l, event).audited = audited
  BY <1>5, <1>6
<1>8. Read(l, event) \in Logs
  BY <1>1, <1>2, <1>3, <1>4, <1>5, <1>6 DEF Logs
<1> QED
  BY <1>4, <1>7, <1>8


\* What an append does to the logs.
LEMMA AppendFacts ==
  ASSUME log \in [Runs -> Logs], NEW r \in Runs, NEW event \in Events, Append(r, event)
  PROVE  /\ log' \in [Runs -> Logs] /\ \A s \in Runs : log[s].audited \subseteq log'[s].audited
         /\ event = "planApproved" => "approved" \in log'[r].audited
<1>1. log[r] \in Logs
  OBVIOUS
<1>2. /\ Read(log[r], event) \in Logs /\ log[r].audited \subseteq Read(log[r], event).audited
      /\ event = "planApproved" => "approved" \in Read(log[r], event).audited
  BY <1>1, ReadFacts
<1>3. log' = [log EXCEPT ![r] = Read(log[r], event)]
  BY DEF Append
<1> QED
  BY <1>2, <1>3

\* What a notification does to logs and views.
LEMMA NotifyFacts ==
  ASSUME log \in [Runs -> Logs], view \in [Runs -> Statuses], NEW r \in Runs, NEW event \in Events,
         Notify(r, event)
  PROVE  /\ log' \in [Runs -> Logs] /\ \A s \in Runs : log[s].audited \subseteq log'[s].audited
         /\ event = "planApproved" => "approved" \in log'[r].audited
         /\ view' \in [Runs -> Statuses]
<1>1. /\ log' \in [Runs -> Logs] /\ \A s \in Runs : log[s].audited \subseteq log'[s].audited
      /\ event = "planApproved" => "approved" \in log'[r].audited
  BY AppendFacts DEF Notify
<1>2. log'[r].status \in Statuses
  BY <1>1 DEF Logs
<1> QED
  BY <1>1, <1>2 DEF Notify

\* After the audit of an approval the log has it, whether it had it before or not.
LEMMA AuditFacts ==
  ASSUME log \in [Runs -> Logs], view \in [Runs -> Statuses], NEW r \in Runs, NEW status \in Reviews,
         Audit(r, status)
  PROVE  /\ log' \in [Runs -> Logs] /\ \A s \in Runs : log[s].audited \subseteq log'[s].audited
         /\ status = "approved" => "approved" \in log'[r].audited
         /\ view' \in [Runs -> Statuses]
<1>1. CASE status \in log[r].audited
  BY <1>1 DEF Audit
<1>2. CASE status \notin log[r].audited
  <2> DEFINE event == IF status = "approved" THEN "planApproved" ELSE "planRejected"
  <2>1. event \in Events /\ (status = "approved" => event = "planApproved")
    BY DEF Events
  <2>2. /\ Append(r, event)
        /\ view' = IF r \in active THEN [view EXCEPT ![r] = Project(@, event)] ELSE view
    BY <1>2 DEF Audit
  <2>3. \A s \in Statuses : Project(s, event) \in Statuses
    BY <2>1 DEF Events, Project, Statuses, Terminal
  <2> HIDE DEF event
  <2>4. view' \in [Runs -> Statuses]
    BY <2>2, <2>3
  <2> QED
    BY <2>1, <2>2, <2>4, AppendFacts
<1> QED
  BY <1>1, <1>2

\* A call goes on, begins or returns: the others are where they were.
LEMMA StepFacts ==
  ASSUME call \in [Calls -> CallStates], NEW c \in Calls, NEW at \in Steps \cup {"none"}, Step(c, at)
  PROVE  /\ call' \in [Calls -> CallStates] /\ \A d \in Calls \ {c} : call'[d] = call[d]
         /\ call'[c].at = at /\ call'[c].kind = call[c].kind /\ call'[c].run = call[c].run
         /\ call'[c].found = call[c].found
BY DEF Step, CallStates

\* What it means for a call to return.
LEMMA ReturnFacts ==
  ASSUME call \in [Calls -> CallStates], NEW c \in Calls, Return(c)
  PROVE  /\ call' \in [Calls -> CallStates] /\ \A d \in Calls \ {c} : call'[d] = call[d]
         /\ call'[c].at = "none" /\ call'[c].kind = "none"
BY DEF Return, CallStates, NoCall

\* What it means for a call to find a Run.
LEMMA FoundFacts ==
  ASSUME call \in [Calls -> CallStates], NEW c \in Calls, NEW r \in Runs \cup {NoRun},
         call' = [call EXCEPT ![c].found = r]
  PROVE  /\ call' \in [Calls -> CallStates] /\ \A d \in Calls \ {c} : call'[d] = call[d]
         /\ call'[c].at = call[c].at /\ call'[c].kind = call[c].kind /\ call'[c].run = call[c].run
         /\ call'[c].found = r
BY DEF CallStates

\* What it means for a call to begin.
LEMMA BeginFacts ==
  ASSUME call \in [Calls -> CallStates], NEW c \in Calls, NEW kind \in Kinds, NEW r \in Runs \cup {NoRun},
         NEW at \in Steps, Begin(c, kind, r, at)
  PROVE  /\ call' \in [Calls -> CallStates] /\ \A d \in Calls \ {c} : call'[d] = call[d]
         /\ call'[c].at = at /\ call'[c].kind = kind /\ call'[c].run = r /\ call[c] = NoCall
BY DEF Begin, CallStates, NoCall


-----------------------------------------------------------------------------
(* The types.                                                              *)

\* What the calls carry are Runs: a launching call has one, a deciding one too.
CarriesRun(c) ==
  /\ call[c].at \in Launching \cup Launched => call[c].found \in Runs
  /\ call[c].at \in Deciding \cup {"link"} \/ call[c].kind \in {"restart", "resume", "cancel", "approve", "reject"} => call[c].run \in Runs
  /\ call[c].at = "none" \/ call[c].at = "scan" \/ call[c].kind # "list"

CallsTyped == call \in [Calls -> CallStates] /\ \A c \in Calls : CarriesRun(c)
FilesTyped == log \in [Runs -> Logs] /\ request \subseteq Runs /\ checkpoint \subseteq Runs
FlowTyped ==
  /\ review \in [Runs -> Reviews] /\ view \in [Runs -> Statuses] /\ current \in [Runs -> Reviews]
  /\ waiter \in [Runs -> Decisions] /\ exec \in [Runs -> Phases]
SetsTyped ==
  /\ active \subseteq Runs /\ launching \subseteq Runs /\ resuming \subseteq Runs /\ aborted \subseteq Runs
  /\ leases \subseteq Runs \cup Calls /\ approvedByUser \subseteq Runs
  /\ cli \in BOOLEAN /\ crashes \in 0..MaxCrashes
Typed == CallsTyped /\ FilesTyped /\ FlowTyped /\ SetsTyped

\* The types hold at the start.
LEMMA TypeInit == Init => Typed
<1> SUFFICES ASSUME Init PROVE Typed
  OBVIOUS
<1>1. NoCall \in CallStates
  BY DEF NoCall, CallStates
<1>2. log \in [Runs -> Logs]
  BY DEF Init, Logs, Statuses, Terminal
<1>3. CallsTyped
  BY <1>1 DEF Init, CallsTyped, CarriesRun, NoCall, Launching, Launched, Deciding
<1>4. FlowTyped
  BY DEF Init, FlowTyped, Reviews, Statuses, Decisions, Phases
<1>5. SetsTyped
  <2>1. cli \in BOOLEAN
    BY DEF Init
  <2>2. crashes \in 0..MaxCrashes
    BY DesktopAssumption DEF Init
  <2> QED
    BY <2>1, <2>2 DEF Init, SetsTyped
<1> QED
  BY <1>2, <1>3, <1>4, <1>5 DEF Typed, FilesTyped, Init

\* How a call moves, whatever else the step does.
Alone(c) == call' \in [Calls -> CallStates] /\ \A d \in Calls \ {c} : call'[d] = call[d]
Onward(c, at) ==
  /\ Alone(c) /\ call'[c].at = at /\ call'[c].found = call[c].found
  /\ call'[c].kind = call[c].kind /\ call'[c].run = call[c].run
Returned(c) == Alone(c) /\ call'[c].at = "none" /\ call'[c].kind = "none"
Begun(c, kind, r, at) ==
  /\ Alone(c) /\ call[c] = NoCall
  /\ call'[c].at = at /\ call'[c].kind = kind /\ call'[c].run = r
Claims(c, kind, r, at) ==
  /\ Alone(c) /\ call'[c].at = at /\ call'[c].found = r
  /\ call'[c].kind = kind /\ call'[c].run = call[c].run

\* Where each step of a call takes it, with the other calls left alone.
LEMMA CallMoves ==
  ASSUME Typed, NEW c \in Calls
  PROVE
    /\ Listed(c) => Returned(c)
    /\ ReplayRefused(c) => Returned(c)
    /\ ClaimRefused(c) => Returned(c)
    /\ LaunchFails(c) => Returned(c)
    /\ ResumeRefused(c) => Returned(c)
    /\ ResumeUnavailable(c) => Returned(c)
    /\ Provider(c) => Returned(c)
    /\ QuitStart(c) => Returned(c)
    /\ SettleReview(c) => Returned(c)
    /\ ReplayScanned(c) => Onward(c, "check")
    /\ Claimed(c) => Onward(c, "persist")
    /\ Link(c) => Onward(c, "enter")
    /\ ResumeLoad(c) => Onward(c, "enter")
    /\ Enter(c) => Onward(c, "provider")
    /\ NoProvider(c) => Onward(c, "own")
    /\ Own(c) => Onward(c, "fail")
    /\ FailStart(c) => Onward(c, "quit")
    /\ WriteReview(c) => Onward(c, "audit")
    /\ AuditReview(c) => Onward(c, "settle")
    /\ Persist(c) => Onward(c, IF call[c].kind = "restart" THEN "link" ELSE "enter")
    /\ List(c) => Begun(c, "list", NoRun, "scan")
    /\ Scan(c) \/ Mark(c) => \E r \in Runs \cup {NoRun} : Claims(c, call[c].kind, r, "scan")
    /\ Recover(c) => \E r \in Offered, kind \in {"restart", "resume"} :
         /\ Begun(c, kind, r, "scan") /\ (kind = "resume" => MayCall(r, {"resume"}, "resume"))
         /\ ("scan" \in Overlaps \/ \A e \in Calls : call[e].at # "scan")
    /\ Decide(c) => \E r \in active, kind \in {"approve", "reject"} :
         Begun(c, kind, r, "read") /\ (kind = "approve" => r \in approvedByUser')
    /\ Cancel(c) => UNCHANGED call \/ \E r \in active : Begun(c, "cancel", r, "read")
    /\ ReadReview(c) => Onward(c, "write") \/ Onward(c, "audit") \/ Returned(c)
    /\ Start(c) => \E r \in Runs : Fresh(r) /\ Claims(c, "start", r, "claim") /\ launching' = launching \cup {r}
    /\ Replay(c) => \E r \in Runs : Fresh(r) /\ Claims(c, "restart", r, "claim") /\ launching' = launching \cup {r}
    /\ ResumeClaim(c) => call[c].run \in Runs /\ Claims(c, "resume", call[c].run, "load")
<1>1. Listed(c) => Returned(c)
  BY ReturnFacts DEF Listed, Unlock, Scanned, Is, Returned, Alone, Typed, CallsTyped, CallStates,
     Steps, Launching, Launched, Deciding, Kinds
<1>2. ReplayRefused(c) => Returned(c)
  BY ReturnFacts DEF ReplayRefused, Unlock, Is, Is, Returned, Alone, Typed, CallsTyped,
     CallStates, Steps, Launching, Launched, Deciding, Kinds
<1>3. ClaimRefused(c) => Returned(c)
  BY ReturnFacts DEF ClaimRefused, Unlock, Is, Returned, Alone, Typed, CallsTyped, CallStates,
     Steps, Launching, Launched, Deciding, Kinds
<1>4. LaunchFails(c) => Returned(c)
  BY ReturnFacts DEF LaunchFails, Is, Returned, Alone, Typed, CallsTyped, CallStates, Steps,
     Launching, Launched, Deciding, Kinds
<1>5. ResumeRefused(c) => Returned(c)
  BY ReturnFacts DEF ResumeRefused, Unlock, Scanned, Is, Returned, Alone, Typed, CallsTyped,
     CallStates, Steps, Launching, Launched, Deciding, Kinds
<1>6. ResumeUnavailable(c) => Returned(c)
  BY ReturnFacts DEF ResumeUnavailable, Unlock, Is, Returned, Alone, Typed, CallsTyped,
     CallStates, Steps, Launching, Launched, Deciding, Kinds
<1>7. Provider(c) => Returned(c)
  BY ReturnFacts DEF Provider, Unlock, Is, Returned, Alone, Typed, CallsTyped, CallStates, Steps,
     Launching, Launched, Deciding, Kinds
<1>8. QuitStart(c) => Returned(c)
  BY ReturnFacts DEF QuitStart, Forget, Is, Returned, Alone, Typed, CallsTyped, CallStates, Steps,
     Launching, Launched, Deciding, Kinds
<1>9. SettleReview(c) => Returned(c)
  BY ReturnFacts DEF SettleReview, Verdict, Is, Returned, Alone, Typed, CallsTyped, CallStates,
     Steps, Launching, Launched, Deciding, Kinds
<1>10. ReplayScanned(c) => Onward(c, "check")
  BY StepFacts DEF ReplayScanned, Scanned, Is, Onward, Alone, Typed, CallsTyped, CallStates,
     Steps, Launching, Launched, Deciding, Kinds
<1>11. Claimed(c) => Onward(c, "persist")
  BY StepFacts DEF Claimed, Is, Onward, Alone, Typed, CallsTyped, CallStates, Steps, Launching,
     Launched, Deciding, Kinds
<1>12. Link(c) => Onward(c, "enter")
  BY StepFacts DEF Link, Is, Onward, Alone, Typed, CallsTyped, CallStates, Steps, Launching,
     Launched, Deciding, Kinds
<1>13. ResumeLoad(c) => Onward(c, "enter")
  BY StepFacts DEF ResumeLoad, Is, Onward, Alone, Typed, CallsTyped, CallStates, Steps, Launching,
     Launched, Deciding, Kinds
<1>14. Enter(c) => Onward(c, "provider")
  BY StepFacts DEF Enter, Is, Onward, Alone, Typed, CallsTyped, CallStates, Steps, Launching,
     Launched, Deciding, Kinds
<1>15. NoProvider(c) => Onward(c, "own")
  BY StepFacts DEF NoProvider, Is, Onward, Alone, Typed, CallsTyped, CallStates, Steps, Launching,
     Launched, Deciding, Kinds
<1>16. Own(c) => Onward(c, "fail")
  BY StepFacts DEF Own, Is, Onward, Alone, Typed, CallsTyped, CallStates, Steps, Launching,
     Launched, Deciding, Kinds
<1>17. FailStart(c) => Onward(c, "quit")
  BY StepFacts DEF FailStart, Is, Onward, Alone, Typed, CallsTyped, CallStates, Steps, Launching,
     Launched, Deciding, Kinds
<1>18. WriteReview(c) => Onward(c, "audit")
  BY StepFacts DEF WriteReview, Verdict, Is, Onward, Alone, Typed, CallsTyped, CallStates, Steps,
     Launching, Launched, Deciding, Kinds
<1>19. AuditReview(c) => Onward(c, "settle")
  BY StepFacts DEF AuditReview, Verdict, Is, Onward, Alone, Typed, CallsTyped, CallStates, Steps,
     Launching, Launched, Deciding, Kinds
<1>20. Persist(c) => Onward(c, IF call[c].kind = "restart" THEN "link" ELSE "enter")
  BY StepFacts, SMTT(30) DEF Persist, Is, Onward, Alone, Typed, CallsTyped, CallStates, Steps, Launching,
     Launched, Deciding, Kinds
<1>21. List(c) => Begun(c, "list", NoRun, "scan")
  BY BeginFacts DEF List, Lock, Is, Begun, Alone, Typed, CallsTyped, CallStates, Steps, Launching,
     Launched, Deciding, Kinds
<1>22. Scan(c) \/ Mark(c) => \E r \in Runs \cup {NoRun} : Claims(c, call[c].kind, r, "scan")
  BY FoundFacts DEF Scan, Mark, Is, Claims, Alone, Typed, CallsTyped, CallStates, Steps,
     Launching, Launched, Deciding, Kinds
<1>23. Recover(c) => \E r \in Offered, kind \in {"restart", "resume"} :
         /\ Begun(c, kind, r, "scan") /\ (kind = "resume" => MayCall(r, {"resume"}, "resume"))
         /\ ("scan" \in Overlaps \/ \A e \in Calls : call[e].at # "scan")
  <2> SUFFICES ASSUME Recover(c)
               PROVE  \E r \in Offered, kind \in {"restart", "resume"} :
                        /\ Begun(c, kind, r, "scan") /\ (kind = "resume" => MayCall(r, {"resume"}, "resume"))
                        /\ "scan" \in Overlaps \/ \A e \in Calls : call[e].at # "scan"
    OBVIOUS
  <2>1. PICK r \in Offered, kind \in {"restart", "resume"} :
          /\ Begin(c, kind, r, "scan") /\ (kind = "resume" => MayCall(r, {"resume"}, "resume"))
          /\ "scan" \in Overlaps \/ \A e \in Calls : call[e].at # "scan"
    BY DEF Recover, Lock
  <2>2. Begun(c, kind, r, "scan")
    BY <2>1, BeginFacts DEF Kinds, Steps, Begun, Alone, Typed, CallsTyped, FilesTyped, Offered
  <2> QED
    BY <2>1, <2>2
<1>24. Decide(c) => \E r \in active, kind \in {"approve", "reject"} :
         Begun(c, kind, r, "read") /\ (kind = "approve" => r \in approvedByUser')
  <2> SUFFICES ASSUME Decide(c)
               PROVE  \E r \in active, kind \in {"approve", "reject"} :
                        Begun(c, kind, r, "read") /\ (kind = "approve" => r \in approvedByUser')
    OBVIOUS
  <2>1. PICK r \in active, kind \in {"approve", "reject"} :
          /\ Begin(c, kind, r, "read")
          /\ approvedByUser' = IF kind = "approve" THEN approvedByUser \cup {r} ELSE approvedByUser
    BY DEF Decide
  <2>2. Begun(c, kind, r, "read")
    BY <2>1, BeginFacts DEF Kinds, Steps, Deciding, Begun, Alone, Typed, CallsTyped, SetsTyped
  <2> QED
    BY <2>1, <2>2
<1>25. Cancel(c) => UNCHANGED call \/ \E r \in active : Begun(c, "cancel", r, "read")
  <2> SUFFICES ASSUME Cancel(c), ~UNCHANGED call PROVE \E r \in active : Begun(c, "cancel", r, "read")
    OBVIOUS
  <2>1. PICK r \in active : Begin(c, "cancel", r, "read")
    BY DEF Cancel
  <2>2. Begun(c, "cancel", r, "read")
    BY <2>1, BeginFacts DEF Kinds, Steps, Deciding, Begun, Alone, Typed, CallsTyped, SetsTyped
  <2> QED
    BY <2>2
<1>26. ReadReview(c) => Onward(c, "write") \/ Onward(c, "audit") \/ Returned(c)
  <2> SUFFICES ASSUME ReadReview(c) PROVE Onward(c, "write") \/ Onward(c, "audit") \/ Returned(c)
    OBVIOUS
  <2>1. Step(c, "write") \/ Step(c, "audit") \/ Return(c)
    BY DEF ReadReview, GiveUp
  <2> QED
    BY <2>1, StepFacts, ReturnFacts DEF Steps, Deciding, Onward, Returned, Alone, Typed, CallsTyped
<1>27. Start(c) => \E r \in Runs : Fresh(r) /\ Claims(c, "start", r, "claim") /\ launching' = launching \cup {r}
  <2> SUFFICES ASSUME Start(c)
               PROVE  \E r \in Runs : Fresh(r) /\ Claims(c, "start", r, "claim") /\ launching' = launching \cup {r}
    OBVIOUS
  <2>1. PICK r \in Runs : /\ Fresh(r) /\ launching' = launching \cup {r}
                          /\ call' = [call EXCEPT ![c].kind = "start", ![c].found = r, ![c].at = "claim"]
    BY DEF Start, Claim
  <2>2. "start" \in Kinds /\ "claim" \in Steps /\ call \in [Calls -> CallStates] /\ r \in Runs \cup {NoRun}
    BY DEF Kinds, Steps, Launching, Typed, CallsTyped
  <2>3. /\ call' \in [Calls -> CallStates] /\ \A d \in Calls \ {c} : call'[d] = call[d]
        /\ call'[c].at = "claim" /\ call'[c].kind = "start" /\ call'[c].run = call[c].run /\ call'[c].found = r
    BY <2>1, <2>2 DEF CallStates
  <2> QED
    BY <2>1, <2>3 DEF Claims, Alone
<1>28. Replay(c) => \E r \in Runs : Fresh(r) /\ Claims(c, "restart", r, "claim") /\ launching' = launching \cup {r}
  <2> SUFFICES ASSUME Replay(c)
               PROVE  \E r \in Runs : Fresh(r) /\ Claims(c, "restart", r, "claim") /\ launching' = launching \cup {r}
    OBVIOUS
  <2>1. PICK r \in Runs : /\ Fresh(r) /\ launching' = launching \cup {r}
                          /\ call' = [call EXCEPT ![c].kind = "restart", ![c].found = r, ![c].at = "claim"]
    BY DEF Replay, Claim
  <2>2. "restart" \in Kinds /\ "claim" \in Steps /\ call \in [Calls -> CallStates] /\ r \in Runs \cup {NoRun}
    BY DEF Kinds, Steps, Launching, Typed, CallsTyped
  <2>3. /\ call' \in [Calls -> CallStates] /\ \A d \in Calls \ {c} : call'[d] = call[d]
        /\ call'[c].at = "claim" /\ call'[c].kind = "restart" /\ call'[c].run = call[c].run /\ call'[c].found = r
    BY <2>1, <2>2 DEF CallStates
  <2> QED
    BY <2>1, <2>3 DEF Claims, Alone
<1>29. ResumeClaim(c) => call[c].run \in Runs /\ Claims(c, "resume", call[c].run, "load")
  <2> SUFFICES ASSUME ResumeClaim(c) PROVE call[c].run \in Runs /\ Claims(c, "resume", call[c].run, "load")
    OBVIOUS
  <2>1. call[c].at = "scan" /\ call[c].kind = "resume" /\ call[c].run \in Runs
    BY DEF ResumeClaim, Scanned, Typed, CallsTyped, CarriesRun
  <2> QED
    BY <2>1 DEF ResumeClaim, Typed, CallsTyped, CallStates, Steps, Launching, Claims, Alone
<1> QED
  BY <1>1, <1>2, <1>3, <1>4, <1>5, <1>6, <1>7, <1>8, <1>9, <1>10, <1>11, <1>12, <1>13, <1>14,
     <1>15, <1>16, <1>17, <1>18, <1>19, <1>20, <1>21, <1>22, <1>23, <1>24, <1>25, <1>26, <1>27,
     <1>28, <1>29

\* Every step keeps the types of the calls.
LEMMA CallTypes ==
  ASSUME Typed, [Next]_vars
  PROVE  CallsTyped'
<1> USE DesktopAssumption DEF Typed, CallsTyped, SetsTyped, files, broker, memory, bounds
<1>1. CASE UNCHANGED vars
  BY <1>1 DEF vars, CallsTyped, CarriesRun
<1>2. ASSUME NEW c \in Calls, List(c) PROVE CallsTyped'
  <2>1. Begun(c, "list", NoRun, "scan")
    BY <1>2, CallMoves
  <2> QED
    BY <1>2, <2>1 DEF List, Onward, Returned, Begun, Alone, CallsTyped, CarriesRun, Launching,
       Launched, Deciding, Is
<1>3. ASSUME NEW c \in Calls, Recover(c) PROVE CallsTyped'
  <2>1. PICK r \in Offered, kind \in {"restart", "resume"} :
          /\ Begun(c, kind, r, "scan") /\ (kind = "resume" => MayCall(r, {"resume"}, "resume"))
          /\ ("scan" \in Overlaps \/ \A e \in Calls : call[e].at # "scan")
    BY <1>3, CallMoves
  <2> QED
    BY <1>3, <2>1 DEF Onward, Returned, Begun, Claims, Alone, CallsTyped, CarriesRun, Launching,
       Launched, Deciding, NoCall, Offered, FilesTyped
<1>4. ASSUME NEW c \in Calls, Start(c) PROVE CallsTyped'
  <2>1. PICK r \in Runs : Fresh(r) /\ Claims(c, "start", r, "claim") /\ launching' = launching \cup {r}
    BY <1>4, CallMoves
  <2> QED
    BY <1>4, <2>1 DEF Onward, Returned, Begun, Claims, Alone, CallsTyped, CarriesRun, Launching,
       Launched, Deciding, NoCall, Start
<1>5. ASSUME NEW c \in Calls, Decide(c) PROVE CallsTyped'
  <2>1. PICK r \in active, kind \in {"approve", "reject"} :
          Begun(c, kind, r, "read") /\ (kind = "approve" => r \in approvedByUser')
    BY <1>5, CallMoves
  <2> QED
    BY <1>5, <2>1 DEF Onward, Returned, Begun, Claims, Alone, CallsTyped, CarriesRun, Launching,
       Launched, Deciding, NoCall, SetsTyped
<1>6. ASSUME NEW c \in Calls, Cancel(c) PROVE CallsTyped'
  <2>1. UNCHANGED call \/ \E r \in active : Begun(c, "cancel", r, "read")
    BY <1>6, CallMoves
  <2>2. CASE UNCHANGED call
    BY <2>2 DEF CallsTyped, CarriesRun
  <2>3. ASSUME NEW r \in active, Begun(c, "cancel", r, "read") PROVE CallsTyped'
    BY <2>3 DEF Begun, Alone, CallsTyped, CarriesRun, Launching, Launched, Deciding, NoCall, SetsTyped
  <2> QED
    BY <2>1, <2>2, <2>3
<1>7. ASSUME NEW c \in Calls, Scan(c) PROVE CallsTyped'
  <2>1. PICK r \in Runs \cup {NoRun} : Claims(c, call[c].kind, r, "scan")
    BY <1>7, CallMoves
  <2> QED
    BY <1>7, <2>1 DEF Scan, Claims, Alone, CallsTyped, CarriesRun, Launching, Launched, Deciding, Is
<1>8. ASSUME NEW c \in Calls, Mark(c) PROVE CallsTyped'
  <2>1. PICK r \in Runs \cup {NoRun} : Claims(c, call[c].kind, r, "scan")
    BY <1>8, CallMoves
  <2> QED
    BY <1>8, <2>1 DEF Mark, Claims, Alone, CallsTyped, CarriesRun, Launching, Launched, Deciding, Is
<1>9. ASSUME NEW c \in Calls, Listed(c) PROVE CallsTyped'
  <2>1. Returned(c)
    BY <1>9, CallMoves
  <2> QED
    BY <1>9, <2>1 DEF Listed, Onward, Returned, Begun, Alone, CallsTyped, CarriesRun, Launching,
       Launched, Deciding, Is
<1>10. ASSUME NEW c \in Calls, ReplayScanned(c) PROVE CallsTyped'
  <2>1. Onward(c, "check")
    BY <1>10, CallMoves
  <2> QED
    BY <1>10, <2>1 DEF ReplayScanned, Onward, Returned, Begun, Alone, CallsTyped, CarriesRun,
       Launching, Launched, Deciding, Is
<1>11. ASSUME NEW c \in Calls, Replay(c) PROVE CallsTyped'
  <2>1. PICK r \in Runs : Fresh(r) /\ Claims(c, "restart", r, "claim") /\ launching' = launching \cup {r}
    BY <1>11, CallMoves
  <2> QED
    BY <1>11, <2>1 DEF Onward, Returned, Begun, Claims, Alone, CallsTyped, CarriesRun, Launching,
       Launched, Deciding, NoCall, Replay, Is
<1>12. ASSUME NEW c \in Calls, ReplayRefused(c) PROVE CallsTyped'
  <2>1. Returned(c)
    BY <1>12, CallMoves
  <2> QED
    BY <1>12, <2>1 DEF ReplayRefused, Onward, Returned, Begun, Alone, CallsTyped, CarriesRun,
       Launching, Launched, Deciding, Is
<1>13. ASSUME NEW c \in Calls, ClaimRefused(c) PROVE CallsTyped'
  <2>1. Returned(c)
    BY <1>13, CallMoves
  <2> QED
    BY <1>13, <2>1 DEF ClaimRefused, Onward, Returned, Begun, Alone, CallsTyped, CarriesRun,
       Launching, Launched, Deciding, Is
<1>14. ASSUME NEW c \in Calls, Claimed(c) PROVE CallsTyped'
  <2>1. Onward(c, "persist")
    BY <1>14, CallMoves
  <2> QED
    BY <1>14, <2>1 DEF Claimed, Onward, Returned, Begun, Alone, CallsTyped, CarriesRun, Launching,
       Launched, Deciding, Is
<1>15. ASSUME NEW c \in Calls, Persist(c) PROVE CallsTyped'
  <2>1. Onward(c, IF call[c].kind = "restart" THEN "link" ELSE "enter")
    BY <1>15, CallMoves
  <2> QED
    BY <1>15, <2>1 DEF Persist, Onward, Returned, Begun, Alone, CallsTyped, CarriesRun, Launching,
       Launched, Deciding, Is
<1>16. ASSUME NEW c \in Calls, Link(c) PROVE CallsTyped'
  <2>1. Onward(c, "enter")
    BY <1>16, CallMoves
  <2> QED
    BY <1>16, <2>1 DEF Link, Onward, Returned, Begun, Alone, CallsTyped, CarriesRun, Launching,
       Launched, Deciding, Is
<1>17. ASSUME NEW c \in Calls, LaunchFails(c) PROVE CallsTyped'
  <2>1. Returned(c)
    BY <1>17, CallMoves
  <2> QED
    BY <1>17, <2>1 DEF LaunchFails, Onward, Returned, Begun, Alone, CallsTyped, CarriesRun,
       Launching, Launched, Deciding, Is
<1>18. ASSUME NEW c \in Calls, ResumeClaim(c) PROVE CallsTyped'
  <2>1. call[c].run \in Runs /\ Claims(c, "resume", call[c].run, "load")
    BY <1>18, CallMoves
  <2> QED
    BY <1>18, <2>1 DEF Onward, Returned, Begun, Claims, Alone, CallsTyped, CarriesRun, Launching,
       Launched, Deciding, NoCall, ResumeClaim
<1>19. ASSUME NEW c \in Calls, ResumeRefused(c) PROVE CallsTyped'
  <2>1. Returned(c)
    BY <1>19, CallMoves
  <2> QED
    BY <1>19, <2>1 DEF ResumeRefused, Onward, Returned, Begun, Alone, CallsTyped, CarriesRun,
       Launching, Launched, Deciding, Is
<1>20. ASSUME NEW c \in Calls, ResumeLoad(c) PROVE CallsTyped'
  <2>1. Onward(c, "enter")
    BY <1>20, CallMoves
  <2> QED
    BY <1>20, <2>1 DEF ResumeLoad, Onward, Returned, Begun, Alone, CallsTyped, CarriesRun,
       Launching, Launched, Deciding, Is
<1>21. ASSUME NEW c \in Calls, ResumeUnavailable(c) PROVE CallsTyped'
  <2>1. Returned(c)
    BY <1>21, CallMoves
  <2> QED
    BY <1>21, <2>1 DEF ResumeUnavailable, Onward, Returned, Begun, Alone, CallsTyped, CarriesRun,
       Launching, Launched, Deciding, Is
<1>22. ASSUME NEW c \in Calls, Enter(c) PROVE CallsTyped'
  <2>1. Onward(c, "provider")
    BY <1>22, CallMoves
  <2> QED
    BY <1>22, <2>1 DEF Enter, Onward, Returned, Begun, Alone, CallsTyped, CarriesRun, Launching,
       Launched, Deciding, Is
<1>23. ASSUME NEW c \in Calls, Provider(c) PROVE CallsTyped'
  <2>1. Returned(c)
    BY <1>23, CallMoves
  <2> QED
    BY <1>23, <2>1 DEF Provider, Onward, Returned, Begun, Alone, CallsTyped, CarriesRun,
       Launching, Launched, Deciding, Is
<1>24. ASSUME NEW c \in Calls, NoProvider(c) PROVE CallsTyped'
  <2>1. Onward(c, "own")
    BY <1>24, CallMoves
  <2> QED
    BY <1>24, <2>1 DEF NoProvider, Onward, Returned, Begun, Alone, CallsTyped, CarriesRun,
       Launching, Launched, Deciding, Is
<1>25. ASSUME NEW c \in Calls, Own(c) PROVE CallsTyped'
  <2>1. Onward(c, "fail")
    BY <1>25, CallMoves
  <2> QED
    BY <1>25, <2>1 DEF Own, Onward, Returned, Begun, Alone, CallsTyped, CarriesRun, Launching,
       Launched, Deciding, Is
<1>26. ASSUME NEW c \in Calls, FailStart(c) PROVE CallsTyped'
  <2>1. Onward(c, "quit")
    BY <1>26, CallMoves
  <2> QED
    BY <1>26, <2>1 DEF FailStart, Onward, Returned, Begun, Alone, CallsTyped, CarriesRun,
       Launching, Launched, Deciding, Is
<1>27. ASSUME NEW c \in Calls, QuitStart(c) PROVE CallsTyped'
  <2>1. Returned(c)
    BY <1>27, CallMoves
  <2> QED
    BY <1>27, <2>1 DEF QuitStart, Onward, Returned, Begun, Alone, CallsTyped, CarriesRun,
       Launching, Launched, Deciding, Is
<1>28. ASSUME NEW c \in Calls, ReadReview(c) PROVE CallsTyped'
  <2>1. Onward(c, "write") \/ Onward(c, "audit") \/ Returned(c)
    BY <1>28, CallMoves
  <2> QED
    BY <1>28, <2>1 DEF Onward, Returned, Begun, Claims, Alone, CallsTyped, CarriesRun, Launching,
       Launched, Deciding, NoCall, ReadReview
<1>29. ASSUME NEW c \in Calls, WriteReview(c) PROVE CallsTyped'
  <2>1. Onward(c, "audit")
    BY <1>29, CallMoves
  <2> QED
    BY <1>29, <2>1 DEF WriteReview, Onward, Returned, Begun, Alone, CallsTyped, CarriesRun,
       Launching, Launched, Deciding, Is
<1>30. ASSUME NEW c \in Calls, AuditReview(c) PROVE CallsTyped'
  <2>1. Onward(c, "settle")
    BY <1>30, CallMoves
  <2> QED
    BY <1>30, <2>1 DEF AuditReview, Onward, Returned, Begun, Alone, CallsTyped, CarriesRun,
       Launching, Launched, Deciding, Is
<1>31. ASSUME NEW c \in Calls, SettleReview(c) PROVE CallsTyped'
  <2>1. Returned(c)
    BY <1>31, CallMoves
  <2> QED
    BY <1>31, <2>1 DEF SettleReview, Onward, Returned, Begun, Alone, CallsTyped, CarriesRun,
       Launching, Launched, Deciding, Is
<1>32. ASSUME NEW r \in Runs, Started(r) PROVE CallsTyped'
  BY <1>32 DEF Started, CallsTyped, CarriesRun
<1>33. ASSUME NEW r \in Runs, PlanCreated(r) PROVE CallsTyped'
  BY <1>33 DEF PlanCreated, CallsTyped, CarriesRun
<1>34. ASSUME NEW r \in Runs, CheckpointCreated(r) PROVE CallsTyped'
  BY <1>34 DEF CheckpointCreated, CallsTyped, CarriesRun
<1>35. ASSUME NEW r \in Runs, Throws(r) PROVE CallsTyped'
  BY <1>35 DEF Throws, CallsTyped, CarriesRun
<1>36. ASSUME NEW r \in Runs, Inspected(r) PROVE CallsTyped'
  BY <1>36 DEF Inspected, CallsTyped, CarriesRun
<1>37. ASSUME NEW r \in Runs, Prepare(r) PROVE CallsTyped'
  BY <1>37 DEF Prepare, CallsTyped, CarriesRun
<1>38. ASSUME NEW r \in Runs, Settled(r) PROVE CallsTyped'
  BY <1>38 DEF Settled, CallsTyped, CarriesRun
<1>39. ASSUME NEW r \in Runs, Ask(r) PROVE CallsTyped'
  BY <1>39 DEF Ask, CallsTyped, CarriesRun
<1>40. ASSUME NEW r \in Runs, Answered(r) PROVE CallsTyped'
  BY <1>40 DEF Answered, CallsTyped, CarriesRun
<1>41. ASSUME NEW r \in Runs, Resumed(r) PROVE CallsTyped'
  BY <1>41 DEF Resumed, CallsTyped, CarriesRun
<1>42. ASSUME NEW r \in Runs, Fails(r) PROVE CallsTyped'
  BY <1>42 DEF Fails, CallsTyped, CarriesRun
<1>43. ASSUME NEW r \in Runs, Blocked(r) PROVE CallsTyped'
  BY <1>43 DEF Blocked, CallsTyped, CarriesRun
<1>44. ASSUME NEW r \in Runs, Close(r) PROVE CallsTyped'
  BY <1>44 DEF Close, CallsTyped, CarriesRun
<1>45. ASSUME NEW r \in Runs, Leave(r) PROVE CallsTyped'
  BY <1>45 DEF Leave, CallsTyped, CarriesRun
<1>46. ASSUME NEW r \in Runs, Finish(r) PROVE CallsTyped'
  BY <1>46 DEF Finish, CallsTyped, CarriesRun
<1>47. CASE Cli
  BY <1>47 DEF Cli, CallsTyped, CarriesRun
<1>48. CASE Crash
  <2>1. NoCall \in CallStates
    BY DEF NoCall, CallStates
  <2> QED
    BY <1>48, <2>1 DEF Crash, NoCall, CallsTyped, CarriesRun, Launching, Launched, Deciding
<1> QED
  BY <1>1, <1>2, <1>3, <1>4, <1>5, <1>6, <1>7, <1>8, <1>9, <1>10, <1>11, <1>12, <1>13, <1>14,
     <1>15, <1>16, <1>17, <1>18, <1>19, <1>20, <1>21, <1>22, <1>23, <1>24, <1>25, <1>26, <1>27,
     <1>28, <1>29, <1>30, <1>31, <1>32, <1>33, <1>34, <1>35, <1>36, <1>37, <1>38, <1>39, <1>40,
     <1>41, <1>42, <1>43, <1>44, <1>45, <1>46, <1>47, <1>48 DEF Next, CallStep, RunStep

LogsKept ==
  /\ log' \in [Runs -> Logs] /\ view' \in [Runs -> Statuses]
  /\ \A s \in Runs : log[s].audited \subseteq log'[s].audited

\* Every step keeps the types of the log and of the views, and what was audited.
LEMMA LogTypes ==
  ASSUME Typed, [Next]_vars
  PROVE  LogsKept
<1> USE DEF LogsKept, Typed, FilesTyped, FlowTyped, files, broker, memory, bounds
<1>1. CASE UNCHANGED vars
  BY <1>1 DEF vars
<1>2. ASSUME NEW c \in Calls, List(c) PROVE LogsKept
  BY <1>2 DEF List, Lock, Statuses, Terminal
<1>3. ASSUME NEW c \in Calls, Recover(c) PROVE LogsKept
  BY <1>3 DEF Recover, Lock, Offered, Statuses, Terminal
<1>4. ASSUME NEW c \in Calls, Start(c) PROVE LogsKept
  BY <1>4 DEF Start, Claim, Statuses, Terminal
<1>5. ASSUME NEW c \in Calls, Decide(c) PROVE LogsKept
  BY <1>5 DEF Decide, Kinds, Statuses, Terminal
<1>6. ASSUME NEW c \in Calls, Cancel(c) PROVE LogsKept
  BY <1>6 DEF Cancel, Abort, Kinds, Statuses, Terminal
<1>7. ASSUME NEW c \in Calls, Scan(c) PROVE LogsKept
  BY <1>7 DEF Scan, Unfinished, Statuses, Terminal
<1>8. ASSUME NEW c \in Calls, Mark(c) PROVE LogsKept
  <2>1. call[c].found \in Runs
    BY <1>8 DEF Mark, CallsTyped, CallStates
  <2>2. ("interrupted") \in Events
    BY <1>8 DEF Mark, Events, Lifecycle, Terminal
  <2>3. Append(call[c].found, "interrupted")
    BY <1>8 DEF Mark
  <2> QED
    BY <1>8, <2>1, <2>2, <2>3, AppendFacts DEF Mark
<1>9. ASSUME NEW c \in Calls, Listed(c) PROVE LogsKept
  BY <1>9 DEF Listed, Unlock, Scanned, Statuses, Terminal
<1>10. ASSUME NEW c \in Calls, ReplayScanned(c) PROVE LogsKept
  BY <1>10 DEF ReplayScanned, Scanned, Statuses, Terminal
<1>11. ASSUME NEW c \in Calls, Replay(c) PROVE LogsKept
  BY <1>11 DEF Replay, Claim, Is, Statuses, Terminal
<1>12. ASSUME NEW c \in Calls, ReplayRefused(c) PROVE LogsKept
  BY <1>12 DEF ReplayRefused, Unlock, Is, Statuses, Terminal
<1>13. ASSUME NEW c \in Calls, ClaimRefused(c) PROVE LogsKept
  BY <1>13 DEF ClaimRefused, Unlock, Statuses, Terminal
<1>14. ASSUME NEW c \in Calls, Claimed(c) PROVE LogsKept
  BY <1>14 DEF Claimed, Statuses, Terminal
<1>15. ASSUME NEW c \in Calls, Persist(c) PROVE LogsKept
  BY <1>15 DEF Persist, Statuses, Terminal
<1>16. ASSUME NEW c \in Calls, Link(c) PROVE LogsKept
  <2>1. call[c].run \in Runs
    BY <1>16 DEF Link, CallsTyped, CarriesRun, Launching, Launched, Deciding, At, Is
  <2>2. ("restarted") \in Events
    BY <1>16 DEF Link, Events, Lifecycle, Terminal
  <2>3. Append(call[c].run, "restarted")
    BY <1>16 DEF Link
  <2> QED
    BY <1>16, <2>1, <2>2, <2>3, AppendFacts DEF Link
<1>17. ASSUME NEW c \in Calls, LaunchFails(c) PROVE LogsKept
  BY <1>17 DEF LaunchFails, Statuses, Terminal
<1>18. ASSUME NEW c \in Calls, ResumeClaim(c) PROVE LogsKept
  BY <1>18 DEF ResumeClaim, Scanned, Crowded, Statuses, Terminal
<1>19. ASSUME NEW c \in Calls, ResumeRefused(c) PROVE LogsKept
  BY <1>19 DEF ResumeRefused, Unlock, Scanned, Statuses, Terminal
<1>20. ASSUME NEW c \in Calls, ResumeLoad(c) PROVE LogsKept
  BY <1>20 DEF ResumeLoad, Statuses, Terminal
<1>21. ASSUME NEW c \in Calls, ResumeUnavailable(c) PROVE LogsKept
  BY <1>21 DEF ResumeUnavailable, Unlock, Statuses, Terminal
<1>22. ASSUME NEW c \in Calls, Enter(c) PROVE LogsKept
  BY <1>22 DEF Enter, Statuses, Terminal
<1>23. ASSUME NEW c \in Calls, Provider(c) PROVE LogsKept
  BY <1>23 DEF Provider, Unlock, Statuses, Terminal
<1>24. ASSUME NEW c \in Calls, NoProvider(c) PROVE LogsKept
  BY <1>24 DEF NoProvider, Statuses, Terminal
<1>25. ASSUME NEW c \in Calls, Own(c) PROVE LogsKept
  <2>1. call[c].found \in Runs
    BY <1>25 DEF Own, CallsTyped, CarriesRun, Launching, Launched, Deciding, At, Is
  <2>2. (IF call[c].kind = "resume" THEN "resumed" ELSE "started") \in Events
    BY <1>25 DEF Own, Events, Lifecycle, Terminal
  <2>3. Notify(call[c].found, IF call[c].kind = "resume" THEN "resumed" ELSE "started")
    BY <1>25 DEF Own
  <2> QED
    BY <1>25, <2>1, <2>2, <2>3, NotifyFacts
<1>26. ASSUME NEW c \in Calls, FailStart(c) PROVE LogsKept
  <2>1. call[c].found \in Runs
    BY <1>26 DEF FailStart, CallsTyped, CarriesRun, Launching, Launched, Deciding, At, Is
  <2>2. ("failed") \in Events
    BY <1>26 DEF FailStart, Events, Lifecycle, Terminal
  <2>3. Notify(call[c].found, "failed")
    BY <1>26 DEF FailStart
  <2> QED
    BY <1>26, <2>1, <2>2, <2>3, NotifyFacts
<1>27. ASSUME NEW c \in Calls, QuitStart(c) PROVE LogsKept
  BY <1>27 DEF QuitStart, Forget, Statuses, Terminal
<1>28. ASSUME NEW c \in Calls, ReadReview(c) PROVE LogsKept
  BY <1>28 DEF ReadReview, GiveUp, Abort, Verdict, Statuses, Terminal
<1>29. ASSUME NEW c \in Calls, WriteReview(c) PROVE LogsKept
  BY <1>29 DEF WriteReview, Verdict, Statuses, Terminal
<1>30. ASSUME NEW c \in Calls, AuditReview(c) PROVE LogsKept
  <2>1. call[c].run \in Runs
    BY <1>30 DEF AuditReview, CallsTyped, CarriesRun, Launching, Launched, Deciding, At, Is
  <2>2. (Verdict(c)) \in Reviews
    BY <1>30, <2>1 DEF AuditReview, Verdict, Reviews, FlowTyped
  <2>3. Audit(call[c].run, Verdict(c))
    BY <1>30 DEF AuditReview
  <2> QED
    BY <1>30, <2>1, <2>2, <2>3, AuditFacts
<1>31. ASSUME NEW c \in Calls, SettleReview(c) PROVE LogsKept
  BY <1>31 DEF SettleReview, Verdict, Statuses, Terminal
<1>32. ASSUME NEW r \in Runs, Started(r) PROVE LogsKept
  <2>1. r \in Runs
    BY <1>32 DEF Started, At
  <2>2. ("started") \in Events
    BY <1>32 DEF Started, Events, Lifecycle, Terminal
  <2>3. Notify(r, "started")
    BY <1>32 DEF Started
  <2> QED
    BY <1>32, <2>1, <2>2, <2>3, NotifyFacts
<1>33. ASSUME NEW r \in Runs, PlanCreated(r) PROVE LogsKept
  <2>1. r \in Runs
    BY <1>33 DEF PlanCreated, At
  <2>2. ("planned") \in Events
    BY <1>33 DEF PlanCreated, Events, Lifecycle, Terminal
  <2>3. Notify(r, "planned")
    BY <1>33 DEF PlanCreated
  <2> QED
    BY <1>33, <2>1, <2>2, <2>3, NotifyFacts
<1>34. ASSUME NEW r \in Runs, CheckpointCreated(r) PROVE LogsKept
  <2>1. r \in Runs
    BY <1>34 DEF CheckpointCreated, At
  <2>2. ("checkpointed") \in Events
    BY <1>34 DEF CheckpointCreated, Events, Lifecycle, Terminal
  <2>3. Notify(r, "checkpointed")
    BY <1>34 DEF CheckpointCreated
  <2> QED
    BY <1>34, <2>1, <2>2, <2>3, NotifyFacts
<1>35. ASSUME NEW r \in Runs, Throws(r) PROVE LogsKept
  BY <1>35 DEF Throws, At, Goto, Statuses, Terminal
<1>36. ASSUME NEW r \in Runs, Inspected(r) PROVE LogsKept
  BY <1>36 DEF Inspected, At, Goto, Planned, Statuses, Terminal
<1>37. ASSUME NEW r \in Runs, Prepare(r) PROVE LogsKept
  BY <1>37 DEF Prepare, At, Goto, Statuses, Terminal
<1>38. ASSUME NEW r \in Runs, Settled(r) PROVE LogsKept
  <2>1. r \in Runs
    BY <1>38 DEF Settled, At
  <2>2. (review[r]) \in Reviews
    BY <1>38, <2>1 DEF Settled, Verdict, Reviews, FlowTyped
  <2>3. Audit(r, review[r])
    BY <1>38 DEF Settled
  <2> QED
    BY <1>38, <2>1, <2>2, <2>3, AuditFacts
<1>39. ASSUME NEW r \in Runs, Ask(r) PROVE LogsKept
  <2>1. r \in Runs
    BY <1>39 DEF Ask, At
  <2>2. ("reviewRequested") \in Events
    BY <1>39 DEF Ask, Events, Lifecycle, Terminal
  <2>3. Notify(r, "reviewRequested")
    BY <1>39 DEF Ask
  <2> QED
    BY <1>39, <2>1, <2>2, <2>3, NotifyFacts
<1>40. ASSUME NEW r \in Runs, Answered(r) PROVE LogsKept
  BY <1>40 DEF Answered, At, Goto, Approved, Statuses, Terminal
<1>41. ASSUME NEW r \in Runs, Resumed(r) PROVE LogsKept
  <2>1. r \in Runs
    BY <1>41 DEF Resumed, At
  <2>2. ("resumed") \in Events
    BY <1>41 DEF Resumed, Events, Lifecycle, Terminal
  <2>3. Notify(r, "resumed")
    BY <1>41 DEF Resumed
  <2> QED
    BY <1>41, <2>1, <2>2, <2>3, NotifyFacts
<1>42. ASSUME NEW r \in Runs, Fails(r) PROVE LogsKept
  <2>1. r \in Runs
    BY <1>42 DEF Fails, At
  <2>2. (IF r \in aborted \/ current[r] \in {"rejected", "cancelled"} THEN "cancelled" ELSE "failed") \in Events
    BY <1>42 DEF Fails, Events, Lifecycle, Terminal
  <2>3. Notify(r, IF r \in aborted \/ current[r] \in {"rejected", "cancelled"} THEN "cancelled" ELSE "failed")
    BY <1>42 DEF Fails
  <2> QED
    BY <1>42, <2>1, <2>2, <2>3, NotifyFacts
<1>43. ASSUME NEW r \in Runs, Blocked(r) PROVE LogsKept
  <2>1. r \in Runs
    BY <1>43 DEF Blocked, At
  <2>2. ("blocked") \in Events
    BY <1>43 DEF Blocked, Events, Lifecycle, Terminal
  <2>3. Notify(r, "blocked")
    BY <1>43 DEF Blocked
  <2> QED
    BY <1>43, <2>1, <2>2, <2>3, NotifyFacts
<1>44. ASSUME NEW r \in Runs, Close(r) PROVE LogsKept
  BY <1>44 DEF Close, At, Goto, Statuses, Terminal
<1>45. ASSUME NEW r \in Runs, Leave(r) PROVE LogsKept
  BY <1>45 DEF Leave, Forget, At, Goto, Statuses, Terminal
<1>46. ASSUME NEW r \in Runs, Finish(r) PROVE LogsKept
  <2>1. PICK outcome \in {"succeeded", "failed", "cancelled"} : Notify(r, outcome)
    BY <1>46 DEF Finish
  <2>2. outcome \in Events
    BY DEF Events, Lifecycle, Terminal
  <2> QED
    BY <2>1, <2>2, NotifyFacts
<1>47. CASE Cli
  BY <1>47 DEF Cli, Statuses, Terminal
<1>48. CASE Crash
  BY <1>48 DEF Crash, NoCall, Statuses, Terminal
<1> QED
  BY <1>1, <1>2, <1>3, <1>4, <1>5, <1>6, <1>7, <1>8, <1>9, <1>10, <1>11, <1>12, <1>13, <1>14,
     <1>15, <1>16, <1>17, <1>18, <1>19, <1>20, <1>21, <1>22, <1>23, <1>24, <1>25, <1>26, <1>27,
     <1>28, <1>29, <1>30, <1>31, <1>32, <1>33, <1>34, <1>35, <1>36, <1>37, <1>38, <1>39, <1>40,
     <1>41, <1>42, <1>43, <1>44, <1>45, <1>46, <1>47, <1>48 DEF Next, CallStep, RunStep

FlowKept ==
  /\ review' \in [Runs -> Reviews] /\ current' \in [Runs -> Reviews]
  /\ waiter' \in [Runs -> Decisions] /\ exec' \in [Runs -> Phases]

\* Every step keeps the types of the reviews and of the phases.
LEMMA FlowTypes ==
  ASSUME Typed, [Next]_vars
  PROVE  FlowKept
<1> USE DEF FlowKept, Typed, FlowTyped, files, broker, memory, bounds
<1>1. CASE UNCHANGED vars
  BY <1>1 DEF vars
<1>2. ASSUME NEW c \in Calls, List(c) PROVE FlowKept
  BY <1>2 DEF List, Lock, Reviews, Decisions, Phases
<1>3. ASSUME NEW c \in Calls, Recover(c) PROVE FlowKept
  BY <1>3 DEF Recover, Lock, Offered, Reviews, Decisions, Phases
<1>4. ASSUME NEW c \in Calls, Start(c) PROVE FlowKept
  BY <1>4 DEF Start, Claim
<1>5. ASSUME NEW c \in Calls, Decide(c) PROVE FlowKept
  BY <1>5 DEF Decide, Kinds, Reviews, Decisions, Phases
<1>6. ASSUME NEW c \in Calls, Cancel(c) PROVE FlowKept
  <2>1. PICK r \in active : /\ UNCHANGED waiter \/ Abort(r)
                            /\ UNCHANGED <<review, current, exec>>
    BY <1>6 DEF Cancel
  <2> QED
    BY <1>6 , <2>1 DEF Abort, Decisions
<1>7. ASSUME NEW c \in Calls, Scan(c) PROVE FlowKept
  BY <1>7 DEF Scan, Unfinished, Reviews, Decisions, Phases
<1>8. ASSUME NEW c \in Calls, Mark(c) PROVE FlowKept
  BY <1>8 DEF Mark, Reviews, Decisions, Phases
<1>9. ASSUME NEW c \in Calls, Listed(c) PROVE FlowKept
  BY <1>9 DEF Listed, Unlock, Scanned, Reviews, Decisions, Phases
<1>10. ASSUME NEW c \in Calls, ReplayScanned(c) PROVE FlowKept
  BY <1>10 DEF ReplayScanned, Scanned, Reviews, Decisions, Phases
<1>11. ASSUME NEW c \in Calls, Replay(c) PROVE FlowKept
  BY <1>11 DEF Replay, Claim
<1>12. ASSUME NEW c \in Calls, ReplayRefused(c) PROVE FlowKept
  BY <1>12 DEF ReplayRefused, Unlock, Is, Reviews, Decisions, Phases
<1>13. ASSUME NEW c \in Calls, ClaimRefused(c) PROVE FlowKept
  BY <1>13 DEF ClaimRefused, Unlock, Reviews, Decisions, Phases
<1>14. ASSUME NEW c \in Calls, Claimed(c) PROVE FlowKept
  BY <1>14 DEF Claimed, Reviews, Decisions, Phases
<1>15. ASSUME NEW c \in Calls, Persist(c) PROVE FlowKept
  BY <1>15 DEF Persist, Reviews, Decisions, Phases
<1>16. ASSUME NEW c \in Calls, Link(c) PROVE FlowKept
  BY <1>16 DEF Link, Reviews, Decisions, Phases
<1>17. ASSUME NEW c \in Calls, LaunchFails(c) PROVE FlowKept
  BY <1>17 DEF LaunchFails, Reviews, Decisions, Phases
<1>18. ASSUME NEW c \in Calls, ResumeClaim(c) PROVE FlowKept
  BY <1>18 DEF ResumeClaim, Scanned, Crowded, Reviews, Decisions, Phases
<1>19. ASSUME NEW c \in Calls, ResumeRefused(c) PROVE FlowKept
  BY <1>19 DEF ResumeRefused, Unlock, Scanned, Reviews, Decisions, Phases
<1>20. ASSUME NEW c \in Calls, ResumeLoad(c) PROVE FlowKept
  BY <1>20 DEF ResumeLoad, Reviews, Decisions, Phases
<1>21. ASSUME NEW c \in Calls, ResumeUnavailable(c) PROVE FlowKept
  BY <1>21 DEF ResumeUnavailable, Unlock, Reviews, Decisions, Phases
<1>22. ASSUME NEW c \in Calls, Enter(c) PROVE FlowKept
  BY <1>22 DEF Enter, Reviews, Decisions, Phases
<1>23. ASSUME NEW c \in Calls, Provider(c) PROVE FlowKept
  <2>1. call[c].found \in Runs
    BY <1>23 DEF Provider, CallsTyped, CarriesRun, Launched
  <2> QED
    BY <1>23, <2>1 DEF Provider, Phases
<1>24. ASSUME NEW c \in Calls, NoProvider(c) PROVE FlowKept
  BY <1>24 DEF NoProvider, Reviews, Decisions, Phases
<1>25. ASSUME NEW c \in Calls, Own(c) PROVE FlowKept
  BY <1>25 DEF Own, Reviews, Decisions, Phases
<1>26. ASSUME NEW c \in Calls, FailStart(c) PROVE FlowKept
  BY <1>26 DEF FailStart, Reviews, Decisions, Phases
<1>27. ASSUME NEW c \in Calls, QuitStart(c) PROVE FlowKept
  BY <1>27 DEF QuitStart, Forget, Reviews, Decisions, Phases
<1>28. ASSUME NEW c \in Calls, ReadReview(c) PROVE FlowKept
  <2>1. /\ UNCHANGED waiter \/ Abort(call[c].run)
        /\ UNCHANGED <<review, current, exec>>
    BY <1>28 DEF ReadReview, GiveUp
  <2> QED
    BY <2>1 DEF Abort, Decisions
<1>29. ASSUME NEW c \in Calls, WriteReview(c) PROVE FlowKept
  <2>1. call[c].run \in Runs /\ Verdict(c) \in Reviews
    BY <1>29 DEF WriteReview, CallsTyped, CarriesRun, Deciding, Verdict, Reviews
  <2> QED
    BY <1>29, <2>1 DEF WriteReview
<1>30. ASSUME NEW c \in Calls, AuditReview(c) PROVE FlowKept
  BY <1>30 DEF AuditReview, Verdict, Reviews, Decisions, Phases
<1>31. ASSUME NEW c \in Calls, SettleReview(c) PROVE FlowKept
  <2>1. call[c].run \in Runs /\ Verdict(c) \in Reviews
    BY <1>31 DEF SettleReview, CallsTyped, CarriesRun, Deciding, Verdict, Reviews
  <2> QED
    BY <1>31, <2>1 DEF SettleReview, Decisions
<1>32. ASSUME NEW r \in Runs, Started(r) PROVE FlowKept
  BY <1>32 DEF Started, At, Goto, Reviews, Decisions, Phases
<1>33. ASSUME NEW r \in Runs, PlanCreated(r) PROVE FlowKept
  BY <1>33 DEF PlanCreated, At, Goto, Reviews, Decisions, Phases
<1>34. ASSUME NEW r \in Runs, CheckpointCreated(r) PROVE FlowKept
  BY <1>34 DEF CheckpointCreated, At, Goto, Planned, Reviews, Decisions, Phases
<1>35. ASSUME NEW r \in Runs, Throws(r) PROVE FlowKept
  BY <1>35 DEF Throws, At, Goto, Reviews, Decisions, Phases
<1>36. ASSUME NEW r \in Runs, Inspected(r) PROVE FlowKept
  BY <1>36 DEF Inspected, At, Goto, Planned, Reviews, Decisions, Phases
<1>37. ASSUME NEW r \in Runs, Prepare(r) PROVE FlowKept
  <2>1. review' \in [Runs -> Reviews] /\ review'[r] \in Reviews
    BY <1>37 DEF Prepare, Reviews
  <2>2. current' \in [Runs -> Reviews]
    BY <1>37, <2>1 DEF Prepare
  <2>3. waiter' \in [Runs -> Decisions] /\ exec' \in [Runs -> Phases]
    BY <1>37 DEF Prepare, Goto, Decisions, Phases
  <2> QED
    BY <2>1, <2>2, <2>3
<1>38. ASSUME NEW r \in Runs, Settled(r) PROVE FlowKept
  BY <1>38 DEF Settled, At, Goto, Approved, Reviews, Decisions, Phases
<1>39. ASSUME NEW r \in Runs, Ask(r) PROVE FlowKept
  BY <1>39 DEF Ask, At, Goto, Reviews, Decisions, Phases
<1>40. ASSUME NEW r \in Runs, Answered(r) PROVE FlowKept
  BY <1>40 DEF Answered, At, Goto, Approved, Reviews, Decisions, Phases
<1>41. ASSUME NEW r \in Runs, Resumed(r) PROVE FlowKept
  BY <1>41 DEF Resumed, At, Goto, Reviews, Decisions, Phases
<1>42. ASSUME NEW r \in Runs, Fails(r) PROVE FlowKept
  BY <1>42 DEF Fails, At, Goto, Reviews, Decisions, Phases
<1>43. ASSUME NEW r \in Runs, Blocked(r) PROVE FlowKept
  BY <1>43 DEF Blocked, At, Goto, Reviews, Decisions, Phases
<1>44. ASSUME NEW r \in Runs, Close(r) PROVE FlowKept
  BY <1>44 DEF Close, At, Goto, Reviews, Decisions, Phases
<1>45. ASSUME NEW r \in Runs, Leave(r) PROVE FlowKept
  BY <1>45 DEF Leave, Forget, At, Goto, Reviews, Decisions, Phases
<1>46. ASSUME NEW r \in Runs, Finish(r) PROVE FlowKept
  BY <1>46 DEF Finish, At, Goto, Reviews, Decisions, Phases
<1>47. CASE Cli
  BY <1>47 DEF Cli, Reviews, Decisions, Phases
<1>48. CASE Crash
  BY <1>48 DEF Crash, NoCall, Reviews, Decisions, Phases
<1> QED
  BY <1>1, <1>2, <1>3, <1>4, <1>5, <1>6, <1>7, <1>8, <1>9, <1>10, <1>11, <1>12, <1>13, <1>14,
     <1>15, <1>16, <1>17, <1>18, <1>19, <1>20, <1>21, <1>22, <1>23, <1>24, <1>25, <1>26, <1>27,
     <1>28, <1>29, <1>30, <1>31, <1>32, <1>33, <1>34, <1>35, <1>36, <1>37, <1>38, <1>39, <1>40,
     <1>41, <1>42, <1>43, <1>44, <1>45, <1>46, <1>47, <1>48 DEF Next, CallStep, RunStep

SetsKept == SetsTyped' /\ request' \subseteq Runs /\ checkpoint' \subseteq Runs

\* And those of what the manager keeps.
LEMMA SetsTypes ==
  ASSUME Typed, [Next]_vars
  PROVE  SetsKept
<1> USE DesktopAssumption DEF SetsKept, Typed, FilesTyped, SetsTyped, files, broker, memory, bounds
<1>1. CASE UNCHANGED vars
  BY <1>1 DEF vars
<1>2. ASSUME NEW c \in Calls, List(c) PROVE SetsKept
  BY <1>2 DEF List, Lock, CallsTyped, CarriesRun, Launching, Launched, Deciding
<1>3. ASSUME NEW c \in Calls, Recover(c) PROVE SetsKept
  BY <1>3 DEF Recover, Lock, Offered, CallsTyped, CarriesRun, Launching, Launched, Deciding
<1>4. ASSUME NEW c \in Calls, Start(c) PROVE SetsKept
  BY <1>4 DEF Start, Claim, CallsTyped, CarriesRun, Launching, Launched, Deciding
<1>5. ASSUME NEW c \in Calls, Decide(c) PROVE SetsKept
  BY <1>5 DEF Decide, Kinds, CallsTyped, CarriesRun, Launching, Launched, Deciding
<1>6. ASSUME NEW c \in Calls, Cancel(c) PROVE SetsKept
  BY <1>6 DEF Cancel, Abort, Kinds, CallsTyped, CarriesRun, Launching, Launched, Deciding
<1>7. ASSUME NEW c \in Calls, Scan(c) PROVE SetsKept
  BY <1>7 DEF Scan, Unfinished, CallsTyped, CarriesRun, Launching, Launched, Deciding
<1>8. ASSUME NEW c \in Calls, Mark(c) PROVE SetsKept
  BY <1>8 DEF Mark, CallsTyped, CarriesRun, Launching, Launched, Deciding
<1>9. ASSUME NEW c \in Calls, Listed(c) PROVE SetsKept
  BY <1>9 DEF Listed, Unlock, Scanned, CallsTyped, CarriesRun, Launching, Launched, Deciding
<1>10. ASSUME NEW c \in Calls, ReplayScanned(c) PROVE SetsKept
  BY <1>10 DEF ReplayScanned, Scanned, CallsTyped, CarriesRun, Launching, Launched, Deciding
<1>11. ASSUME NEW c \in Calls, Replay(c) PROVE SetsKept
  BY <1>11 DEF Replay, Claim, Is, CallsTyped, CarriesRun, Launching, Launched, Deciding
<1>12. ASSUME NEW c \in Calls, ReplayRefused(c) PROVE SetsKept
  BY <1>12 DEF ReplayRefused, Unlock, Is, CallsTyped, CarriesRun, Launching, Launched, Deciding
<1>13. ASSUME NEW c \in Calls, ClaimRefused(c) PROVE SetsKept
  BY <1>13 DEF ClaimRefused, Unlock, CallsTyped, CarriesRun, Launching, Launched, Deciding
<1>14. ASSUME NEW c \in Calls, Claimed(c) PROVE SetsKept
  BY <1>14 DEF Claimed, CallsTyped, CarriesRun, Launching, Launched, Deciding
<1>15. ASSUME NEW c \in Calls, Persist(c) PROVE SetsKept
  BY <1>15 DEF Persist, CallsTyped, CarriesRun, Launching, Launched, Deciding
<1>16. ASSUME NEW c \in Calls, Link(c) PROVE SetsKept
  BY <1>16 DEF Link, CallsTyped, CarriesRun, Launching, Launched, Deciding
<1>17. ASSUME NEW c \in Calls, LaunchFails(c) PROVE SetsKept
  BY <1>17 DEF LaunchFails, CallsTyped, CarriesRun, Launching, Launched, Deciding
<1>18. ASSUME NEW c \in Calls, ResumeClaim(c) PROVE SetsKept
  BY <1>18 DEF ResumeClaim, Scanned, Crowded, CallsTyped, CarriesRun, Launching, Launched, Deciding
<1>19. ASSUME NEW c \in Calls, ResumeRefused(c) PROVE SetsKept
  BY <1>19 DEF ResumeRefused, Unlock, Scanned, CallsTyped, CarriesRun, Launching, Launched, Deciding
<1>20. ASSUME NEW c \in Calls, ResumeLoad(c) PROVE SetsKept
  BY <1>20 DEF ResumeLoad, CallsTyped, CarriesRun, Launching, Launched, Deciding
<1>21. ASSUME NEW c \in Calls, ResumeUnavailable(c) PROVE SetsKept
  BY <1>21 DEF ResumeUnavailable, Unlock, CallsTyped, CarriesRun, Launching, Launched, Deciding
<1>22. ASSUME NEW c \in Calls, Enter(c) PROVE SetsKept
  BY <1>22 DEF Enter, CallsTyped, CarriesRun, Launching, Launched, Deciding
<1>23. ASSUME NEW c \in Calls, Provider(c) PROVE SetsKept
  BY <1>23 DEF Provider, Unlock, CallsTyped, CarriesRun, Launching, Launched, Deciding
<1>24. ASSUME NEW c \in Calls, NoProvider(c) PROVE SetsKept
  BY <1>24 DEF NoProvider, CallsTyped, CarriesRun, Launching, Launched, Deciding
<1>25. ASSUME NEW c \in Calls, Own(c) PROVE SetsKept
  BY <1>25 DEF Own, CallsTyped, CarriesRun, Launching, Launched, Deciding
<1>26. ASSUME NEW c \in Calls, FailStart(c) PROVE SetsKept
  BY <1>26 DEF FailStart, CallsTyped, CarriesRun, Launching, Launched, Deciding
<1>27. ASSUME NEW c \in Calls, QuitStart(c) PROVE SetsKept
  BY <1>27 DEF QuitStart, Forget, CallsTyped, CarriesRun, Launching, Launched, Deciding
<1>28. ASSUME NEW c \in Calls, ReadReview(c) PROVE SetsKept
  BY <1>28 DEF ReadReview, GiveUp, Abort, Verdict, CallsTyped, CarriesRun, Launching, Launched,
     Deciding
<1>29. ASSUME NEW c \in Calls, WriteReview(c) PROVE SetsKept
  BY <1>29 DEF WriteReview, Verdict, CallsTyped, CarriesRun, Launching, Launched, Deciding
<1>30. ASSUME NEW c \in Calls, AuditReview(c) PROVE SetsKept
  BY <1>30 DEF AuditReview, Verdict, CallsTyped, CarriesRun, Launching, Launched, Deciding
<1>31. ASSUME NEW c \in Calls, SettleReview(c) PROVE SetsKept
  BY <1>31 DEF SettleReview, Verdict, CallsTyped, CarriesRun, Launching, Launched, Deciding
<1>32. ASSUME NEW r \in Runs, Started(r) PROVE SetsKept
  BY <1>32 DEF Started, At, Goto
<1>33. ASSUME NEW r \in Runs, PlanCreated(r) PROVE SetsKept
  BY <1>33 DEF PlanCreated, At, Goto
<1>34. ASSUME NEW r \in Runs, CheckpointCreated(r) PROVE SetsKept
  BY <1>34 DEF CheckpointCreated, At, Goto, Planned
<1>35. ASSUME NEW r \in Runs, Throws(r) PROVE SetsKept
  BY <1>35 DEF Throws, At, Goto
<1>36. ASSUME NEW r \in Runs, Inspected(r) PROVE SetsKept
  BY <1>36 DEF Inspected, At, Goto, Planned
<1>37. ASSUME NEW r \in Runs, Prepare(r) PROVE SetsKept
  BY <1>37 DEF Prepare, At, Goto
<1>38. ASSUME NEW r \in Runs, Settled(r) PROVE SetsKept
  BY <1>38 DEF Settled, At, Goto, Approved
<1>39. ASSUME NEW r \in Runs, Ask(r) PROVE SetsKept
  BY <1>39 DEF Ask, At, Goto
<1>40. ASSUME NEW r \in Runs, Answered(r) PROVE SetsKept
  BY <1>40 DEF Answered, At, Goto, Approved
<1>41. ASSUME NEW r \in Runs, Resumed(r) PROVE SetsKept
  BY <1>41 DEF Resumed, At, Goto
<1>42. ASSUME NEW r \in Runs, Fails(r) PROVE SetsKept
  BY <1>42 DEF Fails, At, Goto
<1>43. ASSUME NEW r \in Runs, Blocked(r) PROVE SetsKept
  BY <1>43 DEF Blocked, At, Goto
<1>44. ASSUME NEW r \in Runs, Close(r) PROVE SetsKept
  BY <1>44 DEF Close, At, Goto
<1>45. ASSUME NEW r \in Runs, Leave(r) PROVE SetsKept
  BY <1>45 DEF Leave, Forget, At, Goto
<1>46. ASSUME NEW r \in Runs, Finish(r) PROVE SetsKept
  BY <1>46 DEF Finish, At, Goto
<1>47. CASE Cli
  <2>1. cli' \in BOOLEAN
    BY <1>47 DEF Cli
  <2> QED
    BY <1>47, <2>1 DEF Cli
<1>48. CASE Crash
  <2>1. crashes' \in 0..MaxCrashes
    BY <1>48 DEF Crash
  <2> QED
    BY <1>48, <2>1 DEF Crash
<1> QED
  BY <1>1, <1>2, <1>3, <1>4, <1>5, <1>6, <1>7, <1>8, <1>9, <1>10, <1>11, <1>12, <1>13, <1>14,
     <1>15, <1>16, <1>17, <1>18, <1>19, <1>20, <1>21, <1>22, <1>23, <1>24, <1>25, <1>26, <1>27,
     <1>28, <1>29, <1>30, <1>31, <1>32, <1>33, <1>34, <1>35, <1>36, <1>37, <1>38, <1>39, <1>40,
     <1>41, <1>42, <1>43, <1>44, <1>45, <1>46, <1>47, <1>48 DEF Next, CallStep, RunStep

\* Every step keeps the types.
LEMMA TypeStep == Typed /\ [Next]_vars => Typed'
<1> SUFFICES ASSUME Typed, [Next]_vars PROVE Typed'
  OBVIOUS
<1>1. CallsTyped' /\ LogsKept /\ FlowKept /\ SetsKept
  BY CallTypes, LogTypes, FlowTypes, SetsTypes
<1> QED
  BY <1>1 DEF LogsKept, FlowKept, SetsKept, Typed, FilesTyped, FlowTyped

\* The state stays within its types, however calls, Runs and crashes interleave.
THEOREM TypeCorrect == Spec => []TypeOK
<1>1. Typed => TypeOK
  BY DEF Typed, CallsTyped, FilesTyped, FlowTyped, SetsTyped, TypeOK
<1> QED
  BY <1>1, TypeInit, TypeStep, PTL DEF Spec

-----------------------------------------------------------------------------
(* The approval of the plan.                                               *)

\* Nothing is approved at the start.
LEMMA ApprovalInit == Init => ApprovalInv
BY DEF Init, ApprovalInv, CallApproves, RunApproved, NoCall

\* No step lets a Run go on whose approval is not in the log.
LEMMA ApprovalStep ==
  ASSUME Typed, ApprovalInv, [Next]_vars
  PROVE  ApprovalInv'
<1> USE DesktopAssumption DEF Typed, CallsTyped, FilesTyped, FlowTyped, SetsTyped, ApprovalInv,
   files, broker, memory, bounds
<1>0. LogsKept
  BY LogTypes
<1> USE DEF LogsKept
<1>1. CASE UNCHANGED vars
  BY <1>1, <1>0 DEF vars, CallApproves, RunApproved
<1>2. ASSUME NEW c \in Calls, List(c) PROVE ApprovalInv'
  <2>1. Begun(c, "list", NoRun, "scan")
    BY <1>2, CallMoves
  <2> QED
    BY <1>2, <1>0, <2>1 DEF List, Lock, Onward, Returned, Begun, Alone, CallApproves, RunApproved
<1>3. ASSUME NEW c \in Calls, Recover(c) PROVE ApprovalInv'
  <2>1. PICK r \in Offered, kind \in {"restart", "resume"} :
          /\ Begun(c, kind, r, "scan") /\ (kind = "resume" => MayCall(r, {"resume"}, "resume"))
          /\ ("scan" \in Overlaps \/ \A e \in Calls : call[e].at # "scan")
    BY <1>3, CallMoves
  <2> QED
    BY <1>3, <2>1, <1>0 DEF Recover, Lock, Offered, Onward, Returned, Begun, Claims, Alone,
       CallApproves, RunApproved
<1>4. ASSUME NEW c \in Calls, Start(c) PROVE ApprovalInv'
  <2>1. PICK r \in Runs : Fresh(r) /\ Claims(c, "start", r, "claim") /\ launching' = launching \cup {r}
    BY <1>4, CallMoves
  <2> QED
    BY <1>4, <2>1, <1>0 DEF Start, Claim, Onward, Returned, Begun, Claims, Alone, CallApproves,
       RunApproved
<1>5. ASSUME NEW c \in Calls, Decide(c) PROVE ApprovalInv'
  <2>1. PICK r \in active, kind \in {"approve", "reject"} :
          Begun(c, kind, r, "read") /\ (kind = "approve" => r \in approvedByUser')
    BY <1>5, CallMoves
  <2> QED
    BY <1>5, <2>1, <1>0 DEF Decide, Kinds, Onward, Returned, Begun, Claims, Alone, CallApproves,
       RunApproved
<1>6. ASSUME NEW c \in Calls, Cancel(c) PROVE ApprovalInv'
  <2>1. UNCHANGED call \/ \E r \in active : Begun(c, "cancel", r, "read")
    BY <1>6, CallMoves
  <2> QED
    BY <1>6, <2>1, <1>0 DEF Cancel, Abort, Kinds, Onward, Returned, Begun, Claims, Alone,
       CallApproves, RunApproved
<1>7. ASSUME NEW c \in Calls, Scan(c) PROVE ApprovalInv'
  BY <1>7, <1>0 DEF Scan, Unfinished, CallApproves, RunApproved
<1>8. ASSUME NEW c \in Calls, Mark(c) PROVE ApprovalInv'
  BY <1>8, <1>0 DEF Mark, CallApproves, RunApproved
<1>9. ASSUME NEW c \in Calls, Listed(c) PROVE ApprovalInv'
  <2>1. Returned(c)
    BY <1>9, CallMoves
  <2> QED
    BY <1>9, <1>0, <2>1 DEF Listed, Unlock, Scanned, Onward, Returned, Begun, Alone, CallApproves,
       RunApproved
<1>10. ASSUME NEW c \in Calls, ReplayScanned(c) PROVE ApprovalInv'
  <2>1. Onward(c, "check")
    BY <1>10, CallMoves
  <2> QED
    BY <1>10, <1>0, <2>1 DEF ReplayScanned, Scanned, Onward, Returned, Begun, Alone, CallApproves,
       RunApproved
<1>11. ASSUME NEW c \in Calls, Replay(c) PROVE ApprovalInv'
  <2>1. PICK r \in Runs : Fresh(r) /\ Claims(c, "restart", r, "claim") /\ launching' = launching \cup {r}
    BY <1>11, CallMoves
  <2> QED
    BY <1>11, <2>1, <1>0 DEF Replay, Claim, Is, Onward, Returned, Begun, Claims, Alone,
       CallApproves, RunApproved
<1>12. ASSUME NEW c \in Calls, ReplayRefused(c) PROVE ApprovalInv'
  <2>1. Returned(c)
    BY <1>12, CallMoves
  <2> QED
    BY <1>12, <1>0, <2>1 DEF ReplayRefused, Unlock, Is, Onward, Returned, Begun, Alone,
       CallApproves, RunApproved
<1>13. ASSUME NEW c \in Calls, ClaimRefused(c) PROVE ApprovalInv'
  <2>1. Returned(c)
    BY <1>13, CallMoves
  <2> QED
    BY <1>13, <1>0, <2>1 DEF ClaimRefused, Unlock, Onward, Returned, Begun, Alone, CallApproves,
       RunApproved
<1>14. ASSUME NEW c \in Calls, Claimed(c) PROVE ApprovalInv'
  <2>1. Onward(c, "persist")
    BY <1>14, CallMoves
  <2> QED
    BY <1>14, <1>0, <2>1, ZenonT(40) DEF Claimed, Onward, Returned, Begun, Alone, CallApproves, RunApproved
<1>15. ASSUME NEW c \in Calls, Persist(c) PROVE ApprovalInv'
  <2>1. Onward(c, IF call[c].kind = "restart" THEN "link" ELSE "enter")
    BY <1>15, CallMoves
  <2> QED
    BY <1>15, <1>0, <2>1, ZenonT(40) DEF Persist, Onward, Returned, Begun, Alone, CallApproves, RunApproved
<1>16. ASSUME NEW c \in Calls, Link(c) PROVE ApprovalInv'
  <2>1. Onward(c, "enter")
    BY <1>16, CallMoves
  <2> QED
    BY <1>16, <1>0, <2>1 DEF Link, Onward, Returned, Begun, Alone, CallApproves, RunApproved
<1>17. ASSUME NEW c \in Calls, LaunchFails(c) PROVE ApprovalInv'
  <2>1. Returned(c)
    BY <1>17, CallMoves
  <2> QED
    BY <1>17, <1>0, <2>1 DEF LaunchFails, Onward, Returned, Begun, Alone, CallApproves, RunApproved
<1>18. ASSUME NEW c \in Calls, ResumeClaim(c) PROVE ApprovalInv'
  <2>1. call[c].run \in Runs /\ Claims(c, "resume", call[c].run, "load")
    BY <1>18, CallMoves
  <2> QED
    BY <1>18, <2>1, <1>0 DEF ResumeClaim, Scanned, Crowded, Onward, Returned, Begun, Claims,
       Alone, CallApproves, RunApproved
<1>19. ASSUME NEW c \in Calls, ResumeRefused(c) PROVE ApprovalInv'
  <2>1. Returned(c)
    BY <1>19, CallMoves
  <2> QED
    BY <1>19, <1>0, <2>1 DEF ResumeRefused, Unlock, Scanned, Onward, Returned, Begun, Alone,
       CallApproves, RunApproved
<1>20. ASSUME NEW c \in Calls, ResumeLoad(c) PROVE ApprovalInv'
  <2>1. Onward(c, "enter")
    BY <1>20, CallMoves
  <2> QED
    BY <1>20, <1>0, <2>1 DEF ResumeLoad, Onward, Returned, Begun, Alone, CallApproves, RunApproved
<1>21. ASSUME NEW c \in Calls, ResumeUnavailable(c) PROVE ApprovalInv'
  <2>1. Returned(c)
    BY <1>21, CallMoves
  <2> QED
    BY <1>21, <1>0, <2>1 DEF ResumeUnavailable, Unlock, Onward, Returned, Begun, Alone,
       CallApproves, RunApproved
<1>22. ASSUME NEW c \in Calls, Enter(c) PROVE ApprovalInv'
  <2>1. Onward(c, "provider")
    BY <1>22, CallMoves
  <2> QED
    BY <1>22, <1>0, <2>1, ZenonT(40) DEF Enter, Onward, Returned, Begun, Alone, CallApproves, RunApproved
<1>23. ASSUME NEW c \in Calls, Provider(c) PROVE ApprovalInv'
  <2>1. Returned(c)
    BY <1>23, CallMoves
  <2> QED
    BY <1>23, <1>0, <2>1 DEF Provider, Unlock, Onward, Returned, Begun, Alone, CallApproves,
       RunApproved
<1>24. ASSUME NEW c \in Calls, NoProvider(c) PROVE ApprovalInv'
  <2>1. Onward(c, "own")
    BY <1>24, CallMoves
  <2> QED
    BY <1>24, <1>0, <2>1, ZenonT(40) DEF NoProvider, Onward, Returned, Begun, Alone, CallApproves, RunApproved
<1>25. ASSUME NEW c \in Calls, Own(c) PROVE ApprovalInv'
  <2>1. Onward(c, "fail")
    BY <1>25, CallMoves
  <2> QED
    BY <1>25, <1>0, <2>1 DEF Own, Onward, Returned, Begun, Alone, CallApproves, RunApproved
<1>26. ASSUME NEW c \in Calls, FailStart(c) PROVE ApprovalInv'
  <2>1. Onward(c, "quit")
    BY <1>26, CallMoves
  <2> QED
    BY <1>26, <1>0, <2>1, ZenonT(40) DEF FailStart, Onward, Returned, Begun, Alone, CallApproves, RunApproved
<1>27. ASSUME NEW c \in Calls, QuitStart(c) PROVE ApprovalInv'
  <2>1. Returned(c)
    BY <1>27, CallMoves
  <2> QED
    BY <1>27, <1>0, <2>1 DEF QuitStart, Forget, Onward, Returned, Begun, Alone, CallApproves,
       RunApproved
<1>28. ASSUME NEW c \in Calls, ReadReview(c) PROVE ApprovalInv'
  <2>1. Onward(c, "write") \/ Onward(c, "audit") \/ Returned(c)
    BY <1>28, CallMoves
  <2> QED
    BY <1>28, <2>1, <1>0 DEF ReadReview, GiveUp, Abort, Verdict, Onward, Returned, Begun, Claims,
       Alone, CallApproves, RunApproved
<1>29. ASSUME NEW c \in Calls, WriteReview(c) PROVE ApprovalInv'
  <2>1. Onward(c, "audit")
    BY <1>29, CallMoves
  <2> QED
    BY <1>29, <1>0, <2>1 DEF WriteReview, Verdict, Onward, Returned, Begun, Alone, CallApproves,
       RunApproved
<1>30. ASSUME NEW c \in Calls, AuditReview(c) PROVE ApprovalInv'
  <2>1. Onward(c, "settle") /\ Audit(call[c].run, Verdict(c))
    BY <1>30, CallMoves DEF AuditReview
  <2>2. call[c].kind = "approve" => call[c].run \in Runs /\ "approved" \in log'[call[c].run].audited
    BY <2>1, AuditFacts DEF Verdict, CarriesRun, Reviews
  <2> QED
    BY <1>30, <1>0, <2>1, <2>2, ZenonT(40) DEF AuditReview, Onward, Alone, CallApproves, RunApproved
<1>31. ASSUME NEW c \in Calls, SettleReview(c) PROVE ApprovalInv'
  <2>1. Returned(c)
    BY <1>31, CallMoves
  <2> QED
    BY <1>31, <1>0, <2>1 DEF SettleReview, Verdict, Onward, Returned, Begun, Alone, CallApproves,
       RunApproved
<1>32. ASSUME NEW r \in Runs, Started(r) PROVE ApprovalInv'
  BY <1>32, <1>0 DEF Started, At, Goto, CallApproves, RunApproved
<1>33. ASSUME NEW r \in Runs, PlanCreated(r) PROVE ApprovalInv'
  BY <1>33, <1>0 DEF PlanCreated, At, Goto, CallApproves, RunApproved
<1>34. ASSUME NEW r \in Runs, CheckpointCreated(r) PROVE ApprovalInv'
  BY <1>34, <1>0 DEF CheckpointCreated, At, Goto, Planned, CallApproves, RunApproved
<1>35. ASSUME NEW r \in Runs, Throws(r) PROVE ApprovalInv'
  BY <1>35, <1>0 DEF Throws, At, Goto, CallApproves, RunApproved
<1>36. ASSUME NEW r \in Runs, Inspected(r) PROVE ApprovalInv'
  BY <1>36, <1>0 DEF Inspected, At, Goto, Planned, CallApproves, RunApproved
<1>37. ASSUME NEW r \in Runs, Prepare(r) PROVE ApprovalInv'
  <2>1. UNCHANGED <<call, log, approvedByUser>>
    BY <1>37 DEF Prepare
  <2>2. review' = [review EXCEPT ![r] = IF @ = "none" THEN "pending" ELSE @]
    BY <1>37 DEF Prepare
  <2>3. waiter' = waiter \/ \E w \in {"stop", "open"} : waiter' = [waiter EXCEPT ![r] = w]
    BY <1>37 DEF Prepare
  <2>4. \E at \in {"ask", "audit"} : exec' = [exec EXCEPT ![r] = at]
    BY <1>37 DEF Prepare, Goto
  <2>5. ASSUME NEW s \in Runs PROVE RunApproved(s)'
    <3>1. review'[s] = "approved" => review[s] = "approved"
      BY <2>2 DEF FlowTyped
    <3>2. waiter'[s] = "go" => waiter[s] = "go"
      BY <2>3 DEF FlowTyped
    <3>3. exec'[s] \in {"restore", "revive", "work"} => exec[s] = exec'[s]
      BY <2>4 DEF FlowTyped
    <3> QED
      BY <1>0, <2>1, <3>1, <3>2, <3>3 DEF RunApproved
  <2> QED
    BY <1>0, <2>1, <2>5 DEF CallApproves
<1>38. ASSUME NEW r \in Runs, Settled(r) PROVE ApprovalInv'
  <2>1. Audit(r, review[r]) /\ exec' = [exec EXCEPT ![r] = IF review[r] = "approved" THEN Approved(r) ELSE "fail"]
        /\ UNCHANGED <<review, waiter, call, approvedByUser>>
    BY <1>38 DEF Settled, Goto
  <2>2. review[r] = "approved" => "approved" \in log'[r].audited
    BY <2>1, AuditFacts
  <2> QED
    BY <1>0, <2>1, <2>2 DEF CallApproves, RunApproved
<1>39. ASSUME NEW r \in Runs, Ask(r) PROVE ApprovalInv'
  BY <1>39, <1>0 DEF Ask, At, Goto, CallApproves, RunApproved
<1>40. ASSUME NEW r \in Runs, Answered(r) PROVE ApprovalInv'
  BY <1>40, <1>0 DEF Answered, At, Goto, Approved, CallApproves, RunApproved
<1>41. ASSUME NEW r \in Runs, Resumed(r) PROVE ApprovalInv'
  BY <1>41, <1>0 DEF Resumed, At, Goto, CallApproves, RunApproved
<1>42. ASSUME NEW r \in Runs, Fails(r) PROVE ApprovalInv'
  BY <1>42, <1>0 DEF Fails, At, Goto, CallApproves, RunApproved
<1>43. ASSUME NEW r \in Runs, Blocked(r) PROVE ApprovalInv'
  BY <1>43, <1>0 DEF Blocked, At, Goto, CallApproves, RunApproved
<1>44. ASSUME NEW r \in Runs, Close(r) PROVE ApprovalInv'
  BY <1>44, <1>0 DEF Close, At, Goto, CallApproves, RunApproved
<1>45. ASSUME NEW r \in Runs, Leave(r) PROVE ApprovalInv'
  BY <1>45, <1>0 DEF Leave, Forget, At, Goto, CallApproves, RunApproved
<1>46. ASSUME NEW r \in Runs, Finish(r) PROVE ApprovalInv'
  BY <1>46, <1>0 DEF Finish, At, Goto, CallApproves, RunApproved
<1>47. CASE Cli
  BY <1>47, <1>0 DEF Cli, CallApproves, RunApproved
<1>48. CASE Crash
  BY <1>48, <1>0 DEF Crash, NoCall, CallApproves, RunApproved
<1> QED
  BY <1>1, <1>2, <1>3, <1>4, <1>5, <1>6, <1>7, <1>8, <1>9, <1>10, <1>11, <1>12, <1>13, <1>14,
     <1>15, <1>16, <1>17, <1>18, <1>19, <1>20, <1>21, <1>22, <1>23, <1>24, <1>25, <1>26, <1>27,
     <1>28, <1>29, <1>30, <1>31, <1>32, <1>33, <1>34, <1>35, <1>36, <1>37, <1>38, <1>39, <1>40,
     <1>41, <1>42, <1>43, <1>44, <1>45, <1>46, <1>47, <1>48 DEF Next, CallStep, RunStep

\* A Run that must be reviewed works only on a plan whose approval the user gave and
\* the log has, whatever stopped between the click, the file and the log, and however
\* cancellations and approvals of it race.
THEOREM WorkIsApprovedCorrect == Spec => []WorkIsApproved
<1>1. Init => Typed /\ ApprovalInv
  BY TypeInit, ApprovalInit
<1>2. Typed /\ ApprovalInv /\ [Next]_vars => (Typed /\ ApprovalInv)'
  BY TypeStep, ApprovalStep
<1>3. Typed /\ ApprovalInv => WorkIsApproved
  BY DEF ApprovalInv, RunApproved, WorkIsApproved
<1> QED
  BY <1>1, <1>2, <1>3, PTL DEF Spec

-----------------------------------------------------------------------------
(* The books.                                                              *)

\* Nothing is booked at the start.
LEMMA BooksInit == Init => BooksInv
BY DEF Init, BooksInv, CallAt, CallBooked, CallsApart, RunBooked, Carries, Resumes, HoldsIt,
   HoldsForRun, Is, NoCall, Launching,
       Launched, Deciding

\* Calls get where they may, with what they need.
LEMMA ShapeStep ==
  ASSUME Typed, BooksInv, [Next]_vars
  PROVE  (\A d \in Calls : CallAt(d)')
<1> USE DesktopAssumption DEF BooksInv, Typed, SetsTyped, files, broker, memory, bounds
<1>1. CASE UNCHANGED vars
  BY <1>1 DEF vars, CallAt, Launching, Launched, Deciding, Carries, Is, NoCall, Resumes
<1>2. ASSUME NEW c \in Calls, List(c) PROVE (\A d \in Calls : CallAt(d)')
  <2>1. Begun(c, "list", NoRun, "scan")
    BY <1>2, CallMoves
  <2> QED
    BY <1>2, <2>1 DEF List, Lock, Onward, Returned, Begun, Alone, CallAt, Launching, Launched,
       Deciding, Carries, Is, NoCall, Resumes
<1>3. ASSUME NEW c \in Calls, Recover(c) PROVE (\A d \in Calls : CallAt(d)')
  <2>1. PICK r \in Offered, kind \in {"restart", "resume"} :
          /\ Begun(c, kind, r, "scan") /\ (kind = "resume" => MayCall(r, {"resume"}, "resume"))
          /\ ("scan" \in Overlaps \/ \A e \in Calls : call[e].at # "scan")
    BY <1>3, CallMoves
  <2> QED
    BY <1>3, <2>1 DEF Recover, Lock, Offered, Onward, Returned, Begun, Claims, Alone, CallAt,
       Carries, Fresh, Is, NoCall, Launching, Launched, Deciding, Verdict, Offered
<1>4. ASSUME NEW c \in Calls, Start(c) PROVE (\A d \in Calls : CallAt(d)')
  <2>1. PICK r \in Runs : Fresh(r) /\ Claims(c, "start", r, "claim") /\ launching' = launching \cup {r}
    BY <1>4, CallMoves
  <2> QED
    BY <1>4, <2>1 DEF Start, Claim, Onward, Returned, Begun, Claims, Alone, CallAt, Carries,
       Fresh, Is, NoCall, Launching, Launched, Deciding, Verdict, Offered
<1>5. ASSUME NEW c \in Calls, Decide(c) PROVE (\A d \in Calls : CallAt(d)')
  <2>1. PICK r \in active, kind \in {"approve", "reject"} :
          Begun(c, kind, r, "read") /\ (kind = "approve" => r \in approvedByUser')
    BY <1>5, CallMoves
  <2> QED
    BY <1>5, <2>1 DEF Decide, Kinds, Onward, Returned, Begun, Claims, Alone, CallAt, Carries,
       Fresh, Is, NoCall, Launching, Launched, Deciding, Verdict, Offered
<1>6. ASSUME NEW c \in Calls, Cancel(c) PROVE (\A d \in Calls : CallAt(d)')
  <2>1. UNCHANGED call \/ \E r \in active : Begun(c, "cancel", r, "read")
    BY <1>6, CallMoves
  <2> QED
    BY <1>6, <2>1 DEF Cancel, Abort, Kinds, Onward, Returned, Begun, Claims, Alone, CallAt,
       Carries, Fresh, Is, NoCall, Launching, Launched, Deciding, Verdict, Offered
<1>7. ASSUME NEW c \in Calls, Scan(c) PROVE (\A d \in Calls : CallAt(d)')
  <2>1. PICK r \in Runs \cup {NoRun} : Claims(c, call[c].kind, r, "scan")
    BY <1>7, CallMoves
  <2> QED
    BY <1>7, <2>1 DEF Scan, Claims, Alone, CallAt, Launching, Launched, Deciding, Carries, Is,
       NoCall, Resumes
<1>8. ASSUME NEW c \in Calls, Mark(c) PROVE (\A d \in Calls : CallAt(d)')
  <2>1. PICK r \in Runs \cup {NoRun} : Claims(c, call[c].kind, r, "scan")
    BY <1>8, CallMoves
  <2> QED
    BY <1>8, <2>1 DEF Mark, Claims, Alone, CallAt, Launching, Launched, Deciding, Carries, Is,
       NoCall, Resumes
<1>9. ASSUME NEW c \in Calls, Listed(c) PROVE (\A d \in Calls : CallAt(d)')
  <2>1. Returned(c)
    BY <1>9, CallMoves
  <2> QED
    BY <1>9, <2>1 DEF Listed, Unlock, Scanned, Onward, Returned, Begun, Alone, CallAt, Launching,
       Launched, Deciding, Carries, Is, NoCall, Resumes
<1>10. ASSUME NEW c \in Calls, ReplayScanned(c) PROVE (\A d \in Calls : CallAt(d)')
  <2>1. Onward(c, "check")
    BY <1>10, CallMoves
  <2> QED
    BY <1>10, <2>1 DEF ReplayScanned, Scanned, Onward, Returned, Begun, Alone, CallAt, Launching,
       Launched, Deciding, Carries, Is, NoCall, Resumes
<1>11. ASSUME NEW c \in Calls, Replay(c) PROVE (\A d \in Calls : CallAt(d)')
  <2>1. PICK r \in Runs : Fresh(r) /\ Claims(c, "restart", r, "claim") /\ launching' = launching \cup {r}
    BY <1>11, CallMoves
  <2> QED
    BY <1>11, <2>1 DEF Replay, Claim, Is, Onward, Returned, Begun, Claims, Alone, CallAt, Carries,
       Fresh, Is, NoCall, Launching, Launched, Deciding, Verdict, Offered
<1>12. ASSUME NEW c \in Calls, ReplayRefused(c) PROVE (\A d \in Calls : CallAt(d)')
  <2>1. Returned(c)
    BY <1>12, CallMoves
  <2> QED
    BY <1>12, <2>1 DEF ReplayRefused, Unlock, Is, Onward, Returned, Begun, Alone, CallAt,
       Launching, Launched, Deciding, Carries, Is, NoCall, Resumes
<1>13. ASSUME NEW c \in Calls, ClaimRefused(c) PROVE (\A d \in Calls : CallAt(d)')
  <2>1. Returned(c)
    BY <1>13, CallMoves
  <2> QED
    BY <1>13, <2>1 DEF ClaimRefused, Unlock, Onward, Returned, Begun, Alone, CallAt, Launching,
       Launched, Deciding, Carries, Is, NoCall, Resumes
<1>14. ASSUME NEW c \in Calls, Claimed(c) PROVE (\A d \in Calls : CallAt(d)')
  <2>1. Onward(c, "persist")
    BY <1>14, CallMoves
  <2> QED
    BY <1>14, <2>1 DEF Claimed, Onward, Returned, Begun, Alone, CallAt, Launching, Launched,
       Deciding, Carries, Is, NoCall, Resumes
<1>15. ASSUME NEW c \in Calls, Persist(c) PROVE (\A d \in Calls : CallAt(d)')
  <2>1. Onward(c, IF call[c].kind = "restart" THEN "link" ELSE "enter")
    BY <1>15, CallMoves
  <2> QED
    BY <1>15, <2>1 DEF Persist, Onward, Returned, Begun, Alone, CallAt, Launching, Launched,
       Deciding, Carries, Is, NoCall, Resumes
<1>16. ASSUME NEW c \in Calls, Link(c) PROVE (\A d \in Calls : CallAt(d)')
  <2>1. Onward(c, "enter")
    BY <1>16, CallMoves
  <2> QED
    BY <1>16, <2>1 DEF Link, Onward, Returned, Begun, Alone, CallAt, Launching, Launched,
       Deciding, Carries, Is, NoCall, Resumes
<1>17. ASSUME NEW c \in Calls, LaunchFails(c) PROVE (\A d \in Calls : CallAt(d)')
  <2>1. Returned(c)
    BY <1>17, CallMoves
  <2> QED
    BY <1>17, <2>1 DEF LaunchFails, Onward, Returned, Begun, Alone, CallAt, Launching, Launched,
       Deciding, Carries, Is, NoCall, Resumes
<1>18. ASSUME NEW c \in Calls, ResumeClaim(c) PROVE (\A d \in Calls : CallAt(d)')
  <2>1. call[c].run \in Runs /\ Claims(c, "resume", call[c].run, "load")
    BY <1>18, CallMoves
  <2> QED
    BY <1>18, <2>1 DEF ResumeClaim, Scanned, Crowded, Onward, Returned, Begun, Claims, Alone,
       CallAt, Carries, Fresh, Is, NoCall, Launching, Launched, Deciding, Verdict, Offered
<1>19. ASSUME NEW c \in Calls, ResumeRefused(c) PROVE (\A d \in Calls : CallAt(d)')
  <2>1. Returned(c)
    BY <1>19, CallMoves
  <2> QED
    BY <1>19, <2>1 DEF ResumeRefused, Unlock, Scanned, Onward, Returned, Begun, Alone, CallAt,
       Launching, Launched, Deciding, Carries, Is, NoCall, Resumes
<1>20. ASSUME NEW c \in Calls, ResumeLoad(c) PROVE (\A d \in Calls : CallAt(d)')
  <2>1. Onward(c, "enter")
    BY <1>20, CallMoves
  <2> QED
    BY <1>20, <2>1 DEF ResumeLoad, Onward, Returned, Begun, Alone, CallAt, Launching, Launched,
       Deciding, Carries, Is, NoCall, Resumes
<1>21. ASSUME NEW c \in Calls, ResumeUnavailable(c) PROVE (\A d \in Calls : CallAt(d)')
  <2>1. Returned(c)
    BY <1>21, CallMoves
  <2> QED
    BY <1>21, <2>1 DEF ResumeUnavailable, Unlock, Onward, Returned, Begun, Alone, CallAt,
       Launching, Launched, Deciding, Carries, Is, NoCall, Resumes
<1>22. ASSUME NEW c \in Calls, Enter(c) PROVE (\A d \in Calls : CallAt(d)')
  <2>1. Onward(c, "provider")
    BY <1>22, CallMoves
  <2> QED
    BY <1>22, <2>1 DEF Enter, Onward, Returned, Begun, Alone, CallAt, Launching, Launched,
       Deciding, Carries, Is, NoCall, Resumes
<1>23. ASSUME NEW c \in Calls, Provider(c) PROVE (\A d \in Calls : CallAt(d)')
  <2>1. Returned(c)
    BY <1>23, CallMoves
  <2> QED
    BY <1>23, <2>1 DEF Provider, Unlock, Onward, Returned, Begun, Alone, CallAt, Launching,
       Launched, Deciding, Carries, Is, NoCall, Resumes
<1>24. ASSUME NEW c \in Calls, NoProvider(c) PROVE (\A d \in Calls : CallAt(d)')
  <2>1. Onward(c, "own")
    BY <1>24, CallMoves
  <2> QED
    BY <1>24, <2>1 DEF NoProvider, Onward, Returned, Begun, Alone, CallAt, Launching, Launched,
       Deciding, Carries, Is, NoCall, Resumes
<1>25. ASSUME NEW c \in Calls, Own(c) PROVE (\A d \in Calls : CallAt(d)')
  <2>1. Onward(c, "fail")
    BY <1>25, CallMoves
  <2> QED
    BY <1>25, <2>1 DEF Own, Onward, Returned, Begun, Alone, CallAt, Launching, Launched, Deciding,
       Carries, Is, NoCall, Resumes
<1>26. ASSUME NEW c \in Calls, FailStart(c) PROVE (\A d \in Calls : CallAt(d)')
  <2>1. Onward(c, "quit")
    BY <1>26, CallMoves
  <2> QED
    BY <1>26, <2>1 DEF FailStart, Onward, Returned, Begun, Alone, CallAt, Launching, Launched,
       Deciding, Carries, Is, NoCall, Resumes
<1>27. ASSUME NEW c \in Calls, QuitStart(c) PROVE (\A d \in Calls : CallAt(d)')
  <2>1. Returned(c)
    BY <1>27, CallMoves
  <2> QED
    BY <1>27, <2>1 DEF QuitStart, Forget, Onward, Returned, Begun, Alone, CallAt, Launching,
       Launched, Deciding, Carries, Is, NoCall, Resumes
<1>28. ASSUME NEW c \in Calls, ReadReview(c) PROVE (\A d \in Calls : CallAt(d)')
  <2>1. Onward(c, "write") \/ Onward(c, "audit") \/ Returned(c)
    BY <1>28, CallMoves
  <2> QED
    BY <1>28, <2>1 DEF ReadReview, GiveUp, Abort, Verdict, Onward, Returned, Begun, Claims, Alone,
       CallAt, Carries, Fresh, Is, NoCall, Launching, Launched, Deciding, Verdict, Offered
<1>29. ASSUME NEW c \in Calls, WriteReview(c) PROVE (\A d \in Calls : CallAt(d)')
  <2>1. Onward(c, "audit")
    BY <1>29, CallMoves
  <2> QED
    BY <1>29, <2>1 DEF WriteReview, Verdict, Onward, Returned, Begun, Alone, CallAt, Launching,
       Launched, Deciding, Carries, Is, NoCall, Resumes
<1>30. ASSUME NEW c \in Calls, AuditReview(c) PROVE (\A d \in Calls : CallAt(d)')
  <2>1. Onward(c, "settle")
    BY <1>30, CallMoves
  <2> QED
    BY <1>30, <2>1 DEF AuditReview, Verdict, Onward, Returned, Begun, Alone, CallAt, Launching,
       Launched, Deciding, Carries, Is, NoCall, Resumes
<1>31. ASSUME NEW c \in Calls, SettleReview(c) PROVE (\A d \in Calls : CallAt(d)')
  <2>1. Returned(c)
    BY <1>31, CallMoves
  <2> QED
    BY <1>31, <2>1 DEF SettleReview, Verdict, Onward, Returned, Begun, Alone, CallAt, Launching,
       Launched, Deciding, Carries, Is, NoCall, Resumes
<1>32. ASSUME NEW r \in Runs, Started(r) PROVE (\A d \in Calls : CallAt(d)')
  BY <1>32 DEF Started, At, Goto, CallAt, Launching, Launched, Deciding, Carries, Is, NoCall,
     Resumes
<1>33. ASSUME NEW r \in Runs, PlanCreated(r) PROVE (\A d \in Calls : CallAt(d)')
  BY <1>33 DEF PlanCreated, At, Goto, CallAt, Launching, Launched, Deciding, Carries, Is, NoCall,
     Resumes
<1>34. ASSUME NEW r \in Runs, CheckpointCreated(r) PROVE (\A d \in Calls : CallAt(d)')
  BY <1>34 DEF CheckpointCreated, At, Goto, Planned, CallAt, Launching, Launched, Deciding,
     Carries, Is, NoCall, Resumes
<1>35. ASSUME NEW r \in Runs, Throws(r) PROVE (\A d \in Calls : CallAt(d)')
  BY <1>35 DEF Throws, At, Goto, CallAt, Launching, Launched, Deciding, Carries, Is, NoCall, Resumes
<1>36. ASSUME NEW r \in Runs, Inspected(r) PROVE (\A d \in Calls : CallAt(d)')
  BY <1>36 DEF Inspected, At, Goto, Planned, CallAt, Launching, Launched, Deciding, Carries, Is,
     NoCall, Resumes
<1>37. ASSUME NEW r \in Runs, Prepare(r) PROVE (\A d \in Calls : CallAt(d)')
  BY <1>37 DEF Prepare, At, Goto, CallAt, Launching, Launched, Deciding, Carries, Is, NoCall,
     Resumes
<1>38. ASSUME NEW r \in Runs, Settled(r) PROVE (\A d \in Calls : CallAt(d)')
  BY <1>38 DEF Settled, At, Goto, Approved, CallAt, Launching, Launched, Deciding, Carries, Is,
     NoCall, Resumes
<1>39. ASSUME NEW r \in Runs, Ask(r) PROVE (\A d \in Calls : CallAt(d)')
  BY <1>39 DEF Ask, At, Goto, CallAt, Launching, Launched, Deciding, Carries, Is, NoCall, Resumes
<1>40. ASSUME NEW r \in Runs, Answered(r) PROVE (\A d \in Calls : CallAt(d)')
  BY <1>40 DEF Answered, At, Goto, Approved, CallAt, Launching, Launched, Deciding, Carries, Is,
     NoCall, Resumes
<1>41. ASSUME NEW r \in Runs, Resumed(r) PROVE (\A d \in Calls : CallAt(d)')
  BY <1>41 DEF Resumed, At, Goto, CallAt, Launching, Launched, Deciding, Carries, Is, NoCall,
     Resumes
<1>42. ASSUME NEW r \in Runs, Fails(r) PROVE (\A d \in Calls : CallAt(d)')
  BY <1>42 DEF Fails, At, Goto, CallAt, Launching, Launched, Deciding, Carries, Is, NoCall, Resumes
<1>43. ASSUME NEW r \in Runs, Blocked(r) PROVE (\A d \in Calls : CallAt(d)')
  BY <1>43 DEF Blocked, At, Goto, CallAt, Launching, Launched, Deciding, Carries, Is, NoCall,
     Resumes
<1>44. ASSUME NEW r \in Runs, Close(r) PROVE (\A d \in Calls : CallAt(d)')
  BY <1>44 DEF Close, At, Goto, CallAt, Launching, Launched, Deciding, Carries, Is, NoCall, Resumes
<1>45. ASSUME NEW r \in Runs, Leave(r) PROVE (\A d \in Calls : CallAt(d)')
  BY <1>45 DEF Leave, Forget, At, Goto, CallAt, Launching, Launched, Deciding, Carries, Is,
     NoCall, Resumes
<1>46. ASSUME NEW r \in Runs, Finish(r) PROVE (\A d \in Calls : CallAt(d)')
  BY <1>46 DEF Finish, At, Goto, CallAt, Launching, Launched, Deciding, Carries, Is, NoCall, Resumes
<1>47. CASE Cli
  BY <1>47 DEF Cli, CallAt, Launching, Launched, Deciding, Carries, Is, NoCall, Resumes
<1>48. CASE Crash
  BY <1>48 DEF Crash, NoCall, CallAt, Launching, Launched, Deciding, Carries, Is, NoCall, Resumes
<1> QED
  BY <1>1, <1>2, <1>3, <1>4, <1>5, <1>6, <1>7, <1>8, <1>9, <1>10, <1>11, <1>12, <1>13, <1>14,
     <1>15, <1>16, <1>17, <1>18, <1>19, <1>20, <1>21, <1>22, <1>23, <1>24, <1>25, <1>26, <1>27,
     <1>28, <1>29, <1>30, <1>31, <1>32, <1>33, <1>34, <1>35, <1>36, <1>37, <1>38, <1>39, <1>40,
     <1>41, <1>42, <1>43, <1>44, <1>45, <1>46, <1>47, <1>48 DEF Next, CallStep, RunStep

\* They stay apart.
LEMMA ApartStep ==
  ASSUME ~({"scan", "resume"} \subseteq Overlaps), Typed, BooksInv, [Next]_vars
  PROVE  (\A d, e \in Calls : d # e => CallsApart(d, e)')
<1> USE DesktopAssumption DEF BooksInv, Typed, SetsTyped, files, broker, memory, bounds
<1>1. CASE UNCHANGED vars
  BY <1>1 DEF vars, CallsApart, Launching, Launched, Deciding, Carries, Is, NoCall, Resumes
<1>2. ASSUME NEW c \in Calls, List(c) PROVE (\A d, e \in Calls : d # e => CallsApart(d, e)')
  <2>1. Begun(c, "list", NoRun, "scan")
    BY <1>2, CallMoves
  <2> QED
    BY <1>2, <2>1 DEF List, Lock, Onward, Returned, Begun, Alone, CallAt, CallsApart, Launching,
       Launched, Deciding, Carries, Is, NoCall, Resumes
<1>3. ASSUME NEW c \in Calls, Recover(c) PROVE (\A d, e \in Calls : d # e => CallsApart(d, e)')
  <2>1. PICK r \in Offered, kind \in {"restart", "resume"} :
          /\ Begun(c, kind, r, "scan") /\ (kind = "resume" => MayCall(r, {"resume"}, "resume"))
          /\ "scan" \in Overlaps \/ \A e \in Calls : call[e].at # "scan"
    BY <1>3, CallMoves
  <2>2. kind = "resume" => \A d \in Calls : Resumes(d) => call[d].run # r
    BY <2>1 DEF MayCall, Resumes
  <2>3. r \notin launching
    BY DEF Offered
  <2>4. \A d \in Calls : call[d].at \in Launching => call[d].found # r
    BY <2>3 DEF CallBooked
  <2>5. ~Carries(c)'
    BY <2>1 DEF Begun, Carries, Launching, Launched
  <2> QED
    BY <2>1, <2>2, <2>4, <2>5 DEF Begun, Alone, CallsApart, Carries, Resumes, Launching
<1>4. ASSUME NEW c \in Calls, Start(c) PROVE (\A d, e \in Calls : d # e => CallsApart(d, e)')
  <2>1. PICK r \in Runs : Fresh(r) /\ Claims(c, "start", r, "claim") /\ launching' = launching \cup {r}
    BY <1>4, CallMoves
  <2> QED
    BY <1>4, <2>1 DEF Start, Claim, MayCall, Onward, Returned, Begun, Claims, Alone, CallAt,
       CallBooked, CallsApart, Carries, Resumes, Fresh, Is, NoCall, Launching, Launched, Deciding,
       Verdict, Offered
<1>5. ASSUME NEW c \in Calls, Decide(c) PROVE (\A d, e \in Calls : d # e => CallsApart(d, e)')
  <2>1. PICK r \in active, kind \in {"approve", "reject"} :
          Begun(c, kind, r, "read") /\ (kind = "approve" => r \in approvedByUser')
    BY <1>5, CallMoves
  <2> QED
    BY <1>5, <2>1 DEF Decide, Kinds, MayCall, Onward, Returned, Begun, Claims, Alone, CallAt,
       CallBooked, CallsApart, Carries, Resumes, Fresh, Is, NoCall, Launching, Launched, Deciding,
       Verdict, Offered
<1>6. ASSUME NEW c \in Calls, Cancel(c) PROVE (\A d, e \in Calls : d # e => CallsApart(d, e)')
  <2>1. UNCHANGED call \/ \E r \in active : Begun(c, "cancel", r, "read")
    BY <1>6, CallMoves
  <2> QED
    BY <1>6, <2>1 DEF Cancel, Abort, Kinds, MayCall, Onward, Returned, Begun, Claims, Alone,
       CallAt, CallBooked, CallsApart, Carries, Resumes, Fresh, Is, NoCall, Launching, Launched,
       Deciding, Verdict, Offered
<1>7. ASSUME NEW c \in Calls, Scan(c) PROVE (\A d, e \in Calls : d # e => CallsApart(d, e)')
  <2>1. PICK r \in Runs \cup {NoRun} : Claims(c, call[c].kind, r, "scan")
    BY <1>7, CallMoves
  <2> QED
    BY <1>7, <2>1 DEF Scan, Claims, Alone, CallAt, CallsApart, Launching, Launched, Deciding,
       Carries, Is, NoCall, Resumes
<1>8. ASSUME NEW c \in Calls, Mark(c) PROVE (\A d, e \in Calls : d # e => CallsApart(d, e)')
  <2>1. PICK r \in Runs \cup {NoRun} : Claims(c, call[c].kind, r, "scan")
    BY <1>8, CallMoves
  <2> QED
    BY <1>8, <2>1 DEF Mark, Claims, Alone, CallAt, CallsApart, Launching, Launched, Deciding,
       Carries, Is, NoCall, Resumes
<1>9. ASSUME NEW c \in Calls, Listed(c) PROVE (\A d, e \in Calls : d # e => CallsApart(d, e)')
  <2>1. Returned(c)
    BY <1>9, CallMoves
  <2> QED
    BY <1>9, <2>1 DEF Listed, Unlock, Scanned, Onward, Returned, Begun, Alone, CallAt, CallsApart,
       Launching, Launched, Deciding, Carries, Is, NoCall, Resumes
<1>10. ASSUME NEW c \in Calls, ReplayScanned(c) PROVE (\A d, e \in Calls : d # e => CallsApart(d, e)')
  <2>1. Onward(c, "check")
    BY <1>10, CallMoves
  <2> QED
    BY <1>10, <2>1 DEF ReplayScanned, Scanned, Onward, Returned, Begun, Alone, CallAt, CallsApart,
       Launching, Launched, Deciding, Carries, Is, NoCall, Resumes
<1>11. ASSUME NEW c \in Calls, Replay(c) PROVE (\A d, e \in Calls : d # e => CallsApart(d, e)')
  <2>1. PICK r \in Runs : Fresh(r) /\ Claims(c, "restart", r, "claim") /\ launching' = launching \cup {r}
    BY <1>11, CallMoves
  <2> QED
    BY <1>11, <2>1 DEF Replay, Claim, Is, MayCall, Onward, Returned, Begun, Claims, Alone, CallAt,
       CallBooked, CallsApart, Carries, Resumes, Fresh, Is, NoCall, Launching, Launched, Deciding,
       Verdict, Offered
<1>12. ASSUME NEW c \in Calls, ReplayRefused(c) PROVE (\A d, e \in Calls : d # e => CallsApart(d, e)')
  <2>1. Returned(c)
    BY <1>12, CallMoves
  <2> QED
    BY <1>12, <2>1 DEF ReplayRefused, Unlock, Is, Onward, Returned, Begun, Alone, CallAt,
       CallsApart, Launching, Launched, Deciding, Carries, Is, NoCall, Resumes
<1>13. ASSUME NEW c \in Calls, ClaimRefused(c) PROVE (\A d, e \in Calls : d # e => CallsApart(d, e)')
  <2>1. Returned(c)
    BY <1>13, CallMoves
  <2> QED
    BY <1>13, <2>1 DEF ClaimRefused, Unlock, Onward, Returned, Begun, Alone, CallAt, CallsApart,
       Launching, Launched, Deciding, Carries, Is, NoCall, Resumes
<1>14. ASSUME NEW c \in Calls, Claimed(c) PROVE (\A d, e \in Calls : d # e => CallsApart(d, e)')
  <2>1. Onward(c, "persist")
    BY <1>14, CallMoves
  <2> QED
    BY <1>14, <2>1 DEF Claimed, Onward, Returned, Begun, Alone, CallAt, CallsApart, Launching,
       Launched, Deciding, Carries, Is, NoCall, Resumes
<1>15. ASSUME NEW c \in Calls, Persist(c) PROVE (\A d, e \in Calls : d # e => CallsApart(d, e)')
  <2>1. Onward(c, IF call[c].kind = "restart" THEN "link" ELSE "enter")
    BY <1>15, CallMoves
  <2> QED
    BY <1>15, <2>1 DEF Persist, Onward, Returned, Begun, Alone, CallAt, CallsApart, Launching,
       Launched, Deciding, Carries, Is, NoCall, Resumes
<1>16. ASSUME NEW c \in Calls, Link(c) PROVE (\A d, e \in Calls : d # e => CallsApart(d, e)')
  <2>1. Onward(c, "enter")
    BY <1>16, CallMoves
  <2> QED
    BY <1>16, <2>1 DEF Link, Onward, Returned, Begun, Alone, CallAt, CallsApart, Launching,
       Launched, Deciding, Carries, Is, NoCall, Resumes
<1>17. ASSUME NEW c \in Calls, LaunchFails(c) PROVE (\A d, e \in Calls : d # e => CallsApart(d, e)')
  <2>1. Returned(c)
    BY <1>17, CallMoves
  <2> QED
    BY <1>17, <2>1 DEF LaunchFails, Onward, Returned, Begun, Alone, CallAt, CallsApart, Launching,
       Launched, Deciding, Carries, Is, NoCall, Resumes
<1>18. ASSUME NEW c \in Calls, ResumeClaim(c) PROVE (\A d, e \in Calls : d # e => CallsApart(d, e)')
  <2>1. call[c].run \in Runs /\ Claims(c, "resume", call[c].run, "load")
    BY <1>18, CallMoves
  <2> QED
    BY <1>18, <2>1 DEF ResumeClaim, Scanned, Crowded, MayCall, Onward, Returned, Begun, Claims,
       Alone, CallAt, CallBooked, CallsApart, Carries, Resumes, Fresh, Is, NoCall, Launching,
       Launched, Deciding, Verdict, Offered
<1>19. ASSUME NEW c \in Calls, ResumeRefused(c) PROVE (\A d, e \in Calls : d # e => CallsApart(d, e)')
  <2>1. Returned(c)
    BY <1>19, CallMoves
  <2> QED
    BY <1>19, <2>1 DEF ResumeRefused, Unlock, Scanned, Onward, Returned, Begun, Alone, CallAt,
       CallsApart, Launching, Launched, Deciding, Carries, Is, NoCall, Resumes
<1>20. ASSUME NEW c \in Calls, ResumeLoad(c) PROVE (\A d, e \in Calls : d # e => CallsApart(d, e)')
  <2>1. Onward(c, "enter")
    BY <1>20, CallMoves
  <2> QED
    BY <1>20, <2>1 DEF ResumeLoad, Onward, Returned, Begun, Alone, CallAt, CallsApart, Launching,
       Launched, Deciding, Carries, Is, NoCall, Resumes
<1>21. ASSUME NEW c \in Calls, ResumeUnavailable(c) PROVE (\A d, e \in Calls : d # e => CallsApart(d, e)')
  <2>1. Returned(c)
    BY <1>21, CallMoves
  <2> QED
    BY <1>21, <2>1 DEF ResumeUnavailable, Unlock, Onward, Returned, Begun, Alone, CallAt,
       CallsApart, Launching, Launched, Deciding, Carries, Is, NoCall, Resumes
<1>22. ASSUME NEW c \in Calls, Enter(c) PROVE (\A d, e \in Calls : d # e => CallsApart(d, e)')
  <2>1. Onward(c, "provider")
    BY <1>22, CallMoves
  <2> QED
    BY <1>22, <2>1 DEF Enter, Onward, Returned, Begun, Alone, CallAt, CallsApart, Launching,
       Launched, Deciding, Carries, Is, NoCall, Resumes
<1>23. ASSUME NEW c \in Calls, Provider(c) PROVE (\A d, e \in Calls : d # e => CallsApart(d, e)')
  <2>1. Returned(c)
    BY <1>23, CallMoves
  <2> QED
    BY <1>23, <2>1 DEF Provider, Unlock, Onward, Returned, Begun, Alone, CallAt, CallsApart,
       Launching, Launched, Deciding, Carries, Is, NoCall, Resumes
<1>24. ASSUME NEW c \in Calls, NoProvider(c) PROVE (\A d, e \in Calls : d # e => CallsApart(d, e)')
  <2>1. Onward(c, "own")
    BY <1>24, CallMoves
  <2> QED
    BY <1>24, <2>1 DEF NoProvider, Onward, Returned, Begun, Alone, CallAt, CallsApart, Launching,
       Launched, Deciding, Carries, Is, NoCall, Resumes
<1>25. ASSUME NEW c \in Calls, Own(c) PROVE (\A d, e \in Calls : d # e => CallsApart(d, e)')
  <2>1. Onward(c, "fail")
    BY <1>25, CallMoves
  <2> QED
    BY <1>25, <2>1 DEF Own, Onward, Returned, Begun, Alone, CallAt, CallsApart, Launching,
       Launched, Deciding, Carries, Is, NoCall, Resumes
<1>26. ASSUME NEW c \in Calls, FailStart(c) PROVE (\A d, e \in Calls : d # e => CallsApart(d, e)')
  <2>1. Onward(c, "quit")
    BY <1>26, CallMoves
  <2> QED
    BY <1>26, <2>1 DEF FailStart, Onward, Returned, Begun, Alone, CallAt, CallsApart, Launching,
       Launched, Deciding, Carries, Is, NoCall, Resumes
<1>27. ASSUME NEW c \in Calls, QuitStart(c) PROVE (\A d, e \in Calls : d # e => CallsApart(d, e)')
  <2>1. Returned(c)
    BY <1>27, CallMoves
  <2> QED
    BY <1>27, <2>1 DEF QuitStart, Forget, Onward, Returned, Begun, Alone, CallAt, CallsApart,
       Launching, Launched, Deciding, Carries, Is, NoCall, Resumes
<1>28. ASSUME NEW c \in Calls, ReadReview(c) PROVE (\A d, e \in Calls : d # e => CallsApart(d, e)')
  <2>1. Onward(c, "write") \/ Onward(c, "audit") \/ Returned(c)
    BY <1>28, CallMoves
  <2> QED
    BY <1>28, <2>1 DEF ReadReview, GiveUp, Abort, Verdict, MayCall, Onward, Returned, Begun,
       Claims, Alone, CallAt, CallBooked, CallsApart, Carries, Resumes, Fresh, Is, NoCall,
       Launching, Launched, Deciding, Verdict, Offered
<1>29. ASSUME NEW c \in Calls, WriteReview(c) PROVE (\A d, e \in Calls : d # e => CallsApart(d, e)')
  <2>1. Onward(c, "audit")
    BY <1>29, CallMoves
  <2> QED
    BY <1>29, <2>1 DEF WriteReview, Verdict, Onward, Returned, Begun, Alone, CallAt, CallsApart,
       Launching, Launched, Deciding, Carries, Is, NoCall, Resumes
<1>30. ASSUME NEW c \in Calls, AuditReview(c) PROVE (\A d, e \in Calls : d # e => CallsApart(d, e)')
  <2>1. Onward(c, "settle")
    BY <1>30, CallMoves
  <2> QED
    BY <1>30, <2>1 DEF AuditReview, Verdict, Onward, Returned, Begun, Alone, CallAt, CallsApart,
       Launching, Launched, Deciding, Carries, Is, NoCall, Resumes
<1>31. ASSUME NEW c \in Calls, SettleReview(c) PROVE (\A d, e \in Calls : d # e => CallsApart(d, e)')
  <2>1. Returned(c)
    BY <1>31, CallMoves
  <2> QED
    BY <1>31, <2>1 DEF SettleReview, Verdict, Onward, Returned, Begun, Alone, CallAt, CallsApart,
       Launching, Launched, Deciding, Carries, Is, NoCall, Resumes
<1>32. ASSUME NEW r \in Runs, Started(r) PROVE (\A d, e \in Calls : d # e => CallsApart(d, e)')
  BY <1>32 DEF Started, At, Goto, CallsApart, Launching, Launched, Deciding, Carries, Is, NoCall,
     Resumes
<1>33. ASSUME NEW r \in Runs, PlanCreated(r) PROVE (\A d, e \in Calls : d # e => CallsApart(d, e)')
  BY <1>33 DEF PlanCreated, At, Goto, CallsApart, Launching, Launched, Deciding, Carries, Is,
     NoCall, Resumes
<1>34. ASSUME NEW r \in Runs, CheckpointCreated(r) PROVE (\A d, e \in Calls : d # e => CallsApart(d, e)')
  BY <1>34 DEF CheckpointCreated, At, Goto, Planned, CallsApart, Launching, Launched, Deciding,
     Carries, Is, NoCall, Resumes
<1>35. ASSUME NEW r \in Runs, Throws(r) PROVE (\A d, e \in Calls : d # e => CallsApart(d, e)')
  BY <1>35 DEF Throws, At, Goto, CallsApart, Launching, Launched, Deciding, Carries, Is, NoCall,
     Resumes
<1>36. ASSUME NEW r \in Runs, Inspected(r) PROVE (\A d, e \in Calls : d # e => CallsApart(d, e)')
  BY <1>36 DEF Inspected, At, Goto, Planned, CallsApart, Launching, Launched, Deciding, Carries,
     Is, NoCall, Resumes
<1>37. ASSUME NEW r \in Runs, Prepare(r) PROVE (\A d, e \in Calls : d # e => CallsApart(d, e)')
  BY <1>37 DEF Prepare, At, Goto, CallsApart, Launching, Launched, Deciding, Carries, Is, NoCall,
     Resumes
<1>38. ASSUME NEW r \in Runs, Settled(r) PROVE (\A d, e \in Calls : d # e => CallsApart(d, e)')
  BY <1>38 DEF Settled, At, Goto, Approved, CallsApart, Launching, Launched, Deciding, Carries,
     Is, NoCall, Resumes
<1>39. ASSUME NEW r \in Runs, Ask(r) PROVE (\A d, e \in Calls : d # e => CallsApart(d, e)')
  BY <1>39 DEF Ask, At, Goto, CallsApart, Launching, Launched, Deciding, Carries, Is, NoCall,
     Resumes
<1>40. ASSUME NEW r \in Runs, Answered(r) PROVE (\A d, e \in Calls : d # e => CallsApart(d, e)')
  BY <1>40 DEF Answered, At, Goto, Approved, CallsApart, Launching, Launched, Deciding, Carries,
     Is, NoCall, Resumes
<1>41. ASSUME NEW r \in Runs, Resumed(r) PROVE (\A d, e \in Calls : d # e => CallsApart(d, e)')
  BY <1>41 DEF Resumed, At, Goto, CallsApart, Launching, Launched, Deciding, Carries, Is, NoCall,
     Resumes
<1>42. ASSUME NEW r \in Runs, Fails(r) PROVE (\A d, e \in Calls : d # e => CallsApart(d, e)')
  BY <1>42 DEF Fails, At, Goto, CallsApart, Launching, Launched, Deciding, Carries, Is, NoCall,
     Resumes
<1>43. ASSUME NEW r \in Runs, Blocked(r) PROVE (\A d, e \in Calls : d # e => CallsApart(d, e)')
  BY <1>43 DEF Blocked, At, Goto, CallsApart, Launching, Launched, Deciding, Carries, Is, NoCall,
     Resumes
<1>44. ASSUME NEW r \in Runs, Close(r) PROVE (\A d, e \in Calls : d # e => CallsApart(d, e)')
  BY <1>44 DEF Close, At, Goto, CallsApart, Launching, Launched, Deciding, Carries, Is, NoCall,
     Resumes
<1>45. ASSUME NEW r \in Runs, Leave(r) PROVE (\A d, e \in Calls : d # e => CallsApart(d, e)')
  BY <1>45 DEF Leave, Forget, At, Goto, CallsApart, Launching, Launched, Deciding, Carries, Is,
     NoCall, Resumes
<1>46. ASSUME NEW r \in Runs, Finish(r) PROVE (\A d, e \in Calls : d # e => CallsApart(d, e)')
  BY <1>46 DEF Finish, At, Goto, CallsApart, Launching, Launched, Deciding, Carries, Is, NoCall,
     Resumes
<1>47. CASE Cli
  BY <1>47 DEF Cli, CallsApart, Launching, Launched, Deciding, Carries, Is, NoCall, Resumes
<1>48. CASE Crash
  BY <1>48 DEF Crash, NoCall, CallsApart, Launching, Launched, Deciding, Carries, Is, NoCall,
     Resumes
<1> QED
  BY <1>1, <1>2, <1>3, <1>4, <1>5, <1>6, <1>7, <1>8, <1>9, <1>10, <1>11, <1>12, <1>13, <1>14,
     <1>15, <1>16, <1>17, <1>18, <1>19, <1>20, <1>21, <1>22, <1>23, <1>24, <1>25, <1>26, <1>27,
     <1>28, <1>29, <1>30, <1>31, <1>32, <1>33, <1>34, <1>35, <1>36, <1>37, <1>38, <1>39, <1>40,
     <1>41, <1>42, <1>43, <1>44, <1>45, <1>46, <1>47, <1>48 DEF Next, CallStep, RunStep

Booked == (\A c \in Calls : CallBooked(c)) /\ (\A r \in Runs : RunBooked(r)) /\ (cli => leases = {})

\* A workflow that goes on changes nothing of the books.
LEMMA FlowStaysBooked ==
  ASSUME Typed, BooksInv, NEW r \in Runs, NEW p \in Phases \ {"idle", "leave"}, exec[r] \notin {"idle", "leave"},
         exec' = [exec EXCEPT ![r] = p], UNCHANGED <<active, launching, leases, cli, call>>
  PROVE  Booked'
<1>1. \A s \in Runs : /\ exec'[s] = "idle" <=> exec[s] = "idle"
                      /\ exec'[s] = "leave" <=> exec[s] = "leave"
  BY DEF Typed, FlowTyped
<1>2. \A c \in Calls : Carries(c)' = Carries(c) /\ HoldsForRun(c)' = HoldsForRun(c) /\ HoldsIt(c)' = HoldsIt(c)
  BY DEF Carries, HoldsForRun, HoldsIt, Is
<1>3. \A c \in Calls : CallBooked(c)'
  <2> SUFFICES ASSUME NEW c \in Calls PROVE CallBooked(c)'
    OBVIOUS
  <2>1. Carries(c) => exec'[call[c].found] = "idle"
    BY <1>1 DEF BooksInv, CallAt, CallBooked
  <2> QED
    BY <1>2, <2>1 DEF BooksInv, CallBooked
<1>4. \A s \in Runs : RunBooked(s)'
  BY <1>1, <1>2 DEF BooksInv, RunBooked
<1> QED
  BY <1>3, <1>4 DEF Booked, BooksInv

\* What is under way stays booked.
LEMMA BookStep ==
  ASSUME ~({"scan", "resume"} \subseteq Overlaps), Typed, BooksInv, [Next]_vars
  PROVE  Booked'
<1> USE DesktopAssumption DEF BooksInv, Booked, Typed, SetsTyped, FlowTyped, files, broker,
   memory, bounds
<1>1. CASE UNCHANGED vars
  BY <1>1 DEF vars, CallAt, CallBooked, RunBooked, CallsApart, HoldsIt, HoldsForRun, Launching,
     Launched, Deciding, Carries, Is, NoCall, Resumes
<1>2. ASSUME NEW c \in Calls, List(c) PROVE Booked'
  <2>1. Begun(c, "list", NoRun, "scan")
    BY <1>2, CallMoves
  <2> QED
    BY <1>2, <2>1 DEF List, Lock, Onward, Returned, Begun, Alone, CallAt, CallBooked, RunBooked,
       CallsApart, HoldsIt, HoldsForRun, Launching, Launched, Deciding, Carries, Is, NoCall, Resumes
<1>3. ASSUME NEW c \in Calls, Recover(c) PROVE Booked'
  <2>1. PICK r \in Offered, kind \in {"restart", "resume"} :
          /\ Begun(c, kind, r, "scan") /\ (kind = "resume" => MayCall(r, {"resume"}, "resume"))
          /\ ("scan" \in Overlaps \/ \A e \in Calls : call[e].at # "scan")
    BY <1>3, CallMoves
  <2> QED
    BY <1>3, <2>1, SMTT(30) DEF Recover, Lock, Offered, Onward, Returned, Begun, Claims, Alone, Fresh,
       Verdict, Offered, CallAt, CallBooked, RunBooked, CallsApart, HoldsIt, HoldsForRun,
       Launching, Launched, Deciding, Carries, Is, NoCall, Resumes
<1>4. ASSUME NEW c \in Calls, Start(c) PROVE Booked'
  <2>1. PICK r \in Runs : Fresh(r) /\ Claims(c, "start", r, "claim") /\ launching' = launching \cup {r}
    BY <1>4, CallMoves
  <2> QED
    BY <1>4, <2>1 DEF Start, Claim, Onward, Returned, Begun, Claims, Alone, Fresh, Verdict,
       Offered, CallAt, CallBooked, RunBooked, CallsApart, HoldsIt, HoldsForRun, Launching,
       Launched, Deciding, Carries, Is, NoCall, Resumes
<1>5. ASSUME NEW c \in Calls, Decide(c) PROVE Booked'
  <2>1. PICK r \in active, kind \in {"approve", "reject"} :
          Begun(c, kind, r, "read") /\ (kind = "approve" => r \in approvedByUser')
    BY <1>5, CallMoves
  <2> QED
    BY <1>5, <2>1 DEF Decide, Kinds, Onward, Returned, Begun, Claims, Alone, Fresh, Verdict,
       Offered, CallAt, CallBooked, RunBooked, CallsApart, HoldsIt, HoldsForRun, Launching,
       Launched, Deciding, Carries, Is, NoCall, Resumes
<1>6. ASSUME NEW c \in Calls, Cancel(c) PROVE Booked'
  <2>1. UNCHANGED call \/ \E r \in active : Begun(c, "cancel", r, "read")
    BY <1>6, CallMoves
  <2> QED
    BY <1>6, <2>1 DEF Cancel, Abort, Kinds, Onward, Returned, Begun, Claims, Alone, Fresh,
       Verdict, Offered, CallAt, CallBooked, RunBooked, CallsApart, HoldsIt, HoldsForRun,
       Launching, Launched, Deciding, Carries, Is, NoCall, Resumes
<1>7. ASSUME NEW c \in Calls, Scan(c) PROVE Booked'
  <2>1. PICK r \in Runs \cup {NoRun} : Claims(c, call[c].kind, r, "scan")
    BY <1>7, CallMoves
  <2> QED
    BY <1>7, <2>1 DEF Scan, Claims, Alone, CallAt, CallBooked, RunBooked, CallsApart, HoldsIt,
       HoldsForRun, Launching, Launched, Deciding, Carries, Is, NoCall, Resumes
<1>8. ASSUME NEW c \in Calls, Mark(c) PROVE Booked'
  <2>1. PICK r \in Runs \cup {NoRun} : Claims(c, call[c].kind, r, "scan")
    BY <1>8, CallMoves
  <2> QED
    BY <1>8, <2>1 DEF Mark, Claims, Alone, CallAt, CallBooked, RunBooked, CallsApart, HoldsIt,
       HoldsForRun, Launching, Launched, Deciding, Carries, Is, NoCall, Resumes
<1>9. ASSUME NEW c \in Calls, Listed(c) PROVE Booked'
  <2>1. Returned(c) /\ c \in Calls
    BY <1>9, CallMoves
  <2>2. /\ UNCHANGED <<active, launching, exec, cli>> /\ leases' = leases \ {c}
        /\ call[c].at \in {"scan", "check"} /\ call[c].kind \in {"list", "restart"} /\ c \notin Runs
    BY <1>9, <2>1 DEF Listed, Unlock, Scanned, CallAt, Launching, Launched, Deciding, Carries, Is,
       NoCall, Resumes
  <2>3. \A d \in Calls \ {c} : CallsApart(c, d) /\ CallsApart(d, c)
    OBVIOUS
  <2>4. \A d \in Calls \ {c} : CallBooked(d)'
    BY <1>9, <2>1, <2>2, <2>3 DEF Onward, Returned, Begun, Alone, CallAt, CallBooked, RunBooked,
       CallsApart, HoldsIt, HoldsForRun, Launching, Launched, Deciding, Carries, Is, NoCall, Resumes
  <2>5. CallBooked(c)'
    BY <1>9, <2>1, <2>2 DEF Onward, Returned, Begun, Alone, CallAt, CallBooked, RunBooked,
       CallsApart, HoldsIt, HoldsForRun, Launching, Launched, Deciding, Carries, Is, NoCall, Resumes
  <2>6. \A r \in Runs : RunBooked(r)'
    BY <1>9, <2>1, <2>2, <2>3 DEF Onward, Returned, Begun, Alone, CallAt, CallBooked, RunBooked,
       CallsApart, HoldsIt, HoldsForRun, Launching, Launched, Deciding, Carries, Is, NoCall, Resumes
  <2>7. (cli => leases = {})'
    BY <2>2
  <2> QED
    BY <2>4, <2>5, <2>6, <2>7
<1>10. ASSUME NEW c \in Calls, ReplayScanned(c) PROVE Booked'
  <2>1. Onward(c, "check") /\ c \in Calls
    BY <1>10, CallMoves
  <2>2. /\ UNCHANGED <<active, launching, exec, cli, leases>>
        /\ call[c].at = "scan" /\ call[c].kind = "restart" /\ c \notin Runs
    BY <1>10, <2>1 DEF ReplayScanned, Scanned, CallAt, Launching, Launched, Deciding, Carries, Is,
       NoCall, Resumes
  <2>3. \A d \in Calls \ {c} : CallsApart(c, d) /\ CallsApart(d, c)
    OBVIOUS
  <2>4. \A d \in Calls \ {c} : CallBooked(d)'
    BY <1>10, <2>1, <2>2, <2>3 DEF Onward, Returned, Begun, Alone, CallAt, CallBooked, RunBooked,
       CallsApart, HoldsIt, HoldsForRun, Launching, Launched, Deciding, Carries, Is, NoCall, Resumes
  <2>5. CallBooked(c)'
    BY <1>10, <2>1, <2>2 DEF Onward, Returned, Begun, Alone, CallAt, CallBooked, RunBooked,
       CallsApart, HoldsIt, HoldsForRun, Launching, Launched, Deciding, Carries, Is, NoCall, Resumes
  <2>6. \A r \in Runs : RunBooked(r)'
    BY <1>10, <2>1, <2>2, <2>3, SMTT(30) DEF Onward, Returned, Begun, Alone, CallAt, CallBooked, RunBooked,
       CallsApart, HoldsIt, HoldsForRun, Launching, Launched, Deciding, Carries, Is, NoCall, Resumes
  <2>7. (cli => leases = {})'
    BY <2>2
  <2> QED
    BY <2>4, <2>5, <2>6, <2>7
<1>11. ASSUME NEW c \in Calls, Replay(c) PROVE Booked'
  <2>1. PICK r \in Runs : Fresh(r) /\ Claims(c, "restart", r, "claim") /\ launching' = launching \cup {r}
    BY <1>11, CallMoves
  <2> QED
    BY <1>11, <2>1, SMTT(30) DEF Replay, Claim, Is, Onward, Returned, Begun, Claims, Alone, Fresh, Verdict,
       Offered, CallAt, CallBooked, RunBooked, CallsApart, HoldsIt, HoldsForRun, Launching,
       Launched, Deciding, Carries, Is, NoCall, Resumes
<1>12. ASSUME NEW c \in Calls, ReplayRefused(c) PROVE Booked'
  <2>1. Returned(c) /\ c \in Calls
    BY <1>12, CallMoves
  <2>2. /\ UNCHANGED <<active, launching, exec, cli>> /\ leases' = leases \ {c}
        /\ call[c].at \in {"scan", "check"} /\ call[c].kind \in {"list", "restart"} /\ c \notin Runs
    BY <1>12, <2>1 DEF ReplayRefused, Unlock, Is, CallAt, Launching, Launched, Deciding, Carries,
       Is, NoCall, Resumes
  <2>3. \A d \in Calls \ {c} : CallsApart(c, d) /\ CallsApart(d, c)
    OBVIOUS
  <2>4. \A d \in Calls \ {c} : CallBooked(d)'
    BY <1>12, <2>1, <2>2, <2>3 DEF Onward, Returned, Begun, Alone, CallAt, CallBooked, RunBooked,
       CallsApart, HoldsIt, HoldsForRun, Launching, Launched, Deciding, Carries, Is, NoCall, Resumes
  <2>5. CallBooked(c)'
    BY <1>12, <2>1, <2>2 DEF Onward, Returned, Begun, Alone, CallAt, CallBooked, RunBooked,
       CallsApart, HoldsIt, HoldsForRun, Launching, Launched, Deciding, Carries, Is, NoCall, Resumes
  <2>6. \A r \in Runs : RunBooked(r)'
    BY <1>12, <2>1, <2>2, <2>3 DEF Onward, Returned, Begun, Alone, CallAt, CallBooked, RunBooked,
       CallsApart, HoldsIt, HoldsForRun, Launching, Launched, Deciding, Carries, Is, NoCall, Resumes
  <2>7. (cli => leases = {})'
    BY <2>2
  <2> QED
    BY <2>4, <2>5, <2>6, <2>7
<1>13. ASSUME NEW c \in Calls, ClaimRefused(c) PROVE Booked'
  <2>1. Returned(c) /\ c \in Calls
    BY <1>13, CallMoves
  <2>2. /\ UNCHANGED <<active, exec, cli>> /\ leases' = leases \ {c} /\ launching' = launching \ {call[c].found}
        /\ call[c].at = "claim" /\ call[c].found \in Runs /\ c \notin Runs
    BY <1>13, <2>1 DEF ClaimRefused, Unlock, CallAt, Launching, Launched, Deciding, Carries, Is,
       NoCall, Resumes
  <2>3. \A d \in Calls \ {c} : CallsApart(c, d) /\ CallsApart(d, c)
    OBVIOUS
  <2>4. \A d \in Calls \ {c} : CallBooked(d)'
    BY <1>13, <2>1, <2>2, <2>3 DEF Onward, Returned, Begun, Alone, CallAt, CallBooked, RunBooked,
       CallsApart, HoldsIt, HoldsForRun, Launching, Launched, Deciding, Carries, Is, NoCall, Resumes
  <2>5. CallBooked(c)'
    BY <1>13, <2>1, <2>2 DEF Onward, Returned, Begun, Alone, CallAt, CallBooked, RunBooked,
       CallsApart, HoldsIt, HoldsForRun, Launching, Launched, Deciding, Carries, Is, NoCall, Resumes
  <2>6. \A r \in Runs : RunBooked(r)'
    BY <1>13, <2>1, <2>2, <2>3 DEF Onward, Returned, Begun, Alone, CallAt, CallBooked, RunBooked,
       CallsApart, HoldsIt, HoldsForRun, Launching, Launched, Deciding, Carries, Is, NoCall, Resumes
  <2>7. (cli => leases = {})'
    BY <2>2
  <2> QED
    BY <2>4, <2>5, <2>6, <2>7
<1>14. ASSUME NEW c \in Calls, Claimed(c) PROVE Booked'
  <2>1. Onward(c, "persist") /\ c \in Calls
    BY <1>14, CallMoves
  <2>2. /\ UNCHANGED <<active, launching, exec, cli>> /\ leases' = leases \cup {call[c].found} /\ ~cli
        /\ call[c].at = "claim" /\ call[c].kind \in {"start", "restart"} /\ call[c].found \in Runs /\ c \notin Runs /\ call[c].found \notin Calls
    BY <1>14, <2>1 DEF Claimed, CallAt, Launching, Launched, Deciding, Carries, Is, NoCall, Resumes
  <2>3. \A d \in Calls \ {c} : CallsApart(c, d) /\ CallsApart(d, c)
    OBVIOUS
  <2>4. \A d \in Calls \ {c} : CallBooked(d)'
    BY <1>14, <2>1, <2>2, <2>3 DEF Onward, Returned, Begun, Alone, CallAt, CallBooked, RunBooked,
       CallsApart, HoldsIt, HoldsForRun, Launching, Launched, Deciding, Carries, Is, NoCall, Resumes
  <2>5. CallBooked(c)'
    BY <1>14, <2>1, <2>2 DEF Onward, Returned, Begun, Alone, CallAt, CallBooked, RunBooked,
       CallsApart, HoldsIt, HoldsForRun, Launching, Launched, Deciding, Carries, Is, NoCall, Resumes
  <2>6. \A r \in Runs : RunBooked(r)'
    BY <1>14, <2>1, <2>2, <2>3 DEF Onward, Returned, Begun, Alone, CallAt, CallBooked, RunBooked,
       CallsApart, HoldsIt, HoldsForRun, Launching, Launched, Deciding, Carries, Is, NoCall, Resumes
  <2>7. (cli => leases = {})'
    BY <1>14, <2>1, <2>2 DEF Onward, Returned, Begun, Alone, CallAt, CallBooked, RunBooked,
       CallsApart, HoldsIt, HoldsForRun, Launching, Launched, Deciding, Carries, Is, NoCall, Resumes
  <2> QED
    BY <2>4, <2>5, <2>6, <2>7
<1>15. ASSUME NEW c \in Calls, Persist(c) PROVE Booked'
  <2>1. Onward(c, IF call[c].kind = "restart" THEN "link" ELSE "enter")
    BY <1>15, CallMoves
  <2>2. UNCHANGED <<active, launching, exec, cli, leases>> /\ call[c].at = "persist"
    BY <1>15 DEF Persist
  <2>3. \A d \in Calls \ {c} : CallsApart(c, d) /\ CallsApart(d, c)
    OBVIOUS
  <2>4. \A d \in Calls \ {c} : CallBooked(d)'
    BY <2>1, <2>2, <2>3 DEF Onward, Alone, CallAt, CallBooked, RunBooked, CallsApart, HoldsIt,
       HoldsForRun, Launching, Launched, Deciding, Carries, Is, NoCall, Resumes
  <2>5. CallBooked(c)'
    BY <2>1, <2>2 DEF Onward, Alone, CallAt, CallBooked, RunBooked, CallsApart, HoldsIt,
       HoldsForRun, Launching, Launched, Deciding, Carries, Is, NoCall, Resumes
  <2>6. \A r \in Runs : RunBooked(r)'
    BY <2>1, <2>2, <2>3 DEF Onward, Alone, CallAt, CallBooked, RunBooked, CallsApart, HoldsIt,
       HoldsForRun, Launching, Launched, Deciding, Carries, Is, NoCall, Resumes
  <2>7. (cli => leases = {})'
    BY <2>2
  <2> QED
    BY <2>4, <2>5, <2>6, <2>7
<1>16. ASSUME NEW c \in Calls, Link(c) PROVE Booked'
  <2>1. Onward(c, "enter")
    BY <1>16, CallMoves
  <2> QED
    BY <1>16, <2>1 DEF Link, Onward, Returned, Begun, Alone, CallAt, CallBooked, RunBooked,
       CallsApart, HoldsIt, HoldsForRun, Launching, Launched, Deciding, Carries, Is, NoCall, Resumes
<1>17. ASSUME NEW c \in Calls, LaunchFails(c) PROVE Booked'
  <2>1. Returned(c) /\ c \in Calls
    BY <1>17, CallMoves
  <2>2. /\ UNCHANGED <<active, exec, cli>> /\ leases' = leases \ {c, call[c].found}
        /\ launching' = launching \ {call[c].found} /\ call[c].at \in {"persist", "link"}
        /\ call[c].found \in Runs /\ c \notin Runs /\ call[c].found \notin Calls
    BY <1>17, <2>1 DEF LaunchFails, CallAt, Launching, Launched, Deciding, Carries, Is, NoCall,
       Resumes
  <2>3. \A d \in Calls \ {c} : CallsApart(c, d) /\ CallsApart(d, c)
    OBVIOUS
  <2>4. \A d \in Calls \ {c} : CallBooked(d)'
    BY <1>17, <2>1, <2>2, <2>3 DEF Onward, Returned, Begun, Alone, CallAt, CallBooked, RunBooked,
       CallsApart, HoldsIt, HoldsForRun, Launching, Launched, Deciding, Carries, Is, NoCall, Resumes
  <2>5. CallBooked(c)'
    BY <1>17, <2>1, <2>2 DEF Onward, Returned, Begun, Alone, CallAt, CallBooked, RunBooked,
       CallsApart, HoldsIt, HoldsForRun, Launching, Launched, Deciding, Carries, Is, NoCall, Resumes
  <2>6. \A r \in Runs : RunBooked(r)'
    BY <1>17, <2>1, <2>2, <2>3 DEF Onward, Returned, Begun, Alone, CallAt, CallBooked, RunBooked,
       CallsApart, HoldsIt, HoldsForRun, Launching, Launched, Deciding, Carries, Is, NoCall, Resumes
  <2>7. (cli => leases = {})'
    BY <2>2
  <2> QED
    BY <2>4, <2>5, <2>6, <2>7
<1>18. ASSUME NEW c \in Calls, ResumeClaim(c) PROVE Booked'
  <2>1. call[c].run \in Runs /\ Claims(c, "resume", call[c].run, "load")
    BY <1>18, CallMoves
  <2> QED
    BY <1>18, <2>1, SMTT(60) DEF ResumeClaim, Scanned, Crowded, Onward, Returned, Begun, Claims, Alone,
       Fresh, Verdict, Offered, CallAt, CallBooked, RunBooked, CallsApart, HoldsIt, HoldsForRun,
       Launching, Launched, Deciding, Carries, Is, NoCall, Resumes
<1>19. ASSUME NEW c \in Calls, ResumeRefused(c) PROVE Booked'
  <2>1. Returned(c) /\ c \in Calls
    BY <1>19, CallMoves
  <2>2. /\ UNCHANGED <<active, exec, cli>> /\ leases' = leases \ {c} /\ launching' = launching \ {call[c].run}
        /\ call[c].at = "scan" /\ call[c].kind = "resume" /\ c \notin Runs
    BY <1>19, <2>1 DEF ResumeRefused, Unlock, Scanned, CallAt, Launching, Launched, Deciding,
       Carries, Is, NoCall, Resumes
  <2>3. \A d \in Calls \ {c} : CallsApart(c, d) /\ CallsApart(d, c)
    OBVIOUS
  <2>4. \A d \in Calls \ {c} : CallBooked(d)'
    BY <1>19, <2>1, <2>2, <2>3 DEF Onward, Returned, Begun, Alone, CallAt, CallBooked, RunBooked,
       CallsApart, HoldsIt, HoldsForRun, Launching, Launched, Deciding, Carries, Is, NoCall, Resumes
  <2>5. CallBooked(c)'
    BY <1>19, <2>1, <2>2 DEF Onward, Returned, Begun, Alone, CallAt, CallBooked, RunBooked,
       CallsApart, HoldsIt, HoldsForRun, Launching, Launched, Deciding, Carries, Is, NoCall, Resumes
  <2>6. \A r \in Runs : RunBooked(r)'
    BY <1>19, <2>1, <2>2, <2>3 DEF Onward, Returned, Begun, Alone, CallAt, CallBooked, RunBooked,
       CallsApart, HoldsIt, HoldsForRun, Launching, Launched, Deciding, Carries, Is, NoCall, Resumes
  <2>7. (cli => leases = {})'
    BY <2>2
  <2> QED
    BY <2>4, <2>5, <2>6, <2>7
<1>20. ASSUME NEW c \in Calls, ResumeLoad(c) PROVE Booked'
  <2>1. Onward(c, "enter") /\ c \in Calls
    BY <1>20, CallMoves
  <2>2. /\ UNCHANGED <<active, launching, exec, cli, leases>>
        /\ call[c].at = "load" /\ call[c].kind = "resume" /\ call[c].found \in Runs /\ c \notin Runs
    BY <1>20, <2>1 DEF ResumeLoad, CallAt, Launching, Launched, Deciding, Carries, Is, NoCall,
       Resumes
  <2>3. \A d \in Calls \ {c} : CallsApart(c, d) /\ CallsApart(d, c)
    OBVIOUS
  <2>4. \A d \in Calls \ {c} : CallBooked(d)'
    BY <1>20, <2>1, <2>2, <2>3 DEF Onward, Returned, Begun, Alone, CallAt, CallBooked, RunBooked,
       CallsApart, HoldsIt, HoldsForRun, Launching, Launched, Deciding, Carries, Is, NoCall, Resumes
  <2>5. CallBooked(c)'
    BY <1>20, <2>1, <2>2 DEF Onward, Returned, Begun, Alone, CallAt, CallBooked, RunBooked,
       CallsApart, HoldsIt, HoldsForRun, Launching, Launched, Deciding, Carries, Is, NoCall, Resumes
  <2>6. \A r \in Runs : RunBooked(r)'
    BY <1>20, <2>1, <2>2, <2>3 DEF Onward, Returned, Begun, Alone, CallAt, CallBooked, RunBooked,
       CallsApart, HoldsIt, HoldsForRun, Launching, Launched, Deciding, Carries, Is, NoCall, Resumes
  <2>7. (cli => leases = {})'
    BY <2>2
  <2> QED
    BY <2>4, <2>5, <2>6, <2>7
<1>21. ASSUME NEW c \in Calls, ResumeUnavailable(c) PROVE Booked'
  <2>1. Returned(c) /\ c \in Calls
    BY <1>21, CallMoves
  <2>2. /\ UNCHANGED <<active, exec, cli>> /\ leases' = leases \ {c} /\ launching' = launching \ {call[c].found}
        /\ call[c].at = "load" /\ call[c].found \in Runs /\ c \notin Runs
    BY <1>21, <2>1 DEF ResumeUnavailable, Unlock, CallAt, Launching, Launched, Deciding, Carries,
       Is, NoCall, Resumes
  <2>3. \A d \in Calls \ {c} : CallsApart(c, d) /\ CallsApart(d, c)
    OBVIOUS
  <2>4. \A d \in Calls \ {c} : CallBooked(d)'
    BY <1>21, <2>1, <2>2, <2>3 DEF Onward, Returned, Begun, Alone, CallAt, CallBooked, RunBooked,
       CallsApart, HoldsIt, HoldsForRun, Launching, Launched, Deciding, Carries, Is, NoCall, Resumes
  <2>5. CallBooked(c)'
    BY <1>21, <2>1, <2>2 DEF Onward, Returned, Begun, Alone, CallAt, CallBooked, RunBooked,
       CallsApart, HoldsIt, HoldsForRun, Launching, Launched, Deciding, Carries, Is, NoCall, Resumes
  <2>6. \A r \in Runs : RunBooked(r)'
    BY <1>21, <2>1, <2>2, <2>3 DEF Onward, Returned, Begun, Alone, CallAt, CallBooked, RunBooked,
       CallsApart, HoldsIt, HoldsForRun, Launching, Launched, Deciding, Carries, Is, NoCall, Resumes
  <2>7. (cli => leases = {})'
    BY <2>2
  <2> QED
    BY <2>4, <2>5, <2>6, <2>7
<1>22. ASSUME NEW c \in Calls, Enter(c) PROVE Booked'
  <2>1. Onward(c, "provider") /\ c \in Calls
    BY <1>22, CallMoves
  <2>2. /\ UNCHANGED <<exec, cli>> /\ call[c].at = "enter" /\ call[c].found \in Runs /\ c \notin Runs
        /\ active' = active \cup {call[c].found} /\ launching' = launching \ {call[c].found}
        /\ leases' = IF call[c].kind = "resume" THEN (leases \ {c}) \cup {call[c].found} ELSE leases
    BY <1>22, <2>1 DEF Enter, CallAt, Launching, Launched, Deciding, Carries, Is, NoCall, Resumes
  <2>3. \A d \in Calls \ {c} : CallsApart(c, d) /\ CallsApart(d, c)
    OBVIOUS
  <2>4. \A d \in Calls \ {c} : CallBooked(d)'
    BY <1>22, <2>1, <2>2, <2>3 DEF Onward, Returned, Begun, Alone, CallAt, CallBooked, RunBooked,
       CallsApart, HoldsIt, HoldsForRun, Launching, Launched, Deciding, Carries, Is, NoCall, Resumes
  <2>5. CallBooked(c)'
    BY <1>22, <2>1, <2>2 DEF Onward, Returned, Begun, Alone, CallAt, CallBooked, RunBooked,
       CallsApart, HoldsIt, HoldsForRun, Launching, Launched, Deciding, Carries, Is, NoCall, Resumes
  <2>6. \A r \in Runs : RunBooked(r)'
    BY <1>22, <2>1, <2>2, <2>3 DEF Onward, Returned, Begun, Alone, CallAt, CallBooked, RunBooked,
       CallsApart, HoldsIt, HoldsForRun, Launching, Launched, Deciding, Carries, Is, NoCall, Resumes
  <2>7. (cli => leases = {})'
    BY <1>22, <2>1, <2>2 DEF Onward, Returned, Begun, Alone, CallAt, CallBooked, RunBooked,
       CallsApart, HoldsIt, HoldsForRun, Launching, Launched, Deciding, Carries, Is, NoCall, Resumes
  <2> QED
    BY <2>4, <2>5, <2>6, <2>7
<1>23. ASSUME NEW c \in Calls, Provider(c) PROVE Booked'
  <2>1. Returned(c) /\ c \in Calls
    BY <1>23, CallMoves
  <2>2. /\ UNCHANGED <<active, launching, cli>> /\ leases' = leases \ {c} /\ call[c].at = "provider"
        /\ exec' = [exec EXCEPT ![call[c].found] = IF call[c].kind = "resume" THEN "inspect" ELSE "start"]
        /\ call[c].found \in Runs /\ c \notin Runs
    BY <1>23, <2>1 DEF Provider, Unlock, CallAt, Launching, Launched, Deciding, Carries, Is,
       NoCall, Resumes
  <2>3. \A d \in Calls \ {c} : CallsApart(c, d) /\ CallsApart(d, c)
    OBVIOUS
  <2>4. \A d \in Calls \ {c} : CallBooked(d)'
    BY <1>23, <2>1, <2>2, <2>3 DEF Onward, Returned, Begun, Alone, CallAt, CallBooked, RunBooked,
       CallsApart, HoldsIt, HoldsForRun, Launching, Launched, Deciding, Carries, Is, NoCall, Resumes
  <2>5. CallBooked(c)'
    BY <1>23, <2>1, <2>2 DEF Onward, Returned, Begun, Alone, CallAt, CallBooked, RunBooked,
       CallsApart, HoldsIt, HoldsForRun, Launching, Launched, Deciding, Carries, Is, NoCall, Resumes
  <2>6. \A r \in Runs : RunBooked(r)'
    BY <1>23, <2>1, <2>2, <2>3 DEF Onward, Returned, Begun, Alone, CallAt, CallBooked, RunBooked,
       CallsApart, HoldsIt, HoldsForRun, Launching, Launched, Deciding, Carries, Is, NoCall, Resumes
  <2>7. (cli => leases = {})'
    BY <2>2
  <2> QED
    BY <2>4, <2>5, <2>6, <2>7
<1>24. ASSUME NEW c \in Calls, NoProvider(c) PROVE Booked'
  <2>1. Onward(c, "own")
    BY <1>24, CallMoves
  <2> QED
    BY <1>24, <2>1 DEF NoProvider, Onward, Returned, Begun, Alone, CallAt, CallBooked, RunBooked,
       CallsApart, HoldsIt, HoldsForRun, Launching, Launched, Deciding, Carries, Is, NoCall, Resumes
<1>25. ASSUME NEW c \in Calls, Own(c) PROVE Booked'
  <2>1. Onward(c, "fail")
    BY <1>25, CallMoves
  <2> QED
    BY <1>25, <2>1 DEF Own, Onward, Returned, Begun, Alone, CallAt, CallBooked, RunBooked,
       CallsApart, HoldsIt, HoldsForRun, Launching, Launched, Deciding, Carries, Is, NoCall, Resumes
<1>26. ASSUME NEW c \in Calls, FailStart(c) PROVE Booked'
  <2>1. Onward(c, "quit")
    BY <1>26, CallMoves
  <2> QED
    BY <1>26, <2>1 DEF FailStart, Onward, Returned, Begun, Alone, CallAt, CallBooked, RunBooked,
       CallsApart, HoldsIt, HoldsForRun, Launching, Launched, Deciding, Carries, Is, NoCall, Resumes
<1>27. ASSUME NEW c \in Calls, QuitStart(c) PROVE Booked'
  <2>1. Returned(c) /\ c \in Calls
    BY <1>27, CallMoves
  <2>2. /\ UNCHANGED <<launching, exec, cli>> /\ leases' = leases \ {c, call[c].found} /\ active' = active \ {call[c].found}
        /\ call[c].at = "quit" /\ call[c].found \in Runs /\ c \notin Runs /\ call[c].found \notin Calls
    BY <1>27, <2>1 DEF QuitStart, Forget, CallAt, Launching, Launched, Deciding, Carries, Is,
       NoCall, Resumes
  <2>3. \A d \in Calls \ {c} : CallsApart(c, d) /\ CallsApart(d, c)
    OBVIOUS
  <2>4. \A d \in Calls \ {c} : CallBooked(d)'
    BY <1>27, <2>1, <2>2, <2>3 DEF Onward, Returned, Begun, Alone, CallAt, CallBooked, RunBooked,
       CallsApart, HoldsIt, HoldsForRun, Launching, Launched, Deciding, Carries, Is, NoCall, Resumes
  <2>5. CallBooked(c)'
    BY <1>27, <2>1, <2>2 DEF Onward, Returned, Begun, Alone, CallAt, CallBooked, RunBooked,
       CallsApart, HoldsIt, HoldsForRun, Launching, Launched, Deciding, Carries, Is, NoCall, Resumes
  <2>6. \A r \in Runs : RunBooked(r)'
    BY <1>27, <2>1, <2>2, <2>3 DEF Onward, Returned, Begun, Alone, CallAt, CallBooked, RunBooked,
       CallsApart, HoldsIt, HoldsForRun, Launching, Launched, Deciding, Carries, Is, NoCall, Resumes
  <2>7. (cli => leases = {})'
    BY <2>2
  <2> QED
    BY <2>4, <2>5, <2>6, <2>7
<1>28. ASSUME NEW c \in Calls, ReadReview(c) PROVE Booked'
  <2>1. Onward(c, "write") \/ Onward(c, "audit") \/ Returned(c)
    BY <1>28, CallMoves
  <2> QED
    BY <1>28, <2>1 DEF ReadReview, GiveUp, Abort, Verdict, Onward, Returned, Begun, Claims, Alone,
       Fresh, Verdict, Offered, CallAt, CallBooked, RunBooked, CallsApart, HoldsIt, HoldsForRun,
       Launching, Launched, Deciding, Carries, Is, NoCall, Resumes
<1>29. ASSUME NEW c \in Calls, WriteReview(c) PROVE Booked'
  <2>1. Onward(c, "audit")
    BY <1>29, CallMoves
  <2> QED
    BY <1>29, <2>1 DEF WriteReview, Verdict, Onward, Returned, Begun, Alone, CallAt, CallBooked,
       RunBooked, CallsApart, HoldsIt, HoldsForRun, Launching, Launched, Deciding, Carries, Is,
       NoCall, Resumes
<1>30. ASSUME NEW c \in Calls, AuditReview(c) PROVE Booked'
  <2>1. Onward(c, "settle")
    BY <1>30, CallMoves
  <2> QED
    BY <1>30, <2>1 DEF AuditReview, Verdict, Onward, Returned, Begun, Alone, CallAt, CallBooked,
       RunBooked, CallsApart, HoldsIt, HoldsForRun, Launching, Launched, Deciding, Carries, Is,
       NoCall, Resumes
<1>31. ASSUME NEW c \in Calls, SettleReview(c) PROVE Booked'
  <2>1. Returned(c)
    BY <1>31, CallMoves
  <2> QED
    BY <1>31, <2>1, SMTT(30) DEF SettleReview, Verdict, Onward, Returned, Begun, Alone, CallAt, CallBooked,
       RunBooked, CallsApart, HoldsIt, HoldsForRun, Launching, Launched, Deciding, Carries, Is,
       NoCall, Resumes
<1>32. ASSUME NEW r \in Runs, Started(r) PROVE Booked'
  BY <1>32 DEF Started, At, Goto, CallAt, CallBooked, RunBooked, CallsApart, HoldsIt, HoldsForRun,
     Launching, Launched, Deciding, Carries, Is, NoCall, Resumes
<1>33. ASSUME NEW r \in Runs, PlanCreated(r) PROVE Booked'
  BY <1>33 DEF PlanCreated, At, Goto, CallAt, CallBooked, RunBooked, CallsApart, HoldsIt,
     HoldsForRun, Launching, Launched, Deciding, Carries, Is, NoCall, Resumes
<1>34. ASSUME NEW r \in Runs, CheckpointCreated(r) PROVE Booked'
  BY <1>34 DEF CheckpointCreated, At, Goto, Planned, CallAt, CallBooked, RunBooked, CallsApart,
     HoldsIt, HoldsForRun, Launching, Launched, Deciding, Carries, Is, NoCall, Resumes
<1>35. ASSUME NEW r \in Runs, Throws(r) PROVE Booked'
  BY <1>35 DEF Throws, At, Goto, CallAt, CallBooked, RunBooked, CallsApart, HoldsIt, HoldsForRun,
     Launching, Launched, Deciding, Carries, Is, NoCall, Resumes
<1>36. ASSUME NEW r \in Runs, Inspected(r) PROVE Booked'
  <2>1. PICK p \in Phases \ {"idle", "leave"} : exec' = [exec EXCEPT ![r] = p]
    BY <1>36 DEF Inspected, Goto, Planned, Phases
  <2>2. exec[r] \notin {"idle", "leave"} /\ UNCHANGED <<active, launching, leases, cli, call>>
    BY <1>36 DEF Inspected, At
  <2> QED
    BY <2>1, <2>2, FlowStaysBooked
<1>37. ASSUME NEW r \in Runs, Prepare(r) PROVE Booked'
  <2>1. PICK p \in Phases \ {"idle", "leave"} : exec' = [exec EXCEPT ![r] = p]
    BY <1>37 DEF Prepare, Goto, Planned, Phases
  <2>2. exec[r] \notin {"idle", "leave"} /\ UNCHANGED <<active, launching, leases, cli, call>>
    BY <1>37 DEF Prepare, At
  <2> QED
    BY <2>1, <2>2, FlowStaysBooked
<1>38. ASSUME NEW r \in Runs, Settled(r) PROVE Booked'
  BY <1>38 DEF Settled, At, Goto, Approved, CallAt, CallBooked, RunBooked, CallsApart, HoldsIt,
     HoldsForRun, Launching, Launched, Deciding, Carries, Is, NoCall, Resumes
<1>39. ASSUME NEW r \in Runs, Ask(r) PROVE Booked'
  <2>1. PICK p \in Phases \ {"idle", "leave"} : exec' = [exec EXCEPT ![r] = p]
    BY <1>39 DEF Ask, Goto, Planned, Phases
  <2>2. exec[r] \notin {"idle", "leave"} /\ UNCHANGED <<active, launching, leases, cli, call>>
    BY <1>39 DEF Ask, At
  <2> QED
    BY <2>1, <2>2, FlowStaysBooked
<1>40. ASSUME NEW r \in Runs, Answered(r) PROVE Booked'
  BY <1>40 DEF Answered, At, Goto, Approved, CallAt, CallBooked, RunBooked, CallsApart, HoldsIt,
     HoldsForRun, Launching, Launched, Deciding, Carries, Is, NoCall, Resumes
<1>41. ASSUME NEW r \in Runs, Resumed(r) PROVE Booked'
  BY <1>41 DEF Resumed, At, Goto, CallAt, CallBooked, RunBooked, CallsApart, HoldsIt, HoldsForRun,
     Launching, Launched, Deciding, Carries, Is, NoCall, Resumes
<1>42. ASSUME NEW r \in Runs, Fails(r) PROVE Booked'
  BY <1>42 DEF Fails, At, Goto, CallAt, CallBooked, RunBooked, CallsApart, HoldsIt, HoldsForRun,
     Launching, Launched, Deciding, Carries, Is, NoCall, Resumes
<1>43. ASSUME NEW r \in Runs, Blocked(r) PROVE Booked'
  BY <1>43 DEF Blocked, At, Goto, CallAt, CallBooked, RunBooked, CallsApart, HoldsIt, HoldsForRun,
     Launching, Launched, Deciding, Carries, Is, NoCall, Resumes
<1>44. ASSUME NEW r \in Runs, Close(r) PROVE Booked'
  BY <1>44 DEF Close, At, Goto, CallAt, CallBooked, RunBooked, CallsApart, HoldsIt, HoldsForRun,
     Launching, Launched, Deciding, Carries, Is, NoCall, Resumes
<1>45. ASSUME NEW r \in Runs, Leave(r) PROVE Booked'
  BY <1>45 DEF Leave, Forget, At, Goto, CallAt, CallBooked, RunBooked, CallsApart, HoldsIt,
     HoldsForRun, Launching, Launched, Deciding, Carries, Is, NoCall, Resumes
<1>46. ASSUME NEW r \in Runs, Finish(r) PROVE Booked'
  BY <1>46 DEF Finish, At, Goto, CallAt, CallBooked, RunBooked, CallsApart, HoldsIt, HoldsForRun,
     Launching, Launched, Deciding, Carries, Is, NoCall, Resumes
<1>47. CASE Cli
  BY <1>47 DEF Cli, CallAt, CallBooked, RunBooked, CallsApart, HoldsIt, HoldsForRun, Launching,
     Launched, Deciding, Carries, Is, NoCall, Resumes
<1>48. CASE Crash
  BY <1>48 DEF Crash, NoCall, CallAt, CallBooked, RunBooked, CallsApart, HoldsIt, HoldsForRun,
     Launching, Launched, Deciding, Carries, Is, NoCall, Resumes
<1> QED
  BY <1>1, <1>2, <1>3, <1>4, <1>5, <1>6, <1>7, <1>8, <1>9, <1>10, <1>11, <1>12, <1>13, <1>14,
     <1>15, <1>16, <1>17, <1>18, <1>19, <1>20, <1>21, <1>22, <1>23, <1>24, <1>25, <1>26, <1>27,
     <1>28, <1>29, <1>30, <1>31, <1>32, <1>33, <1>34, <1>35, <1>36, <1>37, <1>38, <1>39, <1>40,
     <1>41, <1>42, <1>43, <1>44, <1>45, <1>46, <1>47, <1>48 DEF Next, CallStep, RunStep

Growth ==
  \/ active' \cup launching' \subseteq active \cup launching
  \/ ~Crowded /\ active' = active /\ \E r \in Runs : launching' = launching \cup {r}

\* Only a claim makes more of what is active and launching.
LEMMA GrowthStep ==
  ASSUME Typed, BooksInv, [Next]_vars
  PROVE  Growth
<1> USE DEF Growth, files, broker, memory, bounds
<1>1. CASE UNCHANGED vars
  BY <1>1 DEF vars
<1>2. ASSUME NEW c \in Calls, List(c) PROVE Growth
  BY <1>2 DEF List, Lock
<1>3. ASSUME NEW c \in Calls, Recover(c) PROVE Growth
  BY <1>3 DEF Recover, Lock, Offered
<1>4. ASSUME NEW c \in Calls, Start(c) PROVE Growth
  <2>1. PICK r \in Runs : launching' = launching \cup {r}
    BY <1>4, CallMoves
  <2> QED
    BY <1>4, <2>1 DEF Start, Claim
<1>5. ASSUME NEW c \in Calls, Decide(c) PROVE Growth
  BY <1>5 DEF Decide, Kinds
<1>6. ASSUME NEW c \in Calls, Cancel(c) PROVE Growth
  BY <1>6 DEF Cancel, Abort, Kinds
<1>7. ASSUME NEW c \in Calls, Scan(c) PROVE Growth
  BY <1>7 DEF Scan, Unfinished
<1>8. ASSUME NEW c \in Calls, Mark(c) PROVE Growth
  BY <1>8 DEF Mark
<1>9. ASSUME NEW c \in Calls, Listed(c) PROVE Growth
  BY <1>9 DEF Listed, Unlock, Scanned
<1>10. ASSUME NEW c \in Calls, ReplayScanned(c) PROVE Growth
  BY <1>10 DEF ReplayScanned, Scanned
<1>11. ASSUME NEW c \in Calls, Replay(c) PROVE Growth
  <2>1. PICK r \in Runs : launching' = launching \cup {r}
    BY <1>11, CallMoves
  <2> QED
    BY <1>11, <2>1 DEF Replay, Claim
<1>12. ASSUME NEW c \in Calls, ReplayRefused(c) PROVE Growth
  BY <1>12 DEF ReplayRefused, Unlock, Is
<1>13. ASSUME NEW c \in Calls, ClaimRefused(c) PROVE Growth
  BY <1>13 DEF ClaimRefused, Unlock
<1>14. ASSUME NEW c \in Calls, Claimed(c) PROVE Growth
  BY <1>14 DEF Claimed
<1>15. ASSUME NEW c \in Calls, Persist(c) PROVE Growth
  BY <1>15 DEF Persist
<1>16. ASSUME NEW c \in Calls, Link(c) PROVE Growth
  BY <1>16 DEF Link
<1>17. ASSUME NEW c \in Calls, LaunchFails(c) PROVE Growth
  BY <1>17 DEF LaunchFails
<1>18. ASSUME NEW c \in Calls, ResumeClaim(c) PROVE Growth
  <2>1. call[c].run \in Runs /\ launching' = launching \cup {call[c].run}
    BY <1>18, CallMoves DEF ResumeClaim
  <2> QED
    BY <1>18, <2>1 DEF ResumeClaim
<1>19. ASSUME NEW c \in Calls, ResumeRefused(c) PROVE Growth
  BY <1>19 DEF ResumeRefused, Unlock, Scanned
<1>20. ASSUME NEW c \in Calls, ResumeLoad(c) PROVE Growth
  BY <1>20 DEF ResumeLoad
<1>21. ASSUME NEW c \in Calls, ResumeUnavailable(c) PROVE Growth
  BY <1>21 DEF ResumeUnavailable, Unlock
<1>22. ASSUME NEW c \in Calls, Enter(c) PROVE Growth
  <2>1. call[c].found \in launching
    BY <1>22 DEF Enter, BooksInv, CallBooked, Launching
  <2> QED
    BY <1>22, <2>1 DEF Enter
<1>23. ASSUME NEW c \in Calls, Provider(c) PROVE Growth
  BY <1>23 DEF Provider, Unlock
<1>24. ASSUME NEW c \in Calls, NoProvider(c) PROVE Growth
  BY <1>24 DEF NoProvider
<1>25. ASSUME NEW c \in Calls, Own(c) PROVE Growth
  BY <1>25 DEF Own
<1>26. ASSUME NEW c \in Calls, FailStart(c) PROVE Growth
  BY <1>26 DEF FailStart
<1>27. ASSUME NEW c \in Calls, QuitStart(c) PROVE Growth
  BY <1>27 DEF QuitStart, Forget
<1>28. ASSUME NEW c \in Calls, ReadReview(c) PROVE Growth
  BY <1>28 DEF ReadReview, GiveUp, Abort, Verdict
<1>29. ASSUME NEW c \in Calls, WriteReview(c) PROVE Growth
  BY <1>29 DEF WriteReview, Verdict
<1>30. ASSUME NEW c \in Calls, AuditReview(c) PROVE Growth
  BY <1>30 DEF AuditReview, Verdict
<1>31. ASSUME NEW c \in Calls, SettleReview(c) PROVE Growth
  BY <1>31 DEF SettleReview, Verdict
<1>32. ASSUME NEW r \in Runs, Started(r) PROVE Growth
  BY <1>32 DEF Started, At, Goto
<1>33. ASSUME NEW r \in Runs, PlanCreated(r) PROVE Growth
  BY <1>33 DEF PlanCreated, At, Goto
<1>34. ASSUME NEW r \in Runs, CheckpointCreated(r) PROVE Growth
  BY <1>34 DEF CheckpointCreated, At, Goto, Planned
<1>35. ASSUME NEW r \in Runs, Throws(r) PROVE Growth
  BY <1>35 DEF Throws, At, Goto
<1>36. ASSUME NEW r \in Runs, Inspected(r) PROVE Growth
  BY <1>36 DEF Inspected, At, Goto, Planned
<1>37. ASSUME NEW r \in Runs, Prepare(r) PROVE Growth
  BY <1>37 DEF Prepare, At, Goto
<1>38. ASSUME NEW r \in Runs, Settled(r) PROVE Growth
  BY <1>38 DEF Settled, At, Goto, Approved
<1>39. ASSUME NEW r \in Runs, Ask(r) PROVE Growth
  BY <1>39 DEF Ask, At, Goto
<1>40. ASSUME NEW r \in Runs, Answered(r) PROVE Growth
  BY <1>40 DEF Answered, At, Goto, Approved
<1>41. ASSUME NEW r \in Runs, Resumed(r) PROVE Growth
  BY <1>41 DEF Resumed, At, Goto
<1>42. ASSUME NEW r \in Runs, Fails(r) PROVE Growth
  BY <1>42 DEF Fails, At, Goto
<1>43. ASSUME NEW r \in Runs, Blocked(r) PROVE Growth
  BY <1>43 DEF Blocked, At, Goto
<1>44. ASSUME NEW r \in Runs, Close(r) PROVE Growth
  BY <1>44 DEF Close, At, Goto
<1>45. ASSUME NEW r \in Runs, Leave(r) PROVE Growth
  BY <1>45 DEF Leave, Forget, At, Goto
<1>46. ASSUME NEW r \in Runs, Finish(r) PROVE Growth
  BY <1>46 DEF Finish, At, Goto
<1>47. CASE Cli
  BY <1>47 DEF Cli
<1>48. CASE Crash
  BY <1>48 DEF Crash, NoCall
<1> QED
  BY <1>1, <1>2, <1>3, <1>4, <1>5, <1>6, <1>7, <1>8, <1>9, <1>10, <1>11, <1>12, <1>13, <1>14,
     <1>15, <1>16, <1>17, <1>18, <1>19, <1>20, <1>21, <1>22, <1>23, <1>24, <1>25, <1>26, <1>27,
     <1>28, <1>29, <1>30, <1>31, <1>32, <1>33, <1>34, <1>35, <1>36, <1>37, <1>38, <1>39, <1>40,
     <1>41, <1>42, <1>43, <1>44, <1>45, <1>46, <1>47, <1>48 DEF Next, CallStep, RunStep

\* The Runs that are active or launched are few enough to be counted.
LEMMA CountStep ==
  ASSUME Typed, BooksInv, CountInv, [Next]_vars
  PROVE  CountInv'
<1>1. /\ IsFiniteSet(active) /\ IsFiniteSet(launching) /\ IsFiniteSet(active \cup launching)
      /\ Cardinality(active \cup launching) <= MaxActive /\ Cardinality(active \cup launching) \in Nat
      /\ MaxActive \in Nat
  BY FS_Union, FS_CardinalityType, DesktopAssumption DEF CountInv, CapacityRespected
<1>2. CASE active' \cup launching' \subseteq active \cup launching
  <2>1. /\ IsFiniteSet(active' \cup launching')
        /\ Cardinality(active' \cup launching') <= Cardinality(active \cup launching)
        /\ Cardinality(active' \cup launching') \in Nat
    BY <1>1, <1>2, FS_Subset, FS_CardinalityType
  <2>2. IsFiniteSet(active') /\ IsFiniteSet(launching')
    BY <2>1, FS_Subset
  <2> QED
    BY <1>1, <2>1, <2>2 DEF CountInv, CapacityRespected
<1>3. ASSUME ~Crowded, active' = active, NEW r \in Runs, launching' = launching \cup {r} PROVE CountInv'
  <2>1. /\ Cardinality(active) \in Nat /\ Cardinality(launching) \in Nat
        /\ Cardinality(active \cap launching) \in Nat
        /\ Cardinality(active \cup launching) = Cardinality(active) + Cardinality(launching)
                                                  - Cardinality(active \cap launching)
    BY <1>1, FS_Union, FS_CardinalityType, FS_Intersection
  <2>2. Cardinality(active \cup launching) + 1 <= MaxActive
    BY <1>1, <1>3, <2>1 DEF Crowded
  <2>3. /\ IsFiniteSet((active \cup launching) \cup {r})
        /\ \/ Cardinality((active \cup launching) \cup {r}) = Cardinality(active \cup launching)
           \/ Cardinality((active \cup launching) \cup {r}) = Cardinality(active \cup launching) + 1
    BY <1>1, FS_AddElement
  <2>4. active' \cup launching' = (active \cup launching) \cup {r}
    BY <1>3
  <2>5. Cardinality(active' \cup launching') <= MaxActive
    BY <1>1, <2>2, <2>3, <2>4
  <2>6. IsFiniteSet(active') /\ IsFiniteSet(launching')
    BY <2>3, <2>4, FS_Subset
  <2> QED
    BY <2>5, <2>6 DEF CountInv, CapacityRespected
<1> QED
  BY <1>2, <1>3, GrowthStep DEF Growth

\* The books in the words of the property.
LEMMA BooksFacts == Typed /\ BooksInv => NothingLeaks
<1> SUFFICES ASSUME Typed, BooksInv PROVE NothingLeaks
  OBVIOUS
<1>1. /\ \A c \in Calls : CallAt(c) /\ CallBooked(c)
      /\ \A r \in Runs : RunBooked(r)
      /\ launching \subseteq Runs /\ active \subseteq Runs /\ leases \subseteq Runs \cup Calls
      /\ call \in [Calls -> CallStates] /\ \A x \in Calls : x \notin Runs
  BY DesktopAssumption DEF BooksInv, Typed, SetsTyped, CallsTyped
<1>2. launching = {call[c].found : c \in InFlight(Launching)}
  <2>1. \A r \in launching : r \in {call[c].found : c \in InFlight(Launching)}
    BY <1>1 DEF RunBooked, InFlight
  <2>2. \A c \in InFlight(Launching) : call[c].found \in launching
    BY <1>1 DEF CallBooked, InFlight
  <2> QED
    BY <2>1, <2>2
<1>3. active = {r \in Runs : exec[r] # "idle"} \cup {call[c].found : c \in InFlight(Launched)}
  <2>1. \A r \in active : exec[r] # "idle" \/ r \in {call[c].found : c \in InFlight(Launched)}
    BY <1>1 DEF RunBooked, InFlight
  <2>2. \A c \in InFlight(Launched) : call[c].found \in active
    BY <1>1 DEF CallBooked, InFlight
  <2>3. \A r \in Runs : exec[r] # "idle" => r \in active
    BY <1>1 DEF RunBooked
  <2> QED
    BY <1>1, <2>1, <2>2, <2>3
<1> DEFINE A == {r \in Runs : exec[r] \notin {"idle", "leave"}}
           B == {call[c].found : c \in {d \in InFlight({"persist", "link", "enter"} \cup Launched) :
                                          ~Is(d, "resume", "enter")}}
           D == {c \in InFlight(Steps) : call[c].kind \in {"list", "restart"}}
           E == {c \in InFlight({"scan", "load", "enter"}) : call[c].kind = "resume"}
<1>4. leases = A \cup B \cup D \cup E
  <2>1. \A c \in Calls : call[c].at \in Steps <=> call[c].at # "none"
    BY <1>1 DEF CallStates, Steps, Launching, Launched, Deciding
  <2>2. \A c \in Calls : c \in D \cup E <=> HoldsIt(c)
    BY <2>1 DEF HoldsIt, InFlight
  <2>3. \A x : x \in B <=> \E c \in Calls : HoldsForRun(c) /\ call[c].found = x
    BY DEF HoldsForRun, InFlight
  <2>4. \A c \in Calls : HoldsForRun(c) => call[c].found \in Runs
    BY <1>1 DEF HoldsForRun, CallAt, Carries, Launching
  <2>5. \A c \in Calls : c \in leases <=> c \in D \cup E
    BY <1>1, <2>2 DEF CallBooked
  <2>6. \A r \in Runs : r \in leases <=> r \in A \cup B
    <3>1. ASSUME NEW r \in Runs, r \in leases PROVE r \in A \cup B
      BY <1>1, <2>3, <3>1 DEF RunBooked
    <3>2. ASSUME NEW r \in Runs, r \in A PROVE r \in leases
      BY <1>1, <3>2 DEF RunBooked
    <3>3. ASSUME NEW r \in Runs, r \in B PROVE r \in leases
      <4>1. PICK c \in Calls : HoldsForRun(c) /\ call[c].found = r
        BY <2>3, <3>3
      <4> QED
        BY <1>1, <4>1 DEF CallBooked
    <3> QED
      BY <3>1, <3>2, <3>3
  <2>7. D \cup E \subseteq Calls /\ A \cup B \subseteq Runs
    BY <2>3, <2>4 DEF InFlight
  <2> HIDE DEF A, B, D, E
  <2> QED
    BY <1>1, <2>5, <2>6, <2>7
<1> QED
  BY <1>2, <1>3, <1>4 DEF NothingLeaks, BooksInv

\* The manager's books: what it holds is what is under way, and no more of it than is
\* allowed.  The hypothesis is that no two resumes of one Run read its events at once:
\* the one that is refused then takes the mark of the other away.
THEOREM BooksAreKeptCorrect ==
  ASSUME ~({"scan", "resume"} \subseteq Overlaps)
  PROVE  Spec => []BooksAreKept
<1>1. Init => Typed /\ BooksInv /\ CountInv
  <2>1. Init => CountInv
    BY FS_EmptySet, DesktopAssumption DEF Init, CountInv, CapacityRespected
  <2> QED
    BY <2>1, TypeInit, BooksInit
<1>2. Typed /\ BooksInv /\ CountInv /\ [Next]_vars => (Typed /\ BooksInv /\ CountInv)'
  <2> SUFFICES ASSUME Typed, BooksInv, CountInv, [Next]_vars PROVE (Typed /\ BooksInv /\ CountInv)'
    OBVIOUS
  <2>1. Typed' /\ CountInv'
    BY TypeStep, CountStep
  <2>2. (\A c \in Calls : CallAt(c)') /\ (\A c, d \in Calls : c # d => CallsApart(c, d)') /\ Booked'
    BY ShapeStep, ApartStep, BookStep
  <2> QED
    BY <2>1, <2>2 DEF BooksInv, Booked
<1>3. Typed /\ BooksInv /\ CountInv => BooksAreKept
  BY BooksFacts DEF BooksAreKept, CountInv
<1> QED
  BY <1>1, <1>2, <1>3, PTL DEF Spec
=============================================================================
