--------------------------- MODULE PublicReports ----------------------------
(***************************************************************************)
(* The public bug report of a Run (src/public-bug-report.ts): the dialog   *)
(* of the window, the requests it sends to the main process, which builds  *)
(* the report anew for each of them from the state the Run has then, and   *)
(* the lookup of public issues that carry the report's signature.          *)
(*                                                                         *)
(* A Run is abstracted to the facts a report is built from: the messages   *)
(* its failure is classified by, the state that enters the signature, and  *)
(* the counters that are shown but not signed.                             *)
(***************************************************************************)
EXTENDS Naturals, Sequences, FiniteSets, SequencesExt

CONSTANTS Runs, States,
          CacheLimit,   \* 64 signatures in the code
          MaxRequests,  \* requests of the window in one behaviour
          MaxChanges    \* changes of the Runs' facts in one behaviour

ASSUME ReportBounds == {CacheLimit, MaxRequests, MaxChanges} \subseteq Nat

VARIABLES
    facts,     \* what the Run history says of each Run
    picked,    \* the Run selected in the window
    dialog,    \* the report dialog is open
    preview,   \* the preview it shows: a set of at most one
    busy,      \* preparing, saving or opening: which buttons are disabled
    requests,  \* requests the main process works on
    cache,     \* the duplicate lookups it remembers, oldest first
    issues,    \* signatures of open public issues
    opened,    \* what was opened in the browser, with what the user had confirmed
    sent, changes

reportVars == <<facts, picked, dialog, preview, busy, requests, cache, issues,
                opened, sent, changes>>

(* classifyFailure: the first pattern, in this order, that one of the      *)
(* messages matches.                                                       *)
Patterns == <<"checkpoint_entry_limit", "turn_budget_exceeded", "provider_rate_limited",
              "provider_authentication", "provider_timeout">>
FailureCode(matched) ==
    LET First == {i \in 1 .. Len(Patterns) : Patterns[i] \in matched}
    IN  IF First = {} THEN "unclassified"
        ELSE Patterns[CHOOSE i \in First : \A j \in First : i <= j]

Messages == {{}, {"provider_timeout", "provider_rate_limited"}}
Facts == [messages : Messages, state : States, counters : 0 .. 1]

\* buildPublicBugReport: digests stand for what is digested.  The preview is
\* the report with its digest; every field of it would be published.
Signature(f) == <<FailureCode(f.messages), f.state>>
Report(f) == [signature |-> Signature(f), counters |-> f.counters]
Sha256(report) == report

Signatures == {Signature(f) : f \in Facts}
LookupResults == {"found", "none", "unavailable"}

ReportTypeOK ==
    /\ facts \in [Runs -> Facts] /\ picked \in Runs /\ dialog \in BOOLEAN
    /\ Cardinality(preview) <= 1
    /\ preview \subseteq [report : {Report(f) : f \in Facts}, duplicate : LookupResults]
    /\ busy \subseteq {"prepare", "save", "open"}
    /\ issues \subseteq Signatures /\ Len(cache) <= CacheLimit

ReportInit ==
    /\ facts \in [Runs -> {f \in Facts : f.counters = 0}] /\ picked \in Runs
    /\ dialog = FALSE /\ preview = {} /\ busy = {}
    /\ requests = {} /\ cache = <<>> /\ issues \in SUBSET Signatures
    /\ opened = {} /\ sent = 0 /\ changes = 0
---------------------------------------------------------------------------
(* The window.  A request carries the Run selected when it is sent and, to *)
(* open a report, the digest of the preview the user confirmed; "shown" is *)
(* that preview, for the properties only.                                  *)

Send(kind, shown) ==
    /\ sent < MaxRequests /\ sent' = sent + 1
    /\ busy' = busy \union {kind}
    /\ requests' = requests \union
         {[id |-> sent, kind |-> kind, run |-> picked, stage |-> "list",
           confirmed |-> {Sha256(p.report) : p \in shown}, shown |-> shown, report |-> {}]}

BeginBugReport ==
    /\ ~dialog /\ dialog' = TRUE /\ preview' = {}
    /\ Send("prepare", {})
    /\ UNCHANGED <<facts, picked, cache, issues, opened, changes>>

PrepareBugReport ==
    /\ dialog /\ preview = {} /\ busy = {}
    /\ Send("prepare", {})
    /\ UNCHANGED <<facts, picked, dialog, preview, cache, issues, opened, changes>>

SaveOrOpen ==
    /\ dialog /\ preview # {} /\ busy = {}
    /\ \E kind \in {"save", "open"} : Send(kind, preview)
    /\ UNCHANGED <<facts, picked, dialog, preview, cache, issues, opened, changes>>

CloseDialog ==
    /\ dialog /\ dialog' = FALSE
    /\ UNCHANGED <<facts, picked, preview, busy, requests, cache, issues, opened, sent, changes>>

\* Another Run is selected, by the user or by the answer of startRun: the
\* dialog is closed and forgets its preview.
SelectRun ==
    /\ \E r \in Runs \ {picked} : picked' = r
    /\ dialog' = FALSE /\ preview' = {}
    /\ UNCHANGED <<facts, busy, requests, cache, issues, opened, sent, changes>>
---------------------------------------------------------------------------
(* The main process.                                                       *)

Finished(c) == requests' = requests \ {c} /\ busy' = busy \ {c.kind}

Remembered(signature) == {i \in 1 .. Len(cache) : cache[i].signature = signature}
Fresh(signature) == {cache[i].result : i \in {j \in Remembered(signature) : cache[j].fresh}}

\* Map.set keeps the place of a known key; beyond the limit the oldest goes.
Remember(signature, result) ==
    LET entry == [signature |-> signature, result |-> result, fresh |-> TRUE]
        longer == IF Remembered(signature) = {} THEN Append(cache, entry)
                  ELSE [i \in DOMAIN cache |-> IF i \in Remembered(signature) THEN entry ELSE cache[i]]
    IN  cache' = IF Len(longer) > CacheLimit THEN Tail(longer) ELSE longer

\* What is opened: the issue that was found, else the prefilled form, also when
\* the lookup was not answered.
Open(c, report, duplicate) ==
    /\ opened' = opened \union {[report |-> report, shown |-> c.shown, duplicate |-> duplicate]}
    /\ dialog' = FALSE

\* MUTANT: the digest the user confirmed is not compared.
DeliverUnconfirmed(c, report, duplicate) ==
    /\ Finished(c)
    /\ \/ /\ c.kind = "prepare"
          /\ preview' = {[report |-> report, duplicate |-> duplicate]}
          /\ UNCHANGED <<dialog, opened>>
       \/ /\ c.kind = "open" /\ Open(c, report, duplicate) /\ UNCHANGED preview

\* The answer, once the report is built and its duplicates are looked up.
Deliver(c, report, duplicate) ==
    /\ Finished(c)
    /\ \/ /\ c.kind = "prepare"
          /\ preview' = {[report |-> report, duplicate |-> duplicate]}
          /\ UNCHANGED <<dialog, opened>>
       \/ /\ c.kind = "open" /\ c.confirmed = {Sha256(report)}
          /\ Open(c, report, duplicate) /\ UNCHANGED preview
       \/ /\ c.kind = "open" /\ c.confirmed # {Sha256(report)}
          /\ UNCHANGED <<preview, dialog, opened>>

\* Built from the Run as it is listed now; a fresh result of an earlier
\* lookup makes a new one needless.
Build ==
    /\ \E c \in requests :
         LET report == Report(facts[c.run])
             known == Fresh(report.signature) IN
         /\ c.stage = "list"
         /\ \/ /\ c.kind # "save" /\ known # {}
               /\ \E duplicate \in known : Deliver(c, report, duplicate)
            \/ /\ c.kind = "save" \/ known = {}
               /\ requests' = (requests \ {c}) \union
                    {[c EXCEPT !.report = {report},
                               !.stage = IF c.kind = "save" THEN "dialog" ELSE "lookup"]}
               /\ UNCHANGED <<preview, dialog, busy, opened>>
    /\ UNCHANGED <<facts, picked, cache, issues, sent, changes>>

\* findDuplicatePublicBugReport: GitHub may not answer, within four seconds
\* or at all.
Lookup ==
    /\ \E c \in {d \in requests : d.stage = "lookup"} : \E duplicate \in LookupResults :
         LET report == CHOOSE r \in c.report : TRUE IN
         /\ duplicate = "found" => report.signature \in issues
         /\ duplicate = "none" => report.signature \notin issues
         /\ Remember(report.signature, duplicate)
         /\ Deliver(c, report, duplicate)
    /\ UNCHANGED <<facts, picked, issues, sent, changes>>

\* The user names a file for the report as it was built, or cancels.
SaveToFile ==
    /\ \E c \in requests : c.stage = "dialog" /\ Finished(c)
    /\ UNCHANGED <<facts, picked, dialog, preview, cache, issues, opened, sent, changes>>

\* The Runs cannot be listed: the window shows the error.
RequestFails ==
    /\ \E c \in requests : c.stage = "list" /\ Finished(c)
    /\ UNCHANGED <<facts, picked, dialog, preview, cache, issues, opened, sent, changes>>
---------------------------------------------------------------------------
(* The surroundings: Runs go on, a minute passes, and a form that was      *)
(* opened is submitted by the user in the browser.                         *)

RunChanges ==
    /\ changes < MaxChanges /\ changes' = changes + 1
    /\ \E r \in Runs : \E f \in Facts \ {facts[r]} :
         facts[r].counters <= f.counters /\ facts' = [facts EXCEPT ![r] = f]
    /\ UNCHANGED <<picked, dialog, preview, busy, requests, cache, issues, opened, sent>>

MinutePasses ==
    /\ \E i \in DOMAIN cache : cache[i].fresh /\ cache' = [cache EXCEPT ![i].fresh = FALSE]
    /\ UNCHANGED <<facts, picked, dialog, preview, busy, requests, issues, opened, sent, changes>>

Submitted ==
    /\ \E o \in opened : o.duplicate # "found" /\ o.report.signature \notin issues
                         /\ issues' = issues \union {o.report.signature}
    /\ UNCHANGED <<facts, picked, dialog, preview, busy, requests, cache, opened, sent, changes>>

ReportNext ==
    \/ BeginBugReport \/ PrepareBugReport \/ SaveOrOpen \/ CloseDialog \/ SelectRun
    \/ Build \/ Lookup \/ SaveToFile \/ RequestFails
    \/ RunChanges \/ MinutePasses \/ Submitted

ReportSpec == ReportInit /\ [][ReportNext]_reportVars
---------------------------------------------------------------------------
\* What is opened on GitHub is, field by field, the report the user saw when
\* confirming, whichever Run was selected and whatever the Run did since
\* (docs/M13-PUBLIC-BUG-REPORTING.md: the main process fails closed).  Where a
\* duplicate was shown it is opened, unless the lookup is made again and not
\* answered: then, as for any other report (item 5 of that document), the form
\* is, although the button named the existing issue.
OpenedIsWhatWasShown ==
    \A o \in opened : \A p \in o.shown :
        o.report = p.report /\ (p.duplicate = "found" => o.duplicate # "none")
=============================================================================
