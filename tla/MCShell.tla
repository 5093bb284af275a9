------------------------------ MODULE MCShell -------------------------------
(***************************************************************************)
(* The four parts of the desktop shell side by side for TLC.  They share   *)
(* no state, so each behaviour is one of one of them, the other three at   *)
(* rest: their interleavings would add nothing to what each can do.        *)
(***************************************************************************)
EXTENDS AppUpdates, PublicReports, ArtifactThreads, Workbench

VARIABLE part

shellVars == <<part, updateVars, reportVars, threadVars, benchVars>>

\* Only the first workspace offers a skill.
FirstOffers == [w \in Places |-> IF w \in Workspaces THEN Skills ELSE {}]

\* A part at rest has one initial state.  The Runs of a report are alike, and so
\* are the providers (one at most has a key when the window starts) and the
\* contents of artifacts: it does not matter which of them comes first.
AtRest ==
    /\ part # "updates" => view.status = "ready"
    /\ picked = CHOOSE r \in Runs : TRUE
    /\ provider = CHOOSE p \in Providers : TRUE
    /\ issues \subseteq IF part = "reports" THEN {Signature(facts[picked])} ELSE {}
    /\ part # "reports" =>
         \A r \in Runs : facts[r].messages = {} /\ facts[r].state = CHOOSE s \in States : TRUE
    /\ disk[1] = {CHOOSE c \in Contents : TRUE}
    /\ part # "workbench" => /\ recents = <<>> /\ environment = {}

ShellInit ==
    /\ UpdateInit /\ ReportInit /\ ThreadInit /\ BenchInit
    /\ part \in {"updates", "reports", "threads", "workbench"}
    /\ AtRest

ShellNext ==
    \/ part = "updates" /\ UpdateNext /\ UNCHANGED <<part, reportVars, threadVars, benchVars>>
    \/ part = "reports" /\ ReportNext /\ UNCHANGED <<part, updateVars, threadVars, benchVars>>
    \/ part = "threads" /\ ThreadNext /\ UNCHANGED <<part, updateVars, reportVars, benchVars>>
    \/ part = "workbench" /\ BenchNext /\ UNCHANGED <<part, updateVars, reportVars, threadVars>>

ShellSpec == ShellInit /\ [][ShellNext]_shellVars
=============================================================================
