----------------------------- MODULE AppUpdates -----------------------------
(***************************************************************************)
(* The update of the installed application (src/desktop-update.ts): the    *)
(* coordinator in the main process between Electron's updater and the      *)
(* window.  The window asks for a check or for the installation and shows  *)
(* what is pushed to it; the main process asks the user to confirm an      *)
(* installation while Runs may still be on their way to the Run manager.   *)
(***************************************************************************)
EXTENDS Naturals

CONSTANTS MaxChecks,  \* checks the user asks for in one behaviour
          MaxStarts   \* Runs the user starts in one behaviour

ASSUME UpdateBounds == MaxChecks \in Nat /\ MaxStarts \in Nat

VARIABLES
    view,      \* the coordinator's view: status, and whether it shows a reason or an error
    shown,     \* the view the window shows
    updater,   \* Electron's updater (external): what it is doing with the feed
    asked,     \* the window's request in progress, which disables its buttons
    starting,  \* startRun requests on their way to the Run manager
    active,    \* Runs the Run manager counts as launching or active
    checks, starts

updateVars == <<view, shown, updater, asked, starting, active, checks, starts>>

Statuses == {"disabled", "ready", "checking", "available", "not_available",
             "downloaded", "installing", "error"}
Views == [status : Statuses, configured : BOOLEAN, blocked : BOOLEAN,
          error : BOOLEAN, since : BOOLEAN]

UpdateTypeOK ==
    /\ view \in Views /\ shown \in Views
    /\ updater \in {"idle", "searching", "downloading", "staged", "quitting"}
    /\ asked \in {"none", "check", "confirm"}
    /\ {starting, active, starts} \subseteq 0 .. MaxStarts
    /\ checks \in 0 .. MaxChecks

\* Without a feed or a transport the coordinator stays disabled; a feed it
\* refuses leaves it unconfigured, with the error to show.
InitialViews ==
    {[status |-> "disabled", configured |-> FALSE, blocked |-> FALSE, error |-> FALSE, since |-> FALSE],
     [status |-> "error", configured |-> FALSE, blocked |-> FALSE, error |-> TRUE, since |-> FALSE],
     [status |-> "ready", configured |-> TRUE, blocked |-> FALSE, error |-> FALSE, since |-> FALSE]}

UpdateInit ==
    /\ view \in InitialViews /\ shown = view
    /\ updater = "idle" /\ asked = "none"
    /\ starting = 0 /\ active = 0
    /\ checks = 0 /\ starts = 0

\* #set: every change of the view is pushed to the window at once.
Publish(v) == view' = v /\ shown' = v

\* An answer carries the view of the moment it is given; messages of the main
\* process reach the window in the order they were sent.
Reply == asked' = "none" /\ shown' = view'

Idle == active = 0
---------------------------------------------------------------------------
(* The window's buttons: shown only for a configured updater, disabled     *)
(* during a request and while a version is searched or downloaded.         *)

NotAgain == {"checking", "available", "downloaded", "installing"}

CheckForUpdates ==
    /\ asked = "none" /\ checks < MaxChecks
    /\ shown.configured
    /\ shown.status \notin {"checking", "available", "downloaded"}
    /\ checks' = checks + 1
    /\ \/ /\ view.status \in NotAgain
          /\ shown' = view /\ UNCHANGED <<view, updater, asked>>
       \/ /\ view.status \notin NotAgain
          /\ Publish([view EXCEPT !.status = "checking", !.since = FALSE,
                                  !.error = FALSE, !.blocked = FALSE])
          /\ asked' = "check" /\ updater' = "searching"
    /\ UNCHANGED <<starting, active, starts>>

\* The updater's promise is kept at any time after the search began, or
\* broken before it found anything.
CheckReturns ==
    /\ asked = "check"
    /\ \/ view' = view /\ UNCHANGED updater
       \/ /\ updater = "searching" /\ updater' = "idle"
          /\ view' = [view EXCEPT !.status = "error", !.error = TRUE]
    /\ Reply
    /\ UNCHANGED <<starting, active, checks, starts>>

\* MUTANT: the Runs are not looked at again after the dialog.
QuitAndInstallUnchecked ==
    /\ view.status = "downloaded"
    /\ view' = [view EXCEPT !.status = "installing", !.blocked = FALSE, !.error = FALSE]
    /\ updater' = "quitting"

\* quitAndInstall of the coordinator.
QuitAndInstallNow ==
    \/ /\ view.status # "downloaded"
       /\ UNCHANGED <<view, updater>>
    \/ /\ view.status = "downloaded" /\ ~Idle
       /\ view' = [view EXCEPT !.blocked = TRUE] /\ UNCHANGED updater
    \/ /\ view.status = "downloaded" /\ Idle
       /\ view' = [view EXCEPT !.status = "installing", !.blocked = FALSE, !.error = FALSE]
       /\ updater' = "quitting"

\* The handler of the main process: with a Run active the coordinator refuses
\* at once, otherwise the user is asked first.
QuitAndInstall ==
    /\ asked = "none" /\ shown.status = "downloaded"
    /\ \/ ~Idle /\ QuitAndInstallNow /\ Reply
       \/ Idle /\ asked' = "confirm" /\ UNCHANGED <<view, shown, updater>>
    /\ UNCHANGED <<starting, active, checks, starts>>

Confirm ==
    /\ asked = "confirm"
    /\ QuitAndInstallNow \/ UNCHANGED <<view, updater>>
    /\ Reply
    /\ UNCHANGED <<starting, active, checks, starts>>
---------------------------------------------------------------------------
(* Electron's updater and what the coordinator makes of its events.        *)

Handle(event) ==
    Publish(CASE event = "available" ->
                    [view EXCEPT !.status = "available", !.since = TRUE, !.error = FALSE]
              [] event = "not_available" ->
                    [view EXCEPT !.status = "not_available", !.since = FALSE, !.error = FALSE]
              [] event = "downloaded" -> [view EXCEPT !.status = "downloaded", !.error = FALSE]
              [] event = "error" -> [view EXCEPT !.status = "error", !.error = TRUE])

UpdaterEvent ==
    /\ \/ updater = "searching" /\ updater' = "downloading" /\ Handle("available")
       \/ updater = "searching" /\ updater' = "idle" /\ Handle("not_available")
       \/ updater = "downloading" /\ updater' = "staged" /\ Handle("downloaded")
       \/ updater \in {"searching", "downloading"} /\ updater' = "idle" /\ Handle("error")
    /\ UNCHANGED <<asked, starting, active, checks, starts>>
---------------------------------------------------------------------------
(* Runs.  The window is behind the dialog while the user is asked, but a   *)
(* request it sent before is still on its way to the Run manager.          *)

StartClicked ==
    /\ asked # "confirm" /\ updater # "quitting" /\ starts < MaxStarts
    /\ starting' = starting + 1 /\ starts' = starts + 1
    /\ UNCHANGED <<view, shown, updater, asked, active, checks>>

RunLaunches ==
    /\ starting > 0 /\ updater # "quitting"
    /\ starting' = starting - 1 /\ active' = active + 1
    /\ UNCHANGED <<view, shown, updater, asked, checks, starts>>

RunEnds ==
    /\ active > 0 /\ active' = active - 1
    /\ UNCHANGED <<view, shown, updater, asked, starting, checks, starts>>

UpdateNext ==
    \/ CheckForUpdates \/ CheckReturns \/ QuitAndInstall \/ Confirm
    \/ UpdaterEvent \/ StartClicked \/ RunLaunches \/ RunEnds

UpdateSpec == UpdateInit /\ [][UpdateNext]_updateVars
---------------------------------------------------------------------------
\* The application quits to install only a downloaded version the window
\* offers, after the user confirmed, and with no Run launching or active
\* (docs/ARCHITECTURE.md: isIdle() is confirmed again before the exit).
InstallsOnlyWhenIdle ==
    [][updater' = "quitting" /\ updater # "quitting" =>
          /\ updater = "staged" /\ asked = "confirm"
          /\ shown.status = "downloaded" /\ active = 0]_updateVars

=============================================================================
