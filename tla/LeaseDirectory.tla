--------------------------- MODULE LeaseDirectory ---------------------------
(***************************************************************************)
(* The lease directories of src/src/process-shared-provider.ts: a caller   *)
(* has the lease whose directory it made and whose owner.json names it; a  *)
(* directory of a dead process is moved away.  Each action is one call of  *)
(* the file system, so the callers of all processes interleave at it.      *)
(***************************************************************************)
EXTENDS Naturals, FiniteSets

CONSTANTS
  Callers,            \* one acquisition and release at a time each (an ownerId)
  Processes, ProcessOf,
  Dirs,
  StaleRaces,         \* FALSE bounds away a directory renewed under a stale verdict
  SlowWriters,        \* bound: whose owner.json may be read, or left, half written
  MayStop,            \* bound: the processes that may stop
  Nobody, Garbled     \* no owner.json, and one that does not parse

ASSUME LeaseAssumption ==
  /\ ProcessOf \in [Callers -> Processes]
  /\ StaleRaces \in BOOLEAN /\ SlowWriters \subseteq Callers
  /\ MayStop \subseteq Processes
  /\ Nobody \notin Callers /\ Garbled \notin Callers /\ Nobody # Garbled

VARIABLES
  present,            \* the directories that exist
  owner,              \* [Dirs -> Callers \cup {Nobody, Garbled}]
  fresh,              \* directories modified within INCOMPLETE_GRACE_MS
  step,               \* [Callers -> LeaseSteps]: where a lease operation stands
  at,                 \* [Callers -> Dirs]: its directory
  seenFresh,          \* callers whose stat showed a fresh directory
  dead                \* processes that stopped

dirVars == <<present, owner, fresh>>
leaseVars == <<dirVars, step, at, seenFresh, dead>>

AcquireSteps == {"stat", "read", "quarantine", "remake", "create", "write", "giveUp"}
ReleaseSteps == {"unlink", "remove"}

\* "busy": no lease for now; "threw": the operation rejected.
LeaseSteps == {"idle", "busy", "threw", "held", "released"} \cup AcquireSteps \cup ReleaseSteps

LeaseTypeOK ==
  /\ present \subseteq Dirs /\ fresh \subseteq Dirs
  /\ owner \in [Dirs -> Callers \cup {Nobody, Garbled}]
  /\ step \in [Callers -> LeaseSteps] /\ at \in [Callers -> Dirs]
  /\ seenFresh \subseteq Callers /\ dead \subseteq Processes

LeaseInit ==
  /\ present = {} /\ owner = [d \in Dirs |-> Nobody] /\ fresh = {}
  /\ step = [c \in Callers |-> "idle"] /\ at \in [Callers -> {CHOOSE d \in Dirs : TRUE}]
  /\ seenFresh = {} /\ dead = {}

Live(c) == ProcessOf[c] \notin dead

Go(c, s) == step' = [step EXCEPT ![c] = s]

Mkdir(d) ==
  /\ present' = present \cup {d} /\ fresh' = fresh \cup {d}
  /\ owner' = [owner EXCEPT ![d] = Nobody]

Rmdir(d) ==
  /\ present' = present \ {d} /\ fresh' = fresh \ {d}
  /\ owner' = [owner EXCEPT ![d] = Nobody]

-----------------------------------------------------------------------------
(* tryAcquireNamedLease and inspectLease.                                  *)

Make(c, d) ==
  /\ at' = [at EXCEPT ![c] = d]
  /\ IF d \in present THEN Go(c, "stat") /\ UNCHANGED dirVars
     ELSE Go(c, "create") /\ Mkdir(d)
  /\ UNCHANGED <<seenFresh, dead>>

Stat(c) ==
  /\ step[c] = "stat"
  /\ IF at[c] \in present
     THEN /\ Go(c, "read")
          /\ seenFresh' = IF at[c] \in fresh THEN seenFresh \cup {c} ELSE seenFresh \ {c}
     ELSE Go(c, "busy") /\ UNCHANGED seenFresh
  /\ UNCHANGED <<dirVars, at, dead>>

StaleByAge(d, old) == old                      \* mutant: a live owner's lease ages too

\* isStale, with the grace period of a directory that has no owner.json yet.
Stale(d, old) ==
  IF owner[d] = Nobody THEN old ELSE owner[d] \in Callers /\ ~Live(owner[d])

\* Bound, unless StaleRaces: a verdict is only acted on while it is true and by one
\* caller at a time; the others come again.
MayFindStale(c, d) ==
  \/ StaleRaces
  \/ /\ d \in present /\ Stale(d, d \notin fresh)
     /\ \A e \in Callers \ {c} : Live(e) /\ at[e] = d => step[e] \notin {"quarantine", "remake"}

Read(c) ==
  LET d == at[c] IN
  /\ step[c] = "read"
  /\ IF owner[d] = Garbled THEN Go(c, "threw")
     ELSE Go(c, IF Stale(d, c \notin seenFresh) /\ MayFindStale(c, d) THEN "quarantine" ELSE "busy")
  /\ seenFresh' = seenFresh \ {c}
  /\ UNCHANGED <<dirVars, at, dead>>

\* rename: whatever is there now is moved away.
Quarantine(c) ==
  /\ step[c] = "quarantine"
  /\ IF at[c] \in present THEN Go(c, "remake") /\ Rmdir(at[c])
     ELSE Go(c, "busy") /\ UNCHANGED dirVars
  /\ UNCHANGED <<at, seenFresh, dead>>

Remake(c) ==
  /\ step[c] = "remake"
  /\ IF at[c] \in present THEN Go(c, "threw") /\ UNCHANGED dirVars
     ELSE Go(c, "create") /\ Mkdir(at[c])
  /\ UNCHANGED <<at, seenFresh, dead>>

\* writeFile with flag wx, as one step or, of a slow writer, in two.
CreateOwner(c) ==
  LET d == at[c] IN
  /\ step[c] = "create"
  /\ IF d \in present /\ owner[d] = Nobody
     THEN /\ \/ Go(c, "held") /\ owner' = [owner EXCEPT ![d] = c]
             \/ c \in SlowWriters /\ Go(c, "write") /\ owner' = [owner EXCEPT ![d] = Garbled]
          /\ fresh' = fresh \cup {d} /\ UNCHANGED present
     ELSE Go(c, "giveUp") /\ UNCHANGED dirVars
  /\ UNCHANGED <<at, seenFresh, dead>>

\* The file it opened, unless its directory was moved away.
WriteOwner(c) ==
  /\ step[c] = "write"
  /\ owner' = IF owner[at[c]] = Garbled THEN [owner EXCEPT ![at[c]] = c] ELSE owner
  /\ Go(c, "held")
  /\ UNCHANGED <<present, fresh, at, seenFresh, dead>>

\* The catch block removes the directory, whoever owns it by now.
GiveUp(c) ==
  /\ step[c] = "giveUp"
  /\ Rmdir(at[c]) /\ Go(c, "threw")
  /\ UNCHANGED <<at, seenFresh, dead>>

-----------------------------------------------------------------------------
(* release.                                                                *)

Check(c, d) ==
  /\ at' = [at EXCEPT ![c] = d]
  /\ Go(c, IF d \in present /\ owner[d] = c THEN "unlink" ELSE "threw")
  /\ UNCHANGED <<dirVars, seenFresh, dead>>

\* rm: the file first, then the directory.
Unlink(c) ==
  /\ step[c] = "unlink"
  /\ owner' = [owner EXCEPT ![at[c]] = Nobody]
  /\ fresh' = fresh \cup ({at[c]} \cap present)
  /\ Go(c, "remove")
  /\ UNCHANGED <<present, at, seenFresh, dead>>

Remove(c) ==
  /\ step[c] = "remove"
  /\ IF owner[at[c]] = Nobody THEN Rmdir(at[c]) /\ Go(c, "released")
     ELSE Go(c, "threw") /\ UNCHANGED dirVars
  /\ UNCHANGED <<at, seenFresh, dead>>

LeaseStep(c) ==
  \/ Stat(c) \/ Read(c) \/ Quarantine(c) \/ Remake(c)
  \/ CreateOwner(c) \/ WriteOwner(c) \/ GiveUp(c)
  \/ Unlink(c) \/ Remove(c)

-----------------------------------------------------------------------------
\* The grace period of a directory passes.  A live process writes its owner.json,
\* and removes the directory it emptied, within the period.
Age(d) ==
  /\ d \in fresh
  /\ \A c \in Callers : Live(c) /\ at[c] = d => step[c] \notin {"create", "write", "remove"}
  /\ fresh' = fresh \ {d}
  /\ UNCHANGED <<present, owner, step, at, seenFresh, dead>>

\* A process stops; its directories stay as they are.
Stop(p) ==
  /\ p \in MayStop \ dead
  /\ dead' = dead \cup {p}
  /\ UNCHANGED <<dirVars, step, at, seenFresh>>
=============================================================================
