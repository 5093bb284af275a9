--------------------------- MODULE WorkspaceLock ----------------------------
(***************************************************************************)
(* The lock of a workspace (src/workspace-process-lock.ts): one process at *)
(* a time has its directory .localbuddy/runtime-lock, and within it any    *)
(* number of users share the lock by counted references.  The directory is *)
(* that of LeaseDirectory: the same calls of the file system, written anew *)
(* in the code, an acquisition being named by the user that began it.      *)
(***************************************************************************)
EXTENDS LeaseDirectory

CONSTANT NoLock            \* no lock, no acquisition, no release

ASSUME LockAssumption == NoLock \notin Callers /\ Cardinality(Dirs) = 1

VARIABLES
  use,                     \* [Callers -> Uses]: where a user's lease stands
  lock,                    \* the acquisition, or release, it has, shares or waits for
  references,              \* [Callers -> Nat]: of the lock that was acquired by it
  heldLock, pendingLock, pendingRelease   \* the three maps of each process

mapVars == <<heldLock, pendingLock, pendingRelease>>
userVars == <<use, lock, references>>
lockVars == <<leaseVars, userVars, mapVars>>

Uses == {"idle", "awaitsRelease", "looks", "awaitsLock", "using", "releasing", "released", "failed"}
Directory == CHOOSE d \in Dirs : TRUE

LockInit ==
  /\ LeaseInit
  /\ use = [u \in Callers |-> "idle"] /\ lock = [u \in Callers |-> NoLock]
  /\ references = [u \in Callers |-> 0]
  /\ heldLock = [p \in Processes |-> NoLock] /\ pendingLock = heldLock /\ pendingRelease = heldLock

Users(l, s) == {u \in Callers : use[u] = s /\ lock[u] = l}

\* The users a settled promise wakes go on one after the other, before anything else.
Wake(woken, s) == use' = [u \in Callers |-> IF u \in woken THEN s ELSE use[u]]
-----------------------------------------------------------------------------
(* WorkspaceProcessLockManager.acquire.                                    *)

\* Up to the await of the release that is in progress, if there is one.
Acquire(u) ==
  /\ use[u] = "idle"
  /\ lock' = [lock EXCEPT ![u] = pendingRelease[ProcessOf[u]]]
  /\ use' = [use EXCEPT ![u] = IF lock'[u] = NoLock THEN "looks" ELSE "awaitsRelease"]
  /\ UNCHANGED <<leaseVars, references, mapVars>>

\* What is held, and being acquired, is only looked at after that.
Look(u) ==
  LET p == ProcessOf[u] IN
  /\ use[u] = "looks"
  /\ \/ /\ heldLock[p] # NoLock
        /\ lock' = [lock EXCEPT ![u] = heldLock[p]]
        /\ references' = [references EXCEPT ![heldLock[p]] = @ + 1]
        /\ use' = [use EXCEPT ![u] = "using"]
        /\ UNCHANGED <<leaseVars, mapVars>>
     \/ /\ heldLock[p] = NoLock
        /\ pendingLock' = [pendingLock EXCEPT ![p] = IF @ = NoLock THEN u ELSE @]
        /\ lock' = [lock EXCEPT ![u] = pendingLock'[p]]
        /\ use' = [use EXCEPT ![u] = "awaitsLock"]
        /\ IF pendingLock[p] = NoLock THEN Make(u, Directory) ELSE UNCHANGED leaseVars
        /\ UNCHANGED <<references, heldLock, pendingRelease>>

\* stat throws when the directory has just gone.
StatLock(l) ==
  /\ step[l] = "stat"
  /\ IF at[l] \in present
     THEN /\ Go(l, "read")
          /\ seenFresh' = IF at[l] \in fresh THEN seenFresh \cup {l} ELSE seenFresh \ {l}
     ELSE Go(l, "threw") /\ UNCHANGED seenFresh
  /\ UNCHANGED <<dirVars, at, dead>>

DirectoryStep(l) ==
  /\ \/ StatLock(l) \/ Read(l) \/ Quarantine(l) \/ Remake(l) \/ CreateOwner(l) \/ GiveUp(l)
     \/ Unlink(l) \/ Remove(l)
  /\ UNCHANGED <<userVars, mapVars>>

Locked(l) ==
  LET p == ProcessOf[l] IN
  /\ step[l] = "held" /\ pendingLock[p] = l
  /\ heldLock' = [heldLock EXCEPT ![p] = l] /\ pendingLock' = [pendingLock EXCEPT ![p] = NoLock]
  /\ Wake(Users(l, "awaitsLock"), "using")
  /\ references' = [references EXCEPT ![l] = Cardinality(Users(l, "awaitsLock"))]
  /\ UNCHANGED <<leaseVars, lock, pendingRelease>>

\* WorkspaceLockedError, or an error of the file system; tryAcquire makes
\* undefined of the first.
NotLocked(l) ==
  LET p == ProcessOf[l] IN
  /\ step[l] \in {"busy", "threw"} /\ pendingLock[p] = l
  /\ pendingLock' = [pendingLock EXCEPT ![p] = NoLock]
  /\ Wake(Users(l, "awaitsLock"), "failed")
  /\ UNCHANGED <<leaseVars, lock, references, heldLock, pendingRelease>>
-----------------------------------------------------------------------------
(* releaseWorkspaceLock.                                                   *)

AnyUse(l) == TRUE                  \* mutant: the first release is the last one

LastUse(l) == references[l] = 1

Release(u) ==
  LET l == lock[u]
      p == ProcessOf[u] IN
  /\ use[u] = "using"
  /\ references' = [references EXCEPT ![l] = @ - 1]
  /\ IF LastUse(l) /\ heldLock[p] = l
     THEN /\ heldLock' = [heldLock EXCEPT ![p] = NoLock]
          /\ pendingRelease' = [pendingRelease EXCEPT ![p] = l]
          /\ use' = [use EXCEPT ![u] = "releasing"]
          /\ Check(l, Directory)
     ELSE use' = [use EXCEPT ![u] = "released"] /\ UNCHANGED <<leaseVars, heldLock, pendingRelease>>
  /\ UNCHANGED <<lock, pendingLock>>

\* Those who waited for the release go on, or get its error; a later release may
\* have taken its place by then.
ReleaseEnds(l) ==
  LET p == ProcessOf[l] IN
  /\ step[l] \in {"released", "threw"} /\ Users(l, "releasing") # {}
  /\ pendingRelease' = [pendingRelease EXCEPT ![p] = IF @ = l THEN NoLock ELSE @]
  /\ use' = [u \in Callers |->
       IF u \in Users(l, "releasing") THEN (IF step[l] = "threw" THEN "failed" ELSE "released")
       ELSE IF u \in Users(l, "awaitsRelease") THEN (IF step[l] = "threw" THEN "failed" ELSE "looks")
       ELSE use[u]]
  /\ UNCHANGED <<leaseVars, lock, references, heldLock, pendingLock>>
-----------------------------------------------------------------------------
LockNext ==
  \/ \E u \in Callers :
       /\ Live(u)
       /\ \/ Acquire(u) \/ Look(u) \/ Release(u) \/ DirectoryStep(u)
          \/ Locked(u) \/ NotLocked(u) \/ ReleaseEnds(u)
  \/ \E d \in Dirs : Age(d) /\ UNCHANGED <<userVars, mapVars>>
  \/ \E p \in Processes : Stop(p) /\ UNCHANGED <<userVars, mapVars>>

LockSpec == LockInit /\ [][LockNext]_lockVars

\* Who has a lease of a running process has the lock: the directory names the
\* acquisition its process holds, for it and all who share it, so no other process
\* has one too; and a directory that names a running process is held, being
\* acquired or being released by it, never forgotten.
LeasesAreReal ==
  /\ \A u \in Callers : Live(u) /\ use[u] = "using" =>
       /\ Directory \in present /\ owner[Directory] = lock[u] /\ heldLock[ProcessOf[u]] = lock[u]
       /\ references[lock[u]] = Cardinality(Users(lock[u], "using"))
  /\ \A l \in Callers : Live(l) /\ owner[Directory] = l =>
       l \in {heldLock[ProcessOf[l]], pendingLock[ProcessOf[l]], pendingRelease[ProcessOf[l]]}
=============================================================================
