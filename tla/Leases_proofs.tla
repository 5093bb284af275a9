--------------------------- MODULE Leases_proofs ---------------------------
(***************************************************************************)
(* Theorems about the lease directories and what is built on them: the     *)
(* provider shared by the processes and the lock of a workspace, for any   *)
(* callers, processes, directories, slots, days and tokens.                *)
(***************************************************************************)
EXTENDS SharedProvider, WorkspaceLock, FiniteSetTheorems, TLAPS

-----------------------------------------------------------------------------
(* Lease directories: what one call of the file system keeps of them.      *)

\* What a caller that works on d finds there: the directory it made still is empty
\* or holds its file, and the verdict that it is stale still is true.
Works(c, d) ==
  /\ step[c] \in {"create", "remove"} => d \in present \cap fresh /\ owner[d] = Nobody
  /\ step[c] = "write" => d \in present /\ owner[d] = Garbled
  /\ step[c] \in {"held", "unlink"} => d \in present /\ owner[d] = c
  /\ step[c] = "quarantine" => d \in present /\ Stale(d, d \notin fresh)
  /\ step[c] # "giveUp"

\* Two callers never do at once to a directory what only one of them may.
Apart(c, e) ==
  /\ ~({step[c], step[e]} \subseteq {"create", "remove"})
  /\ ~({step[c], step[e]} \subseteq {"write"})
  /\ ~({step[c], step[e]} \subseteq {"quarantine", "remake"})

AllWork == \A c \in Callers : Live(c) => Works(c, at[c])
AllApart == \A c, e \in Callers : Live(c) /\ Live(e) /\ c # e /\ at[c] = at[e] => Apart(c, e)
DirInv == LeaseTypeOK /\ AllWork /\ AllApart

\* The directory d is there and names e.
Names(d, e) == d \in present /\ owner[d] = e

\* Every step of a lease keeps the types.
LEMMA StepTypes ==
  ASSUME LeaseTypeOK, NEW c \in Callers, NEW d \in Dirs
  PROVE  /\ LeaseStep(c) => LeaseTypeOK'
         /\ Make(c, d) => LeaseTypeOK'
         /\ Check(c, d) => LeaseTypeOK'
         /\ Age(d) => LeaseTypeOK'
         /\ \A p \in Processes : Stop(p) => LeaseTypeOK'
<1> USE DEF LeaseTypeOK, Go, Mkdir, Rmdir, dirVars, LeaseSteps, AcquireSteps, ReleaseSteps
<1>1. LeaseStep(c) => LeaseTypeOK'
  <2>1. Stat(c) \/ Read(c) => LeaseTypeOK'
    BY DEF Stat, Read
  <2>2. Quarantine(c) \/ Remake(c) => LeaseTypeOK'
    BY DEF Quarantine, Remake
  <2>3. CreateOwner(c) \/ WriteOwner(c) \/ GiveUp(c) => LeaseTypeOK'
    BY DEF CreateOwner, WriteOwner, GiveUp
  <2>4. Unlink(c) \/ Remove(c) => LeaseTypeOK'
    BY DEF Unlink, Remove
  <2> QED
    BY <2>1, <2>2, <2>3, <2>4 DEF LeaseStep
<1>2. Make(c, d) => LeaseTypeOK'
  BY DEF Make
<1>3. Check(c, d) => LeaseTypeOK'
  BY DEF Check
<1>4. Age(d) => LeaseTypeOK'
  BY DEF Age
<1>5. ASSUME NEW p \in Processes, Stop(p) PROVE LeaseTypeOK'
  BY <1>5 DEF Stop
<1> QED
  BY <1>1, <1>2, <1>3, <1>4, <1>5

-----------------------------------------------------------------------------
(* Every call of the file system keeps what the callers rely on.  A verdict *)
(* is only acted on while it is true (StaleRaces is FALSE): the code does   *)
(* not ensure it, so what follows has it as its hypothesis.                 *)

\* A lease operation goes on.
LEMMA LeaseStepKeeps ==
  ASSUME ~StaleRaces, DirInv, NEW c \in Callers, Live(c), LeaseStep(c)
  PROVE  DirInv'
<1> USE LeaseAssumption DEF Go, Mkdir, Rmdir, dirVars, Live
<1>0. LeaseTypeOK /\ AllWork /\ AllApart /\ at[c] \in Dirs /\ (LeaseTypeOK)'
  BY StepTypes DEF DirInv, LeaseTypeOK
<1>1. CASE Stat(c)
  <2>1. AllWork'
    BY <1>0, <1>1 DEF Stat, LeaseTypeOK, AllWork, Works, AllApart, Apart, Stale
  <2>2. AllApart'
    BY <1>0, <1>1 DEF Stat, LeaseTypeOK, AllWork, Works, AllApart, Apart, Stale
  <2> QED
    BY <1>0, <2>1, <2>2 DEF DirInv
<1>2. CASE Read(c)
  <2>1. AllWork'
    BY <1>0, <1>2 DEF Read, LeaseTypeOK, AllWork, Works, AllApart, Apart, Stale, MayFindStale
  <2>2. AllApart'
    BY <1>0, <1>2 DEF Read, LeaseTypeOK, AllWork, Works, AllApart, Apart, Stale, MayFindStale
  <2> QED
    BY <1>0, <2>1, <2>2 DEF DirInv
<1>3. CASE Quarantine(c)
  <2>1. AllWork'
    BY <1>0, <1>3 DEF Quarantine, LeaseTypeOK, AllWork, Works, AllApart, Apart, Stale
  <2>2. AllApart'
    BY <1>0, <1>3 DEF Quarantine, LeaseTypeOK, AllWork, Works, AllApart, Apart, Stale
  <2> QED
    BY <1>0, <2>1, <2>2 DEF DirInv
<1>4. CASE Remake(c)
  <2>1. AllWork'
    BY <1>0, <1>4 DEF Remake, LeaseTypeOK, AllWork, Works, AllApart, Apart, Stale
  <2>2. AllApart'
    BY <1>0, <1>4 DEF Remake, LeaseTypeOK, AllWork, Works, AllApart, Apart, Stale
  <2> QED
    BY <1>0, <2>1, <2>2 DEF DirInv
<1>5. CASE CreateOwner(c)
  <2>1. AllWork'
    BY <1>0, <1>5 DEF CreateOwner, LeaseTypeOK, AllWork, Works, AllApart, Apart, Stale
  <2>2. AllApart'
    BY <1>0, <1>5 DEF CreateOwner, LeaseTypeOK, AllWork, Works, AllApart, Apart, Stale
  <2> QED
    BY <1>0, <2>1, <2>2 DEF DirInv
<1>6. CASE WriteOwner(c)
  <2>1. AllWork'
    BY <1>0, <1>6 DEF WriteOwner, LeaseTypeOK, AllWork, Works, AllApart, Apart, Stale
  <2>2. AllApart'
    BY <1>0, <1>6 DEF WriteOwner, LeaseTypeOK, AllWork, Works, AllApart, Apart, Stale
  <2> QED
    BY <1>0, <2>1, <2>2 DEF DirInv
<1>7. CASE GiveUp(c)
  <2>1. AllWork'
    BY <1>0, <1>7 DEF GiveUp, LeaseTypeOK, AllWork, Works, AllApart, Apart, Stale
  <2>2. AllApart'
    BY <1>0, <1>7 DEF GiveUp, LeaseTypeOK, AllWork, Works, AllApart, Apart, Stale
  <2> QED
    BY <1>0, <2>1, <2>2 DEF DirInv
<1>8. CASE Unlink(c)
  <2>1. AllWork'
    BY <1>0, <1>8 DEF Unlink, LeaseTypeOK, AllWork, Works, AllApart, Apart, Stale
  <2>2. AllApart'
    BY <1>0, <1>8 DEF Unlink, LeaseTypeOK, AllWork, Works, AllApart, Apart, Stale
  <2> QED
    BY <1>0, <2>1, <2>2 DEF DirInv
<1>9. CASE Remove(c)
  <2>1. AllWork'
    BY <1>0, <1>9 DEF Remove, LeaseTypeOK, AllWork, Works, AllApart, Apart, Stale
  <2>2. AllApart'
    BY <1>0, <1>9 DEF Remove, LeaseTypeOK, AllWork, Works, AllApart, Apart, Stale
  <2> QED
    BY <1>0, <2>1, <2>2 DEF DirInv
<1> QED
  BY <1>1, <1>2, <1>3, <1>4, <1>5, <1>6, <1>7, <1>8, <1>9 DEF LeaseStep

\* One begins: it makes the directory, or finds it there.
LEMMA MakeKeeps ==
  ASSUME DirInv, NEW c \in Callers, NEW d \in Dirs, Make(c, d)
  PROVE  DirInv'
<1> USE LeaseAssumption DEF Go, Mkdir, dirVars, Live, Make, LeaseTypeOK
<1>1. LeaseTypeOK'
  BY StepTypes DEF DirInv
<1>2. AllWork'
  BY DEF DirInv, AllWork, Works, AllApart, Apart, Stale
<1>3. AllApart'
  BY DEF DirInv, AllWork, Works, AllApart, Apart, Stale
<1> QED
  BY <1>1, <1>2, <1>3 DEF DirInv

\* A release reads whose directory it is.
LEMMA CheckKeeps ==
  ASSUME DirInv, NEW c \in Callers, NEW d \in Dirs, Check(c, d)
  PROVE  DirInv'
<1> USE LeaseAssumption DEF Go, dirVars, Live, Check, LeaseTypeOK
<1>1. LeaseTypeOK'
  BY StepTypes DEF DirInv
<1>2. AllWork' /\ AllApart'
  BY DEF DirInv, AllWork, Works, AllApart, Apart, Stale
<1> QED
  BY <1>1, <1>2 DEF DirInv

\* A caller takes up the answer.
LEMMA GoKeeps ==
  ASSUME DirInv, NEW c \in Callers, Go(c, "idle"), UNCHANGED <<dirVars, at, seenFresh, dead>>
  PROVE  DirInv'
<1> USE LeaseAssumption DEF Go, dirVars, Live, LeaseTypeOK, LeaseSteps
<1>1. LeaseTypeOK'
  BY DEF DirInv
<1>2. AllWork' /\ AllApart'
  BY DEF DirInv, AllWork, Works, AllApart, Apart, Stale
<1> QED
  BY <1>1, <1>2 DEF DirInv

\* A grace period passes.
LEMMA AgeKeeps ==
  ASSUME DirInv, NEW d \in Dirs, Age(d)
  PROVE  DirInv'
<1> USE LeaseAssumption DEF dirVars, Live, Age, LeaseTypeOK
<1>1. LeaseTypeOK'
  BY DEF DirInv
<1>2. AllWork' /\ AllApart'
  BY DEF DirInv, AllWork, Works, AllApart, Apart, Stale
<1> QED
  BY <1>1, <1>2 DEF DirInv

\* A process stops.
LEMMA StopKeeps ==
  ASSUME DirInv, NEW p \in Processes, Stop(p)
  PROVE  DirInv' /\ \A c \in Callers : Live(c)' => Live(c) /\ ProcessOf[c] # p
<1> USE LeaseAssumption DEF dirVars, Live, Stop, LeaseTypeOK
<1>1. LeaseTypeOK'
  BY DEF DirInv
<1>2. AllWork' /\ AllApart'
  BY DEF DirInv, AllWork, Works, AllApart, Apart, Stale
<1> QED
  BY <1>1, <1>2 DEF DirInv

\* Nothing happens to the directories.
LEMMA QuietKeeps == DirInv /\ UNCHANGED leaseVars => DirInv'
  BY DEF DirInv, LeaseTypeOK, AllWork, AllApart, Works, Apart, Stale, Live, leaseVars, dirVars

-----------------------------------------------------------------------------
(* Who has a lease keeps it.                                               *)

\* No step of a lease operation takes a directory from the running caller it
\* names, but that caller's own release.
LEMMA NamesStay ==
  ASSUME ~StaleRaces, DirInv, NEW c \in Callers, Live(c), LeaseStep(c),
         NEW d \in Dirs, NEW e \in Callers, Live(e), Names(d, e),
         ~(c = e /\ at[c] = d /\ step[c] = "unlink")
  PROVE  Names(d, e)'
<1> USE LeaseAssumption
    DEF Go, Mkdir, Rmdir, dirVars, Live, Names, DirInv, LeaseTypeOK, AllWork, Works, AllApart, Apart, Stale
<1>1. CASE Stat(c) \/ Read(c)
  BY <1>1 DEF Stat, Read
<1>2. CASE Quarantine(c) \/ Remake(c)
  BY <1>2 DEF Quarantine, Remake
<1>3. CASE CreateOwner(c) \/ WriteOwner(c) \/ GiveUp(c)
  BY <1>3 DEF CreateOwner, WriteOwner, GiveUp
<1>4. CASE Unlink(c) \/ Remove(c)
  BY <1>4 DEF Unlink, Remove
<1> QED
  BY <1>1, <1>2, <1>3, <1>4 DEF LeaseStep

\* A lease is only had of a directory that names no one who runs.
LEMMA HeldIsNew ==
  ASSUME ~StaleRaces, DirInv, NEW c \in Callers, Live(c), LeaseStep(c), step'[c] = "held"
  PROVE  /\ UNCHANGED <<at, dead>>
         /\ step' = [step EXCEPT ![c] = "held"]
         /\ \A e \in Callers : ~Names(at[c], e)
<1> USE LeaseAssumption DEF Go, Mkdir, Rmdir, dirVars, Live, DirInv, LeaseTypeOK, AllWork, Works
<1>1. CASE Stat(c) \/ Read(c) \/ Quarantine(c) \/ Remake(c)
  BY <1>1 DEF Stat, Read, Quarantine, Remake
<1>2. CASE CreateOwner(c) \/ WriteOwner(c) \/ GiveUp(c)
  BY <1>2 DEF CreateOwner, WriteOwner, GiveUp, Names
<1>3. CASE Unlink(c) \/ Remove(c)
  BY <1>3 DEF Unlink, Remove
<1> QED
  BY <1>1, <1>2, <1>3 DEF LeaseStep

\* A step goes on from where it stands: an acquisition to its end and a release to
\* its own, and only its caller moves.
Acquiring == AcquireSteps \cup {"busy", "threw", "held"}
Releasing == ReleaseSteps \cup {"threw", "released"}

\* A step of a lease moves only its caller.
LEMMA StepMoves ==
  ASSUME LeaseTypeOK, NEW c \in Callers, LeaseStep(c)
  PROVE  /\ UNCHANGED <<at, dead>>
         /\ \A e \in Callers \ {c} : step'[e] = step[e]
         /\ \/ step[c] \in AcquireSteps /\ step'[c] \in Acquiring
            \/ step[c] \in ReleaseSteps /\ step'[c] \in Releasing
<1> USE DEF LeaseTypeOK, Go, AcquireSteps, ReleaseSteps, Acquiring, Releasing
<1>1. CASE Stat(c) \/ Read(c) \/ Quarantine(c) \/ Remake(c)
  BY <1>1 DEF Stat, Read, Quarantine, Remake
<1>2. CASE CreateOwner(c) \/ WriteOwner(c) \/ GiveUp(c)
  BY <1>2 DEF CreateOwner, WriteOwner, GiveUp
<1>3. CASE Unlink(c) \/ Remove(c)
  BY <1>3 DEF Unlink, Remove
<1> QED
  BY <1>1, <1>2, <1>3 DEF LeaseStep

-----------------------------------------------------------------------------
(* The shared provider: types.                                             *)

\* What the provider has of its own, beside the lease directories.
RequestsTyped ==
  /\ phase \in [Callers -> Phases] /\ slotOf \in [Callers -> Dirs \cup {NoSlot}]
  /\ tried \in [Callers -> 0..Len(Slots)] /\ seen \in [Callers -> Ledgers]
  /\ usage \in [Callers -> 0..MaxTokens]
FilesTyped ==
  /\ ledger \in Ledgers /\ today \in Days /\ cooling \in BOOLEAN
  /\ charged \in [Days -> Nat] /\ asks \in [Days -> Nat]

\* The slots are directories of their own.
LEMMA SlotFacts ==
  /\ Len(Slots) \in Nat \ {0}
  /\ \A i \in 1..Len(Slots) : Slots[i] \in Dirs /\ Slots[i] # Ledger
  /\ NoSlot \notin Dirs /\ Ledger \in Dirs
<1>1. Slots \in Seq(Dirs \ {Ledger}) /\ Slots # <<>>
  BY ProviderAssumption
<1>2. Len(Slots) # 0
  BY <1>1
<1> QED
  BY <1>1, <1>2, ProviderAssumption

\* A ledger of a day, with so many more requests or tokens.
LEMMA LedgerTypes ==
  ASSUME NEW l \in Ledgers
  PROVE  /\ l.date \in Days /\ l.tokens \in Nat /\ l.requests \in Nat
         /\ [l EXCEPT !.requests = @ + 1] \in Ledgers
         /\ \A n \in Nat : [l EXCEPT !.tokens = @ + n] \in Ledgers
         /\ \A d \in Days : EmptyLedger(d) \in Ledgers
         /\ EmptyLedger(0) \in Ledgers
  BY ProviderAssumption DEF Ledgers, Days, EmptyLedger

\* Where a caller goes on when it has left the ledger.
LEMMA NextPhases ==
  /\ DOMAIN NextPhase = {"refuse", "cool", "enter", "book"}
  /\ NextPhase["refuse"] = "free" /\ NextPhase["cool"] = "admit"
  /\ NextPhase["enter"] = "ask" /\ NextPhase["book"] = "leave"
  BY DEF NextPhase

\* One step of a request keeps the types of what is its own, and leaves to the lease
\* directories what is theirs.
LEMMA RequestTypes ==
  ASSUME LeaseTypeOK, RequestsTyped, FilesTyped, NEW c \in Callers, RequestStep(c)
  PROVE  (RequestsTyped /\ FilesTyped)'
<1> USE SlotFacts, ProviderAssumption DEF RequestsTyped, FilesTyped, To, Phases, requestVars,
   fileVars, ghosts
<1>1. CASE TrySlot(c)
  BY <1>1 DEF TrySlot
<1>2. CASE SlotTaken(c)
  BY <1>2 DEF SlotTaken, After, Go, LeaseTypeOK
<1>3. CASE SlotRefused(c)
  BY <1>3 DEF SlotRefused, After, Go, Cancelled
<1>4. CASE TryLedger(c)
  BY <1>4 DEF TryLedger
<1>5. CASE LedgerRefused(c)
  BY <1>5 DEF LedgerRefused, After, Go, Cancelled
<1>6. CASE ReadLedger(c)
  <2>1. EmptyLedger(today) \in Ledgers
    BY LedgerTypes
  <2> QED
    BY <1>6, <2>1 DEF ReadLedger
<1>7. CASE Decide(c)
  <2>1. /\ seen[c] \in Ledgers /\ seen[c].date \in Days /\ EmptyLedger(0) \in Ledgers
        /\ [seen[c] EXCEPT !.requests = @ + 1] \in Ledgers
    BY LedgerTypes
  <2>2. ledger' \in Ledgers /\ cooling' \in BOOLEAN
    BY <1>7, <2>1 DEF Decide
  <2>3. asks' \in [Days -> Nat]
    <3>1. \A d \in Days : [asks EXCEPT ![d] = @ + 1] \in [Days -> Nat]
      OBVIOUS
    <3> QED
      BY <1>7, <2>1, <3>1, ZenonT(60) DEF Decide
  <2>4. phase' \in [Callers -> Phases] /\ seen' \in [Callers -> Ledgers]
    BY <1>7, <2>1 DEF Decide
  <2> QED
    BY <1>7, <2>2, <2>3, <2>4 DEF Decide
<1>8. CASE LeaveLedger(c)
  BY <1>8 DEF LeaveLedger
<1>9. CASE LedgerLeft(c)
  <2>1. NextPhase[phase[c]] \in Phases
    BY <1>9, NextPhases DEF LedgerLeft
  <2> QED
    BY <1>9, <2>1 DEF LedgerLeft, After, Go
<1>10. CASE Answer(c)
  BY <1>10 DEF Answer
<1>11. CASE AnswerFails(c)
  BY <1>11 DEF AnswerFails
<1>12. CASE Book(c)
  <2>1. /\ seen[c] \in Ledgers /\ seen[c].date \in Days /\ EmptyLedger(0) \in Ledgers
        /\ [seen[c] EXCEPT !.requests = @ + 1] \in Ledgers
        /\ \A k \in Nat : [seen[c] EXCEPT !.tokens = @ + k] \in Ledgers
    BY LedgerTypes
  <2> QED
    BY <1>12, <2>1, SMTT(60) DEF Book
<1>13. CASE FreeSlot(c)
  BY <1>13 DEF FreeSlot
<1>14. CASE SlotFreed(c)
  BY <1>14 DEF SlotFreed, After, Go
<1> QED
  BY <1>1, <1>2, <1>3, <1>4, <1>5, <1>6, <1>7, <1>8, <1>9, <1>10, <1>11, <1>12, <1>13,
     <1>14 DEF RequestStep

-----------------------------------------------------------------------------
(* Where a request stands, and what it has there.                          *)

SlotDirs == {Slots[i] : i \in 1..Len(Slots)}

\* A request has a slot from its acquisition to the beginning of its release, is told
\* "released" or "threw" only by a release, and has the ledger's lock while it
\* decides and accounts.
PhaseAt(c) ==
  /\ phase[c] \in {"slot", "done", "failed"} => slotOf[c] = NoSlot
  /\ phase[c] \notin {"slot", "free", "leave", "done", "failed"} => slotOf[c] \in SlotDirs
  /\ phase[c] = "slot" =>
       step[c] \in Acquiring \cup {"idle"} /\ (step[c] # "idle" => at[c] \in SlotDirs)
  /\ phase[c] \in {"admit", "charge"} =>
       step[c] \in Acquiring \cup {"idle"} /\ (step[c] # "idle" => at[c] = Ledger)
  /\ phase[c] \in {"decide", "account"} => step[c] = "held" /\ at[c] = Ledger
  /\ phase[c] \in {"refuse", "cool", "enter", "book"} =>
       step[c] \in Releasing \cup {"held"} /\ at[c] = Ledger
  /\ phase[c] = "ask" => step[c] = "idle"
  /\ phase[c] \in {"free", "leave"} =>
       \/ slotOf[c] = NoSlot /\ step[c] \in Releasing
       \/ slotOf[c] \in SlotDirs /\ step[c] \in {"idle", "busy"}
  /\ phase[c] \in {"done", "failed"} => step[c] \in {"idle", "busy"}
PhaseInv == \A c \in Callers : PhaseAt(c)

\* Whose slot it is says its directory.
SlotsNamed == \A c \in Callers : Live(c) /\ slotOf[c] # NoSlot => Names(slotOf[c], c)

\* The directories of the slots are not the one of the ledger.
LEMMA SlotDirFacts == \A d \in SlotDirs : d \in Dirs /\ d # Ledger /\ d # NoSlot
  BY SlotFacts DEF SlotDirs

\* One step of a request takes it to a phase where it has what it should.
LEMMA RequestPhases ==
  ASSUME LeaseTypeOK, RequestsTyped, PhaseInv, NEW c \in Callers, RequestStep(c)
  PROVE  PhaseInv'
<1> USE SlotFacts DEF LeaseTypeOK, RequestsTyped, PhaseInv, PhaseAt, To,
      Acquiring, Releasing, AcquireSteps, ReleaseSteps
<1>1. CASE TrySlot(c)
  <2>1. tried'[c] \in 1..Len(Slots) /\ Slots[tried'[c]] \in SlotDirs /\ Slots[tried'[c]] \in Dirs
    BY <1>1 DEF TrySlot, SlotDirs
  <2> QED
    BY <1>1, <2>1 DEF TrySlot, Make, Go
<1>2. CASE SlotTaken(c)
  BY <1>2 DEF SlotTaken, After, Go
<1>3. CASE SlotRefused(c)
  <2>1. CASE After(c, "threw", "failed")
    BY <1>3, <2>1 DEF SlotRefused, After, Go
  <2>2. CASE Cancelled(c) /\ To(c, "failed")
    BY <1>3, <2>2 DEF SlotRefused, Cancelled, Ready, leaseVars
  <2> QED
    BY <1>3, <2>1, <2>2 DEF SlotRefused
<1>4. CASE TryLedger(c)
  BY <1>4, SlotDirFacts DEF TryLedger, Make, Go, requestVars
<1>5. CASE LedgerRefused(c)
  BY <1>5 DEF LedgerRefused, After, Go, Cancelled, Ready, leaseVars
<1>6. CASE ReadLedger(c)
  BY <1>6 DEF ReadLedger, leaseVars
<1>7. CASE Decide(c)
  BY <1>7 DEF Decide, leaseVars
<1>8. CASE LeaveLedger(c)
  BY <1>8, NextPhases DEF LeaveLedger, Check, Go, requestVars
<1>9. CASE LedgerLeft(c)
  BY <1>9, NextPhases DEF LedgerLeft, After, Go
<1>10. CASE Answer(c)
  BY <1>10 DEF Answer, leaseVars
<1>11. CASE AnswerFails(c)
  BY <1>11 DEF AnswerFails, leaseVars
<1>12. CASE Book(c)
  BY <1>12 DEF Book, leaseVars
<1>13. CASE FreeSlot(c)
  BY <1>13, SlotDirFacts DEF FreeSlot, Check, Go, Ready, requestVars
<1>14. CASE SlotFreed(c)
  BY <1>14 DEF SlotFreed, After, Go
<1> QED
  BY <1>1, <1>2, <1>3, <1>4, <1>5, <1>6, <1>7, <1>8, <1>9, <1>10, <1>11, <1>12, <1>13,
     <1>14 DEF RequestStep

-----------------------------------------------------------------------------
(* Whose a slot and the ledger's lock are.                                 *)

GuardInv == DirInv /\ RequestsTyped /\ FilesTyped /\ PhaseInv /\ SlotsNamed

\* Making a directory takes it from no one.
LEMMA MakeNames ==
  ASSUME LeaseTypeOK, NEW c \in Callers, NEW d \in Dirs, Make(c, d), NEW f \in Dirs, NEW e \in Callers, Names(f, e)
  PROVE  Names(f, e)'
  BY DEF LeaseTypeOK, Make, Mkdir, dirVars, Names

\* One step of a request: it has the slot it takes, and takes none from another.
LEMMA RequestDirs ==
  ASSUME GuardInv, NEW c \in Callers, Live(c), RequestStep(c)
  PROVE  DirInv' /\ SlotsNamed'
<1>0. /\ DirInv /\ LeaseTypeOK /\ RequestsTyped /\ PhaseAt(c) /\ SlotsNamed /\ Works(c, at[c])
      /\ SlotsNamed => \A e \in Callers : Live(e) /\ slotOf[e] # NoSlot => slotOf[e] \in Dirs /\ Names(slotOf[e], e)
  BY DEF GuardInv, DirInv, PhaseInv, AllWork, RequestsTyped, SlotsNamed
<1>1. CASE TrySlot(c) \/ TryLedger(c)
  <2>1. PICK d \in Dirs : Make(c, d) /\ UNCHANGED slotOf
    <3>1. CASE TrySlot(c)
      <4>1. tried'[c] \in 1..Len(Slots)
        BY <1>0, <3>1, SlotFacts DEF TrySlot, RequestsTyped
      <4> QED
        BY <3>1, <4>1, SlotFacts DEF TrySlot
    <3>2. CASE TryLedger(c)
      BY <3>2, SlotFacts DEF TryLedger, requestVars
    <3> QED
      BY <1>1, <3>1, <3>2
  <2>2. DirInv'
    BY <1>0, <2>1, MakeKeeps
  <2>3. SlotsNamed'
    BY <1>0, <2>1, MakeNames DEF SlotsNamed, Live, Make
  <2> QED
    BY <2>2, <2>3
<1>2. CASE LeaveLedger(c) \/ FreeSlot(c)
  <2>1. PICK d \in Dirs : Check(c, d)
    BY <1>0, <1>2, SlotDirFacts, SlotFacts DEF LeaveLedger, FreeSlot, PhaseAt, Releasing,
       ReleaseSteps, Ready
  <2>2. DirInv'
    BY <1>0, <2>1, CheckKeeps
  <2>3. UNCHANGED <<dirVars, dead>> /\ \A e \in Callers : slotOf'[e] \in {slotOf[e], NoSlot}
    BY <1>0, <1>2, <2>1 DEF LeaveLedger, FreeSlot, Check, requestVars, RequestsTyped
  <2> QED
    BY <1>0, <2>2, <2>3 DEF SlotsNamed, Names, dirVars, Live
<1>3. CASE SlotTaken(c)
  <2>1. DirInv'
    BY <1>0, <1>3, GoKeeps DEF SlotTaken, After
  <2> QED
    BY <1>0, <1>3, <2>1 DEF SlotTaken, After, SlotsNamed, Names, dirVars, Live, Works, RequestsTyped
<1>4. CASE SlotRefused(c) \/ LedgerRefused(c) \/ LedgerLeft(c) \/ SlotFreed(c)
  <2>1. UNCHANGED leaseVars \/ (Go(c, "idle") /\ UNCHANGED <<dirVars, at, seenFresh, dead>>)
    BY <1>4 DEF SlotRefused, LedgerRefused, LedgerLeft, SlotFreed, After, Cancelled
  <2>2. UNCHANGED <<slotOf, dirVars, dead>>
    BY <1>4, <2>1 DEF SlotRefused, LedgerRefused, LedgerLeft, SlotFreed, leaseVars
  <2>3. DirInv'
    BY <1>0, <2>1, GoKeeps, QuietKeeps
  <2> QED
    BY <1>0, <2>2, <2>3 DEF SlotsNamed, Names, dirVars, Live
<1>5. CASE ReadLedger(c) \/ Decide(c) \/ Answer(c) \/ AnswerFails(c) \/ Book(c)
  <2>1. UNCHANGED <<leaseVars, slotOf>>
    BY <1>5 DEF ReadLedger, Decide, Answer, AnswerFails, Book
  <2>2. DirInv'
    BY <1>0, <2>1, QuietKeeps
  <2> QED
    BY <1>0, <2>1, <2>2 DEF SlotsNamed, Names, leaseVars, dirVars, Live
<1> QED
  BY <1>1, <1>2, <1>3, <1>4, <1>5 DEF RequestStep

\* One call of the file system.
LEMMA LeaseStepGuards ==
  ASSUME ~StaleRaces, GuardInv, NEW c \in Callers, Live(c), LeaseStep(c),
         UNCHANGED <<requestVars, fileVars, ghosts>>
  PROVE  GuardInv'
<1>0. /\ DirInv /\ LeaseTypeOK /\ RequestsTyped /\ FilesTyped /\ PhaseInv
      /\ UNCHANGED <<phase, slotOf, tried, seen, usage, ledger, today, cooling, charged, asks>>
  BY DEF GuardInv, DirInv, requestVars, fileVars, ghosts
<1>1. DirInv'
  BY <1>0, LeaseStepKeeps
<1>2. (RequestsTyped /\ FilesTyped)'
  BY <1>0 DEF RequestsTyped, FilesTyped
<1>3. /\ UNCHANGED <<at, dead>> /\ \A e \in Callers \ {c} : step'[e] = step[e]
      /\ \/ step[c] \in AcquireSteps /\ step'[c] \in Acquiring
         \/ step[c] \in ReleaseSteps /\ step'[c] \in Releasing
  BY <1>0, StepMoves
<1>4. PhaseInv'
  <2>1. \A e \in Callers \ {c} : PhaseAt(e)'
    BY <1>0, <1>3 DEF PhaseInv, PhaseAt
  <2>2. PhaseAt(c)'
    BY <1>0, <1>3 DEF PhaseInv, PhaseAt, RequestsTyped, Phases, Acquiring, Releasing,
       AcquireSteps, ReleaseSteps
  <2> QED
    BY <2>1, <2>2 DEF PhaseInv
<1>5. SlotsNamed'
  <2> SUFFICES ASSUME NEW e \in Callers, Live(e), slotOf[e] # NoSlot PROVE Names(slotOf[e], e)'
    BY <1>0, <1>3 DEF SlotsNamed, Live, Names
  <2>1. slotOf[e] \in Dirs /\ Names(slotOf[e], e)
    BY <1>0 DEF GuardInv, SlotsNamed, RequestsTyped
  <2>2. ~(c = e /\ at[c] = slotOf[e] /\ step[c] = "unlink")
    BY <1>0, SlotDirFacts DEF PhaseInv, PhaseAt, RequestsTyped, Phases, Acquiring, AcquireSteps
  <2> QED
    BY <1>0, <2>1, <2>2, NamesStay DEF Names
<1> QED
  BY <1>1, <1>2, <1>4, <1>5 DEF GuardInv

\* Every step keeps requests and leases in agreement.
LEMMA GuardStep ==
  ASSUME ~StaleRaces, GuardInv, Next
  PROVE  GuardInv'
<1>1. ASSUME NEW c \in Callers, CallerStep(c) PROVE GuardInv'
  <2>1. CASE RequestStep(c)
    <3>1. (RequestsTyped /\ FilesTyped)' /\ PhaseInv'
      BY <2>1, RequestTypes, RequestPhases DEF GuardInv, DirInv
    <3> QED
      BY <1>1, <2>1, <3>1, RequestDirs DEF GuardInv, CallerStep
  <2> QED
    BY <1>1, <2>1, LeaseStepGuards DEF CallerStep
<1>2. ASSUME NEW p \in Processes, Crash(p) PROVE GuardInv'
  <2>1. DirInv' /\ \A c \in Callers : Live(c)' => Live(c)
    BY <1>2, StopKeeps DEF Crash, GuardInv
  <2> QED
    BY <1>2, <2>1 DEF Crash, Stop, GuardInv, dirVars, requestVars, fileVars, ghosts,
       RequestsTyped, FilesTyped, PhaseInv, PhaseAt, SlotsNamed, Names
<1>3. ASSUME NEW d \in Dirs, Aged(d) PROVE GuardInv'
  <2>1. DirInv'
    BY <1>3, AgeKeeps DEF Aged, GuardInv
  <2> QED
    BY <1>3, <2>1 DEF Aged, Age, GuardInv, dirVars, requestVars, fileVars, ghosts,
       RequestsTyped, FilesTyped, PhaseInv, PhaseAt, SlotsNamed, Names, Live
<1>4. CASE Cooled \/ Midnight
  <2>1. UNCHANGED <<leaseVars, requestVars, ledger, ghosts>> /\ today' \in Days /\ cooling' \in BOOLEAN
    <3>1. CASE Cooled
      BY <1>4, <3>1 DEF Cooled, GuardInv, FilesTyped
    <3>2. CASE Midnight
      <4>1. MaxDays \in Nat /\ today \in 0..MaxDays /\ today < MaxDays
        BY <3>2, ProviderAssumption DEF Midnight, GuardInv, FilesTyped, Days
      <4> QED
        BY <3>2, <4>1 DEF Midnight, GuardInv, FilesTyped, Days
    <3> QED
      BY <1>4, <3>1, <3>2
  <2>2. DirInv'
    BY <2>1, QuietKeeps DEF GuardInv
  <2> QED
    BY <2>1, <2>2 DEF GuardInv, leaseVars, dirVars, requestVars, ghosts,
       RequestsTyped, FilesTyped, PhaseInv, PhaseAt, SlotsNamed, Names, Live
<1> QED
  BY <1>1, <1>2, <1>3, <1>4 DEF Next

\* They agree at the start.
LEMMA GuardInit == Init => GuardInv
<1> SUFFICES ASSUME Init PROVE GuardInv
  OBVIOUS
<1>1. DirInv
  BY LeaseAssumption, SlotFacts
  DEF Init, LeaseInit, DirInv, LeaseTypeOK, LeaseSteps, AllWork, AllApart, Works, Apart
<1>2. RequestsTyped
  BY SlotFacts, ProviderAssumption
  DEF Init, RequestsTyped, Phases, Ledgers, Days, EmptyLedger
<1>3. FilesTyped
  <2>1. PICK spent \in 0..Budget : /\ ledger = [EmptyLedger(0) EXCEPT !.tokens = spent]
                                  /\ charged = [d \in Days |-> IF d = 0 THEN spent ELSE 0]
    BY DEF Init
  <2>2. spent \in Nat
    BY ProviderAssumption
  <2>3. ledger \in Ledgers
    BY <2>1, <2>2, ProviderAssumption DEF Ledgers, Days, EmptyLedger
  <2>4. charged \in [Days -> Nat] /\ asks \in [Days -> Nat]
    BY <2>1, <2>2 DEF Init
  <2>5. today \in Days /\ cooling \in BOOLEAN
    <3>1. 0 \in Days
      BY ProviderAssumption DEF Days
    <3> QED
      BY <3>1 DEF Init
  <2> QED
    BY <2>3, <2>4, <2>5 DEF FilesTyped
<1>4. PhaseInv /\ SlotsNamed
  BY DEF Init, LeaseInit, PhaseInv, PhaseAt, SlotsNamed, Acquiring
<1> QED
  BY <1>1, <1>2, <1>3, <1>4 DEF GuardInv

\* They agree in every reachable state.
LEMMA GuardCorrect ==
  ASSUME ~StaleRaces
  PROVE  Spec => []GuardInv
<1>1. GuardInv /\ UNCHANGED vars => GuardInv'
  BY QuietKeeps DEF GuardInv, vars, leaseVars, dirVars, requestVars, fileVars, ghosts,
     RequestsTyped, FilesTyped, PhaseInv, PhaseAt, SlotsNamed, Names, Live
<1> QED
  BY <1>1, GuardInit, GuardStep, PTL DEF Spec

-----------------------------------------------------------------------------
(* Refinement: an acquisition that ends with the lease is Acquire, the      *)
(* beginning of a release is Release, a process that stops is Die, and      *)
(* every other step leaves the holders alone.                               *)

Holders == [d \in Dirs |-> HoldersOf(d)]

\* Who has a lease is who the directory names.
LEMMA HoldersAreNamed ==
  ASSUME GuardInv, NEW d \in Dirs, NEW e \in HoldersOf(d)
  PROVE  e \in Callers /\ Live(e) /\ Names(d, e)
  BY SlotFacts DEF GuardInv, DirInv, AllWork, Works, SlotsNamed, HoldersOf, Names

\* Holders that stay are a stutter.
LEMMA SameHolders ==
  ASSUME \A d \in Dirs : HoldersOf(d)' = HoldersOf(d)
  PROVE  Holders' = Holders
  BY DEF Holders

\* A call of the file system makes its caller the holder, or changes none.
LEMMA LeaseStepHolds ==
  ASSUME ~StaleRaces, GuardInv, NEW c \in Callers, Live(c), LeaseStep(c), UNCHANGED slotOf
  PROVE  Leases!Next \/ Holders' = Holders
<1>0. DirInv /\ LeaseTypeOK /\ at[c] \in Dirs /\ step[c] \in LeaseSteps
  BY DEF GuardInv, DirInv, LeaseTypeOK
<1>1. UNCHANGED <<at, dead>> /\ (\A e \in Callers \ {c} : step'[e] = step[e]) /\ step[c] # "held"
  BY <1>0, StepMoves DEF AcquireSteps, ReleaseSteps
<1>2. CASE step'[c] = "held"
  <2>1. HoldersOf(at[c]) = {}
    BY <1>0, <1>2, HeldIsNew, HoldersAreNamed DEF HoldersOf
  <2>2. \A d \in Dirs : HoldersOf(d)' = IF d = at[c] THEN HoldersOf(d) \cup {c} ELSE HoldersOf(d)
    BY <1>0, <1>1, <1>2 DEF HoldersOf, Live
  <2>3. Holders' = [Holders EXCEPT ![at[c]] = {c}]
    BY <1>0, <2>1, <2>2 DEF Holders
  <2>4. Leases!Acquire(c, at[c])
    BY <1>0, <2>1, <2>3 DEF Leases!Acquire, Holders
  <2> QED
    BY <1>0, <2>4 DEF Leases!Next
<1>3. CASE step'[c] # "held"
  <2>1. \A d \in Dirs : HoldersOf(d)' = HoldersOf(d)
    BY <1>1, <1>3 DEF HoldersOf, Live
  <2> QED
    BY <2>1, SameHolders
<1> QED
  BY <1>2, <1>3

\* c lets go of d and of nothing else.
LEMMA LetsGo ==
  ASSUME NEW c \in Callers, NEW d \in Dirs, c \in HoldersOf(d),
         \A f \in Dirs : HoldersOf(f)' = IF f = d THEN HoldersOf(f) \ {c} ELSE HoldersOf(f)
  PROVE  Leases!Next
<1>1. Holders' = [Holders EXCEPT ![d] = @ \ {c}] /\ c \in Holders[d]
  BY DEF Holders
<1>2. Leases!Release(c, d)
  BY <1>1 DEF Leases!Release, Holders
<1> QED
  BY <1>2 DEF Leases!Next

\* A step of a request is a step of the abstract leases or changes no holder.
LEMMA RequestHolds ==
  ASSUME GuardInv, NEW c \in Callers, Live(c), RequestStep(c)
  PROVE  Leases!Next \/ Holders' = Holders
<1>0. /\ LeaseTypeOK /\ RequestsTyped /\ PhaseAt(c) /\ slotOf[c] \in Dirs \cup {NoSlot}
      /\ slotOf[c] # Ledger
      /\ Ledger \in Dirs /\ NoSlot \notin Dirs
  BY SlotFacts, SlotDirFacts DEF GuardInv, DirInv, PhaseInv, PhaseAt, RequestsTyped, Phases
<1>1. CASE TrySlot(c) \/ TryLedger(c)
  <2>1. PICK d : Make(c, d) /\ UNCHANGED slotOf /\ step[c] # "held"
    BY <1>1 DEF TrySlot, TryLedger, requestVars, Ready
  <2>2. \A e \in Dirs : HoldersOf(e)' = HoldersOf(e)
    BY <1>0, <2>1 DEF HoldersOf, Live, Make, Go, LeaseTypeOK
  <2> QED
    BY <2>2, SameHolders
<1>2. CASE LeaveLedger(c)
  <2>1. c \in HoldersOf(Ledger)
    BY <1>0, <1>2, NextPhases DEF LeaveLedger, HoldersOf, PhaseAt
  <2>2. \A d \in Dirs : HoldersOf(d)' = IF d = Ledger THEN HoldersOf(d) \ {c} ELSE HoldersOf(d)
    BY <1>0, <1>2, NextPhases DEF LeaveLedger, HoldersOf, PhaseAt, Check, Go, requestVars, Live,
       LeaseTypeOK
  <2> QED
    BY <1>0, <2>1, <2>2, LetsGo
<1>3. CASE FreeSlot(c)
  <2>1. slotOf[c] \in Dirs /\ c \in HoldersOf(slotOf[c])
    BY <1>0, <1>3, SlotDirFacts DEF FreeSlot, HoldersOf, PhaseAt, Ready, Releasing, ReleaseSteps
  <2>2. \A d \in Dirs : HoldersOf(d)' = IF d = slotOf[c] THEN HoldersOf(d) \ {c} ELSE HoldersOf(d)
    BY <1>0, <1>3 DEF FreeSlot, HoldersOf, PhaseAt, Check, Go, Live, LeaseTypeOK, Ready,
       RequestsTyped
  <2> QED
    BY <1>0, <2>1, <2>2, LetsGo
<1>4. CASE SlotTaken(c)
  <2>1. \A d \in Dirs : HoldersOf(d)' = HoldersOf(d)
    BY <1>0, <1>4 DEF SlotTaken, After, Go, HoldersOf, PhaseAt, Live, LeaseTypeOK, RequestsTyped
  <2> QED
    BY <2>1, SameHolders
<1>5. CASE SlotRefused(c) \/ LedgerRefused(c) \/ LedgerLeft(c) \/ SlotFreed(c)
  <2>1. UNCHANGED leaseVars
        \/ (step[c] # "held" /\ Go(c, "idle") /\ UNCHANGED <<dirVars, at, seenFresh, dead>>)
    BY <1>5 DEF SlotRefused, LedgerRefused, LedgerLeft, SlotFreed, After, Cancelled
  <2>2. UNCHANGED slotOf
    BY <1>5 DEF SlotRefused, LedgerRefused, LedgerLeft, SlotFreed
  <2>3. \A d \in Dirs : HoldersOf(d)' = HoldersOf(d)
    BY <1>0, <2>1, <2>2 DEF HoldersOf, Go, Live, LeaseTypeOK, leaseVars
  <2> QED
    BY <2>3, SameHolders
<1>6. CASE ReadLedger(c) \/ Decide(c) \/ Answer(c) \/ AnswerFails(c) \/ Book(c)
  <2>1. UNCHANGED <<leaseVars, slotOf>>
    BY <1>6 DEF ReadLedger, Decide, Answer, AnswerFails, Book
  <2>2. \A d \in Dirs : HoldersOf(d)' = HoldersOf(d)
    BY <2>1 DEF HoldersOf, Live, leaseVars
  <2> QED
    BY <2>2, SameHolders
<1> QED
  BY <1>1, <1>2, <1>3, <1>4, <1>5, <1>6 DEF RequestStep

\* So is every step.
LEMMA StepIsLeasesStep ==
  ASSUME ~StaleRaces, GuardInv, [Next]_vars
  PROVE  Leases!Next \/ Holders' = Holders
<1>1. ASSUME NEW c \in Callers, CallerStep(c) PROVE Leases!Next \/ Holders' = Holders
  BY <1>1, RequestHolds, LeaseStepHolds DEF CallerStep, requestVars
<1>2. ASSUME NEW p \in Processes, Crash(p) PROVE Leases!Next
  <2> DEFINE gone == {c \in Callers : ProcessOf[c] = p}
  <2>1. UNCHANGED <<slotOf, at, step>> /\ dead' = dead \cup {p}
    BY <1>2 DEF Crash, Stop, requestVars
  <2>2. \A d \in Dirs : HoldersOf(d)' = HoldersOf(d) \ gone
    BY <2>1 DEF HoldersOf, Live
  <2>3. Leases!Die(gone)
    BY <2>2 DEF Leases!Die, Holders
  <2>4. gone \in SUBSET Callers
    OBVIOUS
  <2> QED
    BY <2>3, <2>4 DEF Leases!Next
<1>3. CASE UNCHANGED vars \/ Cooled \/ Midnight \/ \E d \in Dirs : Aged(d)
  <2>1. UNCHANGED <<slotOf, at, step, dead>>
    BY <1>3 DEF vars, Cooled, Midnight, Aged, Age, leaseVars, requestVars
  <2>2. \A d \in Dirs : HoldersOf(d)' = HoldersOf(d)
    BY <2>1 DEF HoldersOf, Live
  <2> QED
    BY <2>2, SameHolders
<1> QED
  BY <1>1, <1>2, <1>3 DEF Next

\* The directories keep what a lease promises over every interleaving of the file
\* system's calls, takeovers of stale directories and processes that stop: each slot
\* and the ledger's lock have one holder at a time, of any process.  The hypothesis is
\* the one of the model's bound: a verdict that a directory is stale is acted on while
\* it is true (inspectLease and the rename are two calls, and nothing ties them).
THEOREM LeasesImplemented ==
  ASSUME ~StaleRaces
  PROVE  Spec => ImplementsLeases
<1>1. Init => Leases!Init
  <2> SUFFICES ASSUME Init PROVE Leases!Init
    OBVIOUS
  <2>1. \A d \in Dirs : HoldersOf(d) = {}
    BY SlotFacts DEF Init, LeaseInit, HoldersOf
  <2> QED
    BY <2>1 DEF Leases!Init
<1>2. GuardInv /\ [Next]_vars => [Leases!Next]_Holders
  BY StepIsLeasesStep
<1> QED
  BY <1>1, <1>2, GuardCorrect, PTL DEF Spec, ImplementsLeases, Leases!Spec, Holders

-----------------------------------------------------------------------------
(* The ledger.  Between its reading and its writing the lock is held, so   *)
(* what a request read is still so; and the requests that were admitted    *)
(* and not yet charged have a slot each.                                   *)

AtLedger == {"decide", "account"}

\* What a request read of the ledger: as it is, or nothing yet of a later day.
SeenAt(c) ==
  /\ ledger.date <= seen[c].date /\ seen[c].date <= today
  /\ seen[c].date = ledger.date => seen[c] = ledger
  /\ seen[c].date # ledger.date => seen[c] = EmptyLedger(seen[c].date)

LedgerInv ==
  /\ LedgerIsExact /\ ledger.date <= today
  /\ \A d \in Days : d > ledger.date => charged[d] = 0 /\ asks[d] = 0
  /\ \A c \in Callers : Live(c) /\ phase[c] \in AtLedger => SeenAt(c)

\* The ledger with what a request adds to it.
LEMMA LedgerSums ==
  ASSUME NEW l \in Ledgers
  PROVE  /\ l.date \in Nat /\ l.date \in Days /\ l.tokens \in Nat /\ l.requests \in Nat
         /\ [l EXCEPT !.requests = @ + 1].date = l.date
         /\ [l EXCEPT !.requests = @ + 1].tokens = l.tokens
         /\ [l EXCEPT !.requests = @ + 1].requests = l.requests + 1
         /\ \A n \in Nat : /\ [l EXCEPT !.tokens = @ + n].date = l.date
                           /\ [l EXCEPT !.tokens = @ + n].tokens = l.tokens + n
                           /\ [l EXCEPT !.tokens = @ + n].requests = l.requests
         /\ \A d \in Days : /\ EmptyLedger(d).date = d /\ EmptyLedger(d).tokens = 0
                            /\ EmptyLedger(d).requests = 0
  BY ProviderAssumption DEF Ledgers, Days, EmptyLedger

\* One request at a time is between them.
LEMMA OneAtLedger ==
  ASSUME GuardInv, NEW c \in Callers, NEW e \in Callers, Live(c), Live(e),
         phase[c] \in AtLedger, phase[e] \in AtLedger
  PROVE  c = e
  BY DEF GuardInv, DirInv, AllWork, Works, PhaseInv, PhaseAt, AtLedger

\* Nothing of this happens.
LEMMA LedgerQuiet ==
  ASSUME GuardInv, LedgerInv, UNCHANGED <<ledger, ghosts>>, today' \in Nat, today <= today',
         \A c \in Callers : Live(c)' /\ phase'[c] \in AtLedger =>
           Live(c) /\ phase[c] \in AtLedger /\ seen'[c] = seen[c]
  PROVE  LedgerInv'
<1>1. /\ today \in Nat /\ ledger.date \in Nat
      /\ \A c \in Callers : seen[c].date \in Nat
  BY LedgerSums, ProviderAssumption DEF GuardInv, RequestsTyped, FilesTyped, Days
<1>2. \A c \in Callers : Live(c)' /\ phase'[c] \in AtLedger => SeenAt(c)'
  BY <1>1 DEF LedgerInv, SeenAt
<1> QED
  BY <1>1, <1>2 DEF LedgerInv, LedgerIsExact, ghosts

\* One request writes what it read, and what is its own, under the date it read.
LEMMA LedgerWritten ==
  ASSUME GuardInv, LedgerInv, NEW c \in Callers, Live(c), phase[c] \in AtLedger,
         NEW n \in Nat, NEW k \in Nat, ledger' \in Ledgers, UNCHANGED <<today, dead>>,
         ledger'.date = seen[c].date,
         ledger'.tokens = seen[c].tokens + n, ledger'.requests = seen[c].requests + k,
         charged' = [charged EXCEPT ![seen[c].date] = @ + n],
         asks' = [asks EXCEPT ![seen[c].date] = @ + k],
         \A e \in Callers : phase'[e] \in AtLedger => e # c /\ phase[e] \in AtLedger
  PROVE  LedgerInv'
<1>1. /\ today \in Nat /\ ledger.date \in Nat /\ seen[c] \in Ledgers
      /\ seen[c].date \in Nat /\ seen[c].date \in Days /\ ledger.date \in Days
      /\ charged \in [Days -> Nat] /\ asks \in [Days -> Nat]
  <2>1. ledger \in Ledgers /\ seen[c] \in Ledgers /\ charged \in [Days -> Nat] /\ asks \in [Days -> Nat]
    BY DEF GuardInv, RequestsTyped, FilesTyped
  <2>2. today \in Nat
    BY ProviderAssumption DEF GuardInv, FilesTyped, Days
  <2> QED
    BY <2>1, <2>2, LedgerSums
<1>2. SeenAt(c) /\ LedgerIsExact
  BY DEF LedgerInv
<1>3. seen[c].tokens = charged[seen[c].date] /\ seen[c].requests = asks[seen[c].date]
  <2>1. CASE seen[c].date = ledger.date
    BY <1>2, <2>1 DEF SeenAt, LedgerIsExact
  <2>2. CASE seen[c].date # ledger.date
    BY <1>1, <1>2, <2>2, LedgerSums DEF SeenAt, LedgerInv
  <2> QED
    BY <2>1, <2>2
<1>4. LedgerIsExact'
  BY <1>1, <1>3 DEF LedgerIsExact
<1>5. ledger'.date <= today' /\ \A d \in Days : d > ledger'.date => charged'[d] = 0 /\ asks'[d] = 0
  <2>1. \A d \in Days : d \in Nat
    BY ProviderAssumption DEF Days
  <2> QED
    BY <1>1, <1>2, <2>1 DEF SeenAt, LedgerInv
<1>6. \A e \in Callers : Live(e)' => phase'[e] \notin AtLedger
  BY OneAtLedger DEF Live
<1> QED
  BY <1>4, <1>5, <1>6 DEF LedgerInv

\* Every step keeps the ledger at what was reserved and settled.
LEMMA LedgerStep ==
  ASSUME ~StaleRaces, GuardInv, LedgerInv, Next
  PROVE  LedgerInv'
<1>0. RequestsTyped /\ FilesTyped /\ today \in Nat /\ GuardInv'
  BY ProviderAssumption, GuardStep, SMTT(30) DEF GuardInv, FilesTyped, Days
<1>1. ASSUME NEW c \in Callers, Live(c), RequestStep(c) PROVE LedgerInv'
  <2>0. UNCHANGED <<dead, today>>
    <3>1. CASE TrySlot(c) \/ TryLedger(c) \/ LeaveLedger(c) \/ FreeSlot(c)
      BY <3>1 DEF TrySlot, TryLedger, LeaveLedger, FreeSlot, Make, Check, fileVars
    <3>2. CASE SlotTaken(c) \/ SlotRefused(c) \/ LedgerRefused(c) \/ LedgerLeft(c) \/ SlotFreed(c)
      BY <3>2 DEF SlotTaken, SlotRefused, LedgerRefused, LedgerLeft, SlotFreed, After, Cancelled,
         leaseVars, fileVars
    <3>3. CASE ReadLedger(c) \/ Decide(c) \/ Answer(c) \/ AnswerFails(c) \/ Book(c)
      BY <3>3 DEF ReadLedger, Decide, Answer, AnswerFails, Book, leaseVars, fileVars
    <3> QED
      BY <1>1, <3>1, <3>2, <3>3 DEF RequestStep
  <2>1. CASE TrySlot(c) \/ TryLedger(c) \/ LeaveLedger(c) \/ FreeSlot(c)
    <3>1. UNCHANGED <<phase, seen, ledger, ghosts>>
      BY <2>1 DEF TrySlot, TryLedger, LeaveLedger, FreeSlot, requestVars, fileVars
    <3> QED
      BY <1>0, <2>0, <3>1, LedgerQuiet DEF Live
  <2>2. CASE SlotTaken(c) \/ SlotRefused(c) \/ LedgerRefused(c) \/ LedgerLeft(c) \/ SlotFreed(c)
             \/ Answer(c) \/ AnswerFails(c)
    <3>1. UNCHANGED <<seen, ledger, ghosts>>
      BY <2>2 DEF SlotTaken, SlotRefused, LedgerRefused, LedgerLeft, SlotFreed, Answer,
         AnswerFails, fileVars
    <3>2. \A e \in Callers : phase'[e] \in AtLedger => phase[e] \in AtLedger
      <4>1. PICK p \in Phases \ AtLedger : phase' = [phase EXCEPT ![c] = p]
        BY <2>2, NextPhases DEF SlotTaken, SlotRefused, LedgerRefused, LedgerLeft, SlotFreed,
           Answer,
           AnswerFails, After, To, Phases, AtLedger
      <4> QED
        BY <1>0, <4>1 DEF RequestsTyped
    <3> QED
      BY <1>0, <2>0, <3>1, <3>2, LedgerQuiet DEF Live
  <2>3. CASE ReadLedger(c)
    <3>1. /\ UNCHANGED <<leaseVars, fileVars, ghosts>>
          /\ \A e \in Callers \ {c} : phase'[e] = phase[e] /\ seen'[e] = seen[e]
          /\ seen'[c] = IF ledger.date = today THEN ledger ELSE EmptyLedger(today)
      BY <1>0, <2>3 DEF ReadLedger, To, RequestsTyped
    <3>2. SeenAt(c)'
      <4>1. /\ ledger.date \in Nat /\ EmptyLedger(today).date = today /\ ledger.date <= today
        BY <1>0, LedgerSums DEF FilesTyped, LedgerInv
      <4> QED
        BY <1>0, <3>1, <4>1 DEF SeenAt, fileVars
    <3>3. \A e \in Callers : Live(e)' /\ phase'[e] \in AtLedger => SeenAt(e)'
      BY <2>0, <3>1, <3>2 DEF LedgerInv, SeenAt, fileVars, Live
    <3> QED
      BY <3>1, <3>3 DEF LedgerInv, LedgerIsExact, fileVars, ghosts
  <2>4. CASE Decide(c)
    <3>1. CASE ledger' = [seen[c] EXCEPT !.requests = @ + 1] /\ asks' = [asks EXCEPT ![seen[c].date] = @ + 1]
               /\ phase' = [phase EXCEPT ![c] = "enter"]
      <4>1. /\ seen[c] \in Ledgers /\ seen[c].date \in Days /\ seen[c].tokens \in Nat /\ seen[c].requests \in Nat
            /\ ledger' \in Ledgers /\ ledger'.date = seen[c].date
            /\ ledger'.tokens = seen[c].tokens + 0 /\ ledger'.requests = seen[c].requests + 1
        BY <1>0, <3>1, LedgerSums, LedgerTypes DEF RequestsTyped
      <4>2. charged' = [charged EXCEPT ![seen[c].date] = @ + 0] /\ phase[c] \in AtLedger
        BY <1>0, <2>4, <4>1 DEF Decide, FilesTyped, AtLedger
      <4>3. \A e \in Callers : phase'[e] \in AtLedger => e # c /\ phase[e] \in AtLedger
        BY <1>0, <3>1 DEF RequestsTyped, AtLedger
      <4> QED
        BY <1>1, <2>0, <3>1, <4>1, <4>2, <4>3, LedgerWritten
    <3>2. CASE UNCHANGED <<ledger, asks>> /\ phase'[c] \notin AtLedger
      <4>1. UNCHANGED charged /\ \A e \in Callers \ {c} : phase'[e] = phase[e] /\ seen'[e] = seen[e]
        BY <1>0, <2>4 DEF Decide, To, RequestsTyped
      <4> QED
        BY <1>0, <2>0, <3>2, <4>1, LedgerQuiet DEF ghosts, Live
    <3> QED
      BY <1>0, <2>4, <3>1, <3>2 DEF Decide, To, RequestsTyped, AtLedger
  <2>5. CASE Book(c)
    <3>1. /\ seen[c] \in Ledgers /\ seen[c].date \in Days /\ seen[c].tokens \in Nat /\ seen[c].requests \in Nat
          /\ usage[c] \in Nat
      BY <1>0, LedgerSums, ProviderAssumption DEF RequestsTyped
    <3>2. /\ ledger' \in Ledgers /\ ledger'.date = seen[c].date
          /\ ledger'.tokens = seen[c].tokens + usage[c] /\ ledger'.requests = seen[c].requests + 0
      <4>1. ledger' = [seen[c] EXCEPT !.tokens = @ + usage[c]]
        BY <2>5 DEF Book
      <4>2. [seen[c] EXCEPT !.tokens = @ + usage[c]] \in Ledgers
        BY <3>1, LedgerTypes
      <4> QED
        BY <3>1, <4>1, <4>2, LedgerSums
    <3>3. asks' = [asks EXCEPT ![seen[c].date] = @ + 0] /\ phase[c] \in AtLedger
      BY <1>0, <2>5, <3>1 DEF Book, FilesTyped, AtLedger
    <3>4. charged' = [charged EXCEPT ![seen[c].date] = @ + usage[c]]
      BY <2>5 DEF Book
    <3>5. \A e \in Callers : phase'[e] \in AtLedger => e # c /\ phase[e] \in AtLedger
      BY <1>0, <2>5 DEF Book, To, RequestsTyped, AtLedger
    <3> QED
      BY <1>1, <2>0, <3>1, <3>2, <3>3, <3>4, <3>5, LedgerWritten
  <2> QED
    BY <1>1, <2>1, <2>2, <2>3, <2>4, <2>5 DEF RequestStep
<1>2. ASSUME NEW c \in Callers, LeaseStep(c), UNCHANGED <<requestVars, fileVars, ghosts>> PROVE LedgerInv'
  <2>1. UNCHANGED dead
    BY <1>2, StepMoves DEF GuardInv, DirInv
  <2> QED
    BY <1>0, <1>2, <2>1, LedgerQuiet DEF requestVars, fileVars, Live
<1>3. ASSUME NEW p \in Processes, Crash(p) PROVE LedgerInv'
  BY <1>0, <1>3, LedgerQuiet, StopKeeps DEF Crash, requestVars, fileVars, GuardInv
<1>4. ASSUME NEW d \in Dirs, Aged(d) PROVE LedgerInv'
  BY <1>0, <1>4, LedgerQuiet DEF Aged, Age, requestVars, fileVars, Live
<1>5. CASE Cooled \/ Midnight
  <2>1. UNCHANGED <<leaseVars, requestVars, ledger, ghosts>> /\ today' \in Nat /\ today <= today'
    BY <1>0, <1>5 DEF Cooled, Midnight
  <2> QED
    BY <1>0, <2>1, LedgerQuiet DEF requestVars, leaseVars, Live
<1> QED
  BY <1>1, <1>2, <1>3, <1>4, <1>5 DEF Next, CallerStep

-----------------------------------------------------------------------------
(* The budget.  A request is admitted while the day is below it, and each  *)
(* one that is admitted and not yet charged has a slot of its own.         *)

Admitted == {"enter", "ask", "charge", "account"}
SlotsInFlight ==
  {i \in 1..Len(Slots) : \E c \in Callers : Live(c) /\ slotOf[c] = Slots[i] /\ phase[c] \in Admitted}

FlightInv ==
  Budget > 0 =>
    ledger.tokens + MaxTokens * Cardinality(SlotsInFlight) <= Budget - 1 + MaxTokens * Len(Slots)

\* Products grow with their second factor.
LEMMA Times ==
  ASSUME NEW m \in Nat, NEW n \in Nat, NEW k \in Nat, n <= k
  PROVE  m * n \in Nat /\ m * k \in Nat /\ m * n <= m * k
<1>1. PICK j \in Nat : k = n + j
  <2>1. k - n \in Nat /\ k = n + (k - n)
    OBVIOUS
  <2> QED
    BY <2>1
<1>2. m * k = m * n + m * j /\ m * j \in Nat /\ m * n \in Nat
  BY <1>1
<1> QED
  BY <1>2

\* There are no more of them than slots.
LEMMA SlotSets ==
  ASSUME NEW S \in SUBSET (1..Len(Slots))
  PROVE  IsFiniteSet(S) /\ Cardinality(S) \in Nat /\ Cardinality(S) <= Len(Slots)
<1>1. /\ IsFiniteSet(1..Len(Slots)) /\ Cardinality(1..Len(Slots)) = Len(Slots)
  BY SlotFacts, FS_Interval
<1> QED
  BY <1>1, FS_Subset, FS_CardinalityType

\* The slots in flight are among the slots.
LEMMA FlightSets ==
  /\ SlotsInFlight \in SUBSET (1..Len(Slots))
  /\ SlotsInFlight' \in SUBSET (1..Len(Slots))
  BY DEF SlotsInFlight

\* The ledger grows by no more than what the requests that leave were counted for.
LEMMA FlightShrinks ==
  ASSUME GuardInv, FlightInv, ledger'.tokens \in Nat, NEW n \in Nat, NEW S \in SUBSET SlotsInFlight,
         ledger'.tokens <= ledger.tokens + MaxTokens * n,
         Cardinality(S) + n <= Cardinality(SlotsInFlight), SlotsInFlight' \subseteq S
  PROVE  FlightInv'
<1>1. /\ Cardinality(S) \in Nat /\ Cardinality(SlotsInFlight') \in Nat /\ Cardinality(SlotsInFlight) \in Nat
      /\ Cardinality(SlotsInFlight') <= Cardinality(S)
  <2>1. S \in SUBSET (1..Len(Slots)) /\ SlotsInFlight' \in SUBSET (1..Len(Slots))
    BY FlightSets
  <2> QED
    BY <2>1, FlightSets, SlotSets, FS_Subset
<1>2. MaxTokens \in Nat /\ Budget \in Nat /\ Len(Slots) \in Nat /\ ledger.tokens \in Nat
  BY ProviderAssumption, SlotFacts, LedgerSums DEF GuardInv, FilesTyped
<1>3. MaxTokens * (Cardinality(SlotsInFlight') + n) <= MaxTokens * Cardinality(SlotsInFlight)
  <2>1. /\ Cardinality(SlotsInFlight') + n \in Nat
        /\ Cardinality(SlotsInFlight') + n <= Cardinality(SlotsInFlight)
    BY <1>1
  <2> QED
    BY <1>1, <1>2, <2>1, Times
<1>4. MaxTokens * (Cardinality(SlotsInFlight') + n) = MaxTokens * Cardinality(SlotsInFlight') + MaxTokens * n
  BY <1>1, <1>2
<1>5. /\ MaxTokens * Cardinality(SlotsInFlight') \in Nat /\ MaxTokens * n \in Nat
      /\ MaxTokens * Cardinality(SlotsInFlight) \in Nat /\ MaxTokens * Len(Slots) \in Nat
  BY <1>1, <1>2, Times
<1> QED
  BY <1>2, <1>3, <1>4, <1>5 DEF FlightInv

\* Nothing of this happens.
LEMMA FlightQuiet ==
  ASSUME GuardInv, FlightInv, UNCHANGED ledger,
         \A c \in Callers : Live(c)' /\ phase'[c] \in Admitted =>
           Live(c) /\ phase[c] \in Admitted /\ slotOf'[c] = slotOf[c]
  PROVE  FlightInv'
<1>1. SlotsInFlight' \subseteq SlotsInFlight
  BY DEF SlotsInFlight
<1>2. ledger.tokens \in Nat /\ MaxTokens \in Nat /\ MaxTokens * 0 = 0
  BY ProviderAssumption, LedgerSums DEF GuardInv, FilesTyped
<1>3. Cardinality(SlotsInFlight) \in Nat
  BY FlightSets, SlotSets
<1> QED
  BY <1>1, <1>2, <1>3, FlightShrinks

\* What a request is admitted on, and charged to, is no more than what was used.
LEMMA SeenTokens ==
  ASSUME GuardInv, LedgerInv, NEW c \in Callers, Live(c), phase[c] \in AtLedger
  PROVE  seen[c] \in Ledgers /\ seen[c].tokens \in Nat /\ seen[c].tokens <= ledger.tokens
<1>1. seen[c] \in Ledgers /\ ledger \in Ledgers /\ SeenAt(c)
  BY DEF GuardInv, RequestsTyped, FilesTyped, LedgerInv
<1>2. CASE seen[c].date = ledger.date
  BY <1>1, <1>2, LedgerSums DEF SeenAt
<1>3. CASE seen[c].date # ledger.date
  <2>1. seen[c].tokens = 0
    BY <1>1, <1>3, LedgerSums DEF SeenAt
  <2> QED
    BY <1>1, <2>1, LedgerSums
<1> QED
  BY <1>2, <1>3

\* Every step keeps the reservations within the slots in flight.
LEMMA FlightStep ==
  ASSUME GuardInv, LedgerInv, FlightInv, Next
  PROVE  FlightInv'
<1>0. RequestsTyped /\ FilesTyped /\ \A c \in Callers : PhaseAt(c)
  BY DEF GuardInv, PhaseInv
<1>1. ASSUME NEW c \in Callers, Live(c), RequestStep(c) PROVE FlightInv'
  <2>0. UNCHANGED dead
    <3>1. CASE TrySlot(c) \/ TryLedger(c) \/ LeaveLedger(c) \/ FreeSlot(c)
      BY <3>1 DEF TrySlot, TryLedger, LeaveLedger, FreeSlot, Make, Check
    <3>2. CASE SlotTaken(c) \/ SlotRefused(c) \/ LedgerRefused(c) \/ LedgerLeft(c) \/ SlotFreed(c)
      BY <3>2 DEF SlotTaken, SlotRefused, LedgerRefused, LedgerLeft, SlotFreed, After, Cancelled,
         leaseVars
    <3>3. CASE ReadLedger(c) \/ Decide(c) \/ Answer(c) \/ AnswerFails(c) \/ Book(c)
      BY <3>3 DEF ReadLedger, Decide, Answer, AnswerFails, Book, leaseVars
    <3> QED
      BY <1>1, <3>1, <3>2, <3>3 DEF RequestStep
  <2>1. CASE TrySlot(c) \/ TryLedger(c) \/ LeaveLedger(c)
    BY <2>0, <2>1, FlightQuiet DEF TrySlot, TryLedger, LeaveLedger, requestVars, fileVars, Live
  <2>2. CASE FreeSlot(c)
    <3>1. phase[c] \notin Admitted /\ UNCHANGED <<phase, ledger>> /\ \A e \in Callers \ {c} : slotOf'[e] = slotOf[e]
      BY <1>0, <2>2 DEF FreeSlot, fileVars, Admitted, RequestsTyped
    <3> QED
      BY <2>0, <3>1, FlightQuiet DEF Live
  <2>3. CASE SlotTaken(c) \/ SlotRefused(c) \/ LedgerRefused(c) \/ SlotFreed(c) \/ LedgerLeft(c)
             \/ ReadLedger(c) \/ Answer(c) \/ AnswerFails(c)
    <3>1. UNCHANGED ledger /\ \A e \in Callers \ {c} : phase'[e] = phase[e] /\ slotOf'[e] = slotOf[e]
      BY <1>0, <2>3 DEF SlotTaken, SlotRefused, LedgerRefused, LedgerLeft, SlotFreed, ReadLedger,
         Answer,
         AnswerFails, After, To, fileVars, RequestsTyped
    <3>2. phase'[c] \in Admitted => phase[c] \in Admitted /\ slotOf'[c] = slotOf[c]
      <4>1. CASE SlotTaken(c) \/ SlotRefused(c) \/ LedgerRefused(c) \/ SlotFreed(c)
        BY <1>0, <4>1 DEF SlotTaken, SlotRefused, LedgerRefused, SlotFreed, After, To,
           RequestsTyped, Admitted
      <4>2. CASE LedgerLeft(c)
        BY <1>0, <4>2, NextPhases DEF LedgerLeft, After, To, RequestsTyped, Admitted
      <4>3. CASE ReadLedger(c) \/ Answer(c) \/ AnswerFails(c)
        BY <1>0, <4>3 DEF ReadLedger, Answer, AnswerFails, To, RequestsTyped, Admitted
      <4> QED
        BY <2>3, <4>1, <4>2, <4>3
    <3> QED
      BY <2>0, <3>1, <3>2, FlightQuiet DEF Live
  <2>4. CASE Decide(c) /\ phase'[c] = "enter"
    <3>1. /\ seen[c].tokens \in Nat /\ seen[c] \in Ledgers
          /\ Budget > 0 => seen[c].tokens < Budget
          /\ ledger' = [seen[c] EXCEPT !.requests = @ + 1]
      <4>1. seen[c].tokens \in Nat /\ seen[c] \in Ledgers
        BY <1>0, <1>1, <2>4, SeenTokens DEF Decide, AtLedger
      <4>2. ~Exhausted(seen[c]) /\ ledger' = [seen[c] EXCEPT !.requests = @ + 1]
        BY <1>0, <2>4 DEF Decide, To, RequestsTyped
      <4> QED
        BY <4>1, <4>2, ProviderAssumption DEF Exhausted
    <3>2. ledger'.tokens = seen[c].tokens
      BY <3>1, LedgerSums
    <3>3. Cardinality(SlotsInFlight') \in Nat /\ Cardinality(SlotsInFlight') <= Len(Slots)
      BY FlightSets, SlotSets
    <3>4. MaxTokens \in Nat /\ Budget \in Nat /\ Len(Slots) \in Nat
      BY ProviderAssumption, SlotFacts
    <3>5. /\ MaxTokens * Cardinality(SlotsInFlight') \in Nat /\ MaxTokens * Len(Slots) \in Nat
          /\ MaxTokens * Cardinality(SlotsInFlight') <= MaxTokens * Len(Slots)
      BY <3>3, <3>4, Times
    <3> QED
      BY <3>1, <3>2, <3>4, <3>5 DEF FlightInv
  <2>5. CASE Decide(c) /\ phase'[c] # "enter"
    <3>1. UNCHANGED <<ledger, slotOf>> /\ phase'[c] \in {"refuse", "cool"}
          /\ \A e \in Callers \ {c} : phase'[e] = phase[e]
      BY <1>0, <2>5 DEF Decide, To, RequestsTyped
    <3> QED
      BY <2>0, <3>1, FlightQuiet DEF Live, Admitted
  <2>6. CASE Book(c)
    <3>1. PICK i \in 1..Len(Slots) : slotOf[c] = Slots[i]
      BY <1>0, <2>6 DEF Book, PhaseAt, SlotDirs
    <3>2. i \in SlotsInFlight
      BY <1>1, <2>6, <3>1 DEF Book, SlotsInFlight, Admitted
    <3>3. SlotsInFlight' \subseteq SlotsInFlight \ {i}
      <4>1. ASSUME NEW j \in SlotsInFlight' PROVE j \in SlotsInFlight \ {i}
        <5>1. PICK e \in Callers : j \in 1..Len(Slots) /\ Live(e) /\ slotOf[e] = Slots[j]
                                   /\ phase'[e] \in Admitted
          BY <2>0, <2>6, <4>1 DEF SlotsInFlight, Book, Live
        <5>2. e # c /\ phase[e] \in Admitted
          BY <1>0, <2>6, <5>1 DEF Book, To, RequestsTyped, Admitted
        <5>3. j # i
          BY <1>1, <3>1, <5>1, <5>2, SlotFacts DEF GuardInv, SlotsNamed, Names
        <5> QED
          BY <5>1, <5>2, <5>3 DEF SlotsInFlight
      <4> QED
        BY <4>1
    <3>4. Cardinality(SlotsInFlight \ {i}) + 1 <= Cardinality(SlotsInFlight)
      <4>1. IsFiniteSet(SlotsInFlight) /\ Cardinality(SlotsInFlight) \in Nat
        BY FlightSets, SlotSets
      <4>2. Cardinality(SlotsInFlight \ {i}) = Cardinality(SlotsInFlight) - 1
        BY <3>2, <4>1, FS_RemoveElement
      <4> QED
        BY <4>1, <4>2
    <3>5. /\ usage[c] \in Nat /\ usage[c] <= MaxTokens /\ MaxTokens \in Nat
          /\ seen[c] \in Ledgers /\ seen[c].tokens \in Nat /\ seen[c].tokens <= ledger.tokens
          /\ ledger.tokens \in Nat
      <4>1. usage[c] \in 0..MaxTokens /\ MaxTokens \in Nat
        BY <1>0, ProviderAssumption DEF RequestsTyped
      <4>2. ledger.tokens \in Nat
        BY <1>0, LedgerSums DEF FilesTyped
      <4> QED
        BY <1>1, <2>6, <4>1, <4>2, SeenTokens DEF Book, AtLedger
    <3>6. ledger'.tokens = seen[c].tokens + usage[c]
      <4>1. ledger' = [seen[c] EXCEPT !.tokens = @ + usage[c]]
        BY <2>6 DEF Book
      <4> QED
        BY <3>5, <4>1, LedgerSums
    <3>7. ledger'.tokens \in Nat /\ ledger'.tokens <= ledger.tokens + MaxTokens * 1
      BY <3>5, <3>6
    <3> QED
      BY <3>3, <3>4, <3>7, FlightShrinks
  <2> QED
    BY <1>1, <2>1, <2>2, <2>3, <2>4, <2>5, <2>6 DEF RequestStep
<1>2. ASSUME NEW c \in Callers, LeaseStep(c), UNCHANGED <<requestVars, fileVars, ghosts>> PROVE FlightInv'
  <2>1. UNCHANGED dead
    BY <1>2, StepMoves DEF GuardInv, DirInv
  <2> QED
    BY <1>2, <2>1, FlightQuiet DEF requestVars, fileVars, Live
<1>3. ASSUME NEW p \in Processes, Crash(p) PROVE FlightInv'
  BY <1>3, FlightQuiet, StopKeeps DEF Crash, requestVars, fileVars, GuardInv
<1>4. ASSUME NEW d \in Dirs, Aged(d) PROVE FlightInv'
  BY <1>4, FlightQuiet DEF Aged, Age, requestVars, fileVars, Live
<1>5. CASE Cooled \/ Midnight
  <2>1. UNCHANGED <<leaseVars, requestVars, ledger>>
    BY <1>5 DEF Cooled, Midnight
  <2> QED
    BY <2>1, FlightQuiet DEF requestVars, leaseVars, Live
<1> QED
  BY <1>1, <1>2, <1>3, <1>4, <1>5 DEF Next, CallerStep

\* The ledger is right at the start.
LEMMA LedgerInit == Init => LedgerInv /\ FlightInv
<1> SUFFICES ASSUME Init PROVE LedgerInv /\ FlightInv
  OBVIOUS
<1>1. PICK spent \in 0..Budget : /\ ledger = [EmptyLedger(0) EXCEPT !.tokens = spent]
                                /\ charged = [d \in Days |-> IF d = 0 THEN spent ELSE 0]
  BY DEF Init
<1>2. 0 \in Days /\ spent \in Nat /\ spent <= Budget /\ Budget \in Nat
  BY ProviderAssumption DEF Days
<1>3. ledger.date = 0 /\ ledger.tokens = spent /\ ledger.requests = 0
  BY <1>1, <1>2 DEF EmptyLedger
<1>4. LedgerInv
  BY <1>1, <1>2, <1>3 DEF Init, LedgerInv, LedgerIsExact, AtLedger, Days
<1>5. FlightInv
  <2>1. SlotsInFlight = {} /\ Cardinality(SlotsInFlight) = 0
    BY FS_EmptySet DEF Init, SlotsInFlight, Admitted
  <2>2. MaxTokens \in Nat /\ MaxTokens >= 1 /\ Len(Slots) \in Nat /\ Len(Slots) >= 1
    BY ProviderAssumption, SlotFacts
  <2>3. MaxTokens * 1 <= MaxTokens * Len(Slots) /\ MaxTokens * Len(Slots) \in Nat
    BY <2>2, Times
  <2>4. MaxTokens * Cardinality(SlotsInFlight) = 0
    BY <2>1, <2>2
  <2> QED
    BY <1>2, <1>3, <2>2, <2>3, <2>4 DEF FlightInv
<1> QED
  BY <1>4, <1>5

\* The ledger that several processes keep together stays the true account of its
\* day, over every interleaving, midnight and crash, and the daily budget is overshot by
\* no more than one response of each slot: what two requests may miss of each other is
\* only what is asked and not yet charged.  The hypothesis is that of LeasesImplemented.
THEOREM LedgerIsKeptCorrect ==
  ASSUME ~StaleRaces
  PROVE  Spec => []LedgerIsKept
<1>1. GuardInv /\ LedgerInv /\ FlightInv /\ [Next]_vars => (LedgerInv /\ FlightInv)'
  <2> SUFFICES ASSUME GuardInv, LedgerInv, FlightInv, [Next]_vars PROVE (LedgerInv /\ FlightInv)'
    OBVIOUS
  <2>1. CASE UNCHANGED vars
    <3>1. UNCHANGED <<leaseVars, requestVars, ledger, today, ghosts>> /\ today \in Nat /\ today <= today
      BY <2>1, ProviderAssumption DEF vars, fileVars, GuardInv, FilesTyped, Days
    <3> QED
      BY <3>1, LedgerQuiet, FlightQuiet DEF leaseVars, requestVars, Live
  <2> QED
    BY <2>1, LedgerStep, FlightStep
<1>2. GuardInv /\ LedgerInv /\ FlightInv => LedgerIsKept
  <2> SUFFICES ASSUME GuardInv, LedgerInv, FlightInv PROVE OvershootIsBounded
    BY DEF LedgerIsKept, LedgerInv
  <2>1. /\ MaxTokens \in Nat /\ Len(Slots) \in Nat /\ Cardinality(SlotsInFlight) \in Nat /\ Budget \in Nat
        /\ ledger.tokens \in Nat
    BY ProviderAssumption, SlotFacts, FlightSets, SlotSets, LedgerSums DEF GuardInv, FilesTyped
  <2>2. MaxTokens * Cardinality(SlotsInFlight) \in Nat /\ MaxTokens * Len(Slots) = Len(Slots) * MaxTokens
        /\ MaxTokens * Len(Slots) \in Nat
    BY <2>1
  <2> QED
    BY <2>1, <2>2 DEF FlightInv, OvershootIsBounded
<1> QED
  BY <1>1, <1>2, LedgerInit, GuardCorrect, PTL DEF Spec

-----------------------------------------------------------------------------
(* The lock of a workspace: the inductive invariant.                       *)

LockTyped ==
  /\ use \in [Callers -> Uses] /\ lock \in [Callers -> Callers \cup {NoLock}]
  /\ references \in [Callers -> Int]
  /\ heldLock \in [Processes -> Callers \cup {NoLock}]
  /\ pendingLock \in [Processes -> Callers \cup {NoLock}]
  /\ pendingRelease \in [Processes -> Callers \cup {NoLock}]

\* What the maps of a process say of an acquisition is where it stands, and a lock
\* that is held has as many references as users.
MapsAt(p) ==
  /\ heldLock[p] # NoLock =>
       /\ ProcessOf[heldLock[p]] = p /\ step[heldLock[p]] = "held"
       /\ references[heldLock[p]] = Cardinality(Users(heldLock[p], "using"))
  /\ pendingLock[p] # NoLock =>
       /\ ProcessOf[pendingLock[p]] = p /\ step[pendingLock[p]] \in Acquiring
       /\ heldLock[p] = NoLock
  /\ pendingRelease[p] # NoLock =>
       ProcessOf[pendingRelease[p]] = p /\ step[pendingRelease[p]] \in Releasing

\* Who uses a lock, or waits for one, has the one its process holds or acquires, and
\* an acquisition that has begun is in the maps until it has ended.
UserAt(u) ==
  /\ use[u] \in {"idle", "awaitsRelease", "looks"} => step[u] = "idle"
  /\ use[u] = "using" => lock[u] # NoLock /\ heldLock[ProcessOf[u]] = lock[u]
  /\ use[u] = "awaitsLock" => lock[u] # NoLock /\ pendingLock[ProcessOf[u]] = lock[u]
  /\ step[u] \in AcquireSteps => pendingLock[ProcessOf[u]] = u
  /\ step[u] = "held" => u \in {heldLock[ProcessOf[u]], pendingLock[ProcessOf[u]]}
  /\ step[u] \in ReleaseSteps => pendingRelease[ProcessOf[u]] = u

\* A directory names a caller that runs only while it has the lease or gives it back.
OwnerWorks == \A u \in Callers : Live(u) /\ owner[Directory] = u => step[u] \in {"held", "unlink"}

Begun == {u \in Callers : use[u] # "idle"}

LockInv ==
  /\ DirInv /\ LockTyped /\ IsFiniteSet(Begun) /\ at \in [Callers -> {Directory}]
  /\ OwnerWorks
  /\ \A p \in Processes : MapsAt(p)
  /\ \A u \in Callers : UserAt(u)

\* The lock is a directory.
LEMMA TheDirectory == Directory \in Dirs
<1>1. Dirs # {}
  BY LockAssumption, FS_EmptySet
<1> QED
  BY <1>1 DEF Directory

\* The users of a lock are some of those that began: they can be counted.
LEMMA UsersCount ==
  ASSUME LockInv, NEW l, NEW s \in {"using", "awaitsLock"}
  PROVE  IsFiniteSet(Users(l, s)) /\ Cardinality(Users(l, s)) \in Nat
<1>1. Users(l, s) \subseteq Begun
  BY DEF Users, Begun
<1> QED
  BY <1>1, FS_Subset, FS_CardinalityType DEF LockInv

\* Nobody holds the lock at the start.
LEMMA LockInvInit == LockInit => LockInv
<1> SUFFICES ASSUME LockInit PROVE LockInv
  OBVIOUS
<1>1. DirInv
  BY LeaseAssumption, TheDirectory
  DEF LockInit, LeaseInit, Directory, DirInv, LeaseTypeOK, LeaseSteps, AllWork, AllApart, Works, Apart
<1>2. Begun = {} /\ IsFiniteSet(Begun)
  BY FS_EmptySet DEF LockInit, Begun
<1>3. LockTyped
  BY DEF LockInit, LockTyped, Uses
<1>4. OwnerWorks /\ (\A p \in Processes : MapsAt(p)) /\ \A u \in Callers : UserAt(u)
  BY LeaseAssumption, TheDirectory DEF LockInit, LeaseInit, OwnerWorks, MapsAt, UserAt,
     AcquireSteps, ReleaseSteps
<1> QED
  BY <1>1, <1>2, <1>3, <1>4 DEF LockInv, LockInit, LeaseInit, Directory

-----------------------------------------------------------------------------
(* The calls of the file system, with the stat of this lock, which throws   *)
(* where that of the provider's leases finds them busy.                     *)

\* Looking at the lock changes no lease.
LEMMA StatLockKeeps ==
  ASSUME DirInv, NEW l \in Callers, StatLock(l)
  PROVE  DirInv'
<1>1. LeaseTypeOK'
  BY DEF DirInv, LeaseTypeOK, StatLock, Go, dirVars, LeaseSteps, AcquireSteps
<1>2. AllWork' /\ AllApart'
  BY LeaseAssumption DEF DirInv, LeaseTypeOK, StatLock, Go, dirVars, AllWork, Works, AllApart,
     Apart, Stale, Live
<1> QED
  BY <1>1, <1>2 DEF DirInv

\* One call of the file system for l: where it goes, and whom the directory names.
LEMMA DirectoryStepFacts ==
  ASSUME ~StaleRaces, DirInv, NEW l \in Callers, Live(l), DirectoryStep(l)
  PROVE  /\ DirInv' /\ UNCHANGED <<at, dead>>
         /\ \A e \in Callers \ {l} : step'[e] = step[e]
         /\ \/ step[l] \in AcquireSteps /\ step'[l] \in Acquiring
            \/ step[l] \in ReleaseSteps /\ step'[l] \in Releasing
<1>1. CASE StatLock(l)
  BY <1>1, StatLockKeeps DEF StatLock, Go, DirInv, LeaseTypeOK, AcquireSteps, Acquiring
<1>2. CASE LeaseStep(l)
  BY <1>2, LeaseStepKeeps, StepMoves DEF DirInv
<1> QED
  BY <1>1, <1>2 DEF DirectoryStep, LeaseStep

\* Only the step that gives l the lease makes the directory name it.
LEMMA OwnerFacts ==
  ASSUME DirInv, NEW l \in Callers, DirectoryStep(l), NEW d \in Dirs, NEW e \in Callers
  PROVE  /\ owner'[d] = e => owner[d] = e \/ (e = l /\ step'[l] = "held")
         /\ step[l] = "unlink" /\ at[l] = d => owner'[d] # e
         /\ step[l] # "held"
<1> USE LeaseAssumption DEF DirInv, LeaseTypeOK, Go, Mkdir, Rmdir, dirVars
<1>1. CASE StatLock(l) \/ Read(l) \/ Quarantine(l) \/ Remake(l)
  BY <1>1 DEF StatLock, Read, Quarantine, Remake
<1>2. CASE CreateOwner(l) \/ GiveUp(l)
  BY <1>2 DEF CreateOwner, GiveUp
<1>3. CASE Unlink(l) \/ Remove(l)
  BY <1>3 DEF Unlink, Remove
<1> QED
  BY <1>1, <1>2, <1>3 DEF DirectoryStep

\* A step on the directory keeps lock and leases in agreement.
LEMMA DirectoryKeeps ==
  ASSUME ~StaleRaces, LockInv, NEW l \in Callers, Live(l), DirectoryStep(l)
  PROVE  LockInv'
<1>0. /\ UNCHANGED <<use, lock, references, heldLock, pendingLock, pendingRelease>>
      /\ LockTyped /\ LeaseTypeOK
      /\ \A u \in Callers : UserAt(u) /\ ProcessOf[u] \in Processes
  BY LeaseAssumption DEF DirectoryStep, userVars, mapVars, LockInv, DirInv
<1>1. /\ DirInv' /\ UNCHANGED <<at, dead>> /\ \A e \in Callers \ {l} : step'[e] = step[e]
      /\ \/ step[l] \in AcquireSteps /\ step'[l] \in Acquiring
         \/ step[l] \in ReleaseSteps /\ step'[l] \in Releasing
  BY DirectoryStepFacts DEF LockInv
<1>2. LockTyped' /\ IsFiniteSet(Begun)' /\ at' \in [Callers -> {Directory}]
  BY <1>0, <1>1 DEF LockInv, LockTyped, Begun
<1>3. OwnerWorks'
  <2> SUFFICES ASSUME NEW u \in Callers, Live(u), owner'[Directory] = u
               PROVE  step'[u] \in {"held", "unlink"}
    BY <1>1 DEF OwnerWorks, Live
  <2>1. CASE u = l /\ step'[l] = "held"
    BY <2>1
  <2>2. CASE ~(u = l /\ step'[l] = "held")
    <3>1. owner[Directory] = u /\ ~(step[l] = "unlink" /\ at[l] = Directory) /\ step[l] # "held"
      BY <2>2, OwnerFacts, TheDirectory DEF LockInv
    <3>2. step[u] \in {"held", "unlink"} /\ at[l] = Directory
      BY <3>1 DEF LockInv, OwnerWorks
    <3> QED
      BY <1>1, <3>1, <3>2
  <2> QED
    BY <2>1, <2>2
<1>4. \A p \in Processes : MapsAt(p)'
  <2> SUFFICES ASSUME NEW p \in Processes PROVE MapsAt(p)'
    OBVIOUS
  <2>1. MapsAt(p) /\ \A m \in Callers, s \in {"using"} : Users(m, s)' = Users(m, s)
    BY <1>0 DEF LockInv, Users
  <2>2. step[l] # "held"
    BY OwnerFacts, TheDirectory DEF LockInv
  <2> QED
    BY <1>0, <1>1, <2>1, <2>2 DEF MapsAt, LockTyped, Acquiring, Releasing, AcquireSteps,
       ReleaseSteps
<1>5. \A u \in Callers : UserAt(u)'
  BY <1>0, <1>1 DEF UserAt, Acquiring, Releasing, AcquireSteps, ReleaseSteps
<1> QED
  BY <1>1, <1>2, <1>3, <1>4, <1>5 DEF LockInv

-----------------------------------------------------------------------------
(* The steps of the users and of the promises they wait for.               *)

\* What every one of them rests on.
LEMMA LockFacts ==
  ASSUME LockInv
  PROVE  /\ LockTyped /\ LeaseTypeOK /\ DirInv /\ OwnerWorks /\ IsFiniteSet(Begun)
         /\ at \in [Callers -> {Directory}]
         /\ \A u \in Callers : UserAt(u) /\ ProcessOf[u] \in Processes
         /\ \A p \in Processes : MapsAt(p)
         /\ NoLock \notin Callers
BY LeaseAssumption, LockAssumption DEF LockInv, DirInv

\* One user more that has begun.
LEMMA BegunStays ==
  ASSUME IsFiniteSet(Begun), NEW u \in Callers,
         \A v \in Callers : use'[v] # "idle" => v = u \/ use[v] # "idle"
  PROVE  IsFiniteSet(Begun)'
<1>1. Begun' \subseteq Begun \cup {u}
  BY DEF Begun
<1> QED
  BY <1>1, FS_AddElement, FS_Subset

\* A user comes, or goes on after the release it waited for.
LEMMA AcquireKeeps ==
  ASSUME LockInv, NEW u \in Callers, Acquire(u)
  PROVE  LockInv'
<1>0. /\ UNCHANGED <<step, at, dead, owner, references, heldLock, pendingLock, pendingRelease>>
      /\ use[u] = "idle" /\ use'[u] \in {"looks", "awaitsRelease"}
      /\ lock'[u] \in Callers \cup {NoLock}
      /\ \A v \in Callers \ {u} : use'[v] = use[v] /\ lock'[v] = lock[v]
      /\ use' \in [Callers -> Uses] /\ lock' \in [Callers -> Callers \cup {NoLock}]
  BY LockFacts DEF Acquire, leaseVars, dirVars, mapVars, LockTyped, Uses
<1>1. DirInv'
  BY QuietKeeps, LockFacts DEF Acquire
<1>2. \A m : Users(m, "using")' = Users(m, "using")
  BY <1>0 DEF Users
<1>3. \A p \in Processes : MapsAt(p)'
  BY <1>0, <1>2, LockFacts DEF MapsAt
<1>4. \A v \in Callers : UserAt(v)'
  BY <1>0, LockFacts DEF UserAt
<1>5. IsFiniteSet(Begun)'
  BY <1>0, LockFacts, BegunStays
<1> QED
  BY <1>0, <1>1, <1>3, <1>4, <1>5, LockFacts DEF LockInv, LockTyped, OwnerWorks, Live

\* The lock is held: one more reference.
LEMMA LookFindsKeeps ==
  ASSUME LockInv, NEW u \in Callers, Look(u), heldLock[ProcessOf[u]] # NoLock
  PROVE  LockInv'
<1> DEFINE p == ProcessOf[u]
           l == heldLock[p]
<1>0. /\ UNCHANGED <<step, at, dead, owner, heldLock, pendingLock, pendingRelease>>
      /\ use[u] = "looks" /\ use'[u] = "using" /\ lock'[u] = l /\ l \in Callers
      /\ references' = [references EXCEPT ![l] = @ + 1]
      /\ \A v \in Callers \ {u} : use'[v] = use[v] /\ lock'[v] = lock[v]
      /\ use' \in [Callers -> Uses] /\ lock' \in [Callers -> Callers \cup {NoLock}]
  BY LockFacts DEF Look, leaseVars, dirVars, mapVars, LockTyped, Uses
<1>1. DirInv'
  BY QuietKeeps, LockFacts DEF Look
<1>2. Users(l, "using")' = Users(l, "using") \cup {u} /\ u \notin Users(l, "using")
  BY <1>0 DEF Users
<1>3. \A m : m # l => Users(m, "using")' = Users(m, "using")
  BY <1>0 DEF Users
<1>4. Cardinality(Users(l, "using")') = Cardinality(Users(l, "using")) + 1
  BY <1>2, UsersCount, FS_AddElement
<1>5. references' \in [Callers -> Int] /\ references'[l] = references[l] + 1
      /\ \A m \in Callers \ {l} : references'[m] = references[m]
  BY <1>0, LockFacts DEF LockTyped
<1>6. \A q \in Processes : MapsAt(q)'
  <2> SUFFICES ASSUME NEW q \in Processes PROVE MapsAt(q)'
    OBVIOUS
  <2>1. MapsAt(q) /\ heldLock[q] \in Callers \cup {NoLock}
    BY LockFacts DEF LockTyped
  <2>2. CASE heldLock[q] = l
    BY <1>0, <1>4, <1>5, <2>1, <2>2 DEF MapsAt
  <2>3. CASE heldLock[q] # l
    BY <1>0, <1>3, <1>5, <2>1, <2>3 DEF MapsAt
  <2> QED
    BY <2>2, <2>3
<1>7. \A v \in Callers : UserAt(v)'
  BY <1>0, LockFacts DEF UserAt
<1>8. IsFiniteSet(Begun)'
  BY <1>0, LockFacts, BegunStays
<1> QED
  BY <1>0, <1>1, <1>5, <1>6, <1>7, <1>8, LockFacts DEF LockInv, LockTyped, OwnerWorks, Live

\* It is not: the user waits for an acquisition, and begins it if there is none.
LEMMA LookWaitsKeeps ==
  ASSUME LockInv, NEW u \in Callers, Look(u), heldLock[ProcessOf[u]] = NoLock
  PROVE  LockInv'
<1> DEFINE p == ProcessOf[u]
<1>0. /\ UNCHANGED <<dead, references, heldLock, pendingRelease>>
      /\ p \in Processes /\ use[u] = "looks" /\ use'[u] = "awaitsLock" /\ step[u] = "idle"
      /\ pendingLock' = [pendingLock EXCEPT ![p] = IF @ = NoLock THEN u ELSE @]
      /\ lock'[u] = pendingLock'[p]
      /\ \A v \in Callers \ {u} : use'[v] = use[v] /\ lock'[v] = lock[v]
      /\ use' \in [Callers -> Uses]
      /\ IF pendingLock[p] = NoLock THEN Make(u, Directory) ELSE UNCHANGED leaseVars
      /\ lock' = [lock EXCEPT ![u] = pendingLock'[p]]
  BY LockFacts DEF Look, Make, leaseVars, LockTyped, Uses, UserAt
<1>1. /\ pendingLock' \in [Processes -> Callers \cup {NoLock}]
      /\ pendingLock'[p] = (IF pendingLock[p] = NoLock THEN u ELSE pendingLock[p])
      /\ \A q \in Processes \ {p} : pendingLock'[q] = pendingLock[q]
  BY <1>0, LockFacts DEF LockTyped
<1>2. lock' \in [Callers -> Callers \cup {NoLock}] /\ lock'[u] # NoLock
  BY <1>0, <1>1, LockFacts DEF LockTyped
<1>3. DirInv' /\ at' \in [Callers -> {Directory}]
  BY <1>0, LockFacts, TheDirectory, MakeKeeps, QuietKeeps DEF Make, leaseVars
<1>4. /\ \A v \in Callers \ {u} : step'[v] = step[v]
      /\ pendingLock[p] # NoLock => step'[u] = step[u]
      /\ pendingLock[p] = NoLock => step'[u] \in {"stat", "create"}
  BY <1>0, LockFacts DEF Make, Go, LeaseTypeOK, leaseVars
<1>5. OwnerWorks'
  <2>1. \A v \in Callers : owner'[Directory] = v => owner[Directory] = v
    BY <1>0, LeaseAssumption, LockFacts, TheDirectory DEF Make, Mkdir, dirVars, leaseVars,
       LeaseTypeOK
  <2> QED
    BY <1>0, <1>4, <2>1, LockFacts DEF OwnerWorks, Live
<1>6. \A m : Users(m, "using")' = Users(m, "using")
  BY <1>0 DEF Users
<1>7. \A q \in Processes : MapsAt(q)'
  <2> SUFFICES ASSUME NEW q \in Processes PROVE MapsAt(q)'
    OBVIOUS
  <2>1. MapsAt(q) /\ heldLock[q] \in Callers \cup {NoLock}
        /\ pendingLock[q] \in Callers \cup {NoLock} /\ pendingRelease[q] \in Callers \cup {NoLock}
    BY LockFacts DEF LockTyped
  <2> QED
    BY <1>0, <1>1, <1>4, <1>6, <2>1, LockFacts
    DEF MapsAt, Acquiring, Releasing, AcquireSteps, ReleaseSteps
<1>8. \A v \in Callers : UserAt(v)'
  BY <1>0, <1>1, <1>2, <1>4, LockFacts DEF UserAt, AcquireSteps, ReleaseSteps
<1>9. IsFiniteSet(Begun)'
  BY <1>0, LockFacts, BegunStays
<1> QED
  BY <1>0, <1>1, <1>2, <1>3, <1>5, <1>7, <1>8, <1>9, LockFacts DEF LockInv, LockTyped

\* A user gives its reference back, and others still have theirs.
LEMMA ReleaseOneKeeps ==
  ASSUME LockInv, NEW u \in Callers, Release(u), ~LastUse(lock[u])
  PROVE  LockInv'
<1> DEFINE l == lock[u]
<1>0. /\ UNCHANGED <<leaseVars, lock, heldLock, pendingLock, pendingRelease>>
      /\ use[u] = "using" /\ use' = [use EXCEPT ![u] = "released"]
      /\ l \in Callers /\ heldLock[ProcessOf[u]] = l
      /\ references' = [references EXCEPT ![l] = @ - 1]
  BY LockFacts DEF Release, UserAt, LockTyped
<1>1. DirInv'
  BY <1>0, QuietKeeps, LockFacts
<1>2. use' \in [Callers -> Uses] /\ use'[u] = "released" /\ \A v \in Callers \ {u} : use'[v] = use[v]
  BY <1>0, LockFacts DEF LockTyped, Uses
<1>3. Users(l, "using")' = Users(l, "using") \ {u} /\ u \in Users(l, "using")
  BY <1>0, <1>2 DEF Users
<1>4. \A m : m # l => Users(m, "using")' = Users(m, "using")
  BY <1>0, <1>2 DEF Users
<1>5. Cardinality(Users(l, "using")') = Cardinality(Users(l, "using")) - 1
  BY <1>3, UsersCount, FS_RemoveElement
<1>6. references' \in [Callers -> Int] /\ references'[l] = references[l] - 1
      /\ \A m \in Callers \ {l} : references'[m] = references[m]
  BY <1>0, LockFacts DEF LockTyped
<1>7. \A q \in Processes : MapsAt(q)'
  <2> SUFFICES ASSUME NEW q \in Processes PROVE MapsAt(q)'
    OBVIOUS
  <2>1. MapsAt(q) /\ heldLock[q] \in Callers \cup {NoLock}
    BY LockFacts DEF LockTyped
  <2>2. CASE heldLock[q] = l
    BY <1>0, <1>5, <1>6, <2>1, <2>2 DEF MapsAt, leaseVars
  <2>3. CASE heldLock[q] # l
    BY <1>0, <1>4, <1>6, <2>1, <2>3 DEF MapsAt, leaseVars
  <2> QED
    BY <2>2, <2>3
<1>8. \A v \in Callers : UserAt(v)'
  BY <1>0, <1>2, LockFacts DEF UserAt, leaseVars
<1>9. IsFiniteSet(Begun)'
  BY <1>0, <1>2, LockFacts, BegunStays
<1> QED
  BY <1>0, <1>1, <1>2, <1>6, <1>7, <1>8, <1>9, LockFacts
  DEF LockInv, LockTyped, OwnerWorks, Live, leaseVars, dirVars

\* The last one gives the directory back: nobody of the process uses the lock.
LEMMA ReleaseLastKeeps ==
  ASSUME LockInv, NEW u \in Callers, Live(u), Release(u), LastUse(lock[u])
  PROVE  LockInv'
<1> DEFINE l == lock[u]
           p == ProcessOf[u]
<1>0. /\ p \in Processes /\ l \in Callers /\ heldLock[p] = l /\ ProcessOf[l] = p /\ step[l] = "held"
      /\ references[l] = 1 /\ references[l] = Cardinality(Users(l, "using"))
      /\ use[u] = "using" /\ l # NoLock
      /\ pendingLock[p] \in Callers \cup {NoLock} /\ pendingLock[p] = NoLock
  BY LockFacts DEF Release, UserAt, LockTyped, MapsAt, LastUse
<1>1. /\ heldLock' = [heldLock EXCEPT ![p] = NoLock]
      /\ pendingRelease' = [pendingRelease EXCEPT ![p] = l]
      /\ use' = [use EXCEPT ![u] = "releasing"]
      /\ references' = [references EXCEPT ![l] = @ - 1]
      /\ Check(l, Directory) /\ UNCHANGED <<lock, pendingLock>>
  BY <1>0 DEF Release
<1>2. DirInv' /\ at' \in [Callers -> {Directory}] /\ UNCHANGED <<present, owner, fresh, dead>>
  BY <1>0, <1>1, LockFacts, TheDirectory, CheckKeeps DEF Check, dirVars
<1>3. step'[l] = "unlink" /\ \A m \in Callers \ {l} : step'[m] = step[m]
  <2>1. Live(l) /\ at[l] = Directory
    BY <1>0, LockFacts DEF Live
  <2>2. Directory \in present /\ owner[Directory] = l
    BY <1>0, <2>1, LockFacts DEF DirInv, AllWork, Works
  <2>3. step \in [Callers -> LeaseSteps]
    BY LockFacts DEF LeaseTypeOK
  <2>4. step' = [step EXCEPT ![l] = "unlink"]
    BY <1>0, <1>1, <2>2 DEF Check, Go
  <2> QED
    BY <1>0, <2>3, <2>4
<1>4. LockTyped'
  BY <1>0, <1>1, LockFacts DEF LockTyped, Uses
<1>5. \A v \in Callers : v # u => ~(use[v] = "using" /\ lock[v] = l)
  <2>1. u \in Users(l, "using") /\ IsFiniteSet(Users(l, "using"))
    BY <1>0, UsersCount DEF Users
  <2>2. PICK v : v \in Users(l, "using") /\ Users(l, "using") = {v}
    <3>1. Cardinality(Users(l, "using")) = 1
      BY <1>0
    <3>2. \E v : Users(l, "using") = {v}
      BY ONLY <2>1, <3>1, FS_Singleton
    <3> QED
      BY <3>2
  <2>3. Users(l, "using") \ {u} = {}
    BY <2>1, <2>2
  <2> QED
    BY <2>3 DEF Users
<1>6. \A q \in Processes : MapsAt(q)'
  <2> SUFFICES ASSUME NEW q \in Processes PROVE MapsAt(q)'
    OBVIOUS
  <2>1. /\ MapsAt(q) /\ heldLock[q] \in Callers \cup {NoLock} /\ pendingLock[q] \in Callers \cup {NoLock}
        /\ pendingRelease[q] \in Callers \cup {NoLock}
    BY LockFacts DEF LockTyped
  <2>2. CASE q = p
    <3>1. heldLock'[q] = NoLock /\ pendingRelease'[q] = l /\ pendingLock'[q] = NoLock
      BY <1>0, <1>1, <2>2, LockFacts DEF LockTyped
    <3> QED
      BY <1>0, <1>3, <2>2, <3>1 DEF MapsAt, Releasing, ReleaseSteps
  <2>3. CASE q # p
    <3>1. /\ heldLock'[q] = heldLock[q] /\ pendingLock'[q] = pendingLock[q] /\ pendingRelease'[q] = pendingRelease[q]
      BY <1>0, <1>1, <2>3, LockFacts DEF LockTyped
    <3>2. /\ heldLock[q] # l \/ heldLock[q] = NoLock
          /\ pendingLock[q] # l \/ pendingLock[q] = NoLock
          /\ pendingRelease[q] # l \/ pendingRelease[q] = NoLock
      BY <1>0, <2>1, <2>3 DEF MapsAt
    <3>3. \A m : m # l => Users(m, "using")' = Users(m, "using")
      BY <1>0, <1>1, LockFacts DEF Users, LockTyped
    <3>4. \A m \in Callers \ {l} : references'[m] = references[m]
      BY <1>1, LockFacts DEF LockTyped
    <3> QED
      BY <1>3, <2>1, <3>1, <3>2, <3>3, <3>4 DEF MapsAt
  <2> QED
    BY <2>2, <2>3
<1>7. \A v \in Callers : UserAt(v)'
  <2> SUFFICES ASSUME NEW v \in Callers PROVE UserAt(v)'
    OBVIOUS
  <2>1. UserAt(v) /\ ProcessOf[v] \in Processes
    BY LockFacts
  <2>2. /\ use'[u] = "releasing" /\ \A w \in Callers \ {u} : use'[w] = use[w]
        /\ UNCHANGED <<lock, pendingLock>>
        /\ heldLock'[ProcessOf[v]] = (IF ProcessOf[v] = p THEN NoLock ELSE heldLock[ProcessOf[v]])
        /\ pendingRelease'[ProcessOf[v]] = (IF ProcessOf[v] = p THEN l ELSE pendingRelease[ProcessOf[v]])
    BY <1>0, <1>1, <2>1, LockFacts DEF LockTyped
  <2>3. step[v] \in ReleaseSteps /\ ProcessOf[v] = p => FALSE
    <3>1. Live(l) /\ at[l] = Directory /\ owner[Directory] = l
      BY <1>0, LockFacts DEF Live, DirInv, AllWork, Works
    <3> SUFFICES ASSUME step[v] \in ReleaseSteps, ProcessOf[v] = p PROVE FALSE
      OBVIOUS
    <3>2. Live(v) /\ at[v] = Directory
      BY LockFacts DEF Live
    <3> QED
      BY <1>0, <3>1, <3>2, LockFacts, LeaseAssumption DEF DirInv, AllWork, Works, ReleaseSteps
  <2>4. step[v] = "held" /\ ProcessOf[v] = p => v = l
    BY <1>0, <2>1, LockFacts DEF UserAt
  <2>5. CASE v = l
    BY <1>0, <1>3, <1>5, <2>1, <2>2, <2>5 DEF UserAt, AcquireSteps, ReleaseSteps
  <2>6. CASE v # l
    BY <1>0, <1>3, <1>5, <2>1, <2>2, <2>3, <2>4, <2>6 DEF UserAt, AcquireSteps
  <2> QED
    BY <2>5, <2>6
<1>8. IsFiniteSet(Begun)'
  BY <1>0, <1>1, LockFacts, BegunStays DEF LockTyped
<1>9. OwnerWorks'
  BY <1>2, <1>3, LockFacts DEF OwnerWorks, Live
<1> QED
  BY <1>2, <1>4, <1>6, <1>7, <1>8, <1>9 DEF LockInv

\* An acquisition ends with the lock: those who waited for it use it.
LEMMA LockedKeeps ==
  ASSUME LockInv, NEW l \in Callers, Locked(l)
  PROVE  LockInv'
<1> DEFINE p == ProcessOf[l]
<1>0. /\ UNCHANGED <<leaseVars, lock, pendingRelease>> /\ p \in Processes
      /\ step[l] = "held" /\ pendingLock[p] = l /\ heldLock[p] = NoLock
      /\ heldLock' = [heldLock EXCEPT ![p] = l] /\ pendingLock' = [pendingLock EXCEPT ![p] = NoLock]
      /\ references' = [references EXCEPT ![l] = Cardinality(Users(l, "awaitsLock"))]
      /\ \A v \in Callers : use'[v] = IF v \in Users(l, "awaitsLock") THEN "using" ELSE use[v]
      /\ use' \in [Callers -> Uses]
  BY LockFacts DEF Locked, Wake, MapsAt, LockTyped, Uses
<1>1. DirInv'
  BY <1>0, QuietKeeps, LockFacts
<1>2. LockTyped'
  BY <1>0, UsersCount, LockFacts DEF LockTyped
<1>3. \A v \in Callers : use[v] = "using" => lock[v] # l
  BY <1>0, LockFacts DEF UserAt, MapsAt
<1>4. Users(l, "using")' = Users(l, "awaitsLock") /\ \A m : m # l => Users(m, "using")' = Users(m, "using")
  BY <1>0, <1>3 DEF Users
<1>5. \A q \in Processes : MapsAt(q)'
  <2> SUFFICES ASSUME NEW q \in Processes PROVE MapsAt(q)'
    OBVIOUS
  <2>1. /\ MapsAt(q) /\ heldLock[q] \in Callers \cup {NoLock} /\ pendingLock[q] \in Callers \cup {NoLock}
        /\ pendingRelease[q] \in Callers \cup {NoLock}
    BY LockFacts DEF LockTyped
  <2>2. CASE q = p
    <3>1. heldLock'[q] = l /\ pendingLock'[q] = NoLock /\ references'[l] = Cardinality(Users(l, "awaitsLock"))
      BY <1>0, <2>2, LockFacts DEF LockTyped
    <3> QED
      BY <1>0, <1>4, <2>1, <2>2, <3>1 DEF MapsAt, leaseVars
  <2>3. CASE q # p
    <3>1. heldLock'[q] = heldLock[q] /\ pendingLock'[q] = pendingLock[q]
      BY <1>0, <2>3, LockFacts DEF LockTyped
    <3>2. heldLock[q] # l \/ heldLock[q] = NoLock
      BY <2>1, <2>3 DEF MapsAt
    <3>3. \A m \in Callers \ {l} : references'[m] = references[m]
      BY <1>0, LockFacts DEF LockTyped
    <3> QED
      BY <1>0, <1>4, <2>1, <3>1, <3>2, <3>3 DEF MapsAt, leaseVars
  <2> QED
    BY <2>2, <2>3
<1>6. \A v \in Callers : UserAt(v)'
  <2> SUFFICES ASSUME NEW v \in Callers PROVE UserAt(v)'
    OBVIOUS
  <2>1. /\ UserAt(v) /\ ProcessOf[v] \in Processes /\ NoLock \notin Callers
        /\ heldLock'[ProcessOf[v]] = (IF ProcessOf[v] = p THEN l ELSE heldLock[ProcessOf[v]])
        /\ pendingLock'[ProcessOf[v]] = (IF ProcessOf[v] = p THEN NoLock ELSE pendingLock[ProcessOf[v]])
    BY <1>0, LockFacts DEF LockTyped
  <2>2. ProcessOf[v] = p => ~(use[v] = "using") /\ (step[v] = "held" => v = l) /\ (use[v] = "awaitsLock" => lock[v] = l)
        /\ (step[v] \in AcquireSteps => v = l)
    BY <1>0, <2>1, LockFacts DEF UserAt, MapsAt
  <2>3. v \in Users(l, "awaitsLock") <=> use[v] = "awaitsLock" /\ lock[v] = l
    BY DEF Users
  <2>4. UNCHANGED <<step, lock, pendingRelease>> /\ use'[v] = IF v \in Users(l, "awaitsLock") THEN "using" ELSE use[v]
    BY <1>0 DEF leaseVars
  <2>5. CASE ProcessOf[v] = p
    <3>1. heldLock'[ProcessOf[v]] = l /\ pendingLock'[ProcessOf[v]] = NoLock
      BY <2>1, <2>5
    <3>2. use'[v] = "using" => lock'[v] = l /\ l # NoLock
      BY <1>0, <2>1, <2>2, <2>3, <2>4, <2>5
    <3>3. use'[v] # "awaitsLock" \/ use'[v] = use[v]
      BY <2>4
    <3>4. use'[v] # "awaitsLock"
      BY <2>2, <2>3, <2>4, <2>5
    <3>5. use'[v] \in {"idle", "awaitsRelease", "looks"} => step'[v] = "idle"
      BY <2>1, <2>4 DEF UserAt
    <3>6. step'[v] \notin AcquireSteps
      BY <1>0, <2>2, <2>4, <2>5 DEF AcquireSteps
    <3>7. step'[v] = "held" => v = l
      BY <2>2, <2>4, <2>5
    <3>8. step'[v] \in ReleaseSteps => pendingRelease'[ProcessOf[v]] = v
      BY <2>1, <2>4 DEF UserAt
    <3> QED
      BY <3>1, <3>2, <3>4, <3>5, <3>6, <3>7, <3>8 DEF UserAt
  <2>6. CASE ProcessOf[v] # p
    <3>1. /\ heldLock'[ProcessOf[v]] = heldLock[ProcessOf[v]]
          /\ pendingLock'[ProcessOf[v]] = pendingLock[ProcessOf[v]]
      BY <2>1, <2>6
    <3>2. lock[v] = l => use[v] # "awaitsLock"
      <4>1. ASSUME lock[v] = l, use[v] = "awaitsLock" PROVE FALSE
        <5>1. pendingLock[ProcessOf[v]] = l /\ l # NoLock
          BY <2>1, <4>1 DEF UserAt
        <5>2. ProcessOf[l] = ProcessOf[v]
          BY <2>1, <5>1, LockFacts DEF MapsAt
        <5> QED
          BY <2>6, <5>2
      <4> QED
        BY <4>1
    <3>3. use'[v] = use[v]
      BY <2>3, <2>4, <3>2
    <3> QED
      BY <2>1, <2>4, <3>1, <3>3 DEF UserAt
  <2> QED
    BY <2>5, <2>6
<1>7. IsFiniteSet(Begun)'
  BY <1>0, LockFacts, BegunStays DEF Users
<1> QED
  BY <1>0, <1>1, <1>2, <1>5, <1>6, <1>7, LockFacts DEF LockInv, OwnerWorks, Live, leaseVars, dirVars

\* Or it fails, and they with it.
LEMMA NotLockedKeeps ==
  ASSUME LockInv, NEW l \in Callers, NotLocked(l)
  PROVE  LockInv'
<1> DEFINE p == ProcessOf[l]
<1>0. /\ UNCHANGED <<leaseVars, lock, references, heldLock, pendingRelease>> /\ p \in Processes
      /\ step[l] \in {"busy", "threw"} /\ pendingLock[p] = l
      /\ pendingLock' = [pendingLock EXCEPT ![p] = NoLock]
      /\ \A v \in Callers : use'[v] = IF v \in Users(l, "awaitsLock") THEN "failed" ELSE use[v]
      /\ use' \in [Callers -> Uses]
  BY LockFacts DEF NotLocked, Wake, LockTyped, Uses
<1>1. DirInv'
  BY <1>0, QuietKeeps, LockFacts
<1>2. LockTyped'
  BY <1>0, LockFacts DEF LockTyped
<1>3. \A m : Users(m, "using")' = Users(m, "using")
  BY <1>0 DEF Users
<1>4. \A q \in Processes : MapsAt(q)'
  <2> SUFFICES ASSUME NEW q \in Processes PROVE MapsAt(q)'
    OBVIOUS
  <2>1. MapsAt(q) /\ pendingLock'[q] \in {NoLock, pendingLock[q]}
    BY <1>0, LockFacts DEF LockTyped
  <2> QED
    BY <1>0, <1>3, <2>1 DEF MapsAt, leaseVars
<1>5. \A v \in Callers : UserAt(v)'
  <2> SUFFICES ASSUME NEW v \in Callers PROVE UserAt(v)'
    OBVIOUS
  <2>1. /\ UserAt(v) /\ ProcessOf[v] \in Processes /\ NoLock \notin Callers
        /\ pendingLock'[ProcessOf[v]] = (IF ProcessOf[v] = p THEN NoLock ELSE pendingLock[ProcessOf[v]])
    BY <1>0, LockFacts DEF LockTyped
  <2>2. v \in Users(l, "awaitsLock") <=> use[v] = "awaitsLock" /\ lock[v] = l
    BY DEF Users
  <2>3. UNCHANGED <<step, lock, heldLock, pendingRelease>>
        /\ use'[v] = IF v \in Users(l, "awaitsLock") THEN "failed" ELSE use[v]
    BY <1>0 DEF leaseVars
  <2> QED
    BY <1>0, <2>1, <2>2, <2>3 DEF UserAt, AcquireSteps, ReleaseSteps
<1>6. IsFiniteSet(Begun)'
  BY <1>0, LockFacts, BegunStays DEF Users
<1> QED
  BY <1>0, <1>1, <1>2, <1>4, <1>5, <1>6, LockFacts DEF LockInv, OwnerWorks, Live, leaseVars, dirVars

\* A release ends.
LEMMA ReleaseEndsKeeps ==
  ASSUME LockInv, NEW l \in Callers, ReleaseEnds(l)
  PROVE  LockInv'
<1> DEFINE p == ProcessOf[l]
<1>0. /\ UNCHANGED <<leaseVars, lock, references, heldLock, pendingLock>> /\ p \in Processes
      /\ step[l] \in {"released", "threw"}
      /\ pendingRelease' = [pendingRelease EXCEPT ![p] = IF @ = l THEN NoLock ELSE @]
      /\ \A v \in Callers : \/ use'[v] = use[v]
                            \/ use[v] \in {"releasing", "awaitsRelease"} /\ use'[v] \in {"failed", "released"}
                            \/ use[v] = "awaitsRelease" /\ use'[v] = "looks"
      /\ use' \in [Callers -> Uses]
  BY LockFacts DEF ReleaseEnds, LockTyped, Uses, Users
<1>1. DirInv'
  BY <1>0, QuietKeeps, LockFacts
<1>2. LockTyped'
  BY <1>0, LockFacts DEF LockTyped
<1>3. \A m : Users(m, "using")' = Users(m, "using")
  BY <1>0 DEF Users
<1>4. \A q \in Processes : MapsAt(q)'
  <2> SUFFICES ASSUME NEW q \in Processes PROVE MapsAt(q)'
    OBVIOUS
  <2>1. MapsAt(q) /\ pendingRelease'[q] \in {NoLock, pendingRelease[q]}
    BY <1>0, LockFacts DEF LockTyped
  <2> QED
    BY <1>0, <1>3, <2>1 DEF MapsAt, leaseVars
<1>5. \A v \in Callers : UserAt(v)'
  <2> SUFFICES ASSUME NEW v \in Callers PROVE UserAt(v)'
    OBVIOUS
  <2>1. /\ UserAt(v) /\ ProcessOf[v] \in Processes
        /\ pendingRelease'[ProcessOf[v]] =
             (IF ProcessOf[v] = p /\ pendingRelease[p] = l THEN NoLock ELSE pendingRelease[ProcessOf[v]])
    BY <1>0, LockFacts DEF LockTyped
  <2>2. UNCHANGED <<step, lock, heldLock, pendingLock>>
    BY <1>0 DEF leaseVars
  <2> QED
    BY <1>0, <2>1, <2>2 DEF UserAt, ReleaseSteps
<1>6. IsFiniteSet(Begun)'
  BY <1>0, LockFacts, BegunStays
<1> QED
  BY <1>0, <1>1, <1>2, <1>4, <1>5, <1>6, LockFacts DEF LockInv, OwnerWorks, Live, leaseVars, dirVars

-----------------------------------------------------------------------------

\* So does every step.
LEMMA LockStep ==
  ASSUME ~StaleRaces, LockInv, LockNext
  PROVE  LockInv'
<1>1. ASSUME NEW u \in Callers, Live(u), Look(u) PROVE LockInv'
  BY <1>1, LookFindsKeeps, LookWaitsKeeps
<1>2. ASSUME NEW u \in Callers, Live(u), Release(u) PROVE LockInv'
  BY <1>2, ReleaseOneKeeps, ReleaseLastKeeps
<1>3. ASSUME NEW d \in Dirs, Age(d), UNCHANGED <<userVars, mapVars>> PROVE LockInv'
  <2>1. DirInv'
    BY <1>3, AgeKeeps, LockFacts
  <2>2. /\ UNCHANGED <<step, at, owner, use, lock, references, heldLock, pendingLock, pendingRelease>>
        /\ UNCHANGED <<dead>>
    BY <1>3 DEF Age, userVars, mapVars
  <2>3. LockTyped' /\ IsFiniteSet(Begun)' /\ at' \in [Callers -> {Directory}]
    BY <2>2, LockFacts DEF LockTyped, Begun
  <2>4. OwnerWorks'
    BY <2>2, LockFacts DEF OwnerWorks, Live
  <2>5. \A q \in Processes : MapsAt(q)'
    BY <2>2, LockFacts DEF MapsAt, Users
  <2>6. \A u \in Callers : UserAt(u)'
    BY <2>2, LockFacts DEF UserAt
  <2> QED
    BY <2>1, <2>3, <2>4, <2>5, <2>6 DEF LockInv
<1>4. ASSUME NEW p \in Processes, Stop(p), UNCHANGED <<userVars, mapVars>> PROVE LockInv'
  <2>1. DirInv' /\ \A c \in Callers : Live(c)' => Live(c)
    BY <1>4, StopKeeps, LockFacts
  <2>2. UNCHANGED <<step, at, owner, use, lock, references, heldLock, pendingLock, pendingRelease>>
    BY <1>4 DEF Stop, dirVars, userVars, mapVars
  <2>3. LockTyped' /\ IsFiniteSet(Begun)' /\ at' \in [Callers -> {Directory}]
    BY <2>2, LockFacts DEF LockTyped, Begun
  <2>4. OwnerWorks'
    BY <2>1, <2>2, LockFacts DEF OwnerWorks
  <2>5. \A q \in Processes : MapsAt(q)'
    BY <2>2, LockFacts DEF MapsAt, Users
  <2>6. \A u \in Callers : UserAt(u)'
    BY <2>2, LockFacts DEF UserAt
  <2> QED
    BY <2>1, <2>3, <2>4, <2>5, <2>6 DEF LockInv
<1> QED
  BY <1>1, <1>2, <1>3, <1>4, AcquireKeeps, DirectoryKeeps, LockedKeeps, NotLockedKeeps,
     ReleaseEndsKeeps
  DEF LockNext

\* Who has a lease of a running process has the workspace's lock: the directory names
\* the acquisition its process holds, for all who share it and no other process, as
\* many references as there are users; and no directory that names a running process is
\* forgotten by it.  The hypothesis is that a stale directory is taken over while the
\* verdict is true: the two calls of the file system are not tied to each other.
THEOREM LeasesAreRealCorrect ==
  ASSUME ~StaleRaces
  PROVE  LockSpec => []LeasesAreReal
<1>1. LockInv /\ [LockNext]_lockVars => LockInv'
  <2>1. ASSUME LockInv, UNCHANGED lockVars PROVE LockInv'
    <3>1. DirInv'
      BY <2>1, QuietKeeps, LockFacts DEF lockVars
    <3> QED
      BY <2>1, <3>1, LockFacts DEF lockVars, leaseVars, dirVars, userVars, mapVars, LockInv,
         LockTyped,
         Begun, OwnerWorks, MapsAt, UserAt, Users, Live
  <2> QED
    BY <2>1, LockStep
<1>2. LockInv => LeasesAreReal
  <2> SUFFICES ASSUME LockInv PROVE LeasesAreReal
    OBVIOUS
  <2>1. ASSUME NEW u \in Callers, Live(u), use[u] = "using"
        PROVE  /\ Directory \in present /\ owner[Directory] = lock[u] /\ heldLock[ProcessOf[u]] = lock[u]
               /\ references[lock[u]] = Cardinality(Users(lock[u], "using"))
    <3>1. /\ heldLock[ProcessOf[u]] = lock[u] /\ lock[u] \in Callers /\ ProcessOf[lock[u]] = ProcessOf[u]
          /\ step[lock[u]] = "held" /\ references[lock[u]] = Cardinality(Users(lock[u], "using"))
      BY <2>1, LockFacts DEF UserAt, MapsAt, LockTyped
    <3>2. Live(lock[u]) /\ at[lock[u]] = Directory
      BY <2>1, <3>1, LockFacts DEF Live
    <3> QED
      BY <3>1, <3>2, LockFacts DEF DirInv, AllWork, Works
  <2>2. ASSUME NEW l \in Callers, Live(l), owner[Directory] = l
        PROVE  l \in {heldLock[ProcessOf[l]], pendingLock[ProcessOf[l]], pendingRelease[ProcessOf[l]]}
    BY <2>2, LockFacts DEF OwnerWorks, UserAt, ReleaseSteps
  <2> QED
    BY <2>1, <2>2 DEF LeasesAreReal
<1> QED
  BY <1>1, <1>2, LockInvInit, PTL DEF LockSpec
=============================================================================
