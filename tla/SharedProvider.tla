--------------------------- MODULE SharedProvider ---------------------------
(***************************************************************************)
(* src/src/process-shared-provider.ts: ProcessSharedProvider.complete of   *)
(* every process of the machine, over its slots and its usage ledger.  A   *)
(* caller is one request: it takes a slot, is admitted under the ledger's  *)
(* lock, asks the provider, and is charged under that lock again.          *)
(***************************************************************************)
EXTENDS LeaseDirectory, Sequences

CONSTANTS
  Slots,              \* a sequence: slot-0, slot-1, ...
  Ledger,             \* the directory ledger-lock
  NoSlot,
  Budget,             \* dailyTokenBudget, 0 for none
  MaxTokens,          \* bound: what one response may use
  MaxDays,            \* bound: midnights
  Spaced,             \* whether minimumIntervalMs is positive
  MayCancel           \* requests whose signal may abort (a bound of the instance)

ASSUME ProviderAssumption ==
  /\ Slots \in Seq(Dirs \ {Ledger}) /\ Slots # <<>> /\ Ledger \in Dirs /\ NoSlot \notin Dirs
  /\ \A i, j \in DOMAIN Slots : i # j => Slots[i] # Slots[j]
  /\ Budget \in Nat /\ MaxTokens \in Nat \ {0} /\ MaxDays \in Nat
  /\ Spaced \in BOOLEAN /\ MayCancel \subseteq Callers

VARIABLES
  phase,              \* [Callers -> Phases]
  slotOf,             \* [Callers -> Dirs \cup {NoSlot}]: the slot lease it has
  tried,              \* [Callers -> Nat]: slots tried in this sweep
  seen,               \* [Callers -> Ledgers]: the ledger it read
  usage,              \* [Callers -> Nat]: the tokens of its response
  ledger,             \* usage.json
  today,
  cooling,            \* lastRequestAt is less than minimumIntervalMs ago
  charged,            \* [Days -> Nat]: what requests were charged, for the properties
  asks                \* [Days -> Nat]: what was admitted, likewise

requestVars == <<phase, slotOf, tried, seen, usage>>
fileVars == <<ledger, today, cooling>>
ghosts == <<charged, asks>>
vars == <<leaseVars, requestVars, fileVars, ghosts>>

Days == 0..MaxDays
Ledgers == [date : Days, requests : Nat, tokens : Nat]
Phases == {"slot", "admit", "decide", "enter", "cool", "refuse", "ask",
           "charge", "account", "book", "leave", "free", "done", "failed"}

EmptyLedger(day) == [date |-> day, requests |-> 0, tokens |-> 0]

Init ==
  /\ LeaseInit
  /\ phase = [c \in Callers |-> "slot"] /\ slotOf = [c \in Callers |-> NoSlot]
  /\ tried = [c \in Callers |-> 0] /\ seen = [c \in Callers |-> EmptyLedger(0)]
  /\ usage = [c \in Callers |-> 0]
  /\ \E spent \in 0..Budget :                     \* what was charged before
       /\ ledger = [EmptyLedger(0) EXCEPT !.tokens = spent]
       /\ charged = [d \in Days |-> IF d = 0 THEN spent ELSE 0]
  /\ asks = [d \in Days |-> 0]
  /\ today = 0 /\ cooling = FALSE

To(c, p) == phase' = [phase EXCEPT ![c] = p]

\* c is not in a lease operation: it has none yet, or was told to come again.
Ready(c) == step[c] \in {"idle", "busy"}

\* The lease operation of c returned; c goes on to phase p.
After(c, outcome, p) ==
  /\ step[c] = outcome
  /\ To(c, p)
  /\ Go(c, "idle")
  /\ UNCHANGED <<dirVars, at, seenFresh, dead>>

\* An abort of the signal is seen at the top of a waiting loop.
Cancelled(c) == c \in MayCancel /\ Ready(c) /\ UNCHANGED leaseVars

-----------------------------------------------------------------------------
(* acquireSlot: one slot after the other, and from the first after a pause. *)

TrySlot(c) ==
  /\ phase[c] = "slot" /\ Ready(c)
  /\ tried' = [tried EXCEPT ![c] = (@ % Len(Slots)) + 1]
  /\ Make(c, Slots[tried'[c]])
  /\ UNCHANGED <<phase, slotOf, seen, usage, fileVars, ghosts>>

SlotTaken(c) ==
  /\ phase[c] = "slot" /\ After(c, "held", "admit")
  /\ slotOf' = [slotOf EXCEPT ![c] = at[c]]
  /\ tried' = [tried EXCEPT ![c] = 0]
  /\ UNCHANGED <<seen, usage, fileVars, ghosts>>

\* The slot was never had: complete rejects at once.
SlotRefused(c) ==
  /\ phase[c] = "slot"
  /\ \/ After(c, "threw", "failed")
     \/ Cancelled(c) /\ tried[c] \in {0, Len(Slots)} /\ To(c, "failed")
  /\ UNCHANGED <<slotOf, tried, seen, usage, fileVars, ghosts>>

-----------------------------------------------------------------------------
(* acquireNamedLease of the ledger's lock.                                 *)

TryLedger(c) ==
  /\ phase[c] \in {"admit", "charge"} /\ Ready(c)
  /\ Make(c, Ledger)
  /\ UNCHANGED <<requestVars, fileVars, ghosts>>

\* recordUsage passes no signal.
LedgerRefused(c) ==
  /\ phase[c] \in {"admit", "charge"}
  /\ \/ After(c, "threw", "free")
     \/ Cancelled(c) /\ phase[c] = "admit" /\ To(c, "free")
  /\ UNCHANGED <<slotOf, tried, seen, usage, fileVars, ghosts>>

\* readLedger, under the lock; the ledger of another day counts for nothing.
ReadLedger(c) ==
  /\ phase[c] \in {"admit", "charge"} /\ step[c] = "held"
  /\ seen' = [seen EXCEPT ![c] = IF ledger.date = today THEN ledger ELSE EmptyLedger(today)]
  /\ To(c, IF phase[c] = "admit" THEN "decide" ELSE "account")
  /\ UNCHANGED <<leaseVars, slotOf, tried, usage, fileVars, ghosts>>

-----------------------------------------------------------------------------
(* beforeRequest.                                                          *)

Exhausted(l) == Budget > 0 /\ l.tokens >= Budget

Decide(c) ==
  /\ phase[c] = "decide"
  /\ IF Exhausted(seen[c]) THEN To(c, "refuse") /\ UNCHANGED <<ledger, cooling, asks>>
     ELSE IF Spaced /\ cooling /\ seen[c].requests > 0 THEN To(c, "cool") /\ UNCHANGED <<ledger, cooling, asks>>
     ELSE /\ ledger' = [seen[c] EXCEPT !.requests = @ + 1]
          /\ cooling' = TRUE
          /\ asks' = [asks EXCEPT ![seen[c].date] = @ + 1]
          /\ To(c, "enter")
  /\ seen' = [seen EXCEPT ![c] = EmptyLedger(0)]
  /\ UNCHANGED <<leaseVars, slotOf, tried, usage, today, charged>>

NextPhaseUnlessRefused == [cool |-> "admit", enter |-> "ask", book |-> "leave"]   \* mutant: no finally

\* mutex.release() in a finally block: after a refusal, an interval that has not
\* passed, an admission and a charge.
NextPhase == [refuse |-> "free", cool |-> "admit", enter |-> "ask", book |-> "leave"]

LeaveLedger(c) ==
  /\ phase[c] \in DOMAIN NextPhase /\ step[c] = "held"
  /\ Check(c, Ledger)
  /\ UNCHANGED <<requestVars, fileVars, ghosts>>

LedgerLeft(c) ==
  /\ phase[c] \in DOMAIN NextPhase
  /\ \/ After(c, "released", NextPhase[phase[c]])
     \/ After(c, "threw", "free")
  /\ UNCHANGED <<slotOf, tried, seen, usage, fileVars, ghosts>>

-----------------------------------------------------------------------------
(* The provider, recordUsage, and the slot's release.                      *)

\* A response without a usage is charged nothing.
Answer(c) ==
  /\ phase[c] = "ask"
  /\ \E n \in 0..MaxTokens : usage' = [usage EXCEPT ![c] = n]
  /\ To(c, "charge")
  /\ UNCHANGED <<leaseVars, slotOf, tried, seen, fileVars, ghosts>>

AnswerFails(c) ==
  /\ phase[c] = "ask"
  /\ To(c, "free")
  /\ UNCHANGED <<leaseVars, slotOf, tried, seen, usage, fileVars, ghosts>>

BookStale(c) ==                                 \* mutant: on the ledger read when admitted
  /\ phase[c] = "account"
  /\ ledger' = [seen[c] EXCEPT !.tokens = usage[c]]
  /\ charged' = [charged EXCEPT ![seen[c].date] = @ + usage[c]]
  /\ seen' = [seen EXCEPT ![c] = EmptyLedger(0)] /\ usage' = [usage EXCEPT ![c] = 0]
  /\ To(c, "book")
  /\ UNCHANGED <<leaseVars, slotOf, tried, today, cooling, asks>>

Book(c) ==
  /\ phase[c] = "account"
  /\ ledger' = [seen[c] EXCEPT !.tokens = @ + usage[c]]
  /\ charged' = [charged EXCEPT ![seen[c].date] = @ + usage[c]]
  /\ seen' = [seen EXCEPT ![c] = EmptyLedger(0)] /\ usage' = [usage EXCEPT ![c] = 0]
  /\ To(c, "book")
  /\ UNCHANGED <<leaseVars, slotOf, tried, today, cooling, asks>>

FreeSlot(c) ==
  /\ phase[c] \in {"free", "leave"} /\ Ready(c)
  /\ Check(c, slotOf[c])
  /\ slotOf' = [slotOf EXCEPT ![c] = NoSlot]
  /\ UNCHANGED <<phase, tried, seen, usage, fileVars, ghosts>>

SlotFreed(c) ==
  /\ phase[c] \in {"free", "leave"}
  /\ \/ After(c, "released", IF phase[c] = "leave" THEN "done" ELSE "failed")
     \/ After(c, "threw", "failed")
  /\ UNCHANGED <<slotOf, tried, seen, usage, fileVars, ghosts>>

-----------------------------------------------------------------------------
RequestStep(c) ==
  \/ TrySlot(c) \/ SlotTaken(c) \/ SlotRefused(c) \/ TryLedger(c) \/ LedgerRefused(c) \/ ReadLedger(c)
  \/ Decide(c) \/ LeaveLedger(c) \/ LedgerLeft(c)
  \/ Answer(c) \/ AnswerFails(c) \/ Book(c) \/ FreeSlot(c) \/ SlotFreed(c)

\* Bound: the others wait while a caller goes on from a lease operation that returned.
Returned(c) == Live(c) /\ (step[c] \in {"threw", "released"} \/ (phase[c] = "slot" /\ step[c] = "held"))

CallerStep(c) ==
  /\ Live(c) /\ \A e \in Callers \ {c} : ~Returned(e)
  /\ \/ RequestStep(c)
     \/ LeaseStep(c) /\ UNCHANGED <<requestVars, fileVars, ghosts>>

Cooled == cooling /\ cooling' = FALSE /\ UNCHANGED <<leaseVars, requestVars, ledger, today, ghosts>>

\* Bound: a midnight or a crash, not both.
Midnight ==
  /\ today < MaxDays /\ dead = {} /\ \A c \in Callers : ~Returned(c)
  /\ today' = today + 1
  /\ UNCHANGED <<leaseVars, requestVars, ledger, cooling, ghosts>>

Aged(d) == Age(d) /\ UNCHANGED <<requestVars, fileVars, ghosts>>

Crash(p) ==
  /\ today = 0
  /\ \E c \in Callers : ProcessOf[c] = p /\ phase[c] \notin {"done", "failed"}
  /\ \A c \in Callers : ~Returned(c)
  /\ Stop(p)
  /\ UNCHANGED <<requestVars, fileVars, ghosts>>

Next ==
  \/ \E c \in Callers : CallerStep(c)
  \/ \E p \in Processes : Crash(p)
  \/ \E d \in Dirs : Aged(d)
  \/ Cooled \/ Midnight

Spec == Init /\ [][Next]_vars

\* File operations return, pauses end, time passes, and the provider's client
\* gives up on a request that is not answered.
FairSpec ==
  /\ Spec
  /\ \A c \in Callers : WF_vars(CallerStep(c))
  /\ WF_vars(Cooled) /\ \A d \in Dirs : WF_vars(Aged(d))

-----------------------------------------------------------------------------
(* Properties.                                                             *)

TypeOK ==
  /\ LeaseTypeOK
  /\ phase \in [Callers -> Phases] /\ slotOf \in [Callers -> Dirs \cup {NoSlot}]
  /\ tried \in [Callers -> 0..Len(Slots)] /\ seen \in [Callers -> Ledgers]
  /\ usage \in [Callers -> 0..MaxTokens]
  /\ ledger \in Ledgers /\ today \in Days /\ cooling \in BOOLEAN
  /\ charged \in [Days -> Nat] /\ asks \in [Days -> Nat]

\* Who has a FileLease object of d, in a process that runs.
HoldersOf(d) == {c \in Callers : Live(c) /\ (slotOf[c] = d \/ (at[c] = d /\ step[c] = "held"))}

Leases == INSTANCE ExclusiveLeases WITH holders <- [d \in Dirs |-> HoldersOf(d)]

\* The directories keep what a lease promises, over crashes and stale takeovers:
\* each slot and the ledger's lock have one holder at a time, of any process.
ImplementsLeases == Leases!Spec

\* The ledger of today is what the requests of today were charged and admitted: no
\* process overwrites what another has just counted.
LedgerIsExact ==
  ledger.tokens = charged[ledger.date] /\ ledger.requests = asks[ledger.date]

\* The budget is checked before a request and charged after it, so a day may end
\* over it: by what the requests of all slots but the last token used, no more.
OvershootIsBounded ==
  Budget > 0 => ledger.tokens <= Budget - 1 + Len(Slots) * MaxTokens

\* The ledger that several processes keep together stays the day's true account,
\* and the budget it is compared with is overshot no further than explained.
LedgerIsKept == LedgerIsExact /\ OvershootIsBounded

\* Whatever the other processes do or leave behind when they stop, a request of a
\* process that runs comes to its end.
EveryRequestEnds ==
  \A c \in Callers : <>(phase[c] \in {"done", "failed"} \/ ~Live(c))
=============================================================================
