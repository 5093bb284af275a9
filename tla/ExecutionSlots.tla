--------------------------- MODULE ExecutionSlots ---------------------------
(***************************************************************************)
(* What src/src/execution-coordinator.ts promises the schedulers of every  *)
(* active Run: a task holds its global execution slot and its workspace    *)
(* lease together, at most GlobalConcurrency tasks hold one, and two tasks *)
(* that touch the same leased workspace both only read it.                 *)
(* The abstract state is only the set of holders.                          *)
(***************************************************************************)
EXTENDS Naturals, FiniteSets

CONSTANTS
  Tasks,              \* every task of every Run of this process
  Access,             \* [Tasks -> {"none", "read", "write"}]
  LeaseKey,           \* the workspace (and isolation key) a task asks for
  GlobalConcurrency

VARIABLE holders

Compatible(t, u) ==
  \/ "none" \in {Access[t], Access[u]}
  \/ LeaseKey[t] # LeaseKey[u]
  \/ Access[t] = "read" /\ Access[u] = "read"

Init == holders = {}

Acquire(t) ==
  /\ t \notin holders
  /\ Cardinality(holders) < GlobalConcurrency
  /\ \A u \in holders : Compatible(t, u)
  /\ holders' = holders \cup {t}

Release(t) ==
  /\ t \in holders
  /\ holders' = holders \ {t}

Next == \E t \in Tasks : Acquire(t) \/ Release(t)

Spec == Init /\ [][Next]_holders
=============================================================================
