--------------------------- MODULE ExclusiveLeases ---------------------------
(***************************************************************************)
(* What a lease directory promises the processes of one machine: at most   *)
(* one caller holds it, and the leases of a process that dies are free.    *)
(***************************************************************************)
CONSTANTS Dirs, Callers

VARIABLE holders      \* [Dirs -> SUBSET Callers]

Init == holders = [d \in Dirs |-> {}]

Acquire(c, d) ==
  /\ holders[d] = {}
  /\ holders' = [holders EXCEPT ![d] = {c}]

Release(c, d) ==
  /\ c \in holders[d]
  /\ holders' = [holders EXCEPT ![d] = @ \ {c}]

Die(dead) == holders' = [d \in Dirs |-> holders[d] \ dead]

Next ==
  \/ \E c \in Callers, d \in Dirs : Acquire(c, d) \/ Release(c, d)
  \/ \E dead \in SUBSET Callers : Die(dead)

Spec == Init /\ [][Next]_holders
=============================================================================
