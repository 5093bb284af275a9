-------------------------- MODULE MCSharedProvider --------------------------
(***************************************************************************)
(* An instance of SharedProvider for TLC.                                  *)
(***************************************************************************)
EXTENDS SharedProvider, TLC

CONSTANTS c1, c2, p1, p2, s1, s2, lock

\* Two requests, each of a process of its own.
MCProcessOf == (c1 :> p1) @@ (c2 :> p2)
TwoSlots == <<s1, s2>>
=============================================================================
