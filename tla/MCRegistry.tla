----------------------------- MODULE MCRegistry -----------------------------
(***************************************************************************)
(* Registry on a small instance: three machines, two of which were given   *)
(* one name.                                                               *)
(***************************************************************************)
EXTENDS Registry, TLC

CONSTANTS m1, m2, m3, n1, n2

\* Two machines were given one name.
SharedName == [m \in Machines |-> IF m = m3 THEN n2 ELSE n1]
=============================================================================
