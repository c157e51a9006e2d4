----------------------------- MODULE MCJobStore -----------------------------
(***************************************************************************)
(* JobStore on a small instance: jobs are interchangeable, and so are test *)
(* servers, for the labels of a call are chosen at every call.             *)
(***************************************************************************)
EXTENDS JobStore, TLC

Symmetries == Permutations(Jobs) \cup Permutations(Runners)
=============================================================================
