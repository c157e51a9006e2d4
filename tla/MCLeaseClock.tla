---------------------------- MODULE MCLeaseClock ----------------------------
(***************************************************************************)
(* The defaults of the two configurations, in units of five seconds.       *)
(***************************************************************************)
EXTENDS LeaseClock
=============================================================================
