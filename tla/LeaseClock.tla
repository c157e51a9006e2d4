----------------------------- MODULE LeaseClock -----------------------------
(***************************************************************************)
(* A test server that holds a job, and the clock its lease runs against:   *)
(* _heartbeat_loop (test_server/agent.py) with the heartbeat it calls      *)
(* (client.py), and renew and _reap (edge_server/store.py).  JobStore and  *)
(* Fleet take a renewal for granted in every tick; here it takes time: the *)
(* loop waits, the call is under way, the edge has read its clock and      *)
(* waits for the database.                                                 *)
(*                                                                         *)
(* A behaviour begins when the claim is committed, with the heartbeat      *)
(* thread anywhere in its loop, and ends with the lease.  Times are real   *)
(* except age and stale, which are measured by the edge's wall clock; that *)
(* may be set forward.                                                     *)
(***************************************************************************)
EXTENDS Integers

CONSTANTS Interval,  \* RUNNER_HEARTBEAT_INTERVAL: what the loop waits between two calls
          Timeout,   \* the longest a call takes, and a request is under way
          Lease,     \* JOB_LEASE_SECONDS
          LockWait,  \* the longest a statement waits for the database
          MaxMissed, \* bound: how many heartbeats in a row come to nothing
          Skew       \* bound: by how much the clock is set forward in all

ASSUME TimesAreDurations == /\ Interval \in Nat \ {0} /\ Timeout \in Nat /\ Lease \in Nat
                            /\ LockWait \in Nat /\ LockWait <= Interval
ASSUME FaultsAreBounded == MaxMissed \in Nat /\ Skew \in Nat
\* What the lease has to outlast: a call that the edge answered just before the claim,
\* the calls that come to nothing, and the one that gets through, at their slowest.
ASSUME LeaseIsEnough ==
    (MaxMissed + 1) * (Interval + Timeout) + Timeout + 2 * LockWait + Skew <= Lease

VARIABLES alive,   \* whether the test server is
          phase,   \* what its heartbeat thread does: wait, or call
          clock,   \* for how long
          call,    \* how far its last heartbeat got
          wait,    \* how long the edge has been waiting for the database on its behalf
          stale,   \* how far the time that the edge read for it is behind
          age,     \* time since the lease was granted
          held,    \* whether the row is still its
          missed,  \* heartbeats in a row that came to nothing
          set,     \* by how much the clock was set forward
          dead     \* history: time since the test server died

vars == <<alive, phase, clock, call, wait, stale, age, held, missed, set, dead>>

-----------------------------------------------------------------------------
\* claim reads its clock before it waits for the database, too.
Init == /\ alive = TRUE
        /\ \/ phase = "waiting" /\ clock \in 0..Interval /\ call = "done" /\ wait = 0
           \/ phase = "waiting" /\ wait \in 0..LockWait /\ clock \in 0..wait /\ call = "taken"
           \/ phase = "calling" /\ clock \in 0..Timeout /\ call \in {"sent", "done"} /\ wait = 0
           \/ phase = "calling" /\ clock \in 0..Timeout /\ call = "taken" /\ wait \in 0..LockWait
        /\ stale = wait
        /\ age \in 0..LockWait
        /\ held = TRUE
        /\ missed = 0 /\ set = 0 /\ dead = 0

-----------------------------------------------------------------------------
\* The heartbeat thread.

\* Definitions named <definition>_<slip> are slips the code could have made and did
\* not.  No action uses them: the properties are tried against them.
\* The thread is no daemon and outlives its process's main one.
Send_NoDaemon ==
    /\ phase = "waiting" /\ clock = Interval /\ call # "taken"
    /\ phase' = "calling" /\ clock' = 0 /\ call' = "sent"
    /\ UNCHANGED <<alive, wait, stale, age, held, missed, set, dead>>

Send ==
    /\ alive /\ phase = "waiting" /\ clock = Interval /\ call # "taken"
    /\ phase' = "calling" /\ clock' = 0 /\ call' = "sent"
    /\ UNCHANGED <<alive, wait, stale, age, held, missed, set, dead>>

\* The reply arrives, or the call is given up while the edge is at it.
Return ==
    /\ alive /\ phase = "calling"
    /\ \/ call = "done"
       \/ call = "taken" /\ clock = Timeout
    /\ phase' = "waiting" /\ clock' = 0
    /\ UNCHANGED <<alive, call, wait, stale, age, held, missed, set, dead>>

\* The request never gets there.
Miss ==
    /\ alive /\ call = "sent" /\ missed < MaxMissed
    /\ call' = "done" /\ phase' = "waiting" /\ clock' = 0
    /\ missed' = missed + 1
    /\ UNCHANGED <<alive, wait, stale, age, held, set, dead>>

Die ==
    /\ alive
    /\ alive' = FALSE
    /\ UNCHANGED <<phase, clock, call, wait, stale, age, held, missed, set, dead>>

-----------------------------------------------------------------------------
\* The edge.

\* renew reads its clock ...
Take ==
    /\ call = "sent"
    /\ call' = "taken" /\ wait' = 0 /\ stale' = 0
    /\ UNCHANGED <<alive, phase, clock, age, held, missed, set, dead>>

Renewed_FromItsEnd == age - Lease
\* ... and counts the lease from what it read.
Renewed == stale

Renew ==
    /\ call = "taken" /\ held
    /\ call' = "done"
    /\ age' = Renewed
    /\ missed' = 0
    /\ UNCHANGED <<alive, phase, clock, wait, stale, held, set, dead>>

\* Or the database stays locked, and the call is answered with an error.
Locked ==
    /\ call = "taken" /\ wait = LockWait /\ missed < MaxMissed
    /\ call' = "done"
    /\ missed' = missed + 1
    /\ IF phase = "calling" THEN phase' = "waiting" /\ clock' = 0 ELSE UNCHANGED <<phase, clock>>
    /\ UNCHANGED <<alive, wait, stale, age, held, set, dead>>

Expired_AtTheBoundary == age >= Lease
Expired == age > Lease

\* Some claim comes by.
Reap ==
    /\ held /\ Expired
    /\ held' = FALSE
    /\ UNCHANGED <<alive, phase, clock, call, wait, stale, age, missed, set, dead>>

-----------------------------------------------------------------------------
SetForward ==
    /\ held /\ set < Skew
    /\ set' = set + 1 /\ age' = age + 1
    /\ stale' = IF call = "taken" THEN stale + 1 ELSE stale
    /\ UNCHANGED <<alive, phase, clock, call, wait, held, missed, dead>>

\* Nothing takes longer than it may.  What is under way from a dead test server is lost
\* or taken within Timeout as well.  Bound: the model ends when the lease has.
Tick ==
    /\ held /\ age <= Lease
    /\ (phase = "waiting" /\ alive) => clock < Interval
    /\ (phase = "calling" /\ (alive \/ call = "sent")) => clock < Timeout
    /\ call = "taken" => wait < LockWait
    /\ clock' = IF alive \/ call = "sent" THEN clock + 1 ELSE clock
    /\ wait' = IF call = "taken" THEN wait + 1 ELSE wait
    /\ stale' = IF call = "taken" THEN stale + 1 ELSE stale
    /\ age' = age + 1
    /\ dead' = IF alive THEN dead ELSE dead + 1
    /\ UNCHANGED <<alive, phase, call, held, missed, set>>

\* What a dead test server had sent is lost.
Lose ==
    /\ ~alive /\ call = "sent"
    /\ call' = "done"
    /\ UNCHANGED <<alive, phase, clock, wait, stale, age, held, missed, set, dead>>

Next == \/ Send \/ Return \/ Miss \/ Die
        \/ Take \/ Renew \/ Locked \/ Reap
        \/ SetForward \/ Tick \/ Lose

Spec == Init /\ [][Next]_vars

-----------------------------------------------------------------------------
TypeOK ==
    /\ alive \in BOOLEAN /\ held \in BOOLEAN
    /\ \/ phase = "waiting" /\ clock \in 0..Interval
       \/ phase = "calling" /\ clock \in 0..Timeout
    /\ call \in {"sent", "taken", "done"} /\ (call = "sent" => phase = "calling")
    /\ wait \in 0..LockWait /\ stale \in wait..(LockWait + Skew)
    /\ age \in 0..(Lease + Skew + 1)
    /\ missed \in 0..MaxMissed /\ set \in 0..Skew
    /\ dead \in 0..(Lease + Skew + Timeout + 1) /\ (alive => dead = 0)

\* "The heartbeat interval and the lease are set so" (store.py) that a test server that
\* is alive keeps its job: none of MaxMissed heartbeats in a row that come to nothing,
\* of a database that is locked, of a clock that is set forward, of a claim or a
\* renewal that was slow itself, takes it away, separately or together.
LiveKeepsItsJob == alive => held

\* "A test server that dies mid-run must not take the job with it" (store.py): once it
\* is dead its lease is no younger than its death, but for what was under way.
DeathIsNoticed == dead <= age + Timeout
=============================================================================
