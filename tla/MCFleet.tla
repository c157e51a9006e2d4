------------------------------ MODULE MCFleet -------------------------------
(***************************************************************************)
(* Fleet on small instances, and the sentences of the documentation that   *)
(* the fleet does not live up to.                                          *)
(***************************************************************************)
EXTENDS Fleet, TLC

\* Every test server takes anything, as in the compose file; or those that may
\* crash take jobs for one environment only.
AnyLabels == [r \in Runners |-> {}]
SomeLabels == [r \in Runners |-> IF r \in Reliable THEN {} ELSE {"staging"}]

Symmetries == Permutations(Jobs) \cup Permutations(Runners)
RunnerSymmetry == Permutations(Runners)

\* The state without the histories, which no action reads.
Present == <<jobs, arrivals, agent, orphans, late, beaten>>

\* store.py:17-18: "A test server that dies mid-run must not take the job with it.
\* The claim carries an expiry; a lease that is not renewed is requeued."  Once
\* every test server is up again and stays up, every job that was asked for
\* settles, here in runs in which no long poll outlives its client.
RestartedFleetSettles ==
    <>[](Up = Runners) /\ [](orphans = {}) => EveryJobSettles

\* test-server/README.md:142: "One job at a time.  A server claiming a second job
\* while the first runs would let one machine drain the queue".  While a test
\* server runs a suite the edge hands it nothing more.
NothingClaimedWhileRunning ==
    [][\A r \in Runners : agent[r].at = "running"
           => \A j \in Jobs : Store!Holds(r, j)' => Store!Holds(r, j)]_vars
=============================================================================
