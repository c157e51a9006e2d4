------------------------------- MODULE Fleet --------------------------------
(***************************************************************************)
(* The edge and its test servers: the job table of JobStore driven by the  *)
(* handlers of src/edge/edge_server/app.py and by the loops of             *)
(* src/test-server/test_server/agent.py over a network that may fail.      *)
(*                                                                         *)
(* A test server has two threads.  The main one polls for a job, runs it   *)
(* and reports; the other heartbeats whatever the main one is doing.  A    *)
(* handler of the edge is one action, but for the long poll: its handler   *)
(* sleeps between claims, and goes on after its client has hung up.        *)
(*                                                                         *)
(* A tick is a time in which a live test server heartbeats at least once.  *)
(***************************************************************************)
EXTENDS Integers

CONSTANTS Jobs, Runners, Servers, MaxAttempts, LeaseTicks, Null,
          SuiteCodes,   \* what a suite can exit with, and 3 for one that was killed
          Labels,       \* the environments each test server enrolled for
          ReportTries,  \* how often _safe_result tries to report: 3
          Faults,       \* what may go wrong
          Reliable      \* test servers that do not crash

ExitCodes == SuiteCodes \cup {4, 5}

\* missed: a test server's heartbeats may fail for longer than a lease lasts.
FaultKinds == {"crash",    \* a test server's process dies
               "restart",  \* and is started again, with the same id
               "loss",     \* a request or a reply is lost
               "late",     \* a result is carried out after its sender gave up on it
               "edge",     \* the edge restarts
               "slack",    \* Slack does not take a message
               "missed"}

ASSUME NullIsNothing == Null \notin Runners /\ Null \notin Servers /\ Null \notin Int
ASSUME CodesAreIntegers == SuiteCodes \subseteq Int
ASSUME LimitsAreIntegers == MaxAttempts \in Int /\ LeaseTicks \in Nat /\ ReportTries \in Nat \ {0}
ASSUME LabelsAreServers == Labels \in [Runners -> SUBSET Servers]
ASSUME FaultsAreKnown == Faults \subseteq FaultKinds /\ Reliable \subseteq Runners

VARIABLES jobs, arrivals,   \* the job table of JobStore
          agent,     \* test server -> what its main thread is doing, and with which job
          orphans,   \* test servers with a long poll at the edge that nobody listens to
          late,      \* results still to be carried out, <<test server, job, code>>
          beaten,    \* test servers that heartbeat since the last tick
          runs,      \* history: job -> how many times a suite was started for it
          said       \* history: job -> outcomes sent to Slack: <<test server, code, whether taken>>

Store == INSTANCE JobStore

store == <<jobs, arrivals>>
network == <<orphans, late>>
history == <<runs, said>>
vars == <<jobs, arrivals, agent, orphans, late, beaten, runs, said>>

-----------------------------------------------------------------------------
\* off, or in the claim loop, or with a job in hand: before, during and after its suite.
Stages == {"off", "idle", "got", "running", "reporting"}

Agent == [at: Stages, job: Jobs \cup {Null}, code: ExitCodes \cup {Null}, tries: 0..ReportTries]

Doing(stage, j, e) == [at |-> stage, job |-> j, code |-> e, tries |-> 0]
Idle == Doing("idle", Null, Null)

Up == {r \in Runners : agent[r].at # "off"}

Init == /\ Store!Init
        /\ agent = [r \in Runners |-> Idle]
        /\ orphans = {} /\ late = {} /\ beaten = {}
        /\ runs = [j \in Jobs |-> 0]
        /\ said = [j \in Jobs |-> {}]

Become(r, doing) == agent' = [agent EXCEPT ![r] = doing]

-----------------------------------------------------------------------------
\* Slack: a new command; a retry of one finds its id taken and changes nothing.
SlackCommand(j, s) ==
    /\ Store!Enqueue(j, s)
    /\ UNCHANGED <<agent, network, beaten, history>>

-----------------------------------------------------------------------------
\* The claim loop of run_forever, against the long poll of the edge.

\* Definitions named <definition>_<slip> are slips the code could have made and did
\* not.  No action uses them: the properties are tried against them.

PollClaim_WhileRunning(r, j) ==
    /\ agent[r].at \in {"idle", "running"}
    /\ Store!Claim(r, Labels[r], j)
    /\ IF agent[r].at = "idle" THEN Become(r, Doing("got", j, Null)) ELSE UNCHANGED agent
    /\ UNCHANGED <<network, beaten, history>>

\* The handler finds a job and the reply brings it, or is lost.
PollClaim(r, j) ==
    /\ agent[r].at = "idle"
    /\ Store!Claim(r, Labels[r], j)
    /\ \/ Become(r, Doing("got", j, Null))
       \/ "loss" \in Faults /\ UNCHANGED agent
    /\ UNCHANGED <<network, beaten, history>>

\* The handler finds nothing: it tries again, or the wait is over and the poll anew.
PollEmpty(r) ==
    /\ agent[r].at = "idle"
    /\ Store!ClaimNothing(Labels[r])
    /\ UNCHANGED <<agent, network, beaten, history>>

\* The connection drops under a waiting poll: the test server polls anew, the
\* handler waits on.  At most one such handler per test server is modelled.
PollDropped(r) ==
    /\ "loss" \in Faults
    /\ agent[r].at = "idle"
    /\ orphans' = orphans \cup {r}
    /\ UNCHANGED <<store, agent, late, beaten, history>>

OrphanClaim(r, j) ==
    /\ r \in orphans
    /\ Store!Claim(r, Labels[r], j)
    /\ orphans' = orphans \ {r}
    /\ UNCHANGED <<agent, late, beaten, history>>

OrphanEmpty(r) ==
    /\ r \in orphans
    /\ Store!ClaimNothing(Labels[r])
    /\ orphans' \in {orphans, orphans \ {r}}
    /\ UNCHANGED <<agent, late, beaten, history>>

-----------------------------------------------------------------------------
\* execute: one job from its arrival to its report.

\* The handler of /started.  Whether it found the row is in its reply (200 or
\* 409), which the client does not look at.
StartedCall(r, j) == IF Store!HoldsClaimed(r, j) THEN Store!MarkRunning(r, j)
                     ELSE UNCHANGED store

ReportsStart(r) == \/ StartedCall(r, agent[r].job)
                   \/ "loss" \in Faults /\ UNCHANGED store

\* completed.  "NEVER let a reporting failure fail the test run" (_call): a message that
\* Slack does not take is logged and the outcome is reported to the edge all the same.
Taken == IF "slack" \in Faults THEN BOOLEAN ELSE {TRUE}

Announce(r, e) ==
    \E taken \in Taken : said' = [said EXCEPT ![agent[r].job] = @ \cup {<<r, e, taken>>}]

\* validate refuses the job: announced and reported, never started.
Refuse(r) ==
    /\ agent[r].at = "got"
    /\ Announce(r, 4)
    /\ Become(r, Doing("reporting", agent[r].job, 4))
    /\ UNCHANGED <<store, network, beaten, runs>>

\* No suite for the product on this machine: reported as started, and as over.
NoSuite(r) ==
    /\ agent[r].at = "got"
    /\ ReportsStart(r)
    /\ Announce(r, 5)
    /\ Become(r, Doing("reporting", agent[r].job, 5))
    /\ UNCHANGED <<network, beaten, runs>>

Begin(r) ==
    /\ agent[r].at = "got"
    /\ ReportsStart(r)
    /\ runs' = [runs EXCEPT ![agent[r].job] = @ + 1]
    /\ Become(r, Doing("running", agent[r].job, Null))
    /\ UNCHANGED <<network, beaten, said>>

\* pytest exits, or is killed for taking too long.
SuiteEnds(r, e) ==
    /\ agent[r].at = "running"
    /\ Announce(r, e)
    /\ Become(r, Doing("reporting", agent[r].job, e))
    /\ UNCHANGED <<store, network, beaten, runs>>

\* The handler of /result.
ResultCall(r, j, e) == IF Store!Holds(r, j) THEN Store!Finish(r, j, e) ELSE UNCHANGED store

TryAgain_Forever(r) == agent' = [agent EXCEPT ![r].tries = @ + 1]

\* Another try, or back to the claim loop with "gave up reporting result".
TryAgain(r) ==
    IF agent[r].tries + 1 < ReportTries THEN agent' = [agent EXCEPT ![r].tries = @ + 1]
    ELSE Become(r, Idle)

\* _safe_result: one try.  It is over when the edge says 200; a 409 is an error
\* like any other, and is tried again.
Report(r) ==
    LET j == agent[r].job
        e == agent[r].code
    IN  /\ agent[r].at = "reporting"
        /\ \/ /\ ResultCall(r, j, e)
              /\ IF Store!Holds(r, j) THEN Become(r, Idle) ELSE TryAgain(r)
              /\ UNCHANGED late
           \/ /\ "loss" \in Faults
              /\ ResultCall(r, j, e) \/ UNCHANGED store
              /\ TryAgain(r)
              /\ UNCHANGED late
           \/ /\ "late" \in Faults
              /\ late' = late \cup {<<r, j, e>>}
              /\ TryAgain(r)
              /\ UNCHANGED store
        /\ UNCHANGED <<orphans, beaten, history>>

LateResult(r, j, e) ==
    /\ <<r, j, e>> \in late
    /\ ResultCall(r, j, e)
    /\ late' = late \ {<<r, j, e>>}
    /\ UNCHANGED <<agent, orphans, beaten, history>>

-----------------------------------------------------------------------------
\* The heartbeat thread, time, and what goes wrong.

Heartbeat(r) ==
    /\ r \in Up
    /\ Store!Renew(r)
    /\ beaten' = beaten \cup {r}
    /\ UNCHANGED <<agent, network, history>>

Tick ==
    /\ "missed" \in Faults \/ Up \subseteq beaten
    /\ Store!Tick
    /\ beaten' = {}
    /\ UNCHANGED <<agent, network, history>>

\* A process that dies while it polls may leave its poll behind.
Crash(r) ==
    /\ "crash" \in Faults
    /\ r \in Up \ Reliable
    /\ Become(r, Doing("off", Null, Null))
    /\ \/ orphans' = orphans
       \/ agent[r].at = "idle" /\ orphans' = orphans \cup {r}
    /\ UNCHANGED <<store, late, beaten, history>>

\* Started again and enrolled again: the edge knows the id and its key.
Restart(r) ==
    /\ "restart" \in Faults
    /\ r \notin Up
    /\ Become(r, Idle)
    /\ UNCHANGED <<store, network, beaten, history>>

EdgeRestart_InMemory ==
    /\ "edge" \in Faults
    /\ jobs' = [j \in Jobs |-> Store!NoRow] /\ arrivals' = 0
    /\ orphans' = {} /\ late' = {}
    /\ UNCHANGED <<agent, beaten, history>>

\* The table is on disk; what was waiting in the edge's memory is gone.
EdgeRestart ==
    /\ "edge" \in Faults
    /\ orphans' = {} /\ late' = {}
    /\ UNCHANGED <<store, agent, beaten, history>>

-----------------------------------------------------------------------------
MainStep(r) ==
    \/ \E j \in Jobs : PollClaim(r, j)
    \/ PollEmpty(r)
    \/ PollDropped(r)
    \/ Refuse(r)
    \/ NoSuite(r)
    \/ Begin(r)
    \/ \E e \in SuiteCodes : SuiteEnds(r, e)
    \/ Report(r)

OrphanStep(r) == OrphanEmpty(r) \/ \E j \in Jobs : OrphanClaim(r, j)

Next ==
    \/ \E j \in Jobs, s \in Servers : SlackCommand(j, s)
    \/ \E r \in Runners : MainStep(r) \/ OrphanStep(r) \/ Heartbeat(r) \/ Crash(r) \/ Restart(r)
    \/ \E r \in Runners, j \in Jobs, e \in ExitCodes : LateResult(r, j, e)
    \/ Tick
    \/ EdgeRestart

Spec == Init /\ [][Next]_vars

\* The threads of a live test server keep going, a suite ends or is killed at
\* job_timeout, and time passes; Slack and the faults owe nothing.
Fairness == /\ \A r \in Runners : WF_vars(MainStep(r)) /\ WF_vars(Heartbeat(r))
            /\ WF_vars(Tick)

FairSpec == Spec /\ Fairness

-----------------------------------------------------------------------------
\* What each main thread and each message in flight can be.
TypeOK == /\ Store!TypeOK
          /\ agent \in [Runners -> Agent]
          /\ orphans \subseteq Runners
          /\ late \subseteq Runners \X Jobs \X ExitCodes
          /\ beaten \subseteq Runners
          /\ runs \in [Jobs -> Nat]
          /\ said \in [Jobs -> SUBSET (Runners \X ExitCodes \X Taken)]

\* "attempts is capped so a job that kills its runner cannot kill all three in
\* turn" (store.py): whatever crashes, restarts, losses and missed heartbeats come in
\* between, no suite is started for a job that is not on record as an attempt at it, and
\* so none more often than the limit.
RunsBounded == \A j \in Jobs : /\ runs[j] <= jobs[j].attempts
                               /\ jobs[j].attempts <= Store!AttemptLimit

\* A recorded outcome is one that the test server named in the row had sent to Slack for
\* that job before: lost replies, retries and results that arrive late after the job went
\* to another test server leave no row with an outcome that its holder did not announce
\* (execute, finish).  If the channel never heard of it, then because Slack did not take
\* that very message; where Slack takes what it is sent, record and channel agree.
RecordMatchesAnnouncement ==
    \A j \in Jobs : jobs[j].state \in {"done", "failed"}
        => \E taken \in Taken : <<jobs[j].runner, jobs[j].exit, taken>> \in said[j]

\* A test server that has a job in hand, or runs it, is the one the edge has
\* down for it, on a lease (claim, renew): a busy test server that heartbeats is
\* not declared dead.  So no two of them run the same job.
HasInHand(r, j) == agent[r].at \in {"got", "running"} /\ agent[r].job = j

RunnerKeepsItsJob == \A r \in Runners, j \in Jobs : HasInHand(r, j) => Store!Holds(r, j)

\* The same suite does not run twice at a time, "against staging" (store.py).
ExclusiveRun == \A r, q \in Runners, j \in Jobs : HasInHand(r, j) /\ HasInHand(q, j) => r = q

\* What is over is over: when a job is done, failed or abandoned no suite is started for
\* it any more and no outcome announced, by a test server that had it before, or thinks it
\* still has it (finish, _reap, execute).
NothingAfterTheEnd ==
    [][\A j \in Jobs : jobs[j].state \in Store!Terminal =>
           runs'[j] = runs[j] /\ said'[j] = said[j]]_vars

\* "ONE JOB AT A TIME" (agent.py): a test server holds one job at most.
OneJobAtATime ==
    \A r \in Runners, j, k \in Jobs : Store!Holds(r, j) /\ Store!Holds(r, k) => j = k

\* Everything the fleet does to the table is a step of the store's own specification.
ImplementsStore == Store!Spec

\* A job that was asked for is done, failed or abandoned in the end: "a test server
\* that dies mid-run must not take the job with it" (store.py).
EveryJobSettles ==
    \A j \in Jobs : (jobs[j].state = "queued") ~> (jobs[j].state \in Store!Terminal)
=============================================================================
