---------------------------- MODULE FleetProofs -----------------------------
(***************************************************************************)
(* Proofs about Fleet, for any number of jobs and test servers and any of  *)
(* the faults.                                                             *)
(***************************************************************************)
EXTENDS Fleet, TLAPS

USE NullIsNothing, CodesAreIntegers, LimitsAreIntegers, LabelsAreServers

-----------------------------------------------------------------------------
(***************************************************************************)
(* The inductive invariant about the main threads and the messages.        *)
(***************************************************************************)

\* An outcome was sent to Slack, which took it or not.
Sent(r, e, messages) == \E taken \in Taken : <<r, e, taken>> \in messages

LEMMA SentStays ==
    ASSUME NEW r, NEW e, NEW before, NEW after, before \subseteq after, Sent(r, e, before)
    PROVE  Sent(r, e, after)
BY DEF Sent

\* A main thread past the claim loop has a job in hand, and when it reports it an
\* outcome that was already sent to the channel: execute calls reporter.completed before
\* _safe_result.  The same holds of a result that is carried out late.
Busy(r) == agent[r].at \in {"got", "running", "reporting"}

InHand(r) ==
    /\ Busy(r) => agent[r].job \in Jobs
    /\ agent[r].at = "reporting" => /\ agent[r].code \in ExitCodes
                                    /\ agent[r].tries \in 0..(ReportTries - 1)
                                    /\ Sent(r, agent[r].code, said[agent[r].job])

Announced(m) == m \in Runners \X Jobs \X ExitCodes /\ Sent(m[1], m[3], said[m[2]])

ThreadInv == /\ agent \in [Runners -> Agent]
             /\ \A r \in Runners : InHand(r)
             /\ orphans \subseteq Runners /\ beaten \subseteq Runners
             /\ \A m \in late : Announced(m)
             /\ runs \in [Jobs -> Nat]
             /\ said \in [Jobs -> SUBSET (Runners \X ExitCodes \X Taken)]

LEMMA ThreadInit == Init => ThreadInv
BY DEF Init, ThreadInv, Idle, Doing, Agent, Stages, InHand, Busy

\* A step that leaves agent, late and the histories alone.
LEMMA ThreadFrame ==
    ASSUME ThreadInv, UNCHANGED <<agent, runs, said>>,
           late' \subseteq late, orphans' \subseteq Runners, beaten' \subseteq Runners
    PROVE  ThreadInv'
BY SentStays DEF ThreadInv, InHand, Busy, Announced

\* A step in which one main thread moves on, and announces at most more than before.
LEMMA ThreadMoves ==
    ASSUME ThreadInv, NEW r \in Runners, NEW doing \in Agent,
           Become(r, doing),
           doing.at \in {"off", "idle"}
             \/ /\ doing.at \in {"got", "running"} /\ doing.job \in Jobs
             \/ /\ doing.at = "reporting" /\ doing.job \in Jobs /\ doing.code \in ExitCodes
                /\ doing.tries \in 0..(ReportTries - 1)
                /\ Sent(r, doing.code, said'[doing.job]),
           said' \in [Jobs -> SUBSET (Runners \X ExitCodes \X Taken)],
           \A j \in Jobs : said[j] \subseteq said'[j],
           runs' \in [Jobs -> Nat],
           \A m \in late' : Announced(m)',
           orphans' \subseteq Runners, beaten' \subseteq Runners
    PROVE  ThreadInv'
<1>1. agent' \in [Runners -> Agent] /\ agent'[r] = doing
  BY DEF Become, ThreadInv
<1>2. ASSUME NEW q \in Runners PROVE InHand(q)'
  <2>1. CASE q = r
    BY <1>1, <2>1 DEF InHand, Busy
  <2>2. CASE q # r
    <3>1. agent'[q] = agent[q] /\ InHand(q)
      BY <2>2 DEF Become, ThreadInv
    <3>2. CASE agent[q].at = "reporting"
      <4>1. agent[q].job \in Jobs
        BY <3>1, <3>2 DEF InHand, Busy
      <4>2. Sent(q, agent[q].code, said'[agent[q].job])
        BY <3>1, <3>2, <4>1, SentStays DEF InHand
      <4> QED
        BY <3>1, <3>2, <4>1, <4>2 DEF InHand, Busy
    <3>3. CASE agent[q].at # "reporting"
      BY <3>1, <3>3 DEF InHand, Busy
    <3> QED
      BY <3>2, <3>3
  <2> QED
    BY <2>1, <2>2
<1> QED
  BY <1>1, <1>2 DEF ThreadInv

\* Messages in flight stay announced while announcements are only added.
LEMMA StillAnnounced ==
    ASSUME ThreadInv, \A j \in Jobs : said[j] \subseteq said'[j], late' \subseteq late
    PROVE  \A m \in late' : Announced(m)'
<1> SUFFICES ASSUME NEW m \in late' PROVE Announced(m)'
  OBVIOUS
<1>1. Announced(m)
  BY DEF ThreadInv
<1>2. said[m[2]] \subseteq said'[m[2]]
  BY <1>1 DEF Announced
<1> QED
  BY <1>1, <1>2, SentStays DEF Announced

LEMMA DoingInHand ==
    ASSUME NEW stage \in Stages, NEW j \in Jobs \cup {Null}, NEW e \in ExitCodes \cup {Null}
    PROVE  /\ Doing(stage, j, e) \in Agent
           /\ Doing(stage, j, e).at = stage
           /\ Doing(stage, j, e).job = j
           /\ Doing(stage, j, e).code = e
           /\ Doing(stage, j, e).tries = 0
           /\ 0 \in 0..(ReportTries - 1)
BY DEF Doing, Agent

\* What Announce does to the channel.
LEMMA AnnounceAdds ==
    ASSUME ThreadInv, NEW r \in Runners, Busy(r), NEW e \in ExitCodes, Announce(r, e)
    PROVE  /\ said' \in [Jobs -> SUBSET (Runners \X ExitCodes \X Taken)]
           /\ \A j \in Jobs : said[j] \subseteq said'[j]
           /\ agent[r].job \in Jobs
           /\ Sent(r, e, said'[agent[r].job])
<1>1. agent[r].job \in Jobs
  BY DEF ThreadInv, InHand
<1>2. PICK taken \in Taken :
          said' = [said EXCEPT ![agent[r].job] = @ \cup {<<r, e, taken>>}]
  BY DEF Announce
<1> QED
  BY <1>1, <1>2 DEF ThreadInv, Sent

\* Another try: still reporting the same outcome, or idle.
LEMMA TryAgainInv ==
    ASSUME ThreadInv, NEW r \in Runners, agent[r].at = "reporting", TryAgain(r),
           UNCHANGED <<runs, said>>, orphans' \subseteq Runners, beaten' \subseteq Runners,
           \A m \in late' : Announced(m)'
    PROVE  ThreadInv'
<1> DEFINE doing == [agent[r] EXCEPT !.tries = @ + 1]
<1>0. /\ InHand(r) /\ agent[r] \in Agent /\ agent[r].job \in Jobs
      /\ said' \in [Jobs -> SUBSET (Runners \X ExitCodes \X Taken)] /\ runs' \in [Jobs -> Nat]
  BY DEF ThreadInv, InHand, Busy
<1>1. CASE agent[r].tries + 1 < ReportTries
  <2>1. Become(r, doing)
    BY <1>1 DEF TryAgain, Become
  <2>2. /\ doing \in Agent /\ doing.at = "reporting" /\ doing.job = agent[r].job
        /\ doing.code = agent[r].code /\ doing.tries \in 0..(ReportTries - 1)
    BY <1>0, <1>1 DEF Agent
  <2>3. doing.code \in ExitCodes /\ Sent(r, doing.code, said'[doing.job])
    BY <1>0, <2>2 DEF InHand
  <2> HIDE DEF doing
  <2> QED
    BY <1>0, <2>1, <2>2, <2>3, ThreadMoves
<1>2. CASE ~(agent[r].tries + 1 < ReportTries)
  <2>1. Become(r, Idle) /\ Idle \in Agent /\ Idle.at = "idle"
    BY <1>2, DoingInHand DEF TryAgain, Idle, Stages
  <2> QED
    BY <1>0, <2>1, ThreadMoves
<1> QED
  BY <1>1, <1>2

-----------------------------------------------------------------------------
\* The steps of the main thread.
LEMMA MainStepInv ==
    ASSUME ThreadInv, NEW r \in Runners, MainStep(r)
    PROVE  ThreadInv'
<1> USE DEF network, history
<1>0. /\ agent[r] \in Agent /\ InHand(r) /\ orphans \subseteq Runners /\ beaten \subseteq Runners
      /\ said \in [Jobs -> SUBSET (Runners \X ExitCodes \X Taken)] /\ runs \in [Jobs -> Nat]
      /\ \A m \in late : Announced(m)
  BY DEF ThreadInv
<1>1. ASSUME NEW j \in Jobs, PollClaim(r, j) PROVE ThreadInv'
  <2>1. CASE UNCHANGED agent
    BY <1>0, <1>1, <2>1, ThreadFrame DEF PollClaim
  <2>2. CASE Become(r, Doing("got", j, Null))
    <3>1. \A m \in late' : Announced(m)'
      BY <1>1, StillAnnounced DEF PollClaim
    <3>2. /\ Doing("got", j, Null) \in Agent /\ Doing("got", j, Null).at = "got"
          /\ Doing("got", j, Null).job = j
      BY DoingInHand DEF Stages
    <3> QED
      BY <1>0, <1>1, <2>2, <3>1, <3>2, ThreadMoves DEF PollClaim
  <2> QED
    BY <1>1, <2>1, <2>2 DEF PollClaim
<1>2. CASE PollEmpty(r)
  BY <1>0, <1>2, ThreadFrame DEF PollEmpty
<1>3. CASE PollDropped(r)
  <2>1. orphans' \subseteq Runners
    BY <1>0, <1>3 DEF PollDropped
  <2> QED
    BY <1>0, <1>3, <2>1, ThreadFrame DEF PollDropped
<1>4. ASSUME NEW e \in ExitCodes, Busy(r), Announce(r, e),
             Become(r, Doing("reporting", agent[r].job, e)), UNCHANGED <<network, beaten, runs>>
      PROVE  ThreadInv'
  <2>1. /\ said' \in [Jobs -> SUBSET (Runners \X ExitCodes \X Taken)]
        /\ \A j \in Jobs : said[j] \subseteq said'[j]
        /\ agent[r].job \in Jobs /\ Sent(r, e, said'[agent[r].job])
    BY <1>4, AnnounceAdds
  <2>2. \A m \in late' : Announced(m)'
    BY <1>4, <2>1, StillAnnounced
  <2> DEFINE doing == Doing("reporting", agent[r].job, e)
  <2>3. /\ doing \in Agent /\ doing.at = "reporting" /\ doing.job = agent[r].job
        /\ doing.code = e /\ doing.tries \in 0..(ReportTries - 1)
    BY <2>1, DoingInHand DEF Stages
  <2>4. runs' \in [Jobs -> Nat] /\ orphans' \subseteq Runners /\ beaten' \subseteq Runners
    BY <1>0, <1>4
  <2> HIDE DEF doing
  <2>5. Become(r, doing)
    BY <1>4 DEF doing
  <2> QED
    BY <2>1, <2>2, <2>3, <2>4, <2>5, ThreadMoves
<1>5. CASE Refuse(r)
  BY <1>4, <1>5 DEF Refuse, Busy, ExitCodes
<1>6. CASE NoSuite(r)
  BY <1>4, <1>6 DEF NoSuite, Busy, ExitCodes
<1>7. CASE Begin(r)
  <2>1. agent[r].job \in Jobs
    BY <1>0, <1>7 DEF Begin, InHand, Busy
  <2>2. \A m \in late' : Announced(m)'
    BY <1>7, StillAnnounced DEF Begin
  <2>3. runs' \in [Jobs -> Nat]
    BY <1>0, <1>7, <2>1 DEF Begin
  <2> DEFINE doing == Doing("running", agent[r].job, Null)
  <2>4. doing \in Agent /\ doing.at = "running" /\ doing.job = agent[r].job
    BY <2>1, DoingInHand DEF Stages
  <2>5. Become(r, doing) /\ UNCHANGED <<said, orphans, beaten>>
    BY <1>7 DEF Begin
  <2> HIDE DEF doing
  <2> QED
    BY <1>0, <2>1, <2>2, <2>3, <2>4, <2>5, ThreadMoves
<1>8. ASSUME NEW e \in SuiteCodes, SuiteEnds(r, e) PROVE ThreadInv'
  BY <1>4, <1>8 DEF SuiteEnds, Busy, ExitCodes
<1>9. CASE Report(r)
  <2>1. /\ agent[r].at = "reporting" /\ agent[r].job \in Jobs /\ agent[r].code \in ExitCodes
        /\ Sent(r, agent[r].code, said[agent[r].job])
        /\ UNCHANGED <<orphans, beaten, runs, said>>
    BY <1>0, <1>9 DEF Report, InHand, Busy
  <2>2. \A m \in late' : Announced(m)'
    <3>1. late' \subseteq late \cup {<<r, agent[r].job, agent[r].code>>}
      BY <1>9 DEF Report
    <3>2. Announced(<<r, agent[r].job, agent[r].code>>)
      BY <2>1 DEF Announced
    <3> QED
      BY <1>0, <2>1, <3>1, <3>2 DEF Announced
  <2>3. CASE TryAgain(r)
    BY <1>0, <2>1, <2>2, <2>3, TryAgainInv
  <2>4. CASE Become(r, Idle)
    <3>1. Idle \in Agent /\ Idle.at = "idle"
      BY DoingInHand DEF Idle, Stages
    <3> QED
      BY <1>0, <2>1, <2>2, <2>4, <3>1, ThreadMoves
  <2> QED
    BY <1>9, <2>3, <2>4 DEF Report
<1> QED
  BY <1>1, <1>2, <1>3, <1>5, <1>6, <1>7, <1>8, <1>9 DEF MainStep

\* Everybody else's.
LEMMA ThreadNext == ThreadInv /\ [Next]_vars => ThreadInv'
<1> SUFFICES ASSUME ThreadInv, [Next]_vars PROVE ThreadInv'
  OBVIOUS
<1> USE DEF network, history, store
<1>0. orphans \subseteq Runners /\ beaten \subseteq Runners
  BY DEF ThreadInv
<1>1. ASSUME NEW j \in Jobs, NEW s \in Servers, SlackCommand(j, s) PROVE ThreadInv'
  BY <1>0, <1>1, ThreadFrame DEF SlackCommand
<1>2. ASSUME NEW r \in Runners, MainStep(r) PROVE ThreadInv'
  BY <1>2, MainStepInv
<1>3. ASSUME NEW r \in Runners, OrphanStep(r) PROVE ThreadInv'
  <2>1. orphans' \subseteq orphans /\ UNCHANGED <<agent, late, beaten, runs, said>>
    BY <1>3 DEF OrphanStep, OrphanEmpty, OrphanClaim
  <2> QED
    BY <1>0, <2>1, ThreadFrame
<1>4. ASSUME NEW r \in Runners, Heartbeat(r) PROVE ThreadInv'
  BY <1>0, <1>4, ThreadFrame DEF Heartbeat
<1>5. ASSUME NEW r \in Runners, Crash(r) \/ Restart(r) PROVE ThreadInv'
  <2>1. PICK doing \in Agent : Become(r, doing) /\ doing.at \in {"off", "idle"}
    BY <1>5, DoingInHand DEF Crash, Restart, Idle, Stages
  <2>2. orphans' \subseteq Runners /\ UNCHANGED <<late, beaten, runs, said>>
    BY <1>0, <1>5 DEF Crash, Restart
  <2>3. \A m \in late' : Announced(m)'
    BY <2>2, StillAnnounced
  <2>4. /\ said' \in [Jobs -> SUBSET (Runners \X ExitCodes \X Taken)] /\ runs' \in [Jobs -> Nat]
        /\ \A j \in Jobs : said[j] \subseteq said'[j]
    BY <2>2 DEF ThreadInv
  <2> QED
    BY <1>0, <2>1, <2>2, <2>3, <2>4, ThreadMoves
<1>6. ASSUME NEW r \in Runners, NEW j \in Jobs, NEW e \in ExitCodes, LateResult(r, j, e)
      PROVE  ThreadInv'
  BY <1>0, <1>6, ThreadFrame DEF LateResult
<1>7. CASE Tick
  BY <1>0, <1>7, ThreadFrame DEF Tick
<1>8. CASE EdgeRestart
  BY <1>0, <1>8, ThreadFrame DEF EdgeRestart
<1>9. CASE UNCHANGED vars
  BY <1>0, <1>9, ThreadFrame DEF vars
<1> QED
  BY <1>1, <1>2, <1>3, <1>4, <1>5, <1>6, <1>7, <1>8, <1>9 DEF Next

THEOREM ThreadsAreSound == Spec => []ThreadInv
BY ThreadInit, ThreadNext, PTL DEF Spec

-----------------------------------------------------------------------------
(***************************************************************************)
(* What the fleet does to the table, the store allows.                     *)
(***************************************************************************)

\* The handlers of /started and /result, called with anything.
LEMMA CallsAreStoreSteps ==
    ASSUME NEW r \in Runners, NEW j \in Jobs
    PROVE  /\ StartedCall(r, j) => Store!Next \/ UNCHANGED store
           /\ \A e \in ExitCodes : ResultCall(r, j, e) => Store!Next \/ UNCHANGED store
BY DEF StartedCall, ResultCall, Store!Next, Store!RunnerCall

LEMMA StepIsStoreStep ==
    ASSUME ThreadInv, [Next]_vars
    PROVE  Store!Next \/ UNCHANGED store
<1> DEFINE Step == Store!Next \/ UNCHANGED store
<1>1. ASSUME NEW r \in Runners, MainStep(r) PROVE Step
  <2>0. /\ Labels[r] \in SUBSET Servers
        /\ Busy(r) => agent[r].job \in Jobs
        /\ agent[r].at = "reporting" => agent[r].code \in ExitCodes
    BY DEF ThreadInv, InHand
  <2>1. ASSUME NEW j \in Jobs, PollClaim(r, j) PROVE Step
    BY <2>0, <2>1 DEF PollClaim, Store!Next, Store!RunnerCall
  <2>2. CASE PollEmpty(r)
    BY <2>0, <2>2 DEF PollEmpty, Store!Next
  <2>3. CASE PollDropped(r) \/ Refuse(r) \/ \E e \in SuiteCodes : SuiteEnds(r, e)
    BY <2>3 DEF PollDropped, Refuse, SuiteEnds
  <2>4. CASE NoSuite(r) \/ Begin(r)
    BY <2>0, <2>4, CallsAreStoreSteps DEF NoSuite, Begin, ReportsStart, Busy
  <2>5. CASE Report(r)
    BY <2>0, <2>5, CallsAreStoreSteps DEF Report, Busy
  <2> QED
    BY <1>1, <2>1, <2>2, <2>3, <2>4, <2>5 DEF MainStep
<1>2. ASSUME NEW r \in Runners, OrphanStep(r) PROVE Step
  BY <1>2 DEF OrphanStep, OrphanEmpty, OrphanClaim, Store!Next, Store!RunnerCall
<1>3. ASSUME NEW r \in Runners, Heartbeat(r) \/ Crash(r) \/ Restart(r) PROVE Step
  BY <1>3 DEF Heartbeat, Crash, Restart, Store!Next, Store!RunnerCall
<1>4. ASSUME NEW r \in Runners, NEW j \in Jobs, NEW e \in ExitCodes, LateResult(r, j, e)
      PROVE  Step
  BY <1>4, CallsAreStoreSteps DEF LateResult
<1>5. CASE \E j \in Jobs, s \in Servers : SlackCommand(j, s)
  BY <1>5 DEF SlackCommand, Store!Next
<1>6. CASE Tick \/ EdgeRestart \/ UNCHANGED vars
  BY <1>6 DEF Tick, EdgeRestart, vars, store, Store!Next
<1> QED
  BY <1>1, <1>2, <1>3, <1>4, <1>5, <1>6 DEF Next

\* Whatever crashes, is lost or comes late, every step of the fleet is one of JobStore
\* on the job table or leaves it alone (the handlers of app.py call nothing else).
THEOREM FleetImplementsStore == Spec => ImplementsStore
<1>1. Init => Store!Init
  BY DEF Init
<1>2. ThreadInv /\ [Next]_vars => [Store!Next]_(Store!vars)
  BY StepIsStoreStep DEF store, Store!vars
<1> QED
  BY <1>1, <1>2, ThreadsAreSound, PTL DEF Spec, ImplementsStore, Store!Spec

-----------------------------------------------------------------------------
(***************************************************************************)
(* The invariants of the store are therefore true of the fleet's table.    *)
(***************************************************************************)
Queue == INSTANCE JobStoreProofs

\* JobStoreProofs speaks of the store under a name of its own.
LEMMA QueueIsStore ==
    /\ Store!Init <=> Queue!Init
    /\ [Store!Next]_(Store!vars) <=> [Queue!Next]_(Queue!vars)
    /\ Store!TypeOK <=> Queue!TypeOK
    /\ Store!HeldRowsAreLeased <=> Queue!HeldRowsAreLeased
    /\ Store!AttemptsBounded <=> Queue!AttemptsBounded
    /\ Store!NoOvertaking <=> Queue!NoOvertaking
<1>1. Store!Init <=> Queue!Init
  BY DEF Store!Init, Queue!Init, Store!NoRow, Queue!NoRow
<1>2. [Store!Next]_(Store!vars) <=> [Queue!Next]_(Queue!vars)
  BY DEF Store!Next, Queue!Next, Store!RunnerCall, Queue!RunnerCall, Store!Enqueue,
         Queue!Enqueue, Store!Claim, Queue!Claim, Store!ClaimNothing, Queue!ClaimNothing,
         Store!MarkRunning, Queue!MarkRunning, Store!Finish, Queue!Finish, Store!Renew,
         Queue!Renew, Store!Reap, Queue!Reap, Store!Tick, Queue!Tick, Store!Holds,
         Queue!Holds, Store!HoldsClaimed, Queue!HoldsClaimed, Store!NewRow, Queue!NewRow,
         Store!NoRow, Queue!NoRow, Store!Oldest, Queue!Oldest, Store!Eligible,
         Queue!Eligible, Store!Leased, Queue!Leased, Store!ReapedJobs, Queue!ReapedJobs,
         Store!Reaped, Queue!Reaped, Store!Requeued, Queue!Requeued, Store!Abandoned,
         Queue!Abandoned, Store!Expired, Queue!Expired, Store!Held, Queue!Held, Store!vars,
         Queue!vars
<1>3. /\ Store!TypeOK <=> Queue!TypeOK
      /\ Store!HeldRowsAreLeased <=> Queue!HeldRowsAreLeased
      /\ Store!AttemptsBounded <=> Queue!AttemptsBounded
      /\ Store!NoOvertaking <=> Queue!NoOvertaking
  BY DEF Store!TypeOK, Queue!TypeOK, Store!Row, Queue!Row, Store!States, Queue!States,
         Store!Held, Queue!Held, Store!Terminal, Queue!Terminal, Store!AttemptsBounded,
         Queue!AttemptsBounded, Store!AttemptLimit, Queue!AttemptLimit,
         Store!HeldRowsAreLeased, Queue!HeldRowsAreLeased, Store!HeldRowIsLeased,
         Queue!HeldRowIsLeased, Store!NoOvertaking, Queue!NoOvertaking
<1> QED
  BY <1>1, <1>2, <1>3

\* In the fleet too every row is well formed, held exactly while it is leased, handed
\* out at most as often as allowed, and first handed out in the order it came in.
TableInv == /\ Store!TypeOK
            /\ Store!HeldRowsAreLeased
            /\ Store!AttemptsBounded
            /\ Store!NoOvertaking

THEOREM TableIsSound == Spec => []TableInv
<1>1. /\ Queue!NullIsNoValue /\ Queue!ExitCodesAreIntegers
      /\ Queue!MaxAttemptsIsInteger /\ Queue!LeaseIsDuration
  BY DEF Queue!NullIsNoValue, Queue!ExitCodesAreIntegers, Queue!MaxAttemptsIsInteger,
         Queue!LeaseIsDuration, ExitCodes
<1>2. Queue!Spec => [](/\ Queue!TypeOK /\ Queue!HeldRowsAreLeased
                       /\ Queue!AttemptsBounded /\ Queue!NoOvertaking)
  BY <1>1, Queue!TypeCorrect, Queue!HeldAreLeased, Queue!AttemptsAreBounded,
     Queue!NobodyOvertakes, PTL
<1> QED
  BY <1>2, QueueIsStore, FleetImplementsStore, PTL
     DEF ImplementsStore, Store!Spec, Queue!Spec, TableInv

\* What the store promises of its rows from step to step, and the contract it keeps, are
\* promises of the fleet as well.
LEMMA QueueMovesAsStore ==
    /\ [\A j \in Jobs : Queue!LiveLeaseKept(jobs[j], jobs'[j])]_(Queue!vars)
           <=> [\A j \in Jobs : Store!LiveLeaseKept(jobs[j], jobs'[j])]_(Store!vars)
    /\ [\A j \in Jobs : Queue!RecordKept(jobs[j], jobs'[j])]_(Queue!vars)
           <=> [\A j \in Jobs : Store!RecordKept(jobs[j], jobs'[j])]_(Store!vars)
BY DEF Queue!LiveLeaseKept, Store!LiveLeaseKept, Queue!RecordKept, Store!RecordKept,
       Queue!Terminal, Store!Terminal, Queue!Held, Store!Held, Queue!vars, Store!vars

LEMMA QueueIsServed ==
    Spec => Queue!LiveLeaseNotStolen /\ Queue!TerminalRowsAreFinal /\ Queue!ImplementsContract
<1>1. /\ Queue!NullIsNoValue /\ Queue!ExitCodesAreIntegers
      /\ Queue!MaxAttemptsIsInteger /\ Queue!LeaseIsDuration
  BY DEF Queue!NullIsNoValue, Queue!ExitCodesAreIntegers, Queue!MaxAttemptsIsInteger,
         Queue!LeaseIsDuration, ExitCodes
<1>2. /\ Queue!Spec => Queue!LiveLeaseNotStolen
      /\ Queue!Spec => Queue!TerminalRowsAreFinal
      /\ Queue!Spec => Queue!ImplementsContract
  BY <1>1, Queue!LiveLeaseIsNotStolen, Queue!TerminalRowsStay, Queue!StoreImplementsContract
<1> QED
  BY <1>2, QueueIsStore, FleetImplementsStore, PTL DEF ImplementsStore, Store!Spec, Queue!Spec

\* Whatever fails, the edge takes a job from the test server that has it only when the
\* lease of that one has run out (claim, _reap).
THEOREM FleetRespectsLeases == Spec => Store!LiveLeaseNotStolen
BY QueueIsServed, QueueMovesAsStore, PTL DEF Queue!LiveLeaseNotStolen, Store!LiveLeaseNotStolen

\* Nor is an outcome that the edge recorded ever altered, by a result that is repeated,
\* late, or of a test server that lost the job (finish, _safe_result).
THEOREM FleetRecordsAreFinal == Spec => Store!TerminalRowsAreFinal
BY QueueIsServed, QueueMovesAsStore, PTL DEF Queue!TerminalRowsAreFinal, Store!TerminalRowsAreFinal

\* With every fault at once the fleet keeps the contract of a reliable queue: a job has
\* one owner at most, is given out as often as allowed, and is closed once.
THEOREM FleetKeepsContract == Spec => Store!ImplementsContract
<1> USE DEF Store!EntryOf, Queue!EntryOf, Store!PhaseOf, Queue!PhaseOf, Store!Held, Queue!Held,
        Store!Promise!Entry, Queue!Promise!Entry
<1>1. Store!Promise!Init <=> Queue!Promise!Init
  BY DEF Store!Promise!Init, Queue!Promise!Init, Store!Promise!Blank, Queue!Promise!Blank
<1>2. [Store!Promise!Next]_[j \in Jobs |-> Store!EntryOf(jobs[j])]
          <=> [Queue!Promise!Next]_[j \in Jobs |-> Queue!EntryOf(jobs[j])]
  BY DEF Store!AttemptLimit, Queue!AttemptLimit, Store!Promise!Next, Queue!Promise!Next,
         Store!Promise!Submit, Queue!Promise!Submit, Store!Promise!Complete,
         Queue!Promise!Complete, Store!Promise!Recover, Queue!Promise!Recover,
         Store!Promise!Assign, Queue!Promise!Assign, Store!Promise!Assigned,
         Queue!Promise!Assigned, Store!Promise!After, Queue!Promise!After,
         Store!Promise!Recovered, Queue!Promise!Recovered
<1> QED
  BY QueueIsServed, <1>1, <1>2, PTL DEF Queue!ImplementsContract, Store!ImplementsContract,
     Store!Promise!Spec, Queue!Promise!Spec

\* The main threads, the messages and the table are always what Fleet says they can be.
THEOREM FleetTypeCorrect == Spec => []TypeOK
<1>1. ThreadInv /\ TableInv => TypeOK
  BY DEF ThreadInv, TableInv, TypeOK, Announced
<1> QED
  BY <1>1, ThreadsAreSound, TableIsSound, PTL

-----------------------------------------------------------------------------
(***************************************************************************)
(* The record and the channel agree.                                       *)
(***************************************************************************)
Concluded(row) == row.state \in {"done", "failed"}

\* Nothing but a result concludes a row or rewrites a concluded one's runner and exit.
LEMMA OnlyResultsConclude ==
    ASSUME Store!TypeOK, NEW j \in Jobs,
           \/ \E i \in Jobs, s \in Servers : Store!Enqueue(i, s)
           \/ \E i \in Jobs, r \in Runners, labels \in SUBSET Servers : Store!Claim(r, labels, i)
           \/ \E labels \in SUBSET Servers : Store!ClaimNothing(labels)
           \/ \E i \in Jobs, r \in Runners : Store!MarkRunning(r, i)
           \/ \E r \in Runners : Store!Renew(r)
           \/ Store!Tick
           \/ UNCHANGED store,
           Concluded(jobs'[j])
    PROVE  /\ Concluded(jobs[j])
           /\ jobs'[j].runner = jobs[j].runner
           /\ jobs'[j].exit = jobs[j].exit
<1> DEFINE Kept == /\ Concluded(jobs[j])
                   /\ jobs'[j].runner = jobs[j].runner
                   /\ jobs'[j].exit = jobs[j].exit
<1> USE DEF Concluded
<1>0. jobs \in [Jobs -> Store!Row] /\ jobs[j] \in Store!Row
  BY DEF Store!TypeOK
<1>1. Store!ReapedJobs[j] = Store!Reaped(jobs[j])
  BY DEF Store!ReapedJobs
<1>2. Concluded(Store!Reaped(jobs[j])) => Store!Reaped(jobs[j]) = jobs[j]
  BY <1>0 DEF Store!Reaped, Store!Requeued, Store!Abandoned, Store!Row
<1>3. ASSUME NEW i \in Jobs, NEW s \in Servers, Store!Enqueue(i, s) PROVE Kept
  BY <1>0, <1>3 DEF Store!Enqueue, Store!NewRow
<1>4. ASSUME NEW i \in Jobs, NEW r \in Runners, NEW labels \in SUBSET Servers,
             Store!Claim(r, labels, i)
      PROVE  Kept
  <2>1. jobs' = [Store!ReapedJobs EXCEPT ![i] = Store!Leased(@, r)]
    BY <1>4 DEF Store!Claim
  <2>2. Store!ReapedJobs = [k \in Jobs |-> Store!Reaped(jobs[k])]
    BY DEF Store!ReapedJobs
  <2>3. CASE i # j
    <3>1. jobs'[j] = Store!Reaped(jobs[j])
      BY <2>1, <2>2, <2>3
    <3> QED
      BY <1>2, <3>1
  <2>4. CASE i = j
    <3>1. Store!Reaped(jobs[j]) \in Store!Row
      BY <1>0 DEF Store!Reaped, Store!Requeued, Store!Abandoned, Store!Row, Store!States,
                  Store!Terminal
    <3>2. jobs'[j] = Store!Leased(Store!Reaped(jobs[j]), r)
      BY <2>1, <2>2, <2>4
    <3>3. jobs'[j].state = "claimed"
      BY <3>1, <3>2 DEF Store!Leased, Store!Row
    <3> QED
      BY <3>3
  <2> QED
    BY <2>3, <2>4
<1>5. ASSUME NEW labels \in SUBSET Servers, Store!ClaimNothing(labels) PROVE Kept
  BY <1>1, <1>2, <1>5 DEF Store!ClaimNothing
<1>6. ASSUME NEW i \in Jobs, NEW r \in Runners, Store!MarkRunning(r, i) PROVE Kept
  BY <1>0, <1>6 DEF Store!MarkRunning, Store!Row
<1>7. ASSUME NEW r \in Runners, Store!Renew(r) PROVE Kept
  BY <1>0, <1>7 DEF Store!Renew, Store!Row
<1>8. CASE Store!Tick
  BY <1>0, <1>8 DEF Store!Tick, Store!Row
<1>9. CASE UNCHANGED store
  BY <1>9 DEF store
<1> QED
  BY <1>3, <1>4, <1>5, <1>6, <1>7, <1>8, <1>9

\* A result concludes the row of its sender, with the exit code it carries.
LEMMA ResultsConclude ==
    ASSUME Store!TypeOK, NEW r \in Runners, NEW i \in Jobs, NEW e \in ExitCodes,
           Store!Finish(r, i, e), NEW j \in Jobs
    PROVE  \/ j = i /\ jobs'[j].runner = r /\ jobs'[j].exit = e
           \/ j # i /\ jobs'[j] = jobs[j]
BY DEF Store!TypeOK, Store!Finish, Store!Holds, Store!Row

\* A step of the fleet adds to the channel and does one of two things to the table.
Unreported == \/ \E i \in Jobs, s \in Servers : Store!Enqueue(i, s)
              \/ \E i \in Jobs, r \in Runners, labels \in SUBSET Servers : Store!Claim(r, labels, i)
              \/ \E labels \in SUBSET Servers : Store!ClaimNothing(labels)
              \/ \E i \in Jobs, r \in Runners : Store!MarkRunning(r, i)
              \/ \E r \in Runners : Store!Renew(r)
              \/ Store!Tick
              \/ UNCHANGED store

Reported == \E r \in Runners, i \in Jobs, e \in ExitCodes :
                Store!Finish(r, i, e) /\ Sent(r, e, said[i])

LEMMA StepReports ==
    ASSUME ThreadInv, [Next]_vars
    PROVE  /\ \A j \in Jobs : said[j] \subseteq said'[j]
           /\ Unreported \/ Reported
<1> DEFINE Grows == \A j \in Jobs : said[j] \subseteq said'[j]
           Step == Grows /\ (Unreported \/ Reported)
<1> USE DEF history, network
<1>0. ASSUME NEW r \in Runners, NEW j \in Jobs
      PROVE  /\ StartedCall(r, j) => Unreported
             /\ \A e \in ExitCodes :
                    ResultCall(r, j, e) /\ Sent(r, e, said[j]) => Unreported \/ Reported
  BY DEF StartedCall, ResultCall, Unreported, Reported
<1>1. ASSUME NEW r \in Runners, MainStep(r) PROVE Step
  <2>0. /\ Labels[r] \in SUBSET Servers /\ InHand(r)
        /\ Busy(r) => agent[r].job \in Jobs
    BY DEF ThreadInv, InHand
  <2>1. ASSUME NEW j \in Jobs, PollClaim(r, j) PROVE Step
    BY <2>0, <2>1 DEF PollClaim, Unreported
  <2>2. CASE PollEmpty(r)
    BY <2>0, <2>2 DEF PollEmpty, Unreported
  <2>3. CASE PollDropped(r)
    BY <2>3 DEF PollDropped, Unreported
  <2>4. ASSUME NEW e \in ExitCodes, Busy(r), Announce(r, e) PROVE Grows
    BY <2>4, AnnounceAdds
  <2>5. CASE Refuse(r)
    BY <2>4, <2>5 DEF Refuse, Busy, ExitCodes, Unreported
  <2>6. CASE NoSuite(r)
    <3>1. Grows
      BY <2>4, <2>6 DEF NoSuite, Busy, ExitCodes
    <3>2. StartedCall(r, agent[r].job) \/ UNCHANGED store
      BY <2>6 DEF NoSuite, ReportsStart
    <3> QED
      BY <1>0, <2>0, <2>6, <3>1, <3>2 DEF NoSuite, Busy, Unreported
  <2>7. CASE Begin(r)
    <3>1. StartedCall(r, agent[r].job) \/ UNCHANGED store
      BY <2>7 DEF Begin, ReportsStart
    <3> QED
      BY <1>0, <2>0, <2>7, <3>1 DEF Begin, Busy, Unreported
  <2>8. ASSUME NEW e \in SuiteCodes, SuiteEnds(r, e) PROVE Step
    BY <2>4, <2>8 DEF SuiteEnds, Busy, ExitCodes, Unreported
  <2>9. CASE Report(r)
    <3>1. /\ agent[r].job \in Jobs /\ agent[r].code \in ExitCodes
          /\ Sent(r, agent[r].code, said[agent[r].job]) /\ said' = said
      BY <2>0, <2>9 DEF Report, InHand, Busy
    <3>2. ResultCall(r, agent[r].job, agent[r].code) \/ UNCHANGED store
      BY <2>9 DEF Report
    <3> QED
      BY <1>0, <3>1, <3>2 DEF Unreported
  <2> QED
    BY <1>1, <2>1, <2>2, <2>3, <2>5, <2>6, <2>7, <2>8, <2>9 DEF MainStep
<1>2. ASSUME NEW r \in Runners, OrphanStep(r) PROVE Step
  BY <1>2 DEF OrphanStep, OrphanEmpty, OrphanClaim, Unreported
<1>3. ASSUME NEW r \in Runners, Heartbeat(r) \/ Crash(r) \/ Restart(r) PROVE Step
  BY <1>3 DEF Heartbeat, Crash, Restart, Unreported
<1>4. ASSUME NEW r \in Runners, NEW j \in Jobs, NEW e \in ExitCodes, LateResult(r, j, e)
      PROVE  Step
  <2>1. Announced(<<r, j, e>>)
    BY <1>4 DEF ThreadInv, LateResult
  <2>2. Sent(r, e, said[j]) /\ said' = said
    BY <1>4, <2>1 DEF Announced, LateResult
  <2> QED
    BY <1>0, <1>4, <2>2 DEF LateResult
<1>5. CASE \E j \in Jobs, s \in Servers : SlackCommand(j, s)
  BY <1>5 DEF SlackCommand, Unreported
<1>6. CASE Tick \/ EdgeRestart \/ UNCHANGED vars
  BY <1>6 DEF Tick, EdgeRestart, vars, store, Unreported
<1> QED
  BY <1>1, <1>2, <1>3, <1>4, <1>5, <1>6 DEF Next

\* The statement, with the message of each concluded row as one that was sent.
LEMMA ConcludedWereSent ==
    RecordMatchesAnnouncement
        <=> \A j \in Jobs : Concluded(jobs[j]) => Sent(jobs[j].runner, jobs[j].exit, said[j])
BY DEF RecordMatchesAnnouncement, Concluded, Sent

LEMMA RecordNext ==
    ASSUME ThreadInv, Store!TypeOK, RecordMatchesAnnouncement, [Next]_vars
    PROVE  RecordMatchesAnnouncement'
<1> SUFFICES ASSUME NEW j \in Jobs, Concluded(jobs'[j])
             PROVE  Sent(jobs'[j].runner, jobs'[j].exit, said'[j])
  BY DEF RecordMatchesAnnouncement, Concluded, Sent
<1>1. said[j] \subseteq said'[j]
  BY StepReports
<1>2. CASE Unreported
  <2>1. /\ Concluded(jobs[j])
        /\ jobs'[j].runner = jobs[j].runner /\ jobs'[j].exit = jobs[j].exit
    BY <1>2, OnlyResultsConclude DEF Unreported
  <2>2. Sent(jobs[j].runner, jobs[j].exit, said[j])
    BY <2>1, ConcludedWereSent
  <2> QED
    BY <1>1, <2>1, <2>2, SentStays
<1>3. CASE Reported
  <2>1. PICK r \in Runners, i \in Jobs, e \in ExitCodes :
            Store!Finish(r, i, e) /\ Sent(r, e, said[i])
    BY <1>3 DEF Reported
  <2>2. CASE j = i
    <3>1. jobs'[j].runner = r /\ jobs'[j].exit = e
      BY <2>1, <2>2, ResultsConclude
    <3> QED
      BY <1>1, <2>1, <2>2, <3>1, SentStays
  <2>3. CASE j # i
    <3>1. jobs'[j] = jobs[j]
      BY <2>1, <2>3, ResultsConclude
    <3>2. Sent(jobs[j].runner, jobs[j].exit, said[j])
      BY <3>1, ConcludedWereSent
    <3> QED
      BY <1>1, <3>1, <3>2, SentStays
  <2> QED
    BY <2>2, <2>3
<1> QED
  BY <1>2, <1>3, StepReports

\* Whatever is lost, repeated or late, the outcome the edge records for a job is one
\* that the test server it names had sent to Slack for that job before, whether Slack
\* took the message or refused it (finish, execute, _call).
THEOREM RecordsWereAnnounced == Spec => []RecordMatchesAnnouncement
<1>1. Init => RecordMatchesAnnouncement
  BY DEF Init, Store!Init, Store!NoRow, RecordMatchesAnnouncement
<1>2. ThreadInv /\ TableInv /\ RecordMatchesAnnouncement /\ [Next]_vars
          => RecordMatchesAnnouncement'
  BY RecordNext DEF TableInv
<1> QED
  BY <1>1, <1>2, ThreadsAreSound, TableIsSound, PTL DEF Spec
=============================================================================
