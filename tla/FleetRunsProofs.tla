-------------------------- MODULE FleetRunsProofs ---------------------------
(***************************************************************************)
(* Proofs about Fleet: how often a suite is run, by whom, and when.  They  *)
(* follow a job between the table and the main threads, for any number of  *)
(* jobs and test servers.                                                  *)
(***************************************************************************)
EXTENDS FleetProofs, FiniteSets, FiniteSetTheorems

USE NullIsNothing, CodesAreIntegers, LimitsAreIntegers, LabelsAreServers

-----------------------------------------------------------------------------
(***************************************************************************)
(* What the statements of the store do to one row.                         *)
(***************************************************************************)
UsedIfKnown(row) == row.state = "absent" => row.attempts = 0

LEMMA ReapedRow ==
    ASSUME NEW row \in Store!Row, Store!HeldRowIsLeased(row)
    PROVE  /\ Store!Reaped(row) \in Store!Row
           /\ Store!Reaped(row).attempts = row.attempts
           /\ Store!Reaped(row).state = "absent" => row.state = "absent"
           /\ row.state \in Store!Held /\ row.lease >= 0 => Store!Reaped(row) = row
           /\ Store!Reaped(row).state \in Store!Held => Store!Reaped(row) = row
<1>1. CASE Store!Expired(row)
  <2>1. ~(row.lease >= 0) /\ row.state # "absent"
    BY <1>1 DEF Store!Expired, Store!Row, Store!Held
  <2>2. Store!Reaped(row) \in {Store!Requeued(row), Store!Abandoned(row)}
    BY <1>1 DEF Store!Reaped
  <2>3. \A new \in {Store!Requeued(row), Store!Abandoned(row)} :
            /\ new \in Store!Row /\ new.attempts = row.attempts
            /\ new.state \in {"queued", "abandoned"}
    BY DEF Store!Requeued, Store!Abandoned, Store!Row, Store!States, Store!Terminal
  <2> QED
    BY <2>1, <2>2, <2>3 DEF Store!Held
<1>2. CASE ~Store!Expired(row)
  BY <1>2 DEF Store!Reaped
<1> QED
  BY <1>1, <1>2

\* The statements that neither hand out nor conclude.
Quiet == \/ \E i \in Jobs, s \in Servers : Store!Enqueue(i, s)
         \/ \E labels \in SUBSET Servers : Store!ClaimNothing(labels)
         \/ \E i \in Jobs, q \in Runners : Store!MarkRunning(q, i)
         \/ \E q \in Runners : Store!Renew(q)
         \/ UNCHANGED store

Counted(j) == jobs'[j].attempts >= jobs[j].attempts /\ UsedIfKnown(jobs'[j])

HoldKept(r, j) == /\ Store!Holds(r, j)' => Store!Holds(r, j)
                  /\ Store!Holds(r, j) /\ jobs[j].lease >= 0 =>
                         Store!Holds(r, j)' /\ jobs'[j].lease >= jobs[j].lease

RowKept(j) == Counted(j) /\ \A r \in Runners : HoldKept(r, j)

LEMMA QuietRow ==
    ASSUME Store!TypeOK, Store!HeldRowsAreLeased, Quiet,
           NEW j \in Jobs, UsedIfKnown(jobs[j])
    PROVE  RowKept(j)
<1> USE DEF RowKept, Counted, HoldKept, UsedIfKnown, Store!Holds
<1>0. /\ jobs \in [Jobs -> Store!Row] /\ jobs[j] \in Store!Row
      /\ Store!HeldRowIsLeased(jobs[j]) /\ jobs[j].attempts \in Nat
      /\ jobs[j].state \in Store!Held => jobs[j].lease \in -1..LeaseTicks
  BY DEF Store!TypeOK, Store!HeldRowsAreLeased, Store!HeldRowIsLeased, Store!Row
<1>1. ASSUME jobs'[j] = jobs[j] PROVE RowKept(j)
  BY <1>0, <1>1 DEF Store!Held
<1>2. ASSUME NEW i \in Jobs, NEW s \in Servers, Store!Enqueue(i, s) PROVE RowKept(j)
  <2>1. CASE i = j
    BY <1>0, <1>2, <2>1 DEF Store!Enqueue, Store!NewRow, Store!Held
  <2>2. CASE i # j
    BY <1>0, <1>1, <1>2, <2>2 DEF Store!Enqueue
  <2> QED
    BY <2>1, <2>2
<1>3. ASSUME NEW labels \in SUBSET Servers, Store!ClaimNothing(labels) PROVE RowKept(j)
  <2>1. jobs'[j] = Store!Reaped(jobs[j])
    BY <1>3 DEF Store!ClaimNothing, Store!ReapedJobs
  <2> QED
    BY <1>0, <2>1, ReapedRow DEF Store!Held
<1>4. ASSUME NEW i \in Jobs, NEW q \in Runners, Store!MarkRunning(q, i) PROVE RowKept(j)
  <2>1. CASE i = j
    BY <1>0, <1>4, <2>1 DEF Store!MarkRunning, Store!HoldsClaimed, Store!Row, Store!Held
  <2>2. CASE i # j
    BY <1>0, <1>1, <1>4, <2>2 DEF Store!MarkRunning
  <2> QED
    BY <2>1, <2>2
<1>5. ASSUME NEW q \in Runners, Store!Renew(q) PROVE RowKept(j)
  <2>1. CASE Store!Holds(q, j)
    BY <1>0, <1>5, <2>1 DEF Store!Renew, Store!Row, Store!Held
  <2>2. CASE ~Store!Holds(q, j)
    BY <1>0, <1>1, <1>5, <2>2 DEF Store!Renew
  <2> QED
    BY <2>1, <2>2
<1>6. CASE UNCHANGED store
  BY <1>1, <1>6 DEF store
<1> QED
  BY <1>2, <1>3, <1>4, <1>5, <1>6 DEF Quiet

\* A claim spares what is held on a lease, and hands out one row.
LEMMA ClaimRow ==
    ASSUME Store!TypeOK, Store!HeldRowsAreLeased, NEW q \in Runners, NEW labels \in SUBSET Servers,
           NEW i \in Jobs, Store!Claim(q, labels, i),
           NEW j \in Jobs, UsedIfKnown(jobs[j])
    PROVE  /\ j # i => RowKept(j)
           /\ j = i => /\ jobs'[j].state = "claimed" /\ jobs'[j].runner = q
                       /\ jobs'[j].lease = LeaseTicks
                       /\ jobs'[j].attempts = jobs[j].attempts + 1
                       /\ \A r \in Runners : ~(Store!Holds(r, j) /\ jobs[j].lease >= 0)
<1>0. /\ jobs[j] \in Store!Row /\ Store!HeldRowIsLeased(jobs[j]) /\ jobs[j].attempts \in Nat
      /\ jobs[j].state \in Store!Held => jobs[j].lease \in -1..LeaseTicks
  BY DEF Store!TypeOK, Store!HeldRowsAreLeased, Store!HeldRowIsLeased, Store!Row
<1>1. /\ jobs' = [Store!ReapedJobs EXCEPT ![i] = Store!Leased(@, q)]
      /\ Store!ReapedJobs[i].state = "queued"
      /\ Store!ReapedJobs = [k \in Jobs |-> Store!Reaped(jobs[k])]
  BY DEF Store!Claim, Store!Oldest, Store!Eligible, Store!ReapedJobs
<1>2. ASSUME j # i PROVE RowKept(j)
  <2>1. jobs'[j] = Store!Reaped(jobs[j])
    BY <1>1, <1>2
  <2> QED
    BY <1>0, <2>1, ReapedRow DEF RowKept, Counted, HoldKept, UsedIfKnown, Store!Holds, Store!Held
<1>3. ASSUME j = i
      PROVE  /\ jobs'[j].state = "claimed" /\ jobs'[j].runner = q
             /\ jobs'[j].lease = LeaseTicks
             /\ jobs'[j].attempts = jobs[j].attempts + 1
             /\ \A r \in Runners : ~(Store!Holds(r, j) /\ jobs[j].lease >= 0)
  <2>1. jobs'[j] = Store!Leased(Store!Reaped(jobs[j]), q) /\ Store!Reaped(jobs[j]).state = "queued"
    BY <1>1, <1>3
  <2>2. Store!Reaped(jobs[j]) \in Store!Row /\ Store!Reaped(jobs[j]).attempts = jobs[j].attempts
    BY <1>0, ReapedRow
  <2>3. \A r \in Runners : ~(Store!Holds(r, j) /\ jobs[j].lease >= 0)
    BY <1>0, <2>1, ReapedRow DEF Store!Holds, Store!Held
  <2> QED
    BY <2>1, <2>2, <2>3 DEF Store!Leased, Store!Row
<1> QED
  BY <1>2, <1>3

\* A result concludes a row of its sender's; nobody holds it then.
LEMMA FinishRow ==
    ASSUME Store!TypeOK, NEW q \in Runners, NEW i \in Jobs, NEW e \in ExitCodes,
           Store!Finish(q, i, e), NEW j \in Jobs, UsedIfKnown(jobs[j])
    PROVE  /\ jobs'[j].attempts = jobs[j].attempts /\ UsedIfKnown(jobs'[j])
           /\ j # i => jobs'[j] = jobs[j]
           /\ Store!Holds(q, i)
           /\ j = i => \A r \in Runners : ~Store!Holds(r, j)'
BY DEF Store!TypeOK, Store!Finish, Store!Holds, Store!Row, Store!Held, UsedIfKnown

\* Time takes one tick of every lease.
LEMMA TickRow ==
    ASSUME Store!TypeOK, Store!HeldRowsAreLeased, Store!Tick, NEW j \in Jobs
    PROVE  /\ jobs'[j].attempts = jobs[j].attempts /\ jobs'[j].state = jobs[j].state
           /\ \A r \in Runners : Store!Holds(r, j)' <=> Store!Holds(r, j)
           /\ \A r \in Runners : Store!Holds(r, j) /\ jobs[j].lease >= 0 =>
                  jobs'[j].lease = jobs[j].lease - 1
<1>0. /\ jobs[j] \in Store!Row /\ Store!HeldRowIsLeased(jobs[j])
      /\ jobs[j].state \in Store!Held => jobs[j].lease \in -1..LeaseTicks
  BY DEF Store!TypeOK, Store!HeldRowsAreLeased, Store!HeldRowIsLeased, Store!Row
<1>1. CASE jobs[j].lease \notin {Null, -1}
  BY <1>0, <1>1 DEF Store!Tick, Store!Holds, Store!Row
<1>2. CASE jobs[j].lease \in {Null, -1}
  <2>1. jobs'[j] = jobs[j]
    BY <1>2 DEF Store!Tick
  <2>2. \A r \in Runners : Store!Holds(r, j) => ~(jobs[j].lease >= 0)
    BY <1>0, <1>2 DEF Store!Holds, Store!HeldRowIsLeased
  <2> QED
    BY <2>1, <2>2 DEF Store!Holds
<1> QED
  BY <1>1, <1>2

-----------------------------------------------------------------------------
(***************************************************************************)
(* What the steps of the fleet are to the table, with their authors.       *)
(***************************************************************************)
Claims(r, j) == PollClaim(r, j) \/ OrphanClaim(r, j)

\* A result that concludes its row is the last act of the test server, or a late one.
Concludes(r, j, e) == /\ Store!Finish(r, j, e)
                      /\ \/ Report(r) /\ agent[r].job = j
                         \/ LateResult(r, j, e)

StepKinds == \/ Quiet
             \/ Tick
             \/ \E r \in Runners, j \in Jobs : Claims(r, j)
             \/ \E r \in Runners, j \in Jobs, e \in ExitCodes : Concludes(r, j, e)

LEMMA StepIsKnown ==
    ASSUME ThreadInv, [Next]_vars
    PROVE  StepKinds
<1>1. ASSUME NEW r \in Runners, MainStep(r) PROVE StepKinds
  <2>0. /\ Labels[r] \in SUBSET Servers
        /\ Busy(r) => agent[r].job \in Jobs
        /\ agent[r].at = "reporting" => agent[r].code \in ExitCodes
    BY DEF ThreadInv, InHand
  <2>1. ASSUME NEW j \in Jobs, StartedCall(r, j) PROVE Quiet
    BY <2>1 DEF StartedCall, Quiet
  <2>2. CASE \E j \in Jobs : PollClaim(r, j)
    BY <2>2 DEF StepKinds, Claims
  <2>3. CASE PollEmpty(r)
    BY <2>0, <2>3 DEF PollEmpty, StepKinds, Quiet
  <2>4. CASE PollDropped(r) \/ Refuse(r) \/ \E e \in SuiteCodes : SuiteEnds(r, e)
    BY <2>4 DEF PollDropped, Refuse, SuiteEnds, StepKinds, Quiet
  <2>5. CASE NoSuite(r) \/ Begin(r)
    BY <2>0, <2>1, <2>5 DEF NoSuite, Begin, ReportsStart, Busy, StepKinds, Quiet
  <2>6. CASE Report(r)
    <3>1. agent[r].job \in Jobs /\ agent[r].code \in ExitCodes
      BY <2>0, <2>6 DEF Report, Busy
    <3>2. ResultCall(r, agent[r].job, agent[r].code) \/ UNCHANGED store
      BY <2>6 DEF Report
    <3> QED
      BY <2>6, <3>1, <3>2 DEF ResultCall, StepKinds, Quiet, Concludes
  <2> QED
    BY <1>1, <2>2, <2>3, <2>4, <2>5, <2>6 DEF MainStep
<1>2. ASSUME NEW r \in Runners, OrphanStep(r) PROVE StepKinds
  <2>1. Labels[r] \in SUBSET Servers
    OBVIOUS
  <2> QED
    BY <1>2, <2>1 DEF OrphanStep, OrphanEmpty, StepKinds, Quiet, Claims
<1>3. ASSUME NEW r \in Runners, Heartbeat(r) \/ Crash(r) \/ Restart(r) PROVE StepKinds
  BY <1>3 DEF Heartbeat, Crash, Restart, StepKinds, Quiet
<1>4. ASSUME NEW r \in Runners, NEW j \in Jobs, NEW e \in ExitCodes, LateResult(r, j, e)
      PROVE  StepKinds
  BY <1>4 DEF LateResult, ResultCall, StepKinds, Quiet, Concludes
<1>5. CASE \E j \in Jobs, s \in Servers : SlackCommand(j, s)
  BY <1>5 DEF SlackCommand, StepKinds, Quiet
<1>6. CASE Tick
  BY <1>6 DEF StepKinds
<1>7. CASE EdgeRestart \/ UNCHANGED vars
  BY <1>7 DEF EdgeRestart, vars, store, StepKinds, Quiet
<1> QED
  BY <1>1, <1>2, <1>3, <1>4, <1>5, <1>6, <1>7 DEF Next

\* How one thread moves, whoever steps: it takes up a job that it claims in this step,
\* begins what it has, comes to the end of what it has in hand, or stands still.
TakesUp(r, j) == PollClaim(r, j) /\ Become(r, Doing("got", j, Null)) /\ agent[r].at = "idle"
Ends(r) == \E doing \in Agent : /\ Become(r, doing)
                                /\ \/ doing.at \in {"off", "idle"}
                                   \/ doing.at = "reporting" /\ doing.job = agent[r].job /\ Busy(r)

MoveKinds == \/ UNCHANGED <<agent, runs>>
             \/ \E r \in Runners, j \in Jobs : TakesUp(r, j) /\ UNCHANGED runs
             \/ \E r \in Runners : Begin(r)
             \/ \E r \in Runners : Ends(r) /\ UNCHANGED runs

LEMMA MoveIsKnown ==
    ASSUME ThreadInv, [Next]_vars
    PROVE  MoveKinds
<1> USE DEF history
<1>1. ASSUME NEW r \in Runners, MainStep(r) PROVE MoveKinds
  <2>0. agent[r] \in Agent /\ (Busy(r) => agent[r].job \in Jobs)
    BY DEF ThreadInv, InHand
  <2>1. ASSUME NEW e \in ExitCodes, Busy(r), UNCHANGED runs,
               Become(r, Doing("reporting", agent[r].job, e))
        PROVE  MoveKinds
    <3>1. Doing("reporting", agent[r].job, e) \in Agent
      BY <2>0, <2>1, DoingInHand DEF Stages
    <3>2. /\ Doing("reporting", agent[r].job, e).at = "reporting"
          /\ Doing("reporting", agent[r].job, e).job = agent[r].job
      BY DEF Doing
    <3>3. Ends(r)
      BY <2>1, <3>1, <3>2 DEF Ends
    <3> QED
      BY <2>1, <3>3 DEF MoveKinds
  <2>2. ASSUME NEW j \in Jobs, PollClaim(r, j) PROVE MoveKinds
    BY <2>2 DEF PollClaim, TakesUp, MoveKinds
  <2>3. CASE PollEmpty(r) \/ PollDropped(r)
    BY <2>3 DEF PollEmpty, PollDropped, MoveKinds
  <2>4. CASE Refuse(r) \/ NoSuite(r)
    BY <2>1, <2>4 DEF Refuse, NoSuite, Busy, ExitCodes
  <2>5. CASE \E e \in SuiteCodes : SuiteEnds(r, e)
    BY <2>1, <2>5 DEF SuiteEnds, Busy, ExitCodes
  <2>6. CASE Begin(r)
    BY <2>6 DEF MoveKinds
  <2>7. CASE Report(r)
    <3>1. UNCHANGED runs /\ agent[r].at = "reporting"
      BY <2>7 DEF Report
    <3>2. CASE Become(r, Idle)
      <4>1. Idle \in Agent /\ Idle.at = "idle"
        BY DoingInHand DEF Idle, Stages
      <4>2. Ends(r)
        BY <3>2, <4>1 DEF Ends
      <4> QED
        BY <3>1, <4>2 DEF MoveKinds
    <3>3. CASE agent[r].tries + 1 < ReportTries /\ agent' = [agent EXCEPT ![r].tries = @ + 1]
      <4> DEFINE doing == [agent[r] EXCEPT !.tries = @ + 1]
      <4>1. doing \in Agent /\ doing.at = "reporting" /\ doing.job = agent[r].job
        BY <2>0, <3>1, <3>3 DEF Agent
      <4>2. Become(r, doing)
        BY <3>3 DEF Become
      <4> HIDE DEF doing
      <4>3. Ends(r)
        BY <3>1, <4>1, <4>2 DEF Ends, Busy
      <4> QED
        BY <3>1, <4>3 DEF MoveKinds
    <3> QED
      BY <2>7, <3>2, <3>3 DEF Report, TryAgain
  <2> QED
    BY <1>1, <2>2, <2>3, <2>4, <2>5, <2>6, <2>7 DEF MainStep
<1>2. ASSUME NEW r \in Runners, OrphanStep(r) \/ Heartbeat(r) PROVE MoveKinds
  BY <1>2 DEF OrphanStep, OrphanEmpty, OrphanClaim, Heartbeat, MoveKinds
<1>3. ASSUME NEW r \in Runners, Crash(r) \/ Restart(r) PROVE MoveKinds
  <2>1. Ends(r)
    <3>1. PICK doing \in Agent : Become(r, doing) /\ doing.at \in {"off", "idle"}
      BY <1>3, DoingInHand DEF Crash, Restart, Idle, Stages
    <3> QED
      BY <3>1 DEF Ends
  <2> QED
    BY <1>3, <2>1 DEF Crash, Restart, MoveKinds
<1>4. CASE \E r \in Runners, j \in Jobs, e \in ExitCodes : LateResult(r, j, e)
  BY <1>4 DEF LateResult, MoveKinds
<1>5. CASE \E j \in Jobs, s \in Servers : SlackCommand(j, s)
  BY <1>5 DEF SlackCommand, MoveKinds
<1>6. CASE Tick \/ EdgeRestart \/ UNCHANGED vars
  BY <1>6 DEF Tick, EdgeRestart, vars, MoveKinds
<1> QED
  BY <1>1, <1>2, <1>3, <1>4, <1>5, <1>6 DEF Next

-----------------------------------------------------------------------------
(***************************************************************************)
(* A suite is started at most once for each claim.  The claims of a job    *)
(* are counted in its row; a claim whose suite has not started yet is a    *)
(* main thread that has the job and has not begun, and a claim whose reply *)
(* is lost, or whose test server dies, leads to none.                      *)
(***************************************************************************)
Waiting(j) == {r \in Runners : agent[r].at = "got" /\ agent[r].job = j}

Budgeted(j) == UsedIfKnown(jobs[j]) /\ runs[j] + Cardinality(Waiting(j)) <= jobs[j].attempts

Budget == \A j \in Jobs : Budgeted(j)

LEMMA TableCounts ==
    ASSUME ThreadInv, TableInv, [Next]_vars, NEW j \in Jobs, UsedIfKnown(jobs[j])
    PROVE  Counted(j)
<1> USE DEF TableInv
<1>0. jobs[j] \in Store!Row /\ jobs[j].attempts \in Nat
  BY DEF Store!TypeOK, Store!Row
<1>1. CASE Quiet
  BY <1>1, QuietRow DEF RowKept
<1>2. CASE Tick
  BY <1>0, <1>2, TickRow DEF Tick, Counted, UsedIfKnown
<1>3. ASSUME NEW r \in Runners, NEW i \in Jobs, Claims(r, i) PROVE Counted(j)
  <2>1. Labels[r] \in SUBSET Servers /\ Store!Claim(r, Labels[r], i)
    BY <1>3 DEF Claims, PollClaim, OrphanClaim
  <2>2. CASE j # i
    BY <2>1, <2>2, ClaimRow DEF RowKept
  <2>3. CASE j = i
    <3>1. jobs'[j].state = "claimed" /\ jobs'[j].attempts = jobs[j].attempts + 1
      BY <2>1, <2>3, ClaimRow
    <3> QED
      BY <1>0, <3>1 DEF Counted, UsedIfKnown
  <2> QED
    BY <2>2, <2>3
<1>4. ASSUME NEW r \in Runners, NEW i \in Jobs, NEW e \in ExitCodes, Concludes(r, i, e)
      PROVE  Counted(j)
  <2>1. jobs'[j].attempts = jobs[j].attempts /\ UsedIfKnown(jobs'[j])
    BY <1>4, FinishRow DEF Concludes
  <2> QED
    BY <1>0, <2>1 DEF Counted
<1> QED
  BY <1>1, <1>2, <1>3, <1>4, StepIsKnown DEF StepKinds

\* Fewer wait than before: what is left of a finite set.
LEMMA WaitingShrinks ==
    ASSUME IsFiniteSet(Runners), NEW j \in Jobs, Waiting(j)' \subseteq Waiting(j)
    PROVE  /\ Cardinality(Waiting(j)) \in Nat /\ Cardinality(Waiting(j)') \in Nat
           /\ Cardinality(Waiting(j)') <= Cardinality(Waiting(j))
<1>1. IsFiniteSet(Waiting(j))
  BY FS_Subset DEF Waiting
<1> QED
  BY <1>1, FS_Subset, FS_CardinalityType

LEMMA BudgetNext ==
    ASSUME IsFiniteSet(Runners), ThreadInv, TableInv, TableInv', Budget, [Next]_vars
    PROVE  Budget'
<1> SUFFICES ASSUME NEW j \in Jobs PROVE Budgeted(j)'
  BY DEF Budget
<1>0. /\ Budgeted(j) /\ Counted(j) /\ agent \in [Runners -> Agent] /\ runs \in [Jobs -> Nat]
      /\ jobs[j].attempts \in Nat /\ jobs'[j].attempts \in Int
      /\ IsFiniteSet(Waiting(j)) /\ Cardinality(Waiting(j)) \in Nat
  <2>1. Budgeted(j) /\ Counted(j)
    BY TableCounts DEF Budget, Budgeted
  <2>2. jobs[j].attempts \in Nat
    BY DEF TableInv, Store!TypeOK, Store!Row
  <2>3. jobs'[j].attempts \in Int
    BY DEF TableInv, Store!TypeOK, Store!Row
  <2>4. IsFiniteSet(Waiting(j))
    BY FS_Subset DEF Waiting
  <2> QED
    BY <2>1, <2>2, <2>3, <2>4, FS_CardinalityType DEF ThreadInv
<1>1. ASSUME Waiting(j)' \subseteq Waiting(j), UNCHANGED runs PROVE Budgeted(j)'
  BY <1>0, <1>1, WaitingShrinks DEF Budgeted, Counted
<1>2. CASE UNCHANGED <<agent, runs>>
  BY <1>1, <1>2 DEF Waiting
<1>3. ASSUME NEW r \in Runners, Ends(r), UNCHANGED runs PROVE Budgeted(j)'
  <2>1. PICK doing \in Agent : Become(r, doing) /\ doing.at # "got"
    BY <1>3 DEF Ends
  <2> QED
    BY <1>0, <1>1, <1>3, <2>1 DEF Waiting, Become
<1>4. ASSUME NEW r \in Runners, Begin(r) PROVE Budgeted(j)'
  <2> DEFINE now == Doing("running", agent[r].job, Null)
  <2>1. /\ agent[r].at = "got" /\ agent' = [agent EXCEPT ![r] = now] /\ now.at = "running"
        /\ agent[r].job \in Jobs
        /\ runs' = [runs EXCEPT ![agent[r].job] = @ + 1]
    BY <1>4 DEF Begin, Become, Doing, ThreadInv, InHand, Busy
  <2> HIDE DEF now
  <2>2. CASE agent[r].job = j
    <3>1. Waiting(j)' = Waiting(j) \ {r} /\ r \in Waiting(j)
      BY <1>0, <2>1, <2>2 DEF Waiting
    <3>2. Cardinality(Waiting(j)') = Cardinality(Waiting(j)) - 1
      BY <1>0, <3>1, FS_RemoveElement
    <3>3. runs'[j] = runs[j] + 1
      BY <1>0, <2>1, <2>2
    <3> QED
      BY <1>0, <3>2, <3>3 DEF Budgeted, Counted
  <2>3. CASE agent[r].job # j
    <3>1. Waiting(j)' \subseteq Waiting(j) /\ runs'[j] = runs[j]
      BY <1>0, <2>1, <2>3 DEF Waiting
    <3> QED
      BY <1>0, <3>1, WaitingShrinks DEF Budgeted, Counted
  <2> QED
    BY <2>2, <2>3
<1>5. ASSUME NEW r \in Runners, NEW i \in Jobs, TakesUp(r, i), UNCHANGED runs PROVE Budgeted(j)'
  <2> DEFINE now == Doing("got", i, Null)
  <2>1. /\ agent[r].at = "idle" /\ agent' = [agent EXCEPT ![r] = now]
        /\ now.at = "got" /\ now.job = i
        /\ Labels[r] \in SUBSET Servers /\ Store!Claim(r, Labels[r], i)
    BY <1>5 DEF TakesUp, PollClaim, Become, Doing
  <2> HIDE DEF now
  <2>2. CASE i = j
    <3>1. Waiting(j)' = Waiting(j) \cup {r} /\ r \notin Waiting(j)
      BY <1>0, <2>1, <2>2 DEF Waiting
    <3>2. Cardinality(Waiting(j)') = Cardinality(Waiting(j)) + 1
      BY <1>0, <3>1, FS_AddElement
    <3>3. jobs'[j].attempts = jobs[j].attempts + 1
      <4>1. UsedIfKnown(jobs[j]) /\ Store!TypeOK /\ Store!HeldRowsAreLeased
        BY <1>0 DEF TableInv, Budgeted
      <4>2. Labels[r] \in SUBSET Servers /\ Store!Claim(r, Labels[r], j)
        BY <2>1, <2>2
      <4> QED
        BY <4>1, <4>2, ClaimRow
    <3> QED
      BY <1>0, <1>5, <3>2, <3>3 DEF Budgeted, Counted
  <2>3. CASE i # j
    <3>1. Waiting(j)' \subseteq Waiting(j)
      BY <1>0, <2>1, <2>3 DEF Waiting
    <3> QED
      BY <1>1, <1>5, <3>1
  <2> QED
    BY <2>2, <2>3
<1> QED
  BY <1>2, <1>3, <1>4, <1>5, MoveIsKnown DEF MoveKinds

\* "attempts is capped so a job that kills its runner cannot kill all three in turn"
\* (store.py), nor any finite number: whatever goes wrong, no suite is started more
\* often than its job was claimed, and no job claimed more often than the limit allows.
THEOREM SuitesAreBounded == ASSUME IsFiniteSet(Runners) PROVE Spec => []RunsBounded
<1>1. Init => Budget
  <2> SUFFICES ASSUME Init, NEW j \in Jobs PROVE Budgeted(j)
    BY DEF Budget
  <2>1. Waiting(j) = {} /\ runs[j] = 0 /\ jobs[j] = Store!NoRow
    BY DEF Init, Store!Init, Waiting, Idle, Doing
  <2> QED
    BY <2>1, FS_EmptySet DEF Budgeted, UsedIfKnown, Store!NoRow
<1>2. ThreadInv /\ TableInv /\ TableInv' /\ Budget /\ [Next]_vars => Budget'
  BY BudgetNext
<1>3. ThreadInv /\ TableInv /\ Budget => RunsBounded
  <2> SUFFICES ASSUME ThreadInv, TableInv, Budget, NEW j \in Jobs
               PROVE  runs[j] <= jobs[j].attempts /\ jobs[j].attempts <= Store!AttemptLimit
    BY DEF RunsBounded
  <2>1. IsFiniteSet(Waiting(j))
    BY FS_Subset DEF Waiting
  <2>2. Cardinality(Waiting(j)) \in Nat /\ runs[j] \in Nat /\ jobs[j].attempts \in Nat
    BY <2>1, FS_CardinalityType DEF ThreadInv, TableInv, Store!TypeOK, Store!Row
  <2>3. Store!AttemptLimit \in Int /\ jobs[j].attempts <= Store!AttemptLimit
    BY DEF TableInv, Store!AttemptsBounded, Store!AttemptLimit
  <2> QED
    BY <2>2, <2>3 DEF Budget, Budgeted
<1> QED
  BY <1>1, <1>2, <1>3, ThreadsAreSound, TableIsSound, PTL DEF Spec

-----------------------------------------------------------------------------
(***************************************************************************)
(* A busy test server that heartbeats keeps its job.  What is left of its  *)
(* lease never falls behind its heartbeats: a tick takes one of it, and    *)
(* none comes before the next heartbeat.  Without "missed" there always is *)
(* that heartbeat; without "late" no result of an earlier attempt ends a   *)
(* later one.                                                              *)
(***************************************************************************)
Prompt == Faults \cap {"missed", "late"} = {} /\ LeaseTicks >= 1

Kept(r, j) == /\ Store!Holds(r, j)
              /\ jobs[j].lease >= IF r \in beaten THEN 1 ELSE 0

KeepsJob(r, j) == HasInHand(r, j) => Kept(r, j)

KeepInv == /\ late = {}
           /\ \A j \in Jobs : UsedIfKnown(jobs[j])
           /\ \A r \in Runners, j \in Jobs : KeepsJob(r, j)

\* Who has a job in hand after a step had it before, or claims it in this step.
LEMMA InHandBefore ==
    ASSUME ThreadInv, [Next]_vars, NEW r \in Runners, NEW j \in Jobs, HasInHand(r, j)'
    PROVE  HasInHand(r, j) \/ TakesUp(r, j)
<1>0. agent \in [Runners -> Agent]
  BY DEF ThreadInv
<1>1. CASE UNCHANGED <<agent, runs>>
  BY <1>1 DEF HasInHand
<1>2. ASSUME NEW q \in Runners, NEW i \in Jobs, TakesUp(q, i) PROVE HasInHand(r, j) \/ TakesUp(r, j)
  <2>1. agent' = [agent EXCEPT ![q] = Doing("got", i, Null)] /\ Doing("got", i, Null).job = i
    BY <1>2 DEF TakesUp, Become, Doing
  <2> QED
    BY <1>0, <1>2, <2>1 DEF HasInHand
<1>3. ASSUME NEW q \in Runners, Begin(q) PROVE HasInHand(r, j)
  <2>1. /\ agent' = [agent EXCEPT ![q] = Doing("running", agent[q].job, Null)]
        /\ Doing("running", agent[q].job, Null).job = agent[q].job /\ agent[q].at = "got"
    BY <1>3 DEF Begin, Become, Doing
  <2> QED
    BY <1>0, <2>1 DEF HasInHand
<1>4. ASSUME NEW q \in Runners, Ends(q) PROVE HasInHand(r, j)
  <2>1. PICK doing \in Agent : Become(q, doing) /\ doing.at \in {"off", "idle", "reporting"}
    BY <1>4 DEF Ends
  <2> QED
    BY <1>0, <2>1 DEF HasInHand, Become
<1> QED
  BY <1>1, <1>2, <1>3, <1>4, MoveIsKnown DEF MoveKinds

\* A heartbeat is the one step that adds to beaten, and it renews.
LEMMA BeatenRenewed ==
    ASSUME [Next]_vars, NEW r \in Runners, r \in beaten', ~(r \in beaten)
    PROVE  Store!Renew(r)
<1> USE DEF network
<1>1. ASSUME NEW q \in Runners, MainStep(q) \/ OrphanStep(q) \/ Crash(q) \/ Restart(q)
      PROVE  UNCHANGED beaten
  BY <1>1 DEF MainStep, PollClaim, PollEmpty, PollDropped, Refuse, NoSuite, Begin, SuiteEnds,
              Report, OrphanStep, OrphanEmpty, OrphanClaim, Crash, Restart
<1>2. ASSUME NEW q \in Runners, Heartbeat(q) PROVE Store!Renew(r)
  BY <1>2 DEF Heartbeat
<1>3. CASE Tick
  BY <1>3 DEF Tick
<1>4. CASE \/ \E j \in Jobs, s \in Servers : SlackCommand(j, s)
           \/ \E q \in Runners, j \in Jobs, e \in ExitCodes : LateResult(q, j, e)
           \/ EdgeRestart \/ UNCHANGED vars
  BY <1>4 DEF SlackCommand, LateResult, EdgeRestart, vars
<1> QED
  BY <1>1, <1>2, <1>3, <1>4 DEF Next

LEMMA KeepNext ==
    ASSUME Prompt, ThreadInv, TableInv, TableInv', KeepInv, [Next]_vars
    PROVE  KeepInv'
<1> USE DEF Prompt, KeepInv
<1>1. late' = {}
  <2>1. ASSUME NEW r \in Runners, MainStep(r) PROVE late' = late
    BY <2>1 DEF MainStep, PollClaim, PollEmpty, PollDropped, Refuse, NoSuite, Begin, SuiteEnds,
                Report, network
  <2>2. ASSUME NEW r \in Runners, OrphanStep(r) \/ Heartbeat(r) \/ Crash(r) \/ Restart(r)
        PROVE  late' = late
    BY <2>2 DEF OrphanStep, OrphanEmpty, OrphanClaim, Heartbeat, Crash, Restart, network
  <2>3. CASE \/ \E j \in Jobs, s \in Servers : SlackCommand(j, s)
             \/ Tick \/ EdgeRestart \/ UNCHANGED vars
    BY <2>3 DEF SlackCommand, Tick, EdgeRestart, network, vars
  <2>4. ~\E r \in Runners, j \in Jobs, e \in ExitCodes : LateResult(r, j, e)
    BY DEF LateResult
  <2> QED
    BY <2>1, <2>2, <2>3, <2>4 DEF Next
<1>2. \A j \in Jobs : UsedIfKnown(jobs'[j])
  BY TableCounts DEF Counted
<1>3. ASSUME NEW r \in Runners, NEW j \in Jobs, HasInHand(r, j)' PROVE Kept(r, j)'
  <2>0. /\ UsedIfKnown(jobs[j]) /\ Store!TypeOK /\ Store!HeldRowsAreLeased
        /\ jobs[j] \in Store!Row /\ jobs'[j] \in Store!Row
    BY DEF TableInv, Store!TypeOK
  <2>1. CASE TakesUp(r, j)
    <3>1. Labels[r] \in SUBSET Servers /\ Store!Claim(r, Labels[r], j)
      BY <2>1 DEF TakesUp, PollClaim
    <3>2. jobs'[j].state = "claimed" /\ jobs'[j].runner = r /\ jobs'[j].lease = LeaseTicks
      <4>1. UsedIfKnown(jobs[j]) /\ Store!TypeOK /\ Store!HeldRowsAreLeased
        BY <2>0
      <4> QED
        BY <3>1, <4>1, ClaimRow
    <3> QED
      BY <3>2 DEF Kept, Store!Holds, Store!Held
  <2>2. CASE HasInHand(r, j)
    <3>0. /\ Kept(r, j) /\ Store!Holds(r, j) /\ jobs[j].lease >= 0
          /\ jobs[j].lease \in Int
      <4>1. Kept(r, j)
        BY <2>2 DEF KeepsJob
      <4>2. jobs[j].lease \in Int
        BY <2>0, <4>1 DEF Kept, Store!Holds, Store!HeldRowsAreLeased, Store!HeldRowIsLeased,
                          Store!Row
      <4> QED
        BY <4>1, <4>2 DEF Kept
    <3>1. ASSUME Store!Holds(r, j)', jobs'[j].lease >= jobs[j].lease
          PROVE  Kept(r, j)'
      <4>1. jobs'[j].lease \in Int
        BY <2>0, <3>0, <3>1 DEF TableInv, Store!HeldRowsAreLeased, Store!HeldRowIsLeased,
                                Store!Holds, Store!Row
      <4>2. CASE r \in beaten' /\ r \notin beaten
        <5>1. Store!Renew(r)
          BY <4>2, BeatenRenewed
        <5>2. jobs'[j].lease = LeaseTicks
          BY <2>0, <3>0, <5>1 DEF Store!Renew, Store!Row
        <5> QED
          BY <3>1, <4>2, <5>2 DEF Kept
      <4>3. CASE ~(r \in beaten' /\ r \notin beaten)
        BY <3>0, <3>1, <4>1, <4>3 DEF Kept
      <4> QED
        BY <4>2, <4>3
    <3>2. CASE Quiet
      <4>1. HoldKept(r, j)
        BY <2>0, <3>2, QuietRow DEF RowKept
      <4> QED
        BY <3>0, <3>1, <4>1 DEF HoldKept
    <3>3. CASE Tick
      <4>1. r \in beaten /\ beaten' = {} /\ Store!Tick
        <5>1. r \in Up
          BY <2>2 DEF HasInHand, Up
        <5> QED
          BY <3>3, <5>1 DEF Tick
      <4>2. Store!Holds(r, j)' /\ jobs'[j].lease = jobs[j].lease - 1
        BY <2>0, <3>0, <4>1, TickRow
      <4> QED
        BY <3>0, <4>1, <4>2 DEF Kept
    <3>4. ASSUME NEW q \in Runners, NEW i \in Jobs, Claims(q, i) PROVE Kept(r, j)'
      <4>1. Labels[q] \in SUBSET Servers /\ Store!Claim(q, Labels[q], i)
        BY <3>4 DEF Claims, PollClaim, OrphanClaim
      <4>2. j # i
        <5>1. j = i => \A p \in Runners : ~(Store!Holds(p, j) /\ jobs[j].lease >= 0)
          BY <2>0, <4>1, ClaimRow
        <5> QED
          BY <3>0, <5>1
      <4>3. HoldKept(r, j)
        BY <2>0, <4>1, <4>2, ClaimRow DEF RowKept
      <4> QED
        BY <3>0, <3>1, <4>3 DEF HoldKept
    <3>5. ASSUME NEW q \in Runners, NEW i \in Jobs, NEW e \in ExitCodes, Concludes(q, i, e)
          PROVE  Kept(r, j)'
      <4>1. Report(q) /\ agent[q].job = i /\ agent[q].at = "reporting"
        BY <3>5 DEF Concludes, LateResult, Report
      <4>2. Store!Finish(q, i, e) /\ Store!Holds(q, i)
        BY <3>5 DEF Concludes, Store!Finish
      <4>3. q # r \/ i # j
        BY <2>2, <4>1 DEF HasInHand
      <4>4. i # j
        BY <3>0, <4>2, <4>3 DEF Store!Holds
      <4>5. jobs'[j] = jobs[j]
        BY <2>0, <4>2, <4>4, FinishRow
      <4> QED
        BY <3>0, <3>1, <4>5 DEF Store!Holds
    <3> QED
      BY <3>2, <3>3, <3>4, <3>5, StepIsKnown DEF StepKinds
  <2> QED
    BY <1>3, <2>1, <2>2, InHandBefore
<1> QED
  BY <1>1, <1>2, <1>3 DEF KeepsJob

LEMMA KeepHolds == ASSUME Prompt PROVE Spec => []KeepInv
<1>1. Init => KeepInv
  BY DEF Init, Store!Init, Store!NoRow, Idle, Doing, KeepInv, KeepsJob, HasInHand, UsedIfKnown
<1>2. ThreadInv /\ TableInv /\ TableInv' /\ KeepInv /\ [Next]_vars => KeepInv'
  BY KeepNext
<1> QED
  BY <1>1, <1>2, ThreadsAreSound, TableIsSound, PTL DEF Spec

\* A test server that has a job in hand, for however long, is the one the edge has
\* down for it, as long as no live one misses all its heartbeats within a lease.
THEOREM BusyServersKeepTheirJobs == ASSUME Prompt PROVE Spec => []RunnerKeepsItsJob
<1>1. KeepInv => RunnerKeepsItsJob
  BY DEF KeepInv, KeepsJob, Kept, RunnerKeepsItsJob
<1> QED
  BY <1>1, KeepHolds, PTL

\* Nor does the same suite then run twice at a time.
THEOREM SuitesAreExclusive == ASSUME Prompt PROVE Spec => []ExclusiveRun
<1>1. KeepInv => ExclusiveRun
  BY DEF KeepInv, KeepsJob, Kept, ExclusiveRun, Store!Holds
<1> QED
  BY <1>1, KeepHolds, PTL

\* A suite is started, and an outcome announced, by one that has the job in hand.
LEMMA OnlyHandsAct ==
    ASSUME ThreadInv, [Next]_vars, NEW j \in Jobs, runs'[j] # runs[j] \/ said'[j] # said[j]
    PROVE  \E r \in Runners : HasInHand(r, j)
<1> USE DEF history
<1>0. runs \in [Jobs -> Nat] /\ said \in [Jobs -> SUBSET (Runners \X ExitCodes \X Taken)]
  BY DEF ThreadInv
<1>1. ASSUME NEW r \in Runners, MainStep(r) PROVE HasInHand(r, j)
  <2>1. CASE Refuse(r) \/ NoSuite(r) \/ Begin(r)
    BY <1>0, <2>1 DEF Refuse, NoSuite, Begin, Announce, HasInHand
  <2>2. CASE \E e \in SuiteCodes : SuiteEnds(r, e)
    BY <1>0, <2>2 DEF SuiteEnds, Announce, HasInHand
  <2>3. CASE PollEmpty(r) \/ PollDropped(r) \/ Report(r) \/ \E i \in Jobs : PollClaim(r, i)
    BY <2>3 DEF PollEmpty, PollDropped, Report, PollClaim
  <2> QED
    BY <1>1, <2>1, <2>2, <2>3 DEF MainStep
<1>2. ~\E r \in Runners : OrphanStep(r) \/ Heartbeat(r) \/ Crash(r) \/ Restart(r)
  BY DEF OrphanStep, OrphanEmpty, OrphanClaim, Heartbeat, Crash, Restart
<1>3. ~(\/ \E i \in Jobs, s \in Servers : SlackCommand(i, s)
        \/ \E q \in Runners, i \in Jobs, e \in ExitCodes : LateResult(q, i, e)
        \/ Tick \/ EdgeRestart \/ UNCHANGED vars)
  BY DEF SlackCommand, LateResult, Tick, EdgeRestart, vars
<1> QED
  BY <1>1, <1>2, <1>3 DEF Next

\* So when a job is over nothing is started for it any more, and nothing said of it.
THEOREM TheEndIsTheEnd == ASSUME Prompt PROVE Spec => NothingAfterTheEnd
<1>1. ThreadInv /\ KeepInv /\ [Next]_vars =>
          [\A j \in Jobs : jobs[j].state \in Store!Terminal =>
               runs'[j] = runs[j] /\ said'[j] = said[j]]_vars
  <2> SUFFICES ASSUME ThreadInv, KeepInv, [Next]_vars, NEW j \in Jobs,
                      jobs[j].state \in Store!Terminal,
                      runs'[j] # runs[j] \/ said'[j] # said[j]
               PROVE  FALSE
    OBVIOUS
  <2>1. PICK r \in Runners : HasInHand(r, j)
    BY OnlyHandsAct
  <2>2. Store!Holds(r, j)
    BY <2>1 DEF KeepInv, KeepsJob, Kept
  <2> QED
    BY <2>2 DEF Store!Holds, Store!Held, Store!Terminal
<1> QED
  BY <1>1, KeepHolds, ThreadsAreSound, PTL DEF Spec, NothingAfterTheEnd

-----------------------------------------------------------------------------
(***************************************************************************)
(* What a second attempt takes.  Where no process dies and heartbeats come *)
(* in time no lease runs out: whatever is lost, repeated or late, and      *)
(* however often the edge restarts, a job is handed out once, and never    *)
(* given up.  A job whose claim was lost on the way then waits for as long *)
(* as the test server lives that does not know of it.                      *)
(***************************************************************************)
Steady == Faults \cap {"crash", "restart", "missed"} = {} /\ LeaseTicks >= 1

FirstAttempt(row) ==
    /\ row.state \in {"absent", "queued"} => row.attempts = 0
    /\ row.state \in Store!Held => row.lease # Null /\ row.lease >= LeaseTicks - 1
    /\ row.state # "abandoned" /\ row.attempts <= 1

SteadyInv == /\ Up = Runners
             /\ \A j \in Jobs : /\ FirstAttempt(jobs[j])
                                /\ jobs[j].state \in Store!Held /\ jobs[j].runner \in beaten =>
                                       jobs[j].lease = LeaseTicks

NothingIsRedone == \A j \in Jobs : /\ runs[j] <= 1 /\ jobs[j].attempts <= 1
                                   /\ jobs[j].state # "abandoned"

LEMMA NothingToReap ==
    ASSUME Steady, Store!TypeOK, SteadyInv PROVE Store!ReapedJobs = jobs
<1>1. ASSUME NEW j \in Jobs PROVE Store!Reaped(jobs[j]) = jobs[j]
  <2>1. jobs[j] \in Store!Row /\ FirstAttempt(jobs[j])
    BY DEF Store!TypeOK, SteadyInv
  <2>2. ~Store!Expired(jobs[j])
    BY <2>1 DEF Steady, FirstAttempt, Store!Expired, Store!Row
  <2> QED
    BY <2>2 DEF Store!Reaped
<1> QED
  BY <1>1 DEF Store!ReapedJobs, Store!TypeOK

LEMMA UpStays ==
    ASSUME Steady, ThreadInv, Up = Runners, [Next]_vars PROVE Up' = Runners
<1> SUFFICES \A r \in Runners : agent'[r].at # "off"
  BY DEF Up
<1>0. agent \in [Runners -> Agent] /\ \A r \in Runners : agent[r].at # "off"
  BY DEF ThreadInv, Up
<1>1. ASSUME NEW q \in Runners, NEW doing, doing.at # "off", Become(q, doing)
      PROVE  \A r \in Runners : agent'[r].at # "off"
  BY <1>0, <1>1 DEF Become
<1>2. \A e, j : Doing("got", j, e).at # "off" /\ Doing("running", j, e).at # "off"
                /\ Doing("reporting", j, e).at # "off" /\ Idle.at # "off"
  BY DEF Doing, Idle
<1>3. ASSUME NEW q \in Runners, MainStep(q) PROVE \A r \in Runners : agent'[r].at # "off"
  <2>1. CASE Report(q)
    <3>1. ASSUME agent' = [agent EXCEPT ![q].tries = @ + 1]
          PROVE  \A r \in Runners : agent'[r].at # "off"
      BY <1>0, <3>1 DEF Agent
    <3> QED
      BY <1>1, <1>2, <2>1, <3>1 DEF Report, TryAgain
  <2>2. CASE UNCHANGED agent
    BY <1>0, <2>2
  <2>3. CASE Refuse(q) \/ NoSuite(q) \/ Begin(q) \/ \E e \in SuiteCodes : SuiteEnds(q, e)
    BY <1>1, <1>2, <2>3 DEF Refuse, NoSuite, Begin, SuiteEnds
  <2>4. CASE \E j \in Jobs : PollClaim(q, j)
    BY <1>1, <1>2, <2>2, <2>4 DEF PollClaim
  <2> QED
    BY <1>3, <2>1, <2>2, <2>3, <2>4 DEF MainStep, PollEmpty, PollDropped
<1>4. ASSUME NEW q \in Runners, OrphanStep(q) \/ Heartbeat(q) PROVE agent' = agent
  BY <1>4 DEF OrphanStep, OrphanEmpty, OrphanClaim, Heartbeat
<1>5. ~\E q \in Runners : Crash(q) \/ Restart(q)
  BY DEF Crash, Restart, Steady
<1>6. CASE \/ \E j \in Jobs, s \in Servers : SlackCommand(j, s)
           \/ \E q \in Runners, j \in Jobs, e \in ExitCodes : LateResult(q, j, e)
           \/ Tick \/ EdgeRestart \/ UNCHANGED vars
  BY <1>0, <1>6 DEF SlackCommand, LateResult, Tick, EdgeRestart, vars
<1> QED
  BY <1>0, <1>3, <1>4, <1>5, <1>6 DEF Next

\* But for time, a step leaves a lease as it is or grants a whole one.
Granted(j) == /\ FirstAttempt(jobs'[j])
              /\ jobs'[j].state \in Store!Held =>
                     \/ jobs'[j].lease = LeaseTicks
                     \/ /\ jobs[j].state \in Store!Held
                        /\ jobs'[j].runner = jobs[j].runner /\ jobs'[j].lease = jobs[j].lease

LEMMA LeasesAreGranted ==
    ASSUME Steady, ThreadInv, TableInv, SteadyInv, [Next]_vars, NEW j \in Jobs
    PROVE  Granted(j) \/ Tick
<1> USE DEF Granted, FirstAttempt, Store!Row, Store!Held
<1>0. /\ jobs \in [Jobs -> Store!Row] /\ jobs[j] \in Store!Row /\ Store!ReapedJobs = jobs
      /\ FirstAttempt(jobs[j]) /\ LeaseTicks >= 1 /\ LeaseTicks \in Nat /\ LeaseTicks # Null
  BY NothingToReap DEF TableInv, SteadyInv, Store!TypeOK, Steady
<1>1. ASSUME jobs'[j] = jobs[j] PROVE Granted(j)
  BY <1>0, <1>1
<1>2. ASSUME NEW i \in Jobs, NEW s \in Servers, Store!Enqueue(i, s) PROVE Granted(j)
  BY <1>0, <1>1, <1>2 DEF Store!Enqueue, Store!NewRow
<1>3. ASSUME NEW labels \in SUBSET Servers, Store!ClaimNothing(labels) PROVE Granted(j)
  BY <1>0, <1>1, <1>3 DEF Store!ClaimNothing
<1>4. ASSUME NEW i \in Jobs, NEW q \in Runners, Store!MarkRunning(q, i) PROVE Granted(j)
  BY <1>0, <1>1, <1>4 DEF Store!MarkRunning, Store!HoldsClaimed
<1>5. ASSUME NEW q \in Runners, Store!Renew(q) PROVE Granted(j)
  BY <1>0, <1>1, <1>5 DEF Store!Renew, Store!Holds
<1>6. ASSUME NEW q \in Runners, NEW i \in Jobs, NEW labels \in SUBSET Servers,
             Store!Claim(q, labels, i)
      PROVE  Granted(j)
  <2>1. jobs' = [jobs EXCEPT ![i] = Store!Leased(@, q)] /\ jobs[i].state = "queued"
    BY <1>0, <1>6 DEF Store!Claim, Store!Oldest, Store!Eligible
  <2> QED
    BY <1>0, <1>1, <2>1 DEF Store!Leased
<1>7. ASSUME NEW q \in Runners, NEW i \in Jobs, NEW e \in ExitCodes, Store!Finish(q, i, e)
      PROVE  Granted(j)
  BY <1>0, <1>1, <1>7 DEF Store!Finish, Store!Holds
<1>8. CASE Quiet
  BY <1>1, <1>2, <1>3, <1>4, <1>5, <1>8 DEF Quiet, store
<1>9. ASSUME NEW q \in Runners, NEW i \in Jobs, Claims(q, i) PROVE Granted(j)
  BY <1>6, <1>9 DEF Claims, PollClaim, OrphanClaim
<1> QED
  BY <1>7, <1>8, <1>9, StepIsKnown DEF StepKinds, Concludes

LEMMA SteadyNext ==
    ASSUME Steady, ThreadInv, TableInv, SteadyInv, [Next]_vars PROVE SteadyInv'
<1>0. /\ Up' = Runners /\ beaten' \subseteq Runners
      /\ jobs \in [Jobs -> Store!Row] /\ \A j \in Jobs : FirstAttempt(jobs[j])
      /\ \A j \in Jobs : jobs[j].state \in Store!Held /\ jobs[j].runner \in beaten =>
                             jobs[j].lease = LeaseTicks
  BY UpStays, ThreadNext DEF TableInv, SteadyInv, Store!TypeOK, ThreadInv
<1>1. ASSUME NEW j \in Jobs
      PROVE  /\ FirstAttempt(jobs'[j])
             /\ jobs'[j].state \in Store!Held /\ jobs'[j].runner \in beaten' =>
                    jobs'[j].lease = LeaseTicks
  <2>1. CASE Tick
    <3>1. Store!Tick /\ beaten' = {} /\ Runners \subseteq beaten
      BY <2>1 DEF Tick, Steady, SteadyInv
    <3>2. jobs[j].state \in Store!Held => jobs[j].lease = LeaseTicks
      BY <1>0, <3>1 DEF TableInv, Store!HeldRowsAreLeased, Store!HeldRowIsLeased, Store!Row
    <3>3. FirstAttempt(jobs'[j])
      BY <1>0, <3>1, <3>2 DEF Store!Tick, FirstAttempt, Steady, Store!Row
    <3> QED
      BY <3>1, <3>3
  <2>2. ASSUME Granted(j), jobs'[j].state \in Store!Held, jobs'[j].runner \in beaten'
        PROVE  jobs'[j].lease = LeaseTicks
    <3> DEFINE r == jobs'[j].runner
    <3>1. CASE r \in beaten
      BY <1>0, <2>2, <3>1 DEF Granted
    <3>2. CASE ~(r \in beaten)
      <4>1. Store!Renew(r)
        BY <1>0, <2>2, <3>2, BeatenRenewed
      <4>2. \A q : Store!Renew(q) /\ jobs'[j].runner = q /\ jobs'[j].state \in Store!Held =>
                       jobs'[j].lease = LeaseTicks
        BY <1>0 DEF Store!Renew, Store!Holds, Store!Row
      <4> QED
        BY <2>2, <4>1, <4>2
    <3> QED
      BY <3>1, <3>2
  <2> QED
    BY <2>1, <2>2, LeasesAreGranted DEF Granted
<1> QED
  BY <1>0, <1>1 DEF SteadyInv

\* Only a process that dies or heartbeats that fail make the edge hand a job out a second
\* time, or give it up: with any losses, late results and restarts of the edge, every job
\* is tried once and its suite is started once at most (_reap, renew, execute).
THEOREM OnlyTheDeadAreReplaced ==
    ASSUME Steady, IsFiniteSet(Runners) PROVE Spec => []NothingIsRedone
<1>1. Init => SteadyInv
  BY DEF Init, Store!Init, Store!NoRow, Idle, Doing, SteadyInv, FirstAttempt, Up, Store!Held
<1>2. ThreadInv /\ TableInv /\ SteadyInv /\ [Next]_vars => SteadyInv'
  BY SteadyNext
<1>3. ThreadInv /\ TableInv /\ SteadyInv /\ RunsBounded => NothingIsRedone
  <2> SUFFICES ASSUME ThreadInv, TableInv, SteadyInv, RunsBounded, NEW j \in Jobs
               PROVE  /\ runs[j] <= 1 /\ jobs[j].attempts <= 1 /\ jobs[j].state # "abandoned"
    BY DEF NothingIsRedone
  <2>1. runs[j] \in Nat /\ jobs[j].attempts \in Nat /\ runs[j] <= jobs[j].attempts
    BY DEF ThreadInv, TableInv, Store!TypeOK, Store!Row, RunsBounded
  <2> QED
    BY <2>1 DEF SteadyInv, FirstAttempt
<1> QED
  BY <1>1, <1>2, <1>3, ThreadsAreSound, TableIsSound, SuitesAreBounded, PTL DEF Spec

-----------------------------------------------------------------------------
(***************************************************************************)
(* Where calls get through a test server holds what it has in hand and     *)
(* nothing else: it comes back to the claim loop only when its result was  *)
(* taken or its job is no longer its own, and the poll that a process      *)
(* leaves behind when it dies was polling because it held nothing.         *)
(***************************************************************************)
CallsGetThrough == Faults \subseteq {"crash", "missed", "edge"}

HoldsNothing(r) == \A j \in Jobs : ~Store!Holds(r, j)

OneJob(r) == /\ agent[r].at = "idle" => HoldsNothing(r)
             /\ Busy(r) => \A j \in Jobs : Store!Holds(r, j) => j = agent[r].job
             /\ r \in orphans => agent[r].at = "off" /\ HoldsNothing(r)
             /\ \A j, k \in Jobs : Store!Holds(r, j) /\ Store!Holds(r, k) => j = k

OneJobInv == /\ \A j \in Jobs : UsedIfKnown(jobs[j])
             /\ \A r \in Runners : OneJob(r)

\* Only a claim of its own gives a test server a row.
LEMMA HeldBefore ==
    ASSUME ThreadInv, TableInv, [Next]_vars, NEW r \in Runners, NEW j \in Jobs,
           UsedIfKnown(jobs[j]), Store!Holds(r, j)'
    PROVE  Store!Holds(r, j) \/ Claims(r, j)
<1>0. Store!TypeOK /\ Store!HeldRowsAreLeased
  BY DEF TableInv
<1>1. CASE Quiet
  <2>1. HoldKept(r, j)
    BY <1>0, <1>1, QuietRow DEF RowKept
  <2> QED
    BY <2>1 DEF HoldKept
<1>2. CASE Tick
  BY <1>0, <1>2, TickRow DEF Tick
<1>3. ASSUME NEW q \in Runners, NEW i \in Jobs, Claims(q, i)
      PROVE  Store!Holds(r, j) \/ Claims(r, j)
  <2>1. Labels[q] \in SUBSET Servers /\ Store!Claim(q, Labels[q], i)
    BY <1>3 DEF Claims, PollClaim, OrphanClaim
  <2>2. CASE i = j
    <3>1. jobs'[j].runner = q
      BY <1>0, <2>1, <2>2, ClaimRow
    <3> QED
      BY <1>3, <2>2, <3>1 DEF Store!Holds
  <2>3. CASE i # j
    <3>1. HoldKept(r, j)
      BY <1>0, <2>1, <2>3, ClaimRow DEF RowKept
    <3> QED
      BY <3>1 DEF HoldKept
  <2> QED
    BY <2>2, <2>3
<1>4. ASSUME NEW q \in Runners, NEW i \in Jobs, NEW e \in ExitCodes, Concludes(q, i, e)
      PROVE  Store!Holds(r, j)
  <2>1. i # j
    BY <1>0, <1>4, FinishRow DEF Concludes
  <2>2. jobs'[j] = jobs[j]
    BY <1>0, <1>4, <2>1, FinishRow DEF Concludes
  <2> QED
    BY <2>2 DEF Store!Holds
<1> QED
  BY <1>1, <1>2, <1>3, <1>4, StepIsKnown DEF StepKinds

\* Of a claim of its own it holds just that row more.
LEMMA HeldByClaim ==
    ASSUME TableInv, NEW r \in Runners, NEW i \in Jobs, Store!Claim(r, Labels[r], i),
           \A j \in Jobs : UsedIfKnown(jobs[j]), HoldsNothing(r),
           NEW j \in Jobs, Store!Holds(r, j)'
    PROVE  j = i
<1>1. Store!TypeOK /\ Store!HeldRowsAreLeased /\ UsedIfKnown(jobs[j]) /\ Labels[r] \in SUBSET Servers
  BY DEF TableInv
<1>2. j # i => HoldKept(r, j)
  BY <1>1, ClaimRow DEF RowKept
<1> QED
  BY <1>2 DEF HoldKept, HoldsNothing

\* Leaving the hands of others alone: steps in which nothing of r is done.
LEMMA OneJobFrame ==
    ASSUME NEW r \in Runners, OneJob(r), \A j \in Jobs : Store!Holds(r, j)' => Store!Holds(r, j),
           agent'[r] = agent[r], r \in orphans' => r \in orphans
    PROVE  OneJob(r)'
BY DEF OneJob, HoldsNothing, Busy

LEMMA OneJobNext ==
    ASSUME CallsGetThrough, ThreadInv, TableInv, OneJobInv, [Next]_vars
    PROVE  OneJobInv'
<1> USE DEF CallsGetThrough, network, history
<1>1. \A j \in Jobs : UsedIfKnown(jobs[j]) /\ UsedIfKnown(jobs'[j])
  BY TableCounts DEF OneJobInv, Counted
<1> SUFFICES ASSUME NEW r \in Runners PROVE OneJob(r)'
  BY <1>1 DEF OneJobInv
<1>2. OneJob(r) /\ agent \in [Runners -> Agent] /\ agent[r].at \in Stages
  BY DEF OneJobInv, ThreadInv, Agent
<1>3. ASSUME NEW i \in Jobs, PollClaim(r, i) PROVE OneJob(r)'
  <2>1. /\ agent' = [agent EXCEPT ![r] = Doing("got", i, Null)] /\ agent[r].at = "idle"
        /\ orphans' = orphans /\ Store!Claim(r, Labels[r], i)
    BY <1>3 DEF PollClaim, Become
  <2>2. HoldsNothing(r) /\ r \notin orphans
    BY <1>2, <2>1 DEF OneJob
  <2>3. agent'[r].at = "got" /\ agent'[r].job = i
    BY <1>2, <2>1 DEF Doing
  <2>4. \A j \in Jobs : Store!Holds(r, j)' => j = i
    BY <1>1, <2>1, <2>2, HeldByClaim
  <2> QED
    BY <2>1, <2>2, <2>3, <2>4 DEF OneJob, Busy
<1>4. ASSUME NEW i \in Jobs, OrphanClaim(r, i) PROVE OneJob(r)'
  <2>1. /\ agent' = agent /\ r \in orphans /\ r \notin orphans' /\ Store!Claim(r, Labels[r], i)
    BY <1>4 DEF OrphanClaim
  <2>2. HoldsNothing(r) /\ agent[r].at = "off"
    BY <1>2, <2>1 DEF OneJob
  <2>3. \A j \in Jobs : Store!Holds(r, j)' => j = i
    BY <1>1, <2>1, <2>2, HeldByClaim
  <2> QED
    BY <2>1, <2>2, <2>3 DEF OneJob, Busy
<1>5. ASSUME ~\E i \in Jobs : Claims(r, i) PROVE OneJob(r)'
  <2>0. \A j \in Jobs : Store!Holds(r, j)' => Store!Holds(r, j)
    BY <1>1, <1>5, HeldBefore
  <2>1. ASSUME agent'[r] = agent[r], r \in orphans' => r \in orphans PROVE OneJob(r)'
    BY <1>2, <2>0, <2>1, OneJobFrame
  <2>2. ASSUME agent'[r].at \in {"running", "reporting"}, agent'[r].job = agent[r].job,
               Busy(r), orphans' = orphans
        PROVE  OneJob(r)'
    BY <1>2, <2>0, <2>2 DEF OneJob, Busy
  <2>3. ASSUME NEW q \in Runners, MainStep(q), q # r PROVE OneJob(r)'
    <3>1. agent'[r] = agent[r] /\ orphans' = orphans
      BY <1>2, <2>3 DEF MainStep, PollClaim, PollEmpty, PollDropped, Refuse, NoSuite, Begin,
                        SuiteEnds, Report, TryAgain, Become
    <3> QED
      BY <2>1, <3>1
  <2>4. CASE MainStep(r)
    <3>1. CASE PollEmpty(r) \/ PollDropped(r) \/ \E i \in Jobs : PollClaim(r, i)
      BY <1>5, <2>1, <3>1 DEF PollEmpty, PollDropped, Claims
    <3>2. CASE Refuse(r)
      BY <1>2, <2>2, <3>2 DEF Refuse, Become, Doing, Busy
    <3>3. CASE NoSuite(r)
      BY <1>2, <2>2, <3>3 DEF NoSuite, Become, Doing, Busy
    <3>4. CASE Begin(r)
      BY <1>2, <2>2, <3>4 DEF Begin, Become, Doing, Busy
    <3>5. CASE \E e \in SuiteCodes : SuiteEnds(r, e)
      BY <1>2, <2>2, <3>5 DEF SuiteEnds, Become, Doing, Busy
    <3>6. CASE Report(r)
      <4>1. /\ agent[r].at = "reporting" /\ Busy(r) /\ orphans' = orphans
            /\ agent[r].job \in Jobs /\ agent[r].code \in ExitCodes
        BY <3>6 DEF Report, Busy, ThreadInv, InHand
      <4>2. PICK i \in Jobs : i = agent[r].job
        BY <4>1
      <4>3. ResultCall(r, i, agent[r].code) /\ \A j \in Jobs : Store!Holds(r, j) => j = i
        BY <1>2, <3>6, <4>1, <4>2 DEF Report, OneJob
      <4>4. ~Store!Holds(r, i)'
        <5>1. CASE Store!Holds(r, i)
          <6>1. Store!Finish(r, i, agent[r].code)
            BY <4>3, <5>1 DEF ResultCall
          <6> QED
            BY <1>1, <4>1, <6>1, FinishRow DEF TableInv
        <5>2. CASE ~Store!Holds(r, i)
          BY <2>0, <5>2
        <5> QED
          BY <5>1, <5>2
      <4>5. HoldsNothing(r)'
        BY <2>0, <4>3, <4>4 DEF HoldsNothing
      <4>6. r \notin orphans'
        BY <1>2, <4>1 DEF OneJob
      <4> QED
        BY <4>5, <4>6 DEF OneJob, HoldsNothing
    <3> QED
      BY <2>4, <3>1, <3>2, <3>3, <3>4, <3>5, <3>6 DEF MainStep
  <2>5. ASSUME NEW q \in Runners, OrphanStep(q) \/ Heartbeat(q) PROVE OneJob(r)'
    BY <2>1, <2>5 DEF OrphanStep, OrphanEmpty, OrphanClaim, Heartbeat
  <2>6. ASSUME NEW q \in Runners, Crash(q), q # r PROVE OneJob(r)'
    <3>1. agent'[r] = agent[r] /\ (r \in orphans' => r \in orphans)
      BY <1>2, <2>6 DEF Crash, Become
    <3> QED
      BY <2>1, <3>1
  <2>7. CASE Crash(r)
    <3>1. agent'[r].at = "off" /\ (r \in orphans' => r \in orphans \/ agent[r].at = "idle")
      BY <1>2, <2>7 DEF Crash, Become, Doing
    <3> QED
      BY <1>2, <2>0, <3>1 DEF OneJob, Busy, HoldsNothing
  <2>8. ~\E q \in Runners : Restart(q)
    BY DEF Restart
  <2>9. CASE \/ \E j \in Jobs, s \in Servers : SlackCommand(j, s)
             \/ \E q \in Runners, j \in Jobs, e \in ExitCodes : LateResult(q, j, e)
             \/ Tick \/ EdgeRestart \/ UNCHANGED vars
    BY <2>1, <2>9 DEF SlackCommand, LateResult, Tick, EdgeRestart, vars
  <2> QED
    BY <2>3, <2>4, <2>5, <2>6, <2>7, <2>8, <2>9 DEF Next
<1> QED
  BY <1>3, <1>4, <1>5 DEF Claims

\* "ONE JOB AT A TIME" (agent.py) where calls get through, whoever dies and whichever
\* heartbeats fail.
THEOREM OneJobEach == ASSUME CallsGetThrough PROVE Spec => []OneJobAtATime
<1>1. Init => OneJobInv
  BY DEF Init, Store!Init, Store!NoRow, Idle, Doing, OneJobInv, OneJob, HoldsNothing, Busy,
         UsedIfKnown, Store!Holds, Store!Held
<1>2. ThreadInv /\ TableInv /\ OneJobInv /\ [Next]_vars => OneJobInv'
  BY OneJobNext
<1>3. OneJobInv => OneJobAtATime
  BY DEF OneJobInv, OneJob, OneJobAtATime
<1> QED
  BY <1>1, <1>2, <1>3, ThreadsAreSound, TableIsSound, PTL DEF Spec
=============================================================================
