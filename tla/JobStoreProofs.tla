--------------------------- MODULE JobStoreProofs ---------------------------
(***************************************************************************)
(* Proofs about JobStore, for any number of jobs, test servers,            *)
(* environments and exit codes, any attempt limit and any lease.           *)
(***************************************************************************)
EXTENDS JobStore, TLAPS

-----------------------------------------------------------------------------
(***************************************************************************)
(* The inductive invariant: what is true of every row by itself, and how   *)
(* the order of rows relates to who has been handed out.                   *)
(***************************************************************************)

\* Only a job with attempts left waits in the queue.  claim does not look at the
\* attempts, so the cap rests on this being so of every row that reaches `queued`.
QueuedHasAttemptsLeft(row) ==
    row.state = "queued" => row.attempts = 0 \/ row.attempts < MaxAttempts

\* A row before its first claim, waiting, held or given up carries no outcome,
\* and one that waits no owner.
NoEarlyOutcome(row) ==
    /\ row.state \in {"absent", "queued"} \cup Held => row.exit = Null
    /\ row.state \in {"absent", "queued"} => row.runner = Null

\* A row that left the queue was claimed at least once, an absent one never.
ClaimedIsCounted(row) ==
    /\ row.state \in Held \cup Terminal => row.attempts > 0
    /\ row.state = "absent" => row.attempts = 0

RowInv(row) == /\ row \in Row
               /\ HeldRowIsLeased(row)
               /\ row.attempts <= AttemptLimit
               /\ QueuedHasAttemptsLeft(row)
               /\ NoEarlyOutcome(row)
               /\ ClaimedIsCounted(row)

\* New rows go to the back.
CreatedInThePast == \A j \in Jobs : jobs[j].state # "absent" => jobs[j].created < arrivals

IInv == /\ jobs = [j \in Jobs |-> jobs[j]]
        /\ \A j \in Jobs : RowInv(jobs[j])
        /\ arrivals \in Nat
        /\ CreatedInThePast
        /\ NoOvertaking

USE NullIsNoValue, ExitCodesAreIntegers, MaxAttemptsIsInteger, LeaseIsDuration

-----------------------------------------------------------------------------
\* What a reap does to one row: it keeps the invariant, moves nothing but an
\* expired held row, and touches neither the order nor the count of attempts.
LEMMA ReapedKeepsRowInv ==
    ASSUME NEW row, RowInv(row)
    PROVE  /\ RowInv(Reaped(row))
           /\ Reaped(row).attempts = row.attempts
           /\ Reaped(row).created = row.created
           /\ Reaped(row).server = row.server
           /\ Reaped(row).state = "absent" <=> row.state = "absent"
<1> DEFINE new == Reaped(row)
<1>1. CASE ~Expired(row)
  BY <1>1 DEF Reaped
<1>2. CASE Expired(row) /\ row.attempts < MaxAttempts
  <2>1. new = Requeued(row)
    BY <1>2 DEF Reaped
  <2>2. new \in Row
    BY <1>2, <2>1 DEF Requeued, RowInv, Row, States
  <2> QED
    BY <1>2, <2>1, <2>2 DEF Requeued, RowInv, Row, Expired, Held, Terminal, HeldRowIsLeased,
       QueuedHasAttemptsLeft, NoEarlyOutcome, ClaimedIsCounted
<1>3. CASE Expired(row) /\ ~(row.attempts < MaxAttempts)
  <2>1. new = Abandoned(row)
    BY <1>3 DEF Reaped
  <2>2. new \in Row
    BY <1>3, <2>1 DEF Abandoned, RowInv, Row, States, Terminal
  <2> QED
    BY <1>3, <2>1, <2>2 DEF Abandoned, RowInv, Row, Expired, Held, Terminal, HeldRowIsLeased,
       QueuedHasAttemptsLeft, NoEarlyOutcome, ClaimedIsCounted
<1> QED
  BY <1>1, <1>2, <1>3

\* Claiming a queued row makes it held and leased, within the attempt limit.
LEMMA LeasedKeepsRowInv ==
    ASSUME NEW row, RowInv(row), row.state = "queued", NEW r \in Runners
    PROVE  /\ RowInv(Leased(row, r))
           /\ Leased(row, r).attempts = row.attempts + 1
           /\ Leased(row, r).created = row.created
           /\ Leased(row, r).server = row.server
           /\ Leased(row, r).state = "claimed"
<1> DEFINE new == Leased(row, r)
<1>1. new \in Row
  <2>1. row.attempts + 1 \in Nat /\ LeaseTicks \in -1..LeaseTicks /\ row \in Row
    BY DEF RowInv, Row
  <2>2. "claimed" \in States
    BY DEF States, Held
  <2> QED
    BY <2>1, <2>2 DEF Leased, Row
<1>2. new.attempts <= AttemptLimit
  BY DEF Leased, RowInv, Row, AttemptLimit, QueuedHasAttemptsLeft
<1> QED
  BY <1>1, <1>2 DEF Leased, RowInv, Row, Held, Terminal, HeldRowIsLeased,
     QueuedHasAttemptsLeft, NoEarlyOutcome, ClaimedIsCounted

-----------------------------------------------------------------------------
\* A step that moves no row in the order, inserts none, and counts attempts only
\* on rows it hands out oldest first keeps the order invariants.
LEMMA OrderKept ==
    ASSUME IInv,
           UNCHANGED arrivals,
           \A j \in Jobs : /\ jobs'[j].created = jobs[j].created
                           /\ jobs'[j].server = jobs[j].server
                           /\ jobs'[j].state = "absent" <=> jobs[j].state = "absent"
                           /\ jobs'[j].attempts = jobs[j].attempts
    PROVE  CreatedInThePast' /\ NoOvertaking'
BY DEF IInv, CreatedInThePast, NoOvertaking

\* What all rows are after a reap of the whole table.
LEMMA ReapedTable ==
    ASSUME IInv
    PROVE  /\ ReapedJobs = [j \in Jobs |-> ReapedJobs[j]]
           /\ \A j \in Jobs : /\ RowInv(ReapedJobs[j])
                              /\ ReapedJobs[j].attempts = jobs[j].attempts
                              /\ ReapedJobs[j].created = jobs[j].created
                              /\ ReapedJobs[j].server = jobs[j].server
                              /\ ReapedJobs[j].state = "absent" <=> jobs[j].state = "absent"
<1> SUFFICES ASSUME NEW j \in Jobs
             PROVE  /\ RowInv(ReapedJobs[j])
                    /\ ReapedJobs[j].attempts = jobs[j].attempts
                    /\ ReapedJobs[j].created = jobs[j].created
                    /\ ReapedJobs[j].server = jobs[j].server
                    /\ ReapedJobs[j].state = "absent" <=> jobs[j].state = "absent"
  BY DEF ReapedJobs
<1>1. RowInv(jobs[j])
  BY DEF IInv
<1>2. ReapedJobs[j] = Reaped(jobs[j])
  BY DEF ReapedJobs
<1> QED
  BY <1>1, <1>2, ReapedKeepsRowInv

-----------------------------------------------------------------------------
LEMMA InitInv == Init => IInv
BY DEF Init, IInv, NoRow, RowInv, Row, States, Held, Terminal, HeldRowIsLeased, AttemptLimit,
   QueuedHasAttemptsLeft, NoEarlyOutcome, ClaimedIsCounted, CreatedInThePast, NoOvertaking

\* One lemma per action, each for the rows first and the order after.
LEMMA EnqueueInv ==
    ASSUME IInv, NEW j \in Jobs, NEW s \in Servers, Enqueue(j, s)
    PROVE  IInv'
<1> DEFINE new == NewRow(s, arrivals)
<1>1. jobs' = [jobs EXCEPT ![j] = new] /\ arrivals' = arrivals + 1 /\ jobs[j].state = "absent"
  BY DEF Enqueue
<1>2. RowInv(new)
  <2>1. new \in Row
    BY DEF NewRow, Row, States, IInv
  <2> QED
    BY <2>1 DEF NewRow, RowInv, Held, Terminal, HeldRowIsLeased, AttemptLimit,
       QueuedHasAttemptsLeft, NoEarlyOutcome, ClaimedIsCounted
<1>3. \A k \in Jobs : RowInv(jobs'[k])
  BY <1>1, <1>2 DEF IInv
<1>4. new.created = arrivals /\ new.attempts = 0 /\ new.state = "queued"
  BY DEF NewRow
<1>5. CreatedInThePast'
  <2> SUFFICES ASSUME NEW k \in Jobs, jobs'[k].state # "absent"
               PROVE  jobs'[k].created < arrivals'
    BY DEF CreatedInThePast
  <2>1. CASE k = j
    <3>1. jobs'[k] = new /\ arrivals \in Nat
      BY <1>1, <2>1 DEF IInv
    <3> QED
      BY <1>1, <1>4, <3>1
  <2>2. CASE k # j
    <3>1. jobs[k].created < arrivals /\ jobs[k].created \in Nat
      BY <1>1, <2>2 DEF IInv, CreatedInThePast, RowInv, Row
    <3> QED
      BY <1>1, <2>2, <3>1 DEF IInv
  <2> QED
    BY <2>1, <2>2
<1>6. NoOvertaking'
  <2> SUFFICES ASSUME NEW k \in Jobs, NEW l \in Jobs,
                      jobs'[k].state # "absent", jobs'[l].state # "absent",
                      jobs'[k].server = jobs'[l].server,
                      jobs'[k].created < jobs'[l].created,
                      jobs'[l].attempts > 0
               PROVE  jobs'[k].attempts > 0
    BY DEF NoOvertaking
  <2>1. l # j /\ jobs'[l] = jobs[l]
    BY <1>1, <1>4 DEF IInv
  <2>2. k # j
    <3>1. jobs[l].created < arrivals /\ jobs[l].created \in Nat
      BY <2>1 DEF IInv, CreatedInThePast, RowInv, Row
    <3> QED
      BY <1>1, <1>4, <2>1, <3>1 DEF IInv
  <2> QED
    BY <1>1, <2>1, <2>2 DEF IInv, NoOvertaking
<1> QED
  BY <1>1, <1>3, <1>5, <1>6 DEF IInv

LEMMA ReapInv ==
    ASSUME IInv, jobs' = ReapedJobs, UNCHANGED arrivals
    PROVE  IInv'
<1>1. CreatedInThePast' /\ NoOvertaking'
  BY ReapedTable, OrderKept
<1> QED
  BY <1>1, ReapedTable DEF IInv

LEMMA ClaimInv ==
    ASSUME IInv, NEW r \in Runners, NEW labels \in SUBSET Servers, NEW j \in Jobs,
           Claim(r, labels, j)
    PROVE  IInv'
<1> DEFINE row == ReapedJobs[j]
<1>1. /\ jobs' = [ReapedJobs EXCEPT ![j] = Leased(row, r)]
      /\ UNCHANGED arrivals
      /\ row.state = "queued"
      /\ labels = {} \/ row.server \in labels
  BY DEF Claim, Oldest, Eligible
<1>2. RowInv(row)
  BY ReapedTable
<1>3. /\ RowInv(Leased(row, r))
      /\ Leased(row, r).attempts = row.attempts + 1
      /\ Leased(row, r).created = row.created
      /\ Leased(row, r).server = row.server
      /\ Leased(row, r).state = "claimed"
  BY <1>1, <1>2, LeasedKeepsRowInv
<1>4. \A k \in Jobs : RowInv(jobs'[k])
  BY <1>1, <1>3, ReapedTable
<1>5. \A k \in Jobs : /\ jobs'[k].created = jobs[k].created
                      /\ jobs'[k].server = jobs[k].server
                      /\ jobs'[k].state = "absent" <=> jobs[k].state = "absent"
                      /\ k # j => jobs'[k].attempts = jobs[k].attempts
  BY <1>1, <1>3, ReapedTable
<1>6. CreatedInThePast'
  BY <1>1, <1>5 DEF IInv, CreatedInThePast
<1>7. NoOvertaking'
  <2> SUFFICES ASSUME NEW k \in Jobs, NEW l \in Jobs,
                      jobs'[k].state # "absent", jobs'[l].state # "absent",
                      jobs'[k].server = jobs'[l].server,
                      jobs'[k].created < jobs'[l].created,
                      jobs'[l].attempts > 0
               PROVE  jobs'[k].attempts > 0
    BY DEF NoOvertaking
  <2>1. jobs[k].attempts \in Nat /\ jobs[k].created \in Nat /\ jobs[l].created \in Nat
    BY DEF IInv, RowInv, Row
  <2>2. CASE k = j
    BY <1>1, <1>3, <2>1, <2>2, ReapedTable
  <2>3. CASE k # j /\ l # j
    BY <1>5, <2>3 DEF IInv, NoOvertaking
  <2>4. CASE k # j /\ l = j
    \* j is the oldest eligible row and k is older: k was not waiting.
    <3>1. ReapedJobs[k].server = row.server /\ ~(row.created <= ReapedJobs[k].created)
      BY <1>5, <2>1, <2>4, ReapedTable
    <3>2. ~Eligible(ReapedJobs[k], labels)
      BY <3>1 DEF Claim, Oldest
    <3>3. ReapedJobs[k].state \in Held \cup Terminal
      BY <1>1, <1>5, <3>1, <3>2, ReapedTable DEF Eligible, RowInv, Row, States
    <3>4. ReapedJobs[k].attempts > 0
      BY <3>3, ReapedTable DEF RowInv, ClaimedIsCounted
    <3> QED
      BY <1>5, <2>4, <3>4, ReapedTable
  <2> QED
    BY <2>2, <2>3, <2>4
<1>8. jobs' = [k \in Jobs |-> jobs'[k]]
  BY <1>1, ReapedTable
<1> QED
  BY <1>1, <1>4, <1>6, <1>7, <1>8 DEF IInv

LEMMA MarkRunningInv ==
    ASSUME IInv, NEW r \in Runners, NEW j \in Jobs, MarkRunning(r, j)
    PROVE  IInv'
<1> DEFINE new == [jobs[j] EXCEPT !.state = "running"]
<1>1. jobs' = [jobs EXCEPT ![j] = new] /\ UNCHANGED arrivals /\ jobs[j].state = "claimed"
  BY DEF MarkRunning, HoldsClaimed
<1>2. RowInv(jobs[j])
  BY DEF IInv
<1>3. new \in Row
  BY <1>2 DEF RowInv, Row, States, Held
<1>4. RowInv(new)
  BY <1>1, <1>2, <1>3 DEF RowInv, Row, Held, Terminal, HeldRowIsLeased,
     QueuedHasAttemptsLeft, NoEarlyOutcome, ClaimedIsCounted
<1>5. CreatedInThePast' /\ NoOvertaking'
  BY <1>1, <1>2, OrderKept DEF IInv, RowInv, Row
<1> QED
  BY <1>1, <1>4, <1>5 DEF IInv

LEMMA FinishInv ==
    ASSUME IInv, NEW r \in Runners, NEW j \in Jobs, NEW e \in ExitCodes, Finish(r, j, e)
    PROVE  IInv'
<1> DEFINE new == [jobs[j] EXCEPT !.state = IF e = 0 THEN "done" ELSE "failed",
                                  !.exit = e, !.lease = Null]
<1>1. jobs' = [jobs EXCEPT ![j] = new] /\ UNCHANGED arrivals /\ jobs[j].state \in Held
  BY DEF Finish, Holds
<1>2. RowInv(jobs[j])
  BY DEF IInv
<1>3. new \in Row
  BY <1>2 DEF RowInv, Row, States, Terminal
<1>4. RowInv(new)
  BY <1>1, <1>2, <1>3 DEF RowInv, Row, Held, Terminal, HeldRowIsLeased,
     QueuedHasAttemptsLeft, NoEarlyOutcome, ClaimedIsCounted
<1>5. CreatedInThePast' /\ NoOvertaking'
  BY <1>1, <1>2, OrderKept DEF IInv, RowInv, Row, Held
<1> QED
  BY <1>1, <1>4, <1>5 DEF IInv

\* Heartbeats and the clock set leases and nothing else.
LEMMA LeaseInv ==
    ASSUME IInv, UNCHANGED arrivals,
           jobs' = [j \in Jobs |-> jobs'[j]],
           \A j \in Jobs : \/ jobs'[j] = jobs[j]
                           \/ /\ jobs[j].lease # Null
                              /\ \E t \in -1..LeaseTicks : jobs'[j] = [jobs[j] EXCEPT !.lease = t]
    PROVE  IInv'
<1>1. ASSUME NEW j \in Jobs
      PROVE  /\ RowInv(jobs'[j])
             /\ jobs'[j].created = jobs[j].created
             /\ jobs'[j].server = jobs[j].server
             /\ jobs'[j].state = "absent" <=> jobs[j].state = "absent"
             /\ jobs'[j].attempts = jobs[j].attempts
  <2>1. RowInv(jobs[j])
    BY DEF IInv
  <2>2. CASE jobs'[j] = jobs[j]
    BY <2>1, <2>2
  <2>3. ASSUME jobs[j].lease # Null, NEW t \in -1..LeaseTicks,
               jobs'[j] = [jobs[j] EXCEPT !.lease = t]
        PROVE  /\ RowInv(jobs'[j])
               /\ jobs'[j].created = jobs[j].created
               /\ jobs'[j].server = jobs[j].server
               /\ jobs'[j].state = "absent" <=> jobs[j].state = "absent"
               /\ jobs'[j].attempts = jobs[j].attempts
    BY <2>1, <2>3 DEF RowInv, Row, HeldRowIsLeased, QueuedHasAttemptsLeft, NoEarlyOutcome,
       ClaimedIsCounted
  <2> QED
    BY <2>2, <2>3
<1>2. CreatedInThePast' /\ NoOvertaking'
  BY <1>1, OrderKept
<1> QED
  BY <1>1, <1>2 DEF IInv

LEMMA RenewInv ==
    ASSUME IInv, NEW r \in Runners, Renew(r)
    PROVE  IInv'
<1>1. \A j \in Jobs : Holds(r, j) => jobs[j].lease # Null
  BY DEF IInv, RowInv, HeldRowIsLeased, Holds
<1> QED
  BY <1>1, LeaseInv DEF Renew

LEMMA TickInv ==
    ASSUME IInv, Tick
    PROVE  IInv'
<1>1. \A j \in Jobs : jobs[j].lease \notin {Null, -1} => jobs[j].lease - 1 \in -1..LeaseTicks
  BY DEF IInv, RowInv, Row
<1> QED
  BY <1>1, LeaseInv DEF Tick

LEMMA NextInv == IInv /\ [Next]_vars => IInv'
<1> SUFFICES ASSUME IInv, [Next]_vars
             PROVE  IInv'
  OBVIOUS
<1>1. CASE \E j \in Jobs, s \in Servers : Enqueue(j, s)
  BY <1>1, EnqueueInv
<1>2. ASSUME NEW r \in Runners, RunnerCall(r)
      PROVE  IInv'
  BY <1>2, ClaimInv, MarkRunningInv, FinishInv, RenewInv DEF RunnerCall
<1>3. CASE \E labels \in SUBSET Servers : ClaimNothing(labels)
  BY <1>3, ReapInv DEF ClaimNothing
<1>4. CASE Reap
  BY <1>4, ReapInv DEF Reap
<1>5. CASE Tick
  BY <1>5, TickInv
<1>6. CASE UNCHANGED vars
  BY <1>6 DEF vars, IInv, CreatedInThePast, NoOvertaking
<1> QED
  BY <1>1, <1>2, <1>3, <1>4, <1>5, <1>6 DEF Next

THEOREM InvariantHolds == Spec => []IInv
BY InitInv, NextInv, PTL DEF Spec

-----------------------------------------------------------------------------
\* The state invariants of JobStore.

\* Every row is always one the schema and the statements of store.py allow.
THEOREM TypeCorrect == Spec => []TypeOK
<1>1. IInv => TypeOK
  BY DEF IInv, TypeOK, RowInv
<1> QED
  BY <1>1, InvariantHolds, PTL

\* A row is held exactly while it has a lease, by a known test server, so no job
\* is ever held in a way the reaper cannot see (claim, finish, _reap).
THEOREM HeldAreLeased == Spec => []HeldRowsAreLeased
<1>1. IInv => HeldRowsAreLeased
  BY DEF IInv, HeldRowsAreLeased, RowInv
<1> QED
  BY <1>1, InvariantHolds, PTL

\* No job is handed out more often than max_attempts, or once when that is less
\* than one, although claim itself never looks at the attempts (claim, _reap).
THEOREM AttemptsAreBounded == Spec => []AttemptsBounded
<1>1. IInv => AttemptsBounded
  BY DEF IInv, AttemptsBounded, RowInv
<1> QED
  BY <1>1, InvariantHolds, PTL

\* Jobs for one environment are first handed out in the order they were asked for,
\* through any number of requeues and claims with any labels (claim).
THEOREM NobodyOvertakes == Spec => []NoOvertaking
<1>1. IInv => NoOvertaking
  BY DEF IInv
<1> QED
  BY <1>1, InvariantHolds, PTL

-----------------------------------------------------------------------------
\* The action properties of JobStore.

\* A reap leaves alone a row that is not both held and expired.
LEMMA ReapedSpares ==
    ASSUME IInv, NEW j \in Jobs, ~Expired(jobs[j])
    PROVE  ReapedJobs[j] = jobs[j]
BY DEF ReapedJobs, Reaped

\* What any step does to one row that is held under a live lease, or terminal.
LEMMA StepOnSettledRow ==
    ASSUME IInv, [Next]_vars, NEW j \in Jobs
    PROVE  LiveLeaseKept(jobs[j], jobs'[j]) /\ RecordKept(jobs[j], jobs'[j])
<1> DEFINE Good == LiveLeaseKept(jobs[j], jobs'[j]) /\ RecordKept(jobs[j], jobs'[j])
<1> USE DEF LiveLeaseKept, RecordKept
<1>0. RowInv(jobs[j]) /\ jobs[j] \in Row
  BY DEF IInv, RowInv
<1>1. CASE jobs'[j] = jobs[j]
  BY <1>1
<1>2. CASE jobs'[j] = ReapedJobs[j]
  <2>1. CASE Expired(jobs[j])
    BY <1>0, <2>1 DEF Expired, Held, Terminal, Row
  <2>2. CASE ~Expired(jobs[j])
    BY <1>2, <2>2, ReapedSpares
  <2> QED
    BY <2>1, <2>2
<1>3. ASSUME NEW i \in Jobs, NEW s \in Servers, Enqueue(i, s)
      PROVE  Good
  BY <1>0, <1>1, <1>3 DEF Enqueue, IInv, Held, Terminal
<1>4. ASSUME NEW r \in Runners, NEW labels \in SUBSET Servers, NEW i \in Jobs,
             Claim(r, labels, i)
      PROVE  Good
  <2>1. jobs' = [ReapedJobs EXCEPT ![i] = Leased(@, r)] /\ ReapedJobs[i].state = "queued"
    BY <1>4 DEF Claim, Oldest, Eligible
  <2>2. CASE i # j
    BY <1>2, <2>1, <2>2, ReapedTable
  <2>3. CASE i = j /\ ~Expired(jobs[j])
    BY <2>1, <2>3, ReapedSpares DEF Held, Terminal
  <2>4. CASE i = j /\ Expired(jobs[j])
    BY <1>0, <2>4 DEF Expired, Held, Terminal, Row
  <2> QED
    BY <2>2, <2>3, <2>4
<1>5. ASSUME NEW r \in Runners, NEW i \in Jobs, MarkRunning(r, i)
      PROVE  Good
  <2>1. CASE i # j
    BY <1>1, <1>5, <2>1 DEF MarkRunning, IInv
  <2>2. CASE i = j
    BY <1>0, <1>5, <2>2 DEF MarkRunning, HoldsClaimed, IInv, Row, Terminal
  <2> QED
    BY <2>1, <2>2
<1>6. ASSUME NEW r \in Runners, NEW i \in Jobs, NEW e \in ExitCodes, Finish(r, i, e)
      PROVE  Good
  <2>1. CASE i # j
    BY <1>1, <1>6, <2>1 DEF Finish, IInv
  <2>2. CASE i = j
    BY <1>0, <1>6, <2>2 DEF Finish, Holds, IInv, Row, Held, Terminal
  <2> QED
    BY <2>1, <2>2
<1>7. ASSUME NEW r \in Runners, Renew(r)
      PROVE  Good
  BY <1>0, <1>7 DEF Renew, Holds, Row, Held, Terminal
<1>8. CASE Tick
  <2>1. jobs[j].state \in Terminal => jobs[j].lease = Null
    BY <1>0 DEF RowInv, HeldRowIsLeased, Held, Terminal
  <2> QED
    BY <1>0, <1>8, <2>1 DEF Tick, Row, Held
<1> QED
  BY <1>1, <1>2, <1>3, <1>4, <1>5, <1>6, <1>7, <1>8
     DEF Next, RunnerCall, ClaimNothing, Reap, vars

\* No claim, reap or retry takes a job from the test server that holds it before
\* its lease has run out (claim, _reap, enqueue).
THEOREM LiveLeaseIsNotStolen == Spec => LiveLeaseNotStolen
<1>1. IInv /\ [Next]_vars => [\A j \in Jobs : LiveLeaseKept(jobs[j], jobs'[j])]_vars
  BY StepOnSettledRow
<1> QED
  BY <1>1, InvariantHolds, PTL DEF Spec, LiveLeaseNotStolen

\* A recorded outcome is final: no later call changes a done, failed or abandoned
\* row (finish, mark_running, renew, _reap, enqueue).
THEOREM TerminalRowsStay == Spec => TerminalRowsAreFinal
<1>1. IInv /\ [Next]_vars => [\A j \in Jobs : RecordKept(jobs[j], jobs'[j])]_vars
  BY StepOnSettledRow
<1> QED
  BY <1>1, InvariantHolds, PTL DEF Spec, TerminalRowsAreFinal

-----------------------------------------------------------------------------
(***************************************************************************)
(* The queue implements JobContract.  The rows a reap moves are the jobs   *)
(* the contract calls lost.                                                *)
(***************************************************************************)
Book == [j \in Jobs |-> EntryOf(jobs[j])]

ExpiredJobs == {j \in Jobs : Expired(jobs[j])}

\* The phases of an expired, a requeued and an abandoned row.
LEMMA ReapedEntry ==
    ASSUME IInv, NEW j \in Jobs
    PROVE  EntryOf(ReapedJobs[j]) = Promise!After(ExpiredJobs)[j]
<1> DEFINE row == jobs[j]
<1>1. RowInv(row) /\ ReapedJobs[j] = Reaped(row) /\ Book[j] = EntryOf(row)
  BY DEF IInv, ReapedJobs, Book
<1>2. Promise!After(ExpiredJobs)[j] =
          IF j \in ExpiredJobs THEN Promise!Recovered(EntryOf(row)) ELSE EntryOf(row)
  BY DEF Promise!After
<1>3. CASE ~Expired(row)
  BY <1>1, <1>2, <1>3 DEF Reaped, ExpiredJobs
<1>4. CASE Expired(row) /\ row.attempts < MaxAttempts
  <2>1. EntryOf(row).tries < AttemptLimit /\ row.exit = Null
    BY <1>1, <1>4 DEF EntryOf, AttemptLimit, RowInv, Row, NoEarlyOutcome, Expired
  <2>2. Promise!Recovered(EntryOf(row)) = Promise!Entry("waiting", Null, row.attempts, Null)
    BY <2>1 DEF Promise!Recovered, EntryOf
  <2>3. Requeued(row) = [row EXCEPT !.state = "queued", !.runner = Null, !.lease = Null]
    BY DEF Requeued
  <2>4. /\ Requeued(row).state = "queued" /\ Requeued(row).runner = Null
        /\ Requeued(row).attempts = row.attempts /\ Requeued(row).exit = Null
    BY <1>1, <2>1, <2>3 DEF RowInv, Row
  <2>5. EntryOf(Requeued(row)) = Promise!Entry("waiting", Null, row.attempts, Null)
    <3>1. PhaseOf(Requeued(row)) = "waiting"
      BY <2>4 DEF PhaseOf, Held
    <3> QED
      BY <2>4, <3>1 DEF EntryOf, Promise!Entry
  <2> QED
    BY <1>1, <1>2, <1>4, <2>2, <2>5 DEF Reaped, ExpiredJobs
<1>5. CASE Expired(row) /\ ~(row.attempts < MaxAttempts)
  <2>1. ~(EntryOf(row).tries < AttemptLimit)
    BY <1>1, <1>5 DEF EntryOf, AttemptLimit, RowInv, Row, ClaimedIsCounted, Expired
  <2>2. Promise!Recovered(EntryOf(row)) = [EntryOf(row) EXCEPT !.phase = "closed"]
    BY <2>1 DEF Promise!Recovered
  <2>3. /\ Abandoned(row).state = "abandoned" /\ Abandoned(row).runner = row.runner
        /\ Abandoned(row).attempts = row.attempts /\ Abandoned(row).exit = row.exit
    BY <1>1 DEF Abandoned, RowInv, Row
  <2>4. EntryOf(Abandoned(row)) = [EntryOf(row) EXCEPT !.phase = "closed"]
    BY <2>3 DEF EntryOf, PhaseOf, Held
  <2> QED
    BY <1>1, <1>2, <1>5, <2>2, <2>4 DEF Reaped, ExpiredJobs
<1> QED
  BY <1>3, <1>4, <1>5

LEMMA ExpiredAreAssigned ==
    ASSUME IInv
    PROVE  ExpiredJobs \in SUBSET Promise!Assigned
BY DEF ExpiredJobs, Expired, Promise!Assigned, EntryOf, PhaseOf, Held

\* Every step of the queue is one of the contract, or none.
LEMMA StepRefines ==
    ASSUME IInv, [Next]_vars
    PROVE  [Promise!Next]_Book
<1> DEFINE After == Promise!After(ExpiredJobs)
           Step == Promise!Next \/ Book' = Book
<1>0. ASSUME NEW j \in Jobs
      PROVE  Book[j] = EntryOf(jobs[j]) /\ Book'[j] = EntryOf(jobs'[j])
  BY DEF Book
<1>1. CASE \A j \in Jobs : EntryOf(jobs'[j]) = EntryOf(jobs[j])
  BY <1>1 DEF Book
<1>2. CASE jobs' = ReapedJobs
  <2>1. Book' = After
    BY <1>2, ReapedEntry DEF Book, Promise!After
  <2> QED
    BY <2>1, ExpiredAreAssigned DEF Promise!Next, Promise!Recover, Book
<1>3. ASSUME NEW j \in Jobs, NEW s \in Servers, Enqueue(j, s)
      PROVE  Step
  <2>1. /\ jobs' = [jobs EXCEPT ![j] = NewRow(s, arrivals)]
        /\ jobs[j].state = "absent" /\ RowInv(jobs[j])
    BY <1>3 DEF Enqueue, IInv
  <2>2. EntryOf(jobs[j]) = [phase |-> "new", owner |-> Null, tries |-> 0, verdict |-> Null]
    BY <2>1 DEF EntryOf, PhaseOf, RowInv, NoEarlyOutcome, ClaimedIsCounted
  <2>3. EntryOf(NewRow(s, arrivals)) =
            [phase |-> "waiting", owner |-> Null, tries |-> 0, verdict |-> Null]
    <3>1. /\ NewRow(s, arrivals).state = "queued" /\ NewRow(s, arrivals).runner = Null
          /\ NewRow(s, arrivals).attempts = 0 /\ NewRow(s, arrivals).exit = Null
      BY DEF NewRow
    <3>2. PhaseOf(NewRow(s, arrivals)) = "waiting"
      BY <3>1 DEF PhaseOf, Held
    <3> QED
      BY <3>1, <3>2 DEF EntryOf
  <2>4. Book' = [Book EXCEPT ![j].phase = "waiting"]
    <3>1. EntryOf(jobs'[j]) = [EntryOf(jobs[j]) EXCEPT !.phase = "waiting"]
      BY <2>1, <2>2, <2>3 DEF IInv
    <3>2. \A k \in Jobs : k # j => jobs'[k] = jobs[k]
      BY <2>1 DEF IInv
    <3> QED
      BY <3>1, <3>2 DEF Book
  <2>5. Promise!Submit(j)
    BY <2>2, <2>4 DEF Promise!Submit, Book
  <2> QED
    BY <2>5 DEF Promise!Next
<1>4. ASSUME NEW r \in Runners, NEW labels \in SUBSET Servers, NEW j \in Jobs,
             Claim(r, labels, j)
      PROVE  Step
  <2> DEFINE row == ReapedJobs[j]
  <2>1. /\ jobs' = [ReapedJobs EXCEPT ![j] = Leased(row, r)]
        /\ row.state = "queued" /\ RowInv(row)
    BY <1>4, ReapedTable DEF Claim, Oldest, Eligible
  <2>2. After[j] = EntryOf(row)
    BY ReapedEntry
  <2>3. After[j].phase = "waiting" /\ After[j].tries = row.attempts
    BY <2>1, <2>2 DEF EntryOf, PhaseOf, Held
  <2>4. After[j].tries < AttemptLimit
    BY <2>1, <2>3 DEF RowInv, Row, QueuedHasAttemptsLeft, AttemptLimit
  <2>5. /\ Leased(row, r).state = "claimed" /\ Leased(row, r).runner = r
        /\ Leased(row, r).attempts = row.attempts + 1 /\ Leased(row, r).exit = Null
    BY <2>1 DEF Leased, RowInv, Row, NoEarlyOutcome
  <2>6. EntryOf(Leased(row, r)) = Promise!Entry("assigned", r, After[j].tries + 1, Null)
    BY <2>3, <2>5 DEF EntryOf, PhaseOf, Held, Promise!Entry
  <2>7. Book' = [After EXCEPT ![j] = Promise!Entry("assigned", r, @.tries + 1, Null)]
    BY <2>1, <2>6, ReapedEntry, ReapedTable DEF Book, Promise!After
  <2>8. Promise!Assign(ExpiredJobs, j, r)
    BY <2>3, <2>4, <2>7 DEF Promise!Assign, Book
  <2> QED
    BY <2>8, ExpiredAreAssigned DEF Promise!Next
<1>5. ASSUME NEW r \in Runners, NEW j \in Jobs, MarkRunning(r, j)
      PROVE  Step
  <2>1. /\ jobs' = [jobs EXCEPT ![j].state = "running"]
        /\ jobs[j].state = "claimed" /\ jobs[j] \in Row
    BY <1>5 DEF MarkRunning, HoldsClaimed, IInv, RowInv
  <2>2. PhaseOf(jobs[j]) = "assigned" /\ PhaseOf(jobs'[j]) = "assigned"
    BY <2>1 DEF PhaseOf, Held, IInv, Row
  <2>3. EntryOf(jobs'[j]) = EntryOf(jobs[j])
    BY <2>1, <2>2 DEF EntryOf, Row, IInv
  <2> QED
    BY <1>1, <2>1, <2>3 DEF IInv
<1>6. ASSUME NEW r \in Runners, NEW j \in Jobs, NEW e \in ExitCodes, Finish(r, j, e)
      PROVE  Step
  <2> DEFINE new == [jobs[j] EXCEPT !.state = IF e = 0 THEN "done" ELSE "failed",
                                    !.exit = e, !.lease = Null]
  <2>1. /\ jobs' = [jobs EXCEPT ![j] = new]
        /\ jobs[j].state \in Held /\ jobs[j] \in Row
    BY <1>6 DEF Finish, Holds, IInv, RowInv
  <2>2. /\ new.state \in {"done", "failed"} /\ new.exit = e
        /\ new.runner = jobs[j].runner /\ new.attempts = jobs[j].attempts
    BY <2>1 DEF Row
  <2>3. PhaseOf(new) = "closed" /\ PhaseOf(jobs[j]) = "assigned"
    BY <2>1, <2>2 DEF PhaseOf, Held
  <2>4. EntryOf(new) = Promise!Entry("closed", jobs[j].runner, jobs[j].attempts, e)
    BY <2>2, <2>3 DEF EntryOf, Promise!Entry
  <2>5. Book' = [Book EXCEPT ![j] = Promise!Entry("closed", @.owner, @.tries, e)]
    <3>1. EntryOf(jobs[j]).owner = jobs[j].runner /\ EntryOf(jobs[j]).tries = jobs[j].attempts
      BY DEF EntryOf
    <3>2. jobs'[j] = new /\ \A k \in Jobs : k # j => jobs'[k] = jobs[k]
      BY <2>1 DEF IInv
    <3> HIDE DEF new
    <3> QED
      BY <2>4, <3>1, <3>2 DEF Book
  <2>6. j \in Promise!Assigned
    BY <2>3 DEF Promise!Assigned, EntryOf
  <2>7. Promise!Complete(j, e)
    BY <2>5, <2>6 DEF Promise!Complete, Book
  <2> QED
    BY <2>7 DEF Promise!Next
<1>7. ASSUME \A j \in Jobs : \/ jobs'[j] = jobs[j]
                             \/ \E t : jobs'[j] = [jobs[j] EXCEPT !.lease = t]
      PROVE  Step
  <2>1. ASSUME NEW j \in Jobs, NEW t, jobs'[j] = [jobs[j] EXCEPT !.lease = t]
        PROVE  EntryOf(jobs'[j]) = EntryOf(jobs[j])
    <3>1. jobs[j] \in Row
      BY DEF IInv, RowInv
    <3>2. /\ jobs'[j].state = jobs[j].state /\ jobs'[j].runner = jobs[j].runner
          /\ jobs'[j].attempts = jobs[j].attempts /\ jobs'[j].exit = jobs[j].exit
      BY <2>1, <3>1 DEF Row
    <3>3. PhaseOf(jobs'[j]) = PhaseOf(jobs[j])
      BY <3>2 DEF PhaseOf
    <3> QED
      BY <3>2, <3>3 DEF EntryOf
  <2> QED
    BY <1>1, <1>7, <2>1
<1>8. ASSUME NEW r \in Runners, Renew(r)
      PROVE  Step
  BY <1>7, <1>8 DEF Renew
<1>9. CASE Tick
  BY <1>7, <1>9 DEF Tick
<1> QED
  BY <1>1, <1>2, <1>3, <1>4, <1>5, <1>6, <1>8, <1>9
     DEF Next, RunnerCall, ClaimNothing, Reap, vars

\* Whatever the interleaving of claims, results, heartbeats, reaps and time, the
\* queue does what JobContract promises (all of Store's statements on jobs).
THEOREM StoreImplementsContract == Spec => ImplementsContract
<1>1. Init => Promise!Init
  <2>1. /\ NoRow.state = "absent" /\ NoRow.runner = Null
        /\ NoRow.attempts = 0 /\ NoRow.exit = Null
    BY DEF NoRow
  <2>2. EntryOf(NoRow) = Promise!Blank
    <3>1. PhaseOf(NoRow) = "new"
      BY <2>1 DEF PhaseOf, Held
    <3> QED
      BY <2>1, <3>1 DEF EntryOf, Promise!Blank, Promise!Entry
  <2> QED
    BY <2>2 DEF Init, Promise!Init
<1>2. IInv /\ [Next]_vars => [Promise!Next]_Book
  BY StepRefines
<1> QED
  BY <1>1, <1>2, InvariantHolds, PTL DEF Spec, ImplementsContract, Promise!Spec, Book
=============================================================================
