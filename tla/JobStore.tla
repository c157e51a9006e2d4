------------------------------ MODULE JobStore ------------------------------
(***************************************************************************)
(* The job queue of the edge: the `jobs` table of                          *)
(* src/edge/edge_server/store.py and the statements that change it.  Each  *)
(* statement is one SQLite transaction, so each is one action.             *)
(*                                                                         *)
(* Time is kept relative: the `lease` of a row is lease_expires - now in   *)
(* ticks, so the passing of time is the action Tick and a lease has run    *)
(* out when it is negative.  It is not counted below -1: the code compares *)
(* lease_expires with now and never looks at how far apart they are.       *)
(* `created` is the rank of created_at among the rows: the clock that      *)
(* stamps the rows is taken not to run backwards and not to stamp two rows *)
(* alike.  Product, selection, counts and summary travel with a row and    *)
(* decide nothing in this file; the exit code does.                        *)
(***************************************************************************)
EXTENDS Integers

CONSTANTS Jobs,         \* the job ids that can be asked for
          Runners,      \* the ids of the test servers
          Servers,      \* the environments a job can name, and a test server declare
          ExitCodes,    \* the exit codes a result can carry
          MaxAttempts,  \* max_attempts: JOB_MAX_ATTEMPTS, any integer
          LeaseTicks,   \* lease_seconds, in ticks
          Null          \* SQL's NULL

ASSUME NullIsNoValue ==
    /\ Null \notin Runners
    /\ Null \notin Servers
    /\ Null \notin Int
ASSUME ExitCodesAreIntegers == ExitCodes \subseteq Int
ASSUME MaxAttemptsIsInteger == MaxAttempts \in Int
ASSUME LeaseIsDuration == LeaseTicks \in Nat

VARIABLES jobs,      \* job id -> its row; "absent" is the state of no row at all
          arrivals   \* how many rows have been inserted

vars == <<jobs, arrivals>>

-----------------------------------------------------------------------------
Held == {"claimed", "running"}
Terminal == {"done", "failed", "abandoned"}
States == {"absent", "queued"} \cup Held \cup Terminal

Row == [state: States,
        server: Servers \cup {Null},
        runner: Runners \cup {Null},
        lease: (-1..LeaseTicks) \cup {Null},
        attempts: Nat,
        created: Nat,
        exit: ExitCodes \cup {Null}]

NoRow == [state |-> "absent", server |-> Null, runner |-> Null, lease |-> Null,
          attempts |-> 0, created |-> 0, exit |-> Null]

NewRow(s, rank) == [state |-> "queued", server |-> s, runner |-> Null, lease |-> Null,
                    attempts |-> 0, created |-> rank, exit |-> Null]

Init == /\ jobs = [j \in Jobs |-> NoRow]
        /\ arrivals = 0

-----------------------------------------------------------------------------
\* Definitions named <definition>_<slip> are slips the code could have made and did
\* not.  No action uses them: the properties are tried against them.

\* _reap: a held row whose lease ran out is requeued, or abandoned when it has
\* had its attempts.  An abandoned row keeps its runner_id.
Expired_AtTheBoundary(row) == row.state \in Held /\ row.lease # Null /\ row.lease <= 0

Expired(row) == /\ row.state \in Held
                /\ row.lease # Null
                /\ row.lease < 0

Requeued_KeepsRunner(row) == [row EXCEPT !.state = "queued", !.lease = Null]

Requeued(row) == [row EXCEPT !.state = "queued", !.runner = Null, !.lease = Null]

Abandoned(row) == [row EXCEPT !.state = "abandoned", !.lease = Null]

Reaped_OnceTooOften(row) == IF ~Expired(row) THEN row
                            ELSE IF row.attempts <= MaxAttempts THEN Requeued(row)
                            ELSE Abandoned(row)

Reaped_Never(row) == row

Reaped(row) == IF ~Expired(row) THEN row
               ELSE IF row.attempts < MaxAttempts THEN Requeued(row)
               ELSE Abandoned(row)

ReapedJobs == [j \in Jobs |-> Reaped(jobs[j])]

\* A test server without labels takes anything, a labelled one only jobs for
\* an environment it declares.
Eligible(row, labels) == /\ row.state = "queued"
                         /\ labels = {} \/ row.server \in labels

\* The first row the loop of claim accepts: ORDER BY created_at ASC.
Oldest_IsNewest(table, labels, j) ==
    /\ Eligible(table[j], labels)
    /\ \A k \in Jobs : Eligible(table[k], labels) => table[j].created >= table[k].created

Oldest(table, labels, j) ==
    /\ Eligible(table[j], labels)
    /\ \A k \in Jobs : Eligible(table[k], labels) => table[j].created <= table[k].created

Leased(row, r) == [row EXCEPT !.state = "claimed", !.runner = r,
                              !.lease = LeaseTicks, !.attempts = @ + 1]

-----------------------------------------------------------------------------
\* enqueue, when the id is new.  INSERT OR IGNORE leaves a known id alone.
Enqueue(j, s) ==
    /\ jobs[j].state = "absent"
    /\ jobs' = [jobs EXCEPT ![j] = NewRow(s, arrivals)]
    /\ arrivals' = arrivals + 1

\* claim, when it hands over job j: reap and claim are one transaction.
Claim(r, labels, j) ==
    /\ Oldest(ReapedJobs, labels, j)
    /\ jobs' = [ReapedJobs EXCEPT ![j] = Leased(@, r)]
    /\ UNCHANGED arrivals

\* claim, when the queue holds nothing for these labels: it has still reaped.
ClaimNothing(labels) ==
    /\ \A j \in Jobs : ~Eligible(ReapedJobs[j], labels)
    /\ jobs' = ReapedJobs
    /\ UNCHANGED arrivals

HoldsClaimed(r, j) == jobs[j].runner = r /\ jobs[j].state = "claimed"

Holds_InAnyState(r, j) == jobs[j].runner = r
Holds_ForAnyone(r, j) == jobs[j].state \in Held
Holds(r, j) == jobs[j].runner = r /\ jobs[j].state \in Held

\* mark_running, when its WHERE clause finds the row.
MarkRunning(r, j) ==
    /\ HoldsClaimed(r, j)
    /\ jobs' = [jobs EXCEPT ![j].state = "running"]
    /\ UNCHANGED arrivals

Finish_KeepsLease(r, j, e) ==
    /\ Holds(r, j)
    /\ jobs' = [jobs EXCEPT ![j] = [@ EXCEPT !.state = IF e = 0 THEN "done" ELSE "failed",
                                             !.exit = e]]
    /\ UNCHANGED arrivals

\* finish, when its WHERE clause finds the row.
Finish(r, j, e) ==
    /\ Holds(r, j)
    /\ jobs' = [jobs EXCEPT ![j] = [@ EXCEPT !.state = IF e = 0 THEN "done" ELSE "failed",
                                             !.exit = e,
                                             !.lease = Null]]
    /\ UNCHANGED arrivals

Renew_AddsUp(r) ==
    /\ jobs' = [j \in Jobs |-> IF Holds(r, j) THEN [jobs[j] EXCEPT !.lease = @ + LeaseTicks]
                               ELSE jobs[j]]
    /\ UNCHANGED arrivals

Renew_ClaimedOnly(r) ==
    /\ jobs' = [j \in Jobs |-> IF HoldsClaimed(r, j) THEN [jobs[j] EXCEPT !.lease = LeaseTicks]
                               ELSE jobs[j]]
    /\ UNCHANGED arrivals

\* renew: everything the test server holds, run out or not.
Renew(r) ==
    /\ jobs' = [j \in Jobs |-> IF Holds(r, j) THEN [jobs[j] EXCEPT !.lease = LeaseTicks]
                               ELSE jobs[j]]
    /\ UNCHANGED arrivals

\* reap, the method by itself.
Reap ==
    /\ jobs' = ReapedJobs
    /\ UNCHANGED arrivals

\* The clock moves on by one tick.
Tick ==
    /\ jobs' = [j \in Jobs |-> IF jobs[j].lease \notin {Null, -1}
                               THEN [jobs[j] EXCEPT !.lease = @ - 1]
                               ELSE jobs[j]]
    /\ UNCHANGED arrivals

\* Anybody may call anything at any time.
RunnerCall(r) ==
    \/ \E labels \in SUBSET Servers, j \in Jobs : Claim(r, labels, j)
    \/ \E j \in Jobs : MarkRunning(r, j)
    \/ \E j \in Jobs, e \in ExitCodes : Finish(r, j, e)
    \/ Renew(r)

Next ==
    \/ \E j \in Jobs, s \in Servers : Enqueue(j, s)
    \/ \E r \in Runners : RunnerCall(r)
    \/ \E labels \in SUBSET Servers : ClaimNothing(labels)
    \/ Reap
    \/ Tick

Spec == Init /\ [][Next]_vars

-----------------------------------------------------------------------------
\* Every row is one the schema and the statements allow; in particular no
\* lease is ever longer than the one a claim grants (store.py, SCHEMA).
TypeOK == /\ jobs \in [Jobs -> Row]
          /\ arrivals \in Nat

\* A lease is what brings a job back when its test server dies, so a row is
\* held exactly while it has one, and whoever holds it is known: a held row
\* with no lease would be stranded for ever (claim, finish, _reap).
HeldRowIsLeased(row) ==
    /\ row.state \in Held <=> row.lease # Null
    /\ row.state \in Held => row.runner # Null

HeldRowsAreLeased == \A j \in Jobs : HeldRowIsLeased(jobs[j])

\* "attempts is capped so a job that kills its runner cannot kill all three
\* in turn" (store.py module comment).  The cap is tested when a row is reaped
\* and never when it is claimed, so a limit below one still allows one attempt.
AttemptLimit == IF MaxAttempts > 1 THEN MaxAttempts ELSE 1

AttemptsBounded == \A j \in Jobs : jobs[j].attempts <= AttemptLimit

\* Of two jobs for one environment the one asked for later is never handed out
\* before the earlier one has been handed out, whatever labels the claims
\* come with and however often rows are requeued in between (claim).
NoOvertaking ==
    \A j, k \in Jobs :
        /\ jobs[j].state # "absent" /\ jobs[k].state # "absent"
        /\ jobs[j].server = jobs[k].server
        /\ jobs[j].created < jobs[k].created
        /\ jobs[k].attempts > 0
        => jobs[j].attempts > 0

\* While its lease has not run out nobody takes a job from the test server that
\* holds it: another test server's claim, a reap and a Slack retry of the command
\* leave the row with its holder, on the same attempt (claim, _reap, enqueue).
LiveLeaseKept(row, next) ==
    row.state \in Held /\ row.lease >= 0
        => next.runner = row.runner /\ next.attempts = row.attempts

LiveLeaseNotStolen == [][\A j \in Jobs : LiveLeaseKept(jobs[j], jobs'[j])]_vars

\* A recorded outcome is never altered: not by a late or repeated result, a late
\* heartbeat, a reap, or the Slack retry of a command already carried out.
RecordKept(row, next) == row.state \in Terminal => next = row

TerminalRowsAreFinal == [][\A j \in Jobs : RecordKept(jobs[j], jobs'[j])]_vars

-----------------------------------------------------------------------------
\* What the queue promises with the lease, the routing and the order hidden.
PhaseOf(row) == CASE row.state = "absent" -> "new"
                  [] row.state = "queued" -> "waiting"
                  [] row.state \in Held -> "assigned"
                  [] OTHER -> "closed"

EntryOf(row) == [phase |-> PhaseOf(row), owner |-> row.runner,
                 tries |-> row.attempts, verdict |-> row.exit]

Promise == INSTANCE JobContract WITH
    Cap <- AttemptLimit, Nobody <- Null, book <- [j \in Jobs |-> EntryOf(jobs[j])]

\* The queue implements the contract: whatever the interleaving of claims,
\* results, heartbeats, reaps and time, each step is a step of JobContract.
ImplementsContract == Promise!Spec
=============================================================================
