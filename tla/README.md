# A TLA+ model of slack-runtests

`slack-runtests` turns a slash command into a run of a test suite on a machine inside
a network, and reports back to the channel. This directory models the parts of it that
decide things: who gets a job, who keeps it, what is recorded, who may ask, and what
the channel gets to see. Paths below are those of the modules' comments: `src/` is the
root of the repository, so its own `src/` directory is `src/src/`.

Check one run with `tlc -workers 2 -config MCJobStore.cfg MCJobStore`, and the proofs of
a module with `tlapm JobStoreProofs.tla`. `PROJECT.json` lists the runs, the mutant that
each property was tried against, the lines each definition stands for, the findings, the
hazards and the theorems.

## 1. Inventory

| Component | State | Operations | Interacts with |
|---|---|---|---|
| **Job queue** `edge_server/store.py` | the `jobs` table in SQLite | `enqueue`, `claim` (with `_reap`), `mark_running`, `finish`, `renew`, `reap`; queries | called by the edge's handlers, each call a transaction |
| **Runner registry** `store.py`, `app.py`, `auth.py` | the `runners` table; the operator's `<runner_id>.pub` files | `enrol`, `touch`, `online`; `enroll`, `_authenticate` | every call of a test server passes `_authenticate` |
| **Edge handlers** `edge_server/app.py` | none beyond the store; long polls in memory | `/slack/commands`, `/runner/jobs/claim` (long poll), `/started`, `/result`, `/runner/heartbeat`, `/admin/fleet` | Slack, test servers |
| **Test server agent** `test_server/agent.py` | main thread: polling, or one job in hand; heartbeat thread | `run_forever`, `execute`, `_safe_result`, `_heartbeat_loop` | the edge by `client.py`, Slack by `reporter.py`, pytest |
| **Slack notifier** `slack.py` | `_ts`, `_last_edit` | `post`, `update`, `start`, `progress`, `finish` | Slack's Web API |
| **V1/V2 endpoint** `slack_runtests/api.py` | `_RUNS` in memory | `/slack/commands`, background tasks | local runner or GitHub |
| **Local runner** `runners/local.py` | one suite; `results.xml` in its directory | `run`, `_counts` | pytest, notifier |
| **GitHub runner** `runners/github.py`, `runtests.yml` | none | `dispatch` | GitHub, notifier |
| **Gate** `gate.py`, `signature.py`, `parsing.py` | none | `check`, `parse` | both endpoints |
| **Identity** `identity.py` | a key file | `load_or_create`, `sign`, `verify` | edge and test servers |

What is hard here is not any one of these but what happens between them: a claim is
committed before its reply is sent; a test server dies, or is only slow; a heartbeat
cannot tell which of its holder's jobs is still being run; a result is retried, or
arrives after its job went elsewhere; a long poll goes on when its client is gone; the
edge restarts with leases running; Slack fails for one call of a run and not for the
next. `PROJECT.json` lists these as hazards, each at its line, with the properties that
would show it going wrong.

What makes each component correct:

- *Queue.* A job is held by one test server at a time; a live lease is never broken;
  attempts are capped; an outcome is final; jobs for one environment start in order.
- *Fleet.* A suite is not started more often than the cap, nor twice at a time while
  heartbeats are in time; the record names an outcome that its test server sent to Slack;
  every job settles.
- *Registry.* A name keeps its key; who got in is known and online; who may get in does.
- *Notifier.* One message per notifier; throttled exactly; the summary gets through.
- *Commands.* One invocation is one run; only the entitled start one and nobody else
  learns anything; what the channel is told is so; no run is forgotten.
- *Lease.* It outlasts the heartbeats of a live test server, however slow, and not a dead
  one.

## 2. Modules

| Module | Models | Used by |
|---|---|---|
| `JobContract` | abstractly, what a queue promises: submit, assign, recover, complete | `JobStore` (`Promise`) |
| `JobStore` | the `jobs` table, one action per statement | `Fleet` (`Store == INSTANCE JobStore`) |
| `Fleet` | the table driven by the handlers and the agents' threads over a network that fails | |
| `LeaseClock` | one lease against heartbeats that take time, a database that is locked and a clock that jumps | |
| `Registry` | the `runners` table, enrolment, authentication | |
| `Gate` | the checks a slash command has to pass, as operators on a request | `Commands` (EXTENDS) |
| `RunContract` | abstractly, what may become of a run: taken on, closed with one outcome, or lost | `Commands` (`Promise`) |
| `Commands` | the three command endpoints, the background tasks of V1 and V2, GitHub's queue | |
| `Notifier` | one `SlackNotifier` from start to summary, and Slack | |
| `MC*` | small instances, and the sentences of the documentation that do not hold | the `.cfg` files |
| `*Proofs` | the theorems of the module they extend; `FleetRunsProofs` those of `Fleet` that follow a job between table and threads, `ChannelProofs` those about what `Commands` answers and announces | |

### JobStore

`jobs` maps a job id to its row, `absent` being the state of no row. A row keeps state,
server, runner, lease, attempts, creation rank and exit code; product, selection,
counts and wording decide nothing in the store. Time is relative: `lease` is
`lease_expires - now` in ticks and `Tick` moves all of them, so that the state space is
finite; a lease that ran out stays at -1, for the code only asks whether
`lease_expires < now`. `created` is the rank of `created_at`: the clock is taken to run
forward and no two rows to be stamped alike. `Claim` reaps the whole table and hands out
the oldest eligible row in one step, as its transaction does; `ClaimNothing` is the
claim that finds nothing and has still reaped. Calls that find no row change nothing and
have no action here; callers in `Fleet` spell them out. In `JobStore` anyone may call
anything at any time with any labels, so its properties do not rest on how test servers
behave.

`JobContract` has only phase, owner, tries and verdict. `Recover` gives back the jobs of
some test servers at once, because one `claim` reaps many rows; `Assign` recovers and
assigns in one step, because `claim` does. `ImplementsContract` is the refinement under
`Promise`; it hides leases, labels and order.

### Fleet

Each test server has a main thread, `agent[r]` (off, idle in the claim loop, `got` a job,
`running` a suite, `reporting`), and a heartbeat thread, the action `Heartbeat`. A
handler is one action with the store's action inside; only the long poll is not, since
its handler sleeps between claims: each round of it is an action, and a poll whose client
is gone lives on in `orphans`. `Report` is one try of `_safe_result`, with a 409 retried
like every other error, as the code does. `late` holds results that are carried out after
their sender gave up. `runs` and `said` are histories: how often a suite was started and
which outcomes were sent to Slack, and whether Slack took each. `Faults` chooses what may
go wrong: `crash`, `restart`, `loss` (of a request or a reply), `late`, `edge` (a restart
of the edge), `slack` (a message is not taken), `missed` (heartbeats fail for longer than a
lease).

With `slack` a message is logged and given up (`slack.py:210-219`) and `execute` goes on
to report the outcome to the edge, so the record may name an outcome that the channel
never heard of. `RecordMatchesAnnouncement` therefore says that the record's outcome was
sent by the test server the row names, and that Slack has it unless it did not take that
very message; without `slack`, that it is in the channel.

One tick is a time in which a live test server heartbeats at least once (unless heartbeats
are `missed`), so `LeaseTicks` stands for the heartbeats a lease spans. With the
defaults, 30 s against 120 s, it is at least 2; the runs use 0 or 1, which is harder.

Not in `Fleet`: that an earlier `/started` is carried out late; more than one orphaned
poll of one test server; authentication (`Registry`); counts, durations and texts; the
order of attempts' results (a result names no attempt). An exception that escapes
`execute` shows as a `Crash`, which may come at any point of it: output that is not text,
and a connection that Slack resets while its answer is read, which `_call` does not catch.
The latter ends the process after an outcome was sent and before it was reported.

### LeaseClock

`Fleet` has it that a live test server heartbeats in every tick. `LeaseClock` is what that
rests on: one test server and the row it holds, from the commit of its claim to the end of
the lease, in units of real time. The heartbeat thread waits `Interval`, calls for up to
`Timeout`; the edge reads its clock (`Take`), may then wait `LockWait` for the database,
and writes the lease by what it read (`Renew`), so that a lease may be that old when it is
granted. The first heartbeat may be anywhere in its loop when the claim is committed. Time
is relative: `age` is how old the lease is by the edge's clock, `stale` how far behind the
reading of a call under way is. A heartbeat comes to nothing because its request is lost
(`Miss`) or because the database stays locked (`Locked`).

`store.py:25-27`, `edge_server/config.py:55` and `edge/README.md:78` have it that four
heartbeats fit inside a lease and that only a test server that misses four in a row loses
its job. `LeaseIsEnough` is how many it may really miss, with
`(MaxMissed + 1) * (Interval + Timeout) + Timeout + 2 * LockWait + Skew <= Lease`: with 30 s,
15 s and 120 s it is one, as long as nobody waits for the database for more than 7.5 s. SQLite
waits for up to 10 s (`store.py:121`), and where both the lease's own write and the next one
do, not even one. The loop waits after a call has returned, so its period is `Interval` and
the call, which is what the sentence forgets.

`Timeout` is an assumption: httpx applies its `timeout=15` to each phase of a call, so a call
may take longer. It also covers the wait of `touch`, which authenticates the call before
`renew` reads its clock. The reply to a call that was given up is not awaited: if it is
carried out, it is within `Timeout`, or it counts as lost. The clock is set forward only,
and the model ends when the lease has.

### Commands and Gate

A request is a record of what the checks look at: how old, signed well or badly, from
which workspace, channel and user, with which trigger, and its words as shlex and argparse
take them apart. `Verdict` is `gate.check` in its order, with a refusal of its own for the
workspace, the channel and the user. Three exceptions that nobody catches become a 500: an
unclosed quote (`ValueError` in `parse`, although `tests/unit/test_api.py:117` has bad
commands answered in readable words), and in `is_valid` a timestamp too large for a float
(`OverflowError`) and a signature that is not ASCII (`TypeError` in `compare_digest`). `Reply` is what
the handler then answers, `Receive` the one answer that changes anything; the handlers
await nothing between looking for a run and recording it. `config` chooses the mode:
`local` (V1) and `github` (V2) keep `_RUNS` and a background task for each run, `edge`
keeps the table. `Restart` forgets the former two and leaves the table. Runs are numbered
in the order they were recorded, which is also the order of `started`.

A V1 task goes through `local_runner.run`: a start, the suite, the summary, or one of its
early returns; `Raises` is what it promises not to do and does. A V2 task is `dispatch`:
GitHub takes the run or not, and the answer is heard or not. An answer that is heard and is
not a 204 is assumed to mean that GitHub did not take the run, as GitHub documents it;
`DidNotRun` rests on that. The workflow tells a summary, or that its report could not be
read, or both (`disowned`): its except branch also catches what a summary raises that Slack
had taken.
`github` is the concurrency group of `runtests.yml`, one run active and one pending, a
later one superseding it. Of Slack only what is sent about a run is kept, and where to:
`said` is what the program says, and whether Slack takes it is `Notifier`'s subject.

`RunContract` has a fate for each number: unasked, open, closed with what was told, or lost.
Several runs may be lost in one step, because a restart loses all of a process. `FateOf` reads
it off: closed is a run of which an outcome was told, open one that is in hand and of which
none was, lost any other; at the edge every run stays open, for what becomes of it is
`Fleet`'s subject. `ImplementsContract` hides threads, GitHub, channels and what else is said,
and leaves that a run is begun and told of once and comes back neither from the end nor from
a process that died. An answer that was lost (`unreachable`) is no outcome: the run may be at
GitHub, and it is then open, or not, and it is then lost. A summary that is disowned counts
as the one outcome it is about.

`StrangersLearnNothing` compares requests two by two: from the same sender, at the same
moment, whoever is not let in gets the same answer whatever the words and whatever is on
record. A property of one request could only say which answers are allowed.

Not in `Commands`: a second uvicorn worker with a dict of its own (the source warns of
it); that `uv run` may be killed and its pytest go on (`local.py:84`); the death of a
self-hosted runner; the wording of replies and the edge's remark that nobody is online.

### Registry

A machine runs one test server under a name; two machines may share a name. A key is
`<<machine, how many keys it lost>>`, so keys never coincide. `Enrol` is a round of the
loop whose reply is heard, `EnrolUnheard` one whose reply is lost: the row is written all
the same. `Admitted` is the decision of `enroll`, in its order: the registry, then the
operator's file, then the token. `Call` stands for any authenticated call that gets
through; calls that do not are not seen, and `Tick` assumes only that a serving machine gets
one through every `MaxGap` ticks (`silent`), and `MaxGap <= OfflineAfter`. With the defaults
(30 s between heartbeats, calls of 15 s at most, a limit of 90 s) two heartbeats that get
through are at most 60 s apart; one lost in between fits in as well, unless all three calls
are slow (105 s). The instance takes the two equal, so that the boundary is met. Labels and the pinned key of the edge are left out.

### Notifier

`ts` is `_ts`: `"none"` for `None`, `"empty"` for `""`, `"own"` for a timestamp Slack
gave. `rest` is the time since `_last_edit`, `since` a history of when Slack was last
asked for an edit. Whether Slack does what it is asked is one thing and what the caller hears
another: `up` (done, answered), `down` and `mute` (not done, or done, and a failure that
`_call` catches: no connection, a timeout, no JSON), `broken` and `cut` (not done, or done, and
a failure that it does not catch, such as a connection reset while the answer is read). The
latter leave `post` before `_ts` is touched, so a caller that goes on posts again. `After`
is the caller: it is done for with what was raised, or has caught it; `caught` counts the
posts after which it went on, and `OneMessage` is one message and one more for each of
these. In this repository the workflow's last step goes on (`ExcuseRun`); the V1 runner does not.

The module is one notifier, not one run: `JobReporter` makes one for every message
(`reporter.py:12`) and the workflow has two, so a run has several messages by design.
Printing without a token is left out; then every call succeeds. `_last_edit` starts at 0.0
on the monotonic clock, taken to be long ago.

## 3. Runs

| Run | Instance | Shows |
|---|---|---|
| `store_safety` | 3 jobs, 2 environments, 2 test servers, cap 2, lease 1; 143,817 states up to symmetry | types, leases, cap, order, live leases, final outcomes; the refinement of `JobContract` |
| `fleet_faulty` | 1 job, 3 test servers, lease 0, all faults; 740,712 states up to symmetry | no more suites started than claims, no more claims than the cap; what is recorded was sent; refinement of `JobStore` |
| `fleet_prompt` | 2 jobs, 2 test servers, lease 1, all faults but `late` and `missed`; 289,154 states up to symmetry and history | job in hand = job on record; no suite twice at a time; nothing started or announced for a job that is over |
| `fleet_live` | 2 jobs, 2 environments, 2 test servers of which one may die for good | every job settles; one job at a time |
| `registry` | 3 machines, 2 of one name, one with the token, one lost key each, calls 2 ticks apart and a limit of 2; 75,504 states | keys, authentication, online, and that the authorised get in |
| `notifier` | gap 2, up to 4 progress calls; 13,350 states | one message but for posts that raised and were caught, exact throttle, the summary |
| `commands` | 4 configurations, 13 requests of which 9 should not get through, 2 threads, 3 runs, 1 restart; 181,706 states | one run per invocation, authorisation, nothing learnt by strangers, results, true announcements, no run forgotten; the refinement of `RunContract`; no run in hand for ever |
| `lease_clock` | the default timings in units of 5 s, a database locked for 5 s, one heartbeat missed, the clock set forward by 5 s; 32,626 states | a live test server keeps its job, a dead one's lease ends |

Four runs check a sentence of the repository and find it does not hold:

| Run | Sentence | What happens |
|---|---|---|
| `fleet_restart_strands` | "A test server that dies mid-run must not take the job with it." (`store.py:17`) | it dies, is started again under its name, and its heartbeats renew the lease of a job nobody runs |
| `fleet_one_job` | "One job at a time." (`test-server/README.md:142`) | a long poll whose connection dropped claims a second job for a test server that runs one |
| `notifier_summary_lost` | "Post the final summary." (`slack.py:285`) | after a first post that failed, the summary edits a message that does not exist |
| `commands_channel` | "results will post to {channel}" (`api.py:151`) | `runtests.yml` gives its notifiers no channel (77, 102), so they post to the default one |

Eight more sentences are at odds with the code, seen while modelling and without a run of
their own:

- `edge/README.md:79`: `JOB_MAX_ATTEMPTS` is "how many times a job may be requeued". It
  limits attempts, of which the first is no requeue (`store.py:302`, `AttemptsBounded`).
- `edge/README.md:107`: "Revoking it is deleting the file." `enroll` does not look at the
  file for a name in the registry (`app.py:299`), and nothing else looks at it.
- `store.py:25-27`: four heartbeats in a row may be missed; see `LeaseClock`.
- `local.py:56`: `run` "must also never raise". It does, for output that is not text; that
  is an exception `EveryRunIsAccountedFor` has to name.
- `agent.py:89`: "An unreadable report yields zeros". A missing one may be an earlier
  attempt's, for the file is named by the job.
- `slack.py:211`: "NEVER let a reporting failure fail the test run." The failures that
  `_call` does not catch end a V1 task and a test server's process (`Escapes`).
- `agent.py:205`: in `_safe_result`, "The Slack message has already gone out at this
  point". It was sent; that Slack took it nobody looked (`Taken`).
- `local.py:100`: "detail in results.xml". All runs of one directory write that file; what
  is found there is of the run that ended last. Nothing in the program reads it.

**Bounds.** Three jobs for two environments are the least in which order, routing and
reaping of several rows meet in one claim; a cap of 2 (the default) allows a job to be
recovered once and abandoned once. One job and three test servers suffice for what is
said of each job by itself under all faults; two jobs are needed for polls that claim
behind a running suite. `ReportTries` is 3 in the code; the runs that take 1 or 2 do so
to stay small, and 3 is used where liveness is checked. A lease of 0 ticks runs out one
tick after it is granted. Symmetry is used for safety only, on jobs and test servers;
`fleet_prompt` identifies states
that differ in the histories only, which no action reads. Of its properties only
`NothingAfterTheEnd` looks at them, by how a step changes them: a start always does, an
announcement unless it repeats one. The theorem does not depend on that identification,
and without `slack` TLC finds the same without it, in 6,267,292 states. `fleet_faulty`
takes one exit code for a suite: 4 and 5, for one that was refused or is missing, are
outcomes that differ from it.

In `commands` three runs are the least with one active, one pending and one superseded in
a group, or two in threads and one that waits; one restart distinguishes what survives it.
The requests are one invocation and its like: without a trigger, by another user, a
question for results, and nine that differ from these in a
few fields, at the boundaries of the age and just beyond, two of them by one sender in
different words, so that there is a pair for `StrangersLearnNothing`. The four configurations are the three modes, all
checks configured, and one in which nothing is. In `lease_clock` the settings meet
`LeaseIsEnough` with nothing to spare, so one tick less of lease breaks it.

**Fairness.** `Fleet!FairSpec` has weak fairness of each main thread (both loops run for
ever, requests and suites are bounded by timeouts, pytest by `job_timeout`), of each
heartbeat thread and of time. Slack commands and faults owe nothing; a test server that
is off owes nothing, and being started again is a fault, not a duty. `EveryJobSettles`
needs one test server that takes anything and does not die (`Reliable`), for the edge
reaps only when somebody claims: with nobody polling, nothing is requeued or abandoned.
It is checked without `loss` and `restart`; under `restart` it fails, which is the
finding. `Registry!FairSpec` lets an enrolment reply come through in the end, since the
loop retries without limit. `Commands!FairSpec` is fair to each run's task (a thread of
the pool becomes free because suites end or are killed after 15 minutes, and the event
loop gets round to what is due) and to each concurrency group (a self-hosted runner is
there, jobs have a timeout); nobody has to send anything, and no restart has to happen.

## 4. Proofs

All theorems are for any number of jobs, test servers, machines and environments, any
cap, lease, gap and choice of faults. They assume what the modules' `ASSUME`s say: `Null`
is no value, codes and limits are numbers, labels name environments.

**JobStoreProofs.** The invariants are not inductive by themselves. `AttemptsBounded` is
not, because `claim` never looks at `attempts`: the cap rests on `QueuedHasAttemptsLeft`,
that whatever is `queued` has attempts left, which reaping establishes row by row
(`ReapedKeepsRowInv`). `NoOvertaking` needs that new rows go to the back and that a row
that left the queue counts an attempt. `IInv` is the conjunction; each action keeps it,
one step each. The action properties and the refinement follow from `IInv` and `Next`.

**FleetProofs.** `FleetImplementsStore` goes through the handlers: each is a step of
`JobStore` or leaves the table alone, so what is proved of `JobStore` holds here:
its invariants (`TableIsSound`), that live leases are respected and records final
(`FleetRespectsLeases`, `FleetRecordsAreFinal`), and, since refinement is transitive, the
abstract contract (`FleetKeepsContract`): a handler of the edge, a thread of an agent and any
fault together do what `JobContract` allows, or nothing. `RecordsWereAnnounced` rests on `ThreadInv`: an outcome is sent to
Slack before it is reported, so whatever is being reported, or is late, was sent, and
`finish` accepts it only from the holder, whose name stays in the row.

**FleetRunsProofs.** Three invariants relate the table to the threads. For
`SuitesAreBounded` it is an account: a suite is started once for a claim that reached its
test server, so the suites started and the test servers that have the job in hand and have
not started it are together no more than the row's attempts; the number of test servers
must be finite for there to be a count. For `BusyServersKeepTheirJobs` it is that the lease
of a job in hand is as long as the heartbeats its holder still owes: a tick takes one from
the lease only when the holder has beaten, and the heartbeat gives it back. It needs that
no heartbeat is `missed`, that no result is `late` and that a lease spans a tick or more
(`Prompt`); two test servers with one job in hand would then both be the holder, whence
`SuitesAreExclusive`; and since runs and announcements are only ever added for a job in hand
(`OnlyHandsAct`), none is added for one that is over, which is no longer held by anybody
(`TheEndIsTheEnd`). For `OneJobEach` it is that an idle or dead test server without a
lost reply has nothing on record but what it died with, where calls get through
(`CallsGetThrough`). `Prompt` and `CallsGetThrough` are conditions on the faults: without
them the properties are false, the first three under late results and missed heartbeats, the
last as `fleet_one_job` shows.

`OnlyTheDeadAreReplaced` is about the whole system and no run's property. Its condition is
`Steady`: no test server dies and heartbeats come in time, with a lease of at least a tick,
while requests and replies may be lost, results late, polls orphaned and the edge restarted
at will. Then no lease ever runs out (`SteadyInv`: a lease is whole, or is one tick short and
its holder has yet to beat), so reaping does nothing (`NothingToReap`), no job is claimed twice
or given up, and by `SuitesAreBounded` no suite is started twice. On two jobs and two test
servers TLC agrees (18,812 states), and finds it false when a crash may happen or the lease
is 0. It is the other side of `fleet_restart_strands`: what is lost on the way is not done twice, but
waits for as long as the test server lives that does not know of it.

**LeaseClockProofs.** The invariant is an account of how old the lease can have become at
each point of the heartbeat loop: `Base` is what has been spent on heartbeats that came to
nothing, a slow claim and a clock set forward; each phase of the loop adds its own time.
`LeaseIsEnough` is what keeps it below `Lease` to the end of the call that gets through.
The proof holds for every setting that satisfies it, not only for the defaults.

**CommandsProofs.** `InvocationIsOneRun` needs that whatever this process recorded, or the
edge ever did, is still on record (`OnRecord`), for the check is made against the record and
the property is about the history. `RunsAreAuthorised` follows the gate
through `Reply`; `GateComesFirst` shows first that the gate's verdict on somebody who is not let in
is a function of the sender alone (`SenderDecides`). `NoRunIsForgotten` needs that a run that is active or pending at GitHub
and a task that is still under way are in hand, and what is said of a run stays said; it
goes through each step of the tasks, the workflow and a restart.

**ChannelProofs.** What `Commands` answers and what the channel is told. `TypesAreKnown`
needs that a number found in a task, in the record, at GitHub or in a message was given to a
run. `LatestIsAnswered` rests on `TriggersAreUnique`, by which no question has the key of a
run, so asking for results never counts as one; that the runs of a channel have a latest
follows from their being bounded, by the library's well-foundedness of `<`. `ChannelIsTold`
needs `Truth`: a run has one task at most and nothing final is said of it while it has one;
a run whose task has not asked GitHub, or was refused, has nothing there; and a run of which
an end was told is no longer in hand. `CommandsImplementContract` adds to it where a run may be
at GitHub: only in its own group and in one place of it (`Places`), so that what supersedes or
concludes a run touches no other, and in none once the workflow has told its outcome (`Gone`);
and that two outcomes told are one (`OneOutcome`). Every step then loses some runs, closes one,
begins one or changes no fate (`Losing`, `Closing`, `Beginning`), which are the steps of
`RunContract`.

**RegistryProofs.** `ServingIsAuthenticated` is inductive with the types: whoever is let
in under a known name holds its key, and keys differ between machines, so it is nobody
else (`NobodyElseServes`). `ServingIsOnline` needs `SeenOfLate`: a serving machine's name
was seen when the machine last called, or since; it holds for any `MaxGap` up to `OfflineAfter`.

**NotifierProofs.** While `_ts` is `None` there are no more messages than posts that raised
and were caught (`OneMessageEach`), and what the notifier remembers of its last edit is what
Slack saw (`rest = since`).

**Model-checked only.** Liveness (`EveryJobSettles`, `AuthorisedGetsIn`, `RunsComeToAnEnd`)
is out of the prover's reach.

## 5. Not modelled

- *Identity.* Ed25519, key files and replies' signatures are cryptography: a signature is
  good or bad, a machine has one key until it loses it. A key file half written
  (`identity.py:129`) is not covered.
- *Configuration and entry points.* Environment variables become constants.
- *Read-only surfaces.* `/admin/fleet`, `/healthz`, `/edge/identity`, `job`, `recent` and
  `counts` change nothing; what the edge's reply says of who is online is for a person.
- *Texts and counts.* What pytest prints, how `_counts` and `counts_from_junit` take it
  apart, how many tests failed: no state of the program depends on them. That a report may
  be an earlier attempt's is named in section 3.
- *Attempts by number.* A result names no attempt, so one of an earlier attempt may be
  taken for the present one (`store.py:275`). `RecordMatchesAnnouncement` says the row and the
  channel agree on an outcome that test server had, not on which attempt had it.
- *Labels that change.* A test server that is started again with other labels while an
  earlier poll of its own is open may be handed a job by the old ones (`app.py:382`).
- *Slack's limit per app.* Runs share nothing that could keep it (`slack.py:58`).
- *A database or key that is removed* under a running edge, which no code does.

GitHub, Slack and pytest are environments: what the code sees of them is modelled where
it is. In `JobStore` and `Fleet` the clock never runs backwards and no transaction waits
for another; `LeaseClock` has both the wait and a clock that is set forward.

## 6. Plan

Done: the queue (`JobContract`, `JobStore`), the queue under handlers, agents and faults
(`Fleet`, which implements `JobContract` too), enrolment (`Registry`), the notifier
(`Notifier`), commands (`Gate`, `Commands`, `RunContract`), the lease in time (`LeaseClock`),
each with its proofs.

Of the theorems, what is left is the converse of `OnlyTheDeadAreReplaced`, how many jobs a dead
test server can hold back, and bounds on `late` and `orphans`.

What would come next, in this order: one attempt in detail (`execute` with the
errors that escape it, and reports left by an earlier attempt);
`Registry` composed with `Fleet`, for labels that change and rows that are lost; several
notifiers under one limit of Slack's.
