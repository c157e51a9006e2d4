------------------------------ MODULE Commands ------------------------------
(***************************************************************************)
(* From a slash command to what the channel is told of it.  The endpoints: *)
(* commands of src/src/slack_runtests/api.py in its modes "local" (V1) and *)
(* "github" (V2), and slack_commands of edge_server/app.py ("edge"), both  *)
(* behind the gate.  Behind them: the background tasks of V1               *)
(* (runners/local.py) and V2 (runners/github.py), GitHub and the workflow  *)
(* runtests.yml.  What becomes of a run at the edge is Fleet's subject.    *)
(*                                                                         *)
(* Slack sends a request, or sends it again, at any time: a handler awaits *)
(* nothing between looking for a run and recording it, and is one action.  *)
(* The process that serves V1 or V2 may die with its dict and its tasks;   *)
(* the edge's table and GitHub survive.                                    *)
(***************************************************************************)
EXTENDS Gate, FiniteSets, Sequences

CONSTANTS Configs,     \* what the environment may configure
          Requests,    \* what Slack, or somebody else, may send
          Default,     \* DEFAULT_CHANNEL
          Threads,     \* size of the thread pool that background tasks run in
          MaxRuns,     \* bound: how many runs are recorded
          MaxRestarts  \* bound: how often the process dies

ASSUME ModesAreKnown == \A c \in Configs : c.mode \in {"local", "github", "edge"}
ASSUME PoolHasThreads == Threads \in Nat \ {0}
ASSUME RunsAreBounded == MaxRuns \in Nat /\ MaxRestarts \in Nat
ASSUME AgesAreIntegers == \A req \in Requests : req.age \in Int
\* A trigger_id is one invocation's: what Slack sends again has the same form.
ASSUME TriggersAreUnique ==
    \A p, q \in Requests : p.trigger = q.trigger /\ p.trigger # "" =>
        p.text = q.text /\ p.channel = q.channel /\ p.user = q.user

\* trigger_id, or the text where there is none; the id is a hash of it.
Key(req) == IF req.trigger = "" THEN <<"text", req.text>> ELSE <<"trigger", req.trigger>>
Keys == {Key(req) : req \in Requests}

VARIABLES config,     \* what is configured, with the mode
          restarts,   \* how often the process was started anew
          runs,       \* history: every run that was ever recorded, in order
          record,     \* _RUNS, or the edge's table: which run a key stands for
          tasks,      \* background tasks: the run and how far it is
          github,     \* per product and server: the run that runs, the one that waits
          superseded, \* history: the runs GitHub dropped for later ones
          said        \* what was said in Slack, of which run, where

vars == <<config, restarts, runs, record, tasks, github, superseded, said>>

mode == config.mode

\* A run is known by its number.
None == 0
Groups == Products \X Servers
Group(n) == <<runs[n].product, runs[n].server>>

Init == /\ config \in Configs
        /\ restarts = 0
        /\ runs = <<>>
        /\ record = [k \in Keys |-> None]
        /\ tasks = {}
        /\ github = [g \in Groups |-> [active |-> None, pending |-> None]]
        /\ superseded = {}
        /\ said = {}

Message(what, n, where) == [what |-> what, run |-> n, where |-> where]
Say(what, n, where) == said' = said \cup {Message(what, n, where)}

-----------------------------------------------------------------------------
\* The endpoints.

Channel(req) == IF req.channel = "" THEN Default ELSE req.channel

Run(req) == [key     |-> Key(req),
             product |-> Parsed(req.text).product,
             server  |-> Parsed(req.text).server,
             channel |-> Channel(req),
             life    |-> restarts,
             by      |-> req]

\* The runs of a product that are on record.
Of(product) == {n \in 1..Len(runs) : runs[n].product = product /\ record[runs[n].key] = n}

Latest_First(product) ==
    IF Of(product) = {} THEN None ELSE CHOOSE n \in Of(product) : \A m \in Of(product) : n <= m

\* _last_run_for, last_for: by the time they started.
Latest(product) ==
    IF Of(product) = {} THEN None ELSE CHOOSE n \in Of(product) : \A m \in Of(product) : m <= n

Answer(what, n) == [what |-> what, run |-> n]

\* What the handler answers to a request that arrives now.
Reply(req) ==
    LET verdict == Verdict(config, req)
        known == record[Key(req)]
    IN  IF verdict # "ok" THEN Answer(verdict, None)
        ELSE IF Parsed(req.text).action = "results"
             THEN Answer("results", IF known # None THEN known ELSE Latest(Parsed(req.text).product))
        ELSE IF known # None THEN Answer("already", known)
        ELSE Answer("queued", Len(runs) + 1)

Remember_WhenDispatched(key, n) == UNCHANGED record
Remember(key, n) == record' = [record EXCEPT ![key] = n]

Task(n, at) == [run |-> n, at |-> at]

\* Every other answer leaves things as they are.  At the edge there is no task: test
\* servers ask for the run.
Receive(req) ==
    LET n == Len(runs) + 1 IN
    /\ Reply(req).what = "queued" /\ n <= MaxRuns
    /\ runs' = Append(runs, Run(req))
    /\ Remember(Key(req), n)
    /\ tasks' = IF mode = "edge" THEN tasks ELSE tasks \cup {Task(n, "waiting")}
    /\ UNCHANGED <<config, restarts, github, superseded, said>>

-----------------------------------------------------------------------------
\* V1: the background task is run, in a thread of the pool.  Of select and marker,
\* which it checks anew, none is refused that the gate let through.

Move(t, at) == tasks' = (tasks \ {t}) \cup {Task(t.run, at)}
Drop_WithoutReturn(t) == UNCHANGED tasks
Drop(t) == tasks' = tasks \ {t}

Busy_WhenRaised == {t \in tasks : t.at \in {"running", "ended", "raised"}}
Busy == {t \in tasks : t.at \in {"running", "ended"}}

\* V1's tasks need a thread of the pool, V2's run in the event loop.
HasThread(t) == mode = "local" => t \in Busy \/ Cardinality(Busy) < Threads

NoSuite(t) ==
    /\ mode = "local" /\ t.at = "waiting" /\ HasThread(t)
    /\ Say("nothing", t.run, runs[t.run].channel)
    /\ Drop(t)
    /\ UNCHANGED <<github, superseded>>

Begin(t) ==
    /\ mode = "local" /\ t.at = "waiting" /\ HasThread(t)
    /\ Say("starting", t.run, runs[t.run].channel)
    /\ Move(t, "running")
    /\ UNCHANGED <<github, superseded>>

SuiteEnds(t) ==
    /\ mode = "local" /\ t.at = "running"
    /\ Move(t, "ended")
    /\ UNCHANGED <<github, superseded, said>>

\* The counts are of what this run's own pytest printed; results.xml, which every run
\* writes in the one working directory, nobody reads.
Finish(t) ==
    /\ mode = "local" /\ t.at = "ended"
    /\ Say("summary", t.run, runs[t.run].channel)
    /\ Drop(t)
    /\ UNCHANGED <<github, superseded>>

GiveUp_Quietly(t, what) == UNCHANGED said
GiveUp(t, what) == Say(what, t.run, runs[t.run].channel)

\* Killed after a quarter of an hour, or not to be started at all.
GivesUp(t) ==
    /\ mode = "local" /\ t.at = "running"
    /\ GiveUp(t, "killed") \/ GiveUp(t, "unstartable")
    /\ Drop(t)
    /\ UNCHANGED <<github, superseded>>

\* What neither task expects and nobody catches: output that is not text (a
\* UnicodeDecodeError), a connection that Slack resets (an OSError and no URLError).
Raises(t) ==
    /\ t.at # "raised" /\ HasThread(t)
    /\ Move(t, "raised")
    /\ UNCHANGED <<github, superseded, said>>

-----------------------------------------------------------------------------
\* V2: the background task is dispatch.  GitHub takes the run or refuses it; either
\* answer may be lost, and then dispatch cannot tell it from GitHub being out of reach.
\* Assumed of GitHub is that it took the run if it answers 204, and did not if it answers
\* anything else.

\* The concurrency group: one run is active, one waits, and a later one replaces it.
Take(n) ==
    LET g == github[Group(n)] IN
    /\ github' = [github EXCEPT ![Group(n)] =
                     IF g.active = None THEN [g EXCEPT !.active = n]
                     ELSE [g EXCEPT !.pending = n]]
    /\ superseded' = superseded \cup (IF g.active = None THEN {} ELSE {g.pending} \ {None})

DryRun(t) ==
    /\ mode = "github" /\ t.at = "waiting" /\ ~config.github
    /\ Say("dryrun", t.run, runs[t.run].channel)
    /\ Drop(t)
    /\ UNCHANGED <<github, superseded>>

\* The request, and the answer dispatch gets.
Dispatch(t) ==
    /\ mode = "github" /\ t.at = "waiting" /\ config.github
    /\ \/ Take(t.run) /\ (Move(t, "accepted") \/ Move(t, "unanswered"))
       \/ UNCHANGED <<github, superseded>> /\ (Move(t, "rejected") \/ Move(t, "unanswered"))
    /\ UNCHANGED said

Verdict204_Any(t) == IF t.at = "unanswered" THEN "unreachable" ELSE "queued"
Verdict204(t) == CASE t.at = "accepted" -> "queued"
                   [] t.at = "rejected" -> "refused"
                   [] t.at = "unanswered" -> "unreachable"

Report(t) ==
    /\ mode = "github" /\ t.at \in {"accepted", "rejected", "unanswered"}
    /\ Say(Verdict204(t), t.run, runs[t.run].channel)
    /\ Drop(t)
    /\ UNCHANGED <<github, superseded>>

\* The workflow, on a self-hosted runner: it introduces itself, runs the suite, and
\* reports whatever happened before, or that there is no report; taken for granted is
\* that the runner lives and can start Python.  A report disowned is a summary that Slack
\* took and whose answer it cut off: the exception goes past _call, and the step's except
\* branch says that there is no report.  Its notifiers are given no channel.
Introduce(g) ==
    LET n == github[g].active IN
    /\ n # None
    /\ Message("starting", n, Default) \notin said
    /\ Say("starting", n, Default)
    /\ UNCHANGED <<tasks, github, superseded>>

Conclude(g) ==
    LET n == github[g].active IN
    /\ n # None
    /\ \/ /\ Message("starting", n, Default) \in said
          /\ Say("summary", n, Default) \/ Say("disowned", n, Default)
       \/ Say("unreported", n, Default)
    /\ github' = [github EXCEPT ![g] = [active |-> github[g].pending, pending |-> None]]
    /\ UNCHANGED <<tasks, superseded>>

-----------------------------------------------------------------------------
\* The process dies and is started again: V1 and V2 forget what they recorded.
Restart ==
    /\ restarts < MaxRestarts
    /\ restarts' = restarts + 1
    /\ record' = IF mode = "edge" THEN record ELSE [k \in Keys |-> None]
    /\ tasks' = {}
    /\ UNCHANGED <<config, runs, github, superseded, said>>

TaskStep(t) ==
    /\ \/ NoSuite(t) \/ Begin(t) \/ SuiteEnds(t) \/ Finish(t) \/ GivesUp(t) \/ Raises(t)
       \/ DryRun(t) \/ Dispatch(t) \/ Report(t)
    /\ UNCHANGED <<config, restarts, runs, record>>

WorkflowStep(g) ==
    /\ Introduce(g) \/ Conclude(g)
    /\ UNCHANGED <<config, restarts, runs, record>>

Next == \/ \E req \in Requests : Receive(req)
        \/ \E t \in tasks : TaskStep(t)
        \/ \E g \in Groups : WorkflowStep(g)
        \/ Restart

Spec == Init /\ [][Next]_vars

\* The pool and the event loop get round to every task, a suite ends or is killed, and
\* a self-hosted runner is there.  Nobody has to send anything.
FairSpec == /\ Spec
            /\ \A n \in 1..MaxRuns : WF_vars(\E t \in tasks : t.run = n /\ TaskStep(t))
            /\ \A g \in Groups : WF_vars(WorkflowStep(g))

-----------------------------------------------------------------------------
Numbers == 1..Len(runs)
Sayings == {"nothing", "starting", "summary", "killed", "unstartable",
            "dryrun", "queued", "refused", "unreachable", "unreported", "disowned"}

TypeOK ==
    /\ config \in Configs /\ restarts \in 0..MaxRestarts
    /\ \A n \in Numbers : /\ runs[n].by \in Requests /\ runs[n].key = Key(runs[n].by)
                          /\ runs[n].channel = Channel(runs[n].by)
                          /\ Group(n) \in Groups /\ runs[n].life \in 0..restarts
    /\ \A k \in Keys : record[k] # None => record[k] \in Numbers /\ runs[record[k]].key = k
    /\ \A t \in tasks : t.run \in Numbers /\ t.at \in
          CASE mode = "local" -> {"waiting", "running", "ended", "raised"}
            [] mode = "github" -> {"waiting", "accepted", "rejected", "unanswered", "raised"}
            [] mode = "edge" -> {}
    /\ \A g \in Groups : /\ github[g].active \in Numbers \cup {None}
                         /\ github[g].pending \in Numbers \cup {None}
                         /\ github[g].active = None => github[g].pending = None
    /\ superseded \subseteq Numbers
    /\ \A m \in said : m.what \in Sayings /\ m.run \in Numbers

\* "A retry that starts a second identical run is the failure this design is mostly
\* avoiding" (api.py): however often and whenever Slack sends an invocation again, it
\* is recorded as one run, at the edge for ever and in V1 and V2 until the process dies.
OneRunPerInvocation ==
    \A m, n \in Numbers : runs[m].key = runs[n].key /\ m # n =>
        mode # "edge" /\ runs[m].life # runs[n].life

\* Nothing runs that was not asked for by somebody who may: with a signature that is
\* good and not older, or newer, than MAX_AGE_SECONDS, from the workspace, the channel
\* and the user configured, in words of the allowlists.
Entitled(req) ==
    /\ config.secret => req.signature = "good" /\ req.age \in -MaxAge..MaxAge
    /\ config.team \in {"", req.team}
    /\ req.channel \in config.channels \/ config.channels = {}
    /\ req.user \in config.users \/ config.users = {}

EveryRunIsAuthorised ==
    \A n \in Numbers : /\ Entitled(runs[n].by)
                       /\ runs[n].product \in Products /\ runs[n].server \in Servers

\* Who sent a request, as far as it can be told, when and from where.
Sender(req) == <<req.stamp, req.age, req.signature, req.team, req.channel, req.user>>

\* gate.py: there is "no point telling an unauthorised person that their flags were
\* wrong".  What is answered to one who may not depends on who asks, when and where, and
\* never on the words or on what is on record; and whoever hears a reason at all is Slack.
StrangersLearnNothing ==
    \A p \in Requests :
        /\ ~Genuine(config, p) => Reply(p).what \in {"401", "error"}
        /\ ~(Genuine(config, p) /\ Permitted(config, p)) =>
               \A q \in Requests : Sender(p) = Sender(q) =>
                   Reply(p) = Reply(q) /\ Reply(p).run = None

\* results answers with the latest run of the product that is on record.
ResultsAreTheLatest ==
    \A req \in Requests : Reply(req).what = "results" =>
        \A n \in Of(Parsed(req.text).product) :
            Reply(req).run >= n /\ runs[Reply(req).run].product = runs[n].product

-----------------------------------------------------------------------------
InHand(n) == \/ \E t \in tasks : t.run = n /\ t.at # "raised"
             \/ \E g \in Groups : n \in {github[g].active, github[g].pending}
Told(n, what) == \E m \in said : m.run = n /\ m.what \in what

Ran == {"summary", "disowned", "killed"}
Reports == {"summary", "disowned", "unreported"}
DidNotRun == {"nothing", "unstartable", "dryrun", "refused"}

\* What the channel is told is so: a run that was said to be queued at GitHub is there
\* or came out of there, and one that was said not to run neither ran nor is there.
AnnouncementsAreTrue ==
    \A n \in Numbers :
        /\ Told(n, {"queued"}) => InHand(n) \/ n \in superseded \/ Told(n, Reports)
        /\ Told(n, DidNotRun) => ~InHand(n) /\ ~Told(n, Ran \cup {"queued", "unreported"})
        /\ Told(n, {"killed"}) => ~Told(n, Reports)

\* No run is forgotten: it is in hand, or the channel was told what became of it, or it
\* is one of the three that nobody hears of: run raised, GitHub dropped it for a later
\* one of its group, or the process died.  A run at the edge is in the table.
EveryRunIsAccountedFor ==
    \A n \in Numbers :
        IF mode = "edge" THEN record[runs[n].key] = n
        ELSE \/ InHand(n)
             \/ Told(n, Ran \cup DidNotRun \cup {"unreachable", "unreported"})
             \/ Task(n, "raised") \in tasks
             \/ n \in superseded
             \/ runs[n].life < restarts

\* What is told of a run with how it came about hidden.  A run at the edge stays open:
\* what becomes of it is Fleet's subject.
Outcomes == Ran \cup DidNotRun \cup {"unreported"}
OutcomesTold(n) == Outcomes \cap {m.what : m \in {s \in said : s.run = n}}

FateOf(n) ==
    LET told == OutcomesTold(n)
    IN  [phase |-> IF n \notin Numbers THEN "unasked"
                   ELSE IF told # {} THEN "closed"
                   ELSE IF mode = "edge" \/ InHand(n) THEN "open" ELSE "lost",
         told  |-> told]

Promise == INSTANCE RunContract WITH Runs <- 1..MaxRuns, fate <- [n \in 1..MaxRuns |-> FateOf(n)]

\* Whatever the interleaving of commands, tasks, workflows and restarts, a run that was
\* taken on is told of with one outcome or lost for good: none is begun, ended or
\* reported a second time, and none comes back after its process has died.
ImplementsContract == Promise!Spec

\* And it does not stay in hand for ever, whatever waits for the same threads or in the
\* same group.
RunsComeToAnEnd == \A n \in 1..MaxRuns : InHand(n) ~> ~InHand(n)
=============================================================================
