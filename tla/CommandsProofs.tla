--------------------------- MODULE CommandsProofs ---------------------------
(***************************************************************************)
(* Theorems about Commands, for any requests, configurations, number of    *)
(* threads and restarts.                                                   *)
(***************************************************************************)
EXTENDS Commands, TLAPS

USE DEF Reports

\* What a run may be: the gate lets only wordings through that name a product and a
\* server, or leave the server to the default.
RunSet == [key: Keys, product: Products, server: Servers,
           channel: {Channel(req) : req \in Requests}, life: Nat, by: Requests]

Typed == /\ restarts \in Nat
         /\ runs \in Seq(RunSet)
         /\ record \in [Keys -> Nat]

Lives == \A n \in Numbers : runs[n].life <= restarts

\* A run that this process recorded, or the edge ever did, is on record.
OnRecord == \A n \in Numbers :
    (mode = "edge" \/ runs[n].life = restarts) => record[runs[n].key] # None

Inv == Typed /\ Lives /\ OnRecord /\ OneRunPerInvocation

\* A request that is queued passed the gate.
LEMMA QueuedIsAuthorised ==
    ASSUME NEW req \in Requests, Reply(req).what = "queued"
    PROVE  /\ Genuine(config, req) /\ Permitted(config, req) /\ Wording(req.text) = "ok"
           /\ record[Key(req)] = None
<1>1. Verdict(config, req) = "ok"
  <2>1. CASE Verdict(config, req) # "ok"
    <3>1. Reply(req).what = Verdict(config, req)
      BY <2>1 DEF Reply, Answer
    <3>2. Verdict(config, req) # "queued"
      BY DEF Verdict, Wording, Stranger, Refusal
    <3> QED BY <3>1, <3>2
  <2> QED BY <2>1
<1>2. record[Key(req)] = None
  BY <1>1 DEF Reply, Answer
<1> QED BY <1>1, <1>2 DEF Verdict, Stranger, Refusal

\* What is appended is a run.
LEMMA RunIsRun ==
    ASSUME Typed, NEW req \in Requests, Reply(req).what = "queued"
    PROVE  Run(req) \in RunSet /\ Run(req).key = Key(req) /\ Run(req).life = restarts
           /\ Run(req).by = req
<1>1. Worded(req.text)
  BY QueuedIsAuthorised DEF Wording
<1>2. Parsed(req.text).product \in Products /\ Parsed(req.text).server \in Servers
  BY <1>1, DefaultIsServer DEF Worded, Parsed
<1> QED BY <1>2 DEF Run, RunSet, Typed, Keys

LEMMA RunsAreRuns ==
    ASSUME Typed
    PROVE  /\ Len(runs) \in Nat
           /\ \A n \in Numbers : /\ runs[n] \in RunSet /\ runs[n].key \in Keys
                                 /\ runs[n].life \in Nat /\ runs[n].by \in Requests
<1>1. runs \in Seq(RunSet)
  BY DEF Typed
<1>2. Len(runs) \in Nat /\ \A n \in Numbers : runs[n] \in RunSet
  BY <1>1 DEF Numbers
<1> QED BY <1>2 DEF RunSet

LEMMA InvInit == Init => Inv
BY DEF Init, Inv, Typed, Lives, OnRecord, OneRunPerInvocation, Numbers, None

LEMMA ReceiveKeepsInv ==
    ASSUME Inv, NEW req \in Requests, Receive(req)
    PROVE  Inv'
<1> DEFINE r == Run(req)
<1>1. r \in RunSet /\ r.key = Key(req) /\ r.life = restarts /\ record[Key(req)] = None
  BY RunIsRun, QueuedIsAuthorised DEF Inv, Receive
<1>2. runs' = Append(runs, r) /\ restarts' = restarts /\ config' = config
  BY DEF Receive
<1>3. record' = [record EXCEPT ![Key(req)] = Len(runs) + 1]
  BY DEF Receive, Remember
<1>4. runs \in Seq(RunSet) /\ record \in [Keys -> Nat] /\ restarts \in Nat /\ Key(req) \in Keys
  BY DEF Inv, Typed, Keys
<1> HIDE DEF r
<1>5. Len(runs') = Len(runs) + 1 /\ runs'[Len(runs) + 1] = r
      /\ (\A n \in 1..Len(runs) : runs'[n] = runs[n]) /\ runs' \in Seq(RunSet) /\ Len(runs) \in Nat
  BY <1>1, <1>2, <1>4
<1>6. Typed'
  BY <1>2, <1>3, <1>4, <1>5 DEF Typed
<1>7. Lives'
  BY <1>1, <1>2, <1>4, <1>5 DEF Inv, Lives, Numbers
<1>8. \A n \in Numbers : runs[n].key \in Keys
  BY RunsAreRuns DEF Inv
<1>9. OnRecord'
  <2> SUFFICES ASSUME NEW n \in Numbers', (mode = "edge" \/ runs[n].life = restarts)'
               PROVE  (record[runs[n].key] # None)'
    BY DEF OnRecord
  <2>1. CASE n = Len(runs) + 1
    BY <2>1, <1>1, <1>3, <1>4, <1>5 DEF None
  <2>2. CASE n \in Numbers
    <3>1. record[runs[n].key] # None
      BY <2>2, <1>2, <1>5 DEF Inv, OnRecord, mode, Numbers
    <3> QED BY <3>1, <2>2, <1>3, <1>4, <1>5, <1>8 DEF None, Numbers
  <2> QED BY <2>1, <2>2, <1>5 DEF Numbers
<1>10. OneRunPerInvocation'
  <2> SUFFICES ASSUME NEW m \in Numbers', NEW n \in Numbers', runs'[m].key = runs'[n].key, m < n
               PROVE  mode # "edge" /\ runs'[m].life # runs'[n].life
    <3>1. mode' = mode
      BY <1>2 DEF mode
    <3> QED BY <3>1, <1>5 DEF OneRunPerInvocation, Numbers
  <2>1. CASE n \in Numbers
    BY <2>1, <1>5 DEF Inv, OneRunPerInvocation, Numbers
  <2>2. CASE n = Len(runs) + 1
    <3>1. m \in Numbers /\ runs[m].key = Key(req)
      BY <2>2, <1>1, <1>5 DEF Numbers
    <3> QED BY <3>1, <2>2, <1>1, <1>5 DEF Inv, OnRecord, Numbers
  <2> QED BY <2>1, <2>2, <1>5 DEF Numbers
<1> QED BY <1>6, <1>7, <1>9, <1>10 DEF Inv

LEMMA InvNext == Inv /\ [Next]_vars => Inv'
<1> SUFFICES ASSUME Inv, [Next]_vars PROVE Inv'
  OBVIOUS
<1> USE DEF Inv
<1>1. CASE \E req \in Requests : Receive(req)
  BY <1>1, ReceiveKeepsInv
<1>2. CASE UNCHANGED <<config, restarts, runs, record>>
  BY <1>2 DEF Typed, Lives, OnRecord, OneRunPerInvocation, Numbers, mode
<1>3. CASE Restart
  <2>1. restarts' = restarts + 1 /\ runs' = runs /\ config' = config
        /\ record' = IF mode = "edge" THEN record ELSE [k \in Keys |-> None]
    BY <1>3 DEF Restart
  <2>2. restarts \in Nat /\ Lives /\ runs \in Seq(RunSet) /\ record \in [Keys -> Nat]
    BY DEF Typed
  <2>3. \A n \in Numbers : runs[n].life \in Nat /\ runs[n].life <= restarts
    BY <2>2, RunsAreRuns DEF Lives
  <2>4. Typed' /\ Lives'
    BY <2>1, <2>2, <2>3 DEF Typed, Lives, Numbers, None
  <2>5. OnRecord' /\ OneRunPerInvocation'
    BY <2>1, <2>2, <2>3 DEF OnRecord, OneRunPerInvocation, Numbers, mode
  <2> QED BY <2>4, <2>5
<1>4. CASE \E t \in tasks : TaskStep(t)
  BY <1>2, <1>4 DEF TaskStep
<1>5. CASE \E g \in Groups : WorkflowStep(g)
  BY <1>2, <1>5 DEF WorkflowStep
<1> QED BY <1>1, <1>2, <1>3, <1>4, <1>5 DEF Next, vars

LEMMA InvAlways == Spec => []Inv
BY InvInit, InvNext, PTL DEF Spec

\* An invocation is one run, however often it is sent.
THEOREM InvocationIsOneRun == Spec => []OneRunPerInvocation
<1>1. Inv => OneRunPerInvocation
  BY DEF Inv
<1> QED BY <1>1, InvAlways, PTL

-----------------------------------------------------------------------------
\* What the gate asked for is kept by every run, for a request is recorded only after
\* all four checks.
LEMMA AuthorisedInit == Init => EveryRunIsAuthorised
BY DEF Init, EveryRunIsAuthorised, Numbers

LEMMA AuthorisedNext == Inv /\ EveryRunIsAuthorised /\ [Next]_vars => EveryRunIsAuthorised'
<1> SUFFICES ASSUME Inv, EveryRunIsAuthorised, [Next]_vars PROVE EveryRunIsAuthorised'
  OBVIOUS
<1>1. ASSUME NEW req \in Requests, Receive(req) PROVE EveryRunIsAuthorised'
  <2> DEFINE r == Run(req)
  <2>1. r \in RunSet /\ r.by = req /\ Genuine(config, req) /\ Permitted(config, req)
    BY <1>1, RunIsRun, QueuedIsAuthorised DEF Inv, Receive
  <2>2. runs' = Append(runs, r) /\ config' = config /\ runs \in Seq(RunSet)
    BY <1>1 DEF Receive, Inv, Typed
  <2>3. r.product \in Products /\ r.server \in Servers
    BY <2>1 DEF RunSet
  <2> HIDE DEF r
  <2>4. /\ Len(runs') = Len(runs) + 1 /\ Len(runs) \in Nat /\ runs'[Len(runs) + 1] = r
        /\ \A n \in 1..Len(runs) : runs'[n] = runs[n]
    BY <2>1, <2>2
  <2>5. Entitled(req)
    <3>1. config.secret => req.signature = "good" /\ req.age \in -MaxAge..MaxAge
      BY <2>1, AgesAreIntegers, AgeIsDuration DEF Genuine, IsValid, InTime
    <3> QED BY <3>1, <2>1 DEF Entitled, Permitted, InWorkspace, InChannel, Listed
  <2>6. \A by : (Entitled(by))' <=> Entitled(by)
    BY <2>2 DEF Entitled
  <2> SUFFICES ASSUME NEW n \in 1..(Len(runs) + 1)
               PROVE  /\ Entitled(runs'[n].by)
                      /\ runs'[n].product \in Products /\ runs'[n].server \in Servers
    BY <2>2, <2>4, <2>6 DEF EveryRunIsAuthorised, Numbers, Entitled
  <2>7. CASE n \in 1..Len(runs)
    BY <2>7, <2>4 DEF EveryRunIsAuthorised, Numbers
  <2>8. CASE n = Len(runs) + 1
    BY <2>8, <2>4, <2>5, <2>3, <2>1
  <2> QED BY <2>4, <2>7, <2>8
<1>2. CASE UNCHANGED <<config, runs>>
  BY <1>2 DEF EveryRunIsAuthorised, Entitled, Numbers
<1> QED
  BY <1>1, <1>2 DEF Next, vars, Restart, TaskStep, WorkflowStep

\* Nothing runs that was not asked for by somebody who may, in words of the allowlists.
THEOREM RunsAreAuthorised == Spec => []EveryRunIsAuthorised
BY AuthorisedInit, AuthorisedNext, InvAlways, PTL DEF Spec

\* The gate looks at the words last, so those it does not let in learn nothing of them.
LEMMA SenderDecides ==
    ASSUME NEW p, NEW q, Sender(p) = Sender(q)
    PROVE  /\ Genuine(config, p) <=> Genuine(config, q)
           /\ Permitted(config, p) <=> Permitted(config, q)
BY DEF Sender, Genuine, IsValid, InTime, Permitted, InWorkspace, InChannel, Listed

\* What a stranger is told, by who it is and when it asks.
Refused(req) == IF Genuine(config, req) THEN Refusal(config, req) ELSE Stranger(req)

LEMMA StrangersReply ==
    ASSUME NEW req, ~(Genuine(config, req) /\ Permitted(config, req))
    PROVE  /\ Reply(req) = Answer(Refused(req), None)
           /\ ~Genuine(config, req) => Refused(req) \in {"401", "error"}
<1>1. /\ Verdict(config, req) = Refused(req)
      /\ Refused(req) \in {"401", "error", "workspace", "channel", "user"}
      /\ ~Genuine(config, req) => Refused(req) \in {"401", "error"}
  BY DEF Verdict, Refused, Stranger, Refusal
<1> QED BY <1>1 DEF Reply

LEMMA SenderIsTold ==
    ASSUME NEW p, NEW q, Sender(p) = Sender(q)
    PROVE  Refused(p) = Refused(q)
<1>1. Genuine(config, p) <=> Genuine(config, q)
  BY SenderDecides
<1>2. Stranger(p) = Stranger(q)
  BY DEF Sender, Stranger, IsValidRaises, InTime
<1>3. Refusal(config, p) = Refusal(config, q)
  BY DEF Sender, Refusal, InWorkspace, InChannel
<1> QED BY <1>1, <1>2, <1>3 DEF Refused

\* What is answered to a stranger is the same whatever the words and the runs on record
\* (check, commands, slack_commands).
THEOREM GateComesFirst == Spec => []StrangersLearnNothing
<1>1. StrangersLearnNothing
  <2> SUFFICES ASSUME NEW p \in Requests, ~(Genuine(config, p) /\ Permitted(config, p))
               PROVE  /\ ~Genuine(config, p) => Reply(p).what \in {"401", "error"}
                      /\ \A q \in Requests : Sender(p) = Sender(q) =>
                             Reply(p) = Reply(q) /\ Reply(p).run = None
    BY DEF StrangersLearnNothing
  <2>1. ~Genuine(config, p) => Reply(p).what \in {"401", "error"}
    BY StrangersReply DEF Answer
  <2>2. ASSUME NEW q \in Requests, Sender(p) = Sender(q)
        PROVE  Reply(p) = Reply(q) /\ Reply(p).run = None
    BY <2>2, SenderDecides, SenderIsTold, StrangersReply DEF Answer
  <2> QED BY <2>1, <2>2
<1> QED BY <1>1, PTL

-----------------------------------------------------------------------------
\* No run is forgotten.  A run is at GitHub when it runs or waits there, was dropped
\* there, or came out of there; a task that GitHub accepted is.
AtGitHub(n) == \/ \E g \in Groups : n \in {github[g].active, github[g].pending}
               \/ n \in superseded
               \/ Told(n, Reports)

Heard == Ran \cup DidNotRun \cup {"unreachable", "unreported"}

Tracked == /\ github \in [Groups -> [active: Nat, pending: Nat]]
           /\ \A t \in tasks : /\ t = Task(t.run, t.at) /\ t.run \in Numbers
                               /\ t.at = "accepted" => AtGitHub(t.run)
           /\ EveryRunIsAccountedFor

LEMMA SaidGrows == ASSUME [Next]_vars PROVE said \subseteq said'
BY DEF Next, vars, Receive, Restart, TaskStep, WorkflowStep, NoSuite, Begin, SuiteEnds, Finish,
       GivesUp, GiveUp, Raises, DryRun, Dispatch, Report, Introduce, Conclude, Say

LEMMA ToldStays ==
    ASSUME [Next]_vars, NEW n, NEW what, Told(n, what) PROVE Told(n, what)'
BY SaidGrows DEF Told

LEMMA SaidIsTold ==
    ASSUME NEW n, NEW set, NEW what \in set, NEW where,
           said' = said \cup {Message(what, n, where)}
    PROVE  Told(n, set)'
<1>1. Message(what, n, where) \in said'
  OBVIOUS
<1>2. Message(what, n, where).run = n /\ Message(what, n, where).what = what
  BY DEF Message
<1> QED BY <1>1, <1>2 DEF Told

\* GitHub loses a run only by dropping it or by running it.
LEMMA TakeKeeps ==
    ASSUME Tracked, NEW m \in Numbers, Take(m), NEW n \in Nat \ {None},
           \/ \E g \in Groups : n \in {github[g].active, github[g].pending}
           \/ n \in superseded
    PROVE  \/ \E g \in Groups : n \in {github'[g].active, github'[g].pending}
           \/ n \in superseded'
<1> DEFINE h == Group(m)
<1>1. CASE n \in superseded
  BY <1>1 DEF Take
<1>2. ASSUME NEW g \in Groups, n \in {github[g].active, github[g].pending}
      PROVE  n \in {github'[g].active, github'[g].pending} \/ n \in superseded'
  <2>1. CASE g # h
    BY <2>1, <1>2 DEF Take, Tracked
  <2>2. CASE g = h /\ github[h].active = None
    BY <2>2, <1>2 DEF Take, Tracked
  <2>3. CASE g = h /\ github[h].active # None
    BY <2>3, <1>2 DEF Take, Tracked
  <2> QED BY <2>1, <2>2, <2>3
<1> QED BY <1>1, <1>2

LEMMA AtGitHubStays ==
    ASSUME Tracked, [Next]_vars, NEW n \in Nat \ {None}, AtGitHub(n) PROVE AtGitHub(n)'
<1>1. CASE Told(n, Reports)
  BY <1>1, ToldStays DEF AtGitHub
<1>2. CASE UNCHANGED <<github, superseded>> /\ ~Told(n, Reports)
  BY <1>2 DEF AtGitHub
<1>3. ASSUME NEW t \in tasks, TaskStep(t), ~Told(n, Reports) PROVE AtGitHub(n)'
  <2>1. CASE Take(t.run)
    BY <2>1, <1>3, TakeKeeps DEF AtGitHub, Tracked
  <2>2. CASE UNCHANGED <<github, superseded>>
    BY <2>2, <1>2, <1>3
  <2> QED BY <1>3, <2>1, <2>2 DEF TaskStep, NoSuite, Begin, SuiteEnds, Finish, GivesUp, Raises,
                                  DryRun, Dispatch, Report
<1>4. ASSUME NEW g \in Groups, WorkflowStep(g), ~Told(n, Reports)
      PROVE  AtGitHub(n)'
  <2>1. CASE Introduce(g)
    BY <2>1, <1>2, <1>4 DEF Introduce
  <2>2. CASE Conclude(g)
    <3>1. CASE n = github[g].active
      <4>1. \E what \in Reports : said' = said \cup {Message(what, n, Default)}
        BY <3>1, <2>2 DEF Conclude, Say, Reports
      <4>2. Told(n, Reports)'
        BY <4>1, SaidIsTold
      <4> QED BY <4>2 DEF AtGitHub
    <3>2. CASE n # github[g].active /\ n \in superseded
      BY <3>2, <2>2 DEF Conclude, AtGitHub
    <3>3. ASSUME n # github[g].active, NEW h \in Groups, n \in {github[h].active, github[h].pending}
          PROVE  n \in {github'[h].active, github'[h].pending}
      BY <3>3, <2>2 DEF Conclude, Tracked
    <3>4. CASE n # github[g].active /\ \E h \in Groups : n \in {github[h].active, github[h].pending}
      <4> PICK h \in Groups : n \in {github[h].active, github[h].pending}
        BY <3>4
      <4>1. n \in {github'[h].active, github'[h].pending}
        BY <3>3, <3>4
      <4> QED BY <4>1 DEF AtGitHub
    <3> QED BY <3>1, <3>2, <3>4, <1>4 DEF AtGitHub
  <2> QED BY <1>4, <2>1, <2>2 DEF WorkflowStep
<1> QED
  BY <1>1, <1>2, <1>3, <1>4 DEF Next, vars, Receive, Restart

\* A step of a task leaves its run with a task, with GitHub, or with an outcome told.
LEMMA FateOfTask ==
    ASSUME Inv, Tracked, NEW t \in tasks, TaskStep(t)
    PROVE  \/ /\ tasks' = tasks \ {t}
              /\ Told(t.run, Heard)' \/ t.at = "accepted"
           \/ \E at : /\ tasks' = (tasks \ {t}) \cup {Task(t.run, at)}
                      /\ at = "accepted" => AtGitHub(t.run)'
<1>1. ASSUME NEW what \in Heard, NEW where, Drop(t),
             said' = said \cup {Message(what, t.run, where)}
      PROVE  tasks' = tasks \ {t} /\ Told(t.run, Heard)'
  BY <1>1, SaidIsTold DEF Drop
<1>2. CASE NoSuite(t)
  BY <1>2, <1>1 DEF NoSuite, Say, Heard, DidNotRun
<1>3. CASE Finish(t)
  BY <1>3, <1>1 DEF Finish, Say, Heard, Ran
<1>4. CASE GivesUp(t)
  BY <1>4, <1>1 DEF GivesUp, GiveUp, Say, Heard, Ran, DidNotRun
<1>5. CASE DryRun(t)
  BY <1>5, <1>1 DEF DryRun, Say, Heard, DidNotRun
<1>6. CASE Begin(t) \/ SuiteEnds(t) \/ Raises(t)
  BY <1>6 DEF Begin, SuiteEnds, Raises, Move
<1>7. CASE Dispatch(t)
  <2>1. CASE Take(t.run) /\ (Move(t, "accepted") \/ Move(t, "unanswered"))
    <3>1. t.run \in Numbers /\ Group(t.run) \in Groups
      BY RunsAreRuns DEF Inv, Tracked, Group, Groups, RunSet
    <3>2. AtGitHub(t.run)'
      BY <3>1, <2>1 DEF Take, AtGitHub, Tracked
    <3> QED BY <3>2, <2>1 DEF Move
  <2>2. CASE Move(t, "rejected")
    BY <2>2 DEF Move
  <2>3. CASE Move(t, "unanswered")
    BY <2>3 DEF Move
  <2> QED BY <1>7, <2>1, <2>2, <2>3 DEF Dispatch
<1>8. CASE Report(t)
  <2>1. CASE t.at = "accepted"
    BY <1>8, <2>1 DEF Report, Drop
  <2>2. CASE t.at # "accepted"
    <3>1. Verdict204(t) \in Heard
      BY <1>8, <2>2 DEF Report, Verdict204, Heard, DidNotRun
    <3> QED BY <1>8, <3>1, <1>1 DEF Report, Say
  <2> QED BY <2>1, <2>2
<1> QED BY <1>2, <1>3, <1>4, <1>5, <1>6, <1>7, <1>8 DEF TaskStep

\* The four ways to be accounted for, beside being lost with the process.
Kept(n) == \/ \E t \in tasks : t.run = n /\ t.at # "raised"
           \/ AtGitHub(n)
           \/ Told(n, Heard)
           \/ Task(n, "raised") \in tasks

LEMMA KeptByTask ==
    ASSUME Inv, Tracked, NEW t \in tasks, TaskStep(t), NEW n \in Numbers, Kept(n) PROVE Kept(n)'
<1>0. [Next]_vars /\ n \in Nat \ {None} /\ t = Task(t.run, t.at) /\ t.at # "raised"
  <2>1. t.at # "raised"
    BY DEF TaskStep, NoSuite, Begin, SuiteEnds, Finish, GivesUp, Raises, DryRun, Dispatch, Report
  <2>2. n \in Nat \ {None}
    BY RunsAreRuns DEF Inv, Numbers, None
  <2> QED BY <2>1, <2>2 DEF Next, Tracked
<1>1. CASE AtGitHub(n)
  BY <1>0, <1>1, AtGitHubStays DEF Kept
<1>2. CASE Told(n, Heard)
  BY <1>0, <1>2, ToldStays DEF Kept
<1>3. \A u \in tasks : u # t => u \in tasks'
  BY FateOfTask
<1>4. CASE Task(n, "raised") \in tasks
  <2>1. Task(n, "raised") # t
    BY <1>0 DEF Task
  <2> QED BY <1>3, <1>4, <2>1 DEF Kept
<1>5. ASSUME NEW u \in tasks, u.run = n, u.at # "raised" PROVE Kept(n)'
  <2>1. CASE u # t
    BY <2>1, <1>3, <1>5 DEF Kept
  <2>2. CASE u = t /\ tasks' = tasks \ {t} /\ (Told(t.run, Heard)' \/ t.at = "accepted")
    <3>1. t.at = "accepted" => AtGitHub(n)'
      BY <2>2, <1>0, <1>5, AtGitHubStays DEF Tracked
    <3> QED BY <2>2, <3>1, <1>5 DEF Kept
  <2>3. ASSUME u = t, NEW at, tasks' = (tasks \ {t}) \cup {Task(t.run, at)} PROVE Kept(n)'
    <3>1. Task(n, at) \in tasks' /\ Task(n, at).run = n /\ Task(n, at).at = at
      BY <2>3, <1>5 DEF Task
    <3>2. CASE at = "raised"
      BY <3>1, <3>2 DEF Kept
    <3>3. CASE at # "raised"
      BY <3>1, <3>3 DEF Kept
    <3> QED BY <3>2, <3>3
  <2> QED BY <2>1, <2>2, <2>3, FateOfTask
<1> QED BY <1>1, <1>2, <1>4, <1>5 DEF Kept

LEMMA TrackedInit == Init => Tracked
BY DEF Init, Tracked, EveryRunIsAccountedFor, Numbers, None

LEMMA TrackedNext == Inv /\ Tracked /\ [Next]_vars => Tracked'
<1> SUFFICES ASSUME Inv, Tracked, [Next]_vars PROVE Tracked'
  OBVIOUS
<1> USE RunsAreRuns DEF Inv
<1>1. ASSUME NEW req \in Requests, Receive(req) PROVE Tracked'
  <2>0. PICK new : new = Len(runs) + 1
    OBVIOUS
  <2>1. /\ runs' = Append(runs, Run(req)) /\ runs \in Seq(RunSet) /\ Len(runs) \in Nat
        /\ Run(req).key = Key(req) /\ Run(req) \in RunSet /\ record[Key(req)] = None
    BY <1>1, RunIsRun, QueuedIsAuthorised DEF Receive, Typed
  <2>2. Numbers' = Numbers \cup {new} /\ new \notin Numbers /\ runs'[new] = Run(req)
        /\ \A n \in Numbers : runs'[n] = runs[n]
    BY <2>0, <2>1 DEF Numbers
  <2>3. /\ config' = config /\ restarts' = restarts /\ UNCHANGED <<github, superseded, said>>
        /\ tasks' = IF mode = "edge" THEN tasks ELSE tasks \cup {Task(new, "waiting")}
        /\ record' = [record EXCEPT ![Key(req)] = new] /\ record \in [Keys -> Nat]
        /\ Key(req) \in Keys
    BY <1>1, <2>0 DEF Receive, Remember, Typed, Keys
  <2>4. \A n : AtGitHub(n) => AtGitHub(n)'
    BY <2>3 DEF AtGitHub, Told
  <2>5. \A t \in tasks' : /\ t = Task(t.run, t.at) /\ t.run \in Numbers'
                          /\ t.at = "accepted" => AtGitHub(t.run)'
    BY <2>2, <2>3, <2>4 DEF Tracked, Task
  <2>6. EveryRunIsAccountedFor'
    <3>1. CASE mode = "edge"
      BY <3>1, <2>1, <2>2, <2>3 DEF EveryRunIsAccountedFor, Tracked, mode, Numbers, None
    <3>2. CASE mode # "edge"
      <4>1. Task(new, "waiting") \in tasks' /\ Task(new, "waiting").run = new
            /\ Task(new, "waiting").at # "raised"
        BY <3>2, <2>3 DEF Task
      <4>2. InHand(new)'
        BY <4>1 DEF InHand
      <4>3. \A n \in Numbers : InHand(n) => InHand(n)'
        BY <2>3 DEF InHand
      <4>4. mode' = mode /\ \A n, what : Told(n, what) => Told(n, what)'
        BY <2>3 DEF mode, Told
      <4> QED
        BY <3>2, <4>2, <4>3, <4>4, <2>2, <2>3 DEF EveryRunIsAccountedFor, Tracked
    <3> QED BY <3>1, <3>2
  <2> QED BY <2>3, <2>5, <2>6 DEF Tracked
<1>2. ASSUME NEW t \in tasks, TaskStep(t) PROVE Tracked'
  <2>1. UNCHANGED <<config, restarts, runs, record>> /\ Numbers' = Numbers /\ mode' = mode
    BY <1>2 DEF TaskStep, Numbers, mode
  <2>2. github' \in [Groups -> [active: Nat, pending: Nat]]
    <3>1. CASE Take(t.run)
      <4>1. t.run \in Nat /\ Group(t.run) \in Groups
        BY DEF Tracked, Group, Groups, RunSet, Numbers
      <4> QED BY <3>1, <4>1 DEF Take, Tracked, None
    <3>2. CASE UNCHANGED github
      BY <3>2 DEF Tracked
    <3> QED BY <1>2, <3>1, <3>2 DEF TaskStep, NoSuite, Begin, SuiteEnds, Finish, GivesUp, Raises,
                                    DryRun, Dispatch, Report
  <2>3. \A n \in Numbers : AtGitHub(n) => AtGitHub(n)'
    BY <1>2, AtGitHubStays DEF Next, Numbers, None
  <2>4. \A u \in tasks' : /\ u = Task(u.run, u.at) /\ u.run \in Numbers'
                          /\ u.at = "accepted" => AtGitHub(u.run)'
    <3>1. ASSUME NEW u \in tasks
          PROVE  /\ u = Task(u.run, u.at) /\ u.run \in Numbers'
                 /\ u.at = "accepted" => AtGitHub(u.run)'
      BY <2>1, <2>3 DEF Tracked
    <3>2. ASSUME NEW at, at = "accepted" => AtGitHub(t.run)'
          PROVE  LET u == Task(t.run, at) IN
                 /\ u = Task(u.run, u.at) /\ u.run \in Numbers'
                 /\ u.at = "accepted" => AtGitHub(u.run)'
      BY <2>1, <3>2 DEF Tracked, Task
    <3> QED BY <3>1, <3>2, <1>2, FateOfTask
  <2>5. EveryRunIsAccountedFor'
    <3>1. CASE mode = "edge"
      BY <3>1, <2>1 DEF EveryRunIsAccountedFor, Tracked
    <3>2. CASE mode # "edge"
      <4> SUFFICES ASSUME NEW n \in Numbers, ~(runs[n].life < restarts) PROVE Kept(n)'
        BY <3>2, <2>1 DEF EveryRunIsAccountedFor, InHand, Kept, AtGitHub, Told, Heard, Ran
      <4>1. Kept(n)
        BY <3>2 DEF EveryRunIsAccountedFor, Tracked, InHand, Kept, AtGitHub, Told, Heard
      <4> QED BY <4>1, <1>2, KeptByTask
    <3> QED BY <3>1, <3>2
  <2> QED BY <2>2, <2>4, <2>5 DEF Tracked
<1>3. ASSUME NEW g \in Groups, WorkflowStep(g) PROVE Tracked'
  <2>1. UNCHANGED <<config, restarts, runs, record, tasks, superseded>> /\ Numbers' = Numbers
        /\ mode' = mode
    BY <1>3 DEF WorkflowStep, Introduce, Conclude, Numbers, mode
  <2>2. github' \in [Groups -> [active: Nat, pending: Nat]]
    <3>1. [active |-> github[g].pending, pending |-> None] \in [active: Nat, pending: Nat]
      BY DEF Tracked, None
    <3> QED BY <1>3, <3>1 DEF WorkflowStep, Introduce, Conclude, Tracked
  <2>3. \A n \in Numbers : /\ AtGitHub(n) => AtGitHub(n)'
                           /\ Told(n, Heard) => Told(n, Heard)'
    BY <1>3, AtGitHubStays, ToldStays DEF Next, Numbers, None
  <2>4. EveryRunIsAccountedFor'
    <3>1. CASE mode = "edge"
      BY <3>1, <2>1 DEF EveryRunIsAccountedFor, Tracked
    <3>2. CASE mode # "edge"
      <4> SUFFICES ASSUME NEW n \in Numbers, ~(runs[n].life < restarts) PROVE Kept(n)'
        BY <3>2, <2>1 DEF EveryRunIsAccountedFor, InHand, Kept, AtGitHub, Told, Heard, Ran
      <4>1. Kept(n)
        BY <3>2 DEF EveryRunIsAccountedFor, Tracked, InHand, Kept, AtGitHub, Told, Heard
      <4> QED BY <4>1, <2>1, <2>3 DEF Kept
    <3> QED BY <3>1, <3>2
  <2>5. \A t \in tasks' : /\ t = Task(t.run, t.at) /\ t.run \in Numbers'
                          /\ t.at = "accepted" => AtGitHub(t.run)'
    BY <2>1, <2>3 DEF Tracked
  <2> QED BY <2>2, <2>4, <2>5 DEF Tracked
<1>4. CASE Restart
  <2>1. \A n \in Numbers : runs[n].life < restarts + 1
    BY DEF Lives, Typed
  <2> QED BY <1>4, <2>1 DEF Restart, Tracked, EveryRunIsAccountedFor, Numbers, mode
<1>5. CASE UNCHANGED vars
  BY <1>5 DEF vars, Tracked, EveryRunIsAccountedFor, AtGitHub, InHand, Told, Numbers, mode
<1> QED BY <1>1, <1>2, <1>3, <1>4, <1>5 DEF Next

\* Whatever fails on the way, a run is in hand, or the channel knows its end, or it went
\* in one of the three ways that EveryRunIsAccountedFor names.
THEOREM NoRunIsForgotten == Spec => []EveryRunIsAccountedFor
<1>1. Tracked => EveryRunIsAccountedFor
  BY DEF Tracked
<1> QED BY <1>1, TrackedInit, TrackedNext, InvAlways, PTL DEF Spec

=============================================================================
