--------------------------- MODULE ChannelProofs ----------------------------
(***************************************************************************)
(* Theorems about what Commands answers and what the channel is told, for  *)
(* any requests, configurations, number of threads and restarts.           *)
(***************************************************************************)
EXTENDS CommandsProofs, WellFoundedInduction

USE DEF Reports

-----------------------------------------------------------------------------
(***************************************************************************)
(* Types.  A number that stands for a run anywhere was given to one.       *)
(***************************************************************************)
OfRuns(set) == set \subseteq Numbers \cup {None}

RunsTyped == \A n \in Numbers : /\ runs[n].by \in Requests /\ runs[n].key = Key(runs[n].by)
                                /\ runs[n].channel = Channel(runs[n].by)
                                /\ Group(n) \in Groups /\ runs[n].life \in 0..restarts
                                /\ Parsed(runs[n].by.text).action # "results"
RecordTyped == \A k \in Keys : record[k] # None =>
                   record[k] \in Numbers /\ runs[record[k]].key = k
StageKnown(at) == at \in CASE mode = "local" -> {"waiting", "running", "ended", "raised"}
                           [] mode = "github" -> {"waiting", "accepted", "rejected", "unanswered",
                                                  "raised"}
                           [] mode = "edge" -> {}
TasksTyped == \A t \in tasks : t.run \in Numbers /\ StageKnown(t.at)
GitHubTyped == /\ \A g \in Groups : /\ OfRuns({github[g].active, github[g].pending})
                                    /\ github[g].active = None => github[g].pending = None
               /\ superseded \subseteq Numbers
SaidTyped == \A m \in said : m.what \in Sayings /\ m.run \in Numbers

Types == /\ config \in Configs /\ restarts \in 0..MaxRestarts
         /\ RunsTyped /\ RecordTyped /\ TasksTyped /\ GitHubTyped /\ SaidTyped

LEMMA TypesInit == Init => Types
BY RunsAreBounded DEF Init, Types, RunsTyped, RecordTyped, TasksTyped, GitHubTyped, SaidTyped, OfRuns,
       Numbers, None

\* What is said of a run, by a task of it or by its workflow.
Says(n) == \E what \in Sayings : \E where : said' = said \cup {Message(what, n, where)}

LEMMA MessageFields ==
    ASSUME NEW what, NEW n, NEW where
    PROVE  Message(what, n, where).what = what /\ Message(what, n, where).run = n
BY DEF Message

LEMMA TaskSays ==
    ASSUME NEW t \in tasks, TaskStep(t) PROVE UNCHANGED said \/ Says(t.run)
<1> USE DEF Says, Say, Sayings
<1>1. CASE NoSuite(t) \/ Begin(t) \/ DryRun(t) \/ Finish(t)
  BY <1>1 DEF NoSuite, Begin, DryRun, Finish
<1>2. CASE GivesUp(t)
  BY <1>2 DEF GivesUp, GiveUp
<1>3. CASE Report(t)
  <2>1. Verdict204(t) \in Sayings
    BY <1>3 DEF Report, Verdict204
  <2> QED BY <1>3, <2>1 DEF Report
<1>4. CASE SuiteEnds(t) \/ Raises(t) \/ Dispatch(t)
  BY <1>4 DEF SuiteEnds, Raises, Dispatch
<1> QED BY <1>1, <1>2, <1>3, <1>4 DEF TaskStep

LEMMA WorkflowSays ==
    ASSUME NEW g \in Groups, WorkflowStep(g)
    PROVE  github[g].active # None /\ Says(github[g].active)
BY DEF WorkflowStep, Introduce, Conclude, Says, Say, Sayings

LEMMA SaidTypedNext ==
    ASSUME SaidTyped, NEW n \in Numbers, Says(n) \/ UNCHANGED said, Numbers' = Numbers
    PROVE  SaidTyped'
<1>1. CASE Says(n)
  <2> PICK what \in Sayings : \E where : said' = said \cup {Message(what, n, where)}
    BY <1>1 DEF Says
  <2> PICK where : said' = said \cup {Message(what, n, where)}
    OBVIOUS
  <2> QED BY MessageFields DEF SaidTyped
<1> QED BY <1>1 DEF SaidTyped

\* How a task goes on.
Further(at) == \/ at = "raised"
               \/ mode = "local" /\ at \in {"running", "ended"}
               \/ mode = "github" /\ at \in {"accepted", "rejected", "unanswered"}

LEMMA TaskMoves ==
    ASSUME NEW t \in tasks, TaskStep(t)
    PROVE  Drop(t) \/ \E at : Move(t, at) /\ Further(at)
<1> USE DEF Further
<1>1. CASE NoSuite(t) \/ DryRun(t) \/ Finish(t) \/ GivesUp(t) \/ Report(t)
  BY <1>1 DEF NoSuite, DryRun, Finish, GivesUp, Report
<1>2. CASE Begin(t) \/ SuiteEnds(t) \/ Raises(t)
  BY <1>2 DEF Begin, SuiteEnds, Raises
<1>3. CASE Dispatch(t)
  BY <1>3 DEF Dispatch
<1> QED BY <1>1, <1>2, <1>3 DEF TaskStep

LEMMA TypesNext == Inv /\ Tracked /\ Types /\ [Next]_vars => Types'
<1> SUFFICES ASSUME Inv, Tracked, Types, [Next]_vars PROVE Types'
  OBVIOUS
<1>0. /\ Len(runs) \in Nat /\ record \in [Keys -> Nat] /\ restarts \in Nat
      /\ \A n \in Numbers : runs[n] \in RunSet /\ n \in Nat
      /\ mode \in {"local", "github", "edge"}
  BY RunsAreRuns, ModesAreKnown DEF Inv, Typed, Types, mode, Numbers
<1>1. ASSUME NEW req \in Requests, Receive(req) PROVE Types'
  <2>0. PICK new : new = Len(runs) + 1
    OBVIOUS
  <2>1. /\ runs' = Append(runs, Run(req)) /\ runs \in Seq(RunSet)
        /\ Run(req) \in RunSet /\ Run(req).key = Key(req) /\ Run(req).life = restarts
        /\ Run(req).by = req /\ Run(req).channel = Channel(req) /\ Key(req) \in Keys
    BY <1>1, RunIsRun DEF Receive, Inv, Typed, Keys, Run
  <2>2. /\ Numbers' = Numbers \cup {new} /\ runs'[new] = Run(req)
        /\ \A n \in Numbers : runs'[n] = runs[n]
    BY <1>0, <2>0, <2>1 DEF Numbers
  <2>3. UNCHANGED <<config, restarts, github, superseded, said>> /\ mode' = mode
    BY <1>1 DEF Receive, mode
  <2>4. Parsed(req.text).action # "results"
    BY <1>1 DEF Receive, Reply, Answer, Verdict, Wording, Stranger, Refusal
  <2>5. RunsTyped'
    <3>1. Group(new)' \in Groups /\ \A n \in Numbers : Group(n)' = Group(n)
      BY <2>1, <2>2 DEF Group, Groups, RunSet
    <3> SUFFICES ASSUME NEW n \in Numbers \cup {new}
                 PROVE  /\ runs'[n].by \in Requests /\ runs'[n].key = Key(runs'[n].by)
                        /\ runs'[n].channel = Channel(runs'[n].by)
                        /\ Group(n)' \in Groups /\ runs'[n].life \in 0..restarts
                        /\ Parsed(runs'[n].by.text).action # "results"
      BY <2>2, <2>3 DEF RunsTyped
    <3>2. CASE n \in Numbers
      BY <3>1, <3>2, <2>2 DEF Types, RunsTyped
    <3>3. CASE n = new
      BY <3>1, <3>3, <1>0, <2>1, <2>2, <2>4
    <3> QED BY <3>2, <3>3
  <2>6. RecordTyped'
    BY <1>0, <1>1, <2>0, <2>1, <2>2 DEF Receive, Remember, Types, RecordTyped
  <2>7. TasksTyped'
    <3>1. mode # "edge" => StageKnown("waiting")
      BY <1>0 DEF StageKnown
    <3>2. \A at : StageKnown(at) => StageKnown(at)'
      BY <2>3 DEF StageKnown
    <3>3. tasks' = IF mode = "edge" THEN tasks ELSE tasks \cup {Task(new, "waiting")}
      BY <1>1, <2>0 DEF Receive
    <3> QED BY <2>2, <3>1, <3>2, <3>3 DEF Types, TasksTyped, Task
  <2>8. GitHubTyped' /\ SaidTyped'
    BY <2>2, <2>3 DEF Types, GitHubTyped, SaidTyped, OfRuns
  <2> QED BY <2>2, <2>3, <2>5, <2>6, <2>7, <2>8 DEF Types
<1>2. ASSUME UNCHANGED <<config, runs>>, restarts \in Nat, restarts' \in 0..MaxRestarts, restarts <= restarts',
             \A k \in Keys : record'[k] \in {record[k], None}
      PROVE  config' \in Configs /\ restarts' \in 0..MaxRestarts /\ RunsTyped' /\ RecordTyped'
             /\ Numbers' = Numbers /\ mode' = mode /\ \A at : StageKnown(at)' <=> StageKnown(at)
  <2>1. Numbers' = Numbers /\ mode' = mode /\ \A n : Group(n)' = Group(n)
    BY <1>2 DEF Numbers, mode, Group
  <2>2. RunsTyped'
    BY <1>0, <1>2, <2>1 DEF Types, RunsTyped, RunSet
  <2> QED BY <1>2, <2>1, <2>2 DEF Types, RecordTyped, StageKnown
<1>3. ASSUME NEW t \in tasks, TaskStep(t) PROVE Types'
  <2>1. /\ config' \in Configs /\ restarts' \in 0..MaxRestarts /\ RunsTyped' /\ RecordTyped'
        /\ Numbers' = Numbers /\ mode' = mode /\ \A at : StageKnown(at)' <=> StageKnown(at)
    <3>1. UNCHANGED <<config, restarts, runs, record>>
      BY <1>3 DEF TaskStep
    <3> QED BY <1>0, <1>2, <3>1 DEF Types
  <2>2. t.run \in Numbers
    BY DEF Tracked
  <2>3. TasksTyped'
    <3>1. mode # "edge"
      BY DEF Types, TasksTyped, StageKnown
    <3>2. \A at : Further(at) => StageKnown(at)
      BY <1>0, <3>1 DEF StageKnown, Further
    <3>3. CASE Drop(t)
      BY <2>1, <3>3 DEF Drop, Types, TasksTyped
    <3>4. ASSUME NEW at, Move(t, at), StageKnown(at)
          PROVE  TasksTyped'
      BY <2>1, <2>2, <3>4 DEF Move, Types, TasksTyped, Task
    <3> QED BY <1>3, <3>2, <3>3, <3>4, TaskMoves
  <2>4. GitHubTyped'
    <3>1. CASE Take(t.run)
      <4>1. Group(t.run) \in Groups
        BY <2>2 DEF Types, RunsTyped
      <4> QED BY <2>1, <2>2, <3>1, <4>1, <1>0 DEF Take, Tracked, Types, GitHubTyped, OfRuns, None
    <3>2. CASE UNCHANGED <<github, superseded>>
      BY <2>1, <3>2 DEF Types, GitHubTyped, OfRuns
    <3> QED BY <1>3, <3>1, <3>2 DEF TaskStep, NoSuite, Begin, SuiteEnds, Finish, GivesUp, Raises,
                                    DryRun, Dispatch, Report
  <2>5. SaidTyped'
    BY <1>3, <2>1, <2>2, TaskSays, SaidTypedNext DEF Types
  <2> QED BY <2>1, <2>3, <2>4, <2>5 DEF Types
<1>4. ASSUME NEW g \in Groups, WorkflowStep(g) PROVE Types'
  <2>1. UNCHANGED <<config, restarts, runs, record, tasks, superseded>>
    BY <1>4 DEF WorkflowStep, Introduce, Conclude
  <2>2. /\ config' \in Configs /\ restarts' \in 0..MaxRestarts /\ RunsTyped' /\ RecordTyped'
        /\ Numbers' = Numbers /\ mode' = mode /\ \A at : StageKnown(at)' <=> StageKnown(at)
    BY <1>0, <1>2, <2>1 DEF Types
  <2>3. github[g].active \in Numbers
    BY <1>4, WorkflowSays DEF Types, GitHubTyped, OfRuns
  <2>4. GitHubTyped'
    <3>1. github' = github \/ github' = [github EXCEPT ![g] = [active |-> github[g].pending, pending |-> None]]
      BY <1>4 DEF WorkflowStep, Introduce, Conclude
    <3> QED BY <2>1, <2>2, <3>1 DEF Tracked, Types, GitHubTyped, OfRuns
  <2>5. SaidTyped'
    BY <1>4, <2>2, <2>3, WorkflowSays, SaidTypedNext DEF Types
  <2> QED BY <2>1, <2>2, <2>4, <2>5 DEF Types, TasksTyped
<1>5. CASE Restart
  <2>1. \A k \in Keys : record'[k] \in {record[k], None}
    BY <1>5 DEF Restart
  <2>2. /\ config' \in Configs /\ restarts' \in 0..MaxRestarts /\ RunsTyped' /\ RecordTyped'
        /\ Numbers' = Numbers
    BY <1>0, <1>2, <1>5, <2>1, RunsAreBounded DEF Restart
  <2> QED BY <1>5, <2>2 DEF Restart, Types, TasksTyped, GitHubTyped, SaidTyped, OfRuns
<1>6. CASE UNCHANGED vars
  BY <1>6 DEF vars, Types, RunsTyped, RecordTyped, TasksTyped, GitHubTyped, SaidTyped, OfRuns,
              StageKnown, Numbers, mode, Group
<1> QED BY <1>1, <1>3, <1>4, <1>5, <1>6 DEF Next

LEMMA AllAlways == Spec => [](Inv /\ Tracked /\ Types)
BY InvAlways, TrackedInit, TrackedNext, TypesInit, TypesNext, PTL DEF Spec

\* Whatever is on record, in a task, at GitHub or said is of a run that was recorded.
THEOREM TypesAreKnown == Spec => []TypeOK
<1>1. Types => TypeOK
  BY DEF Types, RunsTyped, RecordTyped, TasksTyped, StageKnown, GitHubTyped, SaidTyped, OfRuns, TypeOK
<1> QED BY <1>1, AllAlways, PTL

-----------------------------------------------------------------------------
(***************************************************************************)
(* Results.  Of the runs on record there is a latest, since there are only *)
(* so many; and none of them has the key of a question.                    *)
(***************************************************************************)
LEMMA BoundedHasGreatest ==
    ASSUME NEW S \in SUBSET Nat, S # {}, NEW b \in Nat, \A s \in S : s <= b
    PROVE  \E m \in S : \A s \in S : s <= m
<1> DEFINE T == {b - s : s \in S}
<1>1. T \subseteq Nat /\ T # {}
  <2>1. \A s \in S : b - s \in Nat
    OBVIOUS
  <2>2. PICK s \in S : TRUE
    OBVIOUS
  <2>3. b - s \in T
    BY <2>2
  <2> QED BY <2>1, <2>3
<1>2. PICK x \in T : \A y \in T : ~(<<y, x>> \in OpToRel(<, Nat))
  <2> HIDE DEF T
  <2> QED BY <1>1, NatLessThanWellFounded, WFMin, Zenon
<1>3. \A y \in T : ~(y < x)
  BY <1>1, <1>2 DEF OpToRel
<1>4. PICK m \in S : x = b - m
  OBVIOUS
<1>5. ASSUME NEW s \in S PROVE s <= m
  <2>1. ~(b - s < x)
    BY <1>3
  <2> QED BY <1>4, <2>1
<1> QED BY <1>5

LEMMA LatestIsGreatest ==
    ASSUME Inv, NEW product, NEW n \in Of(product)
    PROVE  Latest(product) \in Of(product) /\ n <= Latest(product)
<1>1. Of(product) \in SUBSET Nat /\ Len(runs) \in Nat /\ \A m \in Of(product) : m <= Len(runs)
  BY RunsAreRuns DEF Of, Inv
<1>2. \E m \in Of(product) : \A k \in Of(product) : k <= m
  BY <1>1, BoundedHasGreatest
<1> QED BY <1>2 DEF Latest

\* The key of a run is not that of a question, for the words would be the same.
LEMMA QuestionsAreNotRuns ==
    ASSUME Types, NEW req \in Requests, Parsed(req.text).action = "results"
    PROVE  record[Key(req)] = None
<1> SUFFICES ASSUME record[Key(req)] # None PROVE FALSE
  OBVIOUS
<1> DEFINE n == record[Key(req)]
<1>1. n \in Numbers /\ runs[n].key = Key(req)
  BY DEF Types, RecordTyped, Keys
<1>2. /\ runs[n].by \in Requests /\ runs[n].key = Key(runs[n].by)
      /\ Parsed(runs[n].by.text).action # "results"
  BY <1>1 DEF Types, RunsTyped
<1> HIDE DEF n
<1>3. runs[n].by.text = req.text
  <2> DEFINE by == runs[n].by
  <2>1. Key(by) = Key(req) /\ by \in Requests
    BY <1>1, <1>2
  <2> HIDE DEF by
  <2>2. by.text = req.text
    <3>1. CASE by.trigger = "" /\ req.trigger = ""
      BY <2>1, <3>1 DEF Key
    <3>2. CASE by.trigger # "" /\ req.trigger # ""
      BY <2>1, <3>2, TriggersAreUnique DEF Key
    <3>3. (by.trigger = "") <=> (req.trigger = "")
      BY <2>1 DEF Key
    <3> QED BY <3>1, <3>2, <3>3
  <2> QED BY <2>2 DEF by
<1> QED BY <1>2, <1>3

\* A question for results is answered with the latest run of the product on record.
THEOREM LatestIsAnswered == Spec => []ResultsAreTheLatest
<1>1. Inv /\ Types => ResultsAreTheLatest
  <2> SUFFICES ASSUME Inv, Types, NEW req \in Requests, Reply(req).what = "results",
                      NEW n \in Of(Parsed(req.text).product)
               PROVE  Reply(req).run >= n /\ runs[Reply(req).run].product = runs[n].product
    BY DEF ResultsAreTheLatest
  <2>1. Verdict(config, req) = "ok" /\ Parsed(req.text).action = "results"
    BY DEF Reply, Answer, Verdict, Wording, Stranger, Refusal
  <2>2. Reply(req).run = Latest(Parsed(req.text).product)
    BY <2>1, QuestionsAreNotRuns DEF Reply, Answer
  <2>3. Latest(Parsed(req.text).product) \in Of(Parsed(req.text).product)
        /\ n <= Latest(Parsed(req.text).product)
    BY LatestIsGreatest
  <2>4. \A m \in Of(Parsed(req.text).product) : m \in Int /\ runs[m].product = Parsed(req.text).product
    BY RunsAreRuns DEF Of, Inv
  <2> QED BY <2>2, <2>3, <2>4
<1> QED BY <1>1, AllAlways, PTL

-----------------------------------------------------------------------------
(***************************************************************************)
(* Announcements.  A run has one task, nothing final is said of it by the  *)
(* task while there is one, and a task that GitHub has not been asked by,  *)
(* or that it refused, has nothing there.                                  *)
(***************************************************************************)
Ends == DidNotRun \cup {"killed"}
TaskWords == Ends \cup {"queued", "unreachable"}

Alone == \A t, u \in tasks : t.run = u.run => t = u
Untold == \A t \in tasks : ~Told(t.run, TaskWords)
Fresh == \A t \in tasks : t.at \in {"waiting", "running", "ended", "rejected"} => ~AtGitHub(t.run)
Over == \A n \in Numbers :
    Told(n, Ends) => ~InHand(n) /\ ~Told(n, (Reports \cup {"queued"}))
OneEnd == \A n \in Numbers : Told(n, DidNotRun) => ~Told(n, {"killed"})
QueuedThere == \A n \in Numbers : Told(n, {"queued"}) => AtGitHub(n)

Truth == Alone /\ Untold /\ Fresh /\ Over /\ OneEnd /\ QueuedThere

LEMMA TruthInit == Init => Truth
BY DEF Init, Truth, Alone, Untold, Fresh, Over, OneEnd, QueuedThere, Numbers

LEMMA ToldSplit ==
    ASSUME NEW n, NEW V, NEW W PROVE Told(n, V \cup W) <=> Told(n, V) \/ Told(n, W)
BY DEF Told

\* What one word adds to what is told.
SaysWord(w, n) == \E where : said' = said \cup {Message(w, n, where)}

LEMMA WordIsTold ==
    ASSUME NEW w, NEW n, SaysWord(w, n)
    PROVE  \A k, W : Told(k, W)' <=> Told(k, W) \/ (k = n /\ w \in W)
<1> PICK where : said' = said \cup {Message(w, n, where)}
  BY DEF SaysWord
<1> QED BY MessageFields DEF Told

LEMMA SilenceTellsNothing ==
    ASSUME UNCHANGED said PROVE \A k, W : Told(k, W)' <=> Told(k, W)
BY DEF Told

There(n) == \E g \in Groups : n \in {github[g].active, github[g].pending}

\* What a step of a task does to its run, by what it leaves of the task.
Ending(t) == /\ Drop(t) /\ UNCHANGED <<github, superseded>>
             /\ \/ /\ t.at \in {"waiting", "running", "rejected"}
                   /\ \E w \in Ends : SaysWord(w, t.run)
                \/ t.at = "ended" /\ SaysWord("summary", t.run)
                \/ t.at = "accepted" /\ SaysWord("queued", t.run)
                \/ SaysWord("unreachable", t.run)
Going(t) == /\ UNCHANGED <<github, superseded>>
            /\ UNCHANGED said \/ SaysWord("starting", t.run)
            /\ \E at : /\ Move(t, at)
                       /\ \/ at \in {"unanswered", "raised"}
                          \/ at \in {"running", "ended", "rejected"} /\ t.at \in {"waiting", "running"}
Taking(t) == /\ t.at = "waiting" /\ Take(t.run) /\ UNCHANGED said
             /\ Move(t, "accepted") \/ Move(t, "unanswered")

LEMMA TaskDoes ==
    ASSUME NEW t \in tasks, TaskStep(t)
    PROVE  t.at # "raised" /\ (Ending(t) \/ Going(t) \/ Taking(t))
<1> USE DEF Ends, DidNotRun
<1>0. ASSUME NEW w, NEW where, Say(w, t.run, where) PROVE SaysWord(w, t.run)
  BY <1>0 DEF Say, SaysWord
<1>1. CASE NoSuite(t) \/ DryRun(t)
  BY <1>0, <1>1 DEF NoSuite, DryRun, Ending
<1>2. CASE Finish(t)
  BY <1>0, <1>2 DEF Finish, Ending
<1>3. CASE GivesUp(t)
  BY <1>0, <1>3 DEF GivesUp, GiveUp, Ending
<1>4. CASE Report(t)
  <2>1. CASE t.at = "accepted"
    BY <1>0, <1>4, <2>1 DEF Report, Verdict204, Ending
  <2>2. CASE t.at = "rejected"
    BY <1>0, <1>4, <2>2 DEF Report, Verdict204, Ending
  <2>3. CASE t.at = "unanswered"
    BY <1>0, <1>4, <2>3 DEF Report, Verdict204, Ending
  <2> QED BY <1>4, <2>1, <2>2, <2>3 DEF Report
<1>5. CASE Begin(t)
  BY <1>0, <1>5 DEF Begin, Going
<1>6. CASE SuiteEnds(t) \/ Raises(t)
  BY <1>6 DEF SuiteEnds, Raises, Going
<1>7. CASE Dispatch(t)
  BY <1>7 DEF Dispatch, Going, Taking
<1> QED BY <1>1, <1>2, <1>3, <1>4, <1>5, <1>6, <1>7 DEF TaskStep

\* To other runs it does nothing.
LEMMA OthersUntouched ==
    ASSUME Tracked, Types, Alone, NEW t \in tasks, TaskStep(t)
    PROVE  /\ \A k, W : k # t.run => (Told(k, W)' <=> Told(k, W))
           /\ \A k \in Nat \ {None} : k # t.run => (There(k)' => There(k)) /\ (AtGitHub(k)' => AtGitHub(k))
           /\ \A u \in tasks' : u.run # t.run => u \in tasks
           /\ \A u \in tasks' : u.run = t.run => \E at : u = Task(t.run, at) /\ Move(t, at)
<1>1. \A k, W : k # t.run => (Told(k, W)' <=> Told(k, W))
  <2>1. CASE UNCHANGED said
    BY <2>1, SilenceTellsNothing
  <2>2. ASSUME NEW w, SaysWord(w, t.run) PROVE \A k, W : k # t.run => (Told(k, W)' <=> Told(k, W))
    BY <2>2, WordIsTold
  <2> QED BY <2>1, <2>2, TaskDoes DEF Ending, Going, Taking
<1>2. ASSUME NEW k \in Nat \ {None}, k # t.run
      PROVE  (There(k)' => There(k)) /\ (AtGitHub(k)' => AtGitHub(k))
  <2>1. CASE UNCHANGED <<github, superseded>>
    BY <1>1, <1>2, <2>1 DEF There, AtGitHub
  <2>2. CASE Take(t.run)
    <3>1. Group(t.run) \in Groups
      BY DEF Types, TasksTyped, RunsTyped
    <3>2. \A g \in Groups : k \in {github'[g].active, github'[g].pending} =>
                                k \in {github[g].active, github[g].pending}
      BY <1>2, <2>2, <3>1 DEF Take, Tracked
    <3>3. k \in superseded' => k \in superseded \/ There(k)
      BY <1>2, <2>2, <3>1 DEF Take, There
    <3> QED BY <1>1, <1>2, <3>2, <3>3 DEF There, AtGitHub
  <2> QED BY <2>1, <2>2, TaskDoes DEF Ending, Going, Taking
<1>3. CASE Drop(t)
  BY <1>1, <1>2, <1>3 DEF Drop, Alone
<1>4. ASSUME NEW at, Move(t, at)
      PROVE  /\ \A u \in tasks' : u.run # t.run => u \in tasks
             /\ \A u \in tasks' : u.run = t.run => u = Task(t.run, at)
  BY <1>4 DEF Move, Alone, Task
<1> QED BY <1>1, <1>2, <1>3, <1>4, TaskMoves

LEMMA AloneByTask ==
    ASSUME Alone, NEW t \in tasks, TaskStep(t) PROVE Alone'
<1>1. CASE Drop(t)
  BY <1>1 DEF Drop, Alone
<1>2. ASSUME NEW at, Move(t, at) PROVE Alone'
  <2>1. tasks' = (tasks \ {t}) \cup {Task(t.run, at)} /\ Task(t.run, at).run = t.run
    BY <1>2 DEF Move, Task
  <2> QED BY <2>1 DEF Alone
<1> QED BY <1>1, <1>2, TaskMoves

LEMMA TruthByTask ==
    ASSUME Inv, Tracked, Types, Truth, NEW t \in tasks, TaskStep(t)
    PROVE  Truth'
<1> DEFINE n == t.run
<1>0. /\ n \in Numbers /\ Numbers' = Numbers /\ [Next]_vars
      /\ \A k \in Numbers : k \in Nat \ {None}
  BY RunsAreRuns DEF Inv, Tracked, Numbers, Next, TaskStep, None
<1>1. ~Told(n, Ends) /\ ~Told(n, {"queued"}) /\ ~Told(n, {"killed"}) /\ ~Told(n, DidNotRun)
      /\ ~Told(n, TaskWords)
  BY ToldSplit DEF Truth, Untold, TaskWords, Ends
<1>2. \A k \in Numbers : AtGitHub(k) => AtGitHub(k)'
  BY <1>0, AtGitHubStays
<1> HIDE DEF n
<1>3. /\ \A k, W : k # n => (Told(k, W)' <=> Told(k, W))
      /\ \A k \in Numbers : k # n => (There(k)' => There(k)) /\ (AtGitHub(k)' => AtGitHub(k))
      /\ \A u \in tasks' : u.run # n => u \in tasks
      /\ \A u \in tasks' : u.run = n => \E at : u = Task(n, at) /\ Move(t, at)
  BY <1>0, OthersUntouched DEF Truth, n
<1>4. Alone'
  BY AloneByTask DEF Truth
<1>5. \A u \in tasks' : u.run \in Numbers
  BY <1>0, <1>3 DEF Tracked
<1>6. Untold'
  <2>1. CASE Drop(t)
    BY <1>3, <2>1 DEF Drop, Truth, Alone, Untold, n
  <2>2. CASE Going(t) \/ Taking(t)
    <3>1. Told(n, TaskWords)' <=> Told(n, TaskWords)
      <4>1. CASE UNCHANGED said
        BY <4>1, SilenceTellsNothing
      <4>2. CASE SaysWord("starting", n)
        BY <4>2, WordIsTold DEF TaskWords, Ends, DidNotRun
      <4> QED BY <2>2, <4>1, <4>2 DEF Going, Taking, n
    <3> QED BY <1>1, <1>3, <3>1 DEF Truth, Untold
  <2> QED BY <2>1, <2>2, TaskDoes DEF Ending
<1>7. Fresh'
  <2> SUFFICES ASSUME NEW u \in tasks', u.at \in {"waiting", "running", "ended", "rejected"}
               PROVE  ~AtGitHub(u.run)'
    BY DEF Fresh
  <2>1. CASE u.run # n
    BY <1>3, <1>5, <2>1 DEF Truth, Fresh
  <2>2. CASE u.run = n
    <3>1. PICK at : u = Task(n, at) /\ Move(t, at)
      BY <1>3, <2>2
    <3>2. u.at = at
      BY <3>1 DEF Task
    <3>3. Going(t) /\ t.at \in {"waiting", "running"}
      <4>0. \A v \in tasks \ {t} : v.run # n
        BY DEF Truth, Alone, n
      <4>1. ASSUME NEW b, Move(t, b) PROVE b = at
        <5>1. Task(n, b) \in tasks' /\ Task(n, b).run = n /\ Task(n, b).at = b
          BY <4>1 DEF Move, Task, n
        <5>2. tasks' = (tasks \ {t}) \cup {Task(n, at)}
          BY <3>1 DEF Move, n
        <5>3. Task(n, b) = Task(n, at)
          BY <5>1, <5>2, <4>0
        <5> QED BY <5>1, <5>3, <3>1, <3>2
      <4>2. ~Drop(t)
        BY <2>2, <4>0 DEF Drop
      <4> QED BY <3>2, <4>1, <4>2, TaskDoes DEF Ending, Going, Taking
    <3>4. ~AtGitHub(n) /\ UNCHANGED <<github, superseded>>
      BY <3>3 DEF Going, Truth, Fresh, n
    <3>5. ~Told(n, Reports)'
      <4>1. ~Told(n, Reports)
        BY <3>4 DEF AtGitHub
      <4>2. CASE UNCHANGED said
        BY <4>1, <4>2, SilenceTellsNothing
      <4>3. CASE SaysWord("starting", n)
        BY <4>1, <4>3, WordIsTold
      <4> QED BY <3>3, <4>2, <4>3 DEF Going, n
    <3> QED BY <2>2, <3>4, <3>5 DEF AtGitHub
  <2> QED BY <2>1, <2>2
<1>8. ASSUME NEW k \in Numbers, k # n, InHand(k)' PROVE InHand(k)
  BY <1>3, <1>8 DEF InHand, There
<1>9. Told(n, Ends)' =>
          /\ Drop(t) /\ UNCHANGED <<github, superseded>> /\ ~AtGitHub(n)
          /\ \E w \in Ends : SaysWord(w, n)
  <2>1. ASSUME NEW w, SaysWord(w, n), w \notin Ends PROVE ~Told(n, Ends)'
    BY <1>1, <2>1, WordIsTold
  <2>2. CASE UNCHANGED said
    BY <1>1, <2>2, SilenceTellsNothing
  <2>3. "starting" \notin Ends /\ "summary" \notin Ends /\ "queued" \notin Ends /\ "unreachable" \notin Ends
    BY DEF Ends, DidNotRun
  <2>4. t.at \in {"waiting", "running", "rejected"} => ~AtGitHub(n)
    BY DEF Truth, Fresh, n
  <2> QED BY <2>1, <2>2, <2>3, <2>4, TaskDoes DEF Ending, Going, Taking, n
<1>10. Over'
  <2> SUFFICES ASSUME NEW k \in Numbers, Told(k, Ends)'
               PROVE  ~InHand(k)' /\ ~Told(k, (Reports \cup {"queued"}))'
    BY <1>0 DEF Over
  <2>1. CASE k # n
    BY <1>3, <1>8, <2>1 DEF Truth, Over
  <2>2. CASE k = n
    <3>1. PICK w \in Ends : SaysWord(w, n)
      BY <1>9, <2>2
    <3>2. ~InHand(n)'
      <4>1. ~There(n)'
        BY <1>9, <2>2 DEF There, AtGitHub
      <4>2. \A u \in tasks' : u.run # n
        BY <1>9, <2>2 DEF Drop, Truth, Alone, n
      <4> QED BY <4>1, <4>2 DEF InHand, There
    <3>3. ~Told(n, (Reports \cup {"queued"}))
      <4>1. ~Told(n, Reports)
        BY <1>9, <2>2 DEF AtGitHub
      <4> QED BY <1>1, <4>1 DEF Told
    <3>4. w \notin (Reports \cup {"queued"})
      BY <3>1 DEF Ends, DidNotRun
    <3> QED BY <2>2, <3>1, <3>2, <3>3, <3>4, WordIsTold
  <2> QED BY <2>1, <2>2
<1>11. OneEnd'
  <2> SUFFICES ASSUME NEW k \in Numbers, Told(k, DidNotRun)' PROVE ~Told(k, {"killed"})'
    BY <1>0 DEF OneEnd
  <2>1. CASE k # n
    BY <1>3, <2>1 DEF Truth, OneEnd
  <2>2. CASE k = n
    <3>1. CASE UNCHANGED said
      BY <1>1, <2>2, <3>1, SilenceTellsNothing
    <3>2. ASSUME NEW w, SaysWord(w, n) PROVE ~Told(k, {"killed"})'
      <4>1. w \in DidNotRun
        BY <1>1, <2>2, <3>2, WordIsTold
      <4>2. w \notin {"killed"}
        BY <4>1 DEF DidNotRun
      <4> QED BY <1>1, <2>2, <3>2, <4>2, WordIsTold
    <3> QED BY <3>1, <3>2, TaskDoes DEF Ending, Going, Taking, n
  <2> QED BY <2>1, <2>2
<1>12. QueuedThere'
  <2> SUFFICES ASSUME NEW k \in Numbers, Told(k, {"queued"})' PROVE AtGitHub(k)'
    BY <1>0 DEF QueuedThere
  <2>1. CASE k # n
    BY <1>2, <1>3, <2>1 DEF Truth, QueuedThere
  <2>2. CASE k = n
    <3>1. ASSUME NEW w, SaysWord(w, n), w # "queued" PROVE FALSE
      BY <1>1, <2>2, <3>1, WordIsTold
    <3>2. ASSUME UNCHANGED said PROVE FALSE
      BY <1>1, <2>2, <3>2, SilenceTellsNothing
    <3>3. t.at = "accepted"
      <4>1. \A w \in Ends : w # "queued"
        BY DEF Ends, DidNotRun
      <4>2. \A w : SaysWord(w, t.run) => w = "queued"
        BY <3>1 DEF n
      <4>3. CASE Ending(t)
        BY <4>1, <4>2, <4>3 DEF Ending
      <4>4. CASE Going(t)
        BY <3>2, <4>2, <4>4 DEF Going
      <4> QED BY <3>2, <4>3, <4>4, TaskDoes DEF Taking
    <3>4. AtGitHub(n)
      BY <3>3 DEF Tracked, n
    <3> QED BY <1>0, <1>2, <2>2, <3>4
  <2> QED BY <2>1, <2>2
<1> QED BY <1>4, <1>6, <1>7, <1>10, <1>11, <1>12 DEF Truth

\* The workflow speaks of a run that is there, of which therefore no end was told.
LEMMA TruthByWorkflow ==
    ASSUME Inv, Tracked, Types, Truth, NEW g \in Groups, WorkflowStep(g)
    PROVE  Truth'
<1>1. PICK n : n = github[g].active
  OBVIOUS
<1>2. /\ n \in Numbers /\ AtGitHub(n) /\ InHand(n)
      /\ Numbers' = Numbers /\ UNCHANGED <<tasks, superseded>> /\ [Next]_vars
      /\ \A k \in Numbers : k \in Nat \ {None}
  <2>1. n # None
    BY <1>1, WorkflowSays
  <2>2. n \in Numbers
    BY <1>1, <2>1 DEF Types, GitHubTyped, OfRuns
  <2>3. Numbers' = Numbers /\ UNCHANGED <<tasks, superseded>>
    BY DEF WorkflowStep, Introduce, Conclude, Numbers
  <2> QED BY <1>1, <2>2, <2>3, RunsAreRuns DEF Inv, Numbers, None, Next, AtGitHub, InHand
<1>3. PICK w \in Reports \cup {"starting"} : SaysWord(w, n)
  BY <1>1 DEF WorkflowStep, Introduce, Conclude, Say, SaysWord
<1>4. ~Told(n, Ends)
  BY <1>2 DEF Truth, Over
<1>5. \A k, W : Told(k, W)' <=> Told(k, W) \/ (k = n /\ w \in W)
  BY <1>3, WordIsTold
<1>6. /\ \A k : Told(k, Ends)' <=> Told(k, Ends)
      /\ \A k : Told(k, TaskWords)' <=> Told(k, TaskWords)
      /\ \A k : Told(k, DidNotRun)' <=> Told(k, DidNotRun)
      /\ \A k : Told(k, {"killed"})' <=> Told(k, {"killed"})
      /\ \A k : Told(k, {"queued"})' <=> Told(k, {"queued"})
  <2>1. w \notin Ends /\ w \notin TaskWords /\ w \notin DidNotRun /\ w # "killed" /\ w # "queued"
    BY <1>3 DEF Ends, TaskWords, DidNotRun
  <2> QED BY <1>5, <2>1
<1>7. \A k \in Numbers : There(k)' => There(k)
  <2>1. github' = github \/ github' = [github EXCEPT ![g] = [active |-> github[g].pending, pending |-> None]]
    BY DEF WorkflowStep, Introduce, Conclude
  <2> QED BY <1>2, <2>1 DEF There, Tracked
<1>8. \A k \in Numbers : AtGitHub(k)' <=> AtGitHub(k)
  <2>1. \A k \in Numbers : AtGitHub(k) => AtGitHub(k)'
    BY <1>2, AtGitHubStays
  <2>2. ASSUME NEW k \in Numbers, AtGitHub(k)', k # n PROVE AtGitHub(k)
    BY <1>2, <1>5, <1>7, <2>2 DEF AtGitHub, There
  <2> QED BY <1>2, <2>1, <2>2
<1>9. \A k \in Numbers : InHand(k)' => InHand(k)
  BY <1>2, <1>7 DEF InHand, There
<1>10. Alone' /\ Untold' /\ Fresh'
  BY <1>2, <1>6, <1>8 DEF Truth, Alone, Untold, Fresh, Tracked
<1>11. Over'
  <2> SUFFICES ASSUME NEW k \in Numbers, Told(k, Ends)
               PROVE  ~InHand(k)' /\ ~Told(k, (Reports \cup {"queued"}))'
    BY <1>2, <1>6 DEF Over
  <2>1. k # n
    BY <1>4
  <2> QED BY <1>5, <1>9, <2>1 DEF Truth, Over
<1> QED BY <1>2, <1>6, <1>8, <1>10, <1>11 DEF Truth, OneEnd, QueuedThere

LEMMA TruthByReceive ==
    ASSUME Inv, Tracked, Types, Truth, NEW req \in Requests, Receive(req)
    PROVE  Truth'
<1>1. PICK new : new = Len(runs) + 1
  OBVIOUS
<1>2. /\ Numbers' = Numbers \cup {new} /\ new \notin Numbers /\ new # None
      /\ UNCHANGED <<github, superseded, said>>
      /\ tasks' \in {tasks, tasks \cup {Task(new, "waiting")}}
  <2>1. runs' = Append(runs, Run(req)) /\ runs \in Seq(RunSet) /\ Run(req) \in RunSet
    BY RunIsRun DEF Receive, Inv, Typed
  <2>2. Len(runs) \in Nat /\ Len(runs') = Len(runs) + 1
    BY <2>1
  <2> QED BY <1>1, <2>2 DEF Numbers, None, Receive
<1>3. /\ \A k, W : Told(k, W)' <=> Told(k, W)
      /\ \A k : AtGitHub(k)' <=> AtGitHub(k)
  BY <1>2 DEF Told, AtGitHub
<1>4. ~AtGitHub(new) /\ \A W : ~Told(new, W)
  <2>1. \A W : ~Told(new, W)
    BY <1>2 DEF Told, Types, SaidTyped
  <2> QED BY <1>2, <2>1 DEF AtGitHub, Types, GitHubTyped, OfRuns
<1>5. Task(new, "waiting").run = new
  BY DEF Task
<1>6. Alone' /\ Untold' /\ Fresh'
  BY <1>2, <1>3, <1>4, <1>5 DEF Truth, Alone, Untold, Fresh, Types, TasksTyped
<1>7. \A k \in Numbers : InHand(k)' => InHand(k)
  BY <1>2, <1>5 DEF InHand
<1> QED BY <1>2, <1>3, <1>4, <1>6, <1>7 DEF Truth, Over, OneEnd, QueuedThere

LEMMA TruthNext == Inv /\ Tracked /\ Types /\ Truth /\ [Next]_vars => Truth'
<1> SUFFICES ASSUME Inv, Tracked, Types, Truth, [Next]_vars PROVE Truth'
  OBVIOUS
<1>1. CASE Restart
  BY <1>1 DEF Restart, Truth, Alone, Untold, Fresh, Over, OneEnd, QueuedThere, Told, AtGitHub, InHand,
              Numbers
<1>2. CASE UNCHANGED vars
  BY <1>2 DEF vars, Truth, Alone, Untold, Fresh, Over, OneEnd, QueuedThere, Told, AtGitHub, InHand,
              Numbers
<1> QED BY <1>1, <1>2, TruthByTask, TruthByWorkflow, TruthByReceive DEF Next

\* A run that is said to be queued is at GitHub or came out of there, one that is said
\* not to run does not and did not, and one that was killed has no report.
THEOREM ChannelIsTold == Spec => []AnnouncementsAreTrue
<1>1. Truth => AnnouncementsAreTrue
  <2> SUFFICES ASSUME Truth, NEW n \in Numbers
               PROVE  /\ Told(n, {"queued"}) => InHand(n) \/ n \in superseded
                                                \/ Told(n, Reports)
                      /\ Told(n, DidNotRun) => ~InHand(n) /\ ~Told(n, Ran \cup {"queued", "unreported"})
                      /\ Told(n, {"killed"}) => ~Told(n, Reports)
    BY DEF AnnouncementsAreTrue
  <2>1. Told(n, {"queued"}) => InHand(n) \/ n \in superseded \/ Told(n, Reports)
    BY DEF Truth, QueuedThere, AtGitHub, InHand
  <2>2. (Told(n, DidNotRun) \/ Told(n, {"killed"})) => Told(n, Ends)
    BY ToldSplit DEF Ends
  <2>3. Told(n, Ends) => ~InHand(n) /\ ~Told(n, (Reports \cup {"queued"}))
    BY DEF Truth, Over
  <2>4. Told(n, Ran \cup {"queued", "unreported"}) =>
            Told(n, {"killed"}) \/ Told(n, (Reports \cup {"queued"}))
    BY DEF Told, Ran
  <2>5. Told(n, Reports) => Told(n, (Reports \cup {"queued"}))
    BY DEF Told
  <2>6. Told(n, DidNotRun) => ~Told(n, {"killed"})
    BY DEF Truth, OneEnd
  <2> QED BY <2>1, <2>2, <2>3, <2>4, <2>5, <2>6
<1> QED BY <1>1, TruthInit, TruthNext, AllAlways, PTL DEF Spec


-----------------------------------------------------------------------------
(***************************************************************************)
(* The contract.  A run is in one place at GitHub, the one of its group,   *)
(* and in none any more when its outcome was told from there.              *)
(***************************************************************************)
Places == \A g \in Groups :
    /\ \A n \in {github[g].active, github[g].pending} \ {None} : Group(n) = g
    /\ github[g].active = github[g].pending => github[g].pending = None
Gone == \A n \in Numbers : Told(n, Reports) => ~There(n)
OneOutcome == \A n \in Numbers : \A v, w \in Outcomes : Told(n, {v}) /\ Told(n, {w}) => v = w

Numbered == Numbers \subseteq 1..MaxRuns

Final == Places /\ Gone /\ OneOutcome /\ Numbered

\* What a step does to one run.
Shrinks(n) == /\ \A w \in Outcomes : Told(n, {w})' <=> Told(n, {w})
              /\ InHand(n)' => InHand(n)
Same(n) == Shrinks(n) /\ (InHand(n) => InHand(n)')
Ended(n, w) == /\ InHand(n) /\ w \in Outcomes
               /\ \A v \in Outcomes : ~Told(n, {v}) /\ (Told(n, {v})' <=> v = w)

\* And to all of them.
Losing == Numbers' = Numbers /\ \A n \in Numbers : Shrinks(n)
Closing == /\ Numbers' = Numbers
           /\ \E n \in Numbers, w \in Outcomes :
                  Ended(n, w) /\ \A k \in Numbers \ {n} : Same(k)
Beginning == \E new \in 1..MaxRuns :
    /\ new = Len(runs) + 1 /\ Numbers' = Numbers \cup {new}
    /\ \A n \in Numbers : Same(n)
    /\ \A w \in Outcomes : ~Told(new, {w})'
    /\ mode = "edge" \/ InHand(new)'

LEMMA OutcomesSplit == Outcomes = Ends \cup Reports
BY DEF Outcomes, Ran, DidNotRun, Ends

\* Of a run that is in hand no end was told but by the workflow.
LEMMA NothingToldYet ==
    ASSUME Truth, NEW n \in Numbers, ~Told(n, Ends), ~Told(n, Reports)
    PROVE  \A w \in Outcomes : ~Told(n, {w})
BY OutcomesSplit DEF Told

LEMMA InHandShrinks ==
    ASSUME Inv, Tracked, Types, Truth, NEW t \in tasks, TaskStep(t), NEW n \in Numbers, InHand(n)'
    PROVE  InHand(n)
<1>1. n \in Nat \ {None} /\ t.at # "raised"
  BY RunsAreRuns, TaskDoes DEF Inv, Numbers, None
<1>2. CASE n = t.run
  BY <1>1, <1>2 DEF InHand
<1>3. CASE n # t.run
  BY <1>1, <1>3, OthersUntouched DEF Truth, InHand, There
<1> QED BY <1>2, <1>3

LEMMA TaskLosesOrCloses ==
    ASSUME Inv, Tracked, Types, Truth, Final, NEW t \in tasks, TaskStep(t)
    PROVE  Losing \/ Closing
<1>0. /\ t.run \in Numbers /\ Numbers' = Numbers /\ t.at # "raised" /\ InHand(t.run)
      /\ \A n \in Numbers : InHand(n)' => InHand(n)
  BY TaskDoes, InHandShrinks DEF Tracked, TaskStep, Numbers, InHand
<1>1. ASSUME NEW w, w \notin Outcomes, UNCHANGED said \/ SaysWord(w, t.run)
      PROVE  Losing
  <2>1. \A k : \A v \in Outcomes : Told(k, {v})' <=> Told(k, {v})
    BY <1>1, WordIsTold, SilenceTellsNothing
  <2> QED BY <1>0, <2>1 DEF Losing, Shrinks
<1>2. ASSUME NEW w \in Outcomes, SaysWord(w, t.run), Drop(t), UNCHANGED <<github, superseded>>,
             t.at \in {"waiting", "running", "rejected", "ended"}
      PROVE  Closing
  <2>1. \A v \in Outcomes : ~Told(t.run, {v})
    <3>1. ~Told(t.run, Ends) /\ ~Told(t.run, Reports)
      BY <1>2, ToldSplit DEF Truth, Untold, TaskWords, Fresh, AtGitHub
    <3> QED BY <1>0, <3>1, NothingToldYet
  <2>2. Ended(t.run, w)
    BY <1>0, <1>2, <2>1, WordIsTold DEF Ended
  <2>3. ASSUME NEW k \in Numbers \ {t.run} PROVE Same(k)
    <3>1. InHand(k)' <=> InHand(k)
      BY <1>2, <2>3 DEF InHand, Drop
    <3> QED BY <1>2, <2>3, <3>1, WordIsTold DEF Same, Shrinks
  <2> QED BY <1>0, <2>2, <2>3 DEF Closing
<1>3. CASE Ending(t)
  <2>1. "queued" \notin Outcomes /\ "unreachable" \notin Outcomes
        /\ Ends \subseteq Outcomes /\ "summary" \in Outcomes
    BY DEF Outcomes, Ran, DidNotRun, Ends
  <2> QED BY <1>1, <1>2, <1>3, <2>1 DEF Ending
<1>4. CASE Going(t) \/ Taking(t)
  <2>1. "starting" \notin Outcomes
    BY DEF Outcomes, Ran, DidNotRun
  <2> QED BY <1>1, <1>4, <2>1 DEF Going, Taking
<1> QED BY <1>3, <1>4, TaskDoes

LEMMA WorkflowLosesOrCloses ==
    ASSUME Inv, Tracked, Types, Truth, Final, NEW g \in Groups, WorkflowStep(g)
    PROVE  Losing \/ Closing
<1>1. PICK n : n = github[g].active
  OBVIOUS
<1>2. /\ n # None /\ n \in Numbers /\ There(n) /\ InHand(n)
      /\ Numbers' = Numbers /\ UNCHANGED <<tasks, superseded>>
      /\ \A k \in Numbers : k \in Nat \ {None}
  <2>1. n # None
    BY <1>1, WorkflowSays
  <2>2. n \in Numbers
    BY <1>1, <2>1 DEF Types, GitHubTyped, OfRuns
  <2>3. Numbers' = Numbers /\ UNCHANGED <<tasks, superseded>>
    BY DEF WorkflowStep, Introduce, Conclude, Numbers
  <2> QED BY <1>1, <2>1, <2>2, <2>3, RunsAreRuns DEF Inv, Numbers, None, There, InHand
<1>3. CASE Introduce(g)
  <2>1. SaysWord("starting", n) /\ UNCHANGED github
    BY <1>1, <1>3 DEF Introduce, Say, SaysWord
  <2>2. "starting" \notin Outcomes
    BY DEF Outcomes, Ran, DidNotRun
  <2> QED BY <1>2, <2>1, <2>2, WordIsTold DEF Losing, Shrinks, InHand
<1>4. CASE Conclude(g)
  <2>1. PICK w \in Reports : SaysWord(w, n)
    BY <1>1, <1>4 DEF Conclude, Say, SaysWord
  <2>2. github' = [github EXCEPT ![g] = [active |-> github[g].pending, pending |-> None]]
    BY <1>4 DEF Conclude
  <2>3. w \in Outcomes
    BY OutcomesSplit
  <2>4. Ended(n, w)
    <3>1. ~Told(n, Ends) /\ ~Told(n, Reports)
      BY <1>2 DEF Truth, Over, Final, Gone
    <3> QED BY <1>2, <2>1, <2>3, <3>1, NothingToldYet, WordIsTold DEF Ended
  <2>5. ASSUME NEW k \in Numbers \ {n} PROVE Same(k)
    <3>1. \A h \in Groups : k \in {github'[h].active, github'[h].pending} <=>
                             k \in {github[h].active, github[h].pending}
      BY <1>1, <1>2, <2>2 DEF Tracked
    <3>2. InHand(k)' <=> InHand(k)
      BY <1>2, <3>1 DEF InHand
    <3> QED BY <2>1, <3>2, WordIsTold DEF Same, Shrinks
  <2> QED BY <1>2, <2>3, <2>4, <2>5 DEF Closing
<1> QED BY <1>3, <1>4 DEF WorkflowStep

LEMMA ReceiveBegins ==
    ASSUME Inv, Types, NEW req \in Requests, Receive(req) PROVE Beginning
<1>1. PICK new : new = Len(runs) + 1
  OBVIOUS
<1>2. /\ Numbers' = Numbers \cup {new} /\ new \notin Numbers /\ new \in 1..MaxRuns
      /\ UNCHANGED <<github, superseded, said>> /\ tasks \subseteq tasks'
      /\ mode # "edge" => Task(new, "waiting") \in tasks'
      /\ \A u \in tasks' : u \in tasks \/ u = Task(new, "waiting")
  <2>1. runs' = Append(runs, Run(req)) /\ runs \in Seq(RunSet) /\ Run(req) \in RunSet
    BY RunIsRun DEF Receive, Inv, Typed
  <2>2. Len(runs) \in Nat /\ Len(runs') = Len(runs) + 1
    BY <2>1
  <2> QED BY <1>1, <2>2, RunsAreBounded DEF Numbers, Receive
<1>3. \A k, W : Told(k, W)' <=> Told(k, W)
  BY <1>2, SilenceTellsNothing
<1>4. Task(new, "waiting").run = new /\ Task(new, "waiting").at = "waiting"
  BY DEF Task
<1>5. ASSUME NEW n \in Numbers PROVE Same(n)
  <2>1. InHand(n)' <=> InHand(n)
    BY <1>2, <1>4, <1>5 DEF InHand
  <2> QED BY <1>3, <2>1 DEF Same, Shrinks
<1>6. mode = "edge" \/ InHand(new)'
  BY <1>2, <1>4 DEF InHand
<1>7. \A W : ~Told(new, W)
  BY <1>2 DEF Told, Types, SaidTyped
<1> QED BY <1>1, <1>2, <1>3, <1>5, <1>6, <1>7 DEF Beginning

\* Each step is one of the contract's, or leaves every run as it is.
LEMMA StepDoes ==
    ASSUME Inv, Tracked, Types, Truth, Final, [Next]_vars
    PROVE  mode' = mode /\ (Losing \/ Closing \/ Beginning)
<1>1. mode' = mode
  BY DEF Next, vars, Receive, Restart, TaskStep, WorkflowStep, mode
<1>2. CASE UNCHANGED <<runs, github, said>> /\ tasks' \in {tasks, {}}
  BY <1>1, <1>2, SilenceTellsNothing DEF Losing, Shrinks, InHand, Numbers
<1>3. CASE Restart \/ UNCHANGED vars
  BY <1>2, <1>3 DEF Restart, vars
<1> QED BY <1>1, <1>3, ReceiveBegins, TaskLosesOrCloses, WorkflowLosesOrCloses DEF Next

LEMMA FinalInit == Init => Final
BY DEF Init, Final, Places, Gone, OneOutcome, Numbered, Numbers, Told

LEMMA PlacesNext == Inv /\ Tracked /\ Types /\ Truth /\ Final /\ [Next]_vars => Places'
<1> SUFFICES ASSUME Inv, Tracked, Types, Truth, Final, [Next]_vars PROVE Places'
  OBVIOUS
<1>0. /\ \A g \in Groups : {github[g].active, github[g].pending} \subseteq Numbers \cup {None}
      /\ \A k \in Numbers : k \in Nat \ {None}
      /\ github \in [Groups -> [active: Nat, pending: Nat]]
  BY RunsAreRuns DEF Types, GitHubTyped, OfRuns, Tracked, Inv, Numbers, None
<1>1. \A n \in Numbers : Group(n)' = Group(n)
  <2>1. CASE UNCHANGED runs
    BY <2>1 DEF Group
  <2>2. ASSUME NEW req \in Requests, Receive(req) PROVE \A n \in Numbers : runs'[n] = runs[n]
    <3>1. runs' = Append(runs, Run(req)) /\ runs \in Seq(RunSet) /\ Run(req) \in RunSet
      BY <2>2, RunIsRun DEF Receive, Inv, Typed
    <3> QED BY <3>1 DEF Numbers
  <2> QED BY <2>1, <2>2 DEF Next, vars, Restart, TaskStep, WorkflowStep, Group
<1>2. CASE UNCHANGED github
  BY <1>0, <1>1, <1>2 DEF Final, Places
<1>3. ASSUME NEW t \in tasks, t.at = "waiting", Take(t.run) PROVE Places'
  <2>1. t.run \in Numbers /\ ~There(t.run) /\ Group(t.run) \in Groups
    BY <1>3 DEF Truth, Fresh, AtGitHub, There, Tracked, Types, RunsTyped
  <2>2. ASSUME NEW g \in Groups
        PROVE  /\ \A n \in {github'[g].active, github'[g].pending} \ {None} : Group(n)' = g
               /\ github'[g].active = github'[g].pending => github'[g].pending = None
    <3>1. CASE g # Group(t.run)
      <4>1. github'[g] = github[g]
        BY <1>0, <1>3, <3>1 DEF Take
      <4> QED BY <1>0, <1>1, <4>1 DEF Final, Places
    <3>2. CASE g = Group(t.run) /\ github[g].active = None
      <4>1. github'[g].active = t.run /\ github'[g].pending = None
        BY <1>0, <1>3, <2>1, <3>2 DEF Take, Types, GitHubTyped
      <4> QED BY <1>0, <1>1, <2>1, <3>2, <4>1
    <3>3. CASE g = Group(t.run) /\ github[g].active # None
      <4>1. github'[g].active = github[g].active /\ github'[g].pending = t.run
        BY <1>0, <1>3, <2>1, <3>3 DEF Take
      <4>2. github[g].active # t.run
        BY <2>1 DEF There
      <4> QED BY <1>0, <1>1, <2>1, <3>3, <4>1, <4>2 DEF Final, Places
    <3> QED BY <3>1, <3>2, <3>3
  <2> QED BY <2>2 DEF Places
<1>4. ASSUME NEW g \in Groups,
             github' = [github EXCEPT ![g] = [active |-> github[g].pending, pending |-> None]]
      PROVE  Places'
  <2>1. \A h \in Groups : github'[h] = IF h = g THEN [active |-> github[g].pending, pending |-> None]
                                       ELSE github[h]
    BY <1>0, <1>4
  <2> QED BY <1>0, <1>1, <2>1 DEF Final, Places
<1>5. ASSUME NEW t \in tasks, TaskStep(t) PROVE Places'
  BY <1>2, <1>3, <1>5, TaskDoes DEF Ending, Going, Taking
<1>6. ASSUME NEW g \in Groups, WorkflowStep(g) PROVE Places'
  BY <1>2, <1>4, <1>6 DEF WorkflowStep, Introduce, Conclude
<1> QED BY <1>2, <1>5, <1>6 DEF Next, vars, Receive, Restart

LEMMA GoneNext == Inv /\ Tracked /\ Types /\ Truth /\ Final /\ [Next]_vars => Gone'
<1> SUFFICES ASSUME Inv, Tracked, Types, Truth, Final, [Next]_vars PROVE Gone'
  OBVIOUS
<1> DEFINE W == Reports
<1>0. \A k \in Numbers : k \in Nat \ {None}
  BY RunsAreRuns DEF Inv, Numbers, None
<1>1. CASE UNCHANGED <<github, said>>
  <2>1. \A n : Told(n, W) => n \in Numbers
    BY DEF Types, SaidTyped, Told
  <2> QED BY <1>1, <2>1, SilenceTellsNothing DEF Final, Gone, There
<1>2. ASSUME NEW t \in tasks, TaskStep(t), NEW n \in Numbers, Told(n, W)' PROVE ~There(n)'
  <2>1. CASE n # t.run
    BY <1>0, <1>2, <2>1, OthersUntouched DEF Final, Gone, Truth
  <2>2. CASE n = t.run
    <3>1. ASSUME ~Told(n, W), NEW w, w \notin W, UNCHANGED said \/ SaysWord(w, n) PROVE FALSE
      BY <1>2, <3>1, WordIsTold, SilenceTellsNothing
    <3>2. CASE Taking(t)
      <4>1. ~Told(n, W)
        BY <2>2, <3>2 DEF Taking, Truth, Fresh, AtGitHub
      <4> QED BY <3>1, <3>2, <4>1 DEF Taking
    <3>3. CASE Going(t) \/ Ending(t)
      <4>1. UNCHANGED github
        BY <3>3 DEF Going, Ending
      <4>2. CASE Told(n, W)
        BY <4>1, <4>2 DEF Final, Gone, There
      <4>3. CASE ~Told(n, W)
        <5>1. \A w \in Ends \cup {"starting", "queued", "unreachable"} : w \notin W
          BY DEF Ends, DidNotRun
        <5>2. t.at = "ended"
          BY <2>2, <3>1, <3>3, <4>3, <5>1 DEF Going, Ending
        <5> QED BY <2>2, <4>1, <5>2 DEF Truth, Fresh, AtGitHub, There
      <4> QED BY <4>2, <4>3
    <3> QED BY <1>2, <3>2, <3>3, TaskDoes
  <2> QED BY <2>1, <2>2
<1>3. ASSUME NEW g \in Groups, WorkflowStep(g), NEW n \in Numbers, Told(n, W)' PROVE ~There(n)'
  <2>1. CASE Introduce(g)
    <3>1. SaysWord("starting", github[g].active) /\ UNCHANGED github
      BY <2>1 DEF Introduce, Say, SaysWord
    <3>2. Told(n, W)
      BY <1>3, <3>1, WordIsTold
    <3> QED BY <3>1, <3>2 DEF Final, Gone, There
  <2>2. CASE Conclude(g)
    <3>1. PICK w \in W : SaysWord(w, github[g].active)
      BY <2>2 DEF Conclude, Say, SaysWord
    <3>2. github' = [github EXCEPT ![g] = [active |-> github[g].pending, pending |-> None]]
      BY <2>2 DEF Conclude
    <3>3. \A h \in Groups : github'[h] = IF h = g THEN [active |-> github[g].pending, pending |-> None]
                                         ELSE github[h]
      BY <3>2 DEF Tracked
    <3>4. CASE n # github[g].active
      <4>1. Told(n, W)
        BY <1>3, <3>1, <3>4, WordIsTold
      <4>2. ~There(n)
        BY <4>1 DEF Final, Gone
      <4> QED BY <1>0, <3>3, <4>2 DEF There
    <3>5. CASE n = github[g].active
      <4>1. Group(n) = g /\ github[g].pending # n
        BY <1>0, <3>5 DEF Final, Places
      <4>2. ASSUME NEW h \in Groups PROVE n \notin {github'[h].active, github'[h].pending}
        <5>1. CASE h = g
          BY <1>0, <3>3, <4>1, <5>1
        <5>2. CASE h # g
          BY <1>0, <3>3, <4>1, <5>2 DEF Final, Places
        <5> QED BY <5>1, <5>2
      <4> QED BY <4>2 DEF There
    <3> QED BY <3>4, <3>5
  <2> QED BY <1>3, <2>1, <2>2 DEF WorkflowStep
<1>4. CASE \E req \in Requests : Receive(req)
  BY <1>1, <1>4 DEF Receive
<1>5. CASE Restart \/ UNCHANGED vars
  BY <1>1, <1>5 DEF Restart, vars
<1>6. CASE \E t \in tasks : TaskStep(t)
  <2>1. Numbers' = Numbers
    BY <1>6 DEF TaskStep, Numbers
  <2> QED BY <1>2, <1>6, <2>1 DEF Gone
<1>7. CASE \E g \in Groups : WorkflowStep(g)
  <2>1. Numbers' = Numbers
    BY <1>7 DEF WorkflowStep, Numbers
  <2> QED BY <1>3, <1>7, <2>1 DEF Gone
<1> QED BY <1>4, <1>5, <1>6, <1>7 DEF Next

LEMMA OneOutcomeNext == Inv /\ Tracked /\ Types /\ Truth /\ Final /\ [Next]_vars => OneOutcome'
<1> SUFFICES ASSUME Inv, Tracked, Types, Truth, Final, [Next]_vars PROVE OneOutcome'
  OBVIOUS
<1>0. Outcomes' = Outcomes
  BY DEF Outcomes, Ran, DidNotRun
<1>1. CASE Losing
  BY <1>0, <1>1 DEF Losing, Shrinks, Final, OneOutcome
<1>2. CASE Closing
  BY <1>0, <1>2 DEF Closing, Ended, Same, Shrinks, Final, OneOutcome
<1>3. CASE Beginning
  BY <1>0, <1>3 DEF Beginning, Same, Shrinks, Final, OneOutcome
<1> QED BY <1>1, <1>2, <1>3, StepDoes

LEMMA FinalAlways == Spec => [](Inv /\ Tracked /\ Types /\ Truth /\ Final)
<1>1. Inv /\ Tracked /\ Types /\ Truth /\ Final /\ [Next]_vars => Final'
  <2>1. Inv /\ Tracked /\ Types /\ Truth /\ Final /\ [Next]_vars => Numbered'
    BY StepDoes DEF Final, Numbered, Losing, Closing, Beginning
  <2> QED BY <2>1, PlacesNext, GoneNext, OneOutcomeNext DEF Final
<1> QED BY <1>1, AllAlways, TruthInit, TruthNext, FinalInit, PTL DEF Spec

\* What the contract makes of a run.
Fates == [n \in 1..MaxRuns |-> FateOf(n)]

LEMMA ToldIsTold ==
    \A n : /\ OutcomesTold(n) = {w \in Outcomes : Told(n, {w})}
           /\ OutcomesTold(n)' = {w \in Outcomes : Told(n, {w})'}
<1>1. Outcomes' = Outcomes
  BY DEF Outcomes, Ran, DidNotRun
<1> QED BY <1>1 DEF OutcomesTold, Told

LEMMA FateFields ==
    ASSUME NEW n
    PROVE  /\ n \notin Numbers => FateOf(n).phase = "unasked"
           /\ n \in Numbers => /\ FateOf(n).phase # "unasked"
                               /\ InHand(n) /\ (\A w \in Outcomes : ~Told(n, {w})) =>
                                      FateOf(n) = Promise!Fate("open", {})
BY ToldIsTold DEF FateOf, Promise!Fate

\* A run whose outcomes stay and that is not taken up again is as it was, or lost.
LEMMA FateShrinks ==
    ASSUME mode' = mode, NEW n \in Numbers, n \in Numbers', Shrinks(n)
    PROVE  \/ FateOf(n)' = FateOf(n)
           \/ FateOf(n).phase = "open" /\ FateOf(n)' = Promise!Fate("lost", {})
<1>1. OutcomesTold(n)' = OutcomesTold(n)
  BY ToldIsTold DEF Shrinks
<1>2. InHand(n)' => InHand(n)
  BY DEF Shrinks
<1> QED BY <1>1, <1>2 DEF FateOf, Promise!Fate

LEMMA FateSame ==
    ASSUME mode' = mode, NEW n \in Numbers, n \in Numbers', Same(n)
    PROVE  FateOf(n)' = FateOf(n)
<1>1. OutcomesTold(n)' = OutcomesTold(n)
  BY ToldIsTold DEF Same, Shrinks
<1>2. InHand(n)' <=> InHand(n)
  BY DEF Same, Shrinks
<1> QED BY <1>1, <1>2 DEF FateOf

LEMMA FateEnded ==
    ASSUME NEW n \in Numbers, n \in Numbers', NEW w \in Outcomes, Ended(n, w)
    PROVE  FateOf(n).phase = "open" /\ FateOf(n)' = Promise!Fate("closed", {w})
<1>1. OutcomesTold(n)' = {w} /\ OutcomesTold(n) = {}
  BY ToldIsTold DEF Ended
<1> QED BY <1>1 DEF Ended, FateOf, Promise!Fate

LEMMA StaysUnasked ==
    ASSUME NEW n, n \notin Numbers, Told(n, Outcomes) => n \in Numbers,
           n \notin Numbers', Told(n, Outcomes)' => n \in Numbers'
    PROVE  FateOf(n)' = FateOf(n) /\ FateOf(n) = Promise!Fate("unasked", {})
<1>1. OutcomesTold(n)' = {} /\ OutcomesTold(n) = {}
  BY ToldIsTold DEF Told
<1> QED BY <1>1 DEF FateOf, Promise!Fate

LEMMA StepKeepsContract ==
    ASSUME Inv, Tracked, Types, Truth, Final, Types', [Next]_vars
    PROVE  [Promise!Next]_Fates
<1> DEFINE Runs == 1..MaxRuns
<1>0. /\ Numbers \subseteq Runs /\ mode' = mode
      /\ \A n \in Runs : Fates[n] = FateOf(n) /\ Fates'[n] = FateOf(n)'
      /\ Fates = [n \in Runs |-> Fates[n]] /\ Fates' = [n \in Runs |-> Fates'[n]]
  BY StepDoes DEF Final, Numbered, Fates
<1>1. ASSUME NEW n \in Runs \ Numbers, n \notin Numbers'
      PROVE  Fates'[n] = Fates[n] /\ Fates[n] = Promise!Fate("unasked", {})
  <2>1. /\ Told(n, Outcomes) => n \in Numbers
        /\ Told(n, Outcomes)' => n \in Numbers'
    BY DEF Types, SaidTyped, Told
  <2> QED BY <1>0, <1>1, <2>1, StaysUnasked
<1>2. CASE Losing
  <2> DEFINE lost == {n \in Numbers : FateOf(n)' # FateOf(n)}
  <2>1. \A n \in Numbers : \/ n \notin lost /\ Fates'[n] = Fates[n]
                           \/ /\ n \in lost /\ Fates[n].phase = "open"
                              /\ Fates'[n] = Promise!Fate("lost", {})
    BY <1>0, <1>2, FateShrinks DEF Losing
  <2>2. lost \subseteq Numbers
    OBVIOUS
  <2> HIDE DEF lost
  <2>3. \A n \in Runs : Fates'[n] = IF n \in lost THEN Promise!Fate("lost", {}) ELSE Fates[n]
    BY <1>0, <1>1, <1>2, <2>1, <2>2 DEF Losing
  <2>4. Fates' = [n \in Runs |-> IF n \in lost THEN Promise!Fate("lost", {}) ELSE Fates[n]]
    BY <1>0, <2>3
  <2>5. lost \in SUBSET {n \in Runs : Fates[n].phase = "open"}
    BY <1>0, <2>1, <2>2
  <2> QED BY <2>4, <2>5 DEF Promise!Next, Promise!Lose, Promise!Open, Fates
<1>3. CASE Closing
  <2> PICK n \in Numbers, w \in Outcomes : Ended(n, w) /\ \A k \in Numbers \ {n} : Same(k)
    BY <1>3 DEF Closing
  <2>1. Numbers' = Numbers
    BY <1>3 DEF Closing
  <2>2. Fates[n].phase = "open" /\ Fates'[n] = Promise!Fate("closed", {w})
    BY <1>0, <2>1, FateEnded
  <2>3. \A k \in Runs \ {n} : Fates'[k] = Fates[k]
    BY <1>0, <1>1, <2>1, FateSame
  <2>4. Fates' = [Fates EXCEPT ![n] = Promise!Fate("closed", {w})]
    BY <1>0, <2>2, <2>3
  <2> QED BY <1>0, <2>2, <2>4 DEF Promise!Next, Promise!Close, Fates
<1>4. CASE Beginning
  <2> PICK new \in Runs :
          /\ new = Len(runs) + 1 /\ Numbers' = Numbers \cup {new}
          /\ \A n \in Numbers : Same(n)
          /\ \A w \in Outcomes : ~Told(new, {w})'
          /\ mode = "edge" \/ InHand(new)'
    BY <1>4 DEF Beginning
  <2>1. Len(runs) \in Nat /\ new \notin Numbers /\ \A m \in Runs : m < new => m \in Numbers
    BY RunsAreRuns DEF Inv, Numbers
  <2>2. \A k \in Runs \ {new} : Fates'[k] = Fates[k]
    BY <1>0, <1>1, FateSame
  <2>3. Fates'[new] = Promise!Fate("open", {})
    <3>1. OutcomesTold(new)' = {}
      BY ToldIsTold
    <3>2. new \in Numbers'
      OBVIOUS
    <3> QED BY <1>0, <3>1, <3>2 DEF FateOf, Promise!Fate
  <2>4. Fates' = [Fates EXCEPT ![new] = Promise!Fate("open", {})]
    BY <1>0, <2>2, <2>3
  <2>5. /\ Fates[new].phase = "unasked"
        /\ \A m \in Runs : m < new => Fates[m].phase # "unasked"
    BY <1>0, <2>1, FateFields
  <2> QED BY <2>4, <2>5 DEF Promise!Next, Promise!TakeOn, Fates
<1> QED BY <1>2, <1>3, <1>4, StepDoes

\* A run that was taken on is told of with one outcome or lost for good, whatever the
\* interleaving of commands, tasks, workflows and restarts: Commands does what
\* RunContract promises (commands of api.py, run, dispatch and the workflow).
THEOREM CommandsImplementContract == Spec => ImplementsContract
<1>1. Init => Promise!Init
  <2> SUFFICES ASSUME Init PROVE Promise!Init
    OBVIOUS
  <2>1. \A n : n \notin Numbers /\ OutcomesTold(n) = {}
    BY DEF Init, Numbers, OutcomesTold
  <2>2. \A n : FateOf(n) = Promise!Fate("unasked", {})
    BY <2>1 DEF FateOf, Promise!Fate
  <2> QED BY <2>2 DEF Promise!Init
<1>2. Inv /\ Tracked /\ Types /\ Truth /\ Final /\ Types' /\ [Next]_vars => [Promise!Next]_Fates
  BY StepKeepsContract
<1> QED BY <1>1, <1>2, FinalAlways, PTL DEF Spec, ImplementsContract, Promise!Spec, Fates
=============================================================================
