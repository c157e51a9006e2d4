------------------------------ MODULE Notifier ------------------------------
(***************************************************************************)
(* One SlackNotifier of src/src/slack_runtests/slack.py, from its first    *)
(* message to its summary, and the service it talks to.  The V1 runner     *)
(* (runners/local.py) starts and finishes with one notifier, a test suite  *)
(* may report progress in between; JobReporter (test_server/reporter.py)   *)
(* makes one for every message, and the workflow one for its last step,    *)
(* which posts once more when the summary raises.  A run that is reported  *)
(* by several notifiers has a message of each.                             *)
(*                                                                         *)
(* A message is known by what it is about.  Slack's timestamp of a message *)
(* is "own" when the notifier has it, "" when it asked for one in vain.    *)
(***************************************************************************)
EXTENDS Naturals

CONSTANTS MinGap,   \* MIN_SECONDS_BETWEEN_EDITS, in ticks
          MaxCalls  \* bound: how often progress is called

ASSUME GapIsDuration == MinGap \in Nat \ {0}
ASSUME CallsAreBounded == MaxCalls \in Nat

VARIABLES ts,       \* _ts; "none" is None
          rest,     \* the time since _last_edit, not counted beyond MinGap
          stage,    \* how far the caller is; excusing: its summary raised and it caught that
          calls,    \* how often it called progress
          outcome,  \* what became of its last call
          slack,    \* whether Slack answers
          channel,  \* what Slack shows: how many messages, and the text of the last
          since,    \* history: the time since an edit was last asked of Slack
          caught    \* history: posts that raised and whose caller went on all the same

vars == <<ts, rest, stage, calls, outcome, slack, channel, since, caught>>

-----------------------------------------------------------------------------
\* What becomes of a call.  Whether Slack does what it is asked is one thing, what its
\* caller hears is another: an answer, a failure that _call catches (it cannot connect,
\* times out, or the answer is no JSON), or one that it does not catch (a connection that
\* is reset or closed while the answer is read, an answer that is no text).
Moods == {"up",      \* done, and answered
          "down",    \* not done, a failure that is caught
          "mute",    \* done, a failure that is caught
          "broken",  \* not done, a failure that is not caught
          "cut"}     \* done, a failure that is not caught

Does == slack \in {"up", "mute", "cut"}
Escapes == slack \in {"broken", "cut"}

Start == <<"start", 0>>
Progress(k) == <<"progress", k>>
Summary == <<"summary", 0>>
Excuse == <<"excuse", 0>>
Texts == {Start, Summary, Excuse} \cup {Progress(k) : k \in 1..MaxCalls}

Silence == <<"silence", 0>>

Init == /\ ts = "none"
        /\ rest = MinGap
        /\ stage = "fresh"
        /\ calls = 0
        /\ outcome = "none"
        /\ slack \in Moods
        /\ channel = [messages |-> 0, text |-> Silence]
        /\ since = MinGap
        /\ caught = 0

-----------------------------------------------------------------------------
\* Definitions named <definition>_<slip> are slips the code could have made and did
\* not.  No action uses them: the properties are tried against them.
Shown(text) == IF Does THEN [messages |-> channel.messages + 1, text |-> text] ELSE channel

Post_StaysNone(text) ==
    /\ ts' = IF slack = "up" THEN "own" ELSE ts
    /\ outcome' = IF Escapes THEN "raised" ELSE IF slack = "up" THEN "done" ELSE "failed"
    /\ channel' = Shown(text)
    /\ UNCHANGED <<rest, since>>

\* post: chat.postMessage.  A failure that _call catches is logged, and leaves "" for the
\* timestamp; one that it does not catch leaves post before _ts is touched.
Post(text) ==
    /\ ts' = IF slack = "up" THEN "own"
             ELSE IF ts = "none" /\ ~Escapes THEN "empty" ELSE ts
    /\ outcome' = IF Escapes THEN "raised" ELSE IF slack = "up" THEN "done" ELSE "failed"
    /\ channel' = Shown(text)
    /\ UNCHANGED <<rest, since>>

Edited(text) == IF ts = "own" /\ Does THEN [channel EXCEPT !.text = text] ELSE channel

Edit_SaysNothing(text) ==
    /\ outcome' = IF Escapes THEN "raised"
                  ELSE IF ts = "own" /\ slack = "up" THEN "done" ELSE "none"
    /\ channel' = Edited(text)
    /\ rest' = 0
    /\ since' = 0
    /\ UNCHANGED ts

\* chat.update, with the time of the attempt noted first: Slack knows no message without
\* a timestamp.
Edit(text) ==
    /\ outcome' = IF Escapes THEN "raised"
                  ELSE IF ts = "own" /\ slack = "up" THEN "done" ELSE "failed"
    /\ channel' = Edited(text)
    /\ rest' = 0
    /\ since' = 0
    /\ UNCHANGED ts

Skip_Stamped == /\ outcome' = "skipped"
                /\ rest' = 0
                /\ UNCHANGED <<ts, channel, since>>

Skip == /\ outcome' = "skipped"
        /\ UNCHANGED <<ts, rest, channel, since>>

Update_NeverForced(text, force) ==
    \/ ts = "none" /\ Post(text)
    \/ ts # "none" /\ rest >= MinGap /\ Edit(text)
    \/ ts # "none" /\ rest < MinGap /\ Skip

\* update: posts when nothing was posted, and is not throttled when forced.
Update(text, force) ==
    \/ ts = "none" /\ Post(text)
    \/ ts # "none" /\ (force \/ rest >= MinGap) /\ Edit(text)
    \/ ts # "none" /\ ~force /\ rest < MinGap /\ Skip

-----------------------------------------------------------------------------
\* The caller, when a call is over: it goes on, or is done for with what the call raised,
\* or has caught that and turns elsewhere.
After(next, handler) ==
    \/ /\ stage' = IF outcome' = "raised" THEN "over" ELSE next
       /\ UNCHANGED caught
    \/ /\ outcome' = "raised"
       /\ stage' = handler
       /\ caught' = IF ts' = "none" THEN caught + 1 ELSE caught

StartRun ==
    /\ stage = "fresh"
    /\ Post(Start)
    /\ After("reporting", "reporting")
    /\ UNCHANGED <<calls, slack>>

ReportProgress ==
    /\ stage \in {"fresh", "reporting"}
    /\ calls < MaxCalls
    /\ Update(Progress(calls + 1), FALSE)
    /\ calls' = calls + 1
    /\ After("reporting", "reporting")
    /\ UNCHANGED slack

\* finish, and the update of a run that was killed or could not be started.  The one who
\* catches what a summary raises is the workflow, whose notifier is fresh.
FinishRun ==
    /\ stage \in {"fresh", "reporting"}
    /\ Update(Summary, TRUE)
    /\ After("over", IF stage = "fresh" THEN "excusing" ELSE "over")
    /\ UNCHANGED <<calls, slack>>

\* The workflow's except branch: results.xml cannot be read, or the summary raised.
ExcuseRun ==
    /\ stage \in {"fresh", "excusing"}
    /\ Post(Excuse)
    /\ stage' = "over"
    /\ UNCHANGED <<calls, slack, caught>>

\* Slack comes and goes, and time passes.

SlackChanges ==
    /\ slack' \in Moods \ {slack}
    /\ UNCHANGED <<ts, rest, stage, calls, outcome, channel, since, caught>>

Tick ==
    /\ rest < MinGap \/ since < MinGap
    /\ rest' = IF rest < MinGap THEN rest + 1 ELSE rest
    /\ since' = IF since < MinGap THEN since + 1 ELSE since
    /\ UNCHANGED <<ts, stage, calls, outcome, slack, channel, caught>>

Next == StartRun \/ ReportProgress \/ FinishRun \/ ExcuseRun \/ SlackChanges \/ Tick

Spec == Init /\ [][Next]_vars

-----------------------------------------------------------------------------
TypeOK == /\ ts \in {"none", "empty", "own"}
          /\ rest \in 0..MinGap /\ since \in 0..MinGap
          /\ stage \in {"fresh", "reporting", "excusing", "over"}
          /\ calls \in 0..MaxCalls
          /\ outcome \in {"none", "done", "failed", "raised", "skipped"}
          /\ outcome = "none" <=> stage = "fresh"
          /\ slack \in Moods
          /\ channel \in [messages: Nat, text: Texts \cup {Silence}]
          /\ caught \in Nat

\* "Editing one message keeps the whole run in one place" (SlackNotifier).  A notifier has
\* one message in the channel at most, whatever Slack does with which call and whatever
\* _call catches; only a caller that catches what a post raised and goes on can make it
\* post again, one message for each time it does so.
OneMessage == channel.messages <= 1 + caught

\* The summary is lost neither to the throttle nor to calls that failed on the way: if
\* the notifier has a message and the last call neither failed nor raised, the message
\* shows the summary, or the workflow's excuse for having none.
SummaryIsShown ==
    stage = "over" /\ ts = "own" /\ outcome \notin {"failed", "raised"}
        => channel.text \in {Summary, Excuse}

\* A progress call is skipped exactly when Slack was asked for an edit less than
\* MinGap ago: Slack is not flooded, and a caller that reports more often than
\* that does not keep pushing its next edit away ("a progress display appears stuck").
ThrottleIsExact ==
    [][calls' # calls /\ ts # "none" => (outcome' = "skipped" <=> since < MinGap)]_vars
=============================================================================
