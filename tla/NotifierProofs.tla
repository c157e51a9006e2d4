--------------------------- MODULE NotifierProofs ---------------------------
(***************************************************************************)
(* Proofs about Notifier, for any gap between edits and any number of      *)
(* progress calls.                                                         *)
(***************************************************************************)
EXTENDS Notifier, TLAPS

USE GapIsDuration, CallsAreBounded

-----------------------------------------------------------------------------
\* The inductive invariant: a notifier that has no timestamp, not even "", has posted only
\* what a caller then caught, and its caller, unless it is done, goes on knowing so; and
\* what the notifier remembers of its last edit is what Slack was asked.
IInv == /\ TypeOK
        /\ OneMessage
        /\ SummaryIsShown
        /\ stage \in {"fresh", "excusing"} => ts = "none"
        /\ ts = "none" /\ stage # "over" => channel.messages <= caught
        /\ rest = since

LEMMA NotifierInit == Init => IInv
BY DEF Init, IInv, TypeOK, OneMessage, SummaryIsShown, Texts, Moods

\* A post adds one message at most, and leaves a timestamp behind unless it raises.
Posted(text) ==
    /\ ts' \in {"none", "empty", "own"}
    /\ ts' = "none" <=> outcome' = "raised"
    /\ outcome' \in {"done", "failed", "raised"}
    /\ rest' = rest /\ since' = since
    /\ channel' \in [messages: Nat, text: Texts \cup {Silence}]
    /\ channel'.messages <= channel.messages + 1
    /\ outcome' \notin {"failed", "raised"} => channel'.text = text

LEMMA PostAdds ==
    ASSUME TypeOK, NEW text \in Texts, ts = "none", Post(text)
    PROVE  Posted(text)
BY DEF TypeOK, Post, Posted, Shown, Does, Escapes, Moods

\* Whatever update does, it keeps the clocks together, adds a message only to a notifier
\* that has no timestamp, and when it was forced it leaves its text or a failure behind.
Updated(text, force) ==
    /\ ts' \in {"none", "empty", "own"}
    /\ ts' = "none" <=> ts = "none" /\ outcome' = "raised"
    /\ rest' \in 0..MinGap /\ since' = rest'
    /\ outcome' \in {"done", "failed", "raised", "skipped"}
    /\ channel' \in [messages: Nat, text: Texts \cup {Silence}]
    /\ ts = "none" => channel'.messages <= channel.messages + 1
    /\ ts # "none" => channel'.messages = channel.messages
    /\ force /\ outcome' \notin {"failed", "raised"} => channel'.text = text

LEMMA UpdateKeeps ==
    ASSUME IInv, NEW text \in Texts, NEW force \in BOOLEAN, Update(text, force)
    PROVE  Updated(text, force)
<1> USE DEF IInv, TypeOK, Updated
<1>1. CASE ts = "none" /\ Post(text)
  BY <1>1, PostAdds DEF Posted
<1>2. CASE ts # "none" /\ (force \/ rest >= MinGap) /\ Edit(text)
  BY <1>2 DEF Edit, Edited, Does, Escapes, Moods
<1>3. CASE ts # "none" /\ ~force /\ rest < MinGap /\ Skip
  BY <1>3 DEF Skip
<1> QED
  BY <1>1, <1>2, <1>3 DEF Update

\* The caller after a call: it goes on as it would have, or is done, or has caught what
\* the call raised and counts it if the notifier has nothing to show for it.
Counted(next, handler) ==
    \/ outcome' # "raised" /\ stage' = next /\ caught' = caught
    \/ outcome' = "raised" /\ stage' = "over" /\ caught' = caught
    \/ outcome' = "raised" /\ stage' = handler /\ ts' = "none" /\ caught' = caught + 1
    \/ outcome' = "raised" /\ stage' = handler /\ ts' # "none" /\ caught' = caught

LEMMA AfterCounts ==
    ASSUME NEW next, NEW handler, After(next, handler)
    PROVE  Counted(next, handler)
<1>1. CASE (stage' = IF outcome' = "raised" THEN "over" ELSE next) /\ UNCHANGED caught
  BY <1>1 DEF Counted
<1>2. CASE /\ outcome' = "raised" /\ stage' = handler
           /\ caught' = IF ts' = "none" THEN caught + 1 ELSE caught
  BY <1>2 DEF Counted
<1> QED
  BY <1>1, <1>2 DEF After

LEMMA NotifierStep == IInv /\ [Next]_vars => IInv'
<1> SUFFICES ASSUME IInv, [Next]_vars PROVE IInv'
  OBVIOUS
<1>0. /\ TypeOK /\ channel.messages <= 1 + caught
      /\ stage \in {"fresh", "excusing"} => ts = "none"
      /\ ts = "none" /\ stage # "over" => channel.messages <= caught
      /\ channel.messages \in Nat /\ caught \in Nat /\ calls \in 0..MaxCalls /\ slack \in Moods
      /\ rest = since /\ rest \in 0..MinGap
  BY DEF IInv, TypeOK, OneMessage
<1>1. CASE StartRun
  <2>1. Posted(Start) /\ stage = "fresh" /\ UNCHANGED <<calls, slack>>
    BY <1>0, <1>1, PostAdds DEF StartRun, Texts
  <2>2. Counted("reporting", "reporting")
    BY <1>1, AfterCounts DEF StartRun
  <2> QED
    BY <1>0, <2>1, <2>2 DEF Posted, Counted, IInv, TypeOK, OneMessage, SummaryIsShown
<1>2. CASE ReportProgress
  <2>1. /\ stage \in {"fresh", "reporting"} /\ calls < MaxCalls
        /\ calls' = calls + 1 /\ slack' = slack
    BY <1>2 DEF ReportProgress
  <2>2. Updated(Progress(calls + 1), FALSE)
    <3>1. calls + 1 \in 1..MaxCalls
      BY <1>0, <2>1
    <3>2. Progress(calls + 1) \in Texts
      BY <3>1 DEF Texts
    <3> QED
      BY <1>2, <3>2, UpdateKeeps DEF ReportProgress
  <2>3. Counted("reporting", "reporting")
    BY <1>2, AfterCounts DEF ReportProgress
  <2>4. calls' \in 0..MaxCalls
    BY <1>0, <2>1
  <2> QED
    BY <1>0, <2>1, <2>2, <2>3, <2>4
       DEF Updated, Counted, IInv, TypeOK, OneMessage, SummaryIsShown
<1>3. CASE FinishRun
  <2> DEFINE handler == IF stage = "fresh" THEN "excusing" ELSE "over"
  <2>1. stage \in {"fresh", "reporting"} /\ UNCHANGED <<calls, slack>>
    BY <1>3 DEF FinishRun
  <2>2. Updated(Summary, TRUE)
    BY <1>3, UpdateKeeps DEF FinishRun, Texts
  <2>3. Counted("over", handler)
    BY <1>3, AfterCounts DEF FinishRun
  <2> QED
    BY <1>0, <2>1, <2>2, <2>3 DEF Updated, Counted, IInv, TypeOK, OneMessage, SummaryIsShown
<1>4. CASE ExcuseRun
  <2>1. /\ stage \in {"fresh", "excusing"} /\ stage' = "over"
        /\ UNCHANGED <<calls, slack, caught>>
    BY <1>4 DEF ExcuseRun
  <2>2. Posted(Excuse)
    BY <1>0, <1>4, PostAdds DEF ExcuseRun, Texts
  <2> QED
    BY <1>0, <2>1, <2>2 DEF Posted, IInv, TypeOK, OneMessage, SummaryIsShown
<1>5. CASE SlackChanges
  BY <1>5 DEF SlackChanges, IInv, TypeOK, OneMessage, SummaryIsShown
<1>6. CASE Tick
  BY <1>6 DEF Tick, IInv, TypeOK, OneMessage, SummaryIsShown
<1>7. CASE UNCHANGED vars
  BY <1>7 DEF vars, IInv, TypeOK, OneMessage, SummaryIsShown
<1> QED
  BY <1>1, <1>2, <1>3, <1>4, <1>5, <1>6, <1>7 DEF Next

THEOREM InvariantHolds == Spec => []IInv
<1> QED
  BY NotifierInit, NotifierStep, PTL DEF Spec

\* The notifier, its clock and the channel are always what Notifier says they can be.
THEOREM TypeCorrect == Spec => []TypeOK
<1>1. IInv => TypeOK
  BY DEF IInv
<1> QED
  BY <1>1, InvariantHolds, PTL

-----------------------------------------------------------------------------
\* A notifier never has a second message in the channel, whatever Slack does and _call
\* catches, but for one each time a caller catches what a post raised and goes on.
THEOREM OneMessageEach == Spec => []OneMessage
<1>1. IInv => OneMessage
  BY DEF IInv
<1> QED
  BY <1>1, InvariantHolds, PTL

\* A notifier that has a message shows the summary in it in the end, or the excuse for
\* having none, unless the last call itself fails or raises.
THEOREM SummaryGetsThrough == Spec => []SummaryIsShown
<1>1. IInv => SummaryIsShown
  BY DEF IInv
<1> QED
  BY <1>1, InvariantHolds, PTL

\* Progress is skipped exactly while the last edit is too recent.
THEOREM ThrottlingIsExact == Spec => ThrottleIsExact
<1>1. IInv /\ [Next]_vars
          => [calls' # calls /\ ts # "none" => (outcome' = "skipped" <=> since < MinGap)]_vars
  <2> SUFFICES ASSUME IInv, Next, calls' # calls, ts # "none"
               PROVE  outcome' = "skipped" <=> since < MinGap
    OBVIOUS
  <2>1. ReportProgress
    BY DEF Next, StartRun, FinishRun, ExcuseRun, SlackChanges, Tick
  <2>2. \/ rest >= MinGap /\ Edit(Progress(calls + 1))
        \/ rest < MinGap /\ Skip
    BY <2>1 DEF ReportProgress, Update
  <2> QED
    BY <2>2 DEF IInv, TypeOK, Edit, Skip
<1> QED
  BY <1>1, InvariantHolds, PTL DEF Spec, ThrottleIsExact
=============================================================================
