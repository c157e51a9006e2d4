----------------------------- MODULE MCNotifier -----------------------------
(***************************************************************************)
(* A sentence of the documentation that the notifier does not live up to.  *)
(***************************************************************************)
EXTENDS Notifier

\* slack.py:285: finish is to "Post the final summary", and local.py:57 names what
\* is to be avoided, "a run that silently never reports".  A summary sent while
\* Slack does what it is asked is shown.
SummaryReachesSlack ==
    [][FinishRun /\ slack = "up" => channel'.text = Summary]_vars
=============================================================================
