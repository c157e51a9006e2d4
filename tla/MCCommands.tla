----------------------------- MODULE MCCommands -----------------------------
(***************************************************************************)
(* An invocation, and one without a trigger_id for the same product and    *)
(* server; both too old or too new, from the wrong place, by the wrong     *)
(* person or in the wrong words; and a question for results.  Ages are in  *)
(* minutes.                                                                *)
(***************************************************************************)
EXTENDS Commands

Closed == [mode |-> "edge", secret |-> TRUE, team |-> "T1", channels |-> {"C1"}, users |-> {"U1"},
           github |-> FALSE]
Local == [Closed EXCEPT !.mode = "local", !.users = {"U1", "U3"}]
GitHub == [Closed EXCEPT !.mode = "github", !.github = TRUE]
Unset == [Closed EXCEPT !.mode = "github", !.secret = FALSE, !.team = "", !.channels = {}]

Text(action, product, server) ==
    [closed |-> TRUE, action |-> action, product |-> product, server |-> server,
     select |-> "", marker |-> ""]

Keyed == [trigger |-> "t1", stamp |-> "read", age |-> 5, signature |-> "good",
          team |-> "T1", channel |-> "C1", user |-> "U1", text |-> Text("", "webapp", "")]
Unkeyed == [Keyed EXCEPT !.trigger = "", !.age = -5, !.text = Text("run", "webapp", "staging")]
Another == [Keyed EXCEPT !.trigger = "t0", !.user = "U3"]
Question == [Keyed EXCEPT !.trigger = "t2", !.text = Text("results", "webapp", "")]

Wrong == {[Keyed EXCEPT !.age = -6],
          [Question EXCEPT !.age = 6],
          [Question EXCEPT !.trigger = "t3", !.channel = "C2"],
          [Keyed EXCEPT !.trigger = "t4", !.team = "T2", !.user = "U2"],
          [Keyed EXCEPT !.trigger = "t5", !.team = "T2", !.user = "U2", !.text.marker = "$(x)"],
          [Keyed EXCEPT !.trigger = "t6", !.text.product = "../.."],
          [Keyed EXCEPT !.trigger = "t7", !.signature = "bad", !.text.closed = FALSE],
          [Keyed EXCEPT !.trigger = "t8", !.signature = "foreign", !.user = "U2"],
          [Keyed EXCEPT !.trigger = "t9", !.signature = "bad", !.stamp = "huge", !.user = "U2"]}

MCConfigs == {Closed, Local, GitHub, Unset}
MCRequests == {Keyed, Unkeyed, Another, Question} \cup Wrong

\* api.py:151 tells the user "results will post to {channel}", and github.py:46 has
\* the channel handed on, lest "the reporter at the far end has no idea which
\* conversation started it".  The outcome of a run is posted to the channel it was
\* asked for in.
ReportsGoWhereAsked ==
    \A m \in said : m.what = "summary" => m.where = runs[m.run].channel
=============================================================================
