-------------------------------- MODULE Gate --------------------------------
(***************************************************************************)
(* What stands between Slack and a run: signature.is_valid, parsing.parse  *)
(* and gate.check of src/src/slack_runtests, which the V1/V2 endpoint and  *)
(* the edge share.                                                         *)
(*                                                                         *)
(* A request is a record of what the checks look at: whether its timestamp *)
(* is a number, and one that a float can hold ("read", "unreadable",       *)
(* "huge"), and how old it is (negative when it is of the future); whether *)
(* its signature is that of its bytes ("good", "bad"), has a character     *)
(* that is not ASCII ("foreign") or is absent ("none"); who sent it from   *)
(* where, its trigger_id, and its wording as shlex and argparse take it    *)
(* apart.                                                                  *)
(***************************************************************************)
EXTENDS Integers

CONSTANTS MaxAge,       \* MAX_AGE_SECONDS
          Products,     \* PRODUCTS
          Servers,      \* SERVERS
          DefaultServer,
          Expressions   \* the strings that EXPRESSION matches

ASSUME AgeIsDuration == MaxAge \in Nat
ASSUME DefaultIsServer == DefaultServer \in Servers

Actions == {"run", "results"}

-----------------------------------------------------------------------------
\* Definitions named <definition>_<slip> are slips the code could have made and did
\* not.  No action uses them: the properties are tried against them.
IsValid_FromTheFuture(req) == req.stamp = "read" /\ req.age <= MaxAge /\ req.signature = "good"

InTime(req) == -MaxAge <= req.age /\ req.age <= MaxAge

\* is_valid.  A header that is absent is the empty string.
IsValid(req) ==
    /\ req.stamp = "read"
    /\ InTime(req)
    /\ req.signature = "good"

\* What is_valid does not catch: an OverflowError for the age of a huge timestamp, and,
\* once the age is right, the TypeError of compare_digest for a foreign signature.
IsValidRaises(req) ==
    \/ req.signature # "none" /\ req.stamp = "huge"
    \/ req.signature = "foreign" /\ req.stamp = "read" /\ InTime(req)

Genuine(config, req) == config.secret => IsValid(req)

\* An allowlist that is empty lets everybody through.
InWorkspace(config, req) == config.team # "" => req.team = config.team
InChannel(config, req) == config.channels # {} => req.channel \in config.channels
Listed(config, req) == config.users # {} => req.user \in config.users

Permitted(config, req) ==
    /\ InWorkspace(config, req)
    /\ InChannel(config, req)
    /\ Listed(config, req)

-----------------------------------------------------------------------------
\* parse.  argparse refuses by SlackArgError; shlex.split raises a ValueError of its
\* own when a quote is not closed, and nobody catches it.
Expression(e) == e = "" \/ e \in Expressions

Worded(text) ==
    /\ text.action \in Actions \cup {""}
    /\ text.product \in Products
    /\ text.server \in Servers \cup {""}
    /\ Expression(text.select) /\ Expression(text.marker)

Parsed_NoDefault(text) ==
    [action  |-> IF text.action = "" THEN "run" ELSE text.action,
     product |-> text.product,
     server  |-> text.server]

Parsed(text) ==
    [action  |-> IF text.action = "" THEN "run" ELSE text.action,
     product |-> text.product,
     server  |-> IF text.server = "" THEN DefaultServer ELSE text.server]

Wording(text) == IF ~text.closed THEN "error"
                 ELSE IF Worded(text) THEN "ok" ELSE "usage"

\* Where a request is refused that is Slack's: each has an answer of its own.
Refusal(config, req) == IF ~InWorkspace(config, req) THEN "workspace"
                        ELSE IF ~InChannel(config, req) THEN "channel" ELSE "user"

Stranger(req) == IF IsValidRaises(req) THEN "error" ELSE "401"

Verdict_WordingFirst(config, req) ==
    IF ~Genuine(config, req) THEN Stranger(req)
    ELSE IF Wording(req.text) # "ok" THEN Wording(req.text)
    ELSE IF Permitted(config, req) THEN "ok" ELSE Refusal(config, req)

\* check: the first check that fails gives the answer.  "error" is the 500 that an
\* exception of is_valid or of parse becomes.
Verdict(config, req) ==
    IF ~Genuine(config, req) THEN Stranger(req)
    ELSE IF Permitted(config, req) THEN Wording(req.text) ELSE Refusal(config, req)
=============================================================================
