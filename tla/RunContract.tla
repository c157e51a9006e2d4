---------------------------- MODULE RunContract -----------------------------
(***************************************************************************)
(* What somebody who asks for runs may count on, whichever way they are    *)
(* carried out: runs are taken on one at a time and in order; a run that   *)
(* was taken on is open until the channel is told its one outcome, or      *)
(* until it is lost; and what is closed or lost stays so, nothing being    *)
(* told of it any more.  Many runs can be lost at once; how, is not said.  *)
(***************************************************************************)
EXTENDS Integers

CONSTANTS Runs,     \* numbers, in the order they are taken on
          Outcomes  \* what a run can end with

VARIABLE fate   \* run -> its phase and what its outcome was told to be

Fate(phase, told) == [phase |-> phase, told |-> told]

Init == fate = [n \in Runs |-> Fate("unasked", {})]

Open == {n \in Runs : fate[n].phase = "open"}

TakeOn(n) ==
    /\ fate[n].phase = "unasked"
    /\ \A m \in Runs : m < n => fate[m].phase # "unasked"
    /\ fate' = [fate EXCEPT ![n] = Fate("open", {})]

Close(n) ==
    /\ fate[n].phase = "open"
    /\ \E outcome \in Outcomes : fate' = [fate EXCEPT ![n] = Fate("closed", {outcome})]

Lose(lost) == fate' = [n \in Runs |-> IF n \in lost THEN Fate("lost", {}) ELSE fate[n]]

Next == \/ \E n \in Runs : TakeOn(n) \/ Close(n)
        \/ \E lost \in SUBSET Open : Lose(lost)

Spec == Init /\ [][Next]_fate
=============================================================================
