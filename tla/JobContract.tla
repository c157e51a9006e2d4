---------------------------- MODULE JobContract -----------------------------
(***************************************************************************)
(* What the edge promises about the jobs it is given, whichever way it     *)
(* keeps them: a job has at most one owner, is given out at most Cap       *)
(* times, is closed once, by its owner's verdict or by giving up when it   *)
(* has been tried, and no step gives out two jobs.  An owner can be lost   *)
(* at any moment; how the loss is noticed is not said here.                *)
(***************************************************************************)
EXTENDS Integers

CONSTANTS Jobs, Runners, ExitCodes, Cap, Nobody

VARIABLE book   \* job -> its phase, its owner, its tries and the verdict on it

Entry(phase, owner, tries, verdict) ==
    [phase |-> phase, owner |-> owner, tries |-> tries, verdict |-> verdict]

Blank == Entry("new", Nobody, 0, Nobody)

Init == book = [j \in Jobs |-> Blank]

Assigned == {j \in Jobs : book[j].phase = "assigned"}

\* A lost job goes back to the queue while it has tries left, and is closed
\* without a verdict when it has none.
Recovered(entry) ==
    IF entry.tries < Cap
    THEN Entry("waiting", Nobody, entry.tries, Nobody)
    ELSE [entry EXCEPT !.phase = "closed"]

After(lost) == [j \in Jobs |-> IF j \in lost THEN Recovered(book[j]) ELSE book[j]]

Submit(j) ==
    /\ book[j].phase = "new"
    /\ book' = [book EXCEPT ![j].phase = "waiting"]

Complete(j, e) ==
    /\ j \in Assigned
    /\ book' = [book EXCEPT ![j] = Entry("closed", @.owner, @.tries, e)]

Recover(lost) == book' = After(lost)

Assign(lost, j, r) ==
    /\ After(lost)[j].phase = "waiting"
    /\ After(lost)[j].tries < Cap
    /\ book' = [After(lost) EXCEPT ![j] = Entry("assigned", r, @.tries + 1, Nobody)]

Next ==
    \/ \E j \in Jobs : Submit(j)
    \/ \E j \in Jobs, e \in ExitCodes : Complete(j, e)
    \/ \E lost \in SUBSET Assigned :
           \/ Recover(lost)
           \/ \E j \in Jobs, r \in Runners : Assign(lost, j, r)

Spec == Init /\ [][Next]_book
=============================================================================
