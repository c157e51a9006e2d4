------------------------------ MODULE Registry ------------------------------
(***************************************************************************)
(* The registry of test servers: the `runners` table of                    *)
(* src/edge/edge_server/store.py, the handler that enrols a test server and *)
(* the check every later call passes (app.py), and the enrolment loop of   *)
(* src/test-server/test_server/agent.py.                                   *)
(*                                                                         *)
(* A test server is a process on a machine; its runner_id is a name, by     *)
(* default the host's, and two machines may have been given the same one.   *)
(* A key is generated where there is none, so no two machines ever have the *)
(* same: a key is a machine and the number of keys it had before.  That a   *)
(* request is signed by the key it claims is taken for granted, and a reply *)
(* by the edge's.  The time since a name was last seen is counted in ticks; *)
(* a machine that is serving may be late with a call, or lose one to the    *)
(* network, as long as no MaxGap ticks go by without one.                   *)
(***************************************************************************)
EXTENDS Integers

CONSTANTS Machines,     \* the machines that run a test server
          Names,        \* the runner ids
          NameOf,       \* machine -> the runner id it is configured with
          TokenHolders, \* the machines whose enrolment token the edge accepts
          OfflineAfter, \* RUNNER_OFFLINE_AFTER, in ticks
          MaxGap,       \* ticks within which a serving machine gets a call through
          Reinstalls,   \* bound: how often a machine loses its key file
          Null

ASSUME NamesAreGiven == NameOf \in [Machines -> Names]
ASSUME HoldersAreMachines == TokenHolders \subseteq Machines
ASSUME LimitsAreNaturals == {OfflineAfter, MaxGap} \subseteq Nat \ {0} /\ Reinstalls \in Nat
ASSUME GapIsShort == MaxGap <= OfflineAfter
ASSUME NullIsNoKey == Null \notin Machines \X Nat

VARIABLES registry,  \* runner id -> the row of the runners table, if there is one
          trusted,   \* runner id -> the key in <runner_id>.pub, if the file is there
          machine,   \* machine -> what its test server does, and how many keys it lost
          silent     \* machine -> the ticks since a call of it came through

vars == <<registry, trusted, machine, silent>>

-----------------------------------------------------------------------------
Keys == Machines \X (0..Reinstalls)

Entry == [key: Keys, age: 0..OfflineAfter + 1]
NoEntry == [key |-> Null, age |-> 0]

Stages == {"off", "enrolling", "serving"}

Key(m) == <<m, machine[m].lost>>

Serving(m) == machine[m].at = "serving"

Init == /\ registry = [n \in Names |-> NoEntry]
        /\ trusted = [n \in Names |-> Null]
        /\ machine = [m \in Machines |-> [at |-> "off", lost |-> 0]]
        /\ silent = [m \in Machines |-> 0]

Become(m, stage) == machine' = [machine EXCEPT ![m].at = stage]

-----------------------------------------------------------------------------
\* The process on the machine, and its key file.

Boot(m) ==
    /\ machine[m].at = "off"
    /\ Become(m, "enrolling")
    /\ UNCHANGED <<registry, trusted, silent>>

Stop(m) ==
    /\ machine[m].at # "off"
    /\ Become(m, "off")
    /\ silent' = [silent EXCEPT ![m] = 0]
    /\ UNCHANGED <<registry, trusted>>

\* load_or_create finds no key file at the next start, and generates a key.
LoseKey(m) ==
    /\ machine[m].at = "off"
    /\ machine[m].lost < Reinstalls
    /\ machine' = [machine EXCEPT ![m].lost = @ + 1]
    /\ UNCHANGED <<registry, trusted, silent>>

-----------------------------------------------------------------------------
\* The operator, who writes and deletes the files of pre-authorised keys.

Authorise(m) ==
    /\ trusted' = [trusted EXCEPT ![NameOf[m]] = Key(m)]
    /\ UNCHANGED <<registry, machine, silent>>

Withdraw(n) ==
    /\ trusted' = [trusted EXCEPT ![n] = Null]
    /\ UNCHANGED <<registry, machine, silent>>

-----------------------------------------------------------------------------
\* Definitions named <definition>_<slip> are slips the code could have made and did
\* not.  No action uses them: the properties are tried against them.

Known(n) == registry[n].key # Null

Admitted_FileFirst(m) ==
    LET n == NameOf[m]
    IN  \/ trusted[n] = Key(m)
        \/ trusted[n] = Null /\ Known(n) /\ registry[n].key = Key(m)
        \/ trusted[n] = Null /\ ~Known(n) /\ m \in TokenHolders

Admitted_ByTokenAlone(m) ==
    LET n == NameOf[m]
    IN  registry[n].key = Key(m) \/ trusted[n] = Key(m) \/ m \in TokenHolders

Admitted_OnlyOnce(m) ==
    LET n == NameOf[m]
    IN  ~Known(n) /\ (trusted[n] = Key(m) \/ (trusted[n] = Null /\ m \in TokenHolders))

\* Whom enroll lets in: a name it knows with the key it knows it by; a name it
\* does not know with the key the operator wrote down, or else by the token.
Admitted(m) ==
    LET n == NameOf[m]
    IN  \/ Known(n) /\ registry[n].key = Key(m)
        \/ ~Known(n) /\ trusted[n] = Key(m)
        \/ ~Known(n) /\ trusted[n] = Null /\ m \in TokenHolders

Record_NotSeenYet(m) ==
    registry' = [registry EXCEPT ![NameOf[m]] = [key |-> Key(m), age |-> Null]]

\* Store.enrol: INSERT ... ON CONFLICT DO UPDATE.
Record(m) == registry' = [registry EXCEPT ![NameOf[m]] = [key |-> Key(m), age |-> 0]]

\* One round of the enrolment loop: the test server is in when it hears so.
Enrol(m) ==
    /\ machine[m].at = "enrolling"
    /\ Admitted(m)
    /\ Record(m)
    /\ Become(m, "serving")
    /\ silent' = [silent EXCEPT ![m] = 0]
    /\ UNCHANGED trusted

\* The reply is lost: the edge has the row, the test server waits and tries again.
EnrolUnheard(m) ==
    /\ machine[m].at = "enrolling"
    /\ Admitted(m)
    /\ Record(m)
    /\ UNCHANGED <<trusted, machine, silent>>

\* Refused, and a wait: the operator may be about to write the key.
EnrolRefused(m) ==
    /\ machine[m].at = "enrolling"
    /\ ~Admitted(m)
    /\ UNCHANGED vars

-----------------------------------------------------------------------------
\* _authenticate: the caller's key is the one its name is known by.
Authenticated(m) == registry[NameOf[m]].key = Key(m)

Call_WithoutTouch(m) ==
    /\ Serving(m)
    /\ silent' = [silent EXCEPT ![m] = 0]
    /\ UNCHANGED <<registry, trusted, machine>>

\* Any call of a test server that is serving.  A call the edge refuses is logged,
\* and the test server goes on as before: it never enrols anew.
Call(m) ==
    /\ Serving(m)
    /\ registry' = IF Authenticated(m) THEN [registry EXCEPT ![NameOf[m]].age = 0]
                   ELSE registry
    /\ silent' = [silent EXCEPT ![m] = 0]
    /\ UNCHANGED <<trusted, machine>>

Online(n) == Known(n) /\ registry[n].age <= OfflineAfter

Tick ==
    /\ \A m \in Machines : Serving(m) => silent[m] < MaxGap
    /\ registry' = [n \in Names |-> IF Known(n) /\ registry[n].age <= OfflineAfter
                                    THEN [registry[n] EXCEPT !.age = @ + 1]
                                    ELSE registry[n]]
    /\ silent' = [m \in Machines |-> IF Serving(m) THEN silent[m] + 1 ELSE 0]
    /\ UNCHANGED <<trusted, machine>>

-----------------------------------------------------------------------------
Next ==
    \/ \E m \in Machines : Boot(m) \/ Stop(m) \/ LoseKey(m) \/ Authorise(m)
    \/ \E m \in Machines : Enrol(m) \/ EnrolUnheard(m) \/ EnrolRefused(m) \/ Call(m)
    \/ \E n \in Names : Withdraw(n)
    \/ Tick

Spec == Init /\ [][Next]_vars

\* The loops of a running test server keep going, a reply comes through some time,
\* and time passes.  Operators and machines owe nothing.
Fairness == /\ \A m \in Machines : WF_vars(Enrol(m)) /\ WF_vars(Call(m))
            /\ WF_vars(Tick)

FairSpec == Spec /\ Fairness

-----------------------------------------------------------------------------
TypeOK == /\ registry \in [Names -> Entry \cup {NoEntry}]
          /\ trusted \in [Names -> Keys \cup {Null}]
          /\ machine \in [Machines -> [at: Stages, lost: 0..Reinstalls]]
          /\ silent \in [Machines -> 0..MaxGap]

\* "It must present the SAME key it is already known by" (enroll): whatever the
\* operator writes, and whoever else goes by the name, the key a name is known by
\* is never exchanged for another, and the name is never forgotten.
KeyOfNameIsFinal ==
    [][\A n \in Names : Known(n) => registry'[n].key = registry[n].key]_vars

\* A test server that got in stays in: as long as it serves the edge knows its
\* name by its key, so its heartbeats renew leases and its results count, and no
\* second machine serves under the name.
ServingIsAuthenticated == \A m \in Machines : Serving(m) => Authenticated(m)

OneMachineAName ==
    \A m, k \in Machines : Serving(m) /\ Serving(k) /\ NameOf[m] = NameOf[k] => m = k

\* A test server whose calls come through no further apart than the limit, the
\* limit itself included, is never shown or counted as offline (runners, online),
\* whatever is written, enrolled or refused meanwhile.
ServingIsOnline == \A m \in Machines : Serving(m) => Online(NameOf[m])

\* "A refusal ... is also a wait - an operator may be about to add the key"
\* (run_forever): a test server that keeps running, and is the one its name is known
\* by or becomes the one whose key the operator has written, gets in.
MayEnrol(m) == /\ machine[m].at # "off"
               /\ \/ Known(NameOf[m]) /\ Authenticated(m)
                  \/ ~Known(NameOf[m]) /\ trusted[NameOf[m]] = Key(m)

AuthorisedGetsIn ==
    \A m \in Machines : [](MayEnrol(m) => <>(Serving(m) \/ ~MayEnrol(m)))
=============================================================================
