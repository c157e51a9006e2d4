--------------------------- MODULE RegistryProofs ---------------------------
(***************************************************************************)
(* Proofs about Registry, for any machines, any way of naming them and any *)
(* holders of the token.                                                   *)
(***************************************************************************)
EXTENDS Registry, TLAPS

USE NamesAreGiven, HoldersAreMachines, LimitsAreNaturals, GapIsShort, NullIsNoKey

-----------------------------------------------------------------------------
(***************************************************************************)
(* The inductive invariant.  That a test server which serves is known      *)
(* needs only the types; that it is online needs what its calls leave       *)
(* behind: its name was seen when it last called, or since.                *)
(***************************************************************************)
SeenOfLate(m) == registry[NameOf[m]].age <= silent[m]

IInv == /\ TypeOK
        /\ ServingIsAuthenticated
        /\ \A m \in Machines : Serving(m) => SeenOfLate(m)

LEMMA KeysAreKeys ==
    ASSUME TypeOK, NEW m \in Machines
    PROVE  Key(m) \in Keys /\ Key(m) # Null /\ NameOf[m] \in Names
BY DEF TypeOK, Key, Keys

\* Of the test servers with one name at most one holds the key it is known by.
LEMMA KeysDiffer ==
    ASSUME NEW m \in Machines, NEW k \in Machines, Authenticated(m), Authenticated(k),
           NameOf[m] = NameOf[k]
    PROVE  m = k
BY DEF Authenticated, Key

LEMMA RegistryInit == Init => IInv
BY DEF Init, IInv, TypeOK, Entry, NoEntry, Stages, ServingIsAuthenticated, Serving

\* Whoever serves under the name of a machine that is let in is that machine.
LEMMA NobodyElseServes ==
    ASSUME IInv, NEW m \in Machines, Admitted(m), NEW k \in Machines, Serving(k),
           NameOf[k] = NameOf[m]
    PROVE  k = m
<1>1. Authenticated(k)
  BY DEF IInv, ServingIsAuthenticated
<1>2. Known(NameOf[m])
  BY <1>1, KeysAreKeys DEF IInv, Authenticated, Known
<1>3. Authenticated(m)
  BY <1>2 DEF Admitted, Authenticated
<1> QED
  BY <1>1, <1>3, KeysDiffer

\* The row written for a machine that is let in, whether or not it hears of it.
LEMMA RecordKeepsTypes ==
    ASSUME TypeOK, NEW m \in Machines, Record(m)
    PROVE  /\ registry' \in [Names -> Entry \cup {NoEntry}]
           /\ registry'[NameOf[m]] = [key |-> Key(m), age |-> 0]
           /\ \A n \in Names \ {NameOf[m]} : registry'[n] = registry[n]
<1>1. [key |-> Key(m), age |-> 0] \in Entry
  BY KeysAreKeys DEF Entry
<1> QED
  BY <1>1, KeysAreKeys DEF Record, TypeOK

-----------------------------------------------------------------------------
\* What a step that leaves the registry alone, and puts nobody to serve, keeps.
LEMMA MachineFrame ==
    ASSUME IInv, UNCHANGED registry, silent' \in [Machines -> 0..MaxGap],
           trusted' \in [Names -> Keys \cup {Null}],
           machine' \in [Machines -> [at: Stages, lost: 0..Reinstalls]],
           \A m \in Machines : Serving(m)' => /\ Serving(m) /\ machine'[m] = machine[m]
                                             /\ silent'[m] = silent[m]
    PROVE  IInv'
BY DEF IInv, TypeOK, ServingIsAuthenticated, Authenticated, Serving, Key, SeenOfLate

LEMMA RegistryStep == IInv /\ [Next]_vars => IInv'
<1> SUFFICES ASSUME IInv, [Next]_vars PROVE IInv'
  OBVIOUS
<1> USE DEF IInv
<1>1. ASSUME NEW m \in Machines, Boot(m) \/ Stop(m) \/ LoseKey(m) PROVE IInv'
  <2>1. machine' \in [Machines -> [at: Stages, lost: 0..Reinstalls]]
    BY <1>1 DEF Boot, Stop, LoseKey, Become, TypeOK, Stages
  <2>2. \A k \in Machines : Serving(k)' => /\ Serving(k) /\ machine'[k] = machine[k]
                                          /\ silent'[k] = silent[k]
    BY <1>1 DEF Boot, Stop, LoseKey, Become, TypeOK, Serving
  <2>3. silent' \in [Machines -> 0..MaxGap]
    BY <1>1 DEF Boot, Stop, LoseKey, TypeOK
  <2> QED
    BY <1>1, <2>1, <2>2, <2>3, MachineFrame DEF Boot, Stop, LoseKey, TypeOK
<1>2. ASSUME NEW m \in Machines, Authorise(m) PROVE IInv'
  BY <1>2, KeysAreKeys, MachineFrame DEF Authorise, TypeOK, Serving
<1>3. ASSUME NEW n \in Names, Withdraw(n) PROVE IInv'
  BY <1>3, MachineFrame DEF Withdraw, TypeOK, Serving
<1>4. ASSUME NEW m \in Machines, Enrol(m) PROVE IInv'
  <2>1. TypeOK'
    <3>1. machine' \in [Machines -> [at: Stages, lost: 0..Reinstalls]]
      BY <1>4 DEF Enrol, Become, TypeOK, Stages
    <3>2. silent' \in [Machines -> 0..MaxGap]
      BY <1>4 DEF Enrol, TypeOK
    <3> QED
      BY <1>4, <3>1, <3>2, RecordKeepsTypes DEF Enrol, TypeOK
  <2>2. /\ \A k \in Machines : k # m => machine'[k] = machine[k] /\ silent'[k] = silent[k]
        /\ silent'[m] = 0
    BY <1>4 DEF Enrol, Become, TypeOK
  <2>3. Key(m)' = Key(m)
    BY <1>4 DEF Enrol, Become, TypeOK, Key
  <2>4. ASSUME NEW k \in Machines, Serving(k)' PROVE Authenticated(k)' /\ SeenOfLate(k)'
    <3>1. CASE k = m
      <4>1. registry'[NameOf[m]] = [key |-> Key(m), age |-> 0]
        BY <1>4, RecordKeepsTypes DEF Enrol
      <4>2. registry'[NameOf[m]].key = Key(m)' /\ registry'[NameOf[m]].age = 0
        BY <2>3, <4>1
      <4> QED
        BY <2>2, <3>1, <4>2 DEF Authenticated, SeenOfLate
    <3>2. CASE k # m
      <4>1. Serving(k) /\ Key(k)' = Key(k)
        BY <2>2, <2>4, <3>2 DEF Serving, Key
      <4>2. NameOf[k] # NameOf[m]
        BY <1>4, <3>2, <4>1, NobodyElseServes DEF Enrol
      <4>3. registry'[NameOf[k]] = registry[NameOf[k]]
        BY <1>4, <4>2, RecordKeepsTypes DEF Enrol
      <4> QED
        BY <2>2, <3>2, <4>1, <4>3 DEF Authenticated, SeenOfLate, ServingIsAuthenticated
    <3> QED
      BY <3>1, <3>2
  <2> QED
    BY <2>1, <2>4 DEF ServingIsAuthenticated
<1>5. ASSUME NEW m \in Machines, EnrolUnheard(m) PROVE IInv'
  <2>1. TypeOK'
    BY <1>5, RecordKeepsTypes DEF EnrolUnheard, TypeOK
  <2>2. ASSUME NEW k \in Machines, Serving(k)' PROVE Authenticated(k)' /\ SeenOfLate(k)'
    <3>1. Serving(k) /\ Key(k)' = Key(k)
      BY <1>5, <2>2 DEF EnrolUnheard, Serving, Key
    <3>2. k # m
      BY <1>5, <3>1 DEF EnrolUnheard, Serving
    <3>3. NameOf[k] # NameOf[m]
      BY <1>5, <3>1, <3>2, NobodyElseServes DEF EnrolUnheard
    <3>4. registry'[NameOf[k]] = registry[NameOf[k]]
      BY <1>5, <3>3, RecordKeepsTypes DEF EnrolUnheard
    <3> QED
      BY <1>5, <3>1, <3>4 DEF EnrolUnheard, Authenticated, SeenOfLate, ServingIsAuthenticated
  <2> QED
    BY <2>1, <2>2 DEF ServingIsAuthenticated
<1>6. ASSUME NEW m \in Machines, Call(m) PROVE IInv'
  <2>1. Authenticated(m)
    BY <1>6 DEF Call, ServingIsAuthenticated
  <2>2. registry' = [registry EXCEPT ![NameOf[m]].age = 0]
    BY <1>6, <2>1 DEF Call
  <2>3. registry[NameOf[m]] \in Entry
    BY <2>1, KeysAreKeys DEF Authenticated, TypeOK, NoEntry
  <2>4. TypeOK'
    BY <1>6, <2>2, <2>3, KeysAreKeys DEF Call, TypeOK, Entry
  <2>5. \A n \in Names : /\ registry'[n].key = registry[n].key
                         /\ registry'[n].age = (IF n = NameOf[m] THEN 0 ELSE registry[n].age)
    BY <2>2, <2>3 DEF TypeOK, Entry
  <2>6. ASSUME NEW k \in Machines, Serving(k)' PROVE Authenticated(k)' /\ SeenOfLate(k)'
    <3>1. Serving(k) /\ Key(k)' = Key(k) /\ NameOf[k] \in Names
      BY <1>6, <2>6, KeysAreKeys DEF Call, Serving, Key
    <3>2. Authenticated(k)'
      BY <2>5, <3>1 DEF Authenticated, ServingIsAuthenticated
    <3>3. CASE NameOf[k] = NameOf[m]
      <4>1. registry'[NameOf[k]].age = 0 /\ 0 <= silent'[k]
        BY <2>4, <2>5, <3>1, <3>3 DEF TypeOK
      <4> QED
        BY <3>2, <4>1 DEF SeenOfLate
    <3>4. CASE NameOf[k] # NameOf[m]
      <4>1. silent'[k] = silent[k]
        BY <1>6, <3>4 DEF Call, TypeOK
      <4>2. registry'[NameOf[k]].age = registry[NameOf[k]].age
        BY <2>5, <3>1, <3>4
      <4> QED
        BY <3>1, <3>2, <4>1, <4>2 DEF SeenOfLate
    <3> QED
      BY <3>2, <3>3, <3>4
  <2> QED
    BY <2>4, <2>6 DEF ServingIsAuthenticated
<1>7. CASE Tick
  <2>1. \A n \in Names : /\ registry'[n] \in Entry \cup {NoEntry}
                         /\ registry'[n].key = registry[n].key
                         /\ registry[n] \in Entry => registry'[n].age <= registry[n].age + 1
    <3> SUFFICES ASSUME NEW n \in Names
                 PROVE  /\ registry'[n] \in Entry \cup {NoEntry}
                        /\ registry'[n].key = registry[n].key
                        /\ registry[n] \in Entry => registry'[n].age <= registry[n].age + 1
      OBVIOUS
    <3>1. CASE Known(n) /\ registry[n].age <= OfflineAfter
      <4>1. registry[n] \in Entry
        BY <3>1 DEF TypeOK, Known, NoEntry
      <4>2. registry'[n] = [registry[n] EXCEPT !.age = @ + 1]
        BY <1>7, <3>1 DEF Tick
      <4> QED
        BY <3>1, <4>1, <4>2 DEF Entry
    <3>2. CASE ~(Known(n) /\ registry[n].age <= OfflineAfter)
      <4>1. registry'[n] = registry[n]
        BY <1>7, <3>2 DEF Tick
      <4> QED
        BY <4>1 DEF TypeOK, Entry
    <3> QED
      BY <3>1, <3>2
  <2>2. TypeOK'
    BY <1>7, <2>1 DEF Tick, TypeOK
  <2>3. ASSUME NEW k \in Machines, Serving(k)' PROVE Authenticated(k)' /\ SeenOfLate(k)'
    <3>1. /\ Serving(k) /\ Key(k)' = Key(k) /\ NameOf[k] \in Names
          /\ silent[k] \in Nat /\ silent'[k] = silent[k] + 1
      BY <1>7, <2>3, KeysAreKeys DEF Tick, Serving, Key, TypeOK
    <3>2. Authenticated(k) /\ registry[NameOf[k]].age <= silent[k]
      BY <3>1 DEF ServingIsAuthenticated, SeenOfLate
    <3>3. registry[NameOf[k]] \in Entry
      BY <3>1, <3>2, KeysAreKeys DEF Authenticated, TypeOK, NoEntry
    <3>4. registry'[NameOf[k]].age <= registry[NameOf[k]].age + 1
      BY <2>1, <3>1, <3>3
    <3>5. /\ registry[NameOf[k]].age \in Int /\ registry'[NameOf[k]].age \in Int
      BY <2>1, <3>1, <3>3 DEF Entry, NoEntry
    <3>6. SeenOfLate(k)'
      BY <3>1, <3>2, <3>4, <3>5 DEF SeenOfLate
    <3> QED
      BY <2>1, <3>1, <3>2, <3>6 DEF Authenticated
  <2> QED
    BY <2>2, <2>3 DEF ServingIsAuthenticated
<1>8. CASE UNCHANGED vars
  BY <1>8, MachineFrame DEF vars, TypeOK, Serving
<1> QED
  BY <1>1, <1>2, <1>3, <1>4, <1>5, <1>6, <1>7, <1>8 DEF Next, EnrolRefused

THEOREM InvariantHolds == Spec => []IInv
<1>1. Init => IInv
  BY RegistryInit
<1>2. IInv /\ [Next]_vars => IInv'
  BY RegistryStep
<1> QED
  BY <1>1, <1>2, PTL DEF Spec

-----------------------------------------------------------------------------
\* Every row, file and process is one the code can produce.
THEOREM TypeCorrect == Spec => []TypeOK
<1>1. IInv => TypeOK
  BY DEF IInv
<1> QED
  BY <1>1, InvariantHolds, PTL

\* The edge knows every test server that serves by the key it signs with, whatever
\* files the operator writes and whoever else tries the name.
THEOREM ServingAreAuthenticated == Spec => []ServingIsAuthenticated
<1>1. IInv => ServingIsAuthenticated
  BY DEF IInv
<1> QED
  BY <1>1, InvariantHolds, PTL

\* So no two machines serve under one name.
THEOREM MachinesDoNotShareNames == Spec => []OneMachineAName
<1>1. IInv => OneMachineAName
  BY KeysDiffer DEF IInv, ServingIsAuthenticated, OneMachineAName
<1> QED
  BY <1>1, InvariantHolds, PTL

\* A test server whose calls come through no further apart than the limit is never
\* taken for offline.
THEOREM HeartbeatsKeepOnline == Spec => []ServingIsOnline
<1>1. IInv => ServingIsOnline
  <2> SUFFICES ASSUME IInv, NEW m \in Machines, Serving(m) PROVE Online(NameOf[m])
    BY DEF ServingIsOnline
  <2>1. Authenticated(m) /\ registry[NameOf[m]].age <= silent[m] /\ silent[m] \in 0..MaxGap
    BY DEF IInv, TypeOK, ServingIsAuthenticated, SeenOfLate
  <2>2. registry[NameOf[m]] \in Entry
    BY <2>1, KeysAreKeys DEF IInv, TypeOK, Authenticated, NoEntry
  <2> QED
    BY <2>1, <2>2, KeysAreKeys DEF IInv, Online, Known, Authenticated, Entry
<1> QED
  BY <1>1, InvariantHolds, PTL

\* The key a name is known by is never exchanged and the name never forgotten.
THEOREM KeysAreFinal == Spec => KeyOfNameIsFinal
<1>1. IInv /\ [Next]_vars
          => [\A n \in Names : Known(n) => registry'[n].key = registry[n].key]_vars
  <2> SUFFICES ASSUME IInv, Next, NEW n \in Names, Known(n)
               PROVE  registry'[n].key = registry[n].key
    OBVIOUS
  <2> USE DEF IInv
  <2>1. ASSUME NEW m \in Machines, Admitted(m), Record(m)
        PROVE  registry'[n].key = registry[n].key
    <3>1. CASE n = NameOf[m]
      <4>1. registry[n].key = Key(m)
        BY <2>1, <3>1 DEF Admitted
      <4>2. registry'[NameOf[m]] = [key |-> Key(m), age |-> 0]
        BY <2>1, RecordKeepsTypes
      <4>3. registry'[NameOf[m]].key = Key(m)
        BY <4>2
      <4> QED
        BY <3>1, <4>1, <4>3
    <3>2. CASE n # NameOf[m]
      BY <2>1, <3>2, RecordKeepsTypes
    <3> QED
      BY <3>1, <3>2
  <2>2. ASSUME NEW m \in Machines, Call(m) PROVE registry'[n].key = registry[n].key
    BY <2>2, KeysAreKeys DEF Call, TypeOK, Entry, NoEntry
  <2>3. CASE Tick
    BY <2>3 DEF Tick, TypeOK, Entry, NoEntry
  <2> QED
    BY <2>1, <2>2, <2>3 DEF Next, Boot, Stop, LoseKey, Authorise, Withdraw, Enrol,
                            EnrolUnheard, EnrolRefused, vars
<1> QED
  BY <1>1, InvariantHolds, PTL DEF Spec, KeyOfNameIsFinal
=============================================================================
