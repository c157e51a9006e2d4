-------------------------- MODULE LeaseClockProofs --------------------------
(***************************************************************************)
(* Why the lease is long enough, for every setting that LeaseIsEnough      *)
(* admits: an account of the age the lease can have reached at each point  *)
(* of the heartbeat loop.  Spent is what the heartbeats that came to       *)
(* nothing have cost; Base adds the claim or renewal before them, which    *)
(* was up to LockWait old when it was written and up to Timeout on its way *)
(* back.                                                                   *)
(***************************************************************************)
EXTENDS LeaseClock, TLAPS

Period == Interval + Timeout
Spent(m) == m * Period
Base == set + LockWait + Timeout + Spent(missed)

WhileWaiting == alive /\ phase = "waiting" =>
    /\ call = "done" => age <= Base + clock
    /\ call = "taken" => age <= Base + Period + clock /\ clock <= wait
WhileCalling == alive /\ phase = "calling" =>
    /\ call = "done" => age <= set + LockWait + clock
    /\ call # "done" => age <= Base + Interval + clock
\* The edge's reading is not older than its wait, but for the clock being set.
Readings == stale <= wait + set
\* How long a dead test server has been so when something of it is still under way.
AfterDeath == ~alive =>
    /\ call = "sent" => dead <= clock
    /\ call = "taken" => dead <= Timeout + wait

Account == WhileWaiting /\ WhileCalling /\ Readings /\ AfterDeath

Typed ==
    /\ alive \in BOOLEAN /\ held \in BOOLEAN
    /\ \/ phase = "waiting" /\ clock \in 0..Interval
       \/ phase = "calling" /\ clock \in 0..Timeout
    /\ call \in {"sent", "taken", "done"} /\ (call = "sent" => phase = "calling")
    /\ wait \in 0..LockWait /\ stale \in Int /\ wait <= stale
    /\ age \in Nat
    /\ missed \in 0..MaxMissed /\ set \in 0..Skew
    /\ dead \in Nat /\ (alive => dead = 0)

\* TypeOK bounds the ages as well; it follows, with Ages.
Ages == age <= Lease + 1 + set

IInv == Typed /\ Ages /\ Account /\ LiveKeepsItsJob /\ DeathIsNoticed

-----------------------------------------------------------------------------
LEMMA SpentFacts ==
    /\ Period \in Nat
    /\ Spent(0) = 0
    /\ \A m \in 0..MaxMissed : Spent(m) \in Nat /\ Spent(m + 1) = Spent(m) + Period
    /\ \A m \in 0..MaxMissed : Spent(m) <= Spent(MaxMissed)
    /\ Spent(MaxMissed) + Period + Timeout + 2 * LockWait + Skew <= Lease
<1> USE TimesAreDurations, FaultsAreBounded DEF Period
<1>1. Period \in Nat
  OBVIOUS
<1> HIDE DEF Period
<1>2. Spent(0) = 0
  BY <1>1 DEF Spent
<1>3. \A m \in 0..MaxMissed : Spent(m) \in Nat /\ Spent(m + 1) = Spent(m) + Period
  BY <1>1 DEF Spent
<1>4. ASSUME NEW m \in 0..MaxMissed PROVE Spent(m) <= Spent(MaxMissed)
  <2>1. (MaxMissed - m) * Period \in Nat
    BY <1>1
  <2>2. MaxMissed * Period = m * Period + (MaxMissed - m) * Period
    BY <1>1
  <2>3. m * Period \in Nat /\ MaxMissed * Period \in Nat
    BY <1>1
  <2> QED
    BY <2>1, <2>2, <2>3 DEF Spent
<1>5. (MaxMissed + 1) * Period = Spent(MaxMissed) + Period
  BY <1>1 DEF Spent
<1>6. (MaxMissed + 1) * Period + Timeout + 2 * LockWait + Skew <= Lease
  BY LeaseIsEnough DEF Period
<1>7. Spent(MaxMissed) \in Nat
  BY <1>3
<1> QED
  BY <1>1, <1>2, <1>3, <1>4, <1>5, <1>6, <1>7

\* However far the loop is, a lease within its account has not run out.
LEMMA LiveLeaseHolds ==
    ASSUME Typed, Account, alive
    PROVE  age <= Lease
<1> USE TimesAreDurations, FaultsAreBounded
<1>1. /\ Spent(missed) \in Nat /\ Spent(MaxMissed) \in Nat
      /\ Spent(missed) <= Spent(MaxMissed)
      /\ Spent(MaxMissed) + Period + Timeout + 2 * LockWait + Skew <= Lease
  <2>1. missed \in 0..MaxMissed /\ MaxMissed \in 0..MaxMissed
    BY DEF Typed
  <2> QED
    BY <2>1, SpentFacts
<1>2. Period \in Nat /\ Period = Interval + Timeout
  BY SpentFacts DEF Period
<1>3. CASE phase = "waiting"
  BY <1>1, <1>2, <1>3 DEF Typed, Account, WhileWaiting, Base
<1>4. CASE phase = "calling"
  BY <1>1, <1>2, <1>4 DEF Typed, Account, WhileCalling, Base
<1> QED
  BY <1>3, <1>4 DEF Typed

LEMMA InitAccount == Init => IInv
<1> SUFFICES ASSUME Init PROVE IInv
  OBVIOUS
<1> USE TimesAreDurations, FaultsAreBounded, SpentFacts DEF Init
<1>1. Typed
  BY DEF Typed
<1>2. Lease >= LockWait
  BY LeaseIsEnough, 0 \in 0..MaxMissed, MaxMissed \in 0..MaxMissed
<1>3. Ages
  BY <1>2 DEF Ages
<1>4. Account
  BY DEF Account, WhileWaiting, WhileCalling, Readings, AfterDeath, Base
<1> QED
  BY <1>1, <1>3, <1>4 DEF IInv, LiveKeepsItsJob, DeathIsNoticed

\* Steps of the heartbeat thread move the account along; a renewal starts it anew.
LEMMA StepAccount == IInv /\ [Next]_vars => Typed' /\ Ages' /\ Account' /\ DeathIsNoticed'
<1> SUFFICES ASSUME IInv, [Next]_vars PROVE Typed' /\ Ages' /\ Account' /\ DeathIsNoticed'
  OBVIOUS
<1> USE TimesAreDurations, FaultsAreBounded DEF IInv, Typed, DeathIsNoticed, vars
<1>0. /\ Period \in Nat /\ Period = Interval + Timeout
      /\ Spent(0) = 0 /\ Spent(missed) \in Nat
      /\ Spent(missed + 1) = Spent(missed) + Period
      /\ LockWait + Skew <= Lease
  <2>1. Spent(MaxMissed) \in Nat
    BY SpentFacts, MaxMissed \in 0..MaxMissed
  <2> QED
    BY <2>1, SpentFacts DEF Period
<1>1. CASE Send
  <2>1. Typed'
    BY <1>1, <1>0 DEF Send
  <2>2. Ages' /\ DeathIsNoticed'
    BY <1>1, <1>0 DEF Send, Ages, Account, Readings, AfterDeath
  <2>3. Readings' /\ AfterDeath'
    BY <1>1, <1>0 DEF Send, Account, Readings, AfterDeath
  <2>4. WhileWaiting' /\ WhileCalling'
    BY <1>1, <1>0 DEF Send, Account, WhileWaiting, WhileCalling, Readings, Base
  <2> QED
    BY <2>1, <2>2, <2>3, <2>4 DEF Account
<1>2. CASE Return
  <2>1. Typed'
    BY <1>2, <1>0 DEF Return
  <2>2. Ages' /\ DeathIsNoticed'
    BY <1>2, <1>0 DEF Return, Ages, Account, Readings, AfterDeath
  <2>3. Readings' /\ AfterDeath'
    BY <1>2, <1>0 DEF Return, Account, Readings, AfterDeath
  <2>4. WhileWaiting' /\ WhileCalling'
    BY <1>2, <1>0 DEF Return, Account, WhileWaiting, WhileCalling, Readings, Base
  <2> QED
    BY <2>1, <2>2, <2>3, <2>4 DEF Account
<1>3. CASE Miss
  <2>1. Typed'
    BY <1>3, <1>0 DEF Miss
  <2>2. Ages' /\ DeathIsNoticed'
    BY <1>3, <1>0 DEF Miss, Ages, Account, Readings, AfterDeath
  <2>3. Readings' /\ AfterDeath'
    BY <1>3, <1>0 DEF Miss, Account, Readings, AfterDeath
  <2>4. WhileWaiting' /\ WhileCalling'
    BY <1>3, <1>0 DEF Miss, Account, WhileWaiting, WhileCalling, Readings, Base
  <2> QED
    BY <2>1, <2>2, <2>3, <2>4 DEF Account
<1>4. CASE Die
  <2>1. Typed'
    BY <1>4, <1>0 DEF Die
  <2>2. Ages' /\ DeathIsNoticed'
    BY <1>4, <1>0 DEF Die, Ages, Account, Readings, AfterDeath
  <2>3. Readings' /\ AfterDeath'
    BY <1>4, <1>0 DEF Die, Account, Readings, AfterDeath
  <2>4. WhileWaiting' /\ WhileCalling'
    BY <1>4, <1>0 DEF Die, Account, WhileWaiting, WhileCalling, Readings, Base
  <2> QED
    BY <2>1, <2>2, <2>3, <2>4 DEF Account
<1>5. CASE Take
  <2>1. Typed'
    BY <1>5, <1>0 DEF Take
  <2>2. Ages' /\ DeathIsNoticed'
    BY <1>5, <1>0 DEF Take, Ages, Account, Readings, AfterDeath
  <2>3. Readings' /\ AfterDeath'
    BY <1>5, <1>0 DEF Take, Account, Readings, AfterDeath
  <2>4. WhileWaiting' /\ WhileCalling'
    BY <1>5, <1>0 DEF Take, Account, WhileWaiting, WhileCalling, Readings, Base
  <2> QED
    BY <2>1, <2>2, <2>3, <2>4 DEF Account
<1>6. CASE Renew
  <2>1. Typed'
    BY <1>6, <1>0 DEF Renew, Renewed
  <2>2. Ages' /\ DeathIsNoticed'
    BY <1>6, <1>0 DEF Renew, Renewed, Ages, Account, Readings, AfterDeath
  <2>3. Readings' /\ AfterDeath'
    BY <1>6, <1>0 DEF Renew, Renewed, Account, Readings, AfterDeath
  <2>4. WhileWaiting' /\ WhileCalling'
    BY <1>6, <1>0 DEF Renew, Renewed, Account, WhileWaiting, WhileCalling, Readings, Base
  <2> QED
    BY <2>1, <2>2, <2>3, <2>4 DEF Account
<1>7. CASE Locked
  <2>1. Typed'
    BY <1>7, <1>0 DEF Locked
  <2>2. Ages' /\ DeathIsNoticed'
    BY <1>7, <1>0 DEF Locked, Ages, Account, Readings, AfterDeath
  <2>3. Readings' /\ AfterDeath'
    BY <1>7, <1>0 DEF Locked, Account, Readings, AfterDeath
  <2>4. WhileWaiting' /\ WhileCalling'
    BY <1>7, <1>0 DEF Locked, Account, WhileWaiting, WhileCalling, Readings, Base
  <2> QED
    BY <2>1, <2>2, <2>3, <2>4 DEF Account
<1>8. CASE Reap
  <2>1. Typed'
    BY <1>8, <1>0 DEF Reap, Expired
  <2>2. Ages' /\ DeathIsNoticed'
    BY <1>8, <1>0 DEF Reap, Expired, Ages, Account, Readings, AfterDeath
  <2>3. Readings' /\ AfterDeath'
    BY <1>8, <1>0 DEF Reap, Expired, Account, Readings, AfterDeath
  <2>4. WhileWaiting' /\ WhileCalling'
    BY <1>8, <1>0 DEF Reap, Expired, Account, WhileWaiting, WhileCalling, Readings, Base
  <2> QED
    BY <2>1, <2>2, <2>3, <2>4 DEF Account
<1>9. CASE SetForward
  <2>1. Typed'
    BY <1>9, <1>0 DEF SetForward
  <2>2. Ages' /\ DeathIsNoticed'
    BY <1>9, <1>0 DEF SetForward, Ages, Account, Readings, AfterDeath
  <2>3. Readings' /\ AfterDeath'
    BY <1>9, <1>0 DEF SetForward, Account, Readings, AfterDeath
  <2>4. WhileWaiting' /\ WhileCalling'
    BY <1>9, <1>0 DEF SetForward, Account, WhileWaiting, WhileCalling, Readings, Base
  <2> QED
    BY <2>1, <2>2, <2>3, <2>4 DEF Account
<1>10. CASE Tick
  <2>1. Typed'
    BY <1>10, <1>0 DEF Tick
  <2>2. Ages' /\ DeathIsNoticed'
    BY <1>10, <1>0 DEF Tick, Ages, Account, Readings, AfterDeath
  <2>3. Readings' /\ AfterDeath'
    BY <1>10, <1>0 DEF Tick, Account, Readings, AfterDeath
  <2>4. WhileWaiting' /\ WhileCalling'
    BY <1>10, <1>0 DEF Tick, Account, WhileWaiting, WhileCalling, Readings, Base
  <2> QED
    BY <2>1, <2>2, <2>3, <2>4 DEF Account
<1>11. CASE Lose
  <2>1. Typed'
    BY <1>11, <1>0 DEF Lose
  <2>2. Ages' /\ DeathIsNoticed'
    BY <1>11, <1>0 DEF Lose, Ages, Account, Readings, AfterDeath
  <2>3. Readings' /\ AfterDeath'
    BY <1>11, <1>0 DEF Lose, Account, Readings, AfterDeath
  <2>4. WhileWaiting' /\ WhileCalling'
    BY <1>11, <1>0 DEF Lose, Account, WhileWaiting, WhileCalling, Readings, Base
  <2> QED
    BY <2>1, <2>2, <2>3, <2>4 DEF Account
<1>12. CASE UNCHANGED vars
  <2>1. Typed'
    BY <1>12, <1>0 DEF vars
  <2>2. Ages' /\ DeathIsNoticed'
    BY <1>12, <1>0 DEF vars, Ages, Account, Readings, AfterDeath
  <2>3. Readings' /\ AfterDeath'
    BY <1>12, <1>0 DEF vars, Account, Readings, AfterDeath
  <2>4. WhileWaiting' /\ WhileCalling'
    BY <1>12, <1>0 DEF vars, Account, WhileWaiting, WhileCalling, Readings, Base
  <2> QED
    BY <2>1, <2>2, <2>3, <2>4 DEF Account
<1> QED
  BY <1>1, <1>2, <1>3, <1>4, <1>5, <1>6, <1>7, <1>8, <1>9, <1>10, <1>11, <1>12 DEF Next

LEMMA InvariantKept == IInv /\ [Next]_vars => IInv'
<1> SUFFICES ASSUME IInv, [Next]_vars PROVE IInv'
  OBVIOUS
<1>1. Typed' /\ Ages' /\ Account' /\ DeathIsNoticed'
  BY StepAccount
<1>2. LiveKeepsItsJob'
  <2>1. CASE Reap
    <3>1. ~alive
      BY <2>1, LiveLeaseHolds, TimesAreDurations DEF IInv, Reap, Expired, Typed
    <3> QED
      BY <2>1, <3>1 DEF Reap, LiveKeepsItsJob
  <2>2. CASE ~Reap
    BY <2>2 DEF IInv, LiveKeepsItsJob, Next, vars, Send, Return, Miss, Die, Take, Renew,
                Locked, SetForward, Tick, Lose
  <2> QED
    BY <2>1, <2>2
<1> QED
  BY <1>1, <1>2 DEF IInv

LEMMA InvariantHolds == Spec => []IInv
<1> QED
  BY InitAccount, InvariantKept, PTL DEF Spec

\* The upper bounds of TypeOK are those of the account.
LEMMA TypeFollows == IInv => TypeOK
<1> SUFFICES ASSUME IInv PROVE TypeOK
  OBVIOUS
<1>1. stale <= LockWait + Skew /\ age <= Lease + Skew + 1 /\ dead <= Lease + Skew + Timeout + 1
  BY TimesAreDurations, FaultsAreBounded
     DEF IInv, Typed, Ages, Account, Readings, DeathIsNoticed
<1> QED
  BY <1>1, TimesAreDurations, FaultsAreBounded DEF IInv, Typed, TypeOK

-----------------------------------------------------------------------------
THEOREM TypesAreKept == Spec => []TypeOK
<1> QED
  BY InvariantHolds, TypeFollows, PTL

\* A test server that is alive keeps its job for every interval, time-out, lock time,
\* number of missed heartbeats and clock jump that the lease was chosen for.
THEOREM LiveServerKeepsItsJob == Spec => []LiveKeepsItsJob
<1>1. IInv => LiveKeepsItsJob
  BY DEF IInv
<1> QED
  BY <1>1, InvariantHolds, PTL

\* A test server that is dead has a lease no younger than its death, but for one call.
THEOREM DeathShows == Spec => []DeathIsNoticed
<1>1. IInv => DeathIsNoticed
  BY DEF IInv
<1> QED
  BY <1>1, InvariantHolds, PTL
=============================================================================
