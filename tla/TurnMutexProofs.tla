--------------------------- MODULE TurnMutexProofs ---------------------------
(***************************************************************************)
(* Proofs about TurnMutex: for any set of messages, any lease longer than  *)
(* the keepalive's period and any number of polls, the lock implements     *)
(* SerialTurns while every keepalive is on time.                           *)
(***************************************************************************)
EXTENDS TurnMutex, TLAPS

\* Nobody has the lock at the start.
LEMMA InitMInv == Init => MInv
  BY LeaseOutlivesPeriod, AttemptsPositive DEF Init, MInv, TypeOK, Covered, Active, Stages

\* Every step keeps the types.
LEMMA TypeStep ==
  ASSUME TypeOK, [Next]_vars
  PROVE  TypeOK'
  <1> USE LeaseOutlivesPeriod, AttemptsPositive, NoneIsNoTask DEF TypeOK, Stages
  <1>1. CASE Tick
    BY <1>1 DEF Tick
  <1>2. ASSUME NEW t \in Tasks, Acquire(t)
        PROVE  TypeOK'
    BY <1>2 DEF Acquire
  <1>3. ASSUME NEW t \in Tasks, Miss(t) \/ Drop(t)
        PROVE  TypeOK'
    BY <1>3 DEF Miss, Drop
  <1>4. ASSUME NEW t \in Tasks, Keepalive(t)
        PROVE  TypeOK'
    BY <1>4 DEF Keepalive
  <1>5. ASSUME NEW t \in Tasks, EndTurn(t) \/ Crash(t) \/ KeepaliveDies(t)
        PROVE  TypeOK'
    BY <1>5 DEF EndTurn, Crash, KeepaliveDies
  <1>6. ASSUME NEW t \in Tasks, Release(t) \/ ReleaseRaises(t)
        PROVE  TypeOK'
    BY <1>6 DEF Release, ReleaseRaises
  <1>7. CASE UNCHANGED vars
    BY <1>7 DEF vars
  <1> QED  BY <1>1, <1>2, <1>3, <1>4, <1>5, <1>6, <1>7 DEF Next, Worker, Failure

\* A running turn's lock outlives every wait of its keepalive.
LEMMA CoveredStep ==
  ASSUME MInv, TypeOK', [Next]_vars
  PROVE  Covered'
  <1> USE LeaseOutlivesPeriod, NoneIsNoTask DEF MInv, TypeOK, Covered, Active
  <1>1. CASE Tick
    <2> SUFFICES ASSUME NEW t \in Tasks, stage[t] = "turn", onTime'
                 PROVE  owner' = t /\ alive[t] /\ ttl' + waited'[t] >= Lease
      BY <1>1 DEF Tick
    <2>1. owner = t /\ alive[t] /\ ttl + waited[t] >= Lease
      BY <1>1 DEF Tick
    <2>2. ~Due(t)
      BY <1>1 DEF Tick
    <2>3. waited[t] \in 0 .. Period /\ waited[t] # Period
      BY <2>1, <2>2 DEF Due
    <2>4. waited[t] < Period /\ ttl > 1
      BY <2>1, <2>3
    <2> QED  BY <1>1, <2>1, <2>4 DEF Tick
  <1>2. ASSUME NEW t \in Tasks, Acquire(t)
        PROVE  Covered'
    BY <1>2 DEF Acquire
  <1>3. ASSUME NEW t \in Tasks, Miss(t) \/ Drop(t) \/ ReleaseRaises(t)
        PROVE  Covered'
    <2>1. \A u \in Tasks : stage'[u] = "turn" => stage[u] = "turn"
      BY <1>3 DEF Miss, Drop, ReleaseRaises
    <2>2. UNCHANGED <<owner, ttl, alive, waited, onTime>>
      BY <1>3 DEF Miss, Drop, ReleaseRaises
    <2> QED  BY <2>1, <2>2
  <1>4. ASSUME NEW t \in Tasks, Keepalive(t)
        PROVE  Covered'
    BY <1>4 DEF Keepalive, Due
  <1>5. ASSUME NEW t \in Tasks, EndTurn(t) \/ Crash(t)
        PROVE  Covered'
    BY <1>5 DEF EndTurn, Crash
  <1>6. ASSUME NEW t \in Tasks, Release(t)
        PROVE  Covered'
    BY <1>6 DEF Release
  <1>7. ASSUME NEW t \in Tasks, KeepaliveDies(t)
        PROVE  Covered'
    BY <1>7 DEF KeepaliveDies
  <1>8. CASE UNCHANGED vars
    BY <1>8 DEF vars
  <1> QED  BY <1>1, <1>2, <1>3, <1>4, <1>5, <1>6, <1>7, <1>8 DEF Next, Worker, Failure

\* MInv is an inductive invariant.
THEOREM MutexInvariance == Spec => []MInv
  <1>1. MInv /\ [Next]_vars => MInv'
    BY TypeStep, CoveredStep DEF MInv
  <1> QED  BY <1>1, InitMInv, PTL DEF Spec

\* The variables keep their types: the lock has time left exactly while somebody
\* has it, also after a crash, a late keepalive or a release that raised.
THEOREM MutexTypes == Spec => []TypeOK
  <1>1. MInv => TypeOK
    BY DEF MInv
  <1> QED  BY <1>1, MutexInvariance, PTL

\* README: a customer's turns never run concurrently, as long as every keepalive
\* has been on time.
THEOREM MutexSafety == Spec => []MutualExclusion
  <1>1. MInv => MutualExclusion
    BY DEF MInv, Covered, MutualExclusion
  <1> QED  BY <1>1, MutexInvariance, PTL

\* The turns the lock still promises anything about.
Promised == IF onTime THEN Active ELSE {}

\* Every step of the lock is a step of SerialTurns or a stutter.
LEMMA SerialStep ==
  ASSUME MInv, [Next]_vars
  PROVE  [Turns!Next]_Promised
  <1> USE DEF MInv, TypeOK, Active, Promised
  <1>1. ASSUME NEW t \in Tasks, Acquire(t), onTime
        PROVE  Turns!Begin(t)
    <2>1. Active = {}
      BY <1>1, NoneIsNoTask DEF Acquire, Covered
    <2>2. Active' = {t} /\ onTime'
      BY <1>1, <2>1 DEF Acquire
    <2> QED  BY <1>1, <2>1, <2>2 DEF Turns!Begin
  <1>2. ASSUME NEW t \in Tasks, EndTurn(t) \/ (Crash(t) /\ stage[t] = "turn"), onTime
        PROVE  Turns!End(t)
    <2>1. Active' = Active \ {t} /\ onTime' /\ t \in Active
      BY <1>2 DEF EndTurn, Crash
    <2> QED  BY <1>2, <2>1 DEF Turns!End
  <1>3. ASSUME NEW t \in Tasks, Crash(t), stage[t] # "turn"
        PROVE  Promised' = Promised
    BY <1>3 DEF Crash
  <1>4. ASSUME NEW t \in Tasks,
               Miss(t) \/ Drop(t) \/ Keepalive(t) \/ Release(t) \/ ReleaseRaises(t)
        PROVE  Promised' = Promised
    BY <1>4 DEF Miss, Drop, Keepalive, Release, ReleaseRaises
  <1>5. ASSUME UNCHANGED Active PROVE [Turns!Next]_Promised \/ onTime' # onTime
    BY <1>5
  <1>6. ASSUME onTime, ~onTime', [Next]_vars PROVE [Turns!Next]_Promised
    <2>1. \A t, u \in Active : t = u
      BY <1>6 DEF Covered
    <2>2. Active = {} \/ \E t \in Tasks : Active = {t}
      BY <2>1
    <2> QED  BY <1>6, <2>2 DEF Turns!Next, Turns!End
  <1>7. ASSUME ~onTime PROVE ~onTime'
    BY <1>7 DEF Next, Worker, Failure, Acquire, Miss, Drop, Keepalive, KeepaliveDies,
                EndTurn, Crash, Release, ReleaseRaises, Tick, vars
  <1>8. CASE Tick \/ (\E t \in Tasks : KeepaliveDies(t)) \/ UNCHANGED vars
    <2>1. UNCHANGED Active
      BY <1>8 DEF Tick, KeepaliveDies, vars
    <2> QED  BY <1>5, <1>6, <1>7, <2>1
  <1> QED
    BY <1>1, <1>2, <1>3, <1>4, <1>6, <1>7, <1>8 DEF Next, Worker, Failure, Turns!Next

\* While the keepalives are on time the lock implements the serial processing of
\* turns.
THEOREM MutexRefinement == Spec => Serial
  <1>1. Init => Turns!Init
    BY DEF Init, Active, Turns!Init
  <1>2. MInv /\ [Next]_vars => [Turns!Next]_(IF onTime THEN Active ELSE {})
    BY SerialStep DEF Promised
  <1> QED  BY <1>1, <1>2, MutexInvariance, PTL DEF Spec, Serial, Turns!Spec

\* A turn that ends late leaves the lock of the turn that has it now alone,
\* whether keepalives have been on time or not.
THEOREM LateReleaseIsHarmless == Spec => ReleasesOnlyItsOwn
  <1>1. Init => TypeOK
    BY InitMInv DEF MInv
  <1>2. TypeOK /\ [Next]_vars => TypeOK'
    BY TypeStep
  <1>3. ASSUME TypeOK, [Next]_vars, NEW t \in Tasks, NEW u \in Tasks, t # u,
               owner = t, stage[u] = "releasing", stage'[u] = "done"
        PROVE  owner' = t /\ ttl' = ttl
    <2>1. CASE \E x \in Tasks : Release(x) \/ ReleaseRaises(x)
      BY <1>3, <2>1 DEF Release, ReleaseRaises, TypeOK
    <2>2. CASE ~ \E x \in Tasks : Release(x) \/ ReleaseRaises(x)
      BY <1>3, <2>2
      DEF Next, Worker, Failure, Acquire, Miss, Drop, Keepalive, KeepaliveDies,
          EndTurn, Crash, Tick, TypeOK, vars
    <2> QED  BY <2>1, <2>2
  <1>4. TypeOK /\ [Next]_vars =>
          [\A t, u \in Tasks :
             t # u /\ owner = t /\ stage[u] = "releasing" /\ stage'[u] = "done"
               => owner' = t /\ ttl' = ttl]_vars
    BY <1>3
  <1> QED  BY <1>1, <1>2, <1>4, PTL DEF Spec, ReleasesOnlyItsOwn
=============================================================================
