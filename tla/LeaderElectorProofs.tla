------------------------- MODULE LeaderElectorProofs -------------------------
(***************************************************************************)
(* Leadership is exclusive for every set of pods and all durations that    *)
(* satisfy DurationAssumption.                                             *)
(***************************************************************************)
EXTENDS LeaderElector, TLAPS

\* A pod in renew() excludes every other pod from the Lease: the standby's
\* view of the record is no older than the record, which is no older than
\* the leader's deadline allows.  (tryAcquireOrRenew)
LEMMA LeaderRefusesOthers ==
    ASSUME ElectionInv, NEW p \in Pods, NEW q \in Pods,
           phase[p] = "leading", q # p
    PROVE  Refused(q)
<1>1. holder = p /\ leaseAge <= pollAge[p] + RetryPeriod
  BY DEF ElectionInv, LeaderHoldsLease
<1>2. pollAge[p] \in (-RetryPeriod) .. RenewDeadline
  BY DEF ElectionInv, TypeOK
<1>3. leaseAge \in 0 .. LeaseDuration /\ obsAge[q] \in 0 .. LeaseDuration
  BY DEF ElectionInv, TypeOK
<1>4. leaseAge < LeaseDuration
  BY <1>1, <1>2, <1>3, DurationAssumption
<1>5. fresh[q] => obsAge[q] <= leaseAge
  BY DEF ElectionInv, ObservedNotOlder
<1>6. SeenAge(q) < LeaseDuration
  BY <1>3, <1>4, <1>5, DurationAssumption DEF SeenAge
<1>7. holder # None
  BY <1>1, PodsAssumption
<1> QED
  BY <1>1, <1>6, <1>7 DEF Refused

\* The initial state satisfies the inductive invariant.
LEMMA ElectionInit == Init => ElectionInv
<1> SUFFICES ASSUME Init PROVE ElectionInv
  OBVIOUS
<1> USE DurationAssumption DEF Init
<1>1. TypeOK
  BY DEF TypeOK, Phases
<1>2. LeaderHoldsLease
  BY DEF LeaderHoldsLease
<1>3. ObservedNotOlder
  BY DEF ObservedNotOlder
<1> QED
  BY <1>1, <1>2, <1>3 DEF ElectionInv

\* The age of the record an attempt decides on is an age, and no greater than
\* that of the Lease.
LEMMA SeenAgeBound ==
    ASSUME ElectionInv, NEW p \in Pods
    PROVE  /\ SeenAge(p) \in 0 .. LeaseDuration
           /\ SeenAge(p) <= leaseAge
  BY DurationAssumption DEF ElectionInv, TypeOK, ObservedNotOlder, SeenAge

\* Every step preserves the types.
LEMMA TypeStep == ElectionInv /\ [Next]_vars => TypeOK'
<1> SUFFICES ASSUME ElectionInv, [Next]_vars PROVE TypeOK'
  OBVIOUS
<1> USE DurationAssumption, PodsAssumption DEF TypeOK, Phases
<1>0. TypeOK
  BY DEF ElectionInv
<1>1. CASE Tick
  BY <1>0, <1>1 DEF Tick, Age
<1>2. ASSUME NEW p \in Pods, InitLeaderElection(p) PROVE TypeOK'
  BY <1>0, <1>2 DEF InitLeaderElection
<1>3. ASSUME NEW p \in Pods, InitLeaderElectionFails(p) PROVE TypeOK'
  BY <1>0, <1>3 DEF InitLeaderElectionFails
<1>4. ASSUME NEW p \in Pods, ReadOnlyAttempt(p) PROVE TypeOK'
  <2>1. SeenAge(p) \in 0 .. LeaseDuration
    BY SeenAgeBound
  <2> QED
    BY <1>0, <1>4, <2>1 DEF ReadOnlyAttempt
<1>5. ASSUME NEW p \in Pods, AcquireOrRenew(p) PROVE TypeOK'
  BY <1>0, <1>5 DEF AcquireOrRenew, WriteLease
<1>6. ASSUME NEW p \in Pods, WriteAnswerLost(p) PROVE TypeOK'
  <2>1. SeenAge(p) \in 0 .. LeaseDuration
    BY SeenAgeBound
  <2> QED
    BY <1>0, <1>6, <2>1 DEF WriteAnswerLost, WriteLease
<1>7. ASSUME NEW p \in Pods, GiveUp(p) PROVE TypeOK'
  BY <1>0, <1>7 DEF GiveUp
<1>8. ASSUME NEW p \in Pods, Restart(p) PROVE TypeOK'
  BY <1>0, <1>8 DEF Restart
<1>9. CASE UNCHANGED vars
  BY <1>0, <1>9 DEF vars
<1> QED
  BY <1>1, <1>2, <1>3, <1>4, <1>5, <1>6, <1>7, <1>8, <1>9 DEF Next

\* Every step keeps the observers' ages below the age of the Lease.
LEMMA ObservedStep == ElectionInv /\ [Next]_vars => ObservedNotOlder'
<1> SUFFICES ASSUME ElectionInv, [Next]_vars, NEW q \in Pods, fresh'[q]
             PROVE  obsAge'[q] <= leaseAge'
  BY DEF ObservedNotOlder
<1> USE DurationAssumption DEF TypeOK
<1>0. TypeOK /\ (fresh[q] => obsAge[q] <= leaseAge)
  BY DEF ElectionInv, ObservedNotOlder
<1>1. CASE Tick
  BY <1>0, <1>1 DEF Tick, Age
<1>2. ASSUME NEW p \in Pods, InitLeaderElection(p) \/ InitLeaderElectionFails(p) \/ GiveUp(p)
      PROVE  obsAge'[q] <= leaseAge'
  BY <1>0, <1>2 DEF InitLeaderElection, InitLeaderElectionFails, GiveUp
<1>3. ASSUME NEW p \in Pods, ReadOnlyAttempt(p) PROVE obsAge'[q] <= leaseAge'
  <2>1. SeenAge(p) <= leaseAge
    BY SeenAgeBound
  <2> QED
    BY <1>0, <1>3, <2>1 DEF ReadOnlyAttempt
<1>4. ASSUME NEW p \in Pods, AcquireOrRenew(p) PROVE obsAge'[q] <= leaseAge'
  <2>1. q = p
    BY <1>4 DEF AcquireOrRenew
  <2>2. obsAge'[p] = 0 /\ leaseAge' = 0
    BY <1>0, <1>4 DEF AcquireOrRenew, WriteLease
  <2> QED
    BY <2>1, <2>2
<1>5. ASSUME NEW p \in Pods, WriteAnswerLost(p) PROVE obsAge'[q] <= leaseAge'
  BY <1>5 DEF WriteAnswerLost
<1>6. ASSUME NEW p \in Pods, Restart(p) PROVE obsAge'[q] <= leaseAge'
  BY <1>0, <1>6 DEF Restart
<1>7. CASE UNCHANGED vars
  BY <1>0, <1>7 DEF vars
<1> QED
  BY <1>1, <1>2, <1>3, <1>4, <1>5, <1>6, <1>7 DEF Next

\* Every step leaves a pod that is in renew() with the Lease.
LEMMA LeaderStep == ElectionInv /\ [Next]_vars => LeaderHoldsLease'
<1> SUFFICES ASSUME ElectionInv, [Next]_vars, NEW l \in Pods, phase'[l] = "leading"
             PROVE  holder' = l /\ leaseAge' <= pollAge'[l] + RetryPeriod
  BY DEF LeaderHoldsLease
<1> DEFINE Goal == holder' = l /\ leaseAge' <= pollAge'[l] + RetryPeriod
<1> USE DurationAssumption DEF TypeOK
<1>0. /\ TypeOK
      /\ phase[l] = "leading" => holder = l /\ leaseAge <= pollAge[l] + RetryPeriod
  BY DEF ElectionInv, LeaderHoldsLease
<1>1. CASE Tick
  BY <1>0, <1>1 DEF Tick, Age
<1>2. ASSUME NEW p \in Pods, InitLeaderElection(p) \/ InitLeaderElectionFails(p) \/ GiveUp(p)
      PROVE  Goal
  BY <1>0, <1>2 DEF InitLeaderElection, InitLeaderElectionFails, GiveUp
<1>3. ASSUME NEW p \in Pods, ReadOnlyAttempt(p) PROVE Goal
  BY <1>0, <1>3 DEF ReadOnlyAttempt
<1>4. ASSUME NEW p \in Pods, AcquireOrRenew(p) PROVE Goal
  <2>1. CASE p = l
    BY <1>0, <1>4, <2>1 DEF AcquireOrRenew, WriteLease
  <2>2. CASE p # l
    <3>1. phase[l] = "leading"
      BY <1>0, <1>4, <2>2 DEF AcquireOrRenew
    <3>2. Refused(p)
      BY <3>1, <2>2, LeaderRefusesOthers
    <3> QED
      BY <1>4, <3>2 DEF AcquireOrRenew
  <2> QED
    BY <2>1, <2>2
<1>5. ASSUME NEW p \in Pods, WriteAnswerLost(p) PROVE Goal
  <2>0. phase[l] = "leading"
    BY <1>5 DEF WriteAnswerLost
  <2>1. CASE p = l
    <3>1. pollAge[l] >= 0
      BY <1>5, <2>0, <2>1 DEF WriteAnswerLost, Campaigning
    <3> QED
      BY <1>0, <1>5, <2>1, <3>1 DEF WriteAnswerLost, WriteLease
  <2>2. CASE p # l
    <3>1. Refused(p)
      BY <2>0, <2>2, LeaderRefusesOthers
    <3> QED
      BY <1>5, <3>1 DEF WriteAnswerLost
  <2> QED
    BY <2>1, <2>2
<1>6. ASSUME NEW p \in Pods, Restart(p) PROVE Goal
  BY <1>0, <1>6 DEF Restart
<1>7. CASE UNCHANGED vars
  BY <1>0, <1>7 DEF vars
<1> QED
  BY <1>1, <1>2, <1>3, <1>4, <1>5, <1>6, <1>7 DEF Next

-----------------------------------------------------------------------------
\* The invariant that ties each leader to the Lease, and each observer's clock
\* to the age of the Lease, holds in every reachable state of the election.
THEOREM ElectionInvariant == Spec => []ElectionInv
<1>1. ElectionInv /\ [Next]_vars => ElectionInv'
  BY TypeStep, LeaderStep, ObservedStep DEF ElectionInv
<1> QED
  BY ElectionInit, <1>1, PTL DEF Spec

\* Two pods are never both in renew(), for any number of pods, any lost
\* answers and any restarts (InitLeaderElection's use of the elector).
THEOREM LeadershipExclusive == Spec => []AtMostOneLeading
<1>1. ElectionInv => AtMostOneLeading
  BY DEF ElectionInv, LeaderHoldsLease, AtMostOneLeading
<1> QED
  BY ElectionInvariant, <1>1, PTL

\* No step of any pod takes the Lease from a pod in renew().
THEOREM LeaseNotTakenOver == Spec => NoTakeover
<1>1. ElectionInv /\ [Next]_vars =>
        [\A p \in Pods : phase[p] = "leading" => holder' = p]_vars
  <2> SUFFICES ASSUME ElectionInv, Next, NEW l \in Pods, phase[l] = "leading"
               PROVE  holder' = l
    OBVIOUS
  <2>0. holder = l
    BY DEF ElectionInv, LeaderHoldsLease
  <2>1. ASSUME NEW p \in Pods, AcquireOrRenew(p) \/ WriteAnswerLost(p) PROVE holder' = l
    <3>1. ~Refused(p) /\ holder' = p
      BY <2>1 DEF AcquireOrRenew, WriteAnswerLost, WriteLease
    <3>2. p = l
      BY <3>1, LeaderRefusesOthers
    <3> QED
      BY <3>1, <3>2
  <2>2. CASE UNCHANGED holder
    BY <2>0, <2>2
  <2> QED
    BY <2>1, <2>2 DEF Next, Tick, InitLeaderElection, InitLeaderElectionFails,
                      ReadOnlyAttempt, GiveUp, Restart
<1> QED
  BY ElectionInvariant, <1>1, PTL DEF Spec, NoTakeover
=============================================================================
