---------------------------- MODULE LeaderElector ----------------------------
(***************************************************************************)
(* The leader election of the metrics pods (internal/k8s/leader_elector.go)*)
(* together with the part of client-go's leaderelection package and of the *)
(* Lease object that it drives.  Every pod runs InitLeaderElection in a    *)
(* goroutine of entrypoint.Run; IsLeader is read by the collection loop.   *)
(*                                                                         *)
(* Time is kept as ages, so the state space is finite without a bound on   *)
(* the clock: Tick ages every timer by one unit.  Clocks of different pods *)
(* advance at the same rate and a pod is never suspended past its own      *)
(* renew deadline (Tick waits for a GiveUp that is due).                   *)
(***************************************************************************)
EXTENDS Integers, FiniteSets

CONSTANTS
    Pods,           \* identities (the HOSTNAME of each replica)
    None,           \* no holder / nothing observed
    LeaseDuration,  \* LeaderElectionConfig, leader_elector.go
    RenewDeadline,
    RetryPeriod

ASSUME PodsAssumption == None \notin Pods

\* What 15s, 10s and 2s satisfy: an abandoned lease outlives the moment at
\* which its holder notices that it could not renew it.
ASSUME DurationAssumption ==
    /\ LeaseDuration \in Nat /\ RenewDeadline \in Nat /\ RetryPeriod \in Nat
    /\ RetryPeriod > 0
    /\ RenewDeadline > RetryPeriod
    /\ LeaseDuration > RenewDeadline + RetryPeriod

VARIABLES
    holder,    \* holderIdentity of the Lease object
    leaseAge,  \* time since the Lease was last written, at most LeaseDuration
    phase,     \* where each pod's election goroutine is
    observed,  \* holder in each elector's observedRecord
    fresh,     \* the observed record is the one the Lease holds now
    obsAge,    \* time since observedTime, at most LeaseDuration
    pollAge    \* time since the current renew poll began; negative while the
               \* elector sleeps RetryPeriod after a successful renewal

vars == <<holder, leaseAge, phase, observed, fresh, obsAge, pollAge>>

Phases ==
    {"init",       \* the elector does not exist yet (Elector == nil)
     "acquiring",  \* Elector.Run, in acquire()
     "leading",    \* Elector.Run, in renew()
     "returned",   \* Elector.Run came back: InitLeaderElection returned nil
     "failed"}     \* InitLeaderElection returned an error

TypeOK ==
    /\ holder \in Pods \cup {None}
    /\ leaseAge \in 0 .. LeaseDuration
    /\ phase \in [Pods -> Phases]
    /\ observed \in [Pods -> Pods \cup {None}]
    /\ fresh \in [Pods -> BOOLEAN]
    /\ obsAge \in [Pods -> 0 .. LeaseDuration]
    /\ pollAge \in [Pods -> (-RetryPeriod) .. RenewDeadline]

Init ==
    /\ holder = None
    /\ leaseAge = LeaseDuration
    /\ phase = [p \in Pods |-> "init"]
    /\ observed = [p \in Pods |-> None]
    /\ fresh = [p \in Pods |-> FALSE]
    /\ obsAge = [p \in Pods |-> 0]
    /\ pollAge = [p \in Pods |-> 0]

\* IsLeader(): false without an elector, else what the last observed record
\* says.  Nothing revokes it when the elector stops.
IsLeader(p) == phase[p] # "init" /\ observed[p] = p

-----------------------------------------------------------------------------
\* InitLeaderElection up to Elector.Run: the in-cluster configuration, the
\* clientset and the elector are made; any of them may fail.
InitLeaderElection(p) ==
    /\ phase[p] = "init"
    /\ phase' = [phase EXCEPT ![p] = "acquiring"]
    /\ UNCHANGED <<holder, leaseAge, observed, fresh, obsAge, pollAge>>

InitLeaderElectionFails(p) ==
    /\ phase[p] = "init"
    /\ phase' = [phase EXCEPT ![p] = "failed"]
    /\ UNCHANGED <<holder, leaseAge, observed, fresh, obsAge, pollAge>>

Campaigning(p) ==
    \/ phase[p] = "acquiring"
    \/ phase[p] = "leading" /\ pollAge[p] >= 0

\* The age of the record the elector decides on after reading the Lease: a
\* changed record replaces observedRecord and restarts observedTime.
SeenAge(p) == IF fresh[p] THEN obsAge[p] ELSE 0

\* The plausible error of trusting the lease only until the renew deadline.
MutRefusedEarly(p) ==
    /\ holder \notin {None, p}
    /\ SeenAge(p) < RenewDeadline

\* tryAcquireOrRenew is refused: another pod holds a lease that is, on this
\* pod's clock, still valid.
Refused(p) ==
    /\ holder \notin {None, p}
    /\ SeenAge(p) < LeaseDuration

\* The Lease is written by p.
WriteLease(p) ==
    /\ holder' = p
    /\ leaseAge' = 0

\* The plausible error of treating every read as a change of the record.
MutReadRestartsAge(p) ==
    /\ Campaigning(p)
    /\ observed' = [observed EXCEPT ![p] = holder]
    /\ obsAge' = [obsAge EXCEPT ![p] = 0]
    /\ fresh' = [fresh EXCEPT ![p] = holder # None]
    /\ UNCHANGED <<holder, leaseAge, phase, pollAge>>

\* An attempt that reads the Lease and does not write it: it is refused, or
\* its update conflicts or fails.
ReadOnlyAttempt(p) ==
    /\ Campaigning(p)
    /\ observed' = [observed EXCEPT ![p] = holder]
    /\ obsAge' = [obsAge EXCEPT ![p] = SeenAge(p)]
    /\ fresh' = [fresh EXCEPT ![p] = holder # None]
    /\ UNCHANGED <<holder, leaseAge, phase, pollAge>>

\* tryAcquireOrRenew succeeds: acquire() returns into renew(), whose first
\* poll begins at once; a renewal sleeps RetryPeriod before the next poll.
AcquireOrRenew(p) ==
    /\ Campaigning(p)
    /\ ~Refused(p)
    /\ WriteLease(p)
    /\ observed' = [observed EXCEPT ![p] = p]
    /\ obsAge' = [obsAge EXCEPT ![p] = 0]
    /\ fresh' = [q \in Pods |-> q = p]
    /\ phase' = [phase EXCEPT ![p] = "leading"]
    /\ pollAge' = [pollAge EXCEPT ![p] =
                     IF phase[p] = "leading" THEN -RetryPeriod ELSE 0]

\* The write reaches the API server but its answer is lost: the elector saw
\* what it read, retries, and does not know that it holds the lease.
WriteAnswerLost(p) ==
    /\ Campaigning(p)
    /\ ~Refused(p)
    /\ WriteLease(p)
    /\ observed' = [observed EXCEPT ![p] = holder]
    /\ obsAge' = [obsAge EXCEPT ![p] = SeenAge(p)]
    /\ fresh' = [q \in Pods |-> FALSE]
    /\ UNCHANGED <<phase, pollAge>>

\* The plausible error of starting over as leader when Elector.Run returns.
MutGiveUpRenews(p) ==
    /\ phase[p] = "leading"
    /\ pollAge[p] = RenewDeadline
    /\ pollAge' = [pollAge EXCEPT ![p] = 0]
    /\ UNCHANGED <<holder, leaseAge, phase, observed, fresh, obsAge>>

\* renew() gave up after RenewDeadline without a success: Elector.Run returns
\* (ReleaseOnCancel is not set, so the Lease is left alone) and so does
\* InitLeaderElection.  observedRecord keeps its last value.
GiveUp(p) ==
    /\ phase[p] = "leading"
    /\ pollAge[p] = RenewDeadline
    /\ phase' = [phase EXCEPT ![p] = "returned"]
    /\ UNCHANGED <<holder, leaseAge, observed, fresh, obsAge, pollAge>>

\* The container restarts under the same HOSTNAME.
Restart(p) ==
    /\ phase[p] # "init"
    /\ phase' = [phase EXCEPT ![p] = "init"]
    /\ observed' = [observed EXCEPT ![p] = None]
    /\ fresh' = [fresh EXCEPT ![p] = FALSE]
    /\ obsAge' = [obsAge EXCEPT ![p] = 0]
    /\ pollAge' = [pollAge EXCEPT ![p] = 0]
    /\ UNCHANGED <<holder, leaseAge>>

Age(a) == IF a < LeaseDuration THEN a + 1 ELSE a

\* A leading pod reaches its deadline before time passes it.
Tick ==
    /\ \A p \in Pods : phase[p] = "leading" => pollAge[p] < RenewDeadline
    /\ leaseAge' = Age(leaseAge)
    /\ obsAge' = [p \in Pods |-> Age(obsAge[p])]
    /\ pollAge' = [p \in Pods |->
                     IF phase[p] = "leading" THEN pollAge[p] + 1 ELSE pollAge[p]]
    /\ UNCHANGED <<holder, phase, observed, fresh>>

Next ==
    \/ Tick
    \/ \E p \in Pods :
        \/ InitLeaderElection(p)
        \/ InitLeaderElectionFails(p)
        \/ ReadOnlyAttempt(p)
        \/ AcquireOrRenew(p)
        \/ WriteAnswerLost(p)
        \/ GiveUp(p)
        \/ Restart(p)

Spec == Init /\ [][Next]_vars

\* The election goroutine of a pod runs, time passes, and the API server is
\* not unreachable for ever: an attempt that may succeed again and again
\* does succeed.
Fairness ==
    /\ WF_vars(Tick)
    /\ \A p \in Pods : /\ WF_vars(ReadOnlyAttempt(p))
                       /\ SF_vars(AcquireOrRenew(p))
                       /\ WF_vars(GiveUp(p))

FairSpec == Spec /\ Fairness

-----------------------------------------------------------------------------
(***************************************************************************)
(* At most one pod's elector is in renew(), whatever answers are lost and  *)
(* whichever pods restart: leadership as InitLeaderElection runs it.       *)
(***************************************************************************)
AtMostOneLeading ==
    \A p, q \in Pods : phase[p] = "leading" /\ phase[q] = "leading" => p = q

\* A pod in renew() holds the Lease, and the Lease is no older than the time
\* since its last renewal.
LeaderHoldsLease ==
    \A p \in Pods : phase[p] = "leading" =>
        /\ holder = p
        /\ leaseAge <= pollAge[p] + RetryPeriod

\* Nobody believes a record to be older than it is.
ObservedNotOlder ==
    \A p \in Pods : fresh[p] => obsAge[p] <= leaseAge

(***************************************************************************)
(* The inductive invariant: a standby that may take the lease has seen the *)
(* same record for LeaseDuration, and no leader keeps leading that long    *)
(* after its last renewal.                                                 *)
(***************************************************************************)
ElectionInv == TypeOK /\ LeaderHoldsLease /\ ObservedNotOlder

(***************************************************************************)
(* No step takes the Lease away from a pod that is in renew(): the holder  *)
(* stops leading (gives up or restarts) first.                             *)
(***************************************************************************)
NoTakeover ==
    [][\A p \in Pods : phase[p] = "leading" => holder' = p]_vars

(***************************************************************************)
(* A pod that keeps campaigning does not wait on nobody: again and again   *)
(* some pod leads.  An abandoned lease expires on its clock and is taken.  *)
(***************************************************************************)
CampaignElects ==
    \A p \in Pods :
        <>[](phase[p] = "acquiring") => []<>(\E q \in Pods : phase[q] = "leading")

(***************************************************************************)
(* "IsLeader return true if the given client is leader at the moment"      *)
(* (leader_elector.go:89): two pods never both report leadership.          *)
(***************************************************************************)
OneReportedLeader ==
    \A p, q \in Pods : IsLeader(p) /\ IsLeader(q) => p = q
=============================================================================
