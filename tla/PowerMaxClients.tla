--------------------------- MODULE PowerMaxClients ---------------------------
(***************************************************************************)
(* The map of array connections that main.go loads (updatePowerMaxArrays,  *)
(* k8spmax.GetPowerMaxArrays), that service.PowerMaxService publishes under*)
(* its lock, and that the metric collectors read through the snapshot each *)
(* singleton takes when it is first used (NewBaseMetrics).                 *)
(*                                                                         *)
(* Loads run in several goroutines: main before Run starts, the informer   *)
(* when a secret changes, the file watcher when the proxy configuration    *)
(* changes.  An entry of the map stands for a PowerMaxArray: GetPowerMax-  *)
(* Arrays keeps only entries with IsActive set, and the liveness probe     *)
(* writes IsActive into copies, so IsActive is true in every stored entry. *)
(* Run's goroutine alternates between collections and probes.              *)
(***************************************************************************)
EXTENDS Naturals, Sequences

CONSTANTS
    Arrays,
    Endpoints,
    NoEndpoint,   \* an empty host
    Configs,      \* the proxy configurations in the order they take effect:
                  \* each gives its arrays a primary and a secondary endpoint
    Main,         \* the goroutine of main
    Watchers,     \* the goroutines that reload on a change
    Collectors,   \* the metric kinds, one singleton each
    MayFail,      \* a configuration may be unreadable
    NilMap        \* a nil map

Updaters == Watchers \cup {Main}

ASSUME ConfigsAssumption ==
    /\ Len(Configs) \in Nat \ {0}
    /\ NoEndpoint \notin Endpoints
    /\ \A i \in 1 .. Len(Configs) :
        /\ DOMAIN Configs[i] \subseteq Arrays
        /\ \A a \in DOMAIN Configs[i] :
            Configs[i][a] \in [primary : Endpoints, secondary : Endpoints \cup {NoEndpoint}]
    /\ Main \notin Watchers

VARIABLES
    version,    \* the configuration in effect, an index of Configs
    up,         \* the endpoints that accept a connection and the credentials
    notified,   \* goroutines whose callback is due
    loading,    \* per goroutine: the configuration it is loading, 0 if none
    todo,       \* per goroutine and array: endpoints still to connect to
    built,      \* per goroutine: the map it builds
    clients,    \* PowerMaxService.PowerMaxClients
    snapshot,   \* per collector: nothing yet, or <<its PowerMaxClients>>
    exporting,  \* the collector whose ExportMetrics runs, or "none"
    picked,     \* the client that it got for each array it asked for
    inactive,   \* history: entries for which the last probe set IsActive to
                \* false; entries that are loaded after it are active
    reported    \* the status that recordObsMetrics last gave each array

loadVars == <<notified, loading, todo, built>>
exportVars == <<snapshot, exporting, picked>>
statusVars == <<inactive, reported>>
vars == <<version, up, loadVars, clients, exportVars, statusVars>>

EmptyMap == [a \in {} |-> <<>>]

Maps == UNION { [S -> Seq(Endpoints)] : S \in SUBSET Arrays } \cup {NilMap}

TypeOK ==
    /\ version \in 1 .. Len(Configs)
    /\ up \subseteq Endpoints
    /\ notified \subseteq Updaters
    /\ loading \in [Updaters -> 0 .. Len(Configs)]
    /\ todo \in [Updaters -> [Arrays -> Seq(Endpoints)]]
    /\ DOMAIN built = Updaters
    /\ DOMAIN snapshot = Collectors
    /\ clients = NilMap \/ DOMAIN clients \subseteq Arrays
    /\ exporting \in Collectors \cup {"none"}
    /\ inactive \subseteq Endpoints
    /\ DOMAIN reported \subseteq Arrays

\* InitK8sUtils has started the informer; main is about to load.
Init ==
    /\ version = 1
    /\ up \in SUBSET Endpoints
    /\ notified = {Main}
    /\ loading = [u \in Updaters |-> 0]
    /\ todo = [u \in Updaters |-> [a \in Arrays |-> <<>>]]
    /\ built = [u \in Updaters |-> EmptyMap]
    /\ clients = NilMap
    /\ snapshot = [k \in Collectors |-> <<>>]
    /\ exporting = "none"
    /\ picked = EmptyMap
    /\ inactive = {}
    /\ reported = EmptyMap

-----------------------------------------------------------------------------
\* The secret or the proxy configuration changes, and w is told.
ChangeConfig(w) ==
    /\ version < Len(Configs)
    /\ version' = version + 1
    /\ notified' = notified \cup {w}
    /\ UNCHANGED <<up, loading, todo, built, clients, exportVars, statusVars>>

\* An endpoint goes down or comes back.  Nobody is told.
Flip(e) ==
    /\ up' = IF e \in up THEN up \ {e} ELSE up \cup {e}
    /\ UNCHANGED <<version, loadVars, clients, exportVars, statusVars>>

\* getPowerMaxArrays, getPowerMaxArraysFromSecret: the entries of array a, the
\* primary first, the secondary only if it has a host.  An array ID that a
\* configuration lists twice, whose entries would be appended, is left out.
EndpointList(c, a) ==
    IF a \notin DOMAIN c THEN <<>>
    ELSE IF c[a].secondary = NoEndpoint THEN <<c[a].primary>>
    ELSE <<c[a].primary, c[a].secondary>>

\* updatePowerMaxArrays: GetPowerMaxArrays reads the configuration and
\* composes the list of endpoints of every array ...
StartLoad(u) ==
    /\ u \in notified
    /\ loading[u] = 0
    /\ notified' = notified \ {u}
    /\ loading' = [loading EXCEPT ![u] = version]
    /\ todo' = [todo EXCEPT ![u] = [a \in Arrays |-> EndpointList(Configs[version], a)]]
    /\ built' = [built EXCEPT ![u] = EmptyMap]
    /\ UNCHANGED <<version, up, clients, exportVars, statusVars>>

\* ... or fails to, and the update is abandoned.
LoadFails(u) ==
    /\ MayFail
    /\ u \in notified
    /\ loading[u] = 0
    /\ notified' = notified \ {u}
    /\ UNCHANGED <<version, up, loading, todo, built, clients, exportVars, statusVars>>

\* m[a], the nil slice on a map without the key.
EntriesOf(m, a) == IF a \in DOMAIN m THEN m[a] ELSE <<>>

\* m[a] = append(m[a], e)
AppendEntry(m, a, e) ==
    [b \in DOMAIN m \cup {a} |->
        IF b = a THEN Append(EntriesOf(m, a), e) ELSE m[b]]

\* The plausible error of a map that the loading goroutines share.
MutSharedMap(u, a) ==
    /\ todo[u][a] # <<>>
    /\ todo' = [todo EXCEPT ![u][a] = Tail(@)]
    /\ built' = IF Head(todo[u][a]) \in up
                THEN [w \in Updaters |-> AppendEntry(built[w], a, Head(todo[u][a]))]
                ELSE built
    /\ UNCHANGED <<version, up, notified, loading, clients, exportVars, statusVars>>

\* NewClientWithArgs and Authenticate for the next endpoint of array a: an
\* endpoint that fails either is left out.
ConnectEndpoint(u, a) ==
    /\ todo[u][a] # <<>>
    /\ todo' = [todo EXCEPT ![u][a] = Tail(@)]
    /\ built' = IF Head(todo[u][a]) \in up
                THEN [built EXCEPT ![u] = AppendEntry(@, a, Head(todo[u][a]))]
                ELSE built
    /\ UNCHANGED <<version, up, notified, loading, clients, exportVars, statusVars>>

\* SetPowerMaxClients: the map is replaced as a whole, under the lock.
SetPowerMaxClients(u) ==
    /\ loading[u] # 0
    /\ \A a \in Arrays : todo[u][a] = <<>>
    /\ clients' = built[u]
    /\ loading' = [loading EXCEPT ![u] = 0]
    /\ inactive' = {}
    /\ UNCHANGED <<version, up, notified, todo, built, exportVars, reported>>

-----------------------------------------------------------------------------
\* Run starts when main has done its load.
Configured == Main \notin notified /\ loading[Main] = 0

\* Create...MetricsInstance: the singleton keeps the snapshot (GetPowerMax-
\* Clients) of its first use.
InstanceClients(k) == IF snapshot[k] = <<>> THEN clients ELSE snapshot[k][1]

\* The plausible error of searching the list from its end.
MutLastClient(m, a) == m[a][Len(m[a])]

\* GetPowerMaxClient: the first entry, all being active; without any, an error.
GetPowerMaxClient(m, a) == m[a][1]

\* recordObsMetrics: an array of the published map is "error" without an active
\* entry, else "failure" or "success" after the error that ExportMetrics returns.
RecordObsMetrics(err) ==
    reported' = [a \in (IF clients = NilMap THEN {} ELSE DOMAIN clients) |->
                    CASE clients[a] = <<>> -> "error"
                      [] clients[a] # <<>> /\ err -> "failure"
                      [] OTHER -> "success"]

\* Export...Metrics up to the collection: a nil map ends it at once.  The other
\* refusals never apply: main sets a recorder and, in updateMaxConnections, a
\* positive number of connections.
ExportMetrics(k) ==
    /\ Configured
    /\ exporting = "none"
    /\ snapshot' = [snapshot EXCEPT ![k] = <<InstanceClients(k)>>]
    /\ LET m == InstanceClients(k)
       IN  IF m = NilMap
           THEN RecordObsMetrics(TRUE) /\ UNCHANGED <<exporting, picked>>
           ELSE /\ exporting' = k
                /\ picked' = [a \in {b \in DOMAIN m : m[b] # <<>>} |-> GetPowerMaxClient(m, a)]
                /\ UNCHANGED reported
    /\ UNCHANGED <<version, up, loadVars, clients, inactive>>

\* The collection ends, with an error if the volumes cannot be listed.
ExportReturns(err) ==
    /\ exporting # "none"
    /\ exporting' = "none"
    /\ picked' = EmptyMap
    /\ RecordObsMetrics(err)
    /\ UNCHANGED <<version, up, loadVars, clients, snapshot, inactive>>

\* validatePowerMaxArrays: every entry of the published map is authenticated
\* again.  IsActive is set in the loop's copy of the entry, so the map keeps
\* the entries that fail as they are.
ValidatePowerMaxArrays ==
    /\ Configured
    /\ exporting = "none"
    /\ clients # NilMap
    /\ inactive' = UNION {{clients[a][i] : i \in DOMAIN clients[a]} : a \in DOMAIN clients} \ up
    /\ UNCHANGED <<version, up, loadVars, clients, exportVars, reported>>

Next ==
    \/ \E w \in Watchers : ChangeConfig(w)
    \/ \E e \in Endpoints : Flip(e)
    \/ \E u \in Updaters :
        \/ StartLoad(u)
        \/ LoadFails(u)
        \/ \E a \in Arrays : ConnectEndpoint(u, a)
        \/ SetPowerMaxClients(u)
    \/ \E k \in Collectors : ExportMetrics(k)
    \/ \E err \in BOOLEAN : ExportReturns(err)
    \/ ValidatePowerMaxArrays

Spec == Init /\ [][Next]_vars

-----------------------------------------------------------------------------
\* What can be left of a list of at most two endpoints, in its order.
Sublists(l) == {<<>>, l} \cup {<<l[i]>> : i \in DOMAIN l}

\* m could have come from one load of configuration c: some of the endpoints
\* of every array in it, in c's order.
FromOneConfig(m, c) ==
    \A a \in DOMAIN m : m[a] # <<>> /\ m[a] \in Sublists(EndpointList(c, a))

\* m is nil, or one load of one of the first n configurations.
LoadedBy(n, m) == m = NilMap \/ \E v \in 1 .. n : FromOneConfig(m, Configs[v])

(***************************************************************************)
(* No reader ever sees a half-loaded or mixed map: the published map and   *)
(* every collector's snapshot hold what one load of one configuration      *)
(* found, whichever loads overlap and whichever endpoints come and go.     *)
(***************************************************************************)
NoMixedMap ==
    /\ LoadedBy(version, clients)
    /\ \A k \in Collectors : snapshot[k] # <<>> => LoadedBy(version, snapshot[k][1])

\* A load has in its map, and still has to try, endpoints that its own
\* configuration gives the array, in that order, whatever the others do.
LoadsFit ==
    \A u \in Updaters :
        /\ DOMAIN built[u] \subseteq Arrays
        /\ \A a \in DOMAIN built[u] : built[u][a] \in Seq(Endpoints) \ {<<>>}
        /\ loading[u] <= version
        /\ \A a \in Arrays :
              IF loading[u] = 0 THEN todo[u][a] = <<>>
              ELSE EntriesOf(built[u], a) \o todo[u][a]
                     \in Sublists(EndpointList(Configs[loading[u]], a))

\* A collection that runs has a map, and picked the first entries of it.
ExportFits ==
    exporting # "none" =>
        /\ exporting \in Collectors /\ snapshot[exporting] # <<>>
        /\ LET m == snapshot[exporting][1]
           IN  m # NilMap /\ \A a \in DOMAIN m : picked[a] = m[a][1]

(***************************************************************************)
(* The state is well formed and no reader sees a mixed map.  LoadsFit is   *)
(* what makes the map that SetPowerMaxClients publishes one load's, and    *)
(* ExportFits ties the clients in use to a snapshot; with them the         *)
(* invariant is inductive.                                                 *)
(***************************************************************************)
MapsInv == TypeOK /\ NoMixedMap /\ LoadsFit /\ ExportFits

(***************************************************************************)
(* A collection queries an array through the primary endpoint of the       *)
(* configuration it was loaded from, and through the secondary only if it  *)
(* is the one entry that the load could authenticate (GetPowerMaxClient    *)
(* over the order in which GetPowerMaxArrays appends).                     *)
(***************************************************************************)
PrimaryPreferred ==
    exporting # "none" =>
        LET m == snapshot[exporting][1]
        IN  \E v \in 1 .. version :
              /\ FromOneConfig(m, Configs[v])
              /\ \A a \in DOMAIN m : \A i \in DOMAIN m[a] :
                    picked[a] = Configs[v][a].primary \/ m[a][i] = picked[a]

(***************************************************************************)
(* "UpdatePowerMaxArraysOnSecretChanged updates PowerMax arrays when       *)
(* secrets change" (main.go:204): a collection that starts after a reload  *)
(* works with the reloaded arrays.                                         *)
(***************************************************************************)
CollectorsSeeReload ==
    [][\A k \in Collectors : ExportMetrics(k) => snapshot'[k] = <<clients>>]_vars

(***************************************************************************)
(* An array is reported as a success only if the client that its collection*)
(* used had not failed the last liveness probe.  "GetPowerMaxClient return *)
(* the first live PowerMaxClient" (base_metrics.go:63) makes a collection  *)
(* go on with another endpoint, and an array without one has the status    *)
(* "error" (service.go:118-119, record_obs_metrics_internal_test.go:53).   *)
(***************************************************************************)
SuccessMeansLive ==
    [][\A err \in BOOLEAN : ExportReturns(err) =>
         \A a \in DOMAIN picked \cap DOMAIN reported' :
            reported'[a] = "success" => picked[a] \notin inactive]_vars
=============================================================================
