------------------------ MODULE PowerMaxClientsProofs ------------------------
(***************************************************************************)
(* The map of array connections, for any arrays, endpoints, configurations *)
(* and numbers of loading goroutines and collectors.                       *)
(***************************************************************************)
EXTENDS PowerMaxClients, TLAPS

(***************************************************************************)
(* Lists of endpoints                                                      *)
(***************************************************************************)

\* EndpointList gives at most two endpoints, the primary first.
LEMMA EndpointListType ==
    ASSUME NEW v \in 1 .. Len(Configs), NEW a
    PROVE  LET l == EndpointList(Configs[v], a)
           IN  /\ l \in Seq(Endpoints) /\ Len(l) <= 2
               /\ l # <<>> => l[1] = Configs[v][a].primary
<1>1. CASE a \notin DOMAIN Configs[v]
  BY <1>1 DEF EndpointList
<1>2. CASE a \in DOMAIN Configs[v]
  <2>1. /\ Configs[v][a].primary \in Endpoints
        /\ Configs[v][a].secondary \in Endpoints \cup {NoEndpoint}
    BY <1>2, ConfigsAssumption
  <2> QED
    BY <1>2, <2>1 DEF EndpointList
<1> QED
  BY <1>1, <1>2

\* Moving the next endpoint from the list to the map changes nothing of both.
LEMMA AppendHead ==
    ASSUME NEW S, NEW b \in Seq(S), NEW t \in Seq(S), t # <<>>
    PROVE  Append(b, Head(t)) \o Tail(t) = b \o t
<1> DEFINE x == Append(b, Head(t)) \o Tail(t)
           y == b \o t
<1>1. x \in Seq(S) /\ y \in Seq(S) /\ Len(x) = Len(b) + Len(t) /\ Len(y) = Len(b) + Len(t)
  OBVIOUS
<1>2. \A i \in 1 .. Len(x) : x[i] = y[i]
  OBVIOUS
<1> QED
  BY <1>1, <1>2

\* Leaving the next endpoint out leaves a sublist of the configured ones.
LEMMA DropHead ==
    ASSUME NEW S, NEW l \in Seq(S), Len(l) <= 2,
           NEW b \in Seq(S), NEW t \in Seq(S), t # <<>>, b \o t \in Sublists(l)
    PROVE  b \o Tail(t) \in Sublists(l)
<1> DEFINE x == b \o t
           y == b \o Tail(t)
<1>1. /\ x \in Seq(S) /\ y \in Seq(S) /\ Len(t) > 0
      /\ Len(x) = Len(b) + Len(t) /\ Len(y) = Len(x) - 1
  OBVIOUS
<1>2. \A i \in 1 .. Len(y) : y[i] = IF i <= Len(b) THEN x[i] ELSE x[i + 1]
  OBVIOUS
<1> HIDE DEF x, y
<1>3. x = l \/ Len(x) = 1
  <2>1. x \in {<<>>, l} \/ \E i \in DOMAIN l : x = <<l[i]>>
    BY DEF Sublists, x
  <2>2. x # <<>>
    BY <1>1
  <2>3. CASE \E i \in DOMAIN l : x = <<l[i]>>
    <3>1. PICK i \in DOMAIN l : x = <<l[i]>>
      BY <2>3
    <3> QED
      BY <3>1
  <2> QED
    BY <2>1, <2>2, <2>3
<1>4. CASE Len(x) = 1
  <2>1. y = <<>>
    BY <1>1, <1>4
  <2> QED
    BY <2>1 DEF Sublists, y
<1>5. CASE x = l /\ Len(x) = 2
  <2>1. Len(y) = 1 /\ 1 \in DOMAIN l /\ 2 \in DOMAIN l
    <3>1. Len(x) = 2 /\ Len(l) = 2 /\ Len(y) = Len(x) - 1
      BY <1>1, <1>5, Zenon
    <3> QED
      BY <3>1
  <2>2. y[1] = l[1] \/ y[1] = l[2]
    BY <1>2, <1>5, <2>1
  <2>3. y = <<y[1]>>
    BY <1>1, <2>1
  <2> QED
    BY <2>1, <2>2, <2>3 DEF Sublists, y
<1> QED
  BY <1>1, <1>3, <1>4, <1>5

\* What a load may have found of an array: endpoints, and the primary first
\* unless there is only one.
LEMMA SublistFits ==
    ASSUME NEW v \in 1 .. Len(Configs), NEW a,
           NEW x \in Sublists(EndpointList(Configs[v], a))
    PROVE  /\ \A i \in DOMAIN x : x[i] \in Endpoints
           /\ x # <<>> => \A i \in DOMAIN x : x[1] = Configs[v][a].primary \/ x[i] = x[1]
<1> DEFINE l == EndpointList(Configs[v], a)
<1>1. l \in Seq(Endpoints) /\ (l # <<>> => l[1] = Configs[v][a].primary)
  BY EndpointListType
<1>2. x \in {<<>>, l} \/ \E i \in DOMAIN l : x = <<l[i]>>
  BY DEF Sublists
<1> HIDE DEF l
<1>3. CASE x \in {<<>>, l}
  BY <1>1, <1>3
<1>4. CASE \E i \in DOMAIN l : x = <<l[i]>>
  <2>1. PICK j \in DOMAIN l : x = <<l[j]>>
    BY <1>4
  <2>2. DOMAIN x = {1} /\ x[1] \in Endpoints
    BY <1>1, <2>1
  <2> QED
    BY <2>2
<1> QED
  BY <1>2, <1>3, <1>4

(***************************************************************************)
(* The inductive invariant                                                 *)
(***************************************************************************)

\* A later version of the configuration only adds to what may be loaded.
LEMMA LoadedLater ==
    ASSUME NEW n \in Nat, NEW p \in Nat, n <= p, NEW m, LoadedBy(n, m)
    PROVE  LoadedBy(p, m)
  BY DEF LoadedBy

\* Before the first load there is no map to be mixed.
LEMMA MapsInit == Init => MapsInv
<1> SUFFICES ASSUME Init PROVE MapsInv
  OBVIOUS
<1>1. TypeOK
  BY ConfigsAssumption DEF Init, TypeOK, Updaters, EmptyMap
<1>2. NoMixedMap
  BY DEF Init, NoMixedMap, LoadedBy
<1>3. LoadsFit
  BY DEF Init, LoadsFit, EmptyMap
<1>4. ExportFits
  BY DEF Init, ExportFits
<1> QED
  BY <1>1, <1>2, <1>3, <1>4 DEF MapsInv

\* The steps of a load: each touches the list and the map of its goroutine only.
LEMMA StartLoadFits ==
    ASSUME MapsInv, NEW u \in Updaters, StartLoad(u)
    PROVE  TypeOK' /\ LoadsFit'
<1> USE DEF MapsInv
<1>1. version \in 1 .. Len(Configs) /\ version' = version
  BY DEF TypeOK, StartLoad
<1>2. \A a \in Arrays : EndpointList(Configs[version], a) \in Seq(Endpoints)
  BY <1>1, EndpointListType
<1>3. TypeOK'
  BY <1>1, <1>2 DEF TypeOK, StartLoad, exportVars, statusVars
<1>4. ASSUME NEW w \in Updaters, w # u
      PROVE  built'[w] = built[w] /\ loading'[w] = loading[w] /\ todo'[w] = todo[w]
  BY <1>4 DEF TypeOK, StartLoad
<1>5. /\ built'[u] = EmptyMap /\ loading'[u] = version
      /\ \A a \in Arrays : todo'[u][a] = EndpointList(Configs[version], a)
  BY DEF TypeOK, StartLoad
<1>6. /\ DOMAIN built'[u] = {}
      /\ \A a \in Arrays : EntriesOf(built'[u], a) = <<>>
  BY <1>5 DEF EmptyMap, EntriesOf
<1>7. \A a \in Arrays : EntriesOf(built'[u], a) \o todo'[u][a]
                           \in Sublists(EndpointList(Configs[loading'[u]], a))
  BY <1>2, <1>5, <1>6 DEF Sublists
<1>8. LoadsFit'
  BY <1>1, <1>4, <1>5, <1>6, <1>7 DEF LoadsFit
<1> QED
  BY <1>3, <1>8

\* An endpoint that connects moves to the map, one that fails is left out.
LEMMA ConnectFits ==
    ASSUME MapsInv, NEW u \in Updaters, NEW a \in Arrays, ConnectEndpoint(u, a)
    PROVE  TypeOK' /\ LoadsFit'
<1> DEFINE b == EntriesOf(built[u], a)
           t == todo[u][a]
           l == EndpointList(Configs[loading[u]], a)
<1> USE DEF MapsInv
<1>1. /\ t \in Seq(Endpoints) /\ t # <<>> /\ b \in Seq(Endpoints)
      /\ loading[u] \in 1 .. Len(Configs) /\ b \o t \in Sublists(l)
  BY DEF TypeOK, LoadsFit, ConnectEndpoint, EntriesOf
<1>2. l \in Seq(Endpoints) /\ Len(l) <= 2
  BY <1>1, EndpointListType
<1>3. /\ Tail(t) \in Seq(Endpoints) /\ Head(t) \in Endpoints
      /\ b \o Tail(t) \in Sublists(l)
      /\ Append(b, Head(t)) \o Tail(t) \in Sublists(l)
      /\ Append(b, Head(t)) \in Seq(Endpoints) \ {<<>>}
  <2> HIDE DEF b, t, l
  <2>1. /\ Tail(t) \in Seq(Endpoints) /\ Head(t) \in Endpoints
        /\ Append(b, Head(t)) \in Seq(Endpoints) \ {<<>>}
    BY <1>1
  <2>2. b \o Tail(t) \in Sublists(l)
    BY <1>1, <1>2, DropHead, Zenon
  <2>3. Append(b, Head(t)) \o Tail(t) = b \o t
    BY <1>1, AppendHead, Zenon
  <2> QED
    BY <1>1, <2>1, <2>2, <2>3, Zenon
<1>4. /\ version' = version /\ loading' = loading
      /\ todo' \in [Updaters -> [Arrays -> Seq(Endpoints)]] /\ todo'[u][a] = Tail(t)
      /\ \A c \in Arrays : c # a => todo'[u][c] = todo[u][c]
      /\ \A w \in Updaters : w # u => todo'[w] = todo[w] /\ built'[w] = built[w]
  BY <1>3 DEF TypeOK, ConnectEndpoint
<1>5. TypeOK'
  BY <1>4 DEF TypeOK, ConnectEndpoint, exportVars, statusVars
<1>6. /\ DOMAIN built'[u] \subseteq Arrays
      /\ \A c \in DOMAIN built'[u] : built'[u][c] \in Seq(Endpoints) \ {<<>>}
      /\ \A c \in Arrays : c # a => EntriesOf(built'[u], c) = EntriesOf(built[u], c)
      /\ EntriesOf(built'[u], a) \o Tail(t) \in Sublists(l)
  <2>1. CASE Head(t) \in up
    <3>1. built'[u] = AppendEntry(built[u], a, Head(t))
      BY <2>1 DEF TypeOK, ConnectEndpoint
    <3>2. /\ DOMAIN built'[u] = DOMAIN built[u] \cup {a}
          /\ built'[u][a] = Append(b, Head(t))
          /\ \A c \in DOMAIN built[u] : c # a => built'[u][c] = built[u][c]
      BY <3>1 DEF AppendEntry
    <3>3. EntriesOf(built'[u], a) = Append(b, Head(t))
      BY <3>2 DEF EntriesOf
    <3> QED
      BY <1>3, <3>2, <3>3 DEF LoadsFit, EntriesOf
  <2>2. CASE Head(t) \notin up
    <3>1. built' = built
      BY <2>2 DEF ConnectEndpoint
    <3> QED
      BY <1>3, <3>1 DEF LoadsFit
  <2> QED
    BY <2>1, <2>2
<1>7. LoadsFit'
  <2> SUFFICES ASSUME NEW w \in Updaters
               PROVE  /\ DOMAIN built'[w] \subseteq Arrays
                      /\ \A c \in DOMAIN built'[w] : built'[w][c] \in Seq(Endpoints) \ {<<>>}
                      /\ loading'[w] <= version'
                      /\ \A c \in Arrays :
                           IF loading'[w] = 0 THEN todo'[w][c] = <<>>
                           ELSE EntriesOf(built'[w], c) \o todo'[w][c]
                                  \in Sublists(EndpointList(Configs[loading'[w]], c))
    BY DEF LoadsFit
  <2>1. CASE w = u
    BY <1>1, <1>4, <1>6, <2>1 DEF LoadsFit
  <2>2. CASE w # u
    BY <1>4, <2>2 DEF LoadsFit
  <2> QED
    BY <2>1, <2>2
<1> QED
  BY <1>5, <1>7

\* What SetPowerMaxClients publishes is one load.
LEMMA PublishFits ==
    ASSUME MapsInv, NEW u \in Updaters, SetPowerMaxClients(u)
    PROVE  TypeOK' /\ LoadsFit' /\ LoadedBy(version, clients')
<1> USE DEF MapsInv
<1>1. loading[u] \in 1 .. version
  BY DEF TypeOK, LoadsFit, SetPowerMaxClients
<1>2. FromOneConfig(built[u], Configs[loading[u]])
  <2> SUFFICES ASSUME NEW a \in DOMAIN built[u]
               PROVE  /\ built[u][a] # <<>>
                      /\ built[u][a] \in Sublists(EndpointList(Configs[loading[u]], a))
    BY DEF FromOneConfig
  <2>1. /\ a \in Arrays /\ built[u][a] \in Seq(Endpoints) \ {<<>>}
        /\ todo[u][a] = <<>> /\ EntriesOf(built[u], a) = built[u][a]
    BY DEF LoadsFit, SetPowerMaxClients, EntriesOf
  <2>2. built[u][a] \o <<>> = built[u][a]
    BY <2>1
  <2>3. EntriesOf(built[u], a) \o todo[u][a]
          \in Sublists(EndpointList(Configs[loading[u]], a))
    BY <2>1 DEF LoadsFit, SetPowerMaxClients
  <2> QED
    BY <2>1, <2>2, <2>3, Zenon
<1>3. LoadedBy(version, clients')
  BY <1>1, <1>2 DEF LoadedBy, SetPowerMaxClients
<1>4. TypeOK'
  BY DEF TypeOK, LoadsFit, SetPowerMaxClients, exportVars
<1>5. LoadsFit'
  BY DEF TypeOK, LoadsFit, SetPowerMaxClients
<1> QED
  BY <1>3, <1>4, <1>5

\* An export takes a loaded map and the first entries of it.
LEMMA ExportKeeps ==
    ASSUME MapsInv, NEW k \in Collectors, ExportMetrics(k)
    PROVE  NoMixedMap' /\ ExportFits'
<1> DEFINE m == InstanceClients(k)
<1> USE DEF MapsInv
<1>1. /\ version' = version /\ clients' = clients
      /\ DOMAIN snapshot = Collectors /\ snapshot'[k] = <<m>>
      /\ \A c \in Collectors : c # k => snapshot'[c] = snapshot[c]
  BY DEF TypeOK, ExportMetrics
<1>2. LoadedBy(version, m)
  BY DEF NoMixedMap, InstanceClients
<1>3. snapshot'[k] # <<>> /\ snapshot'[k][1] = m
  BY <1>1
<1> HIDE DEF m
<1>4. NoMixedMap'
  BY <1>1, <1>2, <1>3 DEF NoMixedMap
<1>5. ExportFits'
  <2>1. CASE m = NilMap
    BY <2>1 DEF ExportMetrics, ExportFits, m
  <2>2. CASE m # NilMap
    <3>1. /\ exporting' = k
          /\ picked' = [a \in {b \in DOMAIN m : m[b] # <<>>} |-> m[a][1]]
      BY <2>2 DEF ExportMetrics, GetPowerMaxClient, m
    <3>2. \A a \in DOMAIN m : m[a] # <<>>
      BY <1>2, <2>2 DEF LoadedBy, FromOneConfig
    <3>3. \A a \in DOMAIN m : picked'[a] = m[a][1]
      BY <3>1, <3>2
    <3> QED
      BY <1>3, <2>2, <3>1, <3>3 DEF ExportFits
  <2> QED
    BY <2>1, <2>2
<1> QED
  BY <1>4, <1>5

\* The arrays of the report are those of the published map.
LEMMA ReportedArrays ==
    ASSUME TypeOK, NEW err \in BOOLEAN, RecordObsMetrics(err)
    PROVE  DOMAIN reported' \subseteq Arrays
  BY DEF TypeOK, RecordObsMetrics

\* Every step preserves the invariant.
LEMMA MapsStep == MapsInv /\ [Next]_vars => MapsInv'
<1> SUFFICES ASSUME MapsInv, [Next]_vars
             PROVE  MapsInv'
  OBVIOUS
<1> USE DEF MapsInv
<1>0. version \in Nat
  BY DEF TypeOK
<1>1. ASSUME NEW w \in Watchers, ChangeConfig(w)
      PROVE  MapsInv'
  <2>1. /\ version' = version + 1 /\ version' \in 1 .. Len(Configs)
        /\ UNCHANGED <<loading, todo, built, clients, snapshot, exporting, picked>>
    BY <1>1, ConfigsAssumption DEF ChangeConfig, TypeOK, exportVars
  <2>2. TypeOK'
    BY <1>1, <2>1 DEF ChangeConfig, TypeOK, Updaters, exportVars, statusVars
  <2>3. NoMixedMap'
    BY <1>0, <2>1, LoadedLater DEF NoMixedMap
  <2>4. LoadsFit'
    BY <1>0, <2>1 DEF LoadsFit, TypeOK
  <2>5. ExportFits'
    BY <2>1 DEF ExportFits
  <2> QED
    BY <2>2, <2>3, <2>4, <2>5
<1>2. ASSUME NEW e \in Endpoints, Flip(e)
      PROVE  MapsInv'
  BY <1>2 DEF Flip, TypeOK, NoMixedMap, LoadsFit, ExportFits, loadVars, exportVars, statusVars
<1>3. ASSUME NEW u \in Updaters, StartLoad(u)
      PROVE  MapsInv'
  <2>1. TypeOK' /\ LoadsFit'
    BY <1>3, StartLoadFits
  <2>2. NoMixedMap' /\ ExportFits'
    BY <1>3 DEF StartLoad, NoMixedMap, ExportFits, exportVars
  <2> QED
    BY <2>1, <2>2
<1>4. ASSUME NEW u \in Updaters, LoadFails(u)
      PROVE  MapsInv'
  BY <1>4 DEF LoadFails, TypeOK, NoMixedMap, LoadsFit, ExportFits, exportVars, statusVars
<1>5. ASSUME NEW u \in Updaters, NEW a \in Arrays, ConnectEndpoint(u, a)
      PROVE  MapsInv'
  <2>1. TypeOK' /\ LoadsFit'
    BY <1>5, ConnectFits
  <2>2. NoMixedMap' /\ ExportFits'
    BY <1>5 DEF ConnectEndpoint, NoMixedMap, ExportFits, exportVars
  <2> QED
    BY <2>1, <2>2
<1>6. ASSUME NEW u \in Updaters, SetPowerMaxClients(u)
      PROVE  MapsInv'
  <2>1. TypeOK' /\ LoadsFit' /\ LoadedBy(version, clients')
    BY <1>6, PublishFits
  <2>2. NoMixedMap' /\ ExportFits'
    BY <1>6, <2>1 DEF SetPowerMaxClients, NoMixedMap, ExportFits, exportVars
  <2> QED
    BY <2>1, <2>2
<1>7. ASSUME NEW k \in Collectors, ExportMetrics(k)
      PROVE  MapsInv'
  <2>1. NoMixedMap' /\ ExportFits'
    BY <1>7, ExportKeeps
  <2>2. DOMAIN reported' \subseteq Arrays
    BY <1>7, ReportedArrays DEF ExportMetrics, TypeOK
  <2>3. DOMAIN snapshot' = Collectors /\ exporting' \in Collectors \cup {"none"}
    BY <1>7 DEF ExportMetrics, TypeOK
  <2>4. TypeOK' /\ LoadsFit'
    BY <1>7, <2>2, <2>3 DEF ExportMetrics, TypeOK, LoadsFit, loadVars
  <2> QED
    BY <2>1, <2>4
<1>8. ASSUME NEW err \in BOOLEAN, ExportReturns(err)
      PROVE  MapsInv'
  <2>1. DOMAIN reported' \subseteq Arrays
    BY <1>8, ReportedArrays DEF ExportReturns
  <2> QED
    BY <1>8, <2>1 DEF ExportReturns, TypeOK, NoMixedMap, LoadsFit, ExportFits, loadVars
<1>9. CASE ValidatePowerMaxArrays
  <2>1. PICK v \in 1 .. version : FromOneConfig(clients, Configs[v])
    BY <1>9 DEF ValidatePowerMaxArrays, NoMixedMap, LoadedBy
  <2>2. v \in 1 .. Len(Configs)
    BY DEF TypeOK
  <2>3. ASSUME NEW a \in DOMAIN clients, NEW i \in DOMAIN clients[a]
        PROVE  clients[a][i] \in Endpoints
    <3>1. clients[a] \in Sublists(EndpointList(Configs[v], a))
      BY <2>1 DEF FromOneConfig
    <3> QED
      BY <2>2, <3>1, SublistFits
  <2>4. inactive' \subseteq Endpoints
    BY <1>9, <2>3 DEF ValidatePowerMaxArrays
  <2> QED
    BY <1>9, <2>4 DEF ValidatePowerMaxArrays, TypeOK, NoMixedMap, LoadsFit, ExportFits,
                      loadVars, exportVars
<1>10. CASE UNCHANGED vars
  BY <1>10 DEF vars, TypeOK, NoMixedMap, LoadsFit, ExportFits, loadVars, exportVars, statusVars
<1> QED
  BY <1>1, <1>2, <1>3, <1>4, <1>5, <1>6, <1>7, <1>8, <1>9, <1>10 DEF Next

(***************************************************************************)
(* Published maps and snapshots each come from one load of one             *)
(* configuration (SetPowerMaxClients, GetPowerMaxClients), for any overlap *)
(* of loads, endpoint failures, probes and collections.                    *)
(***************************************************************************)
THEOREM MapsInvariant == Spec => []MapsInv
  BY MapsInit, MapsStep, PTL DEF Spec

(***************************************************************************)
(* GetPowerMaxClient gives a collection the primary endpoint, or the only  *)
(* one its load could authenticate.                                        *)
(***************************************************************************)
THEOREM PrimaryIsPreferred == Spec => []PrimaryPreferred
<1>1. MapsInv => PrimaryPreferred
  <2> SUFFICES ASSUME MapsInv, exporting # "none"
               PROVE  LET m == snapshot[exporting][1]
                      IN  \E v \in 1 .. version :
                            /\ FromOneConfig(m, Configs[v])
                            /\ \A a \in DOMAIN m : \A i \in DOMAIN m[a] :
                                 picked[a] = Configs[v][a].primary \/ m[a][i] = picked[a]
    BY DEF PrimaryPreferred
  <2> DEFINE m == snapshot[exporting][1]
  <2>1. /\ LoadedBy(version, m) /\ m # NilMap
        /\ \A a \in DOMAIN m : picked[a] = m[a][1]
    BY DEF MapsInv, ExportFits, NoMixedMap
  <2>2. PICK v \in 1 .. version : FromOneConfig(m, Configs[v])
    BY <2>1 DEF LoadedBy
  <2>3. v \in 1 .. Len(Configs)
    BY DEF MapsInv, TypeOK
  <2>4. ASSUME NEW a \in DOMAIN m, NEW i \in DOMAIN m[a]
        PROVE  picked[a] = Configs[v][a].primary \/ m[a][i] = picked[a]
    <3>1. m[a] # <<>> /\ m[a] \in Sublists(EndpointList(Configs[v], a)) /\ picked[a] = m[a][1]
      BY <2>1, <2>2 DEF FromOneConfig
    <3> HIDE DEF m
    <3>2. m[a][1] = Configs[v][a].primary \/ m[a][i] = m[a][1]
      BY <2>3, <3>1, SublistFits
    <3> QED
      BY <3>1, <3>2
  <2> QED
    BY <2>2, <2>4
<1> QED
  BY <1>1, MapsInvariant, PTL
=============================================================================
