-------------------------- MODULE CapacitySumsProofs --------------------------
(***************************************************************************)
(* The sums of a capacity collection are those of the records it received, *)
(* at every level and in whatever order the records arrive.                *)
(*                                                                         *)
(* The first part shows what SumOver computes on a finite set.  Induction  *)
(* is done by way of a smallest counterexample (SmallestSubset), because   *)
(* it needs no operator to be instantiated.                                *)
(***************************************************************************)
EXTENDS CapacityMetricsProofs, WellFoundedInduction

\* The element that a sum over s takes first.
First(s) == CHOOSE x \in s : TRUE

\* f gives every subset of S the sum of what g gives its elements.
IsSum(f, g, S) ==
    f = [s \in SUBSET S |-> IF s = {} THEN 0 ELSE g[First(s)] + f[s \ {First(s)}]]

PartialSums(g, S) == CHOOSE f : IsSum(f, g, S)

\* SumOver is the fold that FiniteSetsExt defines by such a function.
LEMMA SumOverFold == ASSUME NEW g, NEW S PROVE SumOver(g, S) = PartialSums(g, S)[S]
  BY DEF SumOver, MapThenSumSet, MapThenFoldSet, PartialSums, IsSum, First

\* The first element of a set that is not empty.
LEMMA FirstIn == ASSUME NEW s, s # {} PROVE First(s) \in s
  BY DEF First

\* A set of subsets of a finite set has a member of which no other is a subset.
LEMMA SmallestSubset ==
    ASSUME NEW S, IsFiniteSet(S), NEW B \in SUBSET SUBSET S, B # {}
    PROVE  \E s \in B : \A t \in B : t \subseteq s => t = s
<1>1. IsWellFoundedOn(StrictSubsetOrdering(S), SUBSET S)
  BY FS_StrictSubsetOrderingWellFounded, FS_FiniteSubsetsOfFinite
<1>2. PICK s \in B : \A t \in B : ~(<<t, s>> \in StrictSubsetOrdering(S))
  BY <1>1, WFMin
<1> QED
  BY <1>2 DEF StrictSubsetOrdering

\* Two such functions agree where both are defined.
LEMMA SumUnique ==
    ASSUME NEW S, IsFiniteSet(S), NEW T \in SUBSET S, NEW f, NEW h, NEW g,
           IsSum(f, g, S), IsSum(h, g, T)
    PROVE  \A s \in SUBSET T : f[s] = h[s]
<1> DEFINE B == {s \in SUBSET T : f[s] # h[s]}
<1> SUFFICES ASSUME B # {} PROVE FALSE
  OBVIOUS
<1>1. IsFiniteSet(T)
  BY FS_Subset
<1>2. PICK s \in B : \A t \in B : t \subseteq s => t = s
  <2>1. B \in SUBSET SUBSET T
    OBVIOUS
  <2> HIDE DEF B
  <2> QED
    BY <1>1, <2>1, SmallestSubset
<1>3. s # {}
  BY <1>2 DEF IsSum
<1>4. First(s) \in s /\ s \ {First(s)} \notin B
  BY <1>2, <1>3, FirstIn
<1>5. f[s] = g[First(s)] + f[s \ {First(s)}] /\ h[s] = g[First(s)] + h[s \ {First(s)}]
  BY <1>3 DEF IsSum
<1> QED
  BY <1>4, <1>5

\* There is one for every finite set.
LEMMA SumExists == ASSUME NEW S, IsFiniteSet(S), NEW g PROVE \E f : IsSum(f, g, S)
<1> DEFINE B == {T \in SUBSET S : ~\E f : IsSum(f, g, T)}
<1> SUFFICES ASSUME B # {} PROVE FALSE
  OBVIOUS
<1>1. PICK T \in B : \A U \in B : U \subseteq T => U = T
  <2>1. B \in SUBSET SUBSET S
    OBVIOUS
  <2> HIDE DEF B
  <2> QED
    BY <2>1, SmallestSubset
<1>2. \A U \in SUBSET T : U # T => IsFiniteSet(U) /\ IsSum(PartialSums(g, U), g, U)
  <2> SUFFICES ASSUME NEW U \in SUBSET T, U # T
               PROVE  IsFiniteSet(U) /\ IsSum(PartialSums(g, U), g, U)
    OBVIOUS
  <2>1. \E f : IsSum(f, g, U)
    BY <1>1
  <2> QED
    BY <2>1, FS_Subset DEF PartialSums
<1> DEFINE value(s) == IF s = {} THEN 0
                       ELSE g[First(s)] + PartialSums(g, s \ {First(s)})[s \ {First(s)}]
           f == [s \in SUBSET T |-> value(s)]
<1>3. ASSUME NEW s \in SUBSET T, s # T PROVE PartialSums(g, s)[s] = value(s)
  <2>1. CASE s = {}
    BY <1>2, <1>3, <2>1 DEF IsSum
  <2>2. CASE s # {}
    <3> DEFINE rest == s \ {First(s)}
    <3>1. rest \in SUBSET s /\ rest # T /\ s \in SUBSET s
      BY <2>2, FirstIn
    <3>2. PartialSums(g, s)[s] = g[First(s)] + PartialSums(g, s)[rest]
      BY <1>2, <1>3, <2>2, <3>1 DEF IsSum
    <3>3. PartialSums(g, s)[rest] = PartialSums(g, rest)[rest]
      BY <1>2, <1>3, <3>1, SumUnique
    <3> QED
      BY <2>2, <3>2, <3>3
  <2> QED
    BY <2>1, <2>2
<1>4. ASSUME NEW s \in SUBSET T, s # {} PROVE f[s] = g[First(s)] + f[s \ {First(s)}]
  <2>1. First(s) \in s
    BY <1>4, FirstIn
  <2>2. s \ {First(s)} \in SUBSET T /\ s \ {First(s)} # T
    BY <2>1
  <2> QED
    BY <1>3, <1>4, <2>2
<1>5. IsSum(f, g, T)
  BY <1>4 DEF IsSum
<1> QED
  BY <1>1, <1>5

\* What SumOver computes: nothing for no record ...
LEMMA SumOverEmpty == ASSUME NEW g PROVE SumOver(g, {}) = 0
<1>1. IsSum(PartialSums(g, {}), g, {})
  BY SumExists, FS_EmptySet DEF PartialSums
<1> QED
  BY <1>1, SumOverFold DEF IsSum

\* ... and else the first record and the sum of the others.
LEMMA SumOverFirst ==
    ASSUME NEW g, NEW S, IsFiniteSet(S), S # {}
    PROVE  /\ First(S) \in S
           /\ SumOver(g, S) = g[First(S)] + SumOver(g, S \ {First(S)})
<1> DEFINE rest == S \ {First(S)}
<1>1. First(S) \in S /\ rest \in SUBSET S /\ IsFiniteSet(rest)
  BY FirstIn, FS_Subset
<1>2. IsSum(PartialSums(g, S), g, S) /\ IsSum(PartialSums(g, rest), g, rest)
  BY <1>1, SumExists DEF PartialSums
<1>3. PartialSums(g, S)[rest] = PartialSums(g, rest)[rest]
  BY <1>1, <1>2, SumUnique
<1>4. PartialSums(g, S)[S] = g[First(S)] + PartialSums(g, S)[rest]
  BY <1>2 DEF IsSum
<1> QED
  BY <1>1, <1>3, <1>4, SumOverFold

\* The sum of natural numbers is one.
LEMMA SumOverNat ==
    ASSUME NEW D, NEW g \in [D -> Nat], NEW S \in SUBSET D, IsFiniteSet(S)
    PROVE  SumOver(g, S) \in Nat
<1> DEFINE B == {T \in SUBSET S : SumOver(g, T) \notin Nat}
<1> SUFFICES ASSUME B # {} PROVE FALSE
  OBVIOUS
<1>1. PICK T \in B : \A U \in B : U \subseteq T => U = T
  <2>1. B \in SUBSET SUBSET S
    OBVIOUS
  <2> HIDE DEF B
  <2> QED
    BY <2>1, SmallestSubset
<1>2. T # {} /\ IsFiniteSet(T)
  <2>1. SumOver(g, {}) \in Nat
    BY SumOverEmpty
  <2>2. IsFiniteSet(T)
    BY <1>1, FS_Subset
  <2> QED
    BY <1>1, <2>1, <2>2
<1>3. First(T) \in T /\ SumOver(g, T) = g[First(T)] + SumOver(g, T \ {First(T)})
  BY <1>2, SumOverFirst
<1>4. SumOver(g, T \ {First(T)}) \in Nat
  BY <1>1, <1>3
<1> QED
  BY <1>1, <1>3, <1>4

\* A record that is added to others adds its value, whichever is summed first.
LEMMA SumOverAdd ==
    ASSUME NEW D, NEW g \in [D -> Nat], NEW S \in SUBSET D, IsFiniteSet(S),
           NEW x \in D \ S
    PROVE  SumOver(g, S \cup {x}) = g[x] + SumOver(g, S)
<1> DEFINE Adds(T) == \A y \in D \ T : SumOver(g, T \cup {y}) = g[y] + SumOver(g, T)
           B == {T \in SUBSET S : ~Adds(T)}
<1> SUFFICES ASSUME B # {} PROVE FALSE
  OBVIOUS
<1>1. PICK T \in B : \A U \in B : U \subseteq T => U = T
  <2>1. B \in SUBSET SUBSET S
    OBVIOUS
  <2> HIDE DEF B
  <2> QED
    BY <2>1, SmallestSubset
<1>2. IsFiniteSet(T) /\ T \in SUBSET D
  BY <1>1, FS_Subset
<1>3. PICK y \in D \ T : SumOver(g, T \cup {y}) # g[y] + SumOver(g, T)
  BY <1>1
<1> DEFINE c == First(T \cup {y})
           rest == T \ {c}
<1>4. /\ c \in T \cup {y}
      /\ SumOver(g, T \cup {y}) = g[c] + SumOver(g, (T \cup {y}) \ {c})
  BY <1>2, FS_AddElement, SumOverFirst
<1>5. c # y
  <2> SUFFICES ASSUME c = y PROVE FALSE
    OBVIOUS
  <2>1. (T \cup {y}) \ {c} = T
    BY <1>3
  <2> QED
    BY <1>3, <1>4, <2>1
<1>6. c \in T /\ rest \in SUBSET T /\ rest # T /\ (T \cup {y}) \ {c} = rest \cup {y}
  BY <1>3, <1>4, <1>5
<1>7. Adds(rest)
  BY <1>1, <1>6
<1>8. SumOver(g, rest \cup {y}) = g[y] + SumOver(g, rest)
  BY <1>3, <1>7
<1>9. SumOver(g, T) = g[c] + SumOver(g, rest)
  <2>1. T = rest \cup {c} /\ c \in D \ rest
    BY <1>2, <1>6
  <2> HIDE DEF c, rest
  <2> QED
    BY <1>7, <2>1
<1>10. SumOver(g, rest) \in Nat /\ g[c] \in Nat /\ g[y] \in Nat
  BY <1>2, <1>3, <1>6, SumOverNat, FS_Subset
<1>11. SumOver(g, T \cup {y}) = g[c] + (g[y] + SumOver(g, rest))
  BY <1>4, <1>6, <1>8
<1> HIDE DEF c, rest
<1> QED
  BY <1>3, <1>9, <1>10, <1>11

-----------------------------------------------------------------------------
(* The sums of the pusher *)

Records == Volumes \cup {Empty}

\* A metric record, as cumulate keeps it.
Sums == [array : Arrays \cup {NoArray}, total : Nat, used : Nat]

\* The keys at level l of the records received so far.
KeysOf(l, S) == {Key(l, r) : r \in S}

\* The maps are well typed, with the keys of the records received.
SumsTyped == \A l \in Levels : sums[l] \in [KeysOf(l, received) -> Sums]

\* A record has an amount in total and in use, both naturals.
LEMMA MetricType ==
    /\ IsFiniteSet(Records)
    /\ TotalOf \in [Records -> Nat] /\ UsedOf \in [Records -> Nat]
    /\ \A r \in Records : /\ Metric(r) \in Sums
                          /\ Metric(r).total = TotalOf[r] /\ Metric(r).used = UsedOf[r]
<1>1. IsFiniteSet(Records)
  BY VolumesAssumption, FS_AddElement DEF Records
<1>2. \A r \in Records : Metric(r) \in Sums
  BY VolumesAssumption DEF Records, Metric, Sums, Arrays
<1>3. \A r \in Records : Metric(r).total \in Nat /\ Metric(r).used \in Nat
  BY <1>2 DEF Sums
<1>4. TotalOf \in [Records -> Nat] /\ UsedOf \in [Records -> Nat]
  BY <1>3 DEF TotalOf, UsedOf, Records
<1> QED
  BY <1>1, <1>2, <1>4 DEF TotalOf, UsedOf, Records

\* What cumulate makes of the map f with domain d: the entry of the key k is
\* made or grows, the others stay.
Grown(d, f, k, metric, cumulated) ==
    /\ cumulated \in [d \cup {k} -> Sums]
    /\ \A j \in d : j # k => cumulated[j] = f[j]
    /\ k \notin d => cumulated[k] = metric
    /\ k \in d => /\ cumulated[k].array = f[k].array
                  /\ cumulated[k].total = f[k].total + metric.total
                  /\ cumulated[k].used = f[k].used + metric.used

\* cumulate does just that.
LEMMA CumulateResult ==
    ASSUME NEW D, NEW m \in [D -> Sums], NEW k, NEW metric \in Sums
    PROVE  Grown(D, m, k, metric, Cumulate(m, k, metric))
<1>1. CASE k \notin D
  BY <1>1 DEF Cumulate, Grown
<1>2. CASE k \in D
  <2> DEFINE first == [m EXCEPT ![k].total = @ + metric.total]
             after == [first EXCEPT ![k].used = @ + metric.used]
  <2>1. m[k] \in Sums /\ DOMAIN m = D /\ metric.total \in Nat /\ metric.used \in Nat
    BY <1>2 DEF Sums
  <2>2. /\ first \in [D -> Sums]
        /\ \A j \in D : j # k => first[j] = m[j]
        /\ first[k].array = m[k].array /\ first[k].used = m[k].used
        /\ first[k].total = m[k].total + metric.total
    BY <1>2, <2>1 DEF Sums
  <2>3. /\ after \in [D -> Sums]
        /\ \A j \in D : j # k => after[j] = m[j]
        /\ after[k].array = m[k].array /\ after[k].used = m[k].used + metric.used
        /\ after[k].total = m[k].total + metric.total
    <3> HIDE DEF first
    <3> QED
      BY <1>2, <2>1, <2>2 DEF Sums
  <2>4. Cumulate(m, k, metric) = after
    BY <1>2, <2>1 DEF Cumulate
  <2>5. D \cup {k} = D
    BY <1>2
  <2> QED
    <3> HIDE DEF after
    <3> QED
      BY <1>2, <2>3, <2>4, <2>5 DEF Grown
<1> QED
  BY <1>1, <1>2

\* The records in S with key k at level l.
Own(l, k, S) == {r \in S : Key(l, r) = k}

\* The entry m of a key is the sum of its records.
Matches(m, own) ==
    /\ m.total = SumOver(TotalOf, own)
    /\ m.used = SumOver(UsedOf, own)
    /\ m.array \in {Metric(r).array : r \in own}

\* SumsMatchRecords, key by key.
LEMMA SumsMatchMeans ==
    SumsMatchRecords <=>
        \A l \in Levels : /\ DOMAIN sums[l] = KeysOf(l, received)
                          /\ \A k \in DOMAIN sums[l] : Matches(sums[l][k], Own(l, k, received))
  BY DEF SumsMatchRecords, KeysOf, Matches, Own

\* A received record joins the sum of its key and no other.
LEMMA CumulateMatches ==
    ASSUME NEW l \in Levels, NEW S \in SUBSET Records, NEW r \in Records \ S,
           NEW m \in [KeysOf(l, S) -> Sums],
           \A k \in KeysOf(l, S) : Matches(m[k], Own(l, k, S))
    PROVE  LET after == Cumulate(m, Key(l, r), Metric(r))
           IN  /\ after \in [KeysOf(l, S \cup {r}) -> Sums]
               /\ \A k \in KeysOf(l, S \cup {r}) : Matches(after[k], Own(l, k, S \cup {r}))
<1> DEFINE key == Key(l, r)
           D == KeysOf(l, S)
           after == Cumulate(m, key, Metric(r))
<1>1. KeysOf(l, S \cup {r}) = D \cup {key}
  BY DEF KeysOf
<1>2. /\ after \in [D \cup {key} -> Sums]
      /\ \A j \in D : j # key => after[j] = m[j]
      /\ key \notin D => after[key] = Metric(r)
      /\ key \in D => /\ after[key].array = m[key].array
                      /\ after[key].total = m[key].total + Metric(r).total
                      /\ after[key].used = m[key].used + Metric(r).used
  <2>1. Metric(r) \in Sums /\ m \in [D -> Sums]
    BY MetricType
  <2> HIDE DEF D, key
  <2>2. Grown(D, m, key, Metric(r), after)
    BY <2>1, CumulateResult, Zenon
  <2> QED
    BY <2>2 DEF Grown
<1>3. ASSUME NEW k \in D, k # key PROVE Matches(after[k], Own(l, k, S \cup {r}))
  <2>1. Own(l, k, S \cup {r}) = Own(l, k, S)
    BY <1>3 DEF Own
  <2> QED
    BY <1>2, <1>3, <2>1
<1>4. Matches(after[key], Own(l, key, S \cup {r}))
  <2> DEFINE own == Own(l, key, S)
  <2>1. /\ Own(l, key, S \cup {r}) = own \cup {r}
        /\ own \in SUBSET Records /\ r \in Records \ own
    BY DEF Own
  <2>2. IsFiniteSet(own)
    BY <2>1, MetricType, FS_Subset
  <2>3. /\ SumOver(TotalOf, own \cup {r}) = TotalOf[r] + SumOver(TotalOf, own)
        /\ SumOver(UsedOf, own \cup {r}) = UsedOf[r] + SumOver(UsedOf, own)
        /\ SumOver(TotalOf, own) \in Nat /\ SumOver(UsedOf, own) \in Nat
        /\ TotalOf[r] \in Nat /\ UsedOf[r] \in Nat
    <3> HIDE DEF own
    <3> QED
      BY <2>1, <2>2, MetricType, SumOverAdd, SumOverNat
  <2>4. Metric(r).array \in {Metric(q).array : q \in own \cup {r}}
    OBVIOUS
  <2>5. CASE key \notin D
    <3>1. own = {}
      BY <2>5 DEF Own, KeysOf
    <3>2. SumOver(TotalOf, own) = 0 /\ SumOver(UsedOf, own) = 0
      BY <3>1, SumOverEmpty
    <3>3. Metric(r).total = TotalOf[r] /\ Metric(r).used = UsedOf[r]
      BY MetricType
    <3> HIDE DEF own, D, key, after
    <3>4. Matches(after[key], own \cup {r})
      BY <1>2, <2>3, <2>4, <2>5, <3>2, <3>3 DEF Matches
    <3> QED
      BY <2>1, <3>4
  <2>6. CASE key \in D
    <3>1. Matches(m[key], own)
      BY <2>6
    <3>2. m[key].array \in {Metric(q).array : q \in own \cup {r}}
      BY <3>1 DEF Matches
    <3>3. Metric(r).total = TotalOf[r] /\ Metric(r).used = UsedOf[r]
      BY MetricType
    <3> HIDE DEF own, D, key, after
    <3>4. Matches(after[key], own \cup {r})
      BY <1>2, <2>3, <2>6, <3>1, <3>2, <3>3 DEF Matches
    <3> QED
      BY <2>1, <3>4
  <2> QED
    BY <2>5, <2>6
<1> HIDE DEF D, key, after
<1>5. \A k \in D \cup {key} : Matches(after[k], Own(l, k, S \cup {r}))
  BY <1>3, <1>4
<1> QED
  BY <1>1, <1>2, <1>5 DEF after, key

\* Receiving a new record keeps the sums right at every level.
LEMMA ReceiveMatches ==
    ASSUME SumsTyped, SumsMatchRecords, received \subseteq Records,
           NEW r \in Records \ received, Receive(r)
    PROVE  SumsTyped' /\ SumsMatchRecords'
<1>1. received' = received \cup {r}
      /\ \A l \in Levels : sums'[l] = Cumulate(sums[l], Key(l, r), Metric(r))
  BY DEF Receive
<1>2. ASSUME NEW l \in Levels
      PROVE  /\ sums'[l] \in [KeysOf(l, received') -> Sums]
             /\ \A k \in KeysOf(l, received') : Matches(sums'[l][k], Own(l, k, received'))
  <2>1. /\ sums[l] \in [KeysOf(l, received) -> Sums]
        /\ \A k \in KeysOf(l, received) : Matches(sums[l][k], Own(l, k, received))
    BY SumsMatchMeans DEF SumsTyped
  <2> QED
    BY <1>1, <2>1, CumulateMatches
<1>3. SumsTyped'
  BY <1>2 DEF SumsTyped, KeysOf
<1>4. SumsMatchRecords'
  BY <1>2 DEF SumsMatchRecords, KeysOf, Matches, Own
<1> QED
  BY <1>3, <1>4

\* No other step touches records or sums, and a record is received once.
LEMMA SumsStep ==
    CapacityInv /\ SumsTyped /\ SumsMatchRecords /\ [Next]_vars
        => SumsTyped' /\ SumsMatchRecords'
<1> SUFFICES ASSUME CapacityInv, SumsTyped, SumsMatchRecords, [Next]_vars
             PROVE  SumsTyped' /\ SumsMatchRecords'
  OBVIOUS
<1>0. /\ received \subseteq Records
      /\ \A a \in Arrays : records[a] \subseteq Volumes /\ records[a] \cap received = {}
  BY DEF CapacityInv, TypeOK, RecordsFit, Records
<1>1. ASSUME NEW a \in Arrays, NEW v \in records[a], SendRecord(a, v)
      PROVE  SumsTyped' /\ SumsMatchRecords'
  <2>1. v \in Records \ received /\ Receive(v)
    BY <1>0, <1>1 DEF SendRecord, Records
  <2> QED
    BY <1>0, <2>1, ReceiveMatches
<1>2. CASE SendEmpty
  <2>1. Empty \in Records \ received /\ Receive(Empty)
    BY <1>2 DEF SendEmpty, CapacityInv, ExportedFits, Records
  <2> QED
    BY <1>0, <2>1, ReceiveMatches
<1>3. CASE UNCHANGED <<received, sums>>
  BY <1>3 DEF SumsTyped, SumsMatchRecords, KeysOf
<1> QED
  BY <1>1, <1>2, <1>3
  DEF Next, Collect, CollectFails, NextArray, NoClient, Query, WorkerDone, Release, Acquire,
      EndOfArrays, CloseRecords, EndOfRecords, SpawnRecorder, RecordFails, RecordSucceeds,
      SendName, CloseNames, CollectReturns, pushVars, vars

\* At each level every received record is counted exactly once and under its own
\* key, for any volumes and any order of arrival.
THEOREM CapacitySums == Spec => []SumsMatchRecords
<1>1. Init => SumsTyped /\ SumsMatchRecords
  <2> SUFFICES ASSUME Init PROVE SumsTyped /\ SumsMatchRecords
    OBVIOUS
  <2>1. received = {} /\ \A l \in Levels : sums[l] = [k \in {} |-> Empty]
    BY DEF Init, NoSums
  <2> QED
    BY <2>1 DEF SumsTyped, SumsMatchRecords, KeysOf
<1> QED
  BY <1>1, SumsStep, CapacityInvariant, PTL DEF Spec
=============================================================================
