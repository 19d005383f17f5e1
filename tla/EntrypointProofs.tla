-------------------------- MODULE EntrypointProofs --------------------------
(***************************************************************************)
(* The safety of entrypoint.Run for every set of configurations and every  *)
(* combination of faults.                                                  *)
(***************************************************************************)
EXTENDS Entrypoint, TLAPS

\* onChangeUpdate writes six fields.
LEMMA UpdateCount == Len(UpdateSteps) = 6
  BY DEF UpdateSteps

\* Whatever the configuration file holds, each interval is a number and each
\* kind is enabled or not: there is always something to write.
LEMMA ParsedType == ASSUME NEW s \in Settings PROVE Parsed(s) \in Configs
<1>1. s.frequency \in [Kinds -> Seq(Int)]
  BY SettingsAssumption
<1>2. ASSUME NEW k \in Kinds PROVE TickInterval(s.frequency[k]) \in Int
  BY <1>1, SettingsAssumption DEF TickInterval
<1>3. ASSUME NEW k \in Kinds PROVE MetricsEnabled(s.flag[k]) \in BOOLEAN
  BY DEF MetricsEnabled
<1> QED
  BY <1>2, <1>3 DEF Parsed, Configs

\* The loop's initial state satisfies the inductive invariant.
LEMMA LoopInit == Init => LoopInv
<1> SUFFICES ASSUME Init PROVE LoopInv
  OBVIOUS
<1> USE DEF Init
<1>1. TypeOK
  <2>1. file \in Settings /\ config \in Configs
    BY ParsedType
  <2>2. config.interval \in [Kinds -> Int]
    BY <2>1 DEF Configs
  <2>3. update \in 0 .. Len(UpdateSteps)
    BY UpdateCount
  <2>4. pc \in PCs /\ elector \in ElectorStates /\ exporter \in ExporterStates
    BY DEF PCs, ElectorStates, ExporterStates
  <2>5. interval \in [Kinds -> Int] /\ ticks \in SUBSET Kinds
    BY <2>2
  <2> QED
    BY <2>1, <2>3, <2>4, <2>5 DEF TypeOK
<1>2. CollectedOnlyAsLeader /\ OnPath /\ ErrorNotLost
  BY DEF CollectedOnlyAsLeader, OnPath, ErrorNotLost, Immediate, Ticked
<1> QED
  BY <1>1, <1>2 DEF LoopInv

\* A collection is followed by a position of the loop; only the last one of an
\* acquired leadership leads to marking it collected, and every position on
\* that path follows from one on it.
LEMMA AfterCollectPosition ==
    ASSUME pc \in Immediate \cup Ticked
    PROVE  /\ AfterCollect(pc) \in PCs
           /\ AfterCollect(pc) \in Immediate \cup {"mark collected"} => pc \in Immediate
  BY DEF AfterCollect, PCs, Making, Immediate, Ticked, Reading, Ended

\* A goroutine's send puts at most one value on the channel, and keeps an
\* error that is there.
LEMMA SendKeepsErrors ==
    ASSUME LoopInv, UNCHANGED <<pc>>, Send("nil") \/ Send("error")
    PROVE  /\ errCh' \in {<<"nil">>, <<"error">>}
           /\ errorSent' \in BOOLEAN
           /\ ErrorNotLost'
<1> USE DEF LoopInv, TypeOK, Send, ErrorNotLost
<1>1. CASE Send("nil")
  BY <1>1
<1>2. CASE Send("error")
  BY <1>2
<1> QED
  BY <1>1, <1>2

\* The steps of the goroutines beside the loop preserve the invariant.
LEMMA GoroutineStep ==
    ASSUME LoopInv,
           \/ \E s \in Settings : EditConfig(s)
           \/ OnConfigChange \/ OnChangeUpdate
           \/ InitLeaderElection \/ LeadershipChanges \/ InitLeaderElectionReturns
           \/ ElectorSends
           \/ MakeOptions \/ InitExporter \/ ExporterSends
           \/ Cancel
    PROVE  LoopInv'
<1>0. UNCHANGED loopVars
  BY DEF EditConfig, OnConfigChange, OnChangeUpdate,
         InitLeaderElection, LeadershipChanges, InitLeaderElectionReturns,
         ElectorSends, MakeOptions, InitExporter, ExporterSends, Cancel
<1> USE DEF LoopInv, goVars, loopVars, configVars
<1>1. CollectedOnlyAsLeader' /\ OnPath'
  BY <1>0 DEF CollectedOnlyAsLeader, OnPath
<1>2. ASSUME NEW s \in Settings, EditConfig(s) PROVE TypeOK' /\ ErrorNotLost'
  BY <1>2 DEF EditConfig, TypeOK, ErrorNotLost
<1>3. CASE OnConfigChange
  BY <1>1, <1>3, UpdateCount DEF OnConfigChange, TypeOK, ErrorNotLost
<1>4. CASE OnChangeUpdate
  <2>1. Parsed(file) \in Configs
    BY ParsedType DEF TypeOK
  <2>2. update \in 1 .. 6
    BY <1>4, UpdateCount DEF OnChangeUpdate, TypeOK
  <2>3. config' \in Configs
    BY <1>4, <2>1, <2>2 DEF OnChangeUpdate, TypeOK, UpdateSteps, Kinds, Configs
  <2>4. update' \in 0 .. Len(UpdateSteps)
    BY <1>4, <2>2, UpdateCount DEF OnChangeUpdate
  <2> QED
    BY <1>1, <1>4, <2>3, <2>4 DEF OnChangeUpdate, TypeOK, ErrorNotLost
<1>5. CASE InitLeaderElection \/ LeadershipChanges \/ InitLeaderElectionReturns
  <2> USE DEF TypeOK, ErrorNotLost, ElectorStates
  <2>1. CASE InitLeaderElection
    BY <1>1, <2>1 DEF InitLeaderElection
  <2>2. CASE LeadershipChanges
    BY <1>1, <2>2 DEF LeadershipChanges
  <2>3. CASE InitLeaderElectionReturns
    BY <1>1, <2>3 DEF InitLeaderElectionReturns
  <2> QED
    BY <1>5, <2>1, <2>2, <2>3
<1>6. CASE ElectorSends
  <2>1. Send("nil") \/ Send("error")
    BY <1>6 DEF ElectorSends
  <2>2. ErrorNotLost' /\ errCh' \in {<<"nil">>, <<"error">>} /\ errorSent' \in BOOLEAN
    BY <1>6, <2>1, SendKeepsErrors DEF ElectorSends
  <2> QED
    BY <1>1, <1>6, <2>2 DEF ElectorSends, TypeOK, ElectorStates
<1>7. CASE MakeOptions \/ InitExporter
  <2> USE DEF TypeOK, ErrorNotLost, ExporterStates
  <2>1. CASE MakeOptions
    BY <1>1, <2>1 DEF MakeOptions
  <2>2. CASE InitExporter
    BY <1>1, <2>2 DEF InitExporter
  <2> QED
    BY <1>7, <2>1, <2>2
<1>8. CASE ExporterSends
  <2>1. Send("nil") \/ Send("error")
    BY <1>8 DEF ExporterSends
  <2>2. ErrorNotLost' /\ errCh' \in {<<"nil">>, <<"error">>} /\ errorSent' \in BOOLEAN
    BY <1>8, <2>1, SendKeepsErrors DEF ExporterSends
  <2> QED
    BY <1>1, <1>8, <2>2 DEF ExporterSends, TypeOK, ExporterStates
<1>9. CASE Cancel
  BY <1>1, <1>9 DEF Cancel, TypeOK, ErrorNotLost
<1> QED
  BY <1>1, <1>2, <1>3, <1>4, <1>5, <1>6, <1>7, <1>8, <1>9

\* The steps of the select statement preserve the invariant.
LEMMA SelectStep ==
    ASSUME LoopInv,
           \/ LeaderCheck \/ PerformanceTick \/ LivenessProbe
           \/ ReceiveError \/ ContextDone
           \/ \E k \in Kinds : Fire(k) \/ CollectTick(k)
    PROVE  LoopInv'
<1> USE DEF LoopInv, goVars, configVars, CollectedOnlyAsLeader, OnPath, ErrorNotLost,
            PCs, Making, Immediate, Ticked, Reading, Ended
<1>1. CASE LeaderCheck
  BY <1>1 DEF LeaderCheck, TypeOK
<1>2. CASE PerformanceTick \/ LivenessProbe \/ ContextDone
  <2>1. CASE PerformanceTick
    BY <2>1 DEF PerformanceTick, TypeOK
  <2>2. CASE LivenessProbe
    BY <2>2 DEF LivenessProbe, TypeOK
  <2>3. CASE ContextDone
    BY <2>3 DEF ContextDone, TypeOK
  <2> QED
    BY <1>2, <2>1, <2>2, <2>3
<1>3. CASE ReceiveError
  <2>1. pc = "select" /\ errCh \in {<<"nil">>, <<"error">>} /\ errCh' = <<>>
    BY <1>3 DEF ReceiveError, TypeOK
  <2>2. CASE errCh = <<"nil">>
    BY <1>3, <2>1, <2>2 DEF ReceiveError, TypeOK
  <2>3. CASE errCh = <<"error">>
    BY <1>3, <2>1, <2>3 DEF ReceiveError, TypeOK
  <2> QED
    BY <2>1, <2>2, <2>3
<1>4. ASSUME NEW k \in Kinds, Fire(k) \/ CollectTick(k) PROVE LoopInv'
  <2>1. CASE Fire(k)
    BY <2>1 DEF Fire, TypeOK
  <2>2. CASE CollectTick(k)
    BY <2>2 DEF CollectTick, TypeOK
  <2> QED
    BY <1>4, <2>1, <2>2
<1> QED
  BY <1>1, <1>2, <1>3, <1>4

\* The other steps of the loop preserve the invariant.
LEMMA BodyStep ==
    ASSUME LoopInv,
           \/ Validate \/ MakeTickers \/ CollectSkips \/ CollectExports
           \/ ExportReturns \/ ExportRecordsNothing \/ MarkCollected
           \/ ReadIntervals \/ StopExporter
    PROVE  LoopInv'
<1> USE DEF LoopInv, goVars, configVars, CollectedOnlyAsLeader, OnPath, ErrorNotLost
<1>1. CASE Validate \/ CollectExports \/ MarkCollected \/ StopExporter
  <2> USE DEF TypeOK, PCs, Making, Immediate, Ticked, Reading, Ended
  <2>1. CASE Validate
    BY <2>1 DEF Validate
  <2>2. CASE CollectExports
    BY <2>2 DEF CollectExports
  <2>3. CASE MarkCollected
    BY <2>3 DEF MarkCollected
  <2>4. CASE StopExporter
    BY <2>4 DEF StopExporter
  <2> QED
    BY <1>1, <2>1, <2>2, <2>3, <2>4
<1>2. CASE MakeTickers
  <2>1. PICK k \in Kinds, next \in {"make performance", "make topology", "select"} :
          \E here \in Making : MakeTicker(k, here, next)
    BY <1>2 DEF MakeTickers, Kinds, Making
  <2>2. config.interval[k] \in Int
    BY DEF TypeOK, Configs
  <2>3. pc \in Making /\ pc' \in {"make performance", "make topology", "select", "panicked"}
    BY <2>1 DEF MakeTicker
  <2>4. TypeOK'
    BY <2>1, <2>2, <2>3 DEF MakeTicker, TypeOK, PCs, Making, Immediate, Ticked, Reading, Ended
  <2>5. UNCHANGED <<exporting, wasLeader, collectedOnLeaderAcquired, errorSent, errCh>>
    BY <2>1 DEF MakeTicker
  <2>6. exporting = FALSE
    BY <2>3 DEF TypeOK, Immediate, Ticked, Making
  <2>7. CollectedOnlyAsLeader' /\ OnPath'
    BY <2>3, <2>5, <2>6 DEF Immediate
  <2>8. ErrorNotLost'
    BY <2>3, <2>5 DEF Making, Ended
  <2> QED
    BY <2>4, <2>7, <2>8
<1>3. CASE CollectSkips \/ ExportReturns \/ ExportRecordsNothing
  <2>1. pc \in Immediate \cup Ticked
    BY <1>3 DEF CollectSkips, ExportReturns, ExportRecordsNothing
  <2>0. pc' = AfterCollect(pc) /\ exporting' = FALSE /\ wasLeader' = wasLeader
    <3>1. CASE CollectSkips
      <4>1. exporting = FALSE
        BY <3>1 DEF CollectSkips, TypeOK
      <4> QED
        BY <3>1, <4>1 DEF CollectSkips
    <3>2. CASE ExportReturns \/ ExportRecordsNothing
      BY <3>2 DEF ExportReturns, ExportRecordsNothing
    <3> QED
      BY <1>3, <3>1, <3>2
  <2>2. pc' \in PCs /\ (pc' \in Immediate \cup {"mark collected"} => wasLeader)
    BY <2>0, <2>1, AfterCollectPosition
  <2>3. TypeOK'
    BY <1>3, <2>2 DEF CollectSkips, ExportReturns, ExportRecordsNothing, TypeOK
  <2>4. collectedOnLeaderAcquired' = collectedOnLeaderAcquired
    BY <1>3 DEF CollectSkips, ExportReturns, ExportRecordsNothing
  <2>8. CollectedOnlyAsLeader'
    BY <2>0, <2>4
  <2>9. OnPath'
    BY <2>0, <2>2
  <2>5. pc \notin Ended
    BY <2>1 DEF Immediate, Ticked, Ended
  <2>6. ErrorNotLost'
    BY <1>3, <2>5 DEF CollectSkips, ExportReturns, ExportRecordsNothing
  <2> QED
    BY <2>3, <2>8, <2>9, <2>6
<1>4. CASE ReadIntervals
  <2>1. PICK k \in Kinds, next \in {"read performance", "read topology", "select"} :
          \E here \in Reading : ReadInterval(k, here, next)
    BY <1>4 DEF ReadIntervals, Kinds, Reading
  <2>2. config.interval[k] \in Int
    BY DEF TypeOK, Configs
  <2>3. pc \in Reading /\ pc' \in {"read performance", "read topology", "select", "panicked"}
    BY <2>1 DEF ReadInterval
  <2>4. TypeOK'
    BY <2>1, <2>2, <2>3 DEF ReadInterval, TypeOK, PCs, Making, Immediate, Ticked, Reading, Ended
  <2>5. exporting = FALSE /\ UNCHANGED <<exporting, wasLeader, collectedOnLeaderAcquired>>
    BY <2>1, <2>3 DEF ReadInterval, TypeOK, Immediate, Ticked, Reading
  <2>6. CollectedOnlyAsLeader'
    BY <2>5
  <2>9. OnPath'
    BY <2>3, <2>5 DEF Immediate
  <2>7. ~(errorSent /\ errCh # <<"error">>)
    BY <2>3 DEF Reading, Ended
  <2>10. UNCHANGED <<errorSent, errCh>>
    BY <2>1 DEF ReadInterval
  <2>8. ErrorNotLost'
    BY <2>7, <2>10
  <2> QED
    BY <2>4, <2>6, <2>8, <2>9
<1> QED
  BY <1>1, <1>2, <1>3, <1>4

-----------------------------------------------------------------------------
\* Run keeps its bookkeeping of leadership, collections and errors consistent,
\* for every configuration and every fault.
THEOREM LoopInvariant == Spec => []LoopInv
<1>1. LoopInv /\ [Next]_vars => LoopInv'
  <2> SUFFICES ASSUME LoopInv, [Next]_vars PROVE LoopInv'
    OBVIOUS
  <2>1. CASE UNCHANGED vars
    BY <2>1 DEF LoopInv, TypeOK, CollectedOnlyAsLeader, OnPath, ErrorNotLost,
                vars, goVars, loopVars, configVars
  <2>2. CASE Next
    BY <2>2, GoroutineStep, SelectStep, BodyStep DEF Next
  <2> QED
    BY <2>1, <2>2
<1> QED
  BY LoopInit, <1>1, PTL DEF Spec

\* A loss of leadership that the loop saw never suppresses the immediate
\* collection of the next leadership.
THEOREM CollectedIsOwned == Spec => []CollectedOnlyAsLeader
<1>1. LoopInv => CollectedOnlyAsLeader
  BY DEF LoopInv
<1> QED
  BY LoopInvariant, <1>1, PTL

\* An error that a goroutine of Run reported is never dropped by the one-place
\* channel or by the loop.
THEOREM ErrorsReachRun == Spec => []ErrorNotLost
<1>1. LoopInv => ErrorNotLost
  BY DEF LoopInv
<1> QED
  BY LoopInvariant, <1>1, PTL
=============================================================================
