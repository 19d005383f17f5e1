----------------------------- MODULE Entrypoint -----------------------------
(***************************************************************************)
(* entrypoint.Run (internal/entrypoint/run.go): the select loop of a       *)
(* metrics pod, the two goroutines it starts (leader election, exporter)   *)
(* with the error channel they share, and the goroutine of main.go that    *)
(* rewrites the configuration while the loop runs.                         *)
(*                                                                         *)
(* The three collection tickers are one-place channels that the runtime    *)
(* fills and the loop drains or replaces; the leader check and liveness    *)
(* probe tickers are never drained, so their cases are ready at any time.  *)
(* Durations matter only where the loop compares them or makes a ticker.   *)
(***************************************************************************)
EXTENDS Integers, Sequences

CONSTANTS
    Settings,             \* contents the configuration file may have
    Edits,                \* the edits of it that are made, as <<from, to>>
    DefaultTickInterval,
    MinimumTickInterval,
    MaximumTickInterval,
    Scenarios             \* sets of what may happen in a behaviour: "elector",
                          \* "creds" or "exporter" fails, "cancel" of ctx, "edit"
                          \* of the configuration file

Kinds == {"capacity", "performance", "topology"}

\* A poll frequency is <<n>>, or <<>> if it is unset or not a number.
ASSUME SettingsAssumption ==
    /\ Settings # {}
    /\ Settings \subseteq [frequency : [Kinds -> Seq(Int)],
                           flag : [Kinds -> {"false", "true", "unset"}]]
    /\ DefaultTickInterval \in Int

ASSUME RangeAssumption ==
    /\ MinimumTickInterval \in Nat \ {0}
    /\ MaximumTickInterval \in Nat
    /\ MinimumTickInterval <= MaximumTickInterval

VARIABLES
    \* Config, and the goroutine of onChangeUpdate that writes it
    file,       \* what viper holds
    config,     \* the interval and the enabled fields of entrypoint.Config
    update,     \* the fields onChangeUpdate has still to write
    scenario,   \* what may happen in this behaviour
    \* goroutines of Run
    elector,    \* the goroutine of InitLeaderElection
    leader,     \* what LeaderElector.IsLeader() answers
    exporter,   \* the goroutine of InitExporter
    ready,      \* InitExporter succeeded: the meter provider has a reader
    errCh,      \* the error channel, capacity 1
    errorSent,  \* history: an error was put on errCh
    cancelled,  \* ctx is done
    \* Run itself
    pc,
    exporting,  \* pc is inside Export...Metrics
    wasLeader, collectedOnLeaderAcquired,
    interval,   \* the local tick intervals, which the tickers were made with
    ticks       \* the collection tickers whose channel holds a tick

configVars == <<file, config, update, scenario>>
goVars == <<elector, leader, exporter, ready, errCh, errorSent, cancelled>>
loopVars == <<pc, exporting, wasLeader, collectedOnLeaderAcquired, interval, ticks>>
vars == <<configVars, goVars, loopVars>>

\* onChangeUpdate writes the fields in this order, none of them under mu.
UpdateSteps == << <<"enabled", "capacity">>, <<"enabled", "performance">>,
                  <<"enabled", "topology">>, <<"interval", "capacity">>,
                  <<"interval", "performance">>, <<"interval", "topology">> >>

Immediate == {"immediate capacity", "immediate performance", "immediate topology"}
Ticked == {"tick capacity", "tick topology"}
Making == {"make capacity", "make performance", "make topology"}
Reading == {"read capacity", "read performance", "read topology"}
Ended == {"stopping", "returned", "panicked"}
PCs == {"validate", "select", "mark collected"}
         \cup Making \cup Immediate \cup Ticked \cup Reading \cup Ended

ElectorStates == {"starting", "running", "sending nil", "sending error", "done"}
ExporterStates == {"starting", "sending creds error", "initialising",
                   "sending nil", "sending error", "done"}

Configs == [interval : [Kinds -> Int], enabled : [Kinds -> BOOLEAN]]

TypeOK ==
    /\ file \in Settings
    /\ config \in Configs
    /\ update \in 0 .. Len(UpdateSteps)
    /\ scenario \in Scenarios
    /\ elector \in ElectorStates
    /\ leader \in BOOLEAN
    /\ exporter \in ExporterStates
    /\ ready \in BOOLEAN
    /\ errCh \in {<<>>, <<"nil">>, <<"error">>}
    /\ errorSent \in BOOLEAN
    /\ cancelled \in BOOLEAN
    /\ pc \in PCs
    /\ exporting \in BOOLEAN
    /\ wasLeader \in BOOLEAN
    /\ collectedOnLeaderAcquired \in BOOLEAN
    /\ interval \in [Kinds -> Int]
    /\ ticks \in SUBSET Kinds

\* updateTickIntervals: Atoi, or the default without a number.  Nothing checks
\* the range here.
TickInterval(f) == IF f = <<>> THEN DefaultTickInterval ELSE Head(f)

\* updateMetricsEnabled: only "false" disables a kind.
MetricsEnabled(flag) == flag # "false"

\* What onChangeUpdate makes of the contents s of the configuration file.
Parsed(s) == [interval |-> [k \in Kinds |-> TickInterval(s.frequency[k])],
              enabled  |-> [k \in Kinds |-> MetricsEnabled(s.flag[k])]]

\* configure() has run onChangeUpdate once before Run starts.
Init ==
    /\ file \in Settings
    /\ config = Parsed(file)
    /\ update = 0
    /\ scenario \in Scenarios
    /\ elector = "starting"
    /\ leader = FALSE
    /\ exporter = "starting"
    /\ ready = FALSE
    /\ errCh = <<>>
    /\ errorSent = FALSE
    /\ cancelled = FALSE
    /\ pc = "validate"
    /\ exporting = FALSE
    /\ wasLeader = FALSE
    /\ collectedOnLeaderAcquired = FALSE
    /\ interval = config.interval
    /\ ticks = {}

-----------------------------------------------------------------------------
(* main.go: configuration changes *)

\* main returns when Run does: the process and all its goroutines are gone.
Alive == pc \notin {"returned", "panicked"}

\* The configuration file changes; viper reloads it.
EditConfig(s) ==
    /\ Alive
    /\ "edit" \in scenario
    /\ <<file, s>> \in Edits
    /\ file' = s
    /\ file' # file
    /\ UNCHANGED <<config, update, scenario, goVars, loopVars>>

\* The reverse proxy's configuration changes: its listener runs
\* onChangeUpdate.  Nothing else applies an edited configuration; with an
\* unedited one every write of onChangeUpdate is a stutter.
OnConfigChange ==
    /\ Alive
    /\ update = 0
    /\ config # Parsed(file)
    /\ update' = 1
    /\ UNCHANGED <<file, config, scenario, goVars, loopVars>>

\* updateMetricsEnabled and updateTickIntervals: one field per step.
OnChangeUpdate ==
    /\ Alive
    /\ update # 0
    /\ LET field == UpdateSteps[update]
       IN  config' = [config EXCEPT ![field[1]][field[2]] = Parsed(file)[field[1]][field[2]]]
    /\ update' = IF update = Len(UpdateSteps) THEN 0 ELSE update + 1
    /\ UNCHANGED <<file, scenario, goVars, loopVars>>

-----------------------------------------------------------------------------
(* The goroutines that Run starts *)

Started == pc # "validate"

InitLeaderElection ==
    /\ Alive
    /\ Started
    /\ elector = "starting"
    /\ \/ elector' = "running"
       \/ "elector" \in scenario /\ elector' = "sending error"
    /\ UNCHANGED <<leader, exporter, ready, errCh, errorSent, cancelled, configVars, loopVars>>

\* The observed record changes while the elector runs.
LeadershipChanges ==
    /\ Alive
    /\ elector = "running"
    /\ leader' = ~leader
    /\ UNCHANGED <<elector, exporter, ready, errCh, errorSent, cancelled, configVars, loopVars>>

\* The elector gave up renewing: InitLeaderElection returns nil and IsLeader
\* keeps its last answer.
InitLeaderElectionReturns ==
    /\ Alive
    /\ elector = "running"
    /\ elector' = "sending nil"
    /\ UNCHANGED <<leader, exporter, ready, errCh, errorSent, cancelled, configVars, loopVars>>

\* The plausible error of a send that gives up on a full channel.
MutSendDrops(v) ==
    /\ errCh' = IF errCh = <<>> THEN <<v>> ELSE errCh
    /\ errorSent' = (errorSent \/ v = "error")

\* A goroutine's blocking send on the error channel.
Send(v) ==
    /\ errCh = <<>>
    /\ errCh' = <<v>>
    /\ errorSent' = (errorSent \/ v = "error")

ElectorSends ==
    /\ Alive
    /\ \/ elector = "sending nil" /\ Send("nil")
       \/ elector = "sending error" /\ Send("error")
    /\ elector' = "done"
    /\ UNCHANGED <<leader, exporter, ready, cancelled, configVars, loopVars>>

\* Transport credentials; a failure is sent, and then initialisation goes on.
MakeOptions ==
    /\ Alive
    /\ Started
    /\ exporter = "starting"
    /\ \/ exporter' = "initialising"
       \/ "creds" \in scenario /\ exporter' = "sending creds error"
    /\ UNCHANGED <<elector, leader, ready, errCh, errorSent, cancelled, configVars, loopVars>>

InitExporter ==
    /\ Alive
    /\ exporter = "initialising"
    /\ \/ exporter' = "sending nil" /\ ready' = TRUE
       \/ "exporter" \in scenario /\ exporter' = "sending error" /\ ready' = FALSE
    /\ UNCHANGED <<elector, leader, errCh, errorSent, cancelled, configVars, loopVars>>

ExporterSends ==
    /\ Alive
    /\ \/ /\ exporter = "sending creds error" /\ Send("error")
          /\ exporter' = "initialising"
       \/ /\ exporter = "sending nil" /\ Send("nil")
          /\ exporter' = "done"
       \/ /\ exporter = "sending error" /\ Send("error")
          /\ exporter' = "done"
    /\ UNCHANGED <<elector, leader, ready, cancelled, configVars, loopVars>>

Cancel ==
    /\ Alive
    /\ "cancel" \in scenario
    /\ ~cancelled
    /\ cancelled' = TRUE
    /\ UNCHANGED <<elector, leader, exporter, ready, errCh, errorSent, configVars, loopVars>>

\* The runtime delivers a tick; a tick that finds the channel full is dropped.
Fire(k) ==
    /\ pc \notin {"validate"} \cup Making \cup Ended
    /\ k \notin ticks
    /\ ticks' = ticks \cup {k}
    /\ UNCHANGED <<pc, exporting, wasLeader, collectedOnLeaderAcquired, interval,
                   configVars, goVars>>

-----------------------------------------------------------------------------
(* Run *)

InRange(d) == MinimumTickInterval <= d /\ d <= MaximumTickInterval

\* ValidateConfig: Run returns before it starts anything.
Validate ==
    /\ pc = "validate"
    /\ pc' = IF \A k \in Kinds : InRange(config.interval[k])
             THEN "make capacity" ELSE "returned"
    /\ UNCHANGED <<exporting, wasLeader, collectedOnLeaderAcquired, interval, ticks,
                   configVars, goVars>>

\* time.NewTicker panics on a duration that is not positive.
NewTickerPanics(d) == d <= 0

\* The first intervals.  GetTickIntervals holds the lock that their writer does
\* not take, so they may change between the reads, and since Validate.
MakeTicker(k, here, next) ==
    /\ pc = here
    /\ interval' = [interval EXCEPT ![k] = config.interval[k]]
    /\ pc' = IF NewTickerPanics(interval'[k]) THEN "panicked" ELSE next
    /\ UNCHANGED <<exporting, wasLeader, collectedOnLeaderAcquired, ticks,
                   configVars, goVars>>

MakeTickers ==
    \/ MakeTicker("capacity", "make capacity", "make performance")
    \/ MakeTicker("performance", "make performance", "make topology")
    \/ MakeTicker("topology", "make topology", "select")

\* The plausible error of forgetting one of the two flags on a loss.
MutLossKeepsCollected ==
    /\ pc = "select"
    /\ LET acquired == ~collectedOnLeaderAcquired /\ leader
       IN  /\ wasLeader' = ((wasLeader /\ leader) \/ acquired)
           /\ pc' = IF acquired THEN "immediate capacity" ELSE "read capacity"
    /\ UNCHANGED <<exporting, collectedOnLeaderAcquired, interval, ticks, configVars, goVars>>

\* case <-leaderCheckTicker.C.  The two ifs are independent: a loss that was
\* seen resets both flags, an uncollected leadership starts a collection.
LeaderCheck ==
    /\ pc = "select"
    /\ LET lost == wasLeader /\ ~leader
           acquired == ~collectedOnLeaderAcquired /\ leader
       IN  /\ wasLeader' = IF lost THEN FALSE ELSE wasLeader \/ acquired
           /\ collectedOnLeaderAcquired' = (collectedOnLeaderAcquired /\ ~lost)
           /\ pc' = IF acquired THEN "immediate capacity" ELSE "read capacity"
    /\ UNCHANGED <<exporting, interval, ticks, configVars, goVars>>

\* The plausible error of a second case without a body.
MutTopologyTickEmpty(k) ==
    /\ pc = "select"
    /\ k \in {"capacity", "topology"}
    /\ k \in ticks
    /\ ticks' = ticks \ {k}
    /\ pc' = IF k = "capacity" THEN "tick capacity" ELSE "read capacity"
    /\ UNCHANGED <<exporting, wasLeader, collectedOnLeaderAcquired, interval,
                   configVars, goVars>>

\* case <-capacityTicker.C, case <-topologyMetricsTicker.C
CollectTick(k) ==
    /\ pc = "select"
    /\ k \in {"capacity", "topology"}
    /\ k \in ticks
    /\ ticks' = ticks \ {k}
    /\ pc' = IF k = "capacity" THEN "tick capacity" ELSE "tick topology"
    /\ UNCHANGED <<exporting, wasLeader, collectedOnLeaderAcquired, interval,
                   configVars, goVars>>

\* case <-performanceTicker.C: the case has no body.
PerformanceTick ==
    /\ pc = "select"
    /\ "performance" \in ticks
    /\ ticks' = ticks \ {"performance"}
    /\ pc' = "read capacity"
    /\ UNCHANGED <<exporting, wasLeader, collectedOnLeaderAcquired, interval,
                   configVars, goVars>>

\* case <-livenessProbeTick.C: validatePowerMaxArrays changes nothing that the
\* loop reads.
LivenessProbe ==
    /\ pc = "select"
    /\ pc' = "read capacity"
    /\ UNCHANGED <<exporting, wasLeader, collectedOnLeaderAcquired, interval, ticks,
                   configVars, goVars>>

\* The plausible error of treating a reported error like a success.
MutReceiveIgnores ==
    /\ pc = "select"
    /\ errCh # <<>>
    /\ errCh' = <<>>
    /\ pc' = "select"
    /\ UNCHANGED <<exporting, wasLeader, collectedOnLeaderAcquired, interval, ticks,
                   elector, leader, exporter, ready, errorSent, cancelled, configVars>>

\* case err := <-errCh.  nil continues the loop without reading the intervals.
ReceiveError ==
    /\ pc = "select"
    /\ errCh # <<>>
    /\ errCh' = <<>>
    /\ pc' = IF Head(errCh) = "nil" THEN "select" ELSE "stopping"
    /\ UNCHANGED <<exporting, wasLeader, collectedOnLeaderAcquired, interval, ticks,
                   elector, leader, exporter, ready, errorSent, cancelled, configVars>>

\* case <-ctx.Done()
ContextDone ==
    /\ pc = "select"
    /\ cancelled
    /\ pc' = "stopping"
    /\ UNCHANGED <<exporting, wasLeader, collectedOnLeaderAcquired, interval, ticks,
                   configVars, goVars>>

\* The kind that a collecting pc collects.
KindOf(p) ==
    CASE p \in {"immediate capacity", "tick capacity"} -> "capacity"
      [] p = "immediate performance" -> "performance"
      [] OTHER -> "topology"

\* Where the loop goes after collecting at p: the immediate path looks at ctx
\* between its collections.
AfterCollect(p) ==
    CASE p = "immediate capacity"    -> IF cancelled THEN "stopping" ELSE "immediate performance"
      [] p = "immediate performance" -> IF cancelled THEN "stopping" ELSE "immediate topology"
      [] p = "immediate topology"    -> "mark collected"
      [] OTHER -> "read capacity"

\* collect...Metrics: not the leader, or the kind is disabled.
CollectSkips ==
    /\ pc \in Immediate \cup Ticked
    /\ ~exporting
    /\ ~leader \/ ~config.enabled[KindOf(pc)]
    /\ pc' = AfterCollect(pc)
    /\ UNCHANGED <<exporting, wasLeader, collectedOnLeaderAcquired, interval, ticks,
                   configVars, goVars>>

CollectExports ==
    /\ pc \in Immediate \cup Ticked
    /\ ~exporting
    /\ leader /\ config.enabled[KindOf(pc)]
    /\ exporting' = TRUE
    /\ UNCHANGED <<pc, wasLeader, collectedOnLeaderAcquired, interval, ticks,
                   configVars, goVars>>

\* Export...Metrics returns.  A record waits until a reader has observed it, so
\* an export that records anything returns only once the exporter is ready.
ExportReturns ==
    /\ exporting
    /\ ready
    /\ exporting' = FALSE
    /\ pc' = AfterCollect(pc)
    /\ UNCHANGED <<wasLeader, collectedOnLeaderAcquired, interval, ticks,
                   configVars, goVars>>

\* Export...Metrics fails or has nothing to record.
ExportRecordsNothing ==
    /\ exporting
    /\ ~ready
    /\ exporting' = FALSE
    /\ pc' = AfterCollect(pc)
    /\ UNCHANGED <<wasLeader, collectedOnLeaderAcquired, interval, ticks,
                   configVars, goVars>>

\* The plausible error of leaving the flag to the next leader check.
MutNeverMarked ==
    /\ pc = "mark collected"
    /\ ticks' = ticks \ Kinds
    /\ pc' = "read capacity"
    /\ UNCHANGED <<exporting, wasLeader, collectedOnLeaderAcquired, interval,
                   configVars, goVars>>

\* Collection on acquired leadership is complete: the collection tickers are
\* drained and restarted.
MarkCollected ==
    /\ pc = "mark collected"
    /\ collectedOnLeaderAcquired' = TRUE
    /\ ticks' = ticks \ Kinds
    /\ pc' = "read capacity"
    /\ UNCHANGED <<exporting, wasLeader, interval, configVars, goVars>>

\* The plausible error of a new ticker without a note of what it was made with.
MutIntervalNotKept(k, here, next) ==
    /\ pc = here
    /\ LET changed == interval[k] # config.interval[k]
       IN  /\ ticks' = IF changed THEN ticks \ {k} ELSE ticks
           /\ pc' = IF changed /\ NewTickerPanics(config.interval[k]) THEN "panicked" ELSE next
    /\ UNCHANGED <<exporting, wasLeader, collectedOnLeaderAcquired, interval, configVars, goVars>>

\* The end of an iteration: a changed interval gets a new ticker, whose channel
\* is empty.  The three fields are written without the lock, so they may change
\* between the reads.
ReadInterval(k, here, next) ==
    /\ pc = here
    /\ interval' = [interval EXCEPT ![k] = config.interval[k]]
    /\ LET changed == interval[k] # interval'[k]
       IN  /\ ticks' = IF changed THEN ticks \ {k} ELSE ticks
           /\ pc' = IF changed /\ NewTickerPanics(interval'[k]) THEN "panicked" ELSE next
    /\ UNCHANGED <<exporting, wasLeader, collectedOnLeaderAcquired, configVars, goVars>>

ReadIntervals ==
    \/ ReadInterval("capacity", "read capacity", "read performance")
    \/ ReadInterval("performance", "read performance", "read topology")
    \/ ReadInterval("topology", "read topology", "select")

\* The deferred StopExporter dereferences the exporter that InitExporter made.
StopExporter ==
    /\ pc = "stopping"
    /\ pc' = IF ready THEN "returned" ELSE "panicked"
    /\ UNCHANGED <<exporting, wasLeader, collectedOnLeaderAcquired, interval, ticks,
                   configVars, goVars>>

-----------------------------------------------------------------------------
Next ==
    \/ \E s \in Settings : EditConfig(s)
    \/ OnConfigChange
    \/ OnChangeUpdate
    \/ InitLeaderElection
    \/ LeadershipChanges
    \/ InitLeaderElectionReturns
    \/ ElectorSends
    \/ MakeOptions
    \/ InitExporter
    \/ ExporterSends
    \/ Cancel
    \/ \E k \in Kinds : Fire(k) \/ CollectTick(k)
    \/ PerformanceTick
    \/ LivenessProbe
    \/ Validate
    \/ MakeTickers
    \/ LeaderCheck
    \/ ReceiveError
    \/ ContextDone
    \/ CollectSkips
    \/ CollectExports
    \/ ExportReturns
    \/ ExportRecordsNothing
    \/ MarkCollected
    \/ ReadIntervals
    \/ StopExporter

Spec == Init /\ [][Next]_vars

\* Goroutines make progress, tickers tick, an export returns once a reader
\* drains it, and select picks uniformly among its ready cases, so a case that
\* is ready again and again is eventually picked.  Nothing is assumed of the
\* election, of who edits and applies the configuration, or of ctx.
Fairness ==
    /\ WF_vars(Validate \/ MakeTickers \/ CollectSkips \/ CollectExports
                \/ ExportReturns \/ MarkCollected \/ ReadIntervals \/ StopExporter)
    /\ WF_vars(MakeOptions \/ InitExporter \/ ExporterSends)
    /\ \A k \in Kinds : WF_vars(Fire(k))
    /\ \A k \in {"capacity", "topology"} : SF_vars(CollectTick(k))
    /\ SF_vars(LeaderCheck)
    /\ SF_vars(ReceiveError)
    /\ SF_vars(ContextDone)

FairSpec == Spec /\ Fairness

\* The same holds of the performance ticker's case, which no other property needs.
PerformanceSpec == FairSpec /\ SF_vars(PerformanceTick)

-----------------------------------------------------------------------------
(***************************************************************************)
(* The immediate collection is marked done only for a leadership that the  *)
(* loop has seen and not yet seen lost, so a loss that was seen never      *)
(* suppresses the immediate collection of the next leadership.             *)
(***************************************************************************)
CollectedOnlyAsLeader == collectedOnLeaderAcquired => wasLeader

\* The loop is on the path of an acquired leadership only as a leader it saw,
\* and inside an export only at a collection.
OnPath ==
    /\ pc \in Immediate \cup {"mark collected"} => wasLeader
    /\ exporting => pc \in Immediate \cup Ticked

(***************************************************************************)
(* No initialisation error is lost between its goroutine and Run: once put *)
(* on the one-place channel it stays there until Run takes it and stops.   *)
(***************************************************************************)
ErrorNotLost == errorSent /\ errCh # <<"error">> => pc \in Ended

\* The inductive invariant of the loop.
LoopInv == TypeOK /\ CollectedOnlyAsLeader /\ OnPath /\ ErrorNotLost

\* Run is inside Export...Metrics for k.
Collecting(k) == exporting /\ pc \in Immediate \cup Ticked /\ KindOf(pc) = k

\* An export that has something to record but no reader to record it to.
Stuck == <>[](exporting /\ ~ready)

(***************************************************************************)
(* A pod that stays leader runs the collections of its acquired leadership *)
(* to the end, unless Run ends or is stuck without an exporter.            *)
(***************************************************************************)
LeaderCollects ==
    \/ Stuck
    \/ leader /\ ~collectedOnLeaderAcquired /\ Started ~>
          collectedOnLeaderAcquired \/ ~leader \/ pc \in Ended

\* A leader with kind k enabled and settled intervals collects k for ever.
Polled(k) ==
    <>[](leader /\ ready /\ config.enabled[k] /\ pc \notin Ended
          /\ config.interval[k] = interval[k])
        => []<>Collecting(k)

(***************************************************************************)
(* While a pod is leader with an exporter and settled configuration, its   *)
(* capacity and topology metrics are collected again and again.            *)
(***************************************************************************)
CapacityAndTopologyPolled == Polled("capacity") /\ Polled("topology")

(***************************************************************************)
(* "Reset tickers so the next collection happens a full interval from now" *)
(* (run.go:207, for all three tickers): performance metrics are collected  *)
(* again and again as well.                                                *)
(***************************************************************************)
PerformancePolled == Polled("performance")

(***************************************************************************)
(* An interval that was edited reaches the loop, although the fields are   *)
(* written and read without a common lock: Run never goes on for ever with *)
(* a ticker made for another interval than the configured one.             *)
(***************************************************************************)
IntervalsApplied ==
    Stuck \/ \A k \in Kinds : []<>(interval[k] = config.interval[k] \/ pc \in Ended)

\* Run has been told to stop.
Told == errorSent \/ (cancelled /\ Started)

(***************************************************************************)
(* An initialisation error or a cancelled ctx takes Run out of its loop,   *)
(* also between the blocking collections of an acquired leadership, unless *)
(* it is stuck.                                                            *)
(***************************************************************************)
LeavesLoop == Stuck \/ (Told ~> pc \in Ended)

(***************************************************************************)
(* Run returns when it is told to stop.  run_test.go:216-237 ("error       *)
(* initializing exporter") expects the error from InitExporter to be what  *)
(* Run returns, after a StopExporter that does nothing.                    *)
(***************************************************************************)
ReturnsWhenTold == Stuck \/ (Told ~> pc = "returned")
=============================================================================
