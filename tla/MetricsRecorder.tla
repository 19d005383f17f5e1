--------------------------- MODULE MetricsRecorder ---------------------------
(***************************************************************************)
(* How a metric record reaches the OpenTelemetry collector: the Record...  *)
(* methods of MetricsRecorderWrapper register a callback, wait until the   *)
(* periodic reader has run it, and unregister it; the exporter of          *)
(* opentelemetry/exporters sends what a reading collected and reports a    *)
(* failed export.  The four Record... methods differ in what they observe  *)
(* and share this protocol.                                                *)
(*                                                                         *)
(* The SDK holds its lock while a reading runs the callbacks, so a reading *)
(* is one step with respect to registering and unregistering.              *)
(***************************************************************************)
EXTENDS Naturals, FiniteSets

CONSTANTS
    Calls,        \* calls of Record... methods
    MaxReadings   \* bound: readings of a call before it unregisters

ASSUME ReadingsAssumption == MaxReadings \in Nat \ {0}

VARIABLES
    provider,   \* the meter provider that InitExporter installs
    call,       \* where each call is
    senders,    \* goroutines of its callback that wait in done <- struct{}{}
    reader,     \* the periodic reader: collects, then exports
    batch,      \* calls observed by the reading being exported
    exported,   \* calls with an observation that was exported
    lost,       \* calls with an observation whose export failed
    failures    \* recordExportFailure was called

vars == <<provider, call, senders, reader, batch, exported, lost, failures>>

CallStates == {"idle", "waiting", "unregistering", "returned", "failed"}

TypeOK ==
    /\ provider \in {"none", "ready", "failed", "stopped"}
    /\ call \in [Calls -> CallStates]
    /\ senders \in [Calls -> Nat]
    /\ reader \in {"idle", "exporting"}
    /\ batch \subseteq Calls
    /\ exported \subseteq Calls
    /\ lost \subseteq Calls
    /\ failures \in BOOLEAN

Init ==
    /\ provider = "none"
    /\ call = [c \in Calls |-> "idle"]
    /\ senders = [c \in Calls |-> 0]
    /\ reader = "idle"
    /\ batch = {}
    /\ exported = {}
    /\ lost = {}
    /\ failures = FALSE

Registered == {c \in Calls : call[c] \in {"waiting", "unregistering"}}

-----------------------------------------------------------------------------
\* InitExporter: the provider and its reader exist, or an error is returned.
InitExporter ==
    /\ provider = "none"
    /\ provider' \in {"ready", "failed"}
    /\ UNCHANGED <<call, senders, reader, batch, exported, lost, failures>>

\* The plausible error of not waiting for the reader.
MutRegisterReturns(c) ==
    /\ call[c] = "idle"
    /\ call' = [call EXCEPT ![c] = "unregistering"]
    /\ UNCHANGED <<provider, senders, reader, batch, exported, lost, failures>>

\* A Record... method makes its instruments and registers the callback.  The
\* global meter accepts both before a provider is installed.
Register(c) ==
    /\ call[c] = "idle"
    /\ call' = [call EXCEPT ![c] = "waiting"]
    /\ UNCHANGED <<provider, senders, reader, batch, exported, lost, failures>>

\* Making an instrument or registering the callback fails.
RegisterFails(c) ==
    /\ call[c] = "idle"
    /\ call' = [call EXCEPT ![c] = "failed"]
    /\ UNCHANGED <<provider, senders, reader, batch, exported, lost, failures>>

\* <-done meets one of the senders.
ReceiveDone(c) ==
    /\ call[c] = "waiting"
    /\ senders[c] > 0
    /\ senders' = [senders EXCEPT ![c] = @ - 1]
    /\ call' = [call EXCEPT ![c] = "unregistering"]
    /\ UNCHANGED <<provider, reader, batch, exported, lost, failures>>

\* reg.Unregister(), and the method returns nil.
Unregister(c) ==
    /\ call[c] = "unregistering"
    /\ call' = [call EXCEPT ![c] = "returned"]
    /\ UNCHANGED <<provider, senders, reader, batch, exported, lost, failures>>

\* The plausible error of a callback that does not signal.
MutReadSilently ==
    /\ provider = "ready"
    /\ reader = "idle"
    /\ reader' = "exporting"
    /\ batch' = Registered
    /\ UNCHANGED <<provider, call, senders, exported, lost, failures>>

\* A reading runs every registered callback; each observes its values and
\* starts a goroutine that sends on done.
Read ==
    /\ provider = "ready"
    /\ reader = "idle"
    /\ \A c \in Registered : senders[c] < MaxReadings
    /\ reader' = "exporting"
    /\ batch' = Registered
    /\ senders' = [c \in Calls |-> IF c \in Registered THEN senders[c] + 1 ELSE senders[c]]
    /\ UNCHANGED <<provider, call, exported, lost, failures>>

\* recordingExporter.Export: the base exporter succeeds ...
ExportSucceeds ==
    /\ reader = "exporting"
    /\ reader' = "idle"
    /\ exported' = exported \cup batch
    /\ batch' = {}
    /\ UNCHANGED <<provider, call, senders, lost, failures>>

\* The plausible error of swallowing the exporter's error.
MutFailSilently ==
    /\ reader = "exporting"
    /\ reader' = "idle"
    /\ lost' = lost \cup batch
    /\ batch' = {}
    /\ UNCHANGED <<provider, call, senders, exported, failures>>

\* ... or fails: recordExportFailure is called, what was collected is dropped.
ExportFails ==
    /\ reader = "exporting"
    /\ reader' = "idle"
    /\ lost' = lost \cup batch
    /\ batch' = {}
    /\ failures' = TRUE
    /\ UNCHANGED <<provider, call, senders, exported>>

\* StopExporter: the exporter is shut down before the provider, whose last
\* reading therefore fails to export.  If that fails, the provider is left as
\* it is.
StopExporter ==
    /\ provider = "ready"
    /\ reader = "idle"
    /\ provider' = "stopped"
    /\ lost' = lost \cup Registered
    /\ senders' = [c \in Calls |-> IF c \in Registered THEN senders[c] + 1 ELSE senders[c]]
    /\ failures' = TRUE
    /\ UNCHANGED <<call, reader, batch, exported>>

Next ==
    \/ InitExporter
    \/ Read
    \/ ExportSucceeds
    \/ ExportFails
    \/ StopExporter
    \/ \E c \in Calls :
        \/ Register(c)
        \/ RegisterFails(c)
        \/ ReceiveDone(c)
        \/ Unregister(c)

Spec == Init /\ [][Next]_vars

\* The reader reads every five seconds and an export ends one way or the other.
Fairness ==
    /\ WF_vars(Read)
    /\ WF_vars(ExportSucceeds \/ ExportFails)
    /\ \A c \in Calls : WF_vars(ReceiveDone(c)) /\ WF_vars(Unregister(c))

FairSpec == Spec /\ Fairness

-----------------------------------------------------------------------------
\* The calls whose callback has run.
Observed == batch \cup exported \cup lost

(***************************************************************************)
(* No record vanishes silently: when a Record... method has returned nil,  *)
(* its values are being exported, were exported, or were dropped by an     *)
(* export whose failure was reported.                                      *)
(***************************************************************************)
ReturnedIsAccounted ==
    \A c \in Calls :
        call[c] = "returned" => c \in batch \cup exported \/ (c \in lost /\ failures)

\* The inductive invariant: whoever was signalled was observed, and a batch
\* exists only while it is exported.
RecorderInv ==
    /\ TypeOK
    /\ reader = "idle" => batch = {}
    /\ \A c \in Calls : senders[c] > 0 => c \in Observed
    /\ \A c \in Calls : call[c] \in {"unregistering", "returned"} => c \in Observed
    /\ lost # {} => failures

(***************************************************************************)
(* A record that waits while a provider is installed is read and its       *)
(* Record... method returns, even if exports fail and if the exporter is   *)
(* stopped meanwhile: the collection that waits for it goes on.            *)
(***************************************************************************)
WaitingReturns ==
    \A c \in Calls : call[c] = "waiting" /\ provider = "ready" ~> call[c] = "returned"
=============================================================================
