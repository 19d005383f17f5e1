------------------------ MODULE MetricsRecorderProofs ------------------------
(***************************************************************************)
(* No record vanishes silently, for any number of concurrent records.      *)
(***************************************************************************)
EXTENDS MetricsRecorder, TLAPS

\* Every step preserves the inductive invariant: one step per action.
LEMMA RecorderStep == RecorderInv /\ [Next]_vars => RecorderInv'
<1> SUFFICES ASSUME RecorderInv, [Next]_vars PROVE RecorderInv'
  OBVIOUS
<1> USE DEF RecorderInv, TypeOK, CallStates, Observed
<1>1. CASE InitExporter
  BY <1>1 DEF InitExporter
<1>2. CASE Read
  <2>1. TypeOK' /\ (reader' = "idle" => batch' = {}) /\ (lost' # {} => failures')
    BY <1>2 DEF Read, Registered
  <2>2. Observed' = Observed \cup Registered
    BY <1>2 DEF Read
  <2>3. ASSUME NEW c \in Calls, senders'[c] > 0 PROVE c \in Observed'
    BY <1>2, <2>2, <2>3 DEF Read
  <2>4. ASSUME NEW c \in Calls, call'[c] \in {"unregistering", "returned"}
        PROVE  c \in Observed'
    BY <1>2, <2>2, <2>4 DEF Read
  <2> QED
    BY <2>1, <2>3, <2>4
<1>3. CASE ExportSucceeds
  BY <1>3 DEF ExportSucceeds
<1>4. CASE ExportFails
  BY <1>4 DEF ExportFails
<1>5. CASE StopExporter
  BY <1>5 DEF StopExporter, Registered
<1>6. ASSUME NEW c \in Calls, Register(c) \/ RegisterFails(c) PROVE RecorderInv'
  BY <1>6 DEF Register, RegisterFails
<1>7. ASSUME NEW c \in Calls, ReceiveDone(c) PROVE RecorderInv'
  BY <1>7 DEF ReceiveDone
<1>8. ASSUME NEW c \in Calls, Unregister(c) PROVE RecorderInv'
  BY <1>8 DEF Unregister
<1>9. CASE UNCHANGED vars
  BY <1>9 DEF vars
<1> QED
  BY <1>1, <1>2, <1>3, <1>4, <1>5, <1>6, <1>7, <1>8, <1>9 DEF Next

-----------------------------------------------------------------------------
\* The bookkeeping between Record... methods, reader and exporter is sound for
\* any number of concurrent records.
THEOREM RecorderInvariant == Spec => []RecorderInv
<1>1. Init => RecorderInv
  <2> SUFFICES ASSUME Init PROVE RecorderInv
    OBVIOUS
  <2>1. call \in [Calls -> CallStates] /\ senders \in [Calls -> Nat]
    BY DEF Init, CallStates
  <2>2. TypeOK
    BY <2>1 DEF Init, TypeOK
  <2>3. \A c \in Calls : senders[c] = 0 /\ call[c] = "idle"
    BY DEF Init
  <2> QED
    BY <2>2, <2>3 DEF Init, RecorderInv
<1> QED
  BY <1>1, RecorderStep, PTL DEF Spec

\* A record whose method returned nil was exported, is being exported, or was
\* dropped by an export whose failure was reported.
THEOREM NothingVanishes == Spec => []ReturnedIsAccounted
<1>1. RecorderInv => ReturnedIsAccounted
  BY DEF RecorderInv, ReturnedIsAccounted, Observed
<1> QED
  BY <1>1, RecorderInvariant, PTL
=============================================================================
