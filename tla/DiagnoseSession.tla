-------------------------- MODULE DiagnoseSession --------------------------
(***************************************************************************)
(* Diagnoses of one process and the telemetry about them: after each answer  *)
(* cli.ts records its metrics (buffy diagnose --pilot), and whoever holds    *)
(* the answer records the freshness of each fact.                           *)
(***************************************************************************)
EXTENDS FreshnessGate, Telemetry

CONSTANT MaxErrors \* bound: errors kept

vars == <<gateVars, telemetryVars>>

Init == GateInit /\ TelemetryInit

Recorded ==
  /\ Rest
  /\ RecordRequest(instrumentation) \/ RecordFreshness(instrumentation) \/ UNCHANGED telemetryVars

Next ==
  \/ (GateStep \/ Environment) /\ UNCHANGED telemetryVars
  \/ Recorded
  \/ /\ pc = "idle"
     /\ \/ \E c \in ErrorCategory : Len(errorRecords) < MaxErrors /\ RecordError(c)
        \/ ResetTelemetry
     /\ UNCHANGED gateVars

Spec == Init /\ [][Next]_vars

=============================================================================
