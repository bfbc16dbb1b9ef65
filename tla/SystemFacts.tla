---------------------------- MODULE SystemFacts ----------------------------
(***************************************************************************)
(* From what an adapter measured to the facts a diagnosis reports            *)
(* (core/diagnose.ts, analyzeForQuery and computeObservability), and what    *)
(* freshness gating measures again for one fact (core/freshness-gating.ts,   *)
(* FIELD_REFRESH_MAP).  The two have thresholds of their own.                *)
(*                                                                         *)
(* A system is a record of measurements.  A measurement that is missing is   *)
(* 0, as the conditions of the code treat null and 0 alike; of the processes *)
(* only the greatest share of the processor matters.  A fact carries what    *)
(* was measured, not the text of its message.                               *)
(***************************************************************************)
EXTENDS Naturals, Sequences, FiniteSets, SequencesExt

\* CheckName, in the order in which analyzeForQuery looks at them.
CheckOrder == <<"cpu", "ram", "gpu", "temperature", "storage", "processes", "network">>
CheckName == ToSet(CheckOrder)

\* The elements of a sequence that are in a set, in their order.
Filtered(seq, S) ==
  LET kept[n \in 0 .. Len(seq)] ==
        IF n = 0 THEN <<>>
        ELSE IF seq[n] \in S THEN Append(kept[n - 1], seq[n])
        ELSE kept[n - 1]
  IN kept[Len(seq)]

Fact(id, check, severity) == [id |-> id, check |-> check, severity |-> severity]

\* Above the first limit an error, above the second a warning.
Graded(value, error, warning) ==
  IF value > error THEN "error" ELSE IF value > warning THEN "warning" ELSE "ok"

CpuSeverity(usage) == IF usage < 80 THEN "ok" ELSE "warning"
RamSeverity(used) == Graded(used, 90, 75)
TemperatureSeverity(celsius) == Graded(celsius, 80, 65)
DiskSeverity(used) == Graded(used, 95, 85)
Heavy(share) == share > 50

CpuFact(system) == Fact("cpu-status", "cpu", CpuSeverity(system.cpu))
RamFact(system) == Fact("ram-status", "ram", RamSeverity(system.ram))
TemperatureFact(system) ==
  Fact("temperature-status", "temperature", TemperatureSeverity(system.temperature))
GpuFact(system) ==
  IF system.genericGpu THEN Fact("gpu-generic-driver", "gpu", "warning")
                       ELSE Fact("gpu-driver-ok", "gpu", "ok")
QuietProcesses == Fact("processes-ok", "processes", "ok")
ProcessesFact(system) ==
  IF Heavy(system.busiest) THEN Fact("heavy-processes", "processes", "warning")
                           ELSE QuietProcesses

\* The network is never measured: the fact only names the action that would.
NetworkFact == Fact("network-status", "network", "ok")

\* One fact for each mounted device, named storage- and its mount.
StorageFacts(system) ==
  [n \in DOMAIN system.disks |->
    Fact(system.disks[n].id, "storage", DiskSeverity(system.disks[n].used))]

FactsOf(system, check) ==
  CASE check = "cpu" -> <<CpuFact(system)>>
    [] check = "ram" -> <<RamFact(system)>>
    [] check = "gpu" -> <<GpuFact(system)>>
    [] check = "temperature" ->
         IF system.temperature = 0 THEN <<>> ELSE <<TemperatureFact(system)>>
    [] check = "storage" -> StorageFacts(system)
    [] check = "processes" -> <<ProcessesFact(system)>>
    [] check = "network" -> <<NetworkFact>>

AnalyzeForQuery(system, checks) ==
  FlattenSeq([n \in DOMAIN CheckOrder |->
    IF CheckOrder[n] \in checks THEN FactsOf(system, CheckOrder[n]) ELSE <<>>])

\* The ids of the facts that are not about a device.
FixedIds ==
  {"cpu-status", "ram-status", "gpu-generic-driver", "gpu-driver-ok", "temperature-status",
   "processes-ok", "heavy-processes", "network-status"}

-----------------------------------------------------------------------------
(* Measuring one fact again. *)

\* Facts of the graphics card, of the network and of a disk have no function.
Refreshable == {"cpu-status", "ram-status", "temperature-status", "heavy-processes", "processes-ok"}

\* A fact that said all was quiet says so again without looking.
RefreshField(id, system) ==
  CASE id = "cpu-status" -> <<CpuFact(system)>>
    [] id = "ram-status" -> <<RamFact(system)>>
    [] id = "temperature-status" ->
         IF system.temperature = 0 THEN <<>> ELSE <<TemperatureFact(system)>>
    [] id = "heavy-processes" -> <<ProcessesFact(system)>>
    [] id = "processes-ok" -> <<QuietProcesses>>

-----------------------------------------------------------------------------
(* Why there may be no facts. *)

ObservableChecks == CheckName

\* "partial" needs a check nobody can observe, and there is none.
ComputeObservability(selected, facts) ==
  IF selected = {} THEN "no_evidence"
  ELSE IF facts = <<>> THEN "unsupported"
  ELSE IF selected \subseteq ObservableChecks THEN "observed"
  ELSE IF Len(facts) < Cardinality(selected) THEN "partial"
  ELSE "observed"

=============================================================================
