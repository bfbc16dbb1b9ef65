----------------------------- MODULE Telemetry -----------------------------
(***************************************************************************)
(* The telemetry of a process (core/telemetry.ts): three of its four arrays  *)
(* that keep the newest MaxStore entries, what they are reduced to, and the   *)
(* health report of cli.ts.  Of an entry only what the reductions read is     *)
(* kept; the fourth array, of latencies, is only averaged.                  *)
(***************************************************************************)
EXTENDS Naturals, Sequences, FiniteSets, SequencesExt

CONSTANTS MaxStore, \* MAX_STORE_SIZE
          ErrorCategory

ASSUME TelemetryAssumption == MaxStore \in Nat \ {0} /\ "none" \notin ErrorCategory

VARIABLES
  requestMetrics,       \* what each diagnosis counted
  freshnessTelemetry,   \* one entry for each fact gated
  errorRecords,         \* categories of errors
  everStale             \* ghost: of every fact ever recorded, whether it was stale

telemetryVars == <<requestMetrics, freshnessTelemetry, errorRecords, everStale>>

\* Mutant: a full store drops what was just pushed.
PushedThenPopped(store, entry) == IF Len(store) = MaxStore THEN store ELSE Append(store, entry)

Pushed(store, entry) ==
  IF Len(store) = MaxStore THEN Append(Tail(store), entry) ELSE Append(store, entry)

\* One entry after the other.
PushedAll(store, entries) ==
  LET kept[n \in 0 .. Len(entries)] ==
        IF n = 0 THEN store ELSE Pushed(kept[n - 1], entries[n])
  IN kept[Len(entries)]

\* buildRequestMetrics: the counts cmdMetrics adds up.
RequestMetrics(instrumentation) ==
  LET CountIf(Test(_)) == Cardinality({n \in DOMAIN instrumentation : Test(instrumentation[n])})
  IN [stale     |-> CountIf(LAMBDA i : i.before = "stale"),
      requested |-> CountIf(LAMBDA i : i.required),
      success   |-> CountIf(LAMBDA i : i.performed)]

\* buildFreshnessTelemetry, an entry for each instrumented fact.
FreshnessTelemetry(instrumentation) ==
  [n \in DOMAIN instrumentation |->
    [field |-> instrumentation[n].field,
     epistemicState |-> instrumentation[n].after,
     refreshPerformed |-> instrumentation[n].performed]]

StaleEntries == {n \in DOMAIN freshnessTelemetry : freshnessTelemetry[n].epistemicState = "stale"}

\* analyzeFreshnessPatterns: how often each field was stale, and refreshed.
StaleCount(field) == Cardinality({n \in StaleEntries : freshnessTelemetry[n].field = field})
RefreshCount(field) ==
  Cardinality({n \in DOMAIN freshnessTelemetry :
                 freshnessTelemetry[n].field = field /\ freshnessTelemetry[n].refreshPerformed})

\* staleRate < 0.5, without fractions; an empty store has the rate 0.
StaleRateBelowHalf == 2 * Cardinality(StaleEntries) < Len(freshnessTelemetry) \/ freshnessTelemetry = <<>>

\* getHealthStatus; the other two subsystems are reported ok without a look.
HealthStatus ==
  [observation |-> IF errorRecords = <<>> THEN "ok" ELSE "error",
   freshness   |-> IF StaleRateBelowHalf THEN "ok" ELSE "error",
   totalErrors |-> Len(errorRecords)]

\* cmdHealth exits with 1 when a subsystem is in error.
HealthExit == IF "error" \in {HealthStatus.observation, HealthStatus.freshness} THEN 1 ELSE 0

-----------------------------------------------------------------------------
\* What buffy diagnose --pilot records after a diagnosis.
RecordRequest(instrumentation) ==
  /\ requestMetrics' = Pushed(requestMetrics, RequestMetrics(instrumentation))
  /\ UNCHANGED <<freshnessTelemetry, errorRecords, everStale>>

\* A caller that records every fact of a gating, as the tests do.
RecordFreshness(instrumentation) ==
  /\ freshnessTelemetry' = PushedAll(freshnessTelemetry, FreshnessTelemetry(instrumentation))
  /\ everStale' = everStale \o [n \in DOMAIN instrumentation |-> instrumentation[n].after = "stale"]
  /\ UNCHANGED <<requestMetrics, errorRecords>>

RecordError(category) ==
  /\ errorRecords' = Pushed(errorRecords, category)
  /\ UNCHANGED <<requestMetrics, freshnessTelemetry, everStale>>

ResetTelemetry ==
  /\ requestMetrics' = <<>> /\ freshnessTelemetry' = <<>>
  /\ errorRecords' = <<>>
  /\ everStale' = <<>>

TelemetryInit ==
  /\ requestMetrics = <<>> /\ freshnessTelemetry = <<>>
  /\ errorRecords = <<>>
  /\ everStale = <<>>

-----------------------------------------------------------------------------
\* The health report follows what happened last: when fewer than half of the
\* newest MaxStore facts were stale the command health says so, whatever the
\* store had to drop, and no other way (telemetry.ts:83-88, 167-172, 346).
Newest ==
  IF Len(everStale) <= MaxStore THEN everStale
  ELSE SubSeq(everStale, Len(everStale) - MaxStore + 1, Len(everStale))
HealthFollowsNewest ==
  (HealthStatus.freshness = "ok")
    <=> \/ everStale = <<>>
        \/ 2 * Cardinality({n \in DOMAIN Newest : Newest[n]}) < Len(Newest)

=============================================================================
