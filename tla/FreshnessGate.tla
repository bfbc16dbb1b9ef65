--------------------------- MODULE FreshnessGate ---------------------------
(***************************************************************************)
(* A diagnosis and the freshness of what it says: diagnose (core/diagnose.ts *)
(* 86-125) measures the machine and stamps its facts; applyFreshnessGating   *)
(* (core/freshness-gating.ts) takes such facts, new or kept by a caller from *)
(* an earlier diagnosis, and sends, omits, measures again or gives up each.  *)
(* It awaits the adapter once for each fact it measures again; meanwhile     *)
(* time passes and the machine changes.                                     *)
(*                                                                         *)
(*   idle -> measuring -> gating <-> refreshing                              *)
(*     \---------------> gating -> sent -> idle                             *)
(*                                                                         *)
(* Simplification: the clock does not go back.                               *)
(***************************************************************************)
EXTENDS SystemFacts

CONSTANTS
  Systems,   \* the measurements the machine may show
  Selections,\* the sets of checks a query may select
  MaxAge,    \* FRESHNESS_POLICY: the age a fact of a category may have
  StorageIds,\* the ids of facts about mounted devices
  MaxTime,   \* bound: the clock stops here
  MaxCalls   \* bound: diagnoses and gatings

Category == {"cpu", "memory", "gpu", "temperature", "processes", "storage", "network"}

\* The policy: memory, temperature and processes soonest, then the processor and
\* the network, then the graphics card, storage last.
ASSUME FreshnessAssumption ==
  /\ MaxAge \in [Category -> Nat]
  /\ MaxAge["memory"] = MaxAge["temperature"] /\ MaxAge["memory"] = MaxAge["processes"]
  /\ MaxAge["memory"] < MaxAge["cpu"] /\ MaxAge["cpu"] = MaxAge["network"]
  /\ MaxAge["cpu"] < MaxAge["gpu"] /\ MaxAge["gpu"] < MaxAge["storage"]
  /\ MaxTime \in Nat /\ MaxCalls \in Nat

\* What an adapter may measure and a query may select (types.ts).  The facts about
\* devices have ids of their own: diagnose.ts makes them of a prefix and the mount.
ASSUME MeasurementAssumption ==
  /\ Selections \subseteq SUBSET CheckName
  /\ StorageIds \cap FixedIds = {}
  /\ Systems \subseteq
       [cpu : Nat, ram : Nat, genericGpu : BOOLEAN, temperature : Nat,
        disks : Seq([id : StorageIds, used : Nat]), busiest : Nat]

VARIABLES
  now,         \* the clock
  system,      \* what the machine shows
  pc,          \* where the diagnosis stands
  calls,       \* how many there were
  began,       \* when the gating began
  selection,   \* the checks of the query
  reading,     \* what the adapter measured for the current await
  input,       \* the facts to gate, each stamped with the time it was made
  position,    \* the next of them
  included, refreshed,         \* the facts that are sent
  omittedStale, needsRefresh,  \* the ids that are not
  instrumentation,             \* what became of each fact
  kept                         \* the facts a caller kept of the last answer

resultVars == <<included, refreshed, omittedStale, needsRefresh, instrumentation>>
gateVars == <<now, system, pc, calls, began, selection, reading, input, position, resultVars, kept>>

NoReading == [taken |-> FALSE]

\* A fact's stamp is when it was made, its reading when the machine was read.
Stamped(facts, at, read) ==
  [n \in DOMAIN facts |-> [fact |-> facts[n], observedAt |-> at, readAt |-> read]]

-----------------------------------------------------------------------------
(* The policy. *)

ExtractCategory(id) ==
  IF id \in StorageIds THEN "storage"
  ELSE CASE id = "cpu-status" -> "cpu"
         [] id = "ram-status" -> "memory"
         [] id \in {"gpu-generic-driver", "gpu-driver-ok"} -> "gpu"
         [] id = "temperature-status" -> "temperature"
         [] id \in {"heavy-processes", "processes-ok"} -> "processes"
         [] id = "network-status" -> "network"

\* classifyEpistemicState, at the present time.
Stale(observedAt, id) == now - observedAt > MaxAge[ExtractCategory(id)]

\* The ids that belong to a selection: no storage fact has the id it lists.
RelevantChecks(checks) ==
  (IF "cpu" \in checks THEN {"cpu-status"} ELSE {})
  \cup (IF "ram" \in checks THEN {"ram-status"} ELSE {})
  \cup (IF "temperature" \in checks THEN {"temperature-status"} ELSE {})
  \cup (IF "storage" \in checks THEN {"storage-status"} ELSE {})
  \cup (IF "network" \in checks THEN {"network-status"} ELSE {})
  \cup (IF "processes" \in checks THEN {"processes-status", "heavy-processes", "processes-ok"} ELSE {})
  \cup (IF "gpu" \in checks THEN {"gpu-status", "gpu-generic-driver", "gpu-driver-ok"} ELSE {})

-----------------------------------------------------------------------------
(* A diagnosis begins. *)

Cleared ==
  /\ included' = <<>> /\ refreshed' = <<>>
  /\ omittedStale' = <<>> /\ needsRefresh' = <<>>
  /\ instrumentation' = <<>>

Diagnose(checks) ==
  /\ pc = "idle" /\ calls < MaxCalls
  /\ pc' = "measuring"
  /\ calls' = calls + 1
  /\ selection' = checks
  /\ reading' = NoReading
  /\ UNCHANGED <<now, system, began, input, position, resultVars, kept>>

\* applyFreshnessGating called by the holder of earlier facts.
GateKept(checks) ==
  /\ pc = "idle" /\ calls < MaxCalls /\ kept # <<>>
  /\ pc' = "gating"
  /\ calls' = calls + 1
  /\ began' = now
  /\ selection' = checks
  /\ input' = kept
  /\ position' = 1
  /\ Cleared
  /\ UNCHANGED <<now, system, reading, kept>>

\* The adapter reads the machine some time during an await.
AdapterReads ==
  /\ pc \in {"measuring", "refreshing"} /\ ~reading.taken
  /\ reading' = [taken |-> TRUE, system |-> system, at |-> now]
  /\ UNCHANGED <<now, system, pc, calls, began, selection, input, position, resultVars, kept>>

\* systemInfo throws: diagnose rejects.
MeasuringFails ==
  /\ pc = "measuring"
  /\ pc' = "idle"
  /\ UNCHANGED <<now, system, calls, began, selection, reading, input, position, resultVars, kept>>

\* Every fact is stamped with the time of the analysis, not of the reading.
Analyze ==
  /\ pc = "measuring" /\ reading.taken
  /\ pc' = "gating"
  /\ began' = now
  /\ input' = Stamped(AnalyzeForQuery(reading.system, selection), now, reading.at)
  /\ position' = 1
  /\ reading' = NoReading
  /\ Cleared
  /\ UNCHANGED <<now, system, calls, selection, kept>>

-----------------------------------------------------------------------------
(* The loop of applyFreshnessGating. *)

Current == input[position]
Gating == pc = "gating" /\ position <= Len(input)
Relevant == Current.fact.id \in RelevantChecks(selection)
IsStale == Stale(Current.observedAt, Current.fact.id)

Instrument(before, required, performed, after) ==
  instrumentation' = Append(instrumentation,
    [field |-> Current.fact.id, before |-> before, required |-> required,
     performed |-> performed, after |-> after])

Continue == pc' = "gating" /\ position' = position + 1

Include ==
  /\ Gating /\ ~IsStale
  /\ included' = Append(included, Current)
  /\ Instrument("observed", FALSE, FALSE, "observed")
  /\ Continue
  /\ UNCHANGED <<now, system, calls, began, selection, reading, input,
                 refreshed, omittedStale, needsRefresh, kept>>

Omit ==
  /\ Gating /\ IsStale /\ ~Relevant
  /\ omittedStale' = Append(omittedStale, Current.fact.id)
  /\ Instrument("stale", FALSE, FALSE, "stale")
  /\ Continue
  /\ UNCHANGED <<now, system, calls, began, selection, reading, input,
                 included, refreshed, needsRefresh, kept>>

\* Mutant: a refresh that yields nothing is not reported.
GiveUpSilently ==
  /\ Instrument("stale", TRUE, FALSE, "stale")
  /\ Continue
  /\ UNCHANGED <<now, system, calls, began, selection, input,
                 included, refreshed, omittedStale, needsRefresh, kept>>

GiveUp ==
  /\ needsRefresh' = Append(needsRefresh, Current.fact.id)
  /\ Instrument("stale", TRUE, FALSE, "stale")
  /\ Continue
  /\ UNCHANGED <<now, system, calls, began, selection, input,
                 included, refreshed, omittedStale, kept>>

NoRefreshFunction ==
  /\ Gating /\ IsStale /\ Relevant
  /\ Current.fact.id \notin Refreshable
  /\ GiveUp
  /\ UNCHANGED reading

BeginRefresh ==
  /\ Gating /\ IsStale /\ Relevant
  /\ Current.fact.id \in Refreshable
  /\ pc' = "refreshing"
  /\ reading' = NoReading
  /\ UNCHANGED <<now, system, calls, began, selection, input, position, resultVars, kept>>

\* Mutant: the fact that was found stale is sent in place of the new one.
FreshFactKept == Stamped(<<Current.fact>>, Current.observedAt, Current.readAt)

\* What the refresh function returns: made now, at most one fact.
FreshFact == Stamped(RefreshField(Current.fact.id, reading.system), now, reading.at)

Refresh ==
  /\ pc = "refreshing" /\ reading.taken
  /\ reading' = NoReading
  /\ IF FreshFact = <<>> THEN GiveUp
     ELSE /\ refreshed' = Append(refreshed, FreshFact[1])
          /\ Instrument("stale", TRUE, TRUE, "observed")
          /\ Continue
          /\ UNCHANGED <<now, system, calls, began, selection, input,
                         included, omittedStale, needsRefresh, kept>>

\* systemInfo throws.
RefreshFails ==
  /\ pc = "refreshing"
  /\ reading' = NoReading
  /\ GiveUp

\* getGatedObservations: what is sent.
Sent == included \o refreshed

\* diagnose answers, and a caller keeps what was sent.
Answer ==
  /\ pc = "gating" /\ position > Len(input)
  /\ pc' = "sent"
  /\ kept' = Sent
  /\ UNCHANGED <<now, system, calls, began, selection, reading, input, position, resultVars>>

\* The arrays of a gating are its own and go with it.
Rest ==
  /\ pc = "sent"
  /\ pc' = "idle"
  /\ selection' = {} /\ began' = 0
  /\ input' = <<>> /\ position' = 1
  /\ Cleared
  /\ UNCHANGED <<now, system, calls, reading, kept>>

-----------------------------------------------------------------------------
(* buildAuditTrail: the entries of the instrumentation it lists.  An entry stands *)
(* for its field; the lists keep the order of the entries.                      *)

EntriesWhere(Test(_)) == {n \in DOMAIN instrumentation : Test(instrumentation[n])}
StaleFields == EntriesWhere(LAMBDA i : i.before = "stale")
RefreshRequired == EntriesWhere(LAMBDA i : i.required)
RefreshPerformed == EntriesWhere(LAMBDA i : i.performed)
FieldsOf(entries) == {instrumentation[n].field : n \in entries}

-----------------------------------------------------------------------------
Tick ==
  /\ now < MaxTime
  /\ now' = now + 1
  /\ UNCHANGED <<system, pc, calls, began, selection, reading, input, position, resultVars, kept>>

MachineChanges ==
  /\ system' \in Systems
  /\ UNCHANGED <<now, pc, calls, began, selection, reading, input, position, resultVars, kept>>

GateInit ==
  /\ now = 0
  /\ system \in Systems
  /\ pc = "idle"
  /\ calls = 0 /\ began = 0
  /\ selection = {}
  /\ reading = NoReading
  /\ input = <<>> /\ position = 1
  /\ included = <<>> /\ refreshed = <<>>
  /\ omittedStale = <<>> /\ needsRefresh = <<>>
  /\ instrumentation = <<>>
  /\ kept = <<>>

GateStep ==
  \/ \E checks \in Selections : Diagnose(checks) \/ GateKept(checks)
  \/ AdapterReads \/ MeasuringFails \/ Analyze
  \/ Include \/ Omit \/ NoRefreshFunction \/ BeginRefresh \/ Refresh \/ RefreshFails
  \/ Answer

Environment == Tick \/ MachineChanges

-----------------------------------------------------------------------------
(* Properties. *)

\* The category of what a check measures, by the policy's own comment.
CategoryOfCheck(check) == IF check = "ram" THEN "memory" ELSE check

\* No fact that is sent was stale when the gating began, whatever it is about,
\* and one that was measured again was measured after the gating began: the rule
\* at the head of freshness-gating.ts, "nunca enviar como actual".
SentIsRecent ==
  pc = "sent" =>
    /\ \A n \in DOMAIN Sent :
         began - Sent[n].observedAt <= MaxAge[CategoryOfCheck(Sent[n].fact.check)]
    /\ \A n \in DOMAIN refreshed : refreshed[n].readAt >= began

\* Every fact gated ends in exactly one list; one whose check the query selected
\* is not dropped as irrelevant, and what is sent in its place is about the same
\* check (facts about disks are the exception: relevantChecks names an id that no
\* fact has).  The audit trail agrees: it names as refreshed the facts in refreshed
\* and asks for no refresh that was neither done nor reported (diagnose.ts,
\* buildAuditTrail).
FactsAreAccounted ==
  pc = "sent" =>
    /\ Len(included) + Len(refreshed) + Len(omittedStale) + Len(needsRefresh) = Len(input)
    /\ \A n \in DOMAIN input :
         LET fact == input[n].fact
         IN fact.check \in selection \ {"storage"} =>
              \/ \E m \in DOMAIN Sent : Sent[m].fact.check = fact.check
              \/ \E m \in DOMAIN needsRefresh : needsRefresh[m] = fact.id
    /\ Cardinality(StaleFields) = Len(refreshed) + Len(omittedStale) + Len(needsRefresh)
    /\ Cardinality(RefreshPerformed) = Len(refreshed)
    /\ FieldsOf(RefreshRequired) = FieldsOf(RefreshPerformed) \cup ToSet(needsRefresh)

=============================================================================
