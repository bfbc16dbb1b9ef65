---------------------------- MODULE ActionMapping ----------------------------
(***************************************************************************)
(* From the facts of a diagnosis to what it recommends: the catalogue and the *)
(* conditions of its actions (core/action-registry.ts) and the choice among   *)
(* those that are eligible (core/action-mapper.ts).  Of the instructions for   *)
(* a platform only their status is kept; every action has one for each of the *)
(* three platforms.                                                         *)
(***************************************************************************)
EXTENDS SystemFacts

PlatformName == {"windows", "linux", "android-termux"}

Steps(windows, linux, android) ==
  "windows" :> windows @@ "linux" :> linux @@ "android-termux" :> android

\* An action that any one of its triggers makes eligible, from a severity on.
AnyOf(id, family, minSeverity, triggers, steps) ==
  [id |-> id, family |-> family, minSeverity |-> minSeverity, minMatches |-> 1,
   triggers |-> triggers, steps |-> steps]

CloseHeavyProcesses ==
  AnyOf("close-heavy-processes", "mitigate", "warning", {"heavy-processes", "cpu-status"},
        Steps("verified", "verified", "verified"))
ClearMemory ==
  AnyOf("clear-memory", "mitigate", "warning", {"ram-status"},
        Steps("verified", "partial", "partial"))
CheckThermal ==
  AnyOf("check-thermal", "investigate", "warning", {"temperature-status"},
        Steps("verified", "verified", "verified"))
FreeDiskSpace ==
  AnyOf("free-disk-space", "maintenance", "warning", {"storage-/"},
        Steps("verified", "verified", "partial"))
InstallGpuDriver ==
  AnyOf("install-gpu-driver", "mitigate", "warning", {"gpu-generic-driver"},
        Steps("verified", "partial", "unsupported"))
RestartNetwork ==
  AnyOf("restart-network", "mitigate", "warning", {"network-status"},
        Steps("verified", "verified", "verified"))
CloseChromeTabs ==
  AnyOf("close-chrome-tabs", "mitigate", "warning", {"heavy-processes"},
        Steps("verified", "verified", "verified"))
InspectProcesses ==
  AnyOf("inspect-processes", "investigate", "warning", {"heavy-processes", "cpu-status", "ram-status"},
        Steps("verified", "verified", "verified"))
CheckStartup ==
  AnyOf("check-startup", "investigate", "warning", {"cpu-status", "ram-status"},
        Steps("verified", "verified", "partial"))
ClearAppCache ==
  AnyOf("clear-app-cache", "maintenance", "warning", {"storage-/data", "storage-/"},
        Steps("unsupported", "unsupported", "partial"))
InspectStorageDetail ==
  AnyOf("inspect-storage-detail", "investigate", "warning", {"storage-/"},
        Steps("verified", "verified", "partial"))
RestartService ==
  AnyOf("restart-service", "mitigate", "error", {"network-status"},
        Steps("partial", "verified", "unsupported"))
CheckPermissions ==
  AnyOf("check-permissions", "inform", "warning", {"permissions-status", "tools-status"},
        Steps("verified", "verified", "partial"))
CheckToolsAvailability ==
  AnyOf("check-tools-availability", "inform", "warning", {"tools-status"},
        Steps("verified", "verified", "verified"))
\* Match mode all with two matches: two of the three triggers, one in error.
SafeReboot ==
  [AnyOf("safe-reboot", "escalate", "error", {"cpu-status", "ram-status", "temperature-status"},
         Steps("verified", "partial", "verified"))
     EXCEPT !.minMatches = 2]

ActionCatalog ==
  <<CloseHeavyProcesses, ClearMemory, CheckThermal, FreeDiskSpace, InstallGpuDriver,
    RestartNetwork, CloseChromeTabs, InspectProcesses, CheckStartup, ClearAppCache,
    InspectStorageDetail, RestartService, CheckPermissions, CheckToolsAvailability, SafeReboot>>

-----------------------------------------------------------------------------
\* A fact whose severity could not be told outranks an error.
SeverityRank == [ok |-> 0, warning |-> 1, error |-> 2, unknown |-> 3]
SeverityMeetsMinimum(actual, minimum) == SeverityRank[actual] >= SeverityRank[minimum]

MatchedChecks(entry, facts) == {n \in DOMAIN facts : facts[n].id \in entry.triggers}

\* Mutant: it is enough that a trigger was reported, however well it looked.
EligibleWhenReported(entry, facts) ==
  MatchedChecks(entry, facts) # {} /\ Cardinality(MatchedChecks(entry, facts)) >= entry.minMatches

CheckEligibility(entry, facts) ==
  LET matched == MatchedChecks(entry, facts)
  IN /\ \E n \in matched : SeverityMeetsMinimum(facts[n].severity, entry.minSeverity)
     /\ Cardinality(matched) >= entry.minMatches

FindActionsForChecks(facts) ==
  Filtered(ActionCatalog, {entry \in ToSet(ActionCatalog) : CheckEligibility(entry, facts)})

FamilyOrder == <<"investigate", "mitigate", "inform", "maintenance", "escalate">>
MaxActions == 3

\* More matching checks first, then fewer triggers, then the catalogue's order.
Preferred(eligible, m, n, facts) ==
  LET matches(k) == Cardinality(MatchedChecks(eligible[k], facts))
      triggers(k) == Cardinality(eligible[k].triggers)
  IN \/ matches(m) > matches(n)
     \/ matches(m) = matches(n) /\ triggers(m) < triggers(n)
     \/ matches(m) = matches(n) /\ triggers(m) = triggers(n) /\ m <= n

\* The best of each family that has one, families in their order, at most three.
ResolveConflicts(eligible, facts) ==
  LET ofFamily(f) == {n \in DOMAIN eligible : eligible[n].family = f}
      best(f) == CHOOSE m \in ofFamily(f) : \A n \in ofFamily(f) : Preferred(eligible, m, n, facts)
      present == Filtered(FamilyOrder, {f \in ToSet(FamilyOrder) : ofFamily(f) # {}})
      chosen == [n \in DOMAIN present |-> eligible[best(present[n])]]
  IN IF Len(chosen) > MaxActions THEN SubSeq(chosen, 1, MaxActions) ELSE chosen

\* evaluateConfidence, of the instructions for the platform.
Confidence(status) ==
  CASE status = "verified" -> "high"
    [] status = "partial" -> "medium"
    [] status = "unsupported" -> "low"

MapActions(facts, platform) ==
  LET resolved == ResolveConflicts(FindActionsForChecks(facts), facts)
  IN [n \in DOMAIN resolved |->
        [id |-> resolved[n].id, confidence |-> Confidence(resolved[n].steps[platform])]]

=============================================================================
