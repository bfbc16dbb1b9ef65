\* Two diagnoses or gatings, four ticks, stores of three entries.
SPECIFICATION Spec
CONSTANTS
  Systems <- TwoSystems
  Selections <- ThreeSelections
  MaxAge <- Ages
  StorageIds = {"storage-/"}
  MaxTime = 4
  MaxCalls = 2
  MaxStore = 3
  ErrorCategory = {"timeout"}
  MaxErrors = 1
INVARIANTS
  SentIsRecent
  FactsAreAccounted
  HealthFollowsNewest
CHECK_DEADLOCK FALSE
