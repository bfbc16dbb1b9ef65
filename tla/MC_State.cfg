\* Two actions and a scan; the evidence ledger holds one record, so it rotates.
SPECIFICATION FairSpec
CONSTANTS
  c1 = c1
  c2 = c2
  d1 = d1
  Act = {c1, c2}
  Doctor = {d1}
  NoCall = NoCall
  HistoryCap = 3
  EvidenceCap = 1
  Faults = {"lock", "read", "write", "crash", "damage"}
  MaxFaults = 1
INVARIANTS
  TypeOK
  LedgerIsTrue
PROPERTIES
  ScanIsKept
  CorruptIsKept
  EveryCommandEnds
CHECK_DEADLOCK FALSE
