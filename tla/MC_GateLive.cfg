\* One key, three calls: a retry of the same action and a reuse for another one,
\* for which no executor is registered.
SPECIFICATION FairSpec
CONSTANTS
  i1 = i1
  i2 = i2
  i3 = i3
  p1 = p1
  p2 = p2
  k1 = k1
  f1 = f1
  f2 = f2
  h1 = h1
  Process = {p1, p2}
  HostOf <- OneHost
  Invocation = {i1, i2, i3}
  Admin = {}
  ProcOf <- TwoProcesses
  Key = {k1}
  NoKey = NoKey
  KeyOf <- OneKey
  Fingerprint = {f1, f2}
  NoFp = NoFp
  FpOf <- OtherAction
  Nobody = Nobody
  Faults = {"lock", "claim", "write", "late"}
  MaxFaults = 1
  Mortal = {p1, p2}
  Executable = {f1}
  Confirm = {f1}
INVARIANTS
  KeyBoundToFingerprint
  CachedIsJustified
PROPERTIES
  EventuallyAnswered
CHECK_DEADLOCK FALSE
