\* Two calls with one key and one without, the same action, two processes.
SPECIFICATION Spec
CONSTANTS
  i1 = i1
  i2 = i2
  i3 = i3
  p1 = p1
  p2 = p2
  k1 = k1
  f1 = f1
  f2 = f2
  h1 = h1
  Process = {p1, p2}
  HostOf <- OneHost
  Invocation = {i1, i2, i3}
  Admin = {}
  ProcOf <- TwoProcesses
  Key = {k1}
  NoKey = NoKey
  KeyOf <- RetryAndKeyless
  Fingerprint = {f1}
  NoFp = NoFp
  FpOf <- SameAction
  Nobody = Nobody
  Faults = {"lock", "claim", "read", "write", "torn", "late"}
  MaxFaults = 2
  Mortal = {p1, p2}
  Executable = {f1}
  Confirm = {f1}
INVARIANTS
  TypeOK
  AtMostOnce
  OneRunPerFingerprint
  EffectIsRemembered
  RecordIsEvidence
CHECK_DEADLOCK FALSE
