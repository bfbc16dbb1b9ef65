\* Three calls with one key, one operator; the first call runs on another host.
SPECIFICATION SystemSpec
CONSTANTS
  i1 = i1
  i2 = i2
  i3 = i3
  a1 = a1
  a2 = a2
  p1 = p1
  p2 = p2
  p3 = p3
  k1 = k1
  f1 = f1
  h1 = h1
  h2 = h2
  Process = {p1, p2, p3}
  HostOf <- OtherHost
  Invocation = {i1, i2, i3}
  Admin = {a1}
  ProcOf <- ActorProcess
  Key = {k1}
  NoKey = NoKey
  KeyOf <- Retries
  Fingerprint = {f1}
  NoFp = NoFp
  FpOf <- SameAction
  Nobody = Nobody
  Faults = {"lock", "read", "torn"}
  MaxFaults = 1
  Mortal = {}
  Executable = {f1}
  Confirm = {f1}
  Command <- KeyCommands
  NoCommand = NoCommand
INVARIANTS
  AdmissionInv
  PersistedStands
PROPERTIES
  KeepsGuarantee
CHECK_DEADLOCK FALSE
