\* A confirmed call with prerequisites, one nobody can confirm, an odd one, a guest.
SPECIFICATION Spec
CONSTANTS
  c1 = c1
  c2 = c2
  c3 = c3
  g1 = g1
  Call = {c1, c2, c3}
  Guest = {g1}
  Action <- Actions
  Definition <- Definitions
  Tool = {"powershell"}
  Privilege = {"adb"}
  AskedOf <- Asked
  GuestAsks <- Guests
  Platform = "windows"
  TTL = 1
  MaxTime = 2
  MaxChanges = 2
INVARIANTS
  TypeOK
  GrantsAreBound
  StartsAreJustified
CHECK_DEADLOCK FALSE
