\* Every executor on both systems, the machine changing twice between its commands.
SPECIFICATION Spec
CONSTANTS
  MaxChanges = 2
INVARIANTS
  ClaimsWereTrue
  EvidenceIsEarned
CHECK_DEADLOCK FALSE
