\* A verify, a search, a method, a notification and a tool that does not exist.
\* Deadlock is off: the server exits.
SPECIFICATION FairSpec
CONSTANTS
  v1 = v1
  s1 = s1
  s0 = s0
  c1 = c1
  m1 = m1
  n1 = n1
  u1 = u1
  Request = {v1, s1, u1, m1, n1}
  Call = {v1, s1}
  KindOf <- AllKinds
INVARIANTS
  TypeOK
  NoAnswerLost
  AnswersAreHonest
PROPERTIES
  EveryCallAnswered
  ServerEnds
CHECK_DEADLOCK FALSE
