SPECIFICATION Spec
CONSTANTS
  m1 = m1
  m2 = m2
  Messages = {m1, m2}
  N = 3
  MaxClock = 4
INVARIANTS
  RowsAreExact
  ReachedAreHolders
  NeverOverstated
CHECK_DEADLOCK FALSE
