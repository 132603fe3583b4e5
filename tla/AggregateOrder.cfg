SPECIFICATION Spec
CONSTANTS
  m1 = m1
  m2 = m2
  Messages = {m1}
  N = 2
  MaxClock = 3
INVARIANTS
  CompletionIsLastArrival
CHECK_DEADLOCK FALSE
