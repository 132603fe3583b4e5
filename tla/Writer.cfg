SPECIFICATION Spec
CONSTANTS
  p1 = p1
  p2 = p2
  c1 = c1
  c2 = c2
  NoAnswer = NoAnswer
  Producers <- MCProducers
  Finalizers <- MCFinalizers
  MaxEvents = 2
  QueueCapacity = 1
  DiskFaults = TRUE
INVARIANTS
  NeverSendsOnClosed
  NothingLost
  ResultsAreComplete
  NoHoles
PROPERTIES
  EveryCallEnds
CHECK_DEADLOCK FALSE
