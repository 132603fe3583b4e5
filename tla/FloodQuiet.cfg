SPECIFICATION Spec
CONSTANTS
  n1 = n1
  n2 = n2
  n3 = n3
  n4 = n4
  m1 = m1
  m2 = m2
  Source = Source
  NoMessage = NoMessage
  Nodes = {n1, n2, n3, n4}
  Neighbors <- Paw
  Messages = {m1}
  Origin <- OriginN1
  Workers = {1}
  Configured = {"base_flooding", "duplicate_aware_flooding", "idontwant_flooding", "hopwave"}
  WaveI = 2
  WaveF = 50
  ProcessQueueCapacity = 1
  EdgeQueueCapacity = 1
  Lossy = FALSE
  StreamFaults = FALSE
  MayCrash = {}
INVARIANTS
  PlanCarriedOut
  NeverBackToSupplier
  HopBound
  WaveFollowsHop
PROPERTIES
  PropagatesFairly
CHECK_DEADLOCK FALSE
