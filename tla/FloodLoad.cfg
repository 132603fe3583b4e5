SPECIFICATION Spec
CONSTANTS
  n1 = n1
  n2 = n2
  n3 = n3
  n4 = n4
  m1 = m1
  m2 = m2
  Source = Source
  NoMessage = NoMessage
  Nodes = {n1, n2, n3}
  Neighbors <- Triangle
  Messages = {m1, m2}
  Origin <- OriginApart
  Workers = {1, 2}
  Configured = {"base_flooding", "duplicate_aware_flooding"}
  WaveI = 1
  WaveF = 100
  ProcessQueueCapacity = 1
  EdgeQueueCapacity = 1
  Lossy = TRUE
  StreamFaults = FALSE
  MayCrash = {}
INVARIANTS
  ProcessedAtMostOnce
  GapsAreExplained
  SuppressionIsSafe
PROPERTIES
  PropagatesSafely
CHECK_DEADLOCK FALSE
