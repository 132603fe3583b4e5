SPECIFICATION Spec
CONSTANTS
  Nodes <- Pair
  Edges <- PairEdges
  Traffics <- FixedAndRandom
  AnyNode <- RandomSource
  Parallelisms = {1, 2}
  MaxFaults = 1
INVARIANTS
  SuccessIsComplete
  OverlayBeforeTraffic
  TrafficThenFinalize
PROPERTY
  RunEnds
CHECK_DEADLOCK FALSE
