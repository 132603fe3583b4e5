SPECIFICATION Spec
CONSTANTS
  p1 = p1
  p2 = p2
  d1 = d1
  d2 = d2
  d3 = d3
  c1 = c1
  c2 = c2
  Enqueuers <- MCEnqueuers
  Frames <- MCFrames
  ControlFrames <- MCControlFrames
  QueueCapacity = 2
INVARIANTS
  NoLostWakeup
  NoFrameTwice
PROPERTIES
  EdgeImplementsQueue
CHECK_DEADLOCK FALSE
