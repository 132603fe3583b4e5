SPECIFICATION Spec
CONSTANTS
  Runner = run
  later = later
  Others <- Later
  RunCommands = {"run", "run detach"}
  LaterCommands = {"collect", "collect keep", "stop"}
  Nobody = nobody
  Peers = 3
  BatchSize = 2
INVARIANTS
  ResultsSurvive
  StagedStart
  RemovalIsThorough
PROPERTY
  InvocationsEnd
CHECK_DEADLOCK FALSE
