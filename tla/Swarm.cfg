SPECIFICATION Spec
CONSTANTS
  Slots <- MCSlots
  MaxAttempts = 2
  AnswersLost = TRUE
  MaxRestarts = 1
  MayDie <- MCMayDie
INVARIANTS
  NoMissedRegistration
  StrandedPeersStopTheRun
  ExperimentIsOurs
PROPERTIES
  RunEnds
  EveryoneIsConfigured
CHECK_DEADLOCK FALSE
