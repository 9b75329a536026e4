CONSTANTS
  MaxConns = 2
  Window = 2
  SupersedeTimeout = TRUE
  StaleHello = TRUE
  MaxCrashes = 1
  MaxFrames = 3
  Limit = 1
  SlowServer = TRUE
SPECIFICATION FairSpec
INVARIANTS
  ReleasedIsSafe
  AckHonest
  NoFalseGap
  NoSilentLossAtRest
PROPERTIES
  CheckpointMonotone
  ImplementsRecording
  StopCompletes
CHECK_DEADLOCK FALSE
