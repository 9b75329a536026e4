CONSTANTS
  MaxConns = 3
  Window = 2
  SupersedeTimeout = FALSE
  StaleHello = FALSE
  MaxCrashes = 1
  MaxFrames = 4
  Limit = 2
  SlowServer = FALSE
SPECIFICATION Spec
INVARIANTS
  NoSilentLoss
CHECK_DEADLOCK FALSE
