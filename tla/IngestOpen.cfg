CONSTANTS
  MaxConns = 1
  Window = 2
  SupersedeTimeout = TRUE
  StaleHello = FALSE
  MaxCrashes = 0
  Seqs = {0, 1, 2}
  Budget = 4
SPECIFICATION SpecOpen
INVARIANTS
  NoSilentLossWhileOpen
CHECK_DEADLOCK FALSE
