CONSTANTS
  final1 = final1
  diar1 = diar1
  extr1 = extr1
  p1 = p1
  p2 = p2
  a1 = a1
  a2 = a2
  None = None
  Jobs <- MCJobs
  AsrJobs <- MCAsrJobs
  HeavyJobs <- MCHeavy
  Priority <- MCPriority
  MaxAttempts = 2
  Workers <- MCWorkers
  AsrWorkers <- MCAsr
  Exclusive = TRUE
SPECIFICATION Spec
INVARIANTS
  RetryBudget
  SingleLease
  FencedOwner
  HeavyExclusion
PROPERTIES
  TerminalIsFinal
  NoStaleVerdict
CHECK_DEADLOCK FALSE
