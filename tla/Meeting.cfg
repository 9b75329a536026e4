CONSTANTS
  Sessions = {s1}
  Pages = {p1}
  None = None
  MaxAttempts = 2
  Handlers = 2
  MaxRetries = 1
  MaxRepeated = 1
  MaxProtocols = 2
  MaxChanges = 1
  LeaseLapses = FALSE
  LateLivePass = FALSE
  PromptLoads = TRUE
SPECIFICATION Spec
SYMMETRY Symmetry
INVARIANTS
  ApprovedIsQuiet
  ProcessingIsDriven
  SignedVersionIsClosed
  PageFollows
CHECK_DEADLOCK FALSE
