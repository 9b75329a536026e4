CONSTANTS
  final1 = final1
  diar1 = diar1
  extr1 = extr1
  p1 = p1
  p2 = p2
  a1 = a1
  a2 = a2
  None = None
  Jobs <- PipeJobs
  AsrJobs <- NoAsr
  HeavyJobs <- PipeHeavy
  Priority <- PipePriority
  MaxAttempts = 2
  Workers <- PipeWorkers
  AsrWorkers <- NoAsr
  Exclusive = TRUE
SPECIFICATION FairSpec
PROPERTIES
  AllSettle
CHECK_DEADLOCK FALSE
