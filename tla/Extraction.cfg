SPECIFICATION Spec
CONSTANTS
  None = None
  a1 = a1
  a2 = a2
  p1 = p1
  p2 = p2
  p3 = p3
  q1 = q1
  q2 = q2
  q3 = q3
  n1 = n1
  d1 = d1
  Generic = Generic
  Actions <- MCActions
  Names <- MCNames
  Kind <- MCKind
  Match <- MCMatch
  Directives <- MCActions
  Quotes <- MCQuotes
  Reading <- MCReading
  Similar <- MCSimilar
  Unrelated <- MCUnrelated
  NewRefs <- MCNewRefs
  Inputs <- MCInputs
  MaxTasks = 2
  Segments = 2
  Retries = 1
  WithSummary = TRUE
  MaxEvents = 3
INVARIANTS CleanCardIsSettled EverySegmentOnce
PROPERTIES AgreementNeedsConsent LoopEnds
