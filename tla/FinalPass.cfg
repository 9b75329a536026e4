SPECIFICATION Spec
CONSTANTS
  Workers = {w1, w2}
  None = None
  Gone = Gone
  Chunks = 2
  MaxAttempts = 2
  MaxFaults = 3
INVARIANTS NoChunkTwice CompleteIsWhole
PROPERTIES EditedTextStays PassEnds
