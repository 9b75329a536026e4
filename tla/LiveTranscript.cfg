SPECIFICATION Spec
CONSTANTS
  Scripts <- MCScripts
  Chunks = {5, 11}
  StepLen = 15
  MinFirst = 10
  MaxWindow = 30
  PhraseEnd = 8
  PauseSplit = 12
  MaxUtterance = 20
  MaxRead = 15
  MaxFaults = 1
INVARIANTS OnceInOrder NothingTwice NoBridgedPause WindowBounded
CHECK_DEADLOCK FALSE
