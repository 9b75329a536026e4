SPECIFICATION Spec
CONSTANTS
  MaxSound = 5
  MaxControls = 7
  MaxTimeouts = 3
INVARIANTS ClockShowsCapture NothingLeftBehind
PROPERTIES StopIsDefinitive SavingEnds
