SPECIFICATION Spec
CONSTANTS
  Procs = {1, 2, 3, 4}
  Founder = 1
  MaxLines = 7
  MaxCrashes = 2
INVARIANTS IInv NobodyLeftBehind FourthLineShown
CHECK_DEADLOCK FALSE
