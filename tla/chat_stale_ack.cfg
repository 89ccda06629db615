SPECIFICATION Spec
CONSTANTS
  s = s
  a = a
  b = b
  Procs <- MCTwo
  Leader = s
  SocketList <- MCTwoList
  MaxTries = 5
  Prompt = FALSE
  MaxTyped <- TwoA
  MaxTimeouts = 1
  MaxCrashes = 0
INVARIANT AckedLinesReachSequencer
CHECK_DEADLOCK FALSE
