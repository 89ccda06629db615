SPECIFICATION FairSpec
CONSTANTS
  s = s
  a = a
  b = b
  Procs <- MCProcs
  Leader = s
  SocketList <- MCSocketList
  MaxTries = 2
  Prompt = TRUE
  MaxTyped <- TwoByA
  MaxTimeouts = 0
  MaxCrashes = 1
INVARIANTS LinesNumberedOnce SequencerShowsLog LiveMembersKeepUp
PROPERTY EveryLineShown
CHECK_DEADLOCK FALSE
