SPECIFICATION Spec
CONSTANTS
  s = s
  a = a
  b = b
  Procs <- MCProcs
  Leader = s
  SocketList <- MCSocketList
  MaxTries = 1
  Prompt = FALSE
  MaxTyped <- OneByA
  MaxTimeouts = 2
  MaxCrashes = 0
INVARIANTS IInv MembersFollowLog
PROPERTY TotalOrderSpec
CHECK_DEADLOCK FALSE
