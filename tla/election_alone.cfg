SPECIFICATION Spec
CONSTANTS
  Procs = {1, 2, 3}
  Founder = 2
  Silence = 5
  Patience = 15
  Pause = 3
  Period = 3
  MaxCrashes = 2
PROPERTY LeaderInTheEnd
CHECK_DEADLOCK FALSE
