SPECIFICATION Spec
CONSTANTS
  Procs = {1, 2, 3, 4}
  Founder = 2
  Silence = 5
  Patience = 15
  Pause = 3
  Period = 3
  MaxCrashes = 2
INVARIANTS IInv AtMostOneLeader HighestLeads NoFalseSuspicion
PROPERTY SurvivorsAgree
CHECK_DEADLOCK FALSE
