SPECIFICATION FairSpec
CONSTANTS
  Addrs = {a, b}
  MaxStarts = 3
  MaxLosses = 2
  MaxReports = 2
INVARIANTS IInv LiveStayListed
PROPERTIES RepeatsHarmless HeardAreForgotten
CHECK_DEADLOCK FALSE
