SPECIFICATION FairSpec
CONSTANTS
  Leader = 2
  Joiners = {1, 3}
  Contact <- MCContact
  MaxLines = 2
  MaxCrashes = 1
  MaxReports = 2
INVARIANTS IInv ViewsConverge TablesAgree
PROPERTIES StaysInStep GoneAreForgotten JoinsSucceed
CHECK_DEADLOCK FALSE
