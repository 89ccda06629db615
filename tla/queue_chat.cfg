SPECIFICATION FairSpec
CONSTANTS
  s = s
  j = j
  k = k
  S = s
  Joiners = {j, k}
  Contact <- MCContact
  LineKeys = {line}
  Nobody = Nobody
  MaxInputs = 2
  MaxAfter = 1
INVARIANTS TablesExact ShownAsRelayed LinesBeforeLeave
PROPERTIES JoinEnds OwnLinesReturn
CHECK_DEADLOCK FALSE
