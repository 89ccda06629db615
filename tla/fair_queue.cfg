SPECIFICATION Spec
CONSTANTS
  Authors = {1, 2}
  Self = 2
  Founded = FALSE
  Alone = FALSE
  MaxTyped = 3
  MaxOthers = 2
  MaxHeld = 1
INVARIANTS InOnePlace AuthorOrder KeepsOneLine
PROPERTY EveryLineShown
CHECK_DEADLOCK FALSE
