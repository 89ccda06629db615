SPECIFICATION Spec
CONSTANTS
  Authors = {1, 2}
  Self = 2
  Founded = FALSE
  Alone = TRUE
  MaxTyped = 1
  MaxOthers = 1
  MaxHeld = 1
PROPERTY Unblocked
CHECK_DEADLOCK FALSE
