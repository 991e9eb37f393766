CONSTANTS
  MaxTaps = 4
  MaxPickers = 2
  MaxInstances = 2
SPECIFICATION Spec
INVARIANTS TypeInvariant LastPickIsShown
CHECK_DEADLOCK FALSE
