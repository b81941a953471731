CONSTANTS
  MaxRequests = 3
  MaxControls = 2
SPECIFICATION Spec
INVARIANT RequestsKept
CHECK_DEADLOCK FALSE
