SPECIFICATION Spec
CONSTANTS
  MaxRuns = 3
  MaxFaults = 1
CHECK_DEADLOCK FALSE
PROPERTY
  ImportsInactiveSlot
