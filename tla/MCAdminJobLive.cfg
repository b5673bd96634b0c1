SPECIFICATION LiveSpec
CONSTANTS
  p1 = p1
  Procs = {p1}
  MaxFaults = 1
  MaxCancels = 1
  CommitsLate = TRUE
CHECK_DEADLOCK FALSE
PROPERTIES
  EffectSettles
