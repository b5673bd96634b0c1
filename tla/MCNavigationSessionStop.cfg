SPECIFICATION Spec
CONSTANTS
  Msgs = {m1, m2}
  Kinds = {"transit"}
  MaxSid = 1
  MaxRev = 4
  MaxQueue = 2
  MaxFaults = 0
CHECK_DEADLOCK FALSE
INVARIANT StopCancelsAlerts
