SPECIFICATION FairSpec
CONSTANTS
  Msgs = {m1, m2}
  Kinds = {"transit"}
  MaxSid = 1
  MaxRev = 4
  MaxQueue = 2
  MaxFaults = 1
CHECK_DEADLOCK FALSE
INVARIANTS TypeOK SerialBackstop
PROPERTY OrphansReleased TurnsEnd
