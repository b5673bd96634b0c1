SPECIFICATION LiveSpec
CONSTANTS
  v1 = v1
  Viewers = {v1}
  RingSize = 1
  MaxPending = 1
  MaxChanges = 4
  MaxRestarts = 1
  MaxDisconnects = 2
CHECK_DEADLOCK FALSE
INVARIANTS
  TypeOK
  LiveIsComplete
PROPERTIES
  ViewersEnd
