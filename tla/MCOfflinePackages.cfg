SPECIFICATION FairSpec
CONSTANTS
  Workers = {w1, w2}
  Principals = {p1, p2}
  Packages = {k1, k2}
  NoOne = NoOne
  Gone = Gone
  MaxJobs = 2
  MaxRunning = 1
  MaxOwnRunning = 1
  MaxOwnQueued = 2
  MaxPending = 1
  MaxRefs = 1
  MaxPackages = 1
  MaxFaults = 1
CHECK_DEADLOCK FALSE
INVARIANTS
  TypeOK
  ReferencedIsPublished
  ReadyIsPublished
  OneRowPerPackage
PROPERTY JobsSettle
