SPECIFICATION FairSpec
CONSTANTS
  MaxRuns = 3
  MaxFaults = 2
CHECK_DEADLOCK FALSE
INVARIANTS
  TypeOK
  RetainedSlotIntact
  OkIsServed
  OneFailureHeals
  SlotsDisjoint
PROPERTY
  RunSettles
