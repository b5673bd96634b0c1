SPECIFICATION Spec
CONSTANTS
  p1 = p1
  p2 = p2
  Procs = {p1, p2}
  MaxFaults = 1
  MaxCancels = 1
  CommitsLate = TRUE
SYMMETRY Symmetry
CHECK_DEADLOCK FALSE
INVARIANTS
  TypeOK
  AtMostOnce
  Quiescent
  FaithfulOutcome
  AnnouncedIsDurable
  IndInv
PROPERTIES
  TerminalStable
  ImplementsContract
