SPECIFICATION LiveSpec
CONSTANTS
  Callers = {c1, c2, c3}
  Keys = {k1, k2}
  MaxFlights = 1
  None = None
INVARIANTS TypeOK Coalesced NoWaiterAborted TableBounded
PROPERTY EveryCallerAnswered
CHECK_DEADLOCK FALSE
