SPECIFICATION LiveSpec
CONSTANTS
  Procs = {p1, p2}
  MaxJobs = 2
  MaxConcurrent = 2
  MaxImmediate = 2
  MaxCalls = 1
  MaxFaults = 1
CHECK_DEADLOCK FALSE
INVARIANTS TypeOK 
PROPERTY QueueDrains
