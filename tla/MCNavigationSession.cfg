SPECIFICATION Spec
CONSTANTS
  Msgs = {m1, m2, m3}
  Kinds = {"ground"}
  MaxSid = 2
  MaxRev = 4
  MaxQueue = 1
  MaxFaults = 1
CHECK_DEADLOCK FALSE
INVARIANTS NoMutationAfterStop StampedOnce
PROPERTY TrackingIsRecorded AnswerFitsRoute ImplementsSession
