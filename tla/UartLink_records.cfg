SPECIFICATION Spec
CONSTANTS
  Prefixed = TRUE
  Messages <- MCMessages
  Address = 1
  MaxFaults = 1
  MaxBurst = 16
INVARIANTS AcceptedWereSent EveryFrameArrives
CHECK_DEADLOCK FALSE
