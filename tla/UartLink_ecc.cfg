SPECIFICATION Spec
CONSTANTS
  Prefixed = FALSE
  Messages <- MCMessages
  Address = 1
  MaxFaults = 0
  MaxBurst = 16
INVARIANT EveryFrameArrives
CHECK_DEADLOCK FALSE
