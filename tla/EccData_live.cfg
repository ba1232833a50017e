SPECIFICATION FairSpec
CONSTANTS
  Size = 2
  Threads = {t1, t2}
  Pdus <- MCOnePdu
  Faults = {"garble", "timeout", "lose", "duplicate", "crash"}
  CounterLimit = 2
  MaxCalls = 3
  MaxFaults = 1
PROPERTIES EveryCallReturns StoppedLetsGo

CHECK_DEADLOCK FALSE
