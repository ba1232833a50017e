SPECIFICATION Spec
CONSTANTS
  Size = 2
  Threads = {t1, t2}
  Pdus <- MCPdus
  Faults = {"garble", "lose", "timeout", "crash"}
  CounterLimit = 2
  MaxCalls = 3
  MaxFaults = 1
INVARIANTS TypeOK AtMostOnce NonceNeverReused OldRequestsFirst
PROPERTIES AnswerMatches ServiceKept SlaveOutlastsCounter

SYMMETRY Symmetry
CHECK_DEADLOCK FALSE
