SPECIFICATION Spec
CONSTANTS
  Addresses = {1}
  ClientIds = {"c1"}
  ServerIds = {"s1", "s2"}
  Requests = {"in", "out"}
  Served = {"in"}
  MaxMasterRuns = 3
  MaxSlaveRuns = 2
  MaxAttempts = 4
  MaxIncidents = 2
INVARIANTS SlaveAgrees ReadsWhatItAsked CleanRunSucceeds
PROPERTY PromiseKept
CHECK_DEADLOCK FALSE
