SPECIFICATION Spec
CONSTANTS
  Addresses = {1, 2}
  Passwords = {"pw"}
  ClientIds = {"c1"}
  ServerIds = {"s1", "s2"}
  Requests = {"in", "out"}
  Served = {"in"}
  MaxMasterRuns = 3
  MaxSlaveRuns = 3
  MaxIncidents = 2
INVARIANTS Agreement FreshKeys ReadsWhatItAsked CleanRunSucceeds
PROPERTY PromiseKept
CHECK_DEADLOCK FALSE
