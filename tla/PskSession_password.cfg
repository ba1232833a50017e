SPECIFICATION Spec
CONSTANTS
  Addresses = {1}
  Passwords = {"pw", "other"}
  ClientIds = {"c1"}
  ServerIds = {"s1"}
  Requests = {"in"}
  Served = {"in"}
  MaxMasterRuns = 1
  MaxSlaveRuns = 1
  MaxIncidents = 0
INVARIANT SessionsSharePassword
CHECK_DEADLOCK FALSE
