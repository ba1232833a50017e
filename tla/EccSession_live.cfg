SPECIFICATION FairSpec
CONSTANTS
  Slaves = {"a"}
  SlaveId <- MCSlaveId
  ClientId = "idC"
  Incidents = {"garble", "lose", "timeout", "restart_master", "crash_slave", "delete_slave_state"}
  MaxConnects = 3
  MaxIncidents = 3
  MaxPki = 0
INVARIANTS ContextsInStep AgreementInvariant
PROPERTIES PromiseKept QuietAttemptSucceeds SlaveFreed
CHECK_DEADLOCK FALSE
