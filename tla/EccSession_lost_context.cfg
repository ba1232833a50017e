SPECIFICATION FairSpec
CONSTANTS
  Slaves = {"a"}
  SlaveId <- MCSlaveId
  ClientId = "idC"
  Incidents = {"kill_master_in_save"}
  MaxConnects = 3
  MaxIncidents = 1
  MaxPki = 0
PROPERTIES QuietAttemptSucceeds
CHECK_DEADLOCK FALSE
