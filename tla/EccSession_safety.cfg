SPECIFICATION Spec
CONSTANTS
  a = a
  b = b
  Slaves = {a, b}
  SlaveId <- MCSlaveId
  ClientId = "idC"
  Incidents = {"garble", "lose", "timeout", "restart_master", "kill_master_in_save", "crash_slave", "kill_slave_in_save", "delete_master_state", "delete_slave_state", "regenerate_pki"}
  MaxConnects = 3
  MaxIncidents = 2
  MaxPki = 1
INVARIANTS KeyAgreement ServesOnlyTheReady SameGeneration
PROPERTIES SlaveSurvives
SYMMETRY MCSymmetry
CHECK_DEADLOCK FALSE
