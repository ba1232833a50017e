SPECIFICATION FairSpec
CONSTANTS
  N = 2
  Ports = {1, 2, 3, 4}
  NoPort = 0
  OwnPort = 1
  Ephemeral = {4}
  Taken = {2}
  Preferred <- MCPreferred
  Threads = {"t1"}
  MainThread = "main"
  MaxStarts = 2
  MaxEvents <- MCMaxEvents
  MaxReads = 2
  MaxNested = 2
INVARIANTS OkMeansServed LeaksUnconnected NothingLeftRunning ForgottenOverlapped OrderlyEndStopsSlaves CtrlCReachesSlaves
PROPERTIES EndsOrHangs StopAnswered EveryReadAnswered
CHECK_DEADLOCK FALSE
