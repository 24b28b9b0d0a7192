SPECIFICATION FairSpec
CONSTANTS
  Looper = Looper
  Driver = Driver
  Tcpip = Tcpip
  app = app
  Apps <- MCApps
  Threads <- MCThreads
  Events <- NetEvents
  QueueLen = 2
INVARIANTS TypeOK NoDanglingSem NoLostCaller ToldTheTruth DriverAgrees ClientRuns
PROPERTIES ReturnsAfterHandler LinkFollows WaitsEnd
CHECK_DEADLOCK FALSE
