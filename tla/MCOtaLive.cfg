CONSTANTS
  N = 2
  BlSize = 2
  BufSize = 2
  MaxSize = 3
  AppLen = 1
  SecLen = 2
  Files <- AnyFile
  Damage = {"bad"}
  Faults <- AllFaults
  OtaAreas = {TRUE, FALSE}
SPECIFICATION FairSpec
INVARIANTS SomeAppLoads
PROPERTIES BootStarts UpdateEnds
