CONSTANTS
  N = 2
  BlSize = 2
  BufSize = 2
  MaxSize = 4
  AppLen = 1
  SecLen = 2
  Files <- AnyFile
  Damage = {"weak"}
  Faults <- MoreFaults
  OtaAreas = {TRUE, FALSE}
SPECIFICATION Spec
INVARIANTS TypeOK BootsTrusted
PROPERTIES BootTargetUntouched KeepsPromise
