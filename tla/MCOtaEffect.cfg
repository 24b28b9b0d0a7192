CONSTANTS
  N = 3
  BlSize = 2
  BufSize = 2
  MaxSize = 4
  AppLen = 1
  SecLen = 2
  Files <- SoundFile
  Damage = {}
  Faults = {}
  OtaAreas = {TRUE}
SPECIFICATION FairSpec
INVARIANTS BootsTrusted
PROPERTIES UpdateTakesEffect SoundFileAccepted
