CONSTANTS
  N = 2
  BlSize = 2
  BufSize = 2
  MaxSize = 4
  AppLen = 1
  SecLen = 2
  Files <- RoundFile
  Damage = {}
  Faults = {}
  OtaAreas = {TRUE}
SPECIFICATION Spec
PROPERTIES SoundFileAccepted
