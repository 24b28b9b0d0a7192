SPECIFICATION FairSpec
CONSTANTS
  Observers = {"o1", "o2", "o3"}
  Types     = {"key", "net"}
  SubTypes  = {"up", "any"}
  AllSub    = "any"
  Watch    <- Watching
  Habits    = {}
INVARIANTS TypeOK NoUseAfterFree AttachedIsListed
PROPERTIES ImplementsBus CallsKept NotifyEnds
