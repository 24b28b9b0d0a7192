SPECIFICATION Spec
CONSTANTS
  Observers = {"o1", "o2", "o3"}
  Types     = {"key", "net"}
  SubTypes  = {"up", "any"}
  AllSub    = "any"
  Watch    <- Watching
  Habits    = {"retouch_self"}
PROPERTY CallsKept
