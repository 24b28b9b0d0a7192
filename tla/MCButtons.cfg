SPECIFICATION FairSpec
CONSTANTS
  k1 = k1
  k2 = k2
  Keys  <- TwoKeys
  Kinds <- KindsHere
  Races = {}
INVARIANTS TypeOK NoUseAfterFree HeldIsCurrent OverlookedOnlyForTimer
PROPERTIES ImplementsProtocol HeldReleased
