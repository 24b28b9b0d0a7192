SPECIFICATION Spec
CONSTANTS
  k1 = k1
  k2 = k2
  Keys  <- TwoKeys
  Kinds <- KindsHere
  Races = {"late_expiry"}
PROPERTY ImplementsProtocol
