SPECIFICATION RegSpec
CONSTANTS
  v1 = v1
  v2 = v2
  Values = {v1, v2}
  MinCap = 2
  KeySpace = 16
  MaxKeyId = 8
SYMMETRY ValueSymmetry
INVARIANTS RegistryInvariant
PROPERTIES ImplementsMap
CHECK_DEADLOCK FALSE
