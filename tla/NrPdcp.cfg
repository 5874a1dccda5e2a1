SPECIFICATION Spec
CONSTANTS
  SnSize = 3
  CountBits = 5
  IntBits = 8
  TReorderings <- MCReorderings
  StartTime = 1
  MaxCount = 9
  MaxTime = 5
  MaxRx = 4
  Damage = TRUE
  Activates = TRUE
INVARIANTS ReceiverInvariant DeliveryRight HeldUpIsTimed 
PROPERTIES SkipsOnlyOnExpiry
CHECK_DEADLOCK FALSE
