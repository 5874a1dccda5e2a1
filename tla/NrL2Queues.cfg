SPECIFICATION Spec
CONSTANTS
  u1 = u1
  u2 = u2
  Apps = {"gtp"}
  Macs = {"mac1"}
  UEs = {u1, u2}
  Removable = {u2}
  QueueSize = 2
  MaxDl = 2
INVARIANTS RingInvariant NoLostWakeup 
PROPERTIES MacMovesOn
CHECK_DEADLOCK FALSE
