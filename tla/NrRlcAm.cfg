SPECIFICATION Spec
CONSTANTS
  Sdus = 4
  SduSize = 2
  SnModulus = 4
  PollPdu = 2
  PollByte <- NoPoll
  TxMaxSize = 4
  RxMaxSize = 100
  MaxRange = 1
  DataSizes = {3, 5}
  StatusSizes = {9}
  StackValues = {0, 1, 2, 3}
  DataCap = 2
  StatusCap = 1
  StatusOvertakes = 0
  MaxFaults = 1
  MaxPolls = 1
  MaxUpper = 1
INVARIANTS  EntitiesConsistent  StatusRight
CHECK_DEADLOCK FALSE
