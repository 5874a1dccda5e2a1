SPECIFICATION Spec
CONSTANTS
  a1 = a1
  f1 = f1
  t1 = t1
  Agents = {a1}
  NoAgent = NoAgent
  NoId = NoId
  RanFuncs = {f1}
  MaxReqId = 2
  Threads = {t1}
  CtrlFuncs = {f1}
  MinSize = 8
  MaxFds = 4
  MaxSetups = 1
  MaxQueue = 2
  MaxReports = 2
  MaxRemovals = 2
  MaxControls = 0
  SlowTimer = TRUE
  SlowCallers = TRUE
INVARIANT AgentKeysFound
CHECK_DEADLOCK FALSE
