SPECIFICATION FairSpec
CONSTANTS
  a1 = a1
  f1 = f1
  f2 = f2
  t1 = t1
  t2 = t2
  Agents = {a1}
  NoAgent = NoAgent
  NoId = NoId
  RanFuncs = {f1, f2}
  MaxReqId = 2
  Threads = {t1, t2}
  CtrlFuncs = {f1}
  MinSize = 8
  MaxFds = 4
  MaxSetups = 2
  MaxQueue = 2
  MaxReports = 1
  MaxRemovals = 1
  MaxControls = 1
  SlowTimer = TRUE
  SlowCallers = TRUE
INVARIANTS NoAssertFails
PROPERTIES SetupCompletes RequestsAnswered
CHECK_DEADLOCK FALSE
