SPECIFICATION Spec
SYMMETRY Symmetry
CONSTANTS
  a1 = a1
  a2 = a2
  t1 = t1
  t2 = t2
  f1 = f1
  Agents = {a1,a2}
  Threads = {t1,t2}
  RanFuncs = {f1}
  CtrlFuncs = {f1}
  NoAgent = NoAgent
  NoId = NoId
  SlowTimer = FALSE
  SlowCallers = FALSE
  MaxReqId = 2
  MinSize = 2
  MaxFds = 4
  MaxSetups = 1
  MaxQueue = 1
  MaxReports = 2
  MaxRemovals = 1
  MaxControls = 1
INVARIANTS TypeOK AnswersHaveEntries  IndicationsWhileActive BooksAgree
PROPERTIES  ImplementsService
CHECK_DEADLOCK FALSE
