SPECIFICATION Spec
CONSTANTS Restarts = 2
          CallsApi = TRUE
          Controls = TRUE
INVARIANTS ShutdownInvariant
PROPERTIES StopReturns ExitEnds
