SPECIFICATION FairSpec
CONSTANTS AtStart = {2}
          Runtime = {1, 3}
          FileSize <- MCFileSize
          Modes <- MCModes
          MaxSetups = 1
INVARIANTS PluginInvariant 
PROPERTIES EveryLoadArrives StopEnds
CHECK_DEADLOCK FALSE
