SPECIFICATION FairSpec
CONSTANTS
  Tasks = {t1}
  NULL = NULL
  MaxModeChanges = 2
PROPERTIES EngineStops BufferReclaimed
