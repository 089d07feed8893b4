SPECIFICATION MSpec
CONSTANTS
  Tasks = {t1}
  NULL = NULL
  MaxModeChanges = 0
  Contexts = {c1}
INVARIANT ContextOutlivesTasks
CHECK_DEADLOCK FALSE
