SPECIFICATION Spec
CONSTANTS
  Tasks = {t1, t2}
  NULL = NULL
  MaxModeChanges = 2
INVARIANTS PointersLive SingleOwner FilteredOnTheWay ForgottenOnlyByDesign StopReclaims
PROPERTIES LaneSpec
