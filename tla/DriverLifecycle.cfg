CONSTANTS
  Count = 2
  MaxTasks = 1
SPECIFICATION FairSpec
INVARIANTS
  EverybodyFindsState
  NothingLeftBehind
PROPERTY ReleaseEnds
