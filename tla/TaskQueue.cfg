SPECIFICATION FairSpec
CONSTANTS
  Tasks = {t1, t2, t3}
  Producers = {p1, p2}
  Router = Router
  Stopper = Stopper
  Nobody = Nobody
  NULL = NULL
  ListHead = ListHead
INVARIANTS
  CountAndEventMatchList
  ListHeadNeverTaken
  NullOnlyOnStop
PROPERTIES
  FifoSpec
  EveryTaskLeaves
  StopReturns
