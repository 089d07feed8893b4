SPECIFICATION FairSpec
CONSTANTS
  Entries = {e1, e2}
  Functions = {f1}
  Priorities = {1}
  Clients = {c1, c2}
  Viewers = {v1}
  Filter = Filter
  Unloader = Unloader
  MaxCount = 1
  Nobody = Nobody
  Free = Free
  ListHead = ListHead
PROPERTIES CallsReturn
