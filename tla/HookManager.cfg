SPECIFICATION Spec
CONSTANTS
  Entries = {e1, e2, e3}
  Functions = {f1, f2}
  Priorities = {1, 2}
  Clients = {c1, c2}
  Viewers = {v1}
  Filter = Filter
  Unloader = Unloader
  MaxCount = 1
  Nobody = Nobody
  Free = Free
  ListHead = ListHead
INVARIANTS TypeOK ListOrdered EntriesAccounted WalkersSeeOneList VerdictOfAll
PROPERTIES ChainSpec
SYMMETRY Symmetry
