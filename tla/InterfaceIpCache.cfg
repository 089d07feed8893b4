SPECIFICATION Spec
CONSTANTS
  Addresses = {a1, a2, s1}
  Special = {s1}
  Entries = {e1, e2}
  Free = Free
  ListHead = ListHead
  MaxChanges = 2
INVARIANTS BlocksAccounted CacheFollowsSystem QuietLookupsExact
