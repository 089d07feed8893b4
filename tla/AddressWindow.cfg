SPECIFICATION Spec
CONSTANTS
  Addresses = {a1}
  Special = {}
  Entries = {e1}
  Free = Free
  ListHead = ListHead
  MaxChanges = 2
INVARIANT ForwardedNotLocal
