SPECIFICATION FairSpec
CONSTANTS
  BYTE_BIT_LENGTH = 2
  AddressBytes <- MCAddressBytes
  Rows <- MCRows
  Entries = {e1, e2, e3}
  Free = Free
  Callbacks = {c1, c2}
  Unloader = Unloader
  Nobody = Nobody
  MaxChanges = 1
INVARIANTS
  EntriesAccounted RoutesOrdered LookupFindsBest
  MirrorOfOneTable MirrorFollowsSystem
PROPERTIES CallbacksCatchUp
CHECK_DEADLOCK FALSE
