SPECIFICATION OffloadSpec
CONSTANTS
  Tools = {t1,t2}
  Values = {0,1,2,5}
  Empty = Empty
  DriverVersion = 4
  HOOK_LIST_COUNT = 5
  DisplayHookMaxCount = 1
  MaxHooks = 2
  ULONG_MAX = 9
  MaxCalls = 2
  Packets <- MCPackets
  NoPacket = NoPacket
  Adapters <- MCAdapters
INVARIANTS
  DisplayedInTable QuietAnswersTrue
  OffloadFollowsSettings
PROPERTIES NamedItemOnly
