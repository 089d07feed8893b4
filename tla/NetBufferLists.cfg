\* Two handlers at work on chains of two NBLs of the driver and two of others, as
\* if packets were passed upwards.
SPECIFICATION Spec
CONSTANTS
  Own = {o1, o2}
  OthersUp = {f1, f2}
  OthersNic = {}
  Handlers = {h1, h2}
  NULL = NULL
INVARIANTS WalkPointersLive OwnFreed RestReturned
