SPECIFICATION Spec
CONSTANTS
  MaxLogins = 1
  Idle = Idle
  None = None
  Text <- MCText
  kQueries <- MCQueries
  QueryWrites <- MCWrites
  QueryAnchor <- MCAnchor
  StoreWrites <- MCStoreWrites
  StoreAnchor <- MCStoreAnchor
  Samples <- MCSamples
  Leftover <- MCLeftover
  Sizes <- MCSizes
  MaxSize = 2048
INVARIANT NetCleansUp
CHECK_DEADLOCK FALSE
