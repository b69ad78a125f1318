SPECIFICATION Spec
CONSTANTS
  MaxLogins = 2
  Idle = Idle
  None = None
  Text <- MCText
  kQueries <- MCQueries
  QueryWrites <- MCWrites
  QueryAnchor <- MCAnchor
  StoreWrites <- MCStoreWrites
  StoreAnchor <- MCStoreAnchor
  Samples <- MCSamples
  Leftover <- MCLeftover
  Sizes <- MCSizes
  MaxSize = 2048
INVARIANT OnlyDisturbanceFails
INVARIANT SuccessIsIntact
INVARIANT LightCleansUp
CHECK_DEADLOCK FALSE
