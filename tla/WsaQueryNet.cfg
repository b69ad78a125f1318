SPECIFICATION Spec
CONSTANTS
  Asks <- MCAsks
  Built <- MCBuilt
  Rewritten = ".config.width"
  NoField = "msgcNoField"
  Idle = Idle
  MaxLogins = 2
INVARIANT GateIsBarrier
INVARIANT SnapshotPredatesWrite
INVARIANT OnlyTimingFails
PROPERTY ImplementsService
PROPERTY Progress
CHECK_DEADLOCK FALSE
