SPECIFICATION Spec
CONSTANTS
  Asks <- MCAsks
  Built <- MCBuilt
  Rewritten = ".config.width"
  NoField = "msgcNoField"
  Idle = Idle
  MaxLogins = 1
INVARIANTS ServerAnsweredEvery
CHECK_DEADLOCK FALSE
