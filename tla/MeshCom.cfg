SPECIFICATION Spec
CONSTANTS
  MaxLogins = 2
  Wrap = 4
  Timeout = 1
  MaxNap = 2
  Boot = {3}
  Asks <- MCAsks
  Built <- MCBuilt
  Rewritten = ".config.width"
  NoField = "msgcNoField"
  Nobody = Nobody
INVARIANT WaitIsTimed
INVARIANT OnlyTimeoutFails
INVARIANT StoreSuccessIsIntact
PROPERTY QueryImplementsService
PROPERTY AlwaysReports
CHECK_DEADLOCK FALSE
