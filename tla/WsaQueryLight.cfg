SPECIFICATION Spec
CONSTANTS
  kQueries <- MCQueries
  Catalogues <- MCCatalogues
  Idle = Idle
  MaxLogins = 2
INVARIANT SuccessIsRight
INVARIANT NoUseAfterDestruction
PROPERTY VerdictIsFinal
PROPERTY Progress
CHECK_DEADLOCK FALSE
