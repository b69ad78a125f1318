SPECIFICATION Spec
CONSTANTS
  kQueries <- MCQueries
  Catalogues <- MCIntact
  Idle = Idle
  MaxLogins = 2
INVARIANTS SuccessIsComplete
CHECK_DEADLOCK FALSE
