SPECIFICATION Spec
CONSTANTS
  Text <- MCText
  kQueries <- MCQueries
  Catalogue <- MCCatalogue
  Idle = Idle
  MaxLogins = 2
INVARIANT SuccessIsComplete
INVARIANT NoUseAfterTeardown
PROPERTY DoneIsBarrier
PROPERTY ImplementsService
PROPERTY Progress
CHECK_DEADLOCK FALSE
