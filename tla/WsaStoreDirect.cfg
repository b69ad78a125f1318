SPECIFICATION Spec
CONSTANTS
  Built <- MCBuilt
  Expect <- MCExpect
  Leftover <- MCLeftover
  None = None
  Sizes <- MCSizes
  MAX_P2Psize = 32768
  MaxLogins = 2
INVARIANT SuccessIsIntact
INVARIANT NoScratchLeft
PROPERTY DoneIsBarrier
PROPERTY ImplementsService
PROPERTY Progress
CHECK_DEADLOCK FALSE
