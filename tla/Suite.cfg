CONSTANTS
  N = 3
  MaxFailed = 2
SPECIFICATION MCSpec
INVARIANT RunsPrepared
INVARIANT RemovedUnlessRefused
INVARIANT ZeroIsEarned
PROPERTY RunnerEnds
CHECK_DEADLOCK FALSE
