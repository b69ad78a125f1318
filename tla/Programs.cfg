CONSTANTS
  P1 = P1
  P2 = P2
  Process = {P1, P2}
  MaxFaults = 1
  MaxKills = 1
SPECIFICATION MCSpec
VIEW MCView
CHECK_DEADLOCK FALSE
INVARIANT OnlyDisturbanceFails
INVARIANT PassIsEarned
INVARIANT LastOneOutCleansUp
INVARIANT NoStaleHandle
INVARIANT HandlesReturned
PROPERTY CaptureOutlivesSink
