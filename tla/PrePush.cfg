SPECIFICATION PushSpec
CONSTANTS
  Pusher = {anna, ben}
  Commit <- MCCommit
  Ancestor <- MCAncestor
  Root = "root"
  ZERO = "zero"
  Pushes <- MCPushes
  MaxRuns = 2
SYMMETRY Symmetric
INVARIANT MasterIsVerified
INVARIANT TopicPushesFreely
PROPERTY HistoryIsKept
CHECK_DEADLOCK FALSE
