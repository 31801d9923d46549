SPECIFICATION EventLoopSpec
CONSTANTS
  Tasks = {q1, q2}
  Caps = {1}
  MaxCost = 1
  MaxRetries = 1
  MaxTurns = 2
  MaxTools = 2
  MaxSpent = 2
  PoolSize = 1
  NoTask = NoTask
CHECK_DEADLOCK FALSE
INVARIANT EventLoopTypeOK
INVARIANT OvershootIsBounded
INVARIANT StreamIsWellFormed
INVARIANT ConnectionsComeBack
PROPERTY EveryHandlerEnds
