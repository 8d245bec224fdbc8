\* Three nodes, the first the strongest, two kills or revivals and a loss; two
\* nodes that may each die once, three frames, every strategy.
SPECIFICATION MCSpec
CONSTANTS
  N = 3
  Priority <- OneStrong
  Interval = 3
  Missed = 1
  Delay = 1
  Period = 2
  MaxFaults = 2
  MaxLosses = 1
  MaxTime = 14
  a = a
  b = b
  f1 = f1
  f2 = f2
  f3 = f3
  Members = {a, b}
  Frames = {f1, f2, f3}
  QueueLimit = 2
  MaxKills = 1
INVARIANTS RoleFollowsView OneTickChain DetectorAccurate OneCamera QueueExact FramesKept
CHECK_DEADLOCK FALSE
