\* Does a cancel that returned leave no worker?
SPECIFICATION Spec
CONSTANTS
  j1 = j1
  j2 = j2
  Jobs = {j1, j2}
  Withdrawn = {j1, j2}
  MaxParallel = 1
INVARIANTS CancelKills
CHECK_DEADLOCK FALSE
