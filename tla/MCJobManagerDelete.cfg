\* Can a training be deleted when its job is over?
SPECIFICATION Spec
CONSTANTS
  j1 = j1
  j2 = j2
  Jobs = {j1, j2}
  Withdrawn = {j1, j2}
  MaxParallel = 1
INVARIANTS OverMeansDeletable
CHECK_DEADLOCK FALSE
