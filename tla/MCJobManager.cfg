\* Two trainings and one slot: the first may be stopped or cancelled, the studio
\* may be shut down.
SPECIFICATION Spec
CONSTANTS
  j1 = j1
  j2 = j2
  Jobs = {j1, j2}
  Withdrawn = {j1}
  MaxParallel = 1
INVARIANTS JobsAccounted
PROPERTIES NoLateStart EveryJobEnds
CHECK_DEADLOCK FALSE
