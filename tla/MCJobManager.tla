---------------------------- MODULE MCJobManager ----------------------------
(* Instances of JobManager: two trainings, one slot.                       *)
EXTENDS JobManager, TLC

CONSTANTS j1, j2
=============================================================================
