---------------------------- MODULE MCJobService ----------------------------
(* Model checking of JobService: the symmetry of the job and the task ids,  *)
(* used by the run that checks safety only.                                 *)
EXTENDS JobService, TLC

Symmetry == Permutations(Jobs) \cup Permutations(Tasks)
=============================================================================
