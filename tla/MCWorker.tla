------------------------------ MODULE MCWorker ------------------------------
(* Model checking of Worker: the symmetry of the job and the task ids, used *)
(* by the runs that check safety only.                                      *)
EXTENDS Worker, TLC

Symmetry == Permutations(Jobs) \cup Permutations(Tasks)
=============================================================================
