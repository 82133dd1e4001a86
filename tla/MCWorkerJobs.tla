---------------------------- MODULE MCWorkerJobs ----------------------------
(* Model values and bounds for TLC.                                       *)
EXTENDS WorkerJobsProps, TLC
CONSTANTS j1, j2
TwoJobs == {j1, j2}
JustJ1 == {j1}
Symmetry == Permutations(TwoJobs)
=============================================================================
