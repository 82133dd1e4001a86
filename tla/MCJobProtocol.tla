---------------------------- MODULE MCJobProtocol ----------------------------
(* Model values and bounds for TLC.                                        *)
EXTENDS JobProtocolProps, TLC
CONSTANTS w1, w2
OneWorker == {w1}
TwoWorkers == {w1, w2}
Symmetry == Permutations(TwoWorkers)
=============================================================================
