---------------------------- MODULE MCRegistration ----------------------------
(* Instances of Registration for TLC.                                      *)
EXTENDS RegistrationProps, TLC

CONSTANTS w1, w2, nornir
OneWorker == {w1}
TwoWorkers == {w1, w2}
AllOne == [w \in Workers |-> nornir]
Symmetry == Permutations(Workers)
=============================================================================
