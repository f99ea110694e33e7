------------------------ MODULE MCSystemOperationLock ------------------------
(* Instances of SystemOperationLock for TLC.                                 *)
EXTENDS SystemOperationLock, TLC

CONSTANTS o1, o2, o3

OpSymmetry == Permutations(Op)
=============================================================================
