-------------------------- MODULE MCBatchImageJob --------------------------
(* TLC instances of BatchImageJob.                                           *)
EXTENDS BatchImageJob, TLC

CONSTANTS w1, w2

WorkerSymmetry == Permutations(Worker)
=============================================================================
