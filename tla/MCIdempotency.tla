---------------------------- MODULE MCIdempotency ----------------------------
(* Instances of IdempotencyCoordinator for TLC.                              *)
EXTENDS IdempotencyCoordinator, TLC

CONSTANTS r1, r2, r3, p1, p2

IdempotencySymmetry == Permutations(Request) \union Permutations(Payload)
=============================================================================
