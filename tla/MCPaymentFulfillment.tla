------------------------ MODULE MCPaymentFulfillment ------------------------
(* Instances of PaymentFulfillment for TLC.                                  *)
EXTENDS PaymentFulfillment, TLC

CONSTANTS w1, w2

WorkerSymmetry == Permutations(Worker)
=============================================================================
