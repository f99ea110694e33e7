------------------------- MODULE MCConcurrencySlots -------------------------
(* A user with two HTTP requests and one live call.                          *)
EXTENDS ConcurrencySlots

CONSTANTS h1, h2, v1

=============================================================================
