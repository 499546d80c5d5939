------------------------ MODULE MCIntegrationDelivery ------------------------
(***************************************************************************)
(* IntegrationDelivery on small instances.                                 *)
(***************************************************************************)
EXTENDS IntegrationDelivery, TLC

CONSTANTS d1, d2, v1, v2, w1, w2, w3, a1

Symmetry == Permutations(Dispatcher) \cup Permutations(Worker)
==============================================================================
