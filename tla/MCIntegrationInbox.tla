------------------------- MODULE MCIntegrationInbox -------------------------
(***************************************************************************)
(* IntegrationInbox on small instances.                                    *)
(***************************************************************************)
EXTENDS IntegrationInbox, TLC

CONSTANTS e1, e2, p1, p2, h1, h2, h3, a1, a2

Symmetry == Permutations(Web) \cup Permutations(Operator) \cup Permutations(Payload)
=============================================================================
