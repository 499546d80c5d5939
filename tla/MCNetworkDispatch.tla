-------------------------- MODULE MCNetworkDispatch --------------------------
(***************************************************************************)
(* NetworkDispatch on small instances.                                     *)
(***************************************************************************)
EXTENDS NetworkDispatch, TLC

CONSTANTS o1, o2, o3, b1, b2, w1, w2, r1, r2

(* Every operation is on one target, so that they compete for the index.   *)
OneTarget == [o \in Op |-> "ont"]

DoneOrFailed == {"succeeded", "failed"}
DoneWaitingOrFailed == {"succeeded", "waiting", "failed"}

(* Bound: the publisher and the worker get to one of the operations.       *)
OnePublished ==
    Cardinality({o \in Op : attempts[o] + envelopes[o] > 0}) <= 1

Symmetry ==
    Permutations(Op) \cup Permutations(Beat) \cup Permutations(Worker)
       \cup Permutations(Request)
==============================================================================
