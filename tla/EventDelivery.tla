---------------------------- MODULE EventDelivery ----------------------------
(***************************************************************************)
(* What emit_event promises, without rows, locks, batches or retries: an   *)
(* event is accepted with the transaction that emits it; each handler of   *)
(* its plan takes effect at most once, never before its prerequisites; and *)
(* an event is dropped only after every handler took effect.               *)
(***************************************************************************)
EXTENDS Naturals

CONSTANTS Events, Handlers, Plan, Deps

VARIABLES
    accepted,    \* no, yes, or retired
    delivered    \* how often each handler of each event took effect

vars == <<accepted, delivered>>

Init ==
    /\ accepted = [e \in Events |-> "no"]
    /\ delivered = [e \in Events |-> [h \in Handlers |-> 0]]

Done(e) == {h \in Handlers : delivered[e][h] > 0}

(* The handlers in S take effect, together with those already done closed  *)
(* under prerequisites.                                                    *)
TakeEffect(e, S) ==
    /\ S \cap Done(e) = {}
    /\ \A h \in S : Deps[e][h] \subseteq Done(e) \cup S
    /\ delivered' = [delivered EXCEPT ![e] =
                       [h \in Handlers |-> IF h \in S THEN 1
                                                      ELSE delivered[e][h]]]

(* The emitting transaction commits, with some effects or with none.       *)
Accept(e, S) ==
    /\ accepted[e] = "no"
    /\ accepted' = [accepted EXCEPT ![e] = "yes"]
    /\ TakeEffect(e, S)

Deliver(e, S) ==
    /\ accepted[e] = "yes"
    /\ TakeEffect(e, S)
    /\ UNCHANGED accepted

(* Fully delivered events are dropped, several at a time.                  *)
Retire(R) ==
    /\ \A e \in R : accepted[e] = "yes" /\ Plan[e] \subseteq Done(e)
    /\ accepted' = [e \in Events |-> IF e \in R THEN "retired"
                                                ELSE accepted[e]]
    /\ UNCHANGED delivered

Next ==
    \/ \E e \in Events : \E S \in SUBSET Plan[e] : Accept(e, S) \/ Deliver(e, S)
    \/ \E R \in SUBSET Events : Retire(R)

Spec == Init /\ [][Next]_vars
==============================================================================
