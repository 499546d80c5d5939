---------------------------- MODULE MCEventOutbox ----------------------------
(* Small instances of EventOutbox: one chained event (a state handler, a   *)
(* notification that waits for it, a webhook that waits for both) and one  *)
(* fan-out event whose two handlers are independent.  MCSeparate lets the  *)
(* state handler of the first commit in a session of its own, as           *)
(* ProvisioningHandler does for provisioning.completed.                    *)
EXTENDS EventOutbox

CONSTANTS state, notify, webhook

MCHandlers == {state, notify, webhook}
MCPlan == [e \in Events |-> IF e = 1 THEN MCHandlers ELSE {state, webhook}]
MCDeps ==
    [e \in Events |-> [h \in MCHandlers |->
        IF e # 1 THEN {}
        ELSE IF h = notify THEN {state}
        ELSE IF h = webhook THEN {state, notify}
        ELSE {}]]
MCSeparate == [e \in Events |-> IF e = 1 THEN {state} ELSE {}]
==============================================================================
