------------------------------ MODULE EventPlan ------------------------------
(***************************************************************************)
(* How the dispatcher orders the handlers of one domain event and which    *)
(* handlers wait for which others: app/services/control_relationships.py.  *)
(*                                                                         *)
(* The tables are the production ones, restricted to EventTypes.  Handlers *)
(* without a control declaration are refused at start-up                   *)
(* (validate_and_order_handlers), so the fallback that exists for          *)
(* undeclared test handlers is not modelled.                               *)
(***************************************************************************)
EXTENDS Naturals, FiniteSets, Sequences

(* HandlerStage: state changes, then customer communication, then delivery *)
(* to systems outside.                                                     *)
StateStage == 10
CommunicationStage == 20
ExternalStage == 30

(* CHAINED_EVENT_TYPES: a later stage of these events waits for the whole  *)
(* of every earlier stage.                                                 *)
CHAINED_EVENT_TYPES ==
    { "account_credit.deposited", "subscription.activated",
      "subscription.suspended", "subscription.resumed",
      "subscription.canceled", "subscription.upgraded",
      "subscription.downgraded", "subscription.expired", "usage.exhausted",
      "service_order.assigned", "provisioning.completed",
      "provisioning.failed" }

(* Fan-out events that are subscribed to by more than one handler.         *)
FanoutEventTypes ==
    { "payment.received", "payment.refunded", "invoice.overdue",
      "service_order.completed", "subscriber.created", "custom",
      "work_order.field_outcome_recorded" }

EventTypes == CHAINED_EVENT_TYPES \cup FanoutEventTypes

SubscriptionEvents ==
    { "subscription.activated", "subscription.suspended",
      "subscription.resumed", "subscription.canceled",
      "subscription.upgraded", "subscription.downgraded",
      "subscription.expired" }

(* HANDLER_CONTROLS with handler_event_types.  "reg" is the position of    *)
(* the handler's register_handler call, which decides between handlers of  *)
(* equal (stage, order) because Python's sort is stable.                   *)
HANDLER_CONTROLS ==
  [ LifecycleHandler |->
      [stage |-> StateStage, order |-> 10, reg |-> 2,
       scope |-> SubscriptionEvents],
    ArrangementHandler |->
      [stage |-> StateStage, order |-> 20, reg |-> 15,
       scope |-> {"payment.received"}],
    SubscriptionChangeExecutionHandler |->
      [stage |-> StateStage, order |-> 25, reg |-> 16,
       scope |-> {"payment.received", "service_order.completed"}],
    ReferralHandler |->
      [stage |-> StateStage, order |-> 30, reg |-> 17,
       scope |-> {"subscriber.created", "subscription.activated"}],
    ProvisioningHandler |->
      [stage |-> StateStage, order |-> 40, reg |-> 4,
       scope |-> {"provisioning.completed", "provisioning.failed",
                  "service_order.assigned", "subscription.activated",
                  "subscription.resumed"}],
    IdentityLifecycleProjectionHandler |->
      [stage |-> StateStage, order |-> 44, reg |-> 11, scope |-> {"custom"}],
    SalesLifecycleProjectionHandler |->
      [stage |-> StateStage, order |-> 45, reg |-> 5,
       scope |-> {"custom", "service_order.completed"}],
    BillingLifecycleProjectionHandler |->
      [stage |-> StateStage, order |-> 47, reg |-> 6,
       scope |-> {"account_credit.deposited", "custom", "payment.received",
                  "subscription.activated", "subscription.resumed"}],
    PrepaidRenewalHandler |->
      [stage |-> StateStage, order |-> 47, reg |-> 18,
       scope |-> {"account_credit.deposited", "payment.received",
                  "payment.refunded"}],
    SupportLifecycleProjectionHandler |->
      [stage |-> StateStage, order |-> 48, reg |-> 8,
       scope |-> {"custom", "work_order.field_outcome_recorded"}],
    EnforcementHandler |->
      [stage |-> StateStage, order |-> 50, reg |-> 12,
       scope |-> {"account_credit.deposited", "invoice.overdue",
                  "payment.received", "usage.exhausted"}
                 \cup SubscriptionEvents],
    NotificationHandler |->
      [stage |-> CommunicationStage, order |-> 10, reg |-> 3,
       scope |-> {"invoice.overdue", "payment.received", "payment.refunded",
                  "provisioning.completed", "provisioning.failed",
                  "service_order.assigned", "service_order.completed",
                  "subscriber.created", "usage.exhausted"}
                 \cup SubscriptionEvents],
    SurveyTriggerHandler |->
      [stage |-> CommunicationStage, order |-> 15, reg |-> 9,
       scope |-> {"work_order.field_outcome_recorded"}],
    WebhookHandler |->
      [stage |-> ExternalStage, order |-> 10, reg |-> 1,
       scope |-> EventTypes] ]

Handlers == DOMAIN HANDLER_CONTROLS

(* EVENT_HANDLER_DEPENDENCIES: ordering inside one stage.                  *)
EVENT_HANDLER_DEPENDENCIES(type, h) ==
    CASE /\ h = "EnforcementHandler"
         /\ type \in {"account_credit.deposited", "payment.received"}
           -> {"PrepaidRenewalHandler"}
      [] /\ h = "EnforcementHandler"
         /\ type \in {"subscription.activated", "subscription.resumed"}
           -> {"ProvisioningHandler"}
      [] OTHER -> {}

Applicable(type) == {h \in Handlers : type \in HANDLER_CONTROLS[h].scope}

(* Mutant: the explicit order is left out of the sort key.                 *)
PlanBeforeByRegistration(g, h) ==
    LET a == HANDLER_CONTROLS[g]
        b == HANDLER_CONTROLS[h]
    IN  a.stage < b.stage \/ (a.stage = b.stage /\ a.reg < b.reg)

(* The key sorted() uses, made total by the registration order.            *)
PlanBefore(g, h) ==
    LET a == HANDLER_CONTROLS[g]
        b == HANDLER_CONTROLS[h]
    IN  \/ a.stage < b.stage
        \/ a.stage = b.stage /\ a.order < b.order
        \/ a.stage = b.stage /\ a.order = b.order /\ a.reg < b.reg

(* event_execution_plan: the n-th step of the plan of an event type ...    *)
PlanStep(type, n) ==
    CHOOSE h \in Applicable(type) :
        Cardinality({g \in Applicable(type) : PlanBefore(g, h)}) = n - 1

PlanLength(type) == Cardinality(Applicable(type))

(* Mutants: every event is chained by stage; none is.                      *)
DependenciesAlwaysChained(type, h) ==
    {g \in Applicable(type) :
        \/ HANDLER_CONTROLS[g].stage < HANDLER_CONTROLS[h].stage
        \/ g \in EVENT_HANDLER_DEPENDENCIES(type, h)}

DependenciesNeverChained(type, h) ==
    Applicable(type) \cap EVENT_HANDLER_DEPENDENCIES(type, h)

(* ... and the handlers a step of the plan waits for.                      *)
Dependencies(type, h) ==
    {g \in Applicable(type) :
        \/ /\ type \in CHAINED_EVENT_TYPES
           /\ HANDLER_CONTROLS[g].stage < HANDLER_CONTROLS[h].stage
        \/ g \in EVENT_HANDLER_DEPENDENCIES(type, h)}
==============================================================================
