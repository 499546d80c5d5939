---------------------------- MODULE EventDispatch ----------------------------
(***************************************************************************)
(* The handler loop of EventDispatcher.dispatch and of retry_event         *)
(* (app/services/events/dispatcher.py) for one event, handler by handler.  *)
(* The first run executes the whole plan; a retry executes the failure     *)
(* manifest the previous run left.  What the rows and transactions around  *)
(* the loop do is the subject of EventOutbox, which takes a whole run as   *)
(* one step whose result is any outcome this loop can produce.             *)
(***************************************************************************)
EXTENDS EventPlan

CONSTANT MaxRetries     \* MAX_RETRIES of app/tasks/events.py

ASSUME MaxRetriesAssumption == MaxRetries \in Nat

VARIABLES
    type,        \* the event's type
    retry,       \* retry_count of this run; 0 is the first dispatch
    manifest,    \* handlers this run was asked to retry ({} : all of them)
    step,        \* next position of the plan
    succeeded,   \* succeeded_handlers
    raised,      \* handlers that raised in this run
    blocked,     \* handlers recorded as blocked in this run
    attempts,    \* how often each handler's effect was kept, over all runs
    status       \* the EventStore row: processing, completed or failed

vars == <<type, retry, manifest, step, succeeded, raised, blocked, attempts,
          status>>

Current == PlanStep(type, step)

(* Mutant: a prerequisite that raised counts as met.                       *)
UnmetUnlessAttempted == Dependencies(type, Current) \ (succeeded \cup raised)

Unmet == Dependencies(type, Current) \ succeeded

Init ==
    /\ type \in EventTypes
    /\ retry = 0
    /\ manifest = {}
    /\ step = 1
    /\ succeeded = {}
    /\ raised = {}
    /\ blocked = {}
    /\ attempts = [h \in Handlers |-> 0]
    /\ status = "processing"

Running == status = "processing" /\ step <= PlanLength(type)

Selected == manifest = {} \/ Current \in manifest

(* A handler outside the manifest is passed over by a retry.               *)
SkipRecovered ==
    /\ Running
    /\ ~Selected
    /\ step' = step + 1
    /\ UNCHANGED <<type, retry, manifest, succeeded, raised, blocked,
                   attempts, status>>

(* A handler with an unmet dependency is recorded as blocked and not run.  *)
Block ==
    /\ Running
    /\ Selected
    /\ Unmet # {}
    /\ blocked' = blocked \cup {Current}
    /\ step' = step + 1
    /\ UNCHANGED <<type, retry, manifest, succeeded, raised, attempts, status>>

(* The handler returns: its savepoint is released.                         *)
HandlerSucceeds ==
    /\ Running
    /\ Selected
    /\ Unmet = {}
    /\ succeeded' = succeeded \cup {Current}
    /\ attempts' = [attempts EXCEPT ![Current] = @ + 1]
    /\ step' = step + 1
    /\ UNCHANGED <<type, retry, manifest, raised, blocked, status>>

(* The handler raises: its savepoint is rolled back and the loop goes on.  *)
(* An owner command that it committed in a session of its own stays, and   *)
(* the retry replays it: EventOutbox models that, here an effect is what   *)
(* the loop counts as kept.                                                *)
HandlerRaises ==
    /\ Running
    /\ Selected
    /\ Unmet = {}
    /\ raised' = raised \cup {Current}
    /\ step' = step + 1
    /\ UNCHANGED <<type, retry, manifest, succeeded, blocked, attempts, status>>

(* mark_event_completed.                                                   *)
MarkEventCompleted ==
    /\ status = "processing"
    /\ step > PlanLength(type)
    /\ status' = IF raised \cup blocked = {} THEN "completed" ELSE "failed"
    /\ UNCHANGED <<type, retry, manifest, step, succeeded, raised, blocked,
                   attempts>>

(* Mutant: the retry runs the whole plan again.                             *)
RetryEventWithoutManifest ==
    /\ status = "failed"
    /\ retry < MaxRetries
    /\ retry' = retry + 1
    /\ manifest' = {}
    /\ succeeded' = {}
    /\ raised' = {}
    /\ blocked' = {}
    /\ step' = 1
    /\ status' = "processing"
    /\ UNCHANGED <<type, attempts>>

(* retry_event: the manifest is what failed; everything else of the plan   *)
(* counts as succeeded.                                                    *)
RetryEvent ==
    /\ status = "failed"
    /\ retry < MaxRetries
    /\ retry' = retry + 1
    /\ manifest' = raised \cup blocked
    /\ succeeded' = Applicable(type) \ manifest'
    /\ raised' = {}
    /\ blocked' = {}
    /\ step' = 1
    /\ status' = "processing"
    /\ UNCHANGED <<type, attempts>>

Next ==
    \/ SkipRecovered
    \/ Block
    \/ HandlerSucceeds
    \/ HandlerRaises
    \/ MarkEventCompleted
    \/ RetryEvent

Spec == Init /\ [][Next]_vars

-----------------------------------------------------------------------------
(* The run's sets stay inside the event's plan, the counters in bounds.    *)
TypeOK ==
    /\ type \in EventTypes
    /\ retry \in 0..MaxRetries
    /\ manifest \subseteq Applicable(type)
    /\ step \in 1..(PlanLength(type) + 1)
    /\ succeeded \subseteq Applicable(type)
    /\ raised \subseteq Applicable(type)
    /\ blocked \subseteq Applicable(type)
    /\ attempts \in [Handlers -> Nat]
    /\ status \in {"processing", "completed", "failed"}

(* The outcomes EventOutbox allows a run to have: the handlers that        *)
(* succeed are among those asked for, and each had every prerequisite      *)
(* recovered earlier or successful earlier in this run.                    *)
RunOutcome(t, todo, before, S) ==
    /\ S \subseteq todo
    /\ \A h \in S :
         Dependencies(t, h) \subseteq
             before \cup {d \in S : PlanBefore(d, h)}

(* When a run ends, the handlers it completed are a legal outcome and the  *)
(* new failure manifest is exactly the rest of what it was asked to run.   *)
LoopGivesRunOutcome ==
    status \in {"completed", "failed"} =>
        LET todo == IF manifest = {} THEN Applicable(type) ELSE manifest
            before == Applicable(type) \ todo
            S == succeeded \ before
        IN  /\ RunOutcome(type, todo, before, S)
            /\ raised \cup blocked = todo \ S
            /\ raised \cap blocked = {}

(* A run in which nothing raises completes the event: no handler of the    *)
(* production tables waits for one that the plan runs later.  Start-up     *)
(* validation only refuses dependency cycles.                              *)
NoHandlerIsStarved ==
    (status = "failed" => raised # {})

(* Consequences of a fan-out event are isolated: notification and webhook  *)
(* delivery are never held back by a state handler that raised ("must not  *)
(* make independent communication or external delivery depend on an        *)
(* unrelated state consequence"), and a payment restores access only       *)
(* behind the renewal it funds.                                            *)
FanoutIsolation ==
    type \notin CHAINED_EVENT_TYPES =>
        /\ blocked \subseteq {"EnforcementHandler"}
        /\ blocked # {} => "PrepaidRenewalHandler" \in raised

(* Over the first dispatch and all its retries every handler's effect is   *)
(* kept at most once, and a completed event has applied all of them.       *)
EachHandlerOnce ==
    /\ \A h \in Handlers : attempts[h] <= 1
    /\ status = "completed" => \A h \in Applicable(type) : attempts[h] = 1

(* A customer is told, and an outside system is called, only after the     *)
(* state changes of a chained event have been kept, whichever run of the   *)
(* event applied them.                                                     *)
CommunicationAfterState ==
    type \in CHAINED_EVENT_TYPES =>
        \A h, g \in Applicable(type) :
            /\ attempts[h] > 0
            /\ HANDLER_CONTROLS[g].stage < HANDLER_CONTROLS[h].stage
            => attempts[g] > 0
==============================================================================
