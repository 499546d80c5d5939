----------------------------- MODULE EventOutbox -----------------------------
(***************************************************************************)
(* The transactional event outbox: emit_event stages an EventStore row in  *)
(* the caller's transaction; the row is dispatched by an after-commit      *)
(* callback, by the periodic dispatcher, or inside the caller's own        *)
(* transaction; failed rows are retried a bounded number of times; rows    *)
(* left behind by a dead retry are timed out; old completed rows are       *)
(* deleted.  Sources: app/services/events/dispatcher.py,                   *)
(* app/services/event_store.py, app/tasks/events.py.                       *)
(*                                                                         *)
(* A handler writes through a savepoint of the dispatcher's transaction,   *)
(* except ProvisioningHandler, which for some events runs an owner command *)
(* in a session of its own: that command is committed at once and stays    *)
(* when the dispatcher's transaction is rolled back.                       *)
(*                                                                         *)
(* Variables over Events hold the COMMITTED row.  What an open transaction *)
(* has read or locked is kept apart (claimed, retrying, retryNames,        *)
(* marked), so a crash simply forgets it.                                  *)
(***************************************************************************)
EXTENDS Integers, FiniteSets

CONSTANTS
    Events,          \* ids; their order is the order of created_at
    Handlers,
    Plan,            \* [Events -> SUBSET Handlers]: event_execution_plan
    Deps,            \* prerequisites of a handler in the plan of an event
    Separate,        \* handlers whose effect is an owner command of its own
    Poison,          \* events whose dispatch raises outside every handler
    MaxRetries,      \* MAX_RETRIES
    BatchSize,       \* event_dispatch_batch_size
    RetryBatchSize,  \* BATCH_SIZE of the retry task
    SlowRetries      \* does task_time_limit exceed stale_minutes?

ASSUME OutboxAssumption ==
    /\ Events \subseteq Nat
    /\ Plan \in [Events -> SUBSET Handlers]
    /\ \A e \in Events : Plan[e] # {}
    /\ Deps \in [Events -> [Handlers -> SUBSET Handlers]]
    /\ \A e \in Events : \A h \in Handlers : Deps[e][h] \subseteq Plan[e]
    /\ Poison \subseteq Events
    /\ MaxRetries \in Nat
    /\ BatchSize \in Nat \ {0}
    /\ RetryBatchSize \in Nat \ {0}
    /\ SlowRetries \in BOOLEAN

(* ProvisioningHandler waits for no other handler in the plans of          *)
(* provisioning.completed, provisioning.failed and                         *)
(* service_order.activation_requested.                                     *)
ASSUME SeparateAssumption ==
    /\ Separate \in [Events -> SUBSET Handlers]
    /\ \A e \in Events : \A h \in Separate[e] :
          h \in Plan[e] /\ Deps[e][h] = {}

VARIABLES
    status,      \* committed status; absent, staged, purged: no such row
    manifest,    \* failed_handlers; {} is NULL (an empty list is not stored)
    retries,     \* retry_count
    latest,      \* status of each handler's latest EventHandlerAttempt
    effects,     \* how often each handler's writes were committed
    age,         \* created_at against the retry age limit and the retention
    stale,       \* rows not updated for stale_minutes
    callbacks,   \* after-commit callbacks not yet run
    claimed,     \* who holds the row lock taken by claim_pending_event
    batch,       \* ids the periodic dispatcher has still to visit
    retryBatch,  \* rows retry_failed_events has still to visit
    retrying,    \* {e} between the two commits of retry_event(e), else {}
    retryNames,  \* failed_handler_names read by that retry_event
    marked       \* rows read by mark_stale_processing_events, not yet written

rowVars == <<status, manifest, retries, latest, effects, age, stale>>
retryVars == <<retryBatch, retrying, retryNames>>
dispatchVars == <<callbacks, claimed, batch>>
vars == <<rowVars, dispatchVars, retryVars, marked>>

Statuses == {"absent", "staged", "pending", "processing", "failed",
             "completed", "purged"}
Committed(e) == status[e] \in {"pending", "processing", "failed", "completed"}

Oldest(S, n) == {e \in S : Cardinality({f \in S : f < e}) < n}
IsFirst(e, S) == e \in S /\ \A f \in S : e <= f

Init ==
    /\ status = [e \in Events |-> "absent"]
    /\ manifest = [e \in Events |-> {}]
    /\ retries = [e \in Events |-> 0]
    /\ latest = [e \in Events |-> [h \in Handlers |-> "none"]]
    /\ effects = [e \in Events |-> [h \in Handlers |-> 0]]
    /\ age = [e \in Events |-> "fresh"]
    /\ stale = {}
    /\ callbacks = {}
    /\ claimed = [e \in Events |-> "none"]
    /\ batch = {}
    /\ retryBatch = {}
    /\ retrying = {}
    /\ retryNames = {}
    /\ marked = {}

-----------------------------------------------------------------------------
(* One run of the handler loop.                                            *)

(* The sets S of handlers that can succeed in a run for which the handlers *)
(* in recovered count as done: EventDispatch!LoopGivesRunOutcome.          *)
RunOutcome(e, recovered, S) ==
    \A h \in S : Deps[e][h] \subseteq recovered \cup S

(* Mutant: one handler that succeeds is enough to complete the event.      *)
RecordRunPartially(e, todo, S) ==
    /\ status' = [status EXCEPT ![e] = IF S # {} THEN "completed"
                                                 ELSE "failed"]
    /\ manifest' = [manifest EXCEPT ![e] = todo \ S]
    /\ latest' = latest
    /\ \A h \in S \cap Separate[e] : effects[e][h] > 0
    /\ effects' = [effects EXCEPT ![e] =
                    [h \in Handlers |-> effects[e][h]
                         + IF h \in S \ Separate[e] THEN 1 ELSE 0]]
    /\ stale' = stale \ {e}

(* mark_event_completed and record_handler_attempt at the end of a run     *)
(* that was asked for todo and in which exactly S succeeded.  What the     *)
(* handlers wrote through the dispatcher's session is committed here; an   *)
(* owner command was committed before its handler returned.                *)
RecordRun(e, todo, S) ==
    /\ status' = [status EXCEPT ![e] = IF S = todo THEN "completed"
                                                   ELSE "failed"]
    /\ manifest' = [manifest EXCEPT ![e] = todo \ S]
    /\ latest' = [latest EXCEPT ![e] =
                    [h \in Handlers |-> IF h \in S THEN "success"
                                        ELSE IF h \in todo THEN "failed"
                                        ELSE latest[e][h]]]
    /\ \A h \in S \cap Separate[e] : effects[e][h] > 0
    /\ effects' = [effects EXCEPT ![e] =
                    [h \in Handlers |-> effects[e][h]
                         + IF h \in S \ Separate[e] THEN 1 ELSE 0]]
    /\ stale' = stale \ {e}

(* claim_pending_event .. dispatch .. commit of a pending row.             *)
FirstRun(e) ==
    /\ e \notin Poison
    /\ \E S \in SUBSET Plan[e] :
        /\ RunOutcome(e, {}, S)
        /\ RecordRun(e, Plan[e], S)
    /\ UNCHANGED <<retries, age>>

-----------------------------------------------------------------------------
(* The emitting transaction.                                               *)

(* emit_event: create_event_record in the caller's transaction.            *)
Emit(e) ==
    /\ status[e] = "absent"
    /\ status' = [status EXCEPT ![e] = "staged"]
    /\ UNCHANGED <<manifest, retries, latest, effects, age, stale,
                   dispatchVars, retryVars, marked>>

(* The caller commits; with dispatch_after_commit a callback is due.       *)
CallerCommit(e) ==
    /\ status[e] = "staged"
    /\ status' = [status EXCEPT ![e] = "pending"]
    /\ callbacks' \in {callbacks, callbacks \cup {e}}
    /\ UNCHANGED <<manifest, retries, latest, effects, age, stale, claimed,
                   batch, retryVars, marked>>

(* defer_until_commit=False: the run is part of the caller's transaction.  *)
(* No caller asks for it when it emits one of the provisioning events.     *)
CallerCommitInline(e) ==
    /\ status[e] = "staged"
    /\ Separate[e] = {}
    /\ FirstRun(e)
    /\ UNCHANGED <<dispatchVars, retryVars, marked>>

(* The caller rolls back: the row and the callback go with it.             *)
CallerRollback(e) ==
    /\ status[e] = "staged"
    /\ status' = [status EXCEPT ![e] = "absent"]
    /\ UNCHANGED <<manifest, retries, latest, effects, age, stale,
                   dispatchVars, retryVars, marked>>

-----------------------------------------------------------------------------
(* First dispatch of a pending row.                                        *)

(* Mutant: the claim does not ask for status = pending.                    *)
ClaimableInAnyStatus(e) == claimed[e] = "none"

Claimable(e) == status[e] = "pending" /\ claimed[e] = "none"

(* The after-commit callback claims the row in a session of its own.       *)
CallbackClaim(e) ==
    /\ e \in callbacks
    /\ Claimable(e)
    /\ callbacks' = callbacks \ {e}
    /\ claimed' = [claimed EXCEPT ![e] = "callback"]
    /\ UNCHANGED <<rowVars, batch, retryVars, marked>>

(* The claim finds no row (FOR UPDATE SKIP LOCKED), or the process dies    *)
(* between its commit and the callback.                                    *)
CallbackLost(e) ==
    /\ e \in callbacks
    /\ callbacks' = callbacks \ {e}
    /\ UNCHANGED <<rowVars, claimed, batch, retryVars, marked>>

(* dispatch_pending_events lists a batch under its advisory lock.          *)
PeriodicList ==
    /\ batch = {}
    /\ \A e \in Events : claimed[e] # "periodic"
    /\ batch' = Oldest({e \in Events : status[e] = "pending"}, BatchSize)
    /\ batch' # {}
    /\ UNCHANGED <<rowVars, callbacks, claimed, retryVars, marked>>

(* The next id of the batch is claimed, or skipped when the row was taken  *)
(* or finished since the batch was read.                                   *)
PeriodicVisit(e) ==
    /\ IsFirst(e, batch)
    /\ \A f \in Events : claimed[f] # "periodic"
    /\ batch' = batch \ {e}
    /\ claimed' = IF Claimable(e) THEN [claimed EXCEPT ![e] = "periodic"]
                                  ELSE claimed
    /\ UNCHANGED <<rowVars, callbacks, retryVars, marked>>

(* The claiming transaction runs the plan and commits.                     *)
DispatchCommit(e) ==
    /\ claimed[e] # "none"
    /\ FirstRun(e)
    /\ claimed' = [claimed EXCEPT ![e] = "none"]
    /\ UNCHANGED <<callbacks, batch, retryVars, marked>>

(* It raises or its connection dies: everything its session wrote since    *)
(* the claim is undone, an owner command committed meanwhile is not.       *)
DispatchAbort(e) ==
    /\ claimed[e] # "none"
    /\ claimed' = [claimed EXCEPT ![e] = "none"]
    /\ UNCHANGED <<rowVars, callbacks, batch, retryVars, marked>>

(* The worker of the periodic task dies with the rest of its batch.        *)
PeriodicDies ==
    /\ \/ batch # {}
       \/ \E e \in Events : claimed[e] = "periodic"
    /\ batch' = {}
    /\ claimed' = [e \in Events |-> IF claimed[e] = "periodic" THEN "none"
                                                               ELSE claimed[e]]
    /\ UNCHANGED <<rowVars, callbacks, retryVars, marked>>

-----------------------------------------------------------------------------
(* Retry of failed rows.                                                   *)

(* failed_handler_names: the manifest, or the latest attempts without one. *)
FailedHandlerNames(e) ==
    IF manifest[e] # {} THEN manifest[e]
                        ELSE {h \in Handlers : latest[e][h] = "failed"}

(* Mutant: one retry too many.                                             *)
RetryableOnceMore(e) ==
    /\ status[e] = "failed"
    /\ retries[e] <= MaxRetries
    /\ age[e] = "fresh"

Retryable(e) ==
    /\ status[e] = "failed"
    /\ retries[e] < MaxRetries
    /\ age[e] = "fresh"

(* retry_failed_events lists its rows under its own advisory lock.         *)
RetryList ==
    /\ retryBatch = {}
    /\ retrying = {}
    /\ retryBatch' = Oldest({e \in Events : Retryable(e)}, RetryBatchSize)
    /\ retryBatch' # {}
    /\ UNCHANGED <<rowVars, dispatchVars, retrying, retryNames, marked>>

(* retry_event up to its first commit; the row is not read again.          *)
RetryStart(e) ==
    /\ IsFirst(e, retryBatch)
    /\ retrying = {}
    /\ retryBatch' = retryBatch \ {e}
    /\ retrying' = {e}
    /\ retryNames' = FailedHandlerNames(e)
    /\ retries' = [retries EXCEPT ![e] = @ + 1]
    /\ status' = [status EXCEPT ![e] = "processing"]
    /\ stale' = stale \ {e}
    /\ UNCHANGED <<manifest, latest, effects, age, dispatchVars, marked>>

(* Mutants: a retry runs the whole plan; what it is about to run already   *)
(* counts as succeeded.                                                    *)
RetryTodoEverything(e) == Plan[e]
RetryRecoveredEverything(e) == IF retryNames = {} THEN {} ELSE Plan[e]

(* The handlers a retry executes, and those that count as succeeded.       *)
RetryTodo(e) == IF retryNames = {} THEN Plan[e] ELSE Plan[e] \cap retryNames
RetryRecovered(e) == IF retryNames = {} THEN {} ELSE Plan[e] \ retryNames

(* retry_event from there to its second commit.                            *)
RetryFinish(e) ==
    /\ e \in retrying
    /\ \E S \in SUBSET RetryTodo(e) :
        /\ RunOutcome(e, RetryRecovered(e), S)
        /\ RecordRun(e, RetryTodo(e), S)
    /\ retrying' = {}
    /\ retryNames' = {}
    /\ UNCHANGED <<retries, age, dispatchVars, retryBatch, marked>>

(* The second transaction is rolled back: the task goes on with the next   *)
(* row, or dies with the rest of its batch.  Owner commands stay.          *)
RetryAbort(e) ==
    /\ e \in retrying
    /\ retrying' = {}
    /\ retryNames' = {}
    /\ retryBatch' \in {retryBatch, {}}
    /\ UNCHANGED <<rowVars, dispatchVars, marked>>

-----------------------------------------------------------------------------
(* Owner commands that handlers run in a session of their own.             *)

(* evaluate_readiness or confirm_activation during a first run or a retry; *)
(* its command_id is the event's id, so that a later execution finds the   *)
(* decision of an earlier one and changes nothing.  The handler may still  *)
(* raise, and the dispatch may still be rolled back.                       *)
OwnerCommand(e, h) ==
    /\ \/ claimed[e] # "none"
       \/ e \in retrying /\ h \in RetryTodo(e)
    /\ effects[e][h] = 0
    /\ effects' = [effects EXCEPT ![e][h] = 1]
    /\ UNCHANGED <<status, manifest, retries, latest, age, stale,
                   dispatchVars, retryVars, marked>>

-----------------------------------------------------------------------------
(* Maintenance and the clock.                                              *)

(* Mutants: no cutoff on updated_at; rows without a retry left are skipped. *)
StaleSelectWithoutCutoff ==
    /\ marked = {}
    /\ marked' = {e \in Events : status[e] = "processing"}
    /\ marked' # {}
    /\ UNCHANGED <<rowVars, dispatchVars, retryVars>>

StaleSelectOnlyRetryable ==
    /\ marked = {}
    /\ marked' = {e \in stale : status[e] = "processing"
                                /\ retries[e] < MaxRetries}
    /\ marked' # {}
    /\ UNCHANGED <<rowVars, dispatchVars, retryVars>>

(* mark_stale_processing_events reads the stuck rows without a row lock .. *)
StaleSelect ==
    /\ marked = {}
    /\ marked' = {e \in stale : status[e] = "processing"}
    /\ marked' # {}
    /\ UNCHANGED <<rowVars, dispatchVars, retryVars>>

(* .. and writes them by primary key, whatever they have become since.     *)
StaleWrite ==
    /\ marked # {}
    /\ \A e \in marked : status[e] # "purged"
    /\ status' = [e \in Events |-> IF e \in marked THEN "failed"
                                                   ELSE status[e]]
    /\ stale' = stale \ marked
    /\ marked' = {}
    /\ UNCHANGED <<manifest, retries, latest, effects, age, dispatchVars,
                   retryVars>>

(* The marker's transaction fails.                                         *)
StaleAbort ==
    /\ marked # {}
    /\ marked' = {}
    /\ UNCHANGED <<rowVars, dispatchVars, retryVars>>

(* Mutant: old failed rows are deleted too.                                *)
CleanupOldRows ==
    LET old == {e \in Events : /\ status[e] \in {"completed", "failed"}
                               /\ age[e] = "ancient"}
    IN  /\ old # {}
        /\ status' = [e \in Events |-> IF e \in old THEN "purged"
                                                    ELSE status[e]]
        /\ stale' = stale \ old
        /\ UNCHANGED <<manifest, retries, latest, effects, age, dispatchVars,
                       retryVars, marked>>

(* cleanup_completed_events.                                               *)
CleanupCompleted ==
    LET old == {e \in Events : status[e] = "completed" /\ age[e] = "ancient"}
    IN  /\ old # {}
        /\ status' = [e \in Events |-> IF e \in old THEN "purged"
                                                    ELSE status[e]]
        /\ stale' = stale \ old
        /\ UNCHANGED <<manifest, retries, latest, effects, age, dispatchVars,
                       retryVars, marked>>

(* created_at passes the retry age limit, then the retention period.       *)
GrowOld(e) ==
    /\ Committed(e)
    /\ age[e] # "ancient"
    /\ age' = [age EXCEPT ![e] = IF @ = "fresh" THEN "late" ELSE "ancient"]
    /\ UNCHANGED <<status, manifest, retries, latest, effects, stale,
                   dispatchVars, retryVars, marked>>

(* updated_at of a processing row falls behind stale_minutes.  A retry is  *)
(* killed by Celery's task_time_limit (900 s by default) before that (30   *)
(* minutes by default) unless the operator raises the limit.               *)
GoStale(e) ==
    /\ status[e] = "processing"
    /\ e \notin stale
    /\ SlowRetries \/ e \notin retrying
    /\ stale' = stale \cup {e}
    /\ UNCHANGED <<status, manifest, retries, latest, effects, age,
                   dispatchVars, retryVars, marked>>

-----------------------------------------------------------------------------
Next ==
    \/ \E e \in Events :
        \/ Emit(e) \/ CallerCommit(e) \/ CallerCommitInline(e)
        \/ CallerRollback(e)
        \/ CallbackClaim(e) \/ CallbackLost(e)
        \/ PeriodicVisit(e) \/ DispatchCommit(e) \/ DispatchAbort(e)
        \/ RetryStart(e) \/ RetryFinish(e) \/ RetryAbort(e)
        \/ \E h \in Separate[e] : OwnerCommand(e, h)
        \/ GrowOld(e) \/ GoStale(e)
    \/ PeriodicList \/ PeriodicDies
    \/ RetryList
    \/ StaleSelect \/ StaleWrite \/ StaleAbort
    \/ CleanupCompleted

Spec == Init /\ [][Next]_vars

(* Celery beat runs the three periodic tasks for ever, a transaction ends, *)
(* the database does not refuse the same commit for ever, and a dispatch   *)
(* that raises is not also the death of its worker every time.             *)
Fairness ==
    /\ WF_vars(PeriodicList)
    /\ WF_vars(RetryList)
    /\ WF_vars(StaleSelect)
    /\ SF_vars(StaleWrite)
    /\ \A e \in Events :
        /\ SF_vars(PeriodicVisit(e))
        /\ SF_vars(DispatchCommit(e))
        /\ WF_vars(DispatchCommit(e) \/ DispatchAbort(e))
        /\ e \in Poison => SF_vars(DispatchAbort(e))
        /\ WF_vars(RetryStart(e))
        /\ WF_vars(RetryFinish(e) \/ RetryAbort(e))
        /\ WF_vars(GoStale(e))

FairSpec == Spec /\ Fairness

-----------------------------------------------------------------------------
(* Properties.                                                             *)

(* Every row and every worker's list has its type; retries are bounded.    *)
TypeOK ==
    /\ status \in [Events -> Statuses]
    /\ manifest \in [Events -> SUBSET Handlers]
    /\ retries \in [Events -> 0..MaxRetries]
    /\ latest \in [Events -> [Handlers -> {"none", "success", "failed"}]]
    /\ effects \in [Events -> [Handlers -> Nat]]
    /\ age \in [Events -> {"fresh", "late", "ancient"}]
    /\ stale \subseteq Events
    /\ callbacks \subseteq Events
    /\ claimed \in [Events -> {"none", "callback", "periodic"}]
    /\ batch \subseteq Events
    /\ retryBatch \subseteq Events
    /\ retrying \subseteq Events
    /\ retryNames \subseteq Handlers
    /\ marked \subseteq Events

Missing(e) == {h \in Plan[e] : effects[e][h] = 0}

(* No crash, race or retry makes the outbox forget a consequence or keep   *)
(* one it has no record of: an event that is not committed has had no      *)
(* effect; a row that waits for its first dispatch has had none but owner  *)
(* commands, which a dispatch that was rolled back leaves behind and the   *)
(* next one replays; a row that has failed (or is being retried) still     *)
(* names every handler whose effect is missing; and a completed row,       *)
(* deleted or not, has had all of them.                                    *)
NothingForgotten ==
    \A e \in Events :
        /\ status[e] \in {"absent", "staged"} =>
              \A h \in Handlers : effects[e][h] = 0
        /\ status[e] = "pending" =>
              \A h \in Handlers \ Separate[e] : effects[e][h] = 0
        /\ status[e] \in {"processing", "failed"} =>
              Missing(e) \subseteq FailedHandlerNames(e)
        /\ status[e] \in {"completed", "purged"} => Missing(e) = {}

(* A handler's effect is never in the database without the effects of the  *)
(* handlers its event's plan puts before it, over all runs of the event.   *)
PrerequisitesFirst ==
    \A e \in Events : \A h \in Handlers :
        effects[e][h] > 0 => \A d \in Deps[e][h] : effects[e][d] > 0

(* No handler's effect is committed twice: "Previously successful          *)
(* predecessors satisfy dependencies without being executed again", and an *)
(* owner command that outlived its dispatch is replayed, not repeated.     *)
AtMostOnce ==
    \A e \in Events : \A h \in Handlers : effects[e][h] <= 1

(* A row never belongs to two owners at once: one that is claimed for its  *)
(* first run is still pending, and is neither being retried nor about to   *)
(* be timed out; at most one row is in retry.                              *)
OneOwner ==
    /\ \A e \in Events : claimed[e] # "none" =>
          status[e] = "pending" /\ e \notin retrying \cup retryBatch \cup marked
    /\ \A e, f \in retrying : e = f
    /\ \A e, f \in Events :
          claimed[e] = "periodic" /\ claimed[f] = "periodic" => e = f

(* A completed event stays completed until its row is deleted.             *)
CompletedIsFinal ==
    [][\A e \in Events :
         status[e] = "completed" => status'[e] \in {"completed", "purged"}]_vars

Exhausted(e) == status[e] = "failed" /\ ~Retryable(e)

(* Every committed event is eventually completed, or has failed and used   *)
(* up its retries or its retry window; none stays pending or processing.   *)
EventuallySettled ==
    \A e \in Events \ Poison :
        status[e] \in {"pending", "processing"} ~>
            (status[e] \in {"completed", "purged"} \/ Exhausted(e))

-----------------------------------------------------------------------------
(* What the outbox promises to the code that emits events.                 *)

Accepted ==
    [e \in Events |-> IF status[e] \in {"absent", "staged"} THEN "no"
                      ELSE IF status[e] = "purged" THEN "retired" ELSE "yes"]

Delivery == INSTANCE EventDelivery WITH accepted <- Accepted,
                                        delivered <- effects

(* The outbox implements EventDelivery: accepted with the caller's commit, *)
(* delivered once per handler in dependency order, retired when complete.  *)
ImplementsDelivery == Delivery!Spec
==============================================================================
