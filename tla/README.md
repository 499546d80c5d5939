# dotmac_sub: TLA+ models, checks and proofs

dotmac_sub is the subscription management system of an internet provider: a FastAPI application over
SQLAlchemy and PostgreSQL with Celery workers and Redis. Nearly every domain operation is one database
transaction that changes a few rows and emits *events*; the events are the only way in which one domain
causes work in another. This directory models the mechanisms everything else rests on:

1. the **transactional event outbox** and its dispatcher;
2. the **subscription and account lifecycle**: enforcement locks, service status, derived account status;
3. **network operations**: the outbox of device commands, its workers, recovery and redrive;
4. the two edges to other systems, the **integration inbox** and **integration delivery**;
5. the **settlement of gateway payments** by webhook, customer return and reconciliation sweep.

All paths below are relative to `src/`.

## 1. Inventory of the system

| Part | State it keeps | Operations | Interacts with | What is hard | What makes it correct |
|---|---|---|---|---|---|
| Event plan (`app/services/control_relationships.py`) | constant tables | plan of an event type | dispatcher | an ordering mistake in a table blocks a handler in every run | every dependency runs earlier; fan-out isolated, chained events ordered |
| Dispatcher and outbox (`app/services/events/dispatcher.py`, `app/services/event_store.py`, `app/tasks/events.py`, `app/services/session_hooks.py`) | `event_store`, `event_handler_attempts` rows; after-commit callbacks; row and advisory locks | emit, after-commit dispatch, periodic dispatch, retry, stale marking, cleanup | every service emits; handlers write their own domain | crashes between commits, two dispatchers, unlocked stale marking, partial retries | no effect lost, none repeated, dependency order, everything settles |
| Lifecycle (`app/services/account_lifecycle.py` and its command modules) | `subscriptions.status`, `enforcement_locks`, `subscribers` status/override | suspend, restore, activate, expire, cancel, disable, enable, account commands, unsuspend | billing, dunning, FUP, CRM, staff; emits events | concurrent sessions, identity-map reads, sibling write skew | no active service under a lock, authorised restores, terminal is final, account follows services |
| Account reconciler (`app/services/account_status_reconcile.py`) | none of its own | find drift, recompute | lifecycle, RADIUS | candidates are chosen by SQL, not by the derivation | drift ends |
| Network operations (`network_operations.py`, `network_operation_dispatch.py`, `network_operation_recovery.py`) | operation and dispatch rows | start, publish, acknowledge, complete, fail, redrive | devices, Celery | envelopes at least once, stale operations, redrive twice | one active operation per key, at most one execution per envelope |
| Integrations (`integrations/inbox.py`, `integrations/delivery.py`) | receipts, deliveries | receive, claim, process, replay; deliver, retry | outside systems | claim committed before the consequence; call made before the lease commits | no receipt lost, no state regress |
| Payments and ledger (`payment_webhook_commands.py`, `payment_provider_events.py`, `provider_payment_settlements.py`, `account_credit_deposits.py`, `payment_reconciliation.py`, `billing/*`, `topup_intents.py`) | checkout intents, provider events, payments, allocations, ledger entries, account credit | admit, settle, allocate, complete, expire, refund, reverse | gateways, inbox, portal, lifecycle | three paths race for one charge; three commits on the portal path; two lock orders; declined attempts under the same reference | one Payment and one allocation per charge, only for confirmed charges; every confirmed charge reaches its intent |
| Collections and prepaid (`collections/*`, `prepaid_service_renewals.py`, `enforcement.py`) | dunning cases, enforcement timers | sweep, escalate, resolve, renew | lifecycle, payments | payment racing a suspension | no suspension of a covered account |
| Timers and idempotency (`runtime_durable_timers.py`, `task_idempotency.py`) | timer rows, task executions | schedule, supersede, cancel, fire; claim, reclaim | outbox, Celery | stale reclaim of a running task | fires once per schedule |
| IP assignment, ONT/OLT provisioning, network reconcile | assignments, intents, holds | assign, release, apply, hold | network operations | concurrent assignment, stale revisions | one owner per address |
| Sales, projects, support, field, vendor, notifications, web, API, reports, mobile clients | their own rows | CRUD and workflow | events | little of their own | - |

`PROJECT.json` lists the components with their status and, under `hazards`, the places where this code is
hard to test.

## 2. Modules

| Module | Contents |
|---|---|
| `EventPlan` | the production handler tables and `event_execution_plan` |
| `EventDispatch` | the handler loop of `dispatch` and `retry_event`, one event, handler by handler |
| `EventDispatchProofs` | theorems about `EventPlan` and `EventDispatch` |
| `EventOutbox` | rows, callbacks, tasks, locks and crashes around that loop, several events |
| `EventDelivery` | abstract specification: what `emit_event` promises |
| `EventOutboxProofs` | theorems about `EventOutbox`, among them that it implements `EventDelivery` |
| `AccountLifecycle` | one account: its services, locks, derived status, sessions, reconciler |
| `AccountLifecycleProofs` | theorems about `AccountLifecycle` |
| `NetworkDispatch` | operations, their dispatch rows, the periodic publisher, the broker, workers, redrives |
| `CommandOnce` | abstract specification: what a dispatch row promises of a device command |
| `NetworkDispatchProofs` | theorems about `NetworkDispatch`, among them that it implements `CommandOnce` |
| `IntegrationInbox` | receipts of one capability binding and their joint and split consumers |
| `IntegrationInboxProofs` | theorems about `IntegrationInbox` |
| `IntegrationDelivery` | outbound deliveries, their task, HTTP call, lease and replay |
| `IntegrationDeliveryProofs` | theorems about `IntegrationDelivery` |
| `TopupSettlement` | checkout intents and the three paths that settle a confirmed charge |
| `TopupSettlementProofs` | theorems about `TopupSettlement` |
| `MC*` | instances for TLC |

Operators named as mutants (a comment says so) are deliberate mistakes. They are used by no specification;
each is put in the place of the definition that follows it to show that a property would notice.

### Events

`EventPlan` holds `HANDLER_CONTROLS` with the event types each handler subscribes to
(`handler_event_types`), restricted to the twelve chained event types and seven fan-out types that several
handlers share. `reg` is the order of the `register_handler` calls, which decides ties because Python's sort
is stable.

`EventDispatch` has an action for each thing that can happen to the handler at the current position:
`SkipRecovered` (a retry passes over handlers outside the manifest), `Block`, `HandlerSucceeds`,
`HandlerRaises` (its savepoint is rolled back, the loop goes on), then `MarkEventCompleted`, and
`RetryEvent`, which reads the manifest.

`EventOutbox` takes one run of that loop as a single step, because what the handlers write through the
dispatcher's session is one transaction. `ProvisioningHandler` is the exception: for
`provisioning.completed`, `provisioning.failed` and `service_order.activation_requested` it runs
`evaluate_readiness` or `confirm_activation` in an `owner_command_session`
(`events/handlers/provisioning.py:69,104`, `db_session_adapter.py:109-124`), and that command commits by itself.
Such handlers are the constant `Separate`. Their effect is a step of its own (`OwnerCommand`) that happens while
the row is claimed or retried, before the run is recorded; a later abort, crash or exception does not undo it,
and a repeated execution finds the decision of the first by its `command_id`, the id of the event
(`provisioning_lifecycle.py:408`), so that it changes nothing. `RecordRun` lets such a handler succeed only
when its command is there. A dispatch inside the caller's transaction (`CallerCommitInline`) is modelled for
events without such handlers; no caller in `app/` asks for it. Which sets
of handlers can succeed in a run is `RunOutcome`; `EventDispatch` checks that the loop yields only such sets
(`LoopGivesRunOutcome`, proved as `RunOutcomes`) so the two levels agree. The variables are the committed columns of the row
(`status`, `manifest` = `failed_handlers`, `retries`, `latest` = last attempt per handler), the ghost
`effects` (how often a handler's own writes were committed), and what the workers hold outside the database:
`callbacks`, `claimed` (row lock of `claim_pending_event`), `batch`, `retryBatch`, `retrying` and
`retryNames` (between the two commits of `retry_event`), `marked` (rows read by the stale marker). A crash
forgets the second kind: `CallbackLost`, `DispatchAbort`, `PeriodicDies`, `RetryAbort`, `StaleAbort`,
`CallerRollback`. Time is two facts per row: `age` against the retry window and the retention, and
membership in `stale`. `SlowRetries` says whether a retry can live longer than `stale_minutes`. With the
defaults it cannot (Celery kills a task after 900 s, rows are stale after 30 minutes), but both numbers are
settings, and the properties that depend on it are stated with that assumption.

`Poison` events raise outside every handler: an unknown event type in `dispatch_pending_event`.

### Lifecycle

`AccountLifecycle` models one account. An operation is a transaction of a session in two steps: the row lock
is taken and the writes are *staged*, then it commits or aborts. Before that a session may *load* the rows
without a lock (`Preload`), as `transition_account_status` does. What a session believes is `Seen`: after a
load, SQLAlchemy's identity map keeps the loaded attributes even through `SELECT ... FOR UPDATE`, unless
`populate_existing` is given, which this module never does. An attribute is written only if it differs from
what the session loaded (`Changed`). Locks are always read by a fresh query. `Free` is the row lock;
`compute_account_status` at the end of every operation is part of `StageAs`, never an action of its own.
`trigger` in a staged transaction is a ghost used by `RestoreIsAuthorized`.

Account commands (`StageAccount`) lock the account and all services first when they come through
`account_status_commands.py`; callers that loaded rows before (CRM ingress, self-service deletion) lock each
row as they reach it. `apply_requested_account_status` writes the override and locks nothing.
`handle_subscription_event` is the recomputation of the enforcement handler, `reconcile_account` the repair
of the scheduled reconciler with the candidate conditions of `find_account_projection_drift_ids`.

### Network operations

A request starts an operation and stages its dispatch row in one transaction (`opStatus`, `dStatus`; the
partial unique index on active correlation keys is the guard of the start). `publish_network_operation_dispatches`
is a `Beat` session: it selects ready rows, locks one, publishes and commits, or reconciles rows whose
acknowledgement is too old (`aged`). Several may overlap. A `Worker` receives an envelope, claims the row
(`claim_dispatch_execution`), enters the device task (`execs`), records the operation's outcome and completes
the row. `envelopes` is the broker: it may lose and repeat. Operations are read without a lock and written by
primary key: `seen` is what the open transaction read, and its write is blind. A redrive locks its source and
links the new attempt to it (`source`). `ImplementsCommandOnce` maps a row to a command of `CommandOnce`:
offered, taken by one worker, closed, or withdrawn before it was taken.

### Integration inbox and delivery

`IntegrationInbox`: a webhook is verified (`Verify` reads whether the binding is enabled), admitted under the
lock of the binding (`AdmitClaim`, `AdmitDuplicate`, `AdmitDead`, `AdmitCollision`, which quarantines), and
processed. A joint consumer (payments) commits its consequence with `processed` under the receipt's row lock;
a split one commits the consequence first (`SplitCommit`) and the receipt afterwards (`SplitComplete`).
`effects` counts committed consequences, `acked` is what the provider was told.

`IntegrationDelivery`: the event handler creates the row and enqueues its task inside the event's transaction
(`HandleNew`, `HandleEnqueue`, `HandleCommit`); the task reads without a lock, flushes its lease (which locks
the row until the commit), makes the request and records the result; Celery retries with a countdown are
`tasks` that stay in the broker. Replays and manual tests are sessions of their own.

### Settlement

An intent, its gateway transaction and the Payment made for it share one name, the reference. `sess` holds
what each process has seen: the intent is read before the transaction waits for a lock, and `lock_for_update`
returns that object again (no `populate_existing`), so `Completed` and `SweepExpire` work on `seen`. Deposits
and the sweep lock the account and then the provider row, webhooks of invoices the provider and then the
account; `DeadlockVictim` is PostgreSQL's answer. The portal path commits cash (`PortalCash`), allocation
(`PortalAllocate`) and intent (`PortalComplete`) one by one. `Settle` is the whole consequence of the other
two paths: provider event, Payment, allocation, projection on the intent. Whether an invoice takes the money
is open (`Allocated`): a balance may be paid otherwise, the confirmation may be refused, then the cash stays
account credit and an exception may be recorded. The receipt of the inbox is reduced to its states.

`closed` says whether the account is disabled or canceled, and whether the provider row is inactive; the back
office changes both at any time (`Deactivate`, `Reactivate`). All three paths refuse a deposit of a closed
account (`AccountRefuses`, `account_credit_deposits.py:306-313`) and none posts money to an inactive provider
(`payment_provider_events.py:463-471`, `payment_reconciliation.py:350-357`, and `PostingRefused` for
`billing/_common.py:831-845`). A refused webhook ends as `dead_letter`, a refused customer goes away, and the
sweep leaves the intent pending and finds it again. The sweep takes the `BatchSize` oldest of the stranded
intents and works through them in that order (`Stranded`, `InBatch`, `IsNext`), so an intent that is refused,
or not paid and not yet expired, keeps a place that a younger one may need.

## 3. Runs

| Run | Bounds | Shows |
|---|---|---|
| `dispatch` | 19 event types, 14 handlers, 3 retries | over the production tables nothing is starved, isolated events stay isolated, no effect repeats, customers are told after the state changed |
| `outbox` | 2 events (one chained over 3 handlers, of which the first commits on its own, one fan-out over 2), 2 retries, batch of 1 | exactly once, in order, nothing forgotten, one owner, implements `EventDelivery` |
| `outbox_live` | 2 events, one poison, 2 retries, batch of 2, retries may outlast the stale window | every other committed event settles; that nothing is forgotten then and no row has two owners is proved |
| `account_locked` | 2 services on one login, pending or active, 2 concurrent sessions that lock before they read, 2 reasons, 4 operations, past due | no service is active under a lock, revived after its end, or restored without authority |
| `account_live` | 2 services, pending or active, 2 sessions with earlier loads, 2 reasons, 3 operations | whatever drift the races leave, it ends |
| `account_stale` (violated) | the same | see findings |
| `network_dispatch` | 1 operation, 2 overlapping sweeps, 2 workers, 2 attempts, 1 death | a command is entered at most once and never after it was withdrawn; implements `CommandOnce`; every command settles |
| `network_operations` | 3 operations on one target, 1 sweep, 1 worker, 2 requests, 2 redrives | one active operation per target, redrives in one line and only of failed sources |
| `inbox` | 2 events (one joint, one split), 2 payloads, 2 web sessions, 1 operator, 1 replay, 1 death | one processor per receipt, a joint consequence once, attempts within the budget |
| `inbox_resume` (violated) | 1 event, 1 web session, 1 death | see findings |
| `delivery` | an event delivery and a manual test, 2 workers, 1 operator, 1 replay, 1 death | requests of one delivery do not overlap, none for an uncommitted event, one task keeps its budget |
| `settlement` | 2 intents (an older one that is never paid, one of either kind that is), one process per path, a batch of 1, 1 fault or deactivation, 2 attempts | one Payment and one allocation per charge, only for confirmed charges, joint receipts; a confirmed charge settles once nothing refuses it and the batch has room |

Why the bounds are enough: two events give every race there is between the dispatchers, since rows interact
only through batches; a batch of one forces the second row to wait; two retries give a retry after a failed
retry, with a crash between them. Two services are what sibling derivation and login collisions need; three
operations are a preparation and two that race, and four let a service be suspended, disabled with its locks,
enabled and restored. Sessions and services of `account_locked` are interchangeable (`Symmetry`). Dispatch rows of different operations never interact except
through the target's index and the redrive, so `network_dispatch` takes one row and gives it every session it
can meet, and `network_operations` takes three operations, of which one at a time is published (the constraint
`OnePublished`): an attempt, its redrive, and a third that competes. Receipts interact only through the
quarantine of their binding, deliveries not at all. In `settlement` the intents of one account interact only
by making each other wait for the account row and by filling the batch of the sweep; one paid intent with one
process on each of the three paths gives every order of their reads, locks and commits, and the older intent
fills the batch until the sweep expires it. The purpose of an intent that is never paid is not looked at, so
the older one is an invoice checkout. Two intents that are both paid exceed what TLC can exhaust. The theorems of section 5 state every safety property of these runs for all sizes.

The type invariants of `EventDispatch`, `IntegrationInbox` and `IntegrationDelivery` are in no run; they are
part of the inductive invariants proved below. Every other module has its type invariant checked as well.

Deadlock checking is on in `settlement`, where nobody may wait for ever. It is off in the other runs: an
outbox whose rows are all settled, and a lifecycle, inbox or delivery whose budget of operations, kicks or
replays is used up, stop rightly.

### Fairness

`outbox_live`: Celery beat schedules the three tasks for ever (weak fairness of `PeriodicList`, `RetryList`,
`StaleSelect`), transactions end one way or the other, and time passes. Strong fairness of `PeriodicVisit`,
`DispatchCommit` and `StaleWrite` says that the infrastructure does not fail the same row for ever; without
it no outbox can promise progress. Handlers are under no such assumption: they may raise for ever, and the
row then ends as failed with its retries used up. `CallbackClaim` has no fairness: callbacks may always be
lost. The poison event must share its batch with others: pending rows are listed oldest first and a row that
raises outside the handlers is neither counted nor set aside, so a batch full of them would starve the rest.

`account_live`: transactions end, the reconciler runs for ever and its commit is not refused for ever.

`network_dispatch`: the publisher is scheduled for ever (`scheduler_config.py:1655-1668`), it does not pass
over a ready or silent row for ever, open transactions end and time passes. Nothing is assumed of the broker,
of workers that hold an envelope, or of devices.

`inbox_resume`: requests that were started go on, and the provider repeats what was not acknowledged.

`settlement`: processes run on, PostgreSQL ends deadlocks, and the sweep is scheduled for ever
(`scheduler_config.py:821-834`) while the intent is a candidate; faults are finite in number. Nothing is
assumed of webhooks or customers. The candidate window of `topup_reconciliation_max_age_days` is taken as long
enough. `PaidIsSettled` is conditional: from some time on the provider is active, the account of a deposit is
neither disabled nor canceled, and fewer than `BatchSize` older intents are stranded (`Accepting`). None of
the three is a promise of the code. Money confirmed for an account that was canceled is refused by every path
until the account is reopened, and if that lasts longer than the candidate window nothing but a manual action
settles it; such intents also keep their places in the batch, oldest first, and enough of them starve the
younger ones.

## 4. Findings

Two disagreements between the code and what the repository says of it are runs of their own:

* **A status read before the lock is used after it** (`account_stale`). `disable_subscription`,
  `suspend_subscription` and the others select the row `FOR UPDATE` and then test `subscription.status`; if
  the caller loaded the row before (`transition_account_status`, reached without prior locks from
  `crm_api.py:1290` and `account_deletion.py:54`), the test sees the old status. TLC's trace: one session
  loads the account, another expires or cancels the service, the first disables or suspends it: a terminal
  service has left its terminal status. The same reads allow an active service under a lock, restored by
  nobody with the authority to do so (`MCAccountRestore.cfg`). The run `account_locked` and the theorems about
  the lifecycle therefore speak of sessions that lock before they read (`~Preload`); they do not cover these
  callers, for which `TerminalNeverLeft` is false.
* **A claimed receipt is never resumed** (`inbox_resume`). `claim_for_processing` refuses a receipt in
  `processing`, the redelivery is answered 200 with the stored, empty consequence, nothing times the receipt
  out and `replay_receipt` refuses it; `INTEGRATION_PLATFORM_SOT.md:277-278` says an incomplete receipt
  resumes. For payments the reconciliation sweep makes up for it, as `PaidIsSettled` shows.

The others are kept as configurations that TLC refutes in seconds. None of them is among the runs.

| Configuration | Property | What happens |
|---|---|---|
| `MCAccountRestore.cfg` | `RestoreIsAuthorized` | `transition_service_order` (`service_order_lifecycle.py:209-216`) reads `order.subscription` without a lock and `activate_subscription` tests that object again; a service suspended in between becomes active under its lock. With the lock first the property is proved (`RestoreAuthority`). |
| `MCAccountTerminal.cfg` | `TerminalStaysPut` | `cancel_subscription` (`account_lifecycle.py:1346`) accepts an expired, hidden or archived service, although the guard's docstring (427-433) says all operations of the module reject such edges. What holds, and is proved, for sessions that lock first is `TerminalNeverLeft`. |
| `MCAccountLogin.cfg` | `OneActivePerLogin` | The documentation names the index `uniq_subs_login_active_per_subscriber`, which no model and no migration creates; the check at `account_lifecycle.py:2292` reads the sibling without a lock. |
| `MCNetworkTerminal.cfg` | `TerminalIsFinal` | Marks read without a lock and write by primary key (`network_operations.py:230`): a worker's mark overwrites a status that became terminal meanwhile, against "Terminal statuses — no further transitions allowed" (line 58). |
| `MCNetworkEvidence.cfg` | `ReviewEvidenceKept` | `reconcile_dispatches` (`network_operation_dispatch.py:1070`) decides by a status selected before it locked the row, and a row exposed as `reconciliation_needed` can be completed. |
| `MCInboxReplay.cfg` | `OnlyFailedReopened` | `replay_receipt` (`integrations/inbox.py:291`) checks the state without a lock and can reopen a receipt that was claimed since. |
| `MCInboxAdmission.cfg` | `AdmissionNeedsEnabled` | The binding was found enabled in an earlier transaction than the admission (`integrations/inbox.py:99`); a collision may quarantine it in between. |
| `MCDeliveryTried.cfg` | `PendingIsTried` | The task is enqueued before the event's transaction commits (`integrations/delivery.py:269`); a quick worker finds no row, raises and is not retried, and no sweep picks pending rows up, against `INTEGRATION_PLATFORM_SOT.md:351-353`. |
| `MCDeliveryParked.cfg` | `ParkedUntilReplay` | A second task sends a parked delivery without a replay (`integrations/delivery.py:327` tests only for success). |
| `MCDeliveryFinal.cfg` | `DeliveredStaysDelivered` | `replay_delivery` (`integrations/delivery.py:389`) and a second task write over a success recorded since they read. |
| `MCSettlementExpiry.cfg` | `CompletedNotExpired` | The sweep reads a pending intent, waits for the account while another path completes it, and writes `expired` over `completed` (`topup_intents.py:587-612`, `locking.py:90-97`); "Completed top-up intent cannot be expired" (`topup_intents.py:1191`) is tested on the old object. The link to the Payment stays. |
| `MCSettlementDecline.cfg` | `DeclineIsNotFinal` | The webhook of a declined attempt leaves a provider event under the reference; a later successful attempt under the same reference is quarantined by the inbox and answered with `replay_conflict` at every sweep (`payment_provider_events.py:511-529`), while "refusing to complete it would drop real money" (`topup_intents.py:15`). Only the customer's own return settles it. |

## 5. What is proved

Every invariant, every safety action property and both refinements that a passing run checks are theorems, and
so is `ProjectionExact`, which TLC checks with `MCAccountSerial.cfg` (one session, four reasons, four operations).
Each rests on one inductive invariant, which TLC checked on the bounds of the run before it was proved.

`EventDispatchProofs`, for the production tables and any `MaxRetries`:

* The plan. `PlanStep` is a `CHOOSE` over ranks, so it has to be shown that a handler of every rank exists:
  registration positions differ (`KeysDiffer`), hence `PlanBefore` is a strict total order (`PlanOrder`),
  ranks are distinct and fill `0..PlanLength-1` (`RankOrders`, `PlanPositions`), and what a handler waits for
  ranks before it (`DependenciesComeFirst`), which start-up validation does not check.
* `LoopInv` is inductive: every handler the loop has passed is in exactly one of succeeded, raised and blocked
  (`AccountInv`); what has succeeded is closed under dependencies (`ClosedInv`); an effect is kept exactly for
  what has succeeded, in this run or an earlier one (`EffectInv`); somebody raised before somebody was blocked
  (`BlockInv`). A retry keeps it because a failed run's manifest is exactly the rest of the plan and not
  empty; an empty one would mean the whole plan. It gives `RunOutcomes`, `NobodyStarves`, `FanoutIsIsolated`,
  `HandlersOnce` and `StagesInOrder`.

`EventOutboxProofs`, for any sets of events and handlers, any plans and dependencies, any limits
(`OutboxAssumption`: plans are not empty, prerequisites are in the plan, batch sizes are positive;
`SeparateAssumption`: a handler that commits on its own waits for no other, as the production tables have it):

* `RowInv` is inductive. It consists of the type invariant, `NothingForgotten`, `PrerequisitesFirst`,
  `OneOwner`, and what they need: rows queued for retry are failed, have budget and are not in retry
  (`QueueInv`, otherwise `retries` could pass its bound); what a running retry read of its row is still true
  (`RetryInv`); only rows that were dispatched can be timed out (`MarkInv`, otherwise the stale marker could
  fail a pending row that has no manifest). It gives `TypeCorrect`, `NeverForgotten`, `DependencyOrder`,
  `SingleOwner`.
* `ExactInv` adds, under `~SlowRetries`, that the manifest names what is missing and nothing else, except
  handlers whose owner command is committed and will be replayed (`ManifestExact`), and
  that the stale marker and a running retry never hold the same row (`NoOverlap`). It gives `ExactlyOnce`,
  `CompletedStays` and `Refinement`: every step of the outbox is a step of `EventDelivery` or stutters.

`AccountLifecycleProofs`, for any services, logins, reasons, sources and any number of concurrent sessions
that lock their rows before they read them (`~Preload`; the callers of section 4 do not):

* `LifecycleInv` is inductive: types; no lock on an active **or pending** service (`activate_subscription`
  does not look at locks, so the second half is needed); two open transactions never hold the same row
  (`ExclusionInv`); every staged transaction is a legal move with respect to the rows as they are *now*
  (`StagedInv`), which survives because nobody else can write a locked row. It gives `LifecycleTypes`,
  `LocksHold`, `TerminalIsFinal` and `RestoreAuthority`, the general form of what `account_locked` checks.
* `SerialProjection` adds that at most one session is open beside the reconciler (with two, siblings race and
  the account drifts, which is why there is a reconciler). `SerialInv` says that what the session has staged is
  exact once committed, and that the reconciler, recomputing an exact row, stages nothing; `OverChanged` is the
  lemma that writing only the changed columns yields the row that was computed.

`NetworkDispatchProofs`, for any operations, targets, overlapping sweeps, workers, requests, operators and
limits:

* `DispatchInv` is inductive: types; that the acknowledgement, the status of a dispatch and its executions
  agree (`RowInv`: only an acknowledged dispatch was entered, and once, and it never becomes withdrawn); what
  a session relies on of the rows it read (`SessionInv`: a publisher's row is still offered, a worker whose
  claim is committed has an acknowledged row nobody has entered, a redrive's source is still failed and not
  continued); which phases exclude each other on one operation (`ExclusionInv`: the row locks, two claims, two
  redrives); and `OneActivePerTarget` and `LineageIsLinear`. Marks are blind writes that can revive an ended
  operation, so `OneActivePerTarget` rests on the partial unique index, which refuses them when the target is
  taken. `MoveKeeps` and `WriteKeeps` state once what a step that writes nothing, and one that writes a
  row, must leave; each action is an instance. It gives `DispatchTypes`, `OneExecution`, `WithdrawnIsSafe`,
  `SingleActive`, `LinearLineage` and `RedriveReviewHolds`.
* `DispatchRefinement`: every step moves at most one command, and moves it as `CommandOnce` allows
  (`CreateOffers`, `OfferMoves`, `CloseMoves`, `EnterTaskRuns`); all others are `Invisible`.

`IntegrationInboxProofs`, for any events, payloads, sessions, attempts, replays and deaths:

* `InboxInv` is inductive. The attempts of a receipt beyond its budget are paid for by replays: a replay that
  is under way, and a reopened receipt nobody has claimed since, are *permits*, counted with `Cardinality`
  over the sessions; attempts plus permits stay within `MaxAttempts + replays` (`BudgetInv`). For a joint
  receipt its effects, the sessions that could still commit one and the open receipt together stay within
  `1 + replays` (`JointInv`). That these sets are finite is part of the invariant, so
  nothing is assumed of the number of sessions. `OwnerInv` says who owns a receipt while nobody has replayed,
  `LockInv` and `SessionInv` what the row lock protects. It gives `InboxTypes`, `Exclusive`, `ConsequenceOnce`
  and `AttemptsBounded`.

`IntegrationDeliveryProofs`, for any deliveries, workers, operators, limits and deaths:

* `DeliveryInv` is inductive: types; which kinds of session can be in which phase (`RoleInv`); one session at
  a time holds a row's lease (`LockInv`); and per delivery (`RowInv`), that a row was committed before
  anything was sent, and, while its task was enqueued once, that its single task token is in the broker or
  with one worker who saw the current attempt count (`OneToken`), and that the budget is not used up while the
  token exists (`Spent`). It gives `DeliveryTypes`, `NoOverlap`, `SentIsCommitted` and `BudgetHolds`.

`TopupSettlementProofs`, for any intents, any number of web processes, attempts, faults and
deactivations (`SettlementAssumption`: the kinds of process are disjoint, a receipt has at least one attempt):

* `SettlementInv` is inductive: types; the four money properties the run checks (`MoneyInv`); what the
  announcements say (`AnnounceInv`: a success is on the wire or in a receipt only after the charge, a receipt
  that can still be claimed has attempts left); and what an open session knows (`SessionInv`). The last part is
  what makes the rest inductive: a session acts on an intent, a Payment or a gateway answer it read before it
  waited for a lock, so the invariant says that whatever it has seen *linked*, *found* or *paid* is still so.
  That survives other sessions because charges, Payments and allocations only grow (`Grows`, `OthersKeep`);
  a status does not, which is why `CompletedNotExpired` fails while the money properties hold. `MoneyStep`
  states once what a commit must leave, and each path is shown to leave it. It gives `SettlementTypes`,
  `PostedOnce`, `AllocationOnce`, `ConfirmedMoney` and `JointWebhook`.

Only model-checked: the four liveness properties (`EventuallySettled`, `ParentCatchesUp`,
`EveryCommandSettles`, `PaidIsSettled`), because fairness and `ENABLED` are beyond the prover. The theorems
about the lifecycle keep the assumption `~Preload`: without it TLC refutes them (section 4).

## 6. Not modelled, and the plan

Left out of the modelled parts: `access_state` and `access_mode` (RADIUS policy), billing anchors, IP release
and evidence rows written beside a transition, events emitted inside a handler's savepoint,
`wait_for_event_terminal` (it only reads), deletion of attempts with their row. Refusals that raise are
aborts. Deadlocks between lock orders are aborts, as PostgreSQL makes them.

Network operations: the rollup of parent and child operations, the retention purge (not scheduled),
`run_tracked_action`, ages and backoffs, the branch for a dispatch whose target does not match. The
status-refresh task stands for the device tasks, which share its frame.

Events: a dispatch in the caller's own transaction of an event with a handler that commits on its own. For
`service_order.activation_requested` the effect that is counted is the owner command; the projections that
`ProvisioningHandler` writes through the dispatcher's session before it are rolled back with the savepoint and
made again.

Integrations: a connection that the database closes during the HTTP call of a delivery
(`idle_in_transaction_session_timeout`), which would free the row lock while the request goes on, so that
`SendsDoNotOverlap` holds for calls shorter than that timeout; the lead-capture consumer (`sales/capture.py`), which claims again in its own transaction; the
content of requests and answers; listing and search. A duplicate of a split receipt may be answered 500 (the
ERP material webhook finds no stored consequence, `api/erp_material_webhooks.py:79-85`) or 200; no property
depends on which.

Payments: refunds, reversals, consolidated and reseller payments, saved cards, direct transfers and their
proofs, legacy top-ups, amounts, fees and currencies (every refusal that compares them), a provider that is replaced by another, an
account that is closed between the reading of its row and the lock (the refusal then tests the older status), the ledger and the
application of account credit to other invoices, the candidate window of the sweep. The partial unique index
on the provider transaction is left out on purpose: `CashPostedOnce` shows it is never needed. A webhook of an
invoice also locks the Payment row it found before the account row; the deadlock with a portal allocation this
allows ends like `DeadlockVictim`. One deviation has no property: when portal and webhook allocate at once, the
loser's repeated preview is refused before its replay is looked for (`billing/payments.py:4392-4405`), and an
open exception is recorded for an allocation that exists.

Plan, in order:

1. composition of `EventOutbox` with `AccountLifecycle`: an operation emits, the enforcement handler
   recomputes, drift ends without the reconciler unless the event fails for good;
2. durable timers and task idempotency: schedule, supersede, fire; claim and reclaim;
3. refunds and reversals, account credit and ledger, conservation of money;
4. dunning and prepaid enforcement as the environment that decides suspend and restore; IP assignment.
