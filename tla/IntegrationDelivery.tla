------------------------- MODULE IntegrationDelivery -------------------------
(***************************************************************************)
(* Outbound deliveries (app/services/integrations/delivery.py), the event  *)
(* handler that creates them, their Celery task and the operator's replay. *)
(*                                                                         *)
(* Isolation is READ COMMITTED.  execute_delivery reads the row without a  *)
(* lock; its flush of the lease locks the row until the commit, after the  *)
(* HTTP call, but the lease itself is never visible to another session.    *)
(* The handler enqueues the task inside the event's transaction.           *)
(***************************************************************************)
EXTENDS Naturals, FiniteSets

CONSTANTS
    Delivery,     \* idempotency keys: an event and a binding, or a test
    Manual,       \* the operator-requested tests among them
    NoDelivery,
    Dispatcher,   \* sessions of the event dispatcher
    Worker,       \* Celery workers
    Operator,     \* sessions of the administration API
    MaxAttempts,  \* max(1, min(max_attempts, 20))
    MaxKicks,     \* bound on the tasks enqueued for one delivery, retries excluded
    MaxReplays,   \* bound on authorized replays
    MaxCrashes    \* bound on process deaths

Session == Dispatcher \cup Worker \cup Operator

ASSUME DeliveryAssumption ==
    /\ NoDelivery \notin Delivery
    /\ Manual \subseteq Delivery
    /\ Dispatcher \cap Worker = {} /\ Dispatcher \cap Operator = {}
    /\ Worker \cap Operator = {}
    /\ MaxAttempts \in Nat \ {0}
    /\ MaxKicks \in Nat
    /\ MaxReplays \in Nat
    /\ MaxCrashes \in Nat

Parked == {"dead_letter", "reconciliation_required"}
Replayable == Parked \cup {"retryable"}
Results == {"succeeded", "retryable", "reconciliation_required", "rejected"}

VARIABLES
    state,    \* committed IntegrationDelivery.state; absent: no row
    tries,    \* committed attempt_count
    tasks,    \* tasks in the broker, those with a countdown included
    kicks,    \* how often a task was enqueued, retries excluded
    sent,     \* HTTP requests made
    phase, at, seen,  \* a session: where it is, its row, the attempt_count
                      \* it read
    replays, crashes

rowVars == <<state, tries>>
sessVars == <<phase, at, seen>>
vars == <<rowVars, tasks, kicks, sent, sessVars, replays, crashes>>

Init ==
    /\ state = [d \in Delivery |-> "absent"]
    /\ tries = [d \in Delivery |-> 0]
    /\ tasks = [d \in Delivery |-> 0]
    /\ kicks = [d \in Delivery |-> 0]
    /\ sent = [d \in Delivery |-> 0]
    /\ phase = [s \in Session |-> "idle"]
    /\ at = [s \in Session |-> NoDelivery]
    /\ seen = [s \in Session |-> 0]
    /\ replays = 0
    /\ crashes = 0

Enter(s, p, d, n) ==
    /\ phase' = [phase EXCEPT ![s] = p]
    /\ at' = [at EXCEPT ![s] = d]
    /\ seen' = [seen EXCEPT ![s] = n]

Leave(s) == Enter(s, "idle", NoDelivery, 0)

SetState(d, st) == state' = [state EXCEPT ![d] = st]

(* The row is inserted, or updated and flushed, and not yet committed.     *)
RowLocked(d) ==
    \E s \in Session : phase[s] \in {"staged", "queued", "leased", "sent"} /\ at[s] = d

(* enqueue_task; a broker error (n = 0) comes back as a result nobody      *)
(* looks at.                                                               *)
Enqueue(d, n) ==
    /\ kicks[d] < MaxKicks
    /\ tasks' = [tasks EXCEPT ![d] = @ + n]
    /\ kicks' = [kicks EXCEPT ![d] = @ + n]

-----------------------------------------------------------------------------
(* WebhookHandler.handle in the transaction of the event dispatcher.       *)

(* create_platform_deliveries_for_event: no row with the key yet.          *)
HandleNew(s, d) ==
    /\ phase[s] = "idle"
    /\ d \notin Manual
    /\ state[d] = "absent"
    /\ ~RowLocked(d)
    /\ Enter(s, "staged", d, 0)
    /\ UNCHANGED <<rowVars, tasks, kicks, sent, replays, crashes>>

(* queue_platform_deliveries, before the event's transaction commits.      *)
HandleEnqueue(s, n) ==
    /\ phase[s] = "staged"
    /\ Enqueue(at[s], n)
    /\ Enter(s, "queued", at[s], 0)
    /\ UNCHANGED <<rowVars, sent, replays, crashes>>

HandleCommit(s) ==
    /\ phase[s] = "queued"
    /\ SetState(at[s], "pending")
    /\ Leave(s)
    /\ UNCHANGED <<tries, tasks, kicks, sent, replays, crashes>>

(* The event is handled again: a pending delivery is queued again.         *)
HandleExisting(s, d, n) ==
    /\ phase[s] = "idle"
    /\ d \notin Manual
    /\ state[d] = "pending"
    /\ Enqueue(d, n)
    /\ UNCHANGED <<rowVars, sent, sessVars, replays, crashes>>

-----------------------------------------------------------------------------
(* Operators: create_manual_test_delivery and replay_delivery commit the   *)
(* row before they enqueue its task.                                       *)

ManualCreate(s, d) ==
    /\ phase[s] = "idle"
    /\ d \in Manual
    /\ state[d] = "absent"
    /\ SetState(d, "pending")
    /\ Enter(s, "committed", d, 0)
    /\ UNCHANGED <<tries, tasks, kicks, sent, replays, crashes>>

ReplayRead(s, d) ==
    /\ phase[s] = "idle"
    /\ replays < MaxReplays
    /\ replays' = replays + 1
    /\ state[d] \in Replayable
    /\ Enter(s, "replay", d, 0)
    /\ UNCHANGED <<rowVars, tasks, kicks, sent, crashes>>

(* Written over whatever the row is by then.                               *)
ReplayWrite(s) ==
    /\ phase[s] = "replay"
    /\ ~RowLocked(at[s])
    /\ SetState(at[s], "pending")
    /\ Enter(s, "committed", at[s], 0)
    /\ UNCHANGED <<tries, tasks, kicks, sent, replays, crashes>>

OperatorEnqueue(s, n) ==
    /\ phase[s] = "committed"
    /\ Enqueue(at[s], n)
    /\ Leave(s)
    /\ UNCHANGED <<rowVars, sent, replays, crashes>>

-----------------------------------------------------------------------------
(* deliver_integration_event and execute_delivery.                         *)

Take(d) == tasks[d] > 0 /\ tasks' = [tasks EXCEPT ![d] = @ - 1]

(* Mutant: a task that does not find its row delivers all the same.        *)
TaskStartBlind(s, d) ==
    /\ phase[s] = "idle"
    /\ Take(d)
    /\ state[d] # "delivered"
    /\ Enter(s, "read", d, tries[d])
    /\ UNCHANGED <<rowVars, kicks, sent, replays, crashes>>

(* A committed row that is not delivered is worked on, whatever its state. *)
TaskStart(s, d) ==
    /\ phase[s] = "idle"
    /\ Take(d)
    /\ state[d] \notin {"absent", "delivered"}
    /\ Enter(s, "read", d, tries[d])
    /\ UNCHANGED <<rowVars, kicks, sent, replays, crashes>>

(* The row is not there (DeliveryError) or delivered: the task ends.       *)
TaskNothingToDo(d) ==
    /\ Take(d)
    /\ state[d] \in {"absent", "delivered"}
    /\ UNCHANGED <<rowVars, kicks, sent, sessVars, replays, crashes>>

(* The binding is not enabled or its context cannot be built: the task     *)
(* raises, and raises no retry.                                            *)
TaskRefused(s) ==
    /\ phase[s] = "read"
    /\ Leave(s)
    /\ UNCHANGED <<rowVars, tasks, kicks, sent, replays, crashes>>

(* Mutant: the lease is not flushed before the request is made.            *)
LeaseNotFlushed(s) ==
    /\ phase[s] = "read"
    /\ Enter(s, "leased", at[s], seen[s])
    /\ UNCHANGED <<rowVars, tasks, kicks, sent, replays, crashes>>

(* The flush of the lease waits for the row lock.                          *)
Lease(s) ==
    /\ phase[s] = "read"
    /\ ~RowLocked(at[s])
    /\ Enter(s, "leased", at[s], seen[s])
    /\ UNCHANGED <<rowVars, tasks, kicks, sent, replays, crashes>>

Send(s) ==
    /\ phase[s] = "leased"
    /\ sent' = [sent EXCEPT ![at[s]] = @ + 1]
    /\ Enter(s, "sent", at[s], seen[s])
    /\ UNCHANGED <<rowVars, tasks, kicks, replays, crashes>>

(* Mutant: a retryable result is retried without a budget.                 *)
ResultStateUnbounded(r, n) ==
    CASE r = "succeeded" -> "delivered"
      [] r = "retryable" -> "retryable"
      [] r = "reconciliation_required" -> r
      [] OTHER -> "dead_letter"

(* What the receipt of the connector makes of the row at attempt n.        *)
ResultState(r, n) ==
    CASE r = "succeeded" -> "delivered"
      [] r = "retryable" /\ n < MaxAttempts -> "retryable"
      [] r = "reconciliation_required" -> r
      [] OTHER -> "dead_letter"

(* Commit, and self.retry when the row is retryable.  The attempt count    *)
(* is the one read at the start, plus one.                                 *)
Record(s, r) ==
    LET d == at[s]
        st == ResultState(r, seen[s] + 1)
    IN
    /\ phase[s] = "sent"
    /\ SetState(d, st)
    /\ tries' = [tries EXCEPT ![d] = seen[s] + 1]
    /\ tasks' = IF st = "retryable" THEN [tasks EXCEPT ![d] = @ + 1] ELSE tasks
    /\ Leave(s)
    /\ UNCHANGED <<kicks, sent, replays, crashes>>

(* A process dies; its transaction is rolled back.  The task of a lost     *)
(* worker is delivered again (task_acks_late), unless the time limit ended *)
(* it (n = 0).                                                             *)
Crash(s, n) ==
    /\ phase[s] # "idle"
    /\ crashes < MaxCrashes
    /\ crashes' = crashes + 1
    /\ s \notin Worker => n = 0
    /\ tasks' = IF s \in Worker THEN [tasks EXCEPT ![at[s]] = @ + n] ELSE tasks
    /\ Leave(s)
    /\ UNCHANGED <<rowVars, kicks, sent, replays>>

-----------------------------------------------------------------------------
HandleStep(s) == HandleCommit(s) \/ \E n \in {0, 1} : HandleEnqueue(s, n)

WorkerStep(s) ==
    \/ TaskRefused(s) \/ Lease(s) \/ Send(s)
    \/ \E r \in Results : Record(s, r)

OperatorStep(s) == ReplayWrite(s) \/ \E n \in {0, 1} : OperatorEnqueue(s, n)

Next ==
    \/ \E s \in Dispatcher :
          \/ HandleStep(s)
          \/ \E d \in Delivery :
                HandleNew(s, d) \/ \E n \in {0, 1} : HandleExisting(s, d, n)
    \/ \E s \in Worker : WorkerStep(s) \/ \E d \in Delivery : TaskStart(s, d)
    \/ \E d \in Delivery : TaskNothingToDo(d)
    \/ \E s \in Operator :
          \/ OperatorStep(s)
          \/ \E d \in Delivery : ManualCreate(s, d) \/ ReplayRead(s, d)
    \/ \E s \in Session, n \in {0, 1} : Crash(s, n)

Spec == Init /\ [][Next]_vars

(* Sessions end unless their process dies, and workers take queued tasks.  *)
Fairness ==
    /\ \A s \in Dispatcher : WF_vars(HandleStep(s))
    /\ \A s \in Worker : WF_vars(WorkerStep(s))
    /\ \A s \in Operator : WF_vars(OperatorStep(s))
    /\ \A d \in Delivery :
          SF_vars(TaskNothingToDo(d) \/ \E s \in Worker : TaskStart(s, d))

FairSpec == Spec /\ Fairness

-----------------------------------------------------------------------------
(* Properties.                                                             *)

States == {"absent", "pending", "delivered"} \cup Replayable

Phase == {"idle", "staged", "queued", "committed", "replay", "read", "leased", "sent"}

TypeOK ==
    /\ state \in [Delivery -> States]
    /\ tries \in [Delivery -> Nat]
    /\ tasks \in [Delivery -> Nat]
    /\ kicks \in [Delivery -> 0..MaxKicks]
    /\ sent \in [Delivery -> Nat]
    /\ phase \in [Session -> Phase]
    /\ at \in [Session -> Delivery \cup {NoDelivery}]
    /\ \A s \in Session : at[s] = NoDelivery <=> phase[s] = "idle"
    /\ seen \in [Session -> Nat]
    /\ replays \in 0..MaxReplays
    /\ crashes \in 0..MaxCrashes

(* Two requests for one delivery never overlap, although no task looks at  *)
(* the lease of another: the flush of execute_delivery holds the row lock  *)
(* until the outcome commits.  A session whose connection the database     *)
(* closes during the request (idle_in_transaction_session_timeout) while   *)
(* its HTTP call goes on is not modelled.                                  *)
SendsDoNotOverlap ==
    \A s, t \in Session :
       phase[s] \in {"leased", "sent"} /\ phase[t] \in {"leased", "sent"}
          /\ at[s] = at[t] => s = t

(* Nothing is sent for an event whose transaction was rolled back or is    *)
(* still open, although the task is enqueued inside that transaction.      *)
OnlyCommittedSent == \A d \in Delivery : sent[d] > 0 => state[d] # "absent"

(* A delivery whose task was enqueued once is sent at most as often as its *)
(* budget allows, plus once for every process that died: a redelivered     *)
(* task goes on with the committed attempt count.  (Two tasks at once lose *)
(* updates of attempt_count and may send more than both budgets.)          *)
BudgetOfOneTask ==
    \A d \in Delivery : kicks[d] <= 1 => sent[d] <= MaxAttempts + crashes

(* What the design says of exhausted, rejected and ambiguous deliveries:   *)
(* they wait for an authorized replay.                                     *)
ParkedUntilReplay ==
    [][\A d \in Delivery : state[d] \in Parked => sent'[d] = sent[d]]_vars

(* What the delivery contract says of worker leasing: it serializes        *)
(* terminal transitions, so that delivered is final.                       *)
DeliveredStaysDelivered ==
    [][\A d \in Delivery : state[d] = "delivered" => state'[d] = "delivered"]_vars

(* What the design says of external delivery: it is at least once.  A      *)
(* pending delivery is tried.                                              *)
PendingIsTried ==
    \A d \in Delivery : state[d] = "pending" ~> state[d] # "pending"

==============================================================================
