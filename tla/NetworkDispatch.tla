--------------------------- MODULE NetworkDispatch ---------------------------
(***************************************************************************)
(* Network operations and the outbox of their device commands.  A request  *)
(* starts an operation and stages one dispatch row with it; a periodic     *)
(* task publishes ready rows to the broker and repairs rows whose worker   *)
(* went silent; a worker that receives an envelope claims the row, runs    *)
(* the device task and records the outcome; an operator may redrive a      *)
(* failed operation.  Sources: app/services/network_operation_dispatch.py, *)
(* network_operations.py, network_operation_recovery.py and                *)
(* app/tasks/ont_runtime_status.py.                                        *)
(*                                                                         *)
(* Isolation is READ COMMITTED.  A transaction that reads an operation and *)
(* writes it back takes two steps: seen keeps what it read, and its UPDATE *)
(* is unconditional.  Dispatch rows are locked FOR UPDATE from the read to *)
(* the commit (the phases of Locking); an operation only by a redrive.     *)
(***************************************************************************)
EXTENDS Naturals, FiniteSets

CONSTANTS
    Op,           \* operation ids; the primary dispatch has the id of its op
    NoOp,
    TargetOf,     \* the correlation key of an operation
    Beat,         \* sessions of publish_network_operation_dispatches
    Worker,       \* Celery workers
    Request,      \* sessions of web requests and of the stale cleanup
    Outcome,      \* what the device task may record: a subset of Outcomes
    MaxAttempts,  \* dispatch.max_attempts
    MaxRetries,   \* operation.max_retries
    MaxCrashes    \* bound on process deaths

Session == Beat \cup Worker \cup Request

Active == {"pending", "running", "waiting"}
Terminal == {"succeeded", "warning", "failed", "canceled"}
Outcomes == {"waiting"} \cup Terminal
Ready == {"pending", "dispatched"}
Withdrawn == {"failed", "canceled"}
Settled == {"completed", "failed", "reconciliation_needed", "canceled"}

ASSUME NetworkAssumption ==
    /\ NoOp \notin Op
    /\ Beat \cap Worker = {} /\ Beat \cap Request = {}
    /\ Worker \cap Request = {}
    /\ TargetOf \in [Op -> {TargetOf[o] : o \in Op}]
    /\ Outcome \subseteq Outcomes
    /\ MaxAttempts \in Nat \ {0}
    /\ MaxRetries \in Nat
    /\ MaxCrashes \in Nat

VARIABLES
    opStatus,   \* committed NetworkOperation.status; absent: no row
    source,     \* redrive_of_id
    retry,      \* retry_count
    dStatus,    \* committed NetworkOperationDispatch.status; absent: no row
    attempts,
    acked,      \* rows whose acknowledged_at is set
    aged,       \* acknowledged rows older than the execution timeout
    envelopes,  \* messages in the broker, per dispatch
    execs,      \* how often the device task was entered, per dispatch
    phase,      \* where each session is
    at,         \* the row it works on
    seen,       \* operation status it read in its open transaction
    crashes

opVars == <<opStatus, source, retry>>
rowVars == <<dStatus, attempts, acked, aged>>
sessVars == <<phase, at, seen>>
vars == <<opVars, rowVars, envelopes, execs, sessVars, crashes>>

BeatPhase == {"idle", "selected", "publish", "published", "suspect", "reconcile"}
WorkerPhase == {"idle", "received", "claim", "claimed", "starting", "device",
                "report", "abort", "finish", "raised", "fail"}
RequestPhase == {"idle", "stale", "redrive"}

(* Phases in which a session holds the row lock of its dispatch.           *)
Locking == {"publish", "published", "reconcile", "claim", "fail"}

Init ==
    /\ opStatus = [o \in Op |-> "absent"]
    /\ source = [o \in Op |-> NoOp]
    /\ retry = [o \in Op |-> 0]
    /\ dStatus = [o \in Op |-> "absent"]
    /\ attempts = [o \in Op |-> 0]
    /\ acked = {}
    /\ aged = {}
    /\ envelopes = [o \in Op |-> 0]
    /\ execs = [o \in Op |-> 0]
    /\ phase = [s \in Session |-> "idle"]
    /\ at = [s \in Session |-> NoOp]
    /\ seen = [s \in Session |-> "absent"]
    /\ crashes = 0

-----------------------------------------------------------------------------
(* Sessions, locks and the active-correlation index.                       *)

Enter(s, p, o, st) ==
    /\ phase' = [phase EXCEPT ![s] = p]
    /\ at' = [at EXCEPT ![s] = o]
    /\ seen' = [seen EXCEPT ![s] = st]

(* Go to the next phase of the same task; what was read is forgotten.      *)
Goto(s, p) == Enter(s, p, at[s], "absent")

Leave(s) == Enter(s, "idle", NoOp, "absent")

RowLocked(o) == \E s \in Session : phase[s] \in Locking /\ at[s] = o

(* Mutant: redrive_operation reads its source without FOR UPDATE.          *)
OpLockedNever(o) == o \notin Op

OpLocked(o) == \E s \in Session : phase[s] = "redrive" /\ at[s] = o

(* uq_netops_active_correlation lets o be active.                          *)
IndexFree(o) ==
    \A p \in Op \ {o} : TargetOf[p] = TargetOf[o] => opStatus[p] \notin Active

SetOp(o, st) == opStatus' = [opStatus EXCEPT ![o] = st]

SetRow(o, st) == dStatus' = [dStatus EXCEPT ![o] = st]

(* _terminalize_operation: fail the operation if it was read as active.    *)
Terminalize(o, st) ==
    IF st \in Active THEN ~OpLocked(o) /\ SetOp(o, "failed")
                     ELSE UNCHANGED opStatus

-----------------------------------------------------------------------------
(* Starting, expiring and redriving operations.                            *)

(* network_operations.start and stage_dispatch in one transaction.         *)
Create(n, src, count, status) ==
    /\ opStatus' = [status EXCEPT ![n] = "pending"]
    /\ source' = [source EXCEPT ![n] = src]
    /\ retry' = [retry EXCEPT ![n] = count]
    /\ SetRow(n, "pending")

(* An active operation on the same target answers 409 and changes nothing. *)
Start(n) ==
    /\ opStatus[n] = "absent"
    /\ IndexFree(n)
    /\ Create(n, NoOp, 0, opStatus)
    /\ UNCHANGED <<attempts, acked, aged, envelopes, execs, sessVars, crashes>>

(* A request or the cleanup reads an active operation that is past its     *)
(* stale age; ages are not modelled, any active operation may be.          *)
StaleRead(s, o) ==
    /\ phase[s] = "idle"
    /\ opStatus[o] \in Active
    /\ Enter(s, "stale", o, opStatus[o])
    /\ UNCHANGED <<opVars, rowVars, envelopes, execs, crashes>>

(* mark_stale_for_device and cleanup_old_operations.                       *)
StaleWrite(s) ==
    /\ phase[s] = "stale"
    /\ ~OpLocked(at[s])
    /\ SetOp(at[s], "failed")
    /\ Leave(s)
    /\ UNCHANGED <<source, retry, rowVars, envelopes, execs, crashes>>

(* start with a stale operation in the way: fail it, insert n.  Another    *)
(* active operation on the target makes the insert fail and rolls back.    *)
StaleReplace(s, n) ==
    /\ phase[s] = "stale"
    /\ ~OpLocked(at[s])
    /\ opStatus[n] = "absent"
    /\ TargetOf[n] = TargetOf[at[s]]
    /\ \A p \in Op \ {n, at[s]} :
          TargetOf[p] = TargetOf[n] => opStatus[p] \notin Active
    /\ Create(n, NoOp, 0, [opStatus EXCEPT ![at[s]] = "failed"])
    /\ Leave(s)
    /\ UNCHANGED <<attempts, acked, aged, envelopes, execs, crashes>>

StaleAbandon(s) ==
    /\ phase[s] = "stale"
    /\ Leave(s)
    /\ UNCHANGED <<opVars, rowVars, envelopes, execs, crashes>>

Superseded(o) == \E p \in Op : source[p] = o

(* Mutant: two reviews of one source may overlap.                          *)
RedriveReviewUnlocked(s, o) ==
    /\ phase[s] = "idle"
    /\ opStatus[o] = "failed"
    /\ retry[o] < MaxRetries
    /\ ~Superseded(o)
    /\ Enter(s, "redrive", o, opStatus[o])
    /\ UNCHANGED <<opVars, rowVars, envelopes, execs, crashes>>

(* redrive_operation: lock the source row and review it.                   *)
RedriveReview(s, o) ==
    /\ phase[s] = "idle"
    /\ ~OpLocked(o)
    /\ opStatus[o] = "failed"
    /\ retry[o] < MaxRetries
    /\ ~Superseded(o)
    /\ IndexFree(o)
    /\ Enter(s, "redrive", o, opStatus[o])
    /\ UNCHANGED <<opVars, rowVars, envelopes, execs, crashes>>

(* start_redrive and stage_dispatch; a conflict on the target rolls back.  *)
RedriveStart(s, n) ==
    /\ phase[s] = "redrive"
    /\ opStatus[n] = "absent"
    /\ TargetOf[n] = TargetOf[at[s]]
    /\ IndexFree(n)
    /\ Create(n, at[s], retry[at[s]] + 1, opStatus)
    /\ Leave(s)
    /\ UNCHANGED <<attempts, acked, aged, envelopes, execs, crashes>>

RedriveAbandon(s) ==
    /\ phase[s] = "redrive"
    /\ Leave(s)
    /\ UNCHANGED <<opVars, rowVars, envelopes, execs, crashes>>

-----------------------------------------------------------------------------
(* publish_ready_dispatches.                                               *)

(* _ready_dispatch_ids: due pending rows and unacknowledged rows past the  *)
(* redelivery delay.  The delays are not modelled: a ready row may be due. *)
PublishSelect(s, o) ==
    /\ phase[s] = "idle"
    /\ dStatus[o] \in Ready
    /\ Enter(s, "selected", o, "absent")
    /\ UNCHANGED <<opVars, rowVars, envelopes, execs, crashes>>

(* Mutant: the status is not checked again under the lock.                 *)
PublishLockNoRecheck(s) ==
    /\ phase[s] = "selected"
    /\ IF RowLocked(at[s]) THEN Leave(s)
                           ELSE Enter(s, "publish", at[s], opStatus[at[s]])
    /\ UNCHANGED <<opVars, rowVars, envelopes, execs, crashes>>

(* SKIP LOCKED: a row that is locked or no longer ready is passed over.    *)
PublishLock(s) ==
    /\ phase[s] = "selected"
    /\ IF dStatus[at[s]] \in Ready /\ ~RowLocked(at[s])
         THEN Enter(s, "publish", at[s], opStatus[at[s]])
         ELSE Leave(s)
    /\ UNCHANGED <<opVars, rowVars, envelopes, execs, crashes>>

PublishCancel(s) ==
    /\ phase[s] = "publish"
    /\ seen[s] \notin Active
    /\ SetRow(at[s], "canceled")
    /\ Leave(s)
    /\ UNCHANGED <<opVars, attempts, acked, aged, envelopes, execs, crashes>>

(* _mark_publish_exhausted: a row the broker once took may have run.       *)
Exhaust(s, o) ==
    /\ SetRow(o, IF dStatus[o] = "dispatched" THEN "reconciliation_needed"
                                              ELSE "failed")
    /\ Terminalize(o, seen[s])

PublishExhausted(s) ==
    /\ phase[s] = "publish"
    /\ seen[s] \in Active
    /\ attempts[at[s]] >= MaxAttempts
    /\ Exhaust(s, at[s])
    /\ Leave(s)
    /\ UNCHANGED <<source, retry, attempts, acked, aged, envelopes, execs,
                   crashes>>

(* enqueue_task raises; the broker may have taken the envelope all the     *)
(* same (n = 1).                                                           *)
PublishRejected(s, n) ==
    LET o == at[s] IN
    /\ phase[s] = "publish"
    /\ seen[s] \in Active
    /\ attempts[o] < MaxAttempts
    /\ attempts' = [attempts EXCEPT ![o] = @ + 1]
    /\ envelopes' = [envelopes EXCEPT ![o] = @ + n]
    /\ IF attempts[o] + 1 >= MaxAttempts
         THEN Exhaust(s, o)
         ELSE UNCHANGED <<opStatus, dStatus>>
    /\ Leave(s)
    /\ UNCHANGED <<source, retry, acked, aged, execs, crashes>>

(* Mutant: off by one in the attempt budget.                               *)
PublishAcceptedOneMore(s) ==
    /\ phase[s] = "publish"
    /\ seen[s] \in Active
    /\ attempts[at[s]] <= MaxAttempts
    /\ envelopes' = [envelopes EXCEPT ![at[s]] = @ + 1]
    /\ Goto(s, "published")
    /\ UNCHANGED <<opVars, rowVars, execs, crashes>>

(* The broker takes the envelope; the row stays locked until the commit.   *)
PublishAccepted(s) ==
    /\ phase[s] = "publish"
    /\ seen[s] \in Active
    /\ attempts[at[s]] < MaxAttempts
    /\ envelopes' = [envelopes EXCEPT ![at[s]] = @ + 1]
    /\ Goto(s, "published")
    /\ UNCHANGED <<opVars, rowVars, execs, crashes>>

PublishCommit(s) ==
    /\ phase[s] = "published"
    /\ attempts' = [attempts EXCEPT ![at[s]] = @ + 1]
    /\ SetRow(at[s], "dispatched")
    /\ Leave(s)
    /\ UNCHANGED <<opVars, acked, aged, envelopes, execs, crashes>>

-----------------------------------------------------------------------------
(* reconcile_dispatches.                                                   *)

ReconcileSelect(s, o) ==
    /\ phase[s] = "idle"
    /\ dStatus[o] = "acknowledged"
    /\ Enter(s, "suspect", o, "absent")
    /\ UNCHANGED <<opVars, rowVars, envelopes, execs, crashes>>

(* SKIP LOCKED; the status the row was selected for is not checked again.  *)
ReconcileLock(s) ==
    /\ phase[s] = "suspect"
    /\ IF RowLocked(at[s])
         THEN Leave(s)
         ELSE Enter(s, "reconcile", at[s], opStatus[at[s]])
    /\ UNCHANGED <<opVars, rowVars, envelopes, execs, crashes>>

(* The operation is terminal: project that onto the row.                   *)
ReconcileProject(s) ==
    /\ phase[s] = "reconcile"
    /\ seen[s] \notin Active
    /\ SetRow(at[s], IF at[s] \in acked THEN "completed" ELSE "canceled")
    /\ Leave(s)
    /\ UNCHANGED <<opVars, attempts, acked, aged, envelopes, execs, crashes>>

(* Mutant: a silent command goes back to the publisher.                    *)
ReconcileTimeoutRequeue(s) ==
    /\ phase[s] = "reconcile"
    /\ seen[s] \in Active
    /\ dStatus[at[s]] = "acknowledged" /\ at[s] \in aged
    /\ SetRow(at[s], "pending")
    /\ Leave(s)
    /\ UNCHANGED <<opVars, attempts, acked, aged, envelopes, execs, crashes>>

(* Mutant: only operations that never started are given up.                *)
ReconcileTimeoutPendingOnly(s) ==
    /\ phase[s] = "reconcile"
    /\ seen[s] \in Active
    /\ IF seen[s] = "pending" /\ at[s] \in aged
         THEN SetRow(at[s], "reconciliation_needed") /\ Terminalize(at[s], seen[s])
         ELSE UNCHANGED <<dStatus, opStatus>>
    /\ Leave(s)
    /\ UNCHANGED <<source, retry, attempts, acked, aged, envelopes, execs,
                   crashes>>

(* The worker's acknowledgement is too old: give the command up.           *)
ReconcileTimeout(s) ==
    /\ phase[s] = "reconcile"
    /\ seen[s] \in Active
    /\ dStatus[at[s]] = "acknowledged" /\ at[s] \in aged
    /\ SetRow(at[s], "reconciliation_needed")
    /\ Terminalize(at[s], seen[s])
    /\ Leave(s)
    /\ UNCHANGED <<source, retry, attempts, acked, aged, envelopes, execs,
                   crashes>>

ReconcileSkip(s) ==
    /\ phase[s] = "reconcile"
    /\ seen[s] \in Active
    /\ ~(dStatus[at[s]] = "acknowledged" /\ at[s] \in aged)
    /\ Leave(s)
    /\ UNCHANGED <<opVars, rowVars, envelopes, execs, crashes>>

-----------------------------------------------------------------------------
(* managed_network_operation_dispatch around the device task.              *)

Receive(s, o) ==
    /\ phase[s] = "idle"
    /\ envelopes[o] > 0
    /\ envelopes' = [envelopes EXCEPT ![o] = @ - 1]
    /\ Enter(s, "received", o, "absent")
    /\ UNCHANGED <<opVars, rowVars, execs, crashes>>

(* Mutant: a redelivered envelope may claim an acknowledged row.           *)
ClaimLockReentrant(s) ==
    /\ phase[s] = "received"
    /\ ~RowLocked(at[s])
    /\ IF dStatus[at[s]] \in Ready \cup {"acknowledged"}
         THEN Enter(s, "claim", at[s], opStatus[at[s]])
         ELSE Leave(s)
    /\ UNCHANGED <<opVars, rowVars, envelopes, execs, crashes>>

(* claim_dispatch_execution waits for the row lock and reads the           *)
(* operation, which it does not lock.  A row that is not ready: duplicate. *)
ClaimLock(s) ==
    /\ phase[s] = "received"
    /\ ~RowLocked(at[s])
    /\ IF dStatus[at[s]] \in Ready
         THEN Enter(s, "claim", at[s], opStatus[at[s]])
         ELSE Leave(s)
    /\ UNCHANGED <<opVars, rowVars, envelopes, execs, crashes>>

ClaimCancel(s) ==
    /\ phase[s] = "claim"
    /\ seen[s] \notin Active
    /\ SetRow(at[s], "canceled")
    /\ Leave(s)
    /\ UNCHANGED <<opVars, attempts, acked, aged, envelopes, execs, crashes>>

(* The stored command no longer matches its typed operation.               *)
ClaimMismatch(s) ==
    /\ phase[s] = "claim"
    /\ seen[s] \in Active
    /\ SetRow(at[s], "reconciliation_needed")
    /\ Terminalize(at[s], seen[s])
    /\ Leave(s)
    /\ UNCHANGED <<source, retry, attempts, acked, aged, envelopes, execs,
                   crashes>>

(* _validated_invocation raises: rolled back, and the envelope is used up. *)
ClaimRaises(s) ==
    /\ phase[s] = "claim"
    /\ seen[s] \in Active
    /\ Leave(s)
    /\ UNCHANGED <<opVars, rowVars, envelopes, execs, crashes>>

ClaimCommit(s) ==
    /\ phase[s] = "claim"
    /\ seen[s] \in Active
    /\ SetRow(at[s], "acknowledged")
    /\ acked' = acked \cup {at[s]}
    /\ Goto(s, "claimed")
    /\ UNCHANGED <<opVars, attempts, aged, envelopes, execs, crashes>>

(* The task is entered; its mark_running reads the operation.              *)
EnterTask(s) ==
    /\ phase[s] = "claimed"
    /\ execs' = [execs EXCEPT ![at[s]] = @ + 1]
    /\ Enter(s, "starting", at[s], opStatus[at[s]])
    /\ UNCHANGED <<opVars, rowVars, envelopes, crashes>>

(* The exception handler of the task: rollback, then mark_failed reads.    *)
CatchAndReread(s) == Enter(s, "abort", at[s], opStatus[at[s]])

(* Mutant: without the partial unique index.                               *)
TransitionUnindexed(s, st, next) ==
    /\ ~OpLocked(at[s])
    /\ IF seen[s] \in Active
         THEN SetOp(at[s], st) /\ Goto(s, next)
         ELSE CatchAndReread(s) /\ UNCHANGED opStatus
    /\ UNCHANGED <<source, retry, rowVars, envelopes, execs, crashes>>

(* _transition_status and the UPDATE.  An operation read as terminal, or   *)
(* an active status that the index refuses, raises into the handler.       *)
Transition(s, st, next) ==
    /\ ~OpLocked(at[s])
    /\ IF seen[s] \in Active /\ (st \in Active => IndexFree(at[s]))
         THEN SetOp(at[s], st) /\ Goto(s, next)
         ELSE CatchAndReread(s) /\ UNCHANGED opStatus
    /\ UNCHANGED <<source, retry, rowVars, envelopes, execs, crashes>>

MarkRunning(s) == phase[s] = "starting" /\ Transition(s, "running", "device")

(* The device action returns; mark_succeeded and its kin read.             *)
ReportRead(s) ==
    /\ phase[s] = "device"
    /\ Enter(s, "report", at[s], opStatus[at[s]])
    /\ UNCHANGED <<opVars, rowVars, envelopes, execs, crashes>>

ReportWrite(s, st) == phase[s] = "report" /\ Transition(s, st, "finish")

(* An exception out of the device action, caught by the task.              *)
DeviceError(s) ==
    /\ phase[s] = "device"
    /\ CatchAndReread(s)
    /\ UNCHANGED <<opVars, rowVars, envelopes, execs, crashes>>

(* mark_failed in the handler; its own 409 is logged and swallowed.        *)
AbortWrite(s) ==
    /\ phase[s] = "abort"
    /\ Terminalize(at[s], seen[s])
    /\ Goto(s, "finish")
    /\ UNCHANGED <<source, retry, rowVars, envelopes, execs, crashes>>

(* complete_dispatch_execution.                                            *)
CompleteDispatch(s) ==
    /\ phase[s] = "finish"
    /\ ~RowLocked(at[s])
    /\ IF dStatus[at[s]] = "acknowledged"
         THEN SetRow(at[s], "completed")
         ELSE UNCHANGED dStatus
    /\ Leave(s)
    /\ UNCHANGED <<opVars, attempts, acked, aged, envelopes, execs, crashes>>

(* An exception the task lets through.                                     *)
TaskRaises(s) ==
    /\ phase[s] \in {"starting", "device", "report", "abort"}
    /\ Goto(s, "raised")
    /\ UNCHANGED <<opVars, rowVars, envelopes, execs, crashes>>

(* fail_dispatch_execution.                                                *)
FailLock(s) ==
    /\ phase[s] = "raised"
    /\ ~RowLocked(at[s])
    /\ IF dStatus[at[s]] = "acknowledged"
         THEN Enter(s, "fail", at[s], opStatus[at[s]])
         ELSE Leave(s)
    /\ UNCHANGED <<opVars, rowVars, envelopes, execs, crashes>>

FailCommit(s) ==
    /\ phase[s] = "fail"
    /\ SetRow(at[s], "reconciliation_needed")
    /\ Terminalize(at[s], seen[s])
    /\ Leave(s)
    /\ UNCHANGED <<source, retry, attempts, acked, aged, envelopes, execs,
                   crashes>>

-----------------------------------------------------------------------------
(* The broker, the clock and process deaths.                               *)

LoseEnvelope(o) ==
    /\ envelopes[o] > 0
    /\ envelopes' = [envelopes EXCEPT ![o] = @ - 1]
    /\ UNCHANGED <<opVars, rowVars, execs, sessVars, crashes>>

(* The execution timeout passes for an acknowledged row.                   *)
AckAges(o) ==
    /\ dStatus[o] = "acknowledged" /\ o \notin aged
    /\ aged' = aged \cup {o}
    /\ UNCHANGED <<opVars, dStatus, attempts, acked, envelopes, execs,
                   sessVars, crashes>>

(* A process dies or its connection is lost: the open transaction is       *)
(* rolled back.  With task_acks_late a lost worker's envelope is delivered *)
(* again (n = 1), unless the time limit killed the task (n = 0).           *)
Crash(s, n) ==
    /\ phase[s] # "idle"
    /\ crashes < MaxCrashes
    /\ crashes' = crashes + 1
    /\ s \notin Worker => n = 0
    /\ envelopes' = IF s \in Worker THEN [envelopes EXCEPT ![at[s]] = @ + n]
                                    ELSE envelopes
    /\ Leave(s)
    /\ UNCHANGED <<opVars, rowVars, execs>>

BeatEnds(s) ==
    \/ PublishLock(s) \/ PublishCancel(s) \/ PublishExhausted(s)
    \/ \E n \in {0, 1} : PublishRejected(s, n)
    \/ PublishAccepted(s) \/ PublishCommit(s)
    \/ ReconcileLock(s) \/ ReconcileProject(s) \/ ReconcileTimeout(s)
    \/ ReconcileSkip(s)

ClaimEnds(s) ==
    ClaimCancel(s) \/ ClaimMismatch(s) \/ ClaimRaises(s) \/ ClaimCommit(s)

TaskStep(s) ==
    \/ ClaimLock(s) \/ EnterTask(s) \/ MarkRunning(s) \/ ReportRead(s)
    \/ \E st \in Outcome : ReportWrite(s, st)
    \/ DeviceError(s) \/ AbortWrite(s) \/ CompleteDispatch(s)
    \/ TaskRaises(s) \/ FailLock(s)

RequestEnds(s) ==
    \/ StaleWrite(s) \/ StaleAbandon(s) \/ RedriveAbandon(s)
    \/ \E n \in Op : StaleReplace(s, n) \/ RedriveStart(s, n)

Next ==
    \/ \E n \in Op : Start(n) \/ LoseEnvelope(n) \/ AckAges(n)
    \/ \E s \in Beat :
          BeatEnds(s) \/ \E o \in Op : PublishSelect(s, o) \/ ReconcileSelect(s, o)
    \/ \E s \in Worker :
          ClaimEnds(s) \/ TaskStep(s) \/ FailCommit(s)
             \/ \E o \in Op : Receive(s, o)
    \/ \E s \in Request :
          RequestEnds(s) \/ \E o \in Op : StaleRead(s, o) \/ RedriveReview(s, o)
    \/ \E s \in Session, n \in {0, 1} : Crash(s, n)

Spec == Init /\ [][Next]_vars

(* Beat runs the sweep for ever and visits every due row; a database       *)
(* transaction ends; time passes.  Nothing is assumed of the broker, of    *)
(* workers receiving envelopes, or of a device task that hangs.            *)
Fairness ==
    /\ \A s \in Beat : WF_vars(BeatEnds(s))
    /\ \A s \in Worker : WF_vars(ClaimEnds(s)) /\ WF_vars(FailCommit(s))
    /\ \A s \in Request : WF_vars(RequestEnds(s))
    /\ \A o \in Op :
          /\ SF_vars(\E s \in Beat : PublishSelect(s, o))
          /\ SF_vars(\E s \in Beat : ReconcileSelect(s, o))
          /\ WF_vars(AckAges(o))

FairSpec == Spec /\ Fairness

-----------------------------------------------------------------------------
(* Properties.                                                             *)

TypeOK ==
    /\ opStatus \in [Op -> {"absent"} \cup Active \cup Terminal]
    /\ source \in [Op -> Op \cup {NoOp}]
    /\ retry \in [Op -> 0..MaxRetries]
    /\ dStatus \in [Op -> {"absent", "acknowledged"} \cup Ready \cup Settled]
    /\ attempts \in [Op -> 0..MaxAttempts]
    /\ acked \subseteq Op
    /\ aged \subseteq acked
    /\ envelopes \in [Op -> Nat]
    /\ execs \in [Op -> Nat]
    /\ phase \in [Session -> BeatPhase \cup WorkerPhase \cup RequestPhase]
    /\ at \in [Session -> Op \cup {NoOp}]
    /\ \A s \in Session : at[s] = NoOp <=> phase[s] = "idle"
    /\ seen \in [Session -> {"absent"} \cup Active \cup Terminal]
    /\ crashes \in 0..MaxCrashes

(* Duplicate and late envelopes, a publisher that dies after the broker    *)
(* took its envelope, two overlapping sweeps and a redelivered message of  *)
(* a lost worker together enter the device task at most once per dispatch  *)
(* (the claim of claim_dispatch_execution).                                *)
AtMostOneExecution == \A o \in Op : execs[o] <= 1

(* A dispatch reported as failed to publish or as canceled never ran: its  *)
(* operation can be retried without looking at the device.  A dispatch     *)
(* that may have run is shown as reconciliation_needed or completed.       *)
WithdrawnNeverRan == \A o \in Op : dStatus[o] \in Withdrawn => execs[o] = 0

(* At most one active operation per target, although marks are blind       *)
(* writes that can revive an operation another transaction just ended.     *)
OneActivePerTarget ==
    \A o, p \in Op : /\ opStatus[o] \in Active /\ opStatus[p] \in Active
                     /\ TargetOf[o] = TargetOf[p]
                     => o = p

(* The attempts of one operation form a line: two operators who redrive    *)
(* the same source at once do not both get an attempt, the retry count     *)
(* grows along the line, and an attempt keeps the target of its source.    *)
LineageIsLinear ==
    /\ \A o, p \in Op : source[o] = source[p] /\ source[o] # NoOp => o = p
    /\ \A o \in Op : source[o] # NoOp =>
          /\ retry[o] = retry[source[o]] + 1
          /\ TargetOf[o] = TargetOf[source[o]]

(* No attempt is created while the operation it repeats is not failed:     *)
(* the review of redrive_operation still holds when the attempt commits.   *)
RedriveOnlyFailed ==
    [][\A o \in Op : source'[o] # source[o] => opStatus[source'[o]] = "failed"]_vars

(* Every staged command settles: published until taken or out of attempts, *)
(* and given up once its worker is silent for too long.                    *)
EveryCommandSettles ==
    \A o \in Op : dStatus[o] \in Ready \cup {"acknowledged"} ~> dStatus[o] \in Settled

(* What _TERMINAL_STATUSES says of itself: no further transitions.         *)
TerminalIsFinal ==
    [][\A o \in Op : opStatus[o] \in Terminal => opStatus'[o] = opStatus[o]]_vars

(* Interrupted execution, once exposed by reconcile_dispatches or by a     *)
(* raising task, stays exposed: the row asks for a review of the device.   *)
ReviewEvidenceKept ==
    [][\A o \in Op : dStatus[o] = "reconciliation_needed" =>
                     dStatus'[o] = "reconciliation_needed"]_vars

(* The dispatch row as a command of CommandOnce.                           *)
CommandState(o) ==
    CASE dStatus[o] = "absent" -> "none"
      [] dStatus[o] \in Ready -> "offered"
      [] dStatus[o] = "acknowledged" -> "taken"
      [] dStatus[o] \in Settled /\ o \in acked -> "closed"
      [] OTHER -> "withdrawn"

Once == INSTANCE CommandOnce WITH
          Command <- Op,
          state <- [o \in Op |-> CommandState(o)],
          runs <- execs

(* The outbox, the broker and the workers implement the abstract command:  *)
(* taken by one worker, entered once, never after it was withdrawn.        *)
ImplementsCommandOnce == Once!Spec

=============================================================================
