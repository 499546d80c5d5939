-------------------------- MODULE AccountLifecycle --------------------------
(***************************************************************************)
(* Enforcement locks, subscription status and the derived account status   *)
(* of ONE account.  Source: app/services/account_lifecycle.py, with the    *)
(* drift reconciler of app/services/account_status_reconcile.py.           *)
(*                                                                         *)
(* status, locks and account are the COMMITTED rows.  An operation is a    *)
(* transaction of some process: it may first LOAD the rows without locking *)
(* them (the caller's db.get or select: the session's identity map keeps   *)
(* those values, and a later SELECT ... FOR UPDATE without                 *)
(* populate_existing does not refresh them), then it takes the row lock of *)
(* its subscriptions and STAGES its writes, then it commits or aborts.     *)
(* Isolation is READ COMMITTED, and the ORM writes an attribute only when  *)
(* it differs from the value the session loaded.                           *)
(*                                                                         *)
(* Refusals that raise (billing approval, sales service orders, a row that *)
(* is not there) are aborts.  access_state and access_mode, which feed     *)
(* RADIUS policy and no transition of this module, are left out.           *)
(***************************************************************************)
EXTENDS Integers, FiniteSets

CONSTANTS
    Subs,        \* the account's subscriptions
    Login,       \* [Subs -> logins]
    Procs,       \* sessions that can be open at the same time
    Reconciler,  \* the session of run_enforcement_reconciler
    Sources,     \* what set_account_lifecycle_override records as source
    Reasons,     \* the enforcement reasons in use
    PastDue,     \* open dunning case that available credit does not cover
    Preload,     \* may a caller load the rows before it locks them?
    Initial,     \* statuses a subscription may have at first
    MaxOps       \* bound on the operations

ALLOWED_RESTORERS ==
    [overdue |-> {"payment", "collections_resolution", "admin"},
     fup |-> {"cap_reset", "top_up", "admin"},
     prepaid |-> {"top_up", "admin"},
     admin |-> {"admin"},
     customer_hold |-> {"customer", "admin"},
     fraud |-> {"admin"},
     system |-> {"system", "admin"}]

Triggers == UNION {ALLOWED_RESTORERS[r] : r \in Reasons}

SUSPENDABLE == {"active", "pending"}
SUSPENDED_EQUIVALENT == {"suspended", "blocked", "stopped"}
TERMINAL == {"canceled", "expired", "hidden", "archived"}
SubscriptionStatus ==
    SUSPENDABLE \cup SUSPENDED_EQUIVALENT \cup TERMINAL \cup {"disabled"}
OVERRIDE_STATUSES ==
    {"new", "active", "blocked", "suspended", "disabled", "canceled"}
SubscriberStatus == OVERRIDE_STATUSES \cup {"delinquent"}

ASSUME LifecycleAssumption ==
    /\ "account" \notin Subs
    /\ Reconciler \notin Procs
    /\ Reasons \subseteq DOMAIN ALLOWED_RESTORERS
    /\ "admin" \in Reasons
    /\ Initial \subseteq SubscriptionStatus
    /\ PastDue \in BOOLEAN
    /\ Preload \in BOOLEAN
    /\ MaxOps \in Nat

Sessions == Procs \cup {Reconciler}

\* An active lock is its reason and its source; only the source of an
\* administrative lock is ever compared with anything.
Locks == {<<r, "auto">> : r \in Reasons \ {"admin"}}
         \cup {<<"admin", src>> : src \in Sources}

VARIABLES
    status,   \* committed Subscription.status
    locks,    \* committed active enforcement locks of each subscription
    account,  \* committed Subscriber row: status, is_active, override, source
    tx,       \* what each session has loaded or staged
    ops       \* operations begun so far, at most MaxOps

vars == <<status, locks, account, tx, ops>>

Idle == [phase |-> "idle"]

-----------------------------------------------------------------------------
(* The derivation of the account's projection.                             *)

\* Mutant: a pending service hands its own status to the account.
derive_account_status_untranslated(st) ==
    IF \E s \in Subs : st[s] = "active"
    THEN IF PastDue THEN "delinquent" ELSE "active"
    ELSE IF \E s \in Subs : st[s] = "pending" THEN "pending"
    ELSE "canceled"

derive_account_status_without_override(st) ==
    IF Subs = {} THEN "new"
    ELSE IF \E s \in Subs : st[s] = "active"
         THEN IF PastDue THEN "delinquent" ELSE "active"
    ELSE IF \E s \in Subs : st[s] = "suspended" THEN "suspended"
    ELSE IF \E s \in Subs : st[s] \in {"blocked", "stopped"} THEN "blocked"
    ELSE IF \E s \in Subs : st[s] = "pending" THEN "new"
    ELSE IF \A s \in Subs : st[s] = "disabled" THEN "disabled"
    ELSE "canceled"

derive_account_status(st, override) ==
    IF override # "none" THEN override
    ELSE derive_account_status_without_override(st)

derive_account_active_projection(acct, override) ==
    \/ acct \in {"active", "new", "blocked", "delinquent"}
    \/ acct = "suspended" /\ override # "suspended"

compute_account_status(st, override, source) ==
    LET acct == derive_account_status(st, override)
    IN  [status |-> acct,
         is_active |-> derive_account_active_projection(acct, override),
         override |-> override,
         source |-> source]

Init ==
    /\ status \in [Subs -> Initial]
    /\ \A s, t \in Subs :
           status[s] = "active" /\ status[t] = "active" /\ Login[s] = Login[t]
           => s = t
    /\ locks = [s \in Subs |-> {}]
    /\ account = compute_account_status(status, "none", "none")
    /\ tx = [p \in Sessions |-> Idle]
    /\ ops = 0

-----------------------------------------------------------------------------
(* Transactions.                                                           *)

\* What the session believes: the rows it loaded earlier, or fresh ones.
Seen(p) == IF tx[p].phase = "loaded" THEN tx[p].status ELSE status
SeenAccount(p) == IF tx[p].phase = "loaded" THEN tx[p].account ELSE account

Over(f, g) == [x \in DOMAIN g |-> IF x \in DOMAIN f THEN f[x] ELSE g[x]]
Changed(new, old) == [x \in {y \in DOMAIN new : new[y] # old[y]} |-> new[x]]

\* Row locks: of subscriptions, and of the account itself.
AccountRow == "account"

\* Mutant: the subscriptions are read without FOR UPDATE.
FreeUnlessAccount(rows, p) ==
    \A q \in Sessions \ {p} :
        tx[q].phase = "staged" => AccountRow \notin tx[q].rows \cap rows

Free(rows, p) ==
    \A q \in Sessions \ {p} : tx[q].phase = "staged" => tx[q].rows \cap rows = {}

\* The end of every operation: the rows it locked, its new statuses and
\* locks, then compute_account_status over what the session sees.
StageAs(p, rows, new, lk, override, source, trigger) ==
    /\ tx[p].phase \in {"idle", "loaded"}
    /\ Free(rows, p)
    /\ tx' = [tx EXCEPT ![p] =
           [phase |-> "staged",
            rows |-> rows,
            status |-> Changed(new, Seen(p)),
            locks |-> Changed(lk, locks),
            account |-> Changed(
                compute_account_status(Over(new, Seen(p)), override, source),
                SeenAccount(p)),
            trigger |-> trigger]]
    /\ UNCHANGED <<status, locks, account>>

\* One operation on one subscription.
StageOne(p, s, new, lk, trigger) ==
    /\ ops < MaxOps
    /\ ops' = ops + 1
    /\ StageAs(p, {s}, [x \in {s} |-> new], [x \in {s} |-> lk],
               SeenAccount(p).override, SeenAccount(p).source, trigger)

\* The caller reads the account and its subscriptions without locking them.
Load(p) ==
    /\ Preload
    /\ tx[p] = Idle
    /\ tx' = [tx EXCEPT ![p] =
                 [phase |-> "loaded", status |-> status, account |-> account]]
    /\ UNCHANGED <<status, locks, account, ops>>

Commit(p) ==
    /\ tx[p].phase = "staged"
    /\ DOMAIN tx[p].account # {} => Free({AccountRow}, p)
    /\ status' = Over(tx[p].status, status)
    /\ locks' = Over(tx[p].locks, locks)
    /\ account' = Over(tx[p].account, account)
    /\ tx' = [tx EXCEPT ![p] = Idle]
    /\ UNCHANGED ops

\* The operation raised, a deadlock was broken, the process died: the transaction leaves nothing behind.
Abort(p) ==
    /\ tx[p] # Idle
    /\ tx' = [tx EXCEPT ![p] = Idle]
    /\ UNCHANGED <<status, locks, account, ops>>

-----------------------------------------------------------------------------
(* Operations on one subscription: the whole row is read as the session    *)
(* sees it, the active locks always by a fresh query.                      *)

\* _SUSPENDABLE -> suspended; a suspended-equivalent status is kept; at most
\* one active lock per reason, an existing one is reused.
Suspended(st) == IF st \in SUSPENDED_EQUIVALENT THEN st ELSE "suspended"
WithLock(lk, l) == IF \E m \in lk : m[1] = l[1] THEN lk ELSE lk \cup {l}

suspend_subscription(p, s, l) ==
    /\ Seen(p)[s] \in SUSPENDABLE \cup SUSPENDED_EQUIVALENT
    /\ StageOne(p, s, Suspended(Seen(p)[s]), WithLock(locks[s], l), "none")

\* A query on the rows, so it sees what is committed and what the session
\* itself has written (W).
reactivation_blocked_by_active_login(s, W) ==
    \E t \in Subs \ {s} : Login[t] = Login[s] /\ (status[t] = "active" \/ t \in W)

\* Mutant: any trigger clears any lock.
ResolvableByAnyone(s, trigger, reason) ==
    {l \in locks[s] : reason \in {"any", l[1]}}

\* What a trigger is authorised to clear; reason = "any" is no filter.
Resolvable(s, trigger, reason) ==
    {l \in locks[s] : /\ trigger \in ALLOWED_RESTORERS[l[1]]
                      /\ reason \in {"any", l[1]}}

restore_subscription(p, s, trigger, reason) ==
    LET remaining == locks[s] \ Resolvable(s, trigger, reason)
    IN  /\ Seen(p)[s] \in SUSPENDED_EQUIVALENT
        /\ Resolvable(s, trigger, reason) = {} => remaining = {}
        /\ StageOne(p, s,
               IF remaining = {} /\ ~reactivation_blocked_by_active_login(s, {})
               THEN "active" ELSE Seen(p)[s],
               remaining, trigger)

resolve_stale_lock_without_restoration(p, s, trigger, reason) ==
    /\ Seen(p)[s] \notin SUSPENDED_EQUIVALENT
    /\ StageOne(p, s, Seen(p)[s],
                locks[s] \ Resolvable(s, trigger, reason), trigger)

activate_subscription(p, s) ==
    /\ Seen(p)[s] = "pending"
    /\ StageOne(p, s, "active", locks[s], "none")

expire_subscription(p, s) ==
    /\ Seen(p)[s] \notin TERMINAL
    /\ StageOne(p, s, "expired", {}, "none")

cancel_subscription(p, s) ==
    /\ Seen(p)[s] # "canceled"
    /\ StageOne(p, s, "canceled", {}, "none")

disable_subscription(p, s, preserve_locks) ==
    /\ Seen(p)[s] \notin TERMINAL \cup {"disabled"}
    /\ StageOne(p, s, "disabled", IF preserve_locks THEN locks[s] ELSE {}, "none")

\* Mutant: enabling does not look at the preserved locks.
EnabledUnderLocks(s, W) ==
    IF reactivation_blocked_by_active_login(s, W) THEN "disabled" ELSE "active"

Enabled(s, W) ==
    IF locks[s] # {} THEN "suspended"
    ELSE IF reactivation_blocked_by_active_login(s, W) THEN "disabled"
    ELSE "active"

enable_subscription(p, s) ==
    /\ Seen(p)[s] = "disabled"
    /\ StageOne(p, s, Enabled(s, {}), locks[s], "none")

-----------------------------------------------------------------------------
(* Operations on the account.  A command that has loaded nothing before    *)
(* (account_status_commands) first locks the account row and every         *)
(* subscription row; one that has (CRM ingress, self-service deletion)     *)
(* locks each row only when it comes to it.                                *)

StageAccount(p, rows, new, lk, override, source, trigger) ==
    /\ ops < MaxOps
    /\ ops' = ops + 1
    /\ \/ /\ tx[p].phase = "idle"
          /\ StageAs(p, Subs \cup {AccountRow}, new, lk, override, source, trigger)
       \/ /\ tx[p].phase = "loaded"
          /\ StageAs(p, rows, new, lk, override, source, trigger)

\* transition_account_status(active): clear the override, restore or enable
\* every service that is down.  W: the ones that become active; two of them
\* never share a login, whichever comes first takes it.
account_activate(p) ==
    LET down == {s \in Subs :
                    Seen(p)[s] \in SUSPENDED_EQUIVALENT \cup {"disabled"}}
        can(s) == Seen(p)[s] = "disabled" => locks[s] = {}
    IN  \E W \in SUBSET {s \in down : can(s)} :
            /\ \A s \in down : can(s) =>
                   (s \in W <=> ~reactivation_blocked_by_active_login(s, W \ {s}))
            /\ StageAccount(p, down,
                   [s \in down |->
                       IF s \in W THEN "active"
                       ELSE IF can(s) THEN Seen(p)[s] ELSE "suspended"],
                   [s \in down |->
                       IF Seen(p)[s] = "disabled" THEN locks[s] ELSE {}],
                   "none", "none", "admin")

\* transition_account_status(blocked or suspended).
account_suspend(p, target, source) ==
    LET up == {s \in Subs : Seen(p)[s] \in SUSPENDABLE}
    IN  StageAccount(p, up, [s \in up |-> "suspended"],
                     [s \in up |-> WithLock(locks[s], <<"admin", source>>)],
                     target, source, "none")

\* transition_account_status(disabled).
account_disable(p, source, preserve_locks) ==
    LET live == {s \in Subs : Seen(p)[s] \notin TERMINAL}
    IN  StageAccount(p, live, [s \in live |-> "disabled"],
                     [s \in live |->
                         IF preserve_locks \/ Seen(p)[s] = "disabled"
                         THEN locks[s] ELSE {}],
                     "disabled", source, "none")

\* transition_account_status(canceled).
account_cancel(p, source) ==
    LET live == {s \in Subs : Seen(p)[s] \notin TERMINAL}
    IN  StageAccount(p, live, [s \in live |-> "canceled"],
                     [s \in live |-> {}], "canceled", source, "none")

\* apply_requested_account_status (set_ and clear_account_lifecycle_override):
\* an explicit fact, no subscription moves and no row is locked first.
NoRows == [s \in {} |-> "none"]

apply_requested_account_status(p, target, source) ==
    LET clear == target = "new" \/ (target = "active" /\ Subs # {})
    IN  /\ ops < MaxOps
        /\ ops' = ops + 1
        /\ StageAs(p, {}, NoRows, NoRows,
                   IF clear THEN "none" ELSE target,
                   IF clear THEN "none" ELSE source, "none")

\* Lifts the account's own administrative locks and restores the services
\* they alone held; keeps a lock whose service cannot take its login back.
unsuspend_account_override(p) ==
    LET own == <<"admin", account.source>>
        match == {s \in Subs : own \in locks[s]}
        held == {s \in match : /\ status[s] \in SUSPENDED_EQUIVALENT
                               /\ locks[s] = {own}}
    IN  /\ tx[p] = Idle
        /\ account.override = "suspended"
        /\ \E W \in SUBSET held :
               /\ \A s \in held :
                      s \in W <=> ~reactivation_blocked_by_active_login(s, W \ {s})
               /\ LET rows == W \cup (match \ held)
                  IN  StageAccount(p, rows,
                          [s \in rows |-> IF s \in W THEN "active" ELSE status[s]],
                          [s \in rows |-> locks[s] \ {own}],
                          "none", "none", "account_unsuspend")

-----------------------------------------------------------------------------
(* Recomputation only.                                                     *)

Recompute(p) ==
    StageAs(p, {}, NoRows, NoRows, SeenAccount(p).override,
            SeenAccount(p).source, "none")

\* The enforcement handler recomputes after every subscription event.
handle_subscription_event(p) ==
    /\ ops < MaxOps
    /\ ops' = ops + 1
    /\ Recompute(p)

\* find_account_projection_drift_ids, without its access_state clauses.
Permissive == {"active", "delinquent"}
ActiveChild == \E s \in Subs : status[s] = "active"
\* Mutant: only accounts that are too strict are candidates.
ParentTooStrict ==
    /\ ActiveChild
    /\ account.status \notin Permissive
    /\ account.override = "none"

ParentDrift ==
    \/ /\ ActiveChild
       /\ account.status \notin Permissive
       /\ account.override = "none"
    \/ /\ ~ActiveChild
       /\ account.status \in Permissive
AccountActiveDrift ==
    account.is_active
        # derive_account_active_projection(account.status, account.override)

reconcile_account ==
    /\ ParentDrift \/ AccountActiveDrift
    /\ tx[Reconciler] = Idle
    /\ Recompute(Reconciler)
    /\ UNCHANGED ops

-----------------------------------------------------------------------------
SubscriptionOperation(p) ==
    \E s \in Subs :
        \/ \E l \in Locks : suspend_subscription(p, s, l)
        \/ \E trigger \in Triggers, reason \in Reasons \cup {"any"} :
               restore_subscription(p, s, trigger, reason)
        \/ \E trigger \in Triggers, reason \in Reasons :
               resolve_stale_lock_without_restoration(p, s, trigger, reason)
        \/ activate_subscription(p, s)
        \/ expire_subscription(p, s)
        \/ cancel_subscription(p, s)
        \/ \E preserve \in BOOLEAN : disable_subscription(p, s, preserve)
        \/ enable_subscription(p, s)

AccountOperation(p) ==
    \/ account_activate(p)
    \/ unsuspend_account_override(p)
    \/ \E source \in Sources :
        \/ \E target \in {"blocked", "suspended"} :
               account_suspend(p, target, source)
        \/ \E preserve \in BOOLEAN : account_disable(p, source, preserve)
        \/ account_cancel(p, source)
        \/ \E target \in OVERRIDE_STATUSES :
               apply_requested_account_status(p, target, source)

Next ==
    \/ \E p \in Procs :
           \/ Load(p)
           \/ SubscriptionOperation(p)
           \/ AccountOperation(p)
           \/ handle_subscription_event(p)
    \/ reconcile_account
    \/ \E p \in Sessions : Commit(p) \/ Abort(p)

Spec == Init /\ [][Next]_vars

\* Transactions end; the reconciler is scheduled for ever, and it is not
\* made to fail for ever.
Fairness ==
    /\ WF_vars(reconcile_account)
    /\ SF_vars(Commit(Reconciler))
    /\ \A p \in Procs : WF_vars(tx[p].phase = "staged" /\ (Commit(p) \/ Abort(p)))

FairSpec == Spec /\ Fairness

-----------------------------------------------------------------------------
(* Properties.                                                             *)

Account ==
    [status : SubscriberStatus, is_active : BOOLEAN,
     override : OVERRIDE_STATUSES \cup {"none"}, source : Sources \cup {"none"}]

\* What a transaction may write to the account row: some of its columns.
AccountWrites(w) ==
    /\ DOMAIN w \subseteq {"status", "is_active", "override", "source"}
    /\ "status" \in DOMAIN w => w["status"] \in SubscriberStatus
    /\ "is_active" \in DOMAIN w => w["is_active"] \in BOOLEAN
    /\ "override" \in DOMAIN w => w["override"] \in OVERRIDE_STATUSES \cup {"none"}
    /\ "source" \in DOMAIN w => w["source"] \in Sources \cup {"none"}

\* Every row and every open transaction has its type.
TypeOK ==
    /\ status \in [Subs -> SubscriptionStatus]
    /\ locks \in [Subs -> SUBSET Locks]
    /\ account \in Account
    /\ DOMAIN tx = Sessions
    /\ \A p \in Sessions :
        \/ tx[p] = Idle
        \/ /\ tx[p].phase = "loaded"
           /\ tx[p].status \in [Subs -> SubscriptionStatus]
           /\ tx[p].account \in Account
        \/ /\ tx[p].phase = "staged"
           /\ tx[p].rows \subseteq Subs \cup {AccountRow}
           /\ DOMAIN tx[p].status \subseteq tx[p].rows \cap Subs
           /\ \A s \in DOMAIN tx[p].status : tx[p].status[s] \in SubscriptionStatus
           /\ DOMAIN tx[p].locks \subseteq tx[p].rows \cap Subs
           /\ \A s \in DOMAIN tx[p].locks : tx[p].locks[s] \subseteq Locks
           /\ AccountWrites(tx[p].account)
    /\ ops \in 0..MaxOps

\* suspend_subscription: "lock-row idempotency must not leave a service active
\* while its enforcement lock is active".
NoActiveUnderLock == \A s \in Subs : status[s] = "active" => locks[s] = {}

\* A terminal service never becomes anything else than terminal.  True of
\* callers that lock the rows before they read them (~Preload): no sequence of
\* operations, aborts and events revives the service.  False of callers that
\* load the row first, as account deletion and the CRM API do: their operation
\* tests the status it had before another session ended the service.
TerminalNeverLeft ==
    [][\A s \in Subs : status[s] \in TERMINAL => status'[s] \in TERMINAL]_vars

\* assert_legal_subscription_transition: "once a subscription enters one, the
\* only legal transition is to stay put".
TerminalStaysPut ==
    [][\A s \in Subs : status[s] \in TERMINAL => status'[s] = status[s]]_vars

\* A service under locks becomes active only by a transaction whose trigger is
\* authorised for every lock it has AT THAT MOMENT, or by lifting the account
\* suspension that alone holds it.
RestoreIsAuthorized ==
    [][\A s \in Subs :
        status[s] # "active" /\ status'[s] = "active" =>
            \A l \in locks[s] : \E p \in Sessions :
                /\ tx[p].phase = "staged"
                /\ tx'[p] = Idle
                /\ \/ tx[p].trigger \in ALLOWED_RESTORERS[l[1]]
                   \/ /\ tx[p].trigger = "account_unsuspend"
                      /\ l = <<"admin", account.source>>]_vars

\* reactivation_blocked_by_active_login: "a suspended sub whose subscriber already
\* holds another active sub on the same login ... must NOT be flipped back to
\* active".  The unique index it names is in no model and no migration.
OneActivePerLogin ==
    \A s, t \in Subs :
        status[s] = "active" /\ status[t] = "active" /\ Login[s] = Login[t]
        => s = t

\* With one session at a time the account row always is what its subscriptions
\* and its override imply.
ProjectionExact ==
    account = compute_account_status(status, account.override, account.source)

\* "A parent without an explicit lifecycle override cannot remain in a
\* RADIUS-blocking status while any child service is active", nor stay
\* permissive when none is: sessions that race on sibling subscriptions leave
\* such drift behind, the reconciler removes it for good.
Agreement ==
    /\ ActiveChild /\ account.override = "none" => account.status \in Permissive
    /\ ~ActiveChild => account.status \notin Permissive
    /\ account.is_active =
           derive_account_active_projection(account.status, account.override)

\* Whatever drift the operations left, the reconciler ends it: from some moment
\* on the account row agrees with its services.
ParentCatchesUp == <>[]Agreement
=============================================================================
