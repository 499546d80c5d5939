----------------------- MODULE AccountLifecycleProofs -----------------------
(***************************************************************************)
(* Proofs about AccountLifecycle for any number of subscriptions, sessions *)
(* and lock sources, when every caller takes the row locks before it reads *)
(* (~Preload).  LifecycleInv is inductive: the row locks keep what a       *)
(* staged transaction read of its rows true until it commits.              *)
(***************************************************************************)
EXTENDS AccountLifecycle, TLAPS

NewStatus(p, s) ==
    IF s \in DOMAIN tx[p].status THEN tx[p].status[s] ELSE status[s]
NewLocks(p, s) ==
    IF s \in DOMAIN tx[p].locks THEN tx[p].locks[s] ELSE locks[s]

Authorised(trigger, l) ==
    \/ trigger \in ALLOWED_RESTORERS[l[1]]
    \/ trigger = "account_unsuspend" /\ l = <<"admin", account.source>>

(* A move of subscription s to status st and locks k that breaks nothing.  *)
GoodMove(s, st, k, trigger) ==
    /\ st \in SUSPENDABLE => k = {}
    /\ status[s] \in TERMINAL => st \in TERMINAL
    /\ status[s] # "active" /\ st = "active" =>
           \A l \in locks[s] : Authorised(trigger, l)

(* activate_subscription does not look at the locks, so pending services   *)
(* must have none either.                                                  *)
LockInv == \A s \in Subs : status[s] \in SUSPENDABLE => locks[s] = {}

ExclusionInv ==
    \A p, q \in Sessions :
        p # q /\ tx[p].phase = "staged" /\ tx[q].phase = "staged" =>
            tx[p].rows \cap tx[q].rows = {}

StagedInv ==
    \A p \in Sessions : tx[p].phase = "staged" =>
        /\ tx[p].trigger = "account_unsuspend" => AccountRow \in tx[p].rows
        /\ \A s \in tx[p].rows \cap Subs :
               GoodMove(s, NewStatus(p, s), NewLocks(p, s), tx[p].trigger)

NothingLoaded == \A p \in Sessions : tx[p].phase # "loaded"

LifecycleInv ==
    TypeOK /\ LockInv /\ ExclusionInv /\ StagedInv /\ NothingLoaded

-----------------------------------------------------------------------------
(* The account row keeps its type through a derivation and a commit.       *)
LEMMA ComputedAccount ==
    ASSUME NEW st, NEW o \in OVERRIDE_STATUSES \cup {"none"},
           NEW src \in Sources \cup {"none"}
    PROVE  compute_account_status(st, o, src) \in Account
<1>1. derive_account_status(st, o) \in SubscriberStatus
  BY DEF derive_account_status, derive_account_status_without_override,
         SubscriberStatus, OVERRIDE_STATUSES
<1>2. derive_account_active_projection(derive_account_status(st, o), o) \in BOOLEAN
  BY DEF derive_account_active_projection
<1>3. QED
  BY <1>1, <1>2 DEF compute_account_status, Account

\* Columns written to an account row leave an account row.
LEMMA OverAccount ==
    ASSUME NEW a \in Account, NEW w, AccountWrites(w)
    PROVE  Over(w, a) \in Account
<1>1. DOMAIN a = {"status", "is_active", "override", "source"}
  BY DEF Account
<1>2. QED
  BY <1>1 DEF Account, AccountWrites, Over

\* The columns in which two account rows differ are legal writes.
LEMMA ChangedAccount ==
    ASSUME NEW a \in Account, NEW b \in Account
    PROVE  AccountWrites(Changed(b, a))
<1>1. DOMAIN b = {"status", "is_active", "override", "source"}
  BY DEF Account
<1>2. QED
  BY <1>1 DEF Account, AccountWrites, Changed

-----------------------------------------------------------------------------
(* Staging keeps the invariant whenever the moves of the operation are     *)
(* good: the rest of the argument is one such obligation per operation.    *)
LEMMA StageKeeps ==
    ASSUME LifecycleInv,
           NEW p \in Sessions,
           NEW rows \in SUBSET (Subs \cup {AccountRow}),
           NEW own \in SUBSET (rows \cap Subs),
           NEW new \in [own -> SubscriptionStatus],
           NEW lk \in [own -> SUBSET Locks],
           NEW override \in OVERRIDE_STATUSES \cup {"none"},
           NEW source \in Sources \cup {"none"},
           NEW trigger,
           trigger = "account_unsuspend" => AccountRow \in rows,
           \A s \in own : GoodMove(s, new[s], lk[s], trigger),
           StageAs(p, rows, new, lk, override, source, trigger),
           ops' \in 0..MaxOps
    PROVE  LifecycleInv'
<1> DEFINE acct == compute_account_status(Over(new, Seen(p)), override, source)
<1>1. /\ tx[p].phase # "loaded"
      /\ Seen(p) = status /\ SeenAccount(p) = account
      /\ status \in [Subs -> SubscriptionStatus] /\ account \in Account
      /\ locks \in [Subs -> SUBSET Locks] /\ DOMAIN tx = Sessions
      /\ UNCHANGED <<status, locks, account>> /\ Free(rows, p)
  BY DEF LifecycleInv, NothingLoaded, Seen, SeenAccount, TypeOK, StageAs
<1>2. AccountWrites(Changed(acct, account))
  BY <1>1, ComputedAccount, ChangedAccount
<1> DEFINE t == [phase |-> "staged", rows |-> rows,
                 status |-> Changed(new, status), locks |-> Changed(lk, locks),
                 account |-> Changed(acct, account),
                 trigger |-> trigger]
<1>3. tx' = [tx EXCEPT ![p] = t]
  BY <1>1 DEF StageAs
<1> HIDE DEF acct
<1>4. /\ DOMAIN t.status \subseteq rows \cap Subs
      /\ \A s \in DOMAIN t.status : t.status[s] = new[s] /\ s \in own
      /\ \A s \in own : s \notin DOMAIN t.status => new[s] = status[s]
  BY DEF Changed
<1>5. /\ DOMAIN t.locks \subseteq rows \cap Subs
      /\ \A s \in DOMAIN t.locks : t.locks[s] = lk[s] /\ s \in own
      /\ \A s \in own : s \notin DOMAIN t.locks => lk[s] = locks[s]
  BY DEF Changed
<1>6. /\ t.phase = "staged" /\ t.rows = rows /\ t.trigger = trigger
      /\ AccountWrites(t.account)
  BY <1>2
<1> HIDE DEF t
<1>7. /\ DOMAIN tx' = Sessions /\ tx'[p] = t
      /\ \A q \in Sessions \ {p} : tx'[q] = tx[q]
  BY <1>1, <1>3
<1>8. TypeOK'
  <2>1. \A s \in DOMAIN t.status : t.status[s] \in SubscriptionStatus
    BY <1>4
  <2>2. \A s \in DOMAIN t.locks : t.locks[s] \subseteq Locks
    BY <1>5
  <2>3. \A q \in Sessions \ {p} :
          \/ tx'[q] = Idle
          \/ /\ tx'[q].phase = "loaded"
             /\ tx'[q].status \in [Subs -> SubscriptionStatus]
             /\ tx'[q].account \in Account
          \/ /\ tx'[q].phase = "staged"
             /\ tx'[q].rows \subseteq Subs \cup {AccountRow}
             /\ DOMAIN tx'[q].status \subseteq tx'[q].rows \cap Subs
             /\ \A s \in DOMAIN tx'[q].status :
                    tx'[q].status[s] \in SubscriptionStatus
             /\ DOMAIN tx'[q].locks \subseteq tx'[q].rows \cap Subs
             /\ \A s \in DOMAIN tx'[q].locks : tx'[q].locks[s] \subseteq Locks
             /\ AccountWrites(tx'[q].account)
    BY <1>7 DEF LifecycleInv, TypeOK
  <2>4. QED
    BY <1>1, <1>4, <1>5, <1>6, <1>7, <2>1, <2>2, <2>3 DEF TypeOK
<1>9. LockInv'
  BY <1>1 DEF LifecycleInv, LockInv
<1>10. ExclusionInv'
  <2>1. \A q \in Sessions \ {p} : tx[q].phase = "staged" =>
            tx[q].rows \cap rows = {}
    BY <1>1 DEF Free
  <2>2. QED
    BY <2>1, <1>6, <1>7 DEF LifecycleInv, ExclusionInv
<1>11. StagedInv'
  <2>1. ASSUME NEW q \in Sessions \ {p}, tx'[q].phase = "staged"
        PROVE  /\ tx'[q].trigger = "account_unsuspend" => AccountRow \in tx'[q].rows
               /\ \A s \in tx'[q].rows \cap Subs :
                    GoodMove(s, NewStatus(q, s), NewLocks(q, s), tx[q].trigger)'
    BY <2>1, <1>1, <1>7
       DEF LifecycleInv, StagedInv, GoodMove, NewStatus, NewLocks, Authorised
  <2>2. ASSUME NEW s \in rows \cap Subs
        PROVE  GoodMove(s, NewStatus(p, s), NewLocks(p, s), tx[p].trigger)'
    <3>1. CASE s \in own
      <4>1. NewStatus(p, s)' = new[s] /\ NewLocks(p, s)' = lk[s]
        BY <3>1, <1>1, <1>4, <1>5, <1>7 DEF NewStatus, NewLocks
      <4>2. QED
        BY <4>1, <3>1, <1>1, <1>6, <1>7 DEF GoodMove, Authorised
    <3>2. CASE s \notin own
      <4>1. NewStatus(p, s)' = status[s] /\ NewLocks(p, s)' = locks[s]
        BY <3>2, <1>1, <1>4, <1>5, <1>7 DEF NewStatus, NewLocks
      <4>2. QED
        BY <4>1, <1>1 DEF LifecycleInv, LockInv, GoodMove
    <3>3. QED
      BY <3>1, <3>2
  <2>3. QED
    BY <2>1, <2>2, <1>6, <1>7 DEF StagedInv
<1>12. NothingLoaded'
  BY <1>6, <1>7 DEF LifecycleInv, NothingLoaded
<1>13. QED
  BY <1>8, <1>9, <1>10, <1>11, <1>12 DEF LifecycleInv

(* The case of one subscription.                                           *)
LEMMA StageOneKeeps ==
    ASSUME LifecycleInv,
           NEW p \in Sessions, NEW s \in Subs,
           NEW st \in SubscriptionStatus, NEW k \in SUBSET Locks, NEW trigger,
           trigger # "account_unsuspend",
           GoodMove(s, st, k, trigger),
           StageOne(p, s, st, k, trigger)
    PROVE  LifecycleInv'
<1> DEFINE new == [x \in {s} |-> st]
           lk == [x \in {s} |-> k]
<1>1. /\ ops' \in 0..MaxOps
      /\ SeenAccount(p) = account /\ account \in Account
  BY LifecycleAssumption
     DEF StageOne, LifecycleInv, TypeOK, NothingLoaded, SeenAccount
<1>2. StageAs(p, {s}, new, lk, account.override, account.source, trigger)
  BY <1>1 DEF StageOne
<1>3. /\ account.override \in OVERRIDE_STATUSES \cup {"none"}
      /\ account.source \in Sources \cup {"none"}
  BY <1>1 DEF Account
<1>4. /\ new \in [{s} -> SubscriptionStatus] /\ lk \in [{s} -> SUBSET Locks]
      /\ \A x \in {s} : GoodMove(x, new[x], lk[x], trigger)
  OBVIOUS
<1> HIDE DEF new, lk
<1>5. ASSUME NEW one \in SUBSET Subs, one = {s},
             NEW f \in [one -> SubscriptionStatus], NEW g \in [one -> SUBSET Locks],
             NEW o \in OVERRIDE_STATUSES \cup {"none"}, NEW src \in Sources \cup {"none"},
             \A x \in one : GoodMove(x, f[x], g[x], trigger),
             StageAs(p, one, f, g, o, src, trigger)
      PROVE  LifecycleInv'
  <2>1. one \in SUBSET (Subs \cup {AccountRow}) /\ one \in SUBSET (one \cap Subs)
    BY <1>5
  <2>2. QED
    BY <1>1, <1>5, <2>1, StageKeeps
<1>6. QED
  BY <1>2, <1>3, <1>4, <1>5

(* The case of an account command, which has locked every row.             *)
LEMMA StageAccountKeeps ==
    ASSUME LifecycleInv,
           NEW p \in Sessions,
           NEW own \in SUBSET Subs,
           NEW new \in [own -> SubscriptionStatus],
           NEW lk \in [own -> SUBSET Locks],
           NEW override \in OVERRIDE_STATUSES \cup {"none"},
           NEW source \in Sources \cup {"none"},
           NEW trigger,
           \A s \in own : GoodMove(s, new[s], lk[s], trigger),
           StageAccount(p, own, new, lk, override, source, trigger)
    PROVE  LifecycleInv'
<1>1. /\ ops' \in 0..MaxOps
      /\ StageAs(p, Subs \cup {AccountRow}, new, lk, override, source, trigger)
  BY LifecycleAssumption DEF StageAccount, LifecycleInv, TypeOK, NothingLoaded
<1>2. QED
  BY <1>1, StageKeeps

(* The case of a recomputation.                                            *)
LEMMA RecomputeKeeps ==
    ASSUME LifecycleInv, NEW p \in Sessions,
           NEW override \in OVERRIDE_STATUSES \cup {"none"},
           NEW source \in Sources \cup {"none"},
           StageAs(p, {}, NoRows, NoRows, override, source, "none"),
           ops' \in 0..MaxOps
    PROVE  LifecycleInv'
<1>1. /\ NoRows \in [{} -> SubscriptionStatus] /\ NoRows \in [{} -> SUBSET Locks]
      /\ \A s \in {} : GoodMove(s, NoRows[s], NoRows[s], "none")
  BY DEF NoRows
<1>2. QED
  BY <1>1, StageKeeps

-----------------------------------------------------------------------------
\* Every operation on one subscription stages only legal moves.
LEMMA SubscriptionOperationKeeps ==
    ASSUME LifecycleInv, NEW p \in Procs, SubscriptionOperation(p)
    PROVE  LifecycleInv'
<1>1. /\ p \in Sessions /\ Seen(p) = status
      /\ status \in [Subs -> SubscriptionStatus]
      /\ locks \in [Subs -> SUBSET Locks]
  BY DEF Sessions, LifecycleInv, NothingLoaded, TypeOK, Seen
<1>2. PICK s \in Subs :
        \/ \E l \in Locks : suspend_subscription(p, s, l)
        \/ \E trigger \in Triggers, reason \in Reasons \cup {"any"} :
               restore_subscription(p, s, trigger, reason)
        \/ \E trigger \in Triggers, reason \in Reasons :
               resolve_stale_lock_without_restoration(p, s, trigger, reason)
        \/ activate_subscription(p, s)
        \/ expire_subscription(p, s)
        \/ cancel_subscription(p, s)
        \/ \E preserve \in BOOLEAN : disable_subscription(p, s, preserve)
        \/ enable_subscription(p, s)
  BY DEF SubscriptionOperation
<1>3. status[s] \in SUSPENDABLE => locks[s] = {}
  BY DEF LifecycleInv, LockInv
<1>4. \A trigger \in Triggers : trigger # "account_unsuspend"
  BY LifecycleAssumption DEF Triggers, ALLOWED_RESTORERS
<1>5. ASSUME NEW l \in Locks, suspend_subscription(p, s, l)
      PROVE  LifecycleInv'
  <2>1. /\ status[s] \in SUSPENDABLE \cup SUSPENDED_EQUIVALENT
        /\ StageOne(p, s, Suspended(status[s]), WithLock(locks[s], l), "none")
    BY <1>1, <1>5 DEF suspend_subscription
  <2>2. /\ Suspended(status[s]) \in SUSPENDED_EQUIVALENT
        /\ status[s] \notin TERMINAL
    BY <2>1 DEF Suspended, SUSPENDABLE, SUSPENDED_EQUIVALENT, TERMINAL
  <2>3. WithLock(locks[s], l) \in SUBSET Locks
    BY <1>1 DEF WithLock
  <2>4. GoodMove(s, Suspended(status[s]), WithLock(locks[s], l), "none")
    BY <2>2 DEF GoodMove, SUSPENDED_EQUIVALENT, SUSPENDABLE
  <2>5. QED
    BY <1>1, <2>1, <2>2, <2>3, <2>4, StageOneKeeps DEF SubscriptionStatus
<1>6. ASSUME NEW trigger \in Triggers, NEW reason \in Reasons \cup {"any"},
             restore_subscription(p, s, trigger, reason)
      PROVE  LifecycleInv'
  <2> DEFINE remaining == locks[s] \ Resolvable(s, trigger, reason)
             st == IF remaining = {} /\ ~reactivation_blocked_by_active_login(s, {})
                   THEN "active" ELSE status[s]
  <2>1. status[s] \in SUSPENDED_EQUIVALENT /\ StageOne(p, s, st, remaining, trigger)
    BY <1>1, <1>6 DEF restore_subscription
  <2>2. \A l \in Resolvable(s, trigger, reason) : trigger \in ALLOWED_RESTORERS[l[1]]
    BY DEF Resolvable
  <2>3. st \in SubscriptionStatus /\ remaining \in SUBSET Locks
    BY <1>1 DEF SubscriptionStatus, SUSPENDABLE
  <2>4. GoodMove(s, st, remaining, trigger)
    BY <2>1, <2>2 DEF GoodMove, Authorised, SUSPENDED_EQUIVALENT, SUSPENDABLE, TERMINAL
  <2> HIDE DEF st, remaining
  <2>5. QED
    BY <1>1, <1>4, <2>1, <2>3, <2>4, StageOneKeeps
<1>7. ASSUME NEW trigger \in Triggers, NEW reason \in Reasons,
             resolve_stale_lock_without_restoration(p, s, trigger, reason)
      PROVE  LifecycleInv'
  <2> DEFINE remaining == locks[s] \ Resolvable(s, trigger, reason)
  <2>1. StageOne(p, s, status[s], remaining, trigger)
    BY <1>1, <1>7 DEF resolve_stale_lock_without_restoration
  <2>2. remaining \in SUBSET Locks /\ GoodMove(s, status[s], remaining, trigger)
    BY <1>1, <1>3 DEF GoodMove
  <2>3. QED
    BY <1>1, <1>4, <2>1, <2>2, StageOneKeeps
<1>8. ASSUME activate_subscription(p, s)
      PROVE  LifecycleInv'
  <2>1. status[s] = "pending" /\ StageOne(p, s, "active", locks[s], "none")
    BY <1>1, <1>8 DEF activate_subscription
  <2>2. locks[s] = {} /\ GoodMove(s, "active", locks[s], "none")
    BY <1>3, <2>1 DEF GoodMove, SUSPENDABLE, TERMINAL
  <2>3. QED
    BY <1>1, <2>1, <2>2, StageOneKeeps DEF SubscriptionStatus, SUSPENDABLE
<1>9. ASSUME expire_subscription(p, s) \/ cancel_subscription(p, s)
      PROVE  LifecycleInv'
  <2>1. PICK st \in {"expired", "canceled"} : StageOne(p, s, st, {}, "none")
    BY <1>9 DEF expire_subscription, cancel_subscription
  <2>2. st \in SubscriptionStatus /\ GoodMove(s, st, {}, "none")
    BY DEF GoodMove, SubscriptionStatus, TERMINAL
  <2>3. QED
    BY <1>1, <2>1, <2>2, StageOneKeeps
<1>10. ASSUME NEW preserve \in BOOLEAN, disable_subscription(p, s, preserve)
       PROVE  LifecycleInv'
  <2>1. /\ status[s] \notin TERMINAL
        /\ StageOne(p, s, "disabled", IF preserve THEN locks[s] ELSE {}, "none")
    BY <1>1, <1>10 DEF disable_subscription
  <2>2. /\ (IF preserve THEN locks[s] ELSE {}) \in SUBSET Locks
        /\ "disabled" \in SubscriptionStatus
        /\ GoodMove(s, "disabled", IF preserve THEN locks[s] ELSE {}, "none")
    BY <1>1, <2>1 DEF GoodMove, SUSPENDABLE, SubscriptionStatus
  <2>3. QED
    BY <1>1, <2>1, <2>2, StageOneKeeps
<1>11. ASSUME enable_subscription(p, s)
       PROVE  LifecycleInv'
  <2>1. status[s] = "disabled" /\ StageOne(p, s, Enabled(s, {}), locks[s], "none")
    BY <1>1, <1>11 DEF enable_subscription
  <2>2. /\ Enabled(s, {}) \in {"suspended", "disabled", "active"}
        /\ Enabled(s, {}) = "active" => locks[s] = {}
    BY DEF Enabled
  <2>3. /\ Enabled(s, {}) \in SubscriptionStatus
        /\ GoodMove(s, Enabled(s, {}), locks[s], "none")
    BY <2>1, <2>2 DEF GoodMove, SubscriptionStatus, SUSPENDABLE,
                      SUSPENDED_EQUIVALENT, TERMINAL
  <2>4. QED
    BY <1>1, <2>1, <2>3, StageOneKeeps
<1>12. QED
  BY <1>2, <1>5, <1>6, <1>7, <1>8, <1>9, <1>10, <1>11

-----------------------------------------------------------------------------
(* An administrator may lift any lock.                                     *)
LEMMA AdminLiftsAll ==
    \A l \in Locks : "admin" \in ALLOWED_RESTORERS[l[1]]
<1>1. \A r \in DOMAIN ALLOWED_RESTORERS : "admin" \in ALLOWED_RESTORERS[r]
  BY DEF ALLOWED_RESTORERS
<1>2. \A l \in Locks : l[1] \in Reasons
  BY LifecycleAssumption DEF Locks
<1>3. QED
  BY <1>1, <1>2, LifecycleAssumption

\* Every operation on the account stages only legal moves.
LEMMA AccountOperationKeeps ==
    ASSUME LifecycleInv, NEW p \in Procs, AccountOperation(p)
    PROVE  LifecycleInv'
<1>1. /\ p \in Sessions /\ Seen(p) = status
      /\ status \in [Subs -> SubscriptionStatus]
      /\ locks \in [Subs -> SUBSET Locks]
  BY DEF Sessions, LifecycleInv, NothingLoaded, TypeOK, Seen
<1>2. \A s \in Subs : status[s] \in SUSPENDABLE => locks[s] = {}
  BY DEF LifecycleInv, LockInv
<1>3. ASSUME account_activate(p)
      PROVE  LifecycleInv'
  <2> DEFINE down == {s \in Subs : status[s] \in SUSPENDED_EQUIVALENT \cup {"disabled"}}
             can(s) == status[s] = "disabled" => locks[s] = {}
  <2>1. PICK W \in SUBSET {s \in down : can(s)} :
          StageAccount(p, down,
              [s \in down |->
                  IF s \in W THEN "active"
                  ELSE IF can(s) THEN status[s] ELSE "suspended"],
              [s \in down |->
                  IF status[s] = "disabled" THEN locks[s] ELSE {}],
              "none", "none", "admin")
    BY <1>1, <1>3 DEF account_activate
  <2> DEFINE new == [s \in down |->
                        IF s \in W THEN "active"
                        ELSE IF can(s) THEN status[s] ELSE "suspended"]
             lk == [s \in down |-> IF status[s] = "disabled" THEN locks[s] ELSE {}]
  <2>2. new \in [down -> SubscriptionStatus] /\ lk \in [down -> SUBSET Locks]
    BY <1>1 DEF SubscriptionStatus, SUSPENDABLE, SUSPENDED_EQUIVALENT
  <2>3. ASSUME NEW s \in down
        PROVE  GoodMove(s, new[s], lk[s], "admin")
    <3>1. \A l \in locks[s] : Authorised("admin", l)
      BY <1>1, AdminLiftsAll DEF Authorised
    <3>2. /\ status[s] \notin TERMINAL /\ status[s] \notin SUSPENDABLE
          /\ new[s] \in SUSPENDABLE => s \in W
          /\ s \in W => lk[s] = {}
      BY <2>1 DEF SUSPENDED_EQUIVALENT, TERMINAL, SUSPENDABLE
    <3>3. QED
      BY <3>1, <3>2 DEF GoodMove
  <2>4. /\ down \in SUBSET Subs
        /\ StageAccount(p, down, new, lk, "none", "none", "admin")
    BY <2>1
  <2> HIDE DEF down, new, lk
  <2>5. QED
    BY <1>1, <2>2, <2>3, <2>4, StageAccountKeeps
<1>4. ASSUME unsuspend_account_override(p)
      PROVE  LifecycleInv'
  <2> DEFINE mine == <<"admin", account.source>>
             match == {s \in Subs : mine \in locks[s]}
             held == {s \in match : /\ status[s] \in SUSPENDED_EQUIVALENT
                                    /\ locks[s] = {mine}}
  <2>1. PICK W \in SUBSET held :
          StageAccount(p, W \cup (match \ held),
              [s \in W \cup (match \ held) |->
                  IF s \in W THEN "active" ELSE status[s]],
              [s \in W \cup (match \ held) |-> locks[s] \ {mine}],
              "none", "none", "account_unsuspend")
    BY <1>4 DEF unsuspend_account_override
  <2> DEFINE rows == W \cup (match \ held)
             new == [s \in rows |-> IF s \in W THEN "active" ELSE status[s]]
             lk == [s \in rows |-> locks[s] \ {mine}]
  <2>2. new \in [rows -> SubscriptionStatus] /\ lk \in [rows -> SUBSET Locks]
    BY <1>1 DEF SubscriptionStatus, SUSPENDABLE
  <2>3. ASSUME NEW s \in rows
        PROVE  GoodMove(s, new[s], lk[s], "account_unsuspend")
    <3>1. CASE s \in W
      <4>1. locks[s] = {mine} /\ new[s] = "active" /\ lk[s] = {}
        BY <3>1
      <4>2. status[s] \notin TERMINAL
        BY <3>1 DEF SUSPENDED_EQUIVALENT, TERMINAL
      <4>3. QED
        BY <4>1, <4>2 DEF GoodMove, Authorised
    <3>2. CASE s \notin W
      <4>1. mine \in locks[s] /\ new[s] = status[s]
        BY <3>2
      <4>2. status[s] \notin SUSPENDABLE
        BY <4>1, <1>2
      <4>3. QED
        BY <4>1, <4>2 DEF GoodMove, SUSPENDABLE
    <3>3. QED
      BY <3>1, <3>2
  <2>4. /\ rows \in SUBSET Subs
        /\ StageAccount(p, rows, new, lk, "none", "none", "account_unsuspend")
    BY <2>1
  <2> HIDE DEF rows, new, lk
  <2>5. QED
    BY <1>1, <2>2, <2>3, <2>4, StageAccountKeeps
<1>5. ASSUME NEW source \in Sources, NEW target \in {"blocked", "suspended"},
             account_suspend(p, target, source)
      PROVE  LifecycleInv'
  <2> DEFINE up == {s \in Subs : status[s] \in SUSPENDABLE}
             new == [s \in up |-> "suspended"]
             lk == [s \in up |-> WithLock(locks[s], <<"admin", source>>)]
  <2>1. StageAccount(p, up, new, lk, target, source, "none")
    BY <1>1, <1>5 DEF account_suspend
  <2>2. <<"admin", source>> \in Locks
    BY DEF Locks
  <2>3. new \in [up -> SubscriptionStatus] /\ lk \in [up -> SUBSET Locks]
    BY <1>1, <2>2 DEF SubscriptionStatus, SUSPENDED_EQUIVALENT, WithLock
  <2>4. \A s \in up : GoodMove(s, new[s], lk[s], "none")
    BY DEF GoodMove, SUSPENDABLE, TERMINAL
  <2>5. up \in SUBSET Subs /\ target \in OVERRIDE_STATUSES
    BY DEF OVERRIDE_STATUSES
  <2> HIDE DEF up, new, lk
  <2>6. QED
    BY <1>1, <2>1, <2>3, <2>4, <2>5, StageAccountKeeps
<1>6. ASSUME NEW source \in Sources, NEW preserve \in BOOLEAN,
             account_disable(p, source, preserve)
      PROVE  LifecycleInv'
  <2> DEFINE live == {s \in Subs : status[s] \notin TERMINAL}
             new == [s \in live |-> "disabled"]
             lk == [s \in live |-> IF preserve \/ status[s] = "disabled"
                                   THEN locks[s] ELSE {}]
  <2>1. StageAccount(p, live, new, lk, "disabled", source, "none")
    BY <1>1, <1>6 DEF account_disable
  <2>2. new \in [live -> SubscriptionStatus] /\ lk \in [live -> SUBSET Locks]
    BY <1>1 DEF SubscriptionStatus
  <2>3. \A s \in live : GoodMove(s, new[s], lk[s], "none")
    BY DEF GoodMove, SUSPENDABLE
  <2>4. live \in SUBSET Subs /\ "disabled" \in OVERRIDE_STATUSES
    BY DEF OVERRIDE_STATUSES
  <2> HIDE DEF live, new, lk
  <2>5. QED
    BY <1>1, <2>1, <2>2, <2>3, <2>4, StageAccountKeeps
<1>7. ASSUME NEW source \in Sources, account_cancel(p, source)
      PROVE  LifecycleInv'
  <2> DEFINE live == {s \in Subs : status[s] \notin TERMINAL}
             new == [s \in live |-> "canceled"]
             lk == [s \in live |-> {}]
  <2>1. StageAccount(p, live, new, lk, "canceled", source, "none")
    BY <1>1, <1>7 DEF account_cancel
  <2>2. new \in [live -> SubscriptionStatus] /\ lk \in [live -> SUBSET Locks]
    BY DEF SubscriptionStatus, TERMINAL
  <2>3. \A s \in live : GoodMove(s, new[s], lk[s], "none")
    BY DEF GoodMove, SUSPENDABLE
  <2>4. live \in SUBSET Subs /\ "canceled" \in OVERRIDE_STATUSES
    BY DEF OVERRIDE_STATUSES
  <2> HIDE DEF live, new, lk
  <2>5. QED
    BY <1>1, <2>1, <2>2, <2>3, <2>4, StageAccountKeeps
<1>8. ASSUME NEW source \in Sources, NEW target \in OVERRIDE_STATUSES,
             apply_requested_account_status(p, target, source)
      PROVE  LifecycleInv'
  <2>1. PICK o \in OVERRIDE_STATUSES \cup {"none"}, src \in Sources \cup {"none"} :
          StageAs(p, {}, NoRows, NoRows, o, src, "none")
    BY <1>8 DEF apply_requested_account_status
  <2>2. ops' \in 0..MaxOps
    BY <1>8, LifecycleAssumption
       DEF apply_requested_account_status, LifecycleInv, TypeOK
  <2>3. QED
    BY <1>1, <2>1, <2>2, RecomputeKeeps
<1>9. QED
  BY <1>3, <1>4, <1>5, <1>6, <1>7, <1>8 DEF AccountOperation

-----------------------------------------------------------------------------
(* A commit makes its own moves, which were good, and touches no row that  *)
(* another open transaction has locked.                                    *)
LEMMA CommitMoves ==
    ASSUME LifecycleInv, NEW p \in Sessions, Commit(p)
    PROVE  /\ status' \in [Subs -> SubscriptionStatus]
           /\ locks' \in [Subs -> SUBSET Locks]
           /\ account' \in Account
           /\ \A s \in Subs : /\ status'[s] = NewStatus(p, s)
                              /\ locks'[s] = NewLocks(p, s)
           /\ \A s \in Subs \ tx[p].rows :
                  status'[s] = status[s] /\ locks'[s] = locks[s]
           /\ \A s \in Subs :
                  GoodMove(s, status'[s], locks'[s], tx[p].trigger)
<1>1. /\ tx[p].phase = "staged"
      /\ status' = Over(tx[p].status, status)
      /\ locks' = Over(tx[p].locks, locks)
      /\ account' = Over(tx[p].account, account)
  BY DEF Commit
<1>2. /\ status \in [Subs -> SubscriptionStatus]
      /\ locks \in [Subs -> SUBSET Locks] /\ account \in Account
  BY DEF LifecycleInv, TypeOK
<1>3. /\ tx[p].rows \subseteq Subs \cup {AccountRow}
      /\ DOMAIN tx[p].status \subseteq tx[p].rows \cap Subs
      /\ \A s \in DOMAIN tx[p].status : tx[p].status[s] \in SubscriptionStatus
      /\ DOMAIN tx[p].locks \subseteq tx[p].rows \cap Subs
      /\ \A s \in DOMAIN tx[p].locks : tx[p].locks[s] \subseteq Locks
      /\ AccountWrites(tx[p].account)
  BY <1>1 DEF LifecycleInv, TypeOK, NothingLoaded, Idle
<1>4. status' \in [Subs -> SubscriptionStatus]
  BY <1>1, <1>2, <1>3 DEF Over
<1>5. locks' \in [Subs -> SUBSET Locks]
  BY <1>1, <1>2, <1>3 DEF Over
<1>6. account' \in Account
  BY <1>1, <1>2, <1>3, OverAccount
<1>7. \A s \in Subs : status'[s] = NewStatus(p, s) /\ locks'[s] = NewLocks(p, s)
  BY <1>1, <1>2 DEF Over, NewStatus, NewLocks
<1>8. \A s \in Subs \ tx[p].rows : status'[s] = status[s] /\ locks'[s] = locks[s]
  BY <1>3, <1>7 DEF NewStatus, NewLocks
<1>9. ASSUME NEW s \in Subs
      PROVE  GoodMove(s, status'[s], locks'[s], tx[p].trigger)
  <2>1. CASE s \in tx[p].rows
    BY <1>1, <1>7, <2>1 DEF LifecycleInv, StagedInv
  <2>2. CASE s \notin tx[p].rows
    BY <1>8, <2>2 DEF LifecycleInv, LockInv, GoodMove
  <2>3. QED
    BY <2>1, <2>2
<1>10. QED
  BY <1>4, <1>5, <1>6, <1>7, <1>8, <1>9

\* A commit writes rows no other session can have changed since they were read.
LEMMA CommitKeeps ==
    ASSUME LifecycleInv, NEW p \in Sessions, Commit(p)
    PROVE  LifecycleInv'
<1>1. /\ tx' = [tx EXCEPT ![p] = Idle] /\ DOMAIN tx = Sessions /\ ops' = ops
      /\ DOMAIN tx' = Sessions /\ tx'[p] = Idle
      /\ \A q \in Sessions \ {p} : tx'[q] = tx[q]
  BY DEF Commit, LifecycleInv, TypeOK
<1>2. Idle.phase = "idle"
  BY DEF Idle
<1>3. TypeOK'
  <2>1. \A q \in Sessions \ {p} :
          \/ tx'[q] = Idle
          \/ /\ tx'[q].phase = "loaded"
             /\ tx'[q].status \in [Subs -> SubscriptionStatus]
             /\ tx'[q].account \in Account
          \/ /\ tx'[q].phase = "staged"
             /\ tx'[q].rows \subseteq Subs \cup {AccountRow}
             /\ DOMAIN tx'[q].status \subseteq tx'[q].rows \cap Subs
             /\ \A s \in DOMAIN tx'[q].status :
                    tx'[q].status[s] \in SubscriptionStatus
             /\ DOMAIN tx'[q].locks \subseteq tx'[q].rows \cap Subs
             /\ \A s \in DOMAIN tx'[q].locks : tx'[q].locks[s] \subseteq Locks
             /\ AccountWrites(tx'[q].account)
    BY <1>1 DEF LifecycleInv, TypeOK
  <2>2. ops' \in 0..MaxOps
    BY <1>1 DEF LifecycleInv, TypeOK
  <2>3. QED
    BY <1>1, <2>1, <2>2, CommitMoves DEF TypeOK
<1>4. LockInv'
  BY CommitMoves DEF LockInv, GoodMove
<1>5. ExclusionInv'
  BY <1>1, <1>2 DEF LifecycleInv, ExclusionInv
<1>6. StagedInv'
  <2>1. SUFFICES ASSUME NEW q \in Sessions \ {p}, tx[q].phase = "staged"
                 PROVE  /\ tx[q].trigger = "account_unsuspend" =>
                               AccountRow \in tx[q].rows
                        /\ \A s \in tx[q].rows \cap Subs :
                               GoodMove(s, NewStatus(q, s), NewLocks(q, s),
                                        tx[q].trigger)'
    BY <1>1, <1>2 DEF StagedInv
  <2>2. tx[q].trigger = "account_unsuspend" => AccountRow \in tx[q].rows
    BY <2>1 DEF LifecycleInv, StagedInv
  <2>3. tx[p].phase = "staged" /\ tx[p].rows \cap tx[q].rows = {}
    BY <2>1 DEF Commit, LifecycleInv, ExclusionInv
  <2>4. tx[q].trigger = "account_unsuspend" => account' = account
    <3>1. SUFFICES ASSUME tx[q].trigger = "account_unsuspend"
                   PROVE  account' = account
      OBVIOUS
    <3>2. ~Free({AccountRow}, p)
      BY <2>1, <2>2, <3>1 DEF Free
    <3>3. DOMAIN tx[p].account = {} /\ account' = Over(tx[p].account, account)
      BY <3>2 DEF Commit
    <3>4. account = [x \in DOMAIN account |-> account[x]]
      BY DEF LifecycleInv, TypeOK, Account
    <3>5. QED
      BY <3>3, <3>4 DEF Over
  <2>5. ASSUME NEW s \in tx[q].rows \cap Subs
        PROVE  GoodMove(s, NewStatus(q, s), NewLocks(q, s), tx[q].trigger)'
    <3>1. status'[s] = status[s] /\ locks'[s] = locks[s]
      BY <2>3, CommitMoves
    <3>2. NewStatus(q, s)' = NewStatus(q, s) /\ NewLocks(q, s)' = NewLocks(q, s)
      BY <1>1, <3>1 DEF NewStatus, NewLocks
    <3>3. GoodMove(s, NewStatus(q, s), NewLocks(q, s), tx[q].trigger)
      BY <2>1 DEF LifecycleInv, StagedInv
    <3>4. \A l : Authorised(tx[q].trigger, l) => Authorised(tx[q].trigger, l)'
      BY <1>1, <2>4 DEF Authorised
    <3>5. QED
      BY <1>1, <3>1, <3>2, <3>3, <3>4 DEF GoodMove
  <2>6. QED
    BY <2>2, <2>5
<1>7. NothingLoaded'
  BY <1>1, <1>2 DEF LifecycleInv, NothingLoaded
<1>8. QED
  BY <1>3, <1>4, <1>5, <1>6, <1>7 DEF LifecycleInv

\* An abort forgets the transaction and nothing else.
LEMMA AbortKeeps ==
    ASSUME LifecycleInv, NEW p \in Sessions, Abort(p)
    PROVE  LifecycleInv'
<1>1. /\ UNCHANGED <<status, locks, account, ops>> /\ DOMAIN tx' = Sessions
      /\ tx'[p] = Idle /\ \A q \in Sessions \ {p} : tx'[q] = tx[q]
  BY DEF Abort, LifecycleInv, TypeOK
<1>2. Idle.phase = "idle"
  BY DEF Idle
<1>3. TypeOK'
  BY <1>1 DEF LifecycleInv, TypeOK
<1>4. LockInv' /\ ExclusionInv' /\ NothingLoaded'
  BY <1>1, <1>2 DEF LifecycleInv, LockInv, ExclusionInv, NothingLoaded
<1>5. StagedInv'
  BY <1>1, <1>2 DEF LifecycleInv, StagedInv, GoodMove, NewStatus, NewLocks, Authorised
<1>6. QED
  BY <1>3, <1>4, <1>5 DEF LifecycleInv

-----------------------------------------------------------------------------
\* The initial states have no locks and no open transaction.
LEMMA InitKeeps ==
    Init => LifecycleInv
<1> SUFFICES ASSUME Init PROVE LifecycleInv
  OBVIOUS
<1>1. /\ status \in [Subs -> SubscriptionStatus]
      /\ locks = [s \in Subs |-> {}] /\ ops = 0
      /\ tx = [p \in Sessions |-> Idle]
  BY LifecycleAssumption DEF Init
<1>2. account \in Account
  BY ComputedAccount DEF Init
<1>3. Idle.phase = "idle"
  BY DEF Idle
<1>4. TypeOK
  BY <1>1, <1>2, LifecycleAssumption DEF TypeOK
<1>5. LockInv /\ ExclusionInv /\ StagedInv /\ NothingLoaded
  BY <1>1, <1>3 DEF LockInv, ExclusionInv, StagedInv, NothingLoaded
<1>6. QED
  BY <1>4, <1>5 DEF LifecycleInv

\* Every step of the specification keeps the invariant.
LEMMA StepKeeps ==
    ASSUME LifecycleInv, ~Preload, [Next]_vars
    PROVE  LifecycleInv'
<1>1. ASSUME NEW p \in Procs, handle_subscription_event(p)
      PROVE  LifecycleInv'
  <2>1. /\ p \in Sessions /\ SeenAccount(p) = account /\ account \in Account
    BY DEF Sessions, LifecycleInv, NothingLoaded, TypeOK, SeenAccount
  <2>2. /\ account.override \in OVERRIDE_STATUSES \cup {"none"}
        /\ account.source \in Sources \cup {"none"}
    BY <2>1 DEF Account
  <2>3. StageAs(p, {}, NoRows, NoRows, account.override, account.source, "none")
    BY <1>1, <2>1 DEF handle_subscription_event, Recompute
  <2>4. ops' \in 0..MaxOps
    BY <1>1, LifecycleAssumption DEF handle_subscription_event, LifecycleInv, TypeOK
  <2>5. QED
    BY <2>1, <2>2, <2>3, <2>4, RecomputeKeeps
<1>2. ASSUME reconcile_account
      PROVE  LifecycleInv'
  <2>1. /\ Reconciler \in Sessions /\ SeenAccount(Reconciler) = account
        /\ account \in Account
    BY DEF Sessions, LifecycleInv, NothingLoaded, TypeOK, SeenAccount
  <2>2. /\ account.override \in OVERRIDE_STATUSES \cup {"none"}
        /\ account.source \in Sources \cup {"none"}
    BY <2>1 DEF Account
  <2>3. StageAs(Reconciler, {}, NoRows, NoRows, account.override, account.source, "none")
    BY <1>2, <2>1 DEF reconcile_account, Recompute
  <2>4. ops' \in 0..MaxOps
    BY <1>2 DEF reconcile_account, LifecycleInv, TypeOK
  <2>5. QED
    BY <2>1, <2>2, <2>3, <2>4, RecomputeKeeps
<1>3. CASE UNCHANGED vars
  BY <1>3 DEF vars, LifecycleInv, TypeOK, LockInv, ExclusionInv, StagedInv,
              NothingLoaded, GoodMove, NewStatus, NewLocks, Authorised
<1>4. QED
  BY <1>1, <1>2, <1>3, SubscriptionOperationKeeps, AccountOperationKeeps,
     CommitKeeps, AbortKeeps DEF Next, Load

-----------------------------------------------------------------------------
(* Every lifecycle operation keeps the inductive invariant, in any number  *)
(* of concurrent sessions that lock their rows before they read them.      *)
THEOREM LifecycleInvariant ==
    ASSUME ~Preload
    PROVE  Spec => []LifecycleInv
<1>1. Init => LifecycleInv
  BY InitKeeps
<1>2. LifecycleInv /\ [Next]_vars => LifecycleInv'
  BY StepKeeps
<1>3. QED
  BY <1>1, <1>2, PTL DEF Spec

(* Rows and open transactions always have their type.                      *)
THEOREM LifecycleTypes ==
    ASSUME ~Preload
    PROVE  Spec => []TypeOK
<1>1. LifecycleInv => TypeOK
  BY DEF LifecycleInv
<1>2. QED
  BY <1>1, LifecycleInvariant, PTL

(* No interleaving of suspensions, restorations, activations and account   *)
(* commands, each in a session that locks its rows before it reads them,   *)
(* leaves a service active under an enforcement lock.                      *)
THEOREM LocksHold ==
    ASSUME ~Preload
    PROVE  Spec => []NoActiveUnderLock
<1>1. LifecycleInv => NoActiveUnderLock
  BY DEF LifecycleInv, LockInv, NoActiveUnderLock, SUSPENDABLE
<1>2. QED
  BY <1>1, LifecycleInvariant, PTL

(* What a step does to one subscription is a good move of some session.    *)
LEMMA StepMoves ==
    ASSUME LifecycleInv, ~Preload, [Next]_vars, status' # status
    PROVE  \E p \in Sessions :
               /\ Commit(p)
               /\ \A s \in Subs : GoodMove(s, status'[s], locks'[s], tx[p].trigger)
<1>1. \A p, s, st, k, trigger : StageOne(p, s, st, k, trigger) => status' = status
  BY DEF StageOne, StageAs
<1>2. ASSUME NEW p \in Procs PROVE ~SubscriptionOperation(p)
  BY <1>1, status' # status
     DEF SubscriptionOperation, suspend_subscription, restore_subscription,
         resolve_stale_lock_without_restoration, activate_subscription,
         expire_subscription, cancel_subscription, disable_subscription,
         enable_subscription
<1>3. \A p, rows, new, lk, o, src, trigger :
          StageAccount(p, rows, new, lk, o, src, trigger) => status' = status
  BY DEF StageAccount, StageAs
<1>4. ASSUME NEW p \in Procs PROVE ~AccountOperation(p)
  <2>1. ~account_activate(p) /\ ~unsuspend_account_override(p)
    BY <1>3, status' # status DEF account_activate, unsuspend_account_override
  <2>2. /\ \A target, source : ~account_suspend(p, target, source)
        /\ \A source : ~account_cancel(p, source)
        /\ \A source, preserve : ~account_disable(p, source, preserve)
    BY <1>3, status' # status DEF account_suspend, account_cancel, account_disable
  <2>3. \A target, source : ~apply_requested_account_status(p, target, source)
    BY status' # status DEF apply_requested_account_status, StageAs
  <2>4. QED
    BY <2>1, <2>2, <2>3 DEF AccountOperation
<1>5. ~reconcile_account /\ \A p : /\ ~handle_subscription_event(p)
                                   /\ ~Load(p) /\ ~Abort(p)
  BY status' # status
     DEF reconcile_account, handle_subscription_event, Recompute, StageAs, Load, Abort
<1>6. \E p \in Sessions : Commit(p)
  BY <1>2, <1>4, <1>5 DEF Next, vars
<1>7. QED
  BY <1>6, CommitMoves

(* Among any number of concurrent sessions that lock their rows before     *)
(* they read them, none revives a terminal service.  ~Preload is essential *)
(* and excludes real callers: crm_api.py and account_deletion.py load the  *)
(* row first, and for them TerminalNeverLeft is false, see README.         *)
THEOREM TerminalIsFinal ==
    ASSUME ~Preload
    PROVE  Spec => TerminalNeverLeft
<1> DEFINE Kept == \A s \in Subs : status[s] \in TERMINAL => status'[s] \in TERMINAL
<1>1. LifecycleInv /\ [Next]_vars => [Kept]_vars
  <2>1. SUFFICES ASSUME LifecycleInv, [Next]_vars, status' # status
                 PROVE  Kept
    OBVIOUS
  <2>2. QED
    BY <2>1, StepMoves DEF GoodMove
<1>2. QED
  BY <1>1, LifecycleInvariant, PTL DEF Spec, TerminalNeverLeft

(* A locked service comes back only by a trigger authorised for all its    *)
(* locks at the moment of the commit, among any number of sessions that    *)
(* lock their rows before they read them.                                  *)
THEOREM RestoreAuthority ==
    ASSUME ~Preload
    PROVE  Spec => RestoreIsAuthorized
<1> DEFINE Step ==
        \A s \in Subs :
            status[s] # "active" /\ status'[s] = "active" =>
                \A l \in locks[s] : \E p \in Sessions :
                    /\ tx[p].phase = "staged"
                    /\ tx'[p] = Idle
                    /\ \/ tx[p].trigger \in ALLOWED_RESTORERS[l[1]]
                       \/ /\ tx[p].trigger = "account_unsuspend"
                          /\ l = <<"admin", account.source>>
<1>1. LifecycleInv /\ [Next]_vars => [Step]_vars
  <2>1. SUFFICES ASSUME LifecycleInv, [Next]_vars, status' # status
                 PROVE  Step
    OBVIOUS
  <2>2. PICK p \in Sessions :
            /\ Commit(p)
            /\ \A s \in Subs : GoodMove(s, status'[s], locks'[s], tx[p].trigger)
    BY <2>1, StepMoves
  <2>3. tx[p].phase = "staged" /\ tx'[p] = Idle
    BY <2>1, <2>2 DEF Commit, LifecycleInv, TypeOK
  <2>4. QED
    BY <2>2, <2>3 DEF GoodMove, Authorised
<1>2. QED
  BY <1>1, LifecycleInvariant, PTL DEF Spec, RestoreIsAuthorized

-----------------------------------------------------------------------------
(* The projection.  Sessions that race on siblings let the account drift,  *)
(* so the argument is about one session beside the reconciler.             *)
Projected(p) ==
    LET row == Over(tx[p].account, account)
    IN  row = compute_account_status(Over(tx[p].status, status),
                                     row.override, row.source)

(* What the session at work has staged is exact once it is committed; the  *)
(* reconciler recomputes an exact row and stages nothing.                  *)
SerialInv ==
    /\ ProjectionExact
    /\ \A p \in Procs : tx[p].phase = "staged" => Projected(p)
    /\ tx[Reconciler].phase = "staged" =>
           DOMAIN tx[Reconciler].status = {} /\ DOMAIN tx[Reconciler].account = {}

(* The step of a session that stages an exact account row.                 *)
StagesExactly(p) ==
    /\ UNCHANGED <<status, account>>
    /\ \A q \in Sessions \ {p} : tx'[q] = tx[q]
    /\ Projected(p)'

(* Writing only the columns that differ gives the row that was meant.      *)
LEMMA OverChanged ==
    ASSUME NEW old, NEW new, DOMAIN new \subseteq DOMAIN old
    PROVE  Over(Changed(new, old), old) = Over(new, old)
<1>1. \A x \in DOMAIN old :
         (IF x \in DOMAIN Changed(new, old) THEN Changed(new, old)[x] ELSE old[x])
         = (IF x \in DOMAIN new THEN new[x] ELSE old[x])
  BY DEF Changed
<1>2. QED
  BY <1>1 DEF Over

(* Every operation ends in StageAs, whose recomputation is exact.          *)
LEMMA StageAsExact ==
    ASSUME LifecycleInv, NEW p \in Sessions,
           NEW rows, NEW new, NEW lk, NEW o, NEW src, NEW trigger,
           DOMAIN new \subseteq Subs,
           StageAs(p, rows, new, lk, o, src, trigger)
    PROVE  StagesExactly(p)
<1> DEFINE c == compute_account_status(Over(new, status), o, src)
<1>1. /\ Seen(p) = status /\ SeenAccount(p) = account
      /\ DOMAIN status = Subs /\ DOMAIN tx = Sessions
      /\ DOMAIN account = {"status", "is_active", "override", "source"}
      /\ UNCHANGED <<status, account>>
  BY DEF LifecycleInv, NothingLoaded, Seen, SeenAccount, TypeOK, Account, StageAs
<1>2. /\ DOMAIN c = {"status", "is_active", "override", "source"}
      /\ c.override = o /\ c.source = src
      /\ c = [x \in DOMAIN c |-> c[x]]
  BY DEF compute_account_status
<1>3. tx' = [tx EXCEPT ![p] = [phase |-> "staged", rows |-> rows,
                               status |-> Changed(new, status),
                               locks |-> Changed(lk, locks),
                               account |-> Changed(c, account),
                               trigger |-> trigger]]
  BY <1>1 DEF StageAs
<1>4. /\ tx'[p].status = Changed(new, status)
      /\ tx'[p].account = Changed(c, account)
      /\ \A q \in Sessions \ {p} : tx'[q] = tx[q]
  BY <1>1, <1>3
<1> HIDE DEF c
<1>5. Over(Changed(new, status), status) = Over(new, status)
  BY <1>1, OverChanged
<1>6. Over(Changed(c, account), account) = c
  <2>1. Over(Changed(c, account), account) = Over(c, account)
    BY <1>1, <1>2, OverChanged
  <2>2. Over(c, account) = [x \in DOMAIN c |-> c[x]]
    BY <1>1, <1>2 DEF Over
  <2>3. QED
    BY <1>2, <2>1, <2>2
<1>7. Projected(p)'
  BY <1>1, <1>2, <1>4, <1>5, <1>6 DEF Projected, c
<1>8. QED
  BY <1>1, <1>4, <1>7 DEF StagesExactly

(* So does an operation on one subscription,                               *)
LEMMA StageOneExact ==
    ASSUME LifecycleInv, NEW p \in Sessions, NEW s \in Subs,
           NEW st, NEW k, NEW trigger, StageOne(p, s, st, k, trigger)
    PROVE  StagesExactly(p)
<1>1. DOMAIN [x \in {s} |-> st] \subseteq Subs
  OBVIOUS
<1>2. QED
  BY <1>1, StageAsExact DEF StageOne

(* a command on the account,                                               *)
LEMMA StageAccountExact ==
    ASSUME LifecycleInv, NEW p \in Sessions, NEW rows,
           NEW new, NEW lk, NEW o, NEW src, NEW trigger,
           DOMAIN new \subseteq Subs,
           StageAccount(p, rows, new, lk, o, src, trigger)
    PROVE  StagesExactly(p)
  BY StageAsExact DEF StageAccount

(* and a bare recomputation.                                               *)
LEMMA RecomputeExact ==
    ASSUME LifecycleInv, NEW p \in Sessions, NEW o, NEW src,
           StageAs(p, {}, NoRows, NoRows, o, src, "none")
    PROVE  StagesExactly(p)
<1>1. DOMAIN NoRows \subseteq Subs
  BY DEF NoRows
<1>2. QED
  BY <1>1, StageAsExact

(* No operation of a session is an exception.                              *)
LEMMA OperationExact ==
    ASSUME LifecycleInv, NEW p \in Procs,
           \/ SubscriptionOperation(p) \/ AccountOperation(p)
           \/ handle_subscription_event(p)
    PROVE  StagesExactly(p)
<1>1. p \in Sessions
  BY DEF Sessions
<1>2. ASSUME SubscriptionOperation(p) PROVE StagesExactly(p)
  BY <1>1, <1>2, StageOneExact
     DEF SubscriptionOperation, suspend_subscription, restore_subscription,
         resolve_stale_lock_without_restoration, activate_subscription,
         expire_subscription, cancel_subscription, disable_subscription,
         enable_subscription
<1>3. ASSUME account_activate(p) PROVE StagesExactly(p)
  BY <1>1, <1>3, StageAccountExact DEF account_activate
<1>4. ASSUME unsuspend_account_override(p) PROVE StagesExactly(p)
  BY <1>1, <1>4, StageAccountExact DEF unsuspend_account_override
<1>5. ASSUME NEW source, NEW target, account_suspend(p, target, source)
      PROVE  StagesExactly(p)
  BY <1>1, <1>5, StageAccountExact DEF account_suspend
<1>6. ASSUME NEW source, NEW preserve, account_disable(p, source, preserve)
      PROVE  StagesExactly(p)
  BY <1>1, <1>6, StageAccountExact DEF account_disable
<1>7. ASSUME NEW source, account_cancel(p, source) PROVE StagesExactly(p)
  BY <1>1, <1>7, StageAccountExact DEF account_cancel
<1>8. ASSUME NEW source, NEW target,
             apply_requested_account_status(p, target, source)
      PROVE  StagesExactly(p)
  BY <1>1, <1>8, RecomputeExact DEF apply_requested_account_status
<1>9. ASSUME handle_subscription_event(p) PROVE StagesExactly(p)
  BY <1>1, <1>9, RecomputeExact DEF handle_subscription_event, Recompute
<1>10. QED
  BY <1>2, <1>3, <1>4, <1>5, <1>6, <1>7, <1>8, <1>9 DEF AccountOperation

(* The reconciler finds an exact row exact.                                *)
LEMMA ReconcileStagesNothing ==
    ASSUME LifecycleInv, ProjectionExact, reconcile_account
    PROVE  /\ UNCHANGED <<status, account>>
           /\ \A q \in Procs : tx'[q] = tx[q]
           /\ DOMAIN tx'[Reconciler].status = {}
           /\ DOMAIN tx'[Reconciler].account = {}
<1>1. /\ Seen(Reconciler) = status /\ SeenAccount(Reconciler) = account
      /\ DOMAIN status = Subs /\ DOMAIN tx = Sessions
      /\ status = [s \in Subs |-> status[s]]
      /\ Reconciler \in Sessions /\ Procs \subseteq Sessions \ {Reconciler}
  BY LifecycleAssumption
     DEF LifecycleInv, NothingLoaded, Seen, SeenAccount, TypeOK, Sessions
<1>2. Over(NoRows, status) = status
  BY <1>1 DEF Over, NoRows
<1>3. /\ tx' = [tx EXCEPT ![Reconciler] =
                  [phase |-> "staged", rows |-> {},
                   status |-> Changed(NoRows, status),
                   locks |-> Changed(NoRows, locks),
                   account |-> Changed(account, account),
                   trigger |-> "none"]]
      /\ UNCHANGED <<status, account>>
  BY <1>1, <1>2 DEF reconcile_account, Recompute, StageAs, ProjectionExact
<1>4. DOMAIN Changed(NoRows, status) = {} /\ DOMAIN Changed(account, account) = {}
  BY DEF Changed, NoRows
<1>5. QED
  BY <1>1, <1>3, <1>4

(* A single session beside the reconciler keeps the projection exact.      *)
LEMMA SerialStep ==
    ASSUME ~Preload, \A p, q \in Procs : p = q,
           LifecycleInv, SerialInv, [Next]_vars
    PROVE  SerialInv'
<1>1. /\ Reconciler \in Sessions /\ Reconciler \notin Procs
      /\ \A p \in Procs : p \in Sessions
      /\ \A p \in Sessions : p = Reconciler \/ p \in Procs
  BY LifecycleAssumption DEF Sessions
<1>2. ASSUME NEW p \in Procs, StagesExactly(p)
      PROVE  SerialInv'
  <2>1. tx'[Reconciler] = tx[Reconciler] /\ \A q \in Procs : q = p
    BY <1>1, <1>2 DEF StagesExactly
  <2>2. ProjectionExact' /\ Projected(p)'
    BY <1>2 DEF StagesExactly, SerialInv, ProjectionExact
  <2>3. QED
    BY <2>1, <2>2 DEF SerialInv
<1>3. ASSUME reconcile_account
      PROVE  SerialInv'
  <2>1. /\ UNCHANGED <<status, account>>
        /\ \A q \in Procs : tx'[q] = tx[q]
        /\ DOMAIN tx'[Reconciler].status = {}
        /\ DOMAIN tx'[Reconciler].account = {}
    BY <1>3, ReconcileStagesNothing DEF SerialInv
  <2>2. \A q \in Procs : tx'[q].phase = "staged" => Projected(q)'
    BY <2>1 DEF SerialInv, Projected
  <2>3. QED
    BY <2>1, <2>2 DEF SerialInv, ProjectionExact
<1>4. ASSUME NEW p \in Procs, Commit(p)
      PROVE  SerialInv'
  <2>1. /\ account' = Over(tx[p].account, account)
        /\ status' = Over(tx[p].status, status)
        /\ Projected(p)
        /\ tx'[p].phase = "idle" /\ tx'[Reconciler] = tx[Reconciler]
        /\ \A q \in Procs : q = p
    BY <1>1, <1>4 DEF Commit, SerialInv, LifecycleInv, TypeOK, Idle
  <2>2. ProjectionExact'
    BY <2>1 DEF ProjectionExact, Projected
  <2>3. QED
    BY <2>1, <2>2 DEF SerialInv
<1>5. ASSUME Commit(Reconciler)
      PROVE  SerialInv'
  <2>1. /\ account = [x \in DOMAIN account |-> account[x]]
        /\ status = [x \in DOMAIN status |-> status[x]]
        /\ DOMAIN tx[Reconciler].status = {} /\ DOMAIN tx[Reconciler].account = {}
        /\ account' = Over(tx[Reconciler].account, account)
        /\ status' = Over(tx[Reconciler].status, status)
    BY <1>5 DEF Commit, SerialInv, LifecycleInv, TypeOK, Account
  <2>2. account' = account /\ status' = status
    BY <2>1 DEF Over
  <2>3. /\ tx'[Reconciler].phase = "idle"
        /\ \A q \in Procs : tx'[q] = tx[q]
    BY <1>1, <1>5 DEF Commit, LifecycleInv, TypeOK, Idle
  <2>4. QED
    BY <2>2, <2>3 DEF SerialInv, ProjectionExact, Projected
<1>6. ASSUME NEW p \in Sessions, Abort(p)
      PROVE  SerialInv'
  <2>1. /\ tx'[p].phase = "idle" /\ UNCHANGED <<status, account>>
        /\ \A q \in Sessions \ {p} : tx'[q] = tx[q]
    BY <1>6 DEF Abort, LifecycleInv, TypeOK, Idle
  <2>2. \A q \in Procs : tx'[q].phase = "staged" => Projected(q)'
    BY <1>1, <2>1 DEF SerialInv, Projected
  <2>3. tx'[Reconciler].phase = "staged" => tx'[Reconciler] = tx[Reconciler]
    BY <1>1, <2>1
  <2>4. QED
    BY <2>1, <2>2, <2>3 DEF SerialInv, ProjectionExact
<1>7. ASSUME UNCHANGED vars
      PROVE  SerialInv'
  BY <1>7 DEF vars, SerialInv, ProjectionExact, Projected
<1>8. \A p \in Procs : ~Load(p)
  BY DEF Load
<1>9. ASSUME Next
      PROVE  SerialInv'
  <2>1. \/ \E p \in Procs : \/ SubscriptionOperation(p) \/ AccountOperation(p)
                            \/ handle_subscription_event(p)
        \/ reconcile_account
        \/ \E p \in Sessions : Commit(p) \/ Abort(p)
    BY <1>8, <1>9 DEF Next
  <2>2. QED
    BY <1>1, <1>2, <1>3, <1>4, <1>5, <1>6, <2>1, OperationExact
<1>10. QED
  BY <1>7, <1>9

(* Sessions that open one at a time never leave the account row out of     *)
(* step with its subscriptions and its override, whatever the operations,  *)
(* the commits and the aborts, with the reconciler running beside them.    *)
THEOREM SerialProjection ==
    ASSUME ~Preload, \A p, q \in Procs : p = q
    PROVE  Spec => []ProjectionExact
<1>1. Init => SerialInv
  <2>1. SUFFICES ASSUME Init PROVE SerialInv
    OBVIOUS
  <2>2. \A p \in Sessions : tx[p].phase = "idle"
    BY <2>1 DEF Init, Idle
  <2>3. ProjectionExact
    BY <2>1 DEF Init, ProjectionExact, compute_account_status
  <2>4. QED
    BY <2>2, <2>3 DEF SerialInv, Sessions
<1>2. LifecycleInv /\ SerialInv /\ [Next]_vars => SerialInv'
  BY SerialStep
<1>3. SerialInv => ProjectionExact
  BY DEF SerialInv
<1>4. QED
  BY <1>1, <1>2, <1>3, LifecycleInvariant, PTL DEF Spec
=============================================================================
