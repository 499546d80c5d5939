--------------------------- MODULE TopupSettlement ---------------------------
(***************************************************************************)
(* How money that a payment gateway confirmed becomes a Payment, exactly   *)
(* once, and how the checkout intent it was made for is completed.  Three  *)
(* paths lead there and race: the provider's webhook                       *)
(* (payment_webhook_commands.py), the customer who returns to the portal   *)
(* (customer_portal_flow_payments.py) and the periodic reconciliation of   *)
(* stranded intents (payment_reconciliation.py).  All of them end in       *)
(* Payments.stage_verified_provider_settlement and in                      *)
(* stage_topup_intent_completion.                                          *)
(*                                                                         *)
(* An intent is named by its reference, and so are the gateway transaction *)
(* and the Payment made for it.  The intents share one customer account    *)
(* and one provider row.  A transaction reads the intent before it waits   *)
(* for locks, and lock_for_update returns that object again, so a          *)
(* session carries what it has seen.  Receipts are kept to what            *)
(* IntegrationInbox says of a joint consumer.  The account and the         *)
(* provider may be deactivated at any time; a settlement that meets one of *)
(* them inactive is refused.                                               *)
(***************************************************************************)
EXTENDS Naturals, FiniteSets

CONSTANTS
    Intent,        \* checkout intents; their order is that of created_at
    MayDeposit,    \* those that may be deposits, not invoice checkouts
    MayPay,        \* those whose customer may complete the checkout
    MayDecline,    \* those whose first attempt may be declined by webhook
    Hook,          \* web processes that serve webhooks
    Portal,        \* web processes that serve returning customers
    Sweep,         \* the scheduled reconciliation task
    NoIntent,
    BatchSize,     \* topup_reconciliation_batch_size
    MaxAttempts,   \* receipts: attempts before dead_letter (10 in the code)
    MaxFaults      \* bound on deaths, database errors, outages, deactivations

ASSUME SettlementAssumption ==
    /\ Intent \subseteq Nat /\ MayDeposit \subseteq Intent
    /\ MayPay \subseteq Intent /\ MayDecline \subseteq Intent
    /\ NoIntent \notin Intent
    /\ Hook \cap Portal = {} /\ Sweep \notin Hook \cup Portal
    /\ BatchSize \in Nat \ {0}
    /\ MaxAttempts \in Nat \ {0} /\ MaxFaults \in Nat

VARIABLES
    gateway,      \* what the provider knows: open, declined, paid
    wire,         \* webhooks the provider still (re)delivers
    receipt,      \* IntegrationInbox rows, one identity per reference
    quarantined,  \* the provider's capability binding
    closed,       \* which of the account and the provider row are inactive
    intent,       \* TopupIntent: purpose, status, completed_payment_id set or not
    cash,         \* number of active Payments of the transaction
    event,        \* PaymentProviderEvent: none, failed, processed
    alloc,        \* number of PaymentAllocations to the intended invoice
    exc,          \* PaymentAllocationReconciliationException
    sess,         \* what each process is doing
    faults

vars == <<gateway, wire, receipt, quarantined, closed, intent, cash, event, alloc, exc,
          sess, faults>>
money == <<intent, cash, event, alloc, exc>>

IsDeposit(i) == intent[i].purpose = "account_credit_deposit"
Session == Hook \cup Portal \cup {Sweep}
Purpose == {"account_credit_deposit", "invoice_payment"}
Row == [purpose : Purpose, status : {"pending", "expired", "completed"},
        linked : BOOLEAN]
NewRow(purpose) == [purpose |-> purpose, status |-> "pending", linked |-> FALSE]
NoReceipt == [kind |-> "none", state |-> "none", attempts |-> 0]
Idle == [phase |-> "idle", i |-> NoIntent, seen |-> NewRow("invoice_payment"), found |-> "none",
         todo |-> {}]

Init ==
    /\ gateway = [i \in Intent |-> "open"]
    /\ wire = {}
    /\ receipt = [i \in Intent |-> NoReceipt]
    /\ quarantined = FALSE
    /\ closed = {}
    /\ \E deposits \in SUBSET MayDeposit :
           intent = [i \in Intent |-> NewRow(
               IF i \in deposits THEN "account_credit_deposit" ELSE "invoice_payment")]
    /\ cash = [i \in Intent |-> 0]
    /\ event = [i \in Intent |-> "none"]
    /\ alloc = [i \in Intent |-> 0]
    /\ exc = [i \in Intent |-> "none"]
    /\ sess = [p \in Session |-> Idle]
    /\ faults = 0

-----------------------------------------------------------------------------
(* The gateway (external).  A declined attempt and a later successful one  *)
(* carry the same reference; webhooks are repeated and get lost.           *)

Decline(i) ==
    /\ i \in MayDecline /\ gateway[i] = "open"
    /\ gateway' = [gateway EXCEPT ![i] = "declined"]
    /\ wire' = wire \cup {<<i, "failed">>}
    /\ UNCHANGED <<receipt, quarantined, closed, money, sess, faults>>

Pay(i) ==
    /\ i \in MayPay /\ gateway[i] # "paid"
    /\ gateway' = [gateway EXCEPT ![i] = "paid"]
    /\ wire' = wire \cup {<<i, "success">>}
    /\ UNCHANGED <<receipt, quarantined, closed, money, sess, faults>>

Lose(m) ==
    /\ m \in wire
    /\ wire' = wire \ {m}
    /\ UNCHANGED <<gateway, receipt, quarantined, closed, money, sess, faults>>

-----------------------------------------------------------------------------
(* Locks: the account row and the provider row.  A session that holds one  *)
(* may wait for the other; every other use of a lock is within one step.   *)

AccountFree(p) == \A q \in Session \ {p} : sess[q].phase # "has_account"
ProviderFree(p) == \A q \in Session \ {p} : sess[q].phase # "has_provider"

At(p, phase) == sess[p].phase = phase
Goto(p, phase) == sess' = [sess EXCEPT ![p].phase = phase]

\* A process is done: a sweep turns to its next candidate.
Done(p) ==
    sess' = [sess EXCEPT ![p] =
        IF p = Sweep /\ sess[p].todo # {}
        THEN [Idle EXCEPT !.phase = "sweep", !.todo = sess[p].todo]
        ELSE Idle]

\* A transaction is rolled back: rejected by the code, or failing by an error
\* of the database.  A web process then records the failure of its receipt.
RolledBack(p, why) == IF p \in Hook THEN Goto(p, why) ELSE Done(p)

-----------------------------------------------------------------------------
(* The common consequences.                                                *)

\* _account: a deposit needs an account that is neither disabled nor canceled.
AccountRefuses(i) == IsDeposit(i) /\ "account" \in closed

\* Mutant: the second replay() under the account lock is missing.
CashPostedUnchecked(p, i) ==
    IF sess[p].found = "none" THEN cash[i] + 1 ELSE cash[i]

\* stage_verified_provider_settlement under the account lock: an active
\* Payment of the same provider transaction is a replay.
CashPosted(p, i) == IF cash[i] = 0 THEN 1 ELSE cash[i]

\* stage_topup_intent_completion.  Columns that already had their new value
\* in the object that was read are not written.
Completed(i, seen) ==
    [intent[i] EXCEPT !.linked = TRUE,
                      !.status = IF seen.status = "completed" THEN @ ELSE "completed"]

Resolved(i) == IF exc[i] = "open" THEN "resolved" ELSE exc[i]

\* Mutant: the locked preview does not look for allocation evidence.
AllocatedRegardless(i, checked) ==
    /\ alloc' = [alloc EXCEPT ![i] = @ + 1]
    /\ exc' = [exc EXCEPT ![i] = Resolved(i)]

\* The allocation to the intended invoice: the preview and its repetition
\* under the account lock.  `checked` says that the search for an existing
\* allocation was made under that lock too; if it was not, the repeated
\* preview refuses what another session allocated meanwhile.  An invoice may
\* have nothing due, or refuse the money: the cash stays account credit.
Allocated(i, checked) ==
    \/ /\ alloc[i] > 0
       /\ exc' = [exc EXCEPT ![i] = Resolved(i)]
       /\ UNCHANGED alloc
    \/ /\ alloc[i] > 0 /\ ~checked
       /\ exc' = [exc EXCEPT ![i] = "open"]
       /\ UNCHANGED alloc
    \/ /\ alloc[i] = 0
       /\ alloc' = [alloc EXCEPT ![i] = 1]
       /\ exc' = [exc EXCEPT ![i] = Resolved(i)]
    \/ /\ alloc[i] = 0
       /\ exc' \in {[exc EXCEPT ![i] = Resolved(i)], [exc EXCEPT ![i] = "open"]}
       /\ UNCHANGED alloc

PaymentFound(i) ==
    IF cash[i] = 0 THEN "none" ELSE IF alloc[i] = 0 THEN "bare" ELSE "allocated"

\* _validate_payment_provider: money is not posted to an inactive provider.
PostingRefused(p, i) ==
    "provider" \in closed /\ ~sess[p].seen.linked /\ cash[i] = 0

\* AccountCreditDeposits.stage_verified_settlement: an intent seen completed
\* is a replay, otherwise the Payment is found or posted.
SettleDeposit(p, i) ==
    /\ ~AccountRefuses(i) /\ ~PostingRefused(p, i)
    /\ cash' = [cash EXCEPT ![i] =
           IF sess[p].seen.linked THEN @ ELSE CashPosted(p, i)]
    /\ UNCHANGED <<alloc, exc>>

\* _stage_financial_consequences of an invoice checkout.  `found` is the
\* Payment it looked up; one that has allocations is left as it is.
SettleInvoice(p, i, found, checked) ==
    IF event[i] = "processed" \/ found = "allocated"
    THEN UNCHANGED <<cash, alloc, exc>>
    ELSE /\ cash' = [cash EXCEPT ![i] = CashPosted(p, i)]
         /\ Allocated(i, checked)

\* Mutant: the intent is not projected.
SettleWithoutIntent(p, i, found, checked) ==
    /\ event[i] # "failed" /\ "provider" \notin closed
    /\ IF IsDeposit(i) THEN SettleDeposit(p, i)
                        ELSE SettleInvoice(p, i, found, checked)
    /\ event' = [event EXCEPT ![i] = "processed"]
    /\ UNCHANGED intent

\* The whole consequence of a confirmed transaction: cash, provider event,
\* allocation and the projection on the intent.
Settle(p, i, found, checked) ==
    /\ event[i] # "failed" /\ "provider" \notin closed
    /\ IF IsDeposit(i) THEN SettleDeposit(p, i)
                        ELSE SettleInvoice(p, i, found, checked)
    /\ event' = [event EXCEPT ![i] = "processed"]
    /\ intent' = [intent EXCEPT ![i] = Completed(i, sess[p].seen)]

-----------------------------------------------------------------------------
(* The webhook.                                                            *)

\* receive_and_claim_verified: the first payload owns the identity, another
\* one for the same reference quarantines the binding; a receipt is processed
\* by whoever claimed it.
ReceiveWebhook(p, i, kind) ==
    /\ p \in Hook /\ At(p, "idle")
    /\ <<i, kind>> \in wire /\ ~quarantined
    /\ \/ /\ receipt[i].state = "none" \/ receipt[i].kind = kind
          /\ receipt[i].state \in {"none", "retryable"}
          /\ receipt' = [receipt EXCEPT ![i] =
                 [kind |-> kind, state |-> "processing", attempts |-> @.attempts + 1]]
          /\ sess' = [sess EXCEPT ![p] = [Idle EXCEPT !.phase = "claimed", !.i = i]]
          /\ UNCHANGED quarantined
       \/ /\ receipt[i].state # "none" /\ receipt[i].kind # kind
          /\ quarantined' = TRUE
          /\ UNCHANGED <<receipt, sess>>
    /\ UNCHANGED <<gateway, wire, closed, money, faults>>

\* _process_claimed_payment_webhook up to its first lock: the intent is read
\* by _resolve_topup_intent.  A deposit locks the account first, everything
\* else the provider.
PrepareWebhook(p) ==
    LET i == sess[p].i IN
    /\ p \in Hook /\ At(p, "claimed")
    /\ sess' = [sess EXCEPT ![p].seen = intent[i], ![p].phase =
           IF IsDeposit(i) /\ receipt[i].kind = "success"
           THEN "want_account" ELSE "want_provider"]
    /\ UNCHANGED <<gateway, wire, receipt, quarantined, closed, money, faults>>

Processed(i) == receipt' = [receipt EXCEPT ![i].state = "processed"]

\* A declined attempt is only recorded; a different observation under the
\* same identity is a replay_conflict, an inactive provider is not found.
RecordDecline(p) ==
    LET i == sess[p].i IN
    /\ p \in Hook /\ At(p, "want_provider") /\ ProviderFree(p)
    /\ receipt[i].kind = "failed"
    /\ \/ /\ event[i] # "processed" /\ "provider" \notin closed
          /\ event' = [event EXCEPT ![i] = "failed"]
          /\ Processed(i)
          /\ Done(p)
       \/ /\ event[i] = "processed" \/ "provider" \in closed
          /\ RolledBack(p, "rejected")
          /\ UNCHANGED <<event, receipt>>
    /\ UNCHANGED <<gateway, wire, quarantined, closed, intent, cash, alloc, exc, faults>>

\* Mutant: the observed status of the event is not looked at.
AdmitAnyEvent(p) ==
    /\ p \in Hook /\ At(p, "want_provider") /\ ProviderFree(p)
    /\ sess' = [sess EXCEPT ![p].phase = "has_provider",
                            ![p].found = PaymentFound(sess[p].i)]
    /\ UNCHANGED <<gateway, wire, receipt, quarantined, closed, money, faults>>

\* An invoice checkout: the provider row, which must be active, _admit_event
\* and the search for the Payment.
AdmitEvent(p) ==
    LET i == sess[p].i IN
    /\ p \in Hook /\ At(p, "want_provider") /\ ProviderFree(p)
    /\ receipt[i].kind = "success"
    /\ IF event[i] = "failed" \/ "provider" \in closed
       THEN RolledBack(p, "rejected")
       ELSE sess' = [sess EXCEPT ![p].phase = "has_provider",
                                 ![p].found = PaymentFound(i)]
    /\ UNCHANGED <<gateway, wire, receipt, quarantined, closed, money, faults>>

\* The account row is free: the rest of the transaction runs and commits.
SettleWebhook(p) ==
    LET i == sess[p].i IN
    /\ p \in Hook /\ At(p, "has_provider") /\ AccountFree(p)
    /\ Settle(p, i, sess[p].found, FALSE)
    /\ Processed(i)
    /\ Done(p)
    /\ UNCHANGED <<gateway, wire, quarantined, closed, faults>>

\* Mutant: a failed attempt is always retried.
FailureStateRetry(p) == "retryable"

\* fail_claimed_consequence: an event the provider-event owner rejects has
\* max_attempts = 1, other errors MaxAttempts.
FailureState(p) ==
    IF At(p, "failing") /\ receipt[sess[p].i].attempts < MaxAttempts
    THEN "retryable" ELSE "dead_letter"

RecordFailure(p) ==
    /\ p \in Hook /\ sess[p].phase \in {"rejected", "failing"}
    /\ receipt' = [receipt EXCEPT ![sess[p].i].state = FailureState(p)]
    /\ Done(p)
    /\ UNCHANGED <<gateway, wire, quarantined, closed, money, faults>>

-----------------------------------------------------------------------------
(* Account first, provider second: webhooks of deposits, and the sweep.    *)

\* lock_account and lock_topup_intent_scope.  A sweep that sees the intent
\* linked has nothing to do.
LockAccount(p) ==
    /\ p \in Hook \cup {Sweep} /\ At(p, "want_account") /\ AccountFree(p)
    /\ IF p = Sweep /\ sess[p].seen.linked THEN Done(p) ELSE Goto(p, "has_account")
    /\ UNCHANGED <<gateway, wire, receipt, quarantined, closed, money, faults>>

\* The provider row is free: admission of the event, the consequences, commit;
\* or a refusal and rollback.  A refused posting is no DomainError.
SettleInScope(p) ==
    LET i == sess[p].i IN
    /\ At(p, "has_account") /\ ProviderFree(p)
    /\ \/ /\ Settle(p, i, PaymentFound(i), TRUE)
          /\ IF p \in Hook THEN Processed(i) ELSE UNCHANGED receipt
          /\ Done(p)
       \/ /\ event[i] = "failed" \/ AccountRefuses(i) \/ "provider" \in closed
          /\ RolledBack(p, IF ~AccountRefuses(i) /\ PostingRefused(p, i)
                           THEN "failing" ELSE "rejected")
          /\ UNCHANGED <<receipt, money>>
    /\ UNCHANGED <<gateway, wire, quarantined, closed, faults>>

-----------------------------------------------------------------------------
(* The customer returns to the portal after the gateway confirmed.         *)

\* verify_and_record_topup, verify_and_record_payment: the deposit starts its
\* owner command, the invoice payment looks for the Payment (first replay()).
VerifyReturn(p, i) ==
    /\ p \in Portal /\ At(p, "idle")
    /\ gateway[i] = "paid"
    /\ sess' = [sess EXCEPT ![p] =
           [Idle EXCEPT !.i = i, !.seen = intent[i], !.found = PaymentFound(i),
                        !.phase = IF IsDeposit(i) THEN "deposit" ELSE "cash"]]
    /\ UNCHANGED <<gateway, wire, receipt, quarantined, closed, money, faults>>

\* AccountCreditDeposits.settle_verified: one transaction, no provider event.
PortalDeposit(p) ==
    LET i == sess[p].i IN
    /\ p \in Portal /\ At(p, "deposit") /\ AccountFree(p)
    /\ \/ /\ SettleDeposit(p, i)
          /\ intent' = [intent EXCEPT ![i] = Completed(i, sess[p].seen)]
       \/ /\ AccountRefuses(i) \/ PostingRefused(p, i)
          /\ UNCHANGED <<intent, cash, alloc, exc>>
    /\ Done(p)
    /\ UNCHANGED <<gateway, wire, receipt, quarantined, closed, event, faults>>

\* record_verified_provider_settlement commits the cash on its own; a Payment
\* found before the lock ends it there, an inactive provider the request.
PortalCash(p) ==
    LET i == sess[p].i IN
    /\ p \in Portal /\ At(p, "cash")
    /\ \/ /\ "provider" \notin closed
          /\ \/ sess[p].found # "none" /\ UNCHANGED cash
             \/ /\ sess[p].found = "none" /\ AccountFree(p)
                /\ cash' = [cash EXCEPT ![i] = CashPosted(p, i)]
          /\ Goto(p, "allocate")
       \/ /\ "provider" \in closed
          /\ Done(p)
          /\ UNCHANGED cash
    /\ UNCHANGED <<gateway, wire, receipt, quarantined, closed, intent, event, alloc, exc,
                   faults>>

\* The search for an allocation, without a lock.
PortalSearch(p) ==
    LET i == sess[p].i IN
    /\ p \in Portal /\ At(p, "allocate")
    /\ IF alloc[i] > 0
       THEN /\ exc' = [exc EXCEPT ![i] = Resolved(i)]
            /\ Goto(p, "project")
       ELSE /\ Goto(p, "confirm")
            /\ UNCHANGED exc
    /\ UNCHANGED <<gateway, wire, receipt, quarantined, closed, intent, cash, event, alloc,
                   faults>>

\* PaymentAllocations.confirm, or the exception recorded after its failure.
PortalAllocate(p) ==
    /\ p \in Portal /\ At(p, "confirm") /\ AccountFree(p)
    /\ Allocated(sess[p].i, FALSE)
    /\ Goto(p, "project")
    /\ UNCHANGED <<gateway, wire, receipt, quarantined, closed, intent, cash, event, faults>>

\* complete_invoice_payment_intent reads the intent, waits for the account and
\* completes it.
PortalRead(p) ==
    /\ p \in Portal /\ At(p, "project")
    /\ sess' = [sess EXCEPT ![p].seen = intent[sess[p].i], ![p].phase = "complete"]
    /\ UNCHANGED <<gateway, wire, receipt, quarantined, closed, money, faults>>

PortalComplete(p) ==
    LET i == sess[p].i IN
    /\ p \in Portal /\ At(p, "complete") /\ AccountFree(p)
    /\ intent' = [intent EXCEPT ![i] = Completed(i, sess[p].seen)]
    /\ Done(p)
    /\ UNCHANGED <<gateway, wire, receipt, quarantined, closed, cash, event, alloc, exc,
                   faults>>

-----------------------------------------------------------------------------
(* reconcile_pending_topups.                                               *)

Stranded == {i \in Intent : intent[i].status = "pending" /\ ~intent[i].linked}

\* An intent finds a place in the batch of the oldest stranded ones.
InBatch(i) == Cardinality({j \in Stranded : j < i}) < BatchSize

\* Mutant: intents for which a webhook arrived are left to the webhook.
CandidatesWithoutReceipt ==
    {i \in Stranded : InBatch(i) /\ receipt[i].state = "none"}

Candidates == {i \in Stranded : InBatch(i)}

SweepStart ==
    /\ At(Sweep, "idle") /\ Candidates # {}
    /\ sess' = [sess EXCEPT ![Sweep] =
           [Idle EXCEPT !.phase = "sweep", !.todo = Candidates]]
    /\ UNCHANGED <<gateway, wire, receipt, quarantined, closed, money, faults>>

IsNext(i) == i \in sess[Sweep].todo /\ \A j \in sess[Sweep].todo : i <= j

\* observe_verification: what the gateway says now decides which of the two
\* commands follows; a transaction that is not successful can only expire.
SweepObserve(i) ==
    /\ At(Sweep, "sweep") /\ IsNext(i)
    /\ sess' = [sess EXCEPT ![Sweep] =
           [Idle EXCEPT !.i = i, !.todo = sess[Sweep].todo \ {i},
                        !.phase = IF gateway[i] = "paid" THEN "settle" ELSE "unsuccessful"]]
    /\ UNCHANGED <<gateway, wire, receipt, quarantined, closed, money, faults>>

\* An outage of the gateway: the candidate is skipped.
SweepUnavailable(i) ==
    /\ At(Sweep, "sweep") /\ IsNext(i) /\ faults < MaxFaults
    /\ sess' = [sess EXCEPT ![Sweep] =
           IF sess[Sweep].todo = {i} THEN Idle
           ELSE [sess[Sweep] EXCEPT !.todo = @ \ {i}]]
    /\ faults' = faults + 1
    /\ UNCHANGED <<gateway, wire, receipt, quarantined, closed, money>>

\* lock_topup_intent_scope reads the intent before it waits for the account.
SweepRead ==
    /\ sess[Sweep].phase \in {"settle", "unsuccessful"}
    /\ sess' = [sess EXCEPT
           ![Sweep].seen = intent[sess[Sweep].i],
           ![Sweep].phase = IF @ = "settle" THEN "want_account" ELSE "expire"]
    /\ UNCHANGED <<gateway, wire, receipt, quarantined, closed, money, faults>>

\* _stage_unsuccessful_observation: an intent seen pending and unlinked is
\* expired once its time and the grace are over.
SweepExpire ==
    LET i == sess[Sweep].i
        seen == sess[Sweep].seen
    IN
    /\ At(Sweep, "expire") /\ AccountFree(Sweep)
    /\ \/ /\ seen.status = "pending" /\ ~seen.linked
          /\ intent' = [intent EXCEPT ![i].status = "expired"]
       \/ UNCHANGED intent
    /\ Done(Sweep)
    /\ UNCHANGED <<gateway, wire, receipt, quarantined, closed, cash, event, alloc, exc,
                   faults>>

-----------------------------------------------------------------------------
(* Faults, and what the back office does.                                  *)

\* The account is disabled or canceled, or the provider switched off; their
\* rows are locked by a session that works with them.
Deactivate(row) ==
    /\ row \notin closed /\ faults < MaxFaults
    /\ \A q \in Session :
           ~At(q, IF row = "account" THEN "has_account" ELSE "has_provider")
    /\ closed' = closed \cup {row}
    /\ faults' = faults + 1
    /\ UNCHANGED <<gateway, wire, receipt, quarantined, money, sess>>

Reactivate(row) ==
    /\ row \in closed
    /\ closed' = closed \ {row}
    /\ UNCHANGED <<gateway, wire, receipt, quarantined, money, sess, faults>>

\* An error of the database in an open transaction.
Fail(p) ==
    /\ sess[p].phase \in {"want_account", "want_provider", "has_account",
                          "has_provider", "deposit", "cash", "complete"}
    /\ faults < MaxFaults
    /\ RolledBack(p, "failing")
    /\ faults' = faults + 1
    /\ UNCHANGED <<gateway, wire, receipt, quarantined, closed, money>>

\* The process dies.  Its receipt stays in processing.
Crash(p) ==
    /\ ~At(p, "idle") /\ faults < MaxFaults
    /\ sess' = [sess EXCEPT ![p] = Idle]
    /\ faults' = faults + 1
    /\ UNCHANGED <<gateway, wire, receipt, quarantined, closed, money>>

\* PostgreSQL ends a deadlock between the two lock orders.
DeadlockVictim(p) ==
    /\ \E q, r \in Session : At(q, "has_account") /\ At(r, "has_provider")
    /\ sess[p].phase \in {"has_account", "has_provider"}
    /\ RolledBack(p, "failing")
    /\ UNCHANGED <<gateway, wire, receipt, quarantined, closed, money, faults>>

-----------------------------------------------------------------------------
External ==
    \/ \E i \in Intent : Decline(i) \/ Pay(i)
    \/ \E m \in wire : Lose(m)
    \/ \E row \in {"account", "provider"} : Deactivate(row) \/ Reactivate(row)

HookStep(p) ==
    \/ PrepareWebhook(p) \/ RecordDecline(p) \/ AdmitEvent(p) \/ SettleWebhook(p)
    \/ RecordFailure(p)

PortalStep(p) ==
    \/ PortalDeposit(p) \/ PortalCash(p) \/ PortalSearch(p) \/ PortalAllocate(p)
    \/ PortalRead(p) \/ PortalComplete(p)

SweepStep == SweepStart \/ SweepRead \/ SweepExpire \/ \E i \in Intent : SweepObserve(i)

ScopeStep(p) == LockAccount(p) \/ SettleInScope(p) \/ DeadlockVictim(p)

Next ==
    \/ External
    \/ \E p \in Hook, i \in Intent, kind \in {"success", "failed"} :
           ReceiveWebhook(p, i, kind)
    \/ \E p \in Portal, i \in Intent : VerifyReturn(p, i)
    \/ SweepStep \/ \E i \in Intent : SweepUnavailable(i)
    \/ \E p \in Session : HookStep(p) \/ PortalStep(p) \/ ScopeStep(p)
                          \/ Fail(p) \/ Crash(p)

Spec == Init /\ [][Next]_vars

\* Processes run on, PostgreSQL ends deadlocks, and the sweep is scheduled for
\* ever.  Nothing is assumed of webhooks or of customers.
Fairness ==
    /\ WF_vars(SweepStep \/ ScopeStep(Sweep))
    /\ \A p \in Hook \cup Portal :
           WF_vars(HookStep(p) \/ PortalStep(p) \/ ScopeStep(p))

FairSpec == Spec /\ Fairness
-----------------------------------------------------------------------------
(* Properties.                                                             *)

Phase == {"idle", "claimed", "want_provider", "want_account", "has_provider",
          "has_account", "rejected", "failing", "deposit", "cash", "allocate",
          "confirm", "project", "complete", "sweep", "settle", "unsuccessful",
          "expire"}

TypeOK ==
    /\ gateway \in [Intent -> {"open", "declined", "paid"}]
    /\ wire \subseteq Intent \X {"success", "failed"}
    /\ receipt \in [Intent ->
           [kind : {"none", "success", "failed"},
            state : {"none", "processing", "processed", "retryable", "dead_letter"},
            attempts : 0..MaxAttempts]]
    /\ quarantined \in BOOLEAN /\ closed \subseteq {"account", "provider"}
    /\ intent \in [Intent -> Row]
    /\ cash \in [Intent -> Nat] /\ alloc \in [Intent -> Nat]
    /\ event \in [Intent -> {"none", "failed", "processed"}]
    /\ exc \in [Intent -> {"none", "open", "resolved"}]
    /\ sess \in [Session ->
           [phase : Phase, i : Intent \cup {NoIntent}, seen : Row,
            found : {"none", "bare", "allocated"}, todo : SUBSET Intent]]
    /\ faults \in 0..MaxFaults

\* However the three paths race, die and repeat, one gateway transaction is
\* posted as one Payment.  The partial unique index on payments is not part of
\* the model: the account lock and the second replay() alone keep the credit
\* single, the index is never reached.
CashPostedOnce == \A i \in Intent : cash[i] <= 1

\* One Payment is allocated at most once to the invoice it was made for,
\* although portal and webhook look for an allocation without a lock.
AllocatedOnce == \A i \in Intent : alloc[i] <= cash[i]

\* Whatever an intent, a provider event or an allocation claims is backed by a
\* Payment, and a Payment by a charge the gateway confirmed, declined attempts
\* under the same reference notwithstanding.
MoneyIsConfirmed ==
    \A i \in Intent :
        /\ intent[i].linked \/ event[i] = "processed" => cash[i] > 0
        /\ cash[i] > 0 => gateway[i] = "paid"

\* A webhook that was answered as processed has left its whole consequence:
\* "Commit one complete billing consequence for a claimed verified receipt."
JointSettlement ==
    \A i \in Intent :
        receipt[i].state = "processed" /\ receipt[i].kind = "success" =>
            cash[i] = 1 /\ event[i] = "processed" /\ intent[i].linked

\* Nothing refuses the money of an intent, and the sweep has room for it.
Accepting(i) ==
    ~AccountRefuses(i) /\ "provider" \notin closed /\ InBatch(i)

\* A charge the gateway confirmed ends on its intent, even if every webhook is
\* lost, its process dies after the claim and the customer never returns: the
\* sweep alone is enough, provided that from some time on the provider is
\* active, the account of a deposit is not disabled or canceled, and fewer
\* than BatchSize older intents are stranded (one that is refused for ever
\* keeps its place).  It is not enough when the sweep itself expired the
\* intent on an earlier observation, or when a declined attempt was recorded.
PaidIsSettled ==
    \A i \in MayPay :
        <>[]Accepting(i) =>
            (gateway[i] = "paid" ~>
                intent[i].linked \/ intent[i].status = "expired" \/ event[i] = "failed")

\* "refusing to complete it would drop real money": the same without the
\* declined attempt.  The code does not keep it, see README.
DeclineIsNotFinal ==
    \A i \in MayPay :
        <>[]Accepting(i) =>
            (gateway[i] = "paid" ~> intent[i].linked \/ intent[i].status = "expired")

\* "Completed top-up intent cannot be expired."  The code does not keep it, see
\* README.
CompletedNotExpired ==
    [][\A i \in Intent : intent[i].linked /\ intent[i].status = "completed"
                         => intent'[i].status = "completed"]_vars
=============================================================================
