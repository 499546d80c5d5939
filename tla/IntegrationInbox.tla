-------------------------- MODULE IntegrationInbox --------------------------
(***************************************************************************)
(* The verified inbound receipt (app/services/integrations/inbox.py) and   *)
(* the two ways its consumers use it.  A joint consumer (payments) locks   *)
(* the receipt and commits the consequence together with `processed'; a    *)
(* split consumer (ERP material status, WhatsApp, Integrator observations) *)
(* commits the consequence first and completes the receipt in a second     *)
(* transaction.                                                            *)
(*                                                                         *)
(* Isolation is READ COMMITTED.  The capability binding is locked from the *)
(* read of the receipt to the commit of its claim (phase admit), the       *)
(* receipt row only while a joint consequence runs (phase working); an     *)
(* operator's replay reads in one step and writes blindly in another.      *)
(***************************************************************************)
EXTENDS Naturals, FiniteSets

CONSTANTS
    Event,        \* provider event identities of one capability binding
    NoEvent,
    Payload,      \* payload digests
    NoPayload,
    Joint,        \* events whose consumer commits with the receipt
    Web,          \* sessions of webhook requests
    Operator,     \* sessions of the administration API
    MaxAttempts,  \* max_attempts of mark_failed for a transient error
    MaxReplays,   \* bound on authorized replays
    MaxCrashes    \* bound on process deaths

Session == Web \cup Operator

ASSUME InboxAssumption ==
    /\ NoEvent \notin Event
    /\ NoPayload \notin Payload
    /\ Joint \subseteq Event
    /\ Web \cap Operator = {}
    /\ MaxAttempts \in Nat \ {0}
    /\ MaxReplays \in Nat
    /\ MaxCrashes \in Nat

Incomplete == {"verified", "processing", "retryable"}
Replayable == {"retryable", "rejected", "dead_letter"}

VARIABLES
    state,    \* IntegrationInbox.state; rejected: retryable with the error
              \* code crm_customer_name_rejected; absent: no row
    digest,   \* payload_digest
    tries,    \* attempt_count
    enabled,  \* the binding and its installation are enabled
    effects,  \* consequences committed by the domain owner
    acked,    \* events some delivery of which was answered with success
    phase, at, body, seen,  \* a session: where it is, its event, the payload
                            \* it carries and the state it read
    replays, crashes

rowVars == <<state, digest, tries, enabled>>
sessVars == <<phase, at, body, seen>>
vars == <<rowVars, effects, acked, sessVars, replays, crashes>>

Init ==
    /\ state = [e \in Event |-> "absent"]
    /\ digest = [e \in Event |-> NoPayload]
    /\ tries = [e \in Event |-> 0]
    /\ enabled = TRUE
    /\ effects = [e \in Event |-> 0]
    /\ acked = {}
    /\ phase = [s \in Session |-> "idle"]
    /\ at = [s \in Session |-> NoEvent]
    /\ body = [s \in Session |-> NoPayload]
    /\ seen = [s \in Session |-> "absent"]
    /\ replays = 0
    /\ crashes = 0

-----------------------------------------------------------------------------
(* Sessions and locks.                                                     *)

Enter(s, p, e, b, st) ==
    /\ phase' = [phase EXCEPT ![s] = p]
    /\ at' = [at EXCEPT ![s] = e]
    /\ body' = [body EXCEPT ![s] = b]
    /\ seen' = [seen EXCEPT ![s] = st]

Goto(s, p) == Enter(s, p, at[s], body[s], "absent")

Leave(s) == Enter(s, "idle", NoEvent, NoPayload, "absent")

BindingLocked == \E s \in Session : phase[s] = "admit"

ReceiptLocked(e) == \E s \in Session : phase[s] = "working" /\ at[s] = e

SetState(e, st) == state' = [state EXCEPT ![e] = st]

(* The request is answered with success: the provider need not repeat it.  *)
Answer(e) == acked' = acked \cup {e}

-----------------------------------------------------------------------------
(* receive_and_claim_verified.                                             *)

(* The signature is verified against the enabled binding in a transaction  *)
(* of its own, which is released.                                          *)
Verify(s, e, p) ==
    /\ phase[s] = "idle"
    /\ enabled
    /\ Enter(s, "request", e, p, "absent")
    /\ UNCHANGED <<rowVars, effects, acked, replays, crashes>>

(* Mutant: the binding row is read without FOR UPDATE.                     *)
AdmitUnlocked(s) ==
    /\ phase[s] = "request"
    /\ Enter(s, "admit", at[s], body[s], state[at[s]])
    /\ UNCHANGED <<rowVars, effects, acked, replays, crashes>>

(* receive_verified: lock the binding, then look the identity up.          *)
Admit(s) ==
    /\ phase[s] = "request"
    /\ ~BindingLocked
    /\ Enter(s, "admit", at[s], body[s], state[at[s]])
    /\ UNCHANGED <<rowVars, effects, acked, replays, crashes>>

(* The identity was used for another payload: quarantine, commit, reject.  *)
AdmitCollision(s) ==
    /\ phase[s] = "admit"
    /\ seen[s] # "absent" /\ digest[at[s]] # body[s]
    /\ enabled' = FALSE
    /\ Leave(s)
    /\ UNCHANGED <<state, digest, tries, effects, acked, replays, crashes>>

(* claim_for_processing lets the receipt be claimed.                       *)
MayClaim(s) == seen[s] \in {"absent", "verified", "retryable"}

AdmitClaim(s) ==
    LET e == at[s] IN
    /\ phase[s] = "admit"
    /\ seen[s] = "absent" \/ digest[e] = body[s]
    /\ MayClaim(s)
    /\ ~ReceiptLocked(e)
    /\ SetState(e, "processing")
    /\ digest' = [digest EXCEPT ![e] = body[s]]
    /\ tries' = [tries EXCEPT ![e] = @ + 1]
    /\ Goto(s, "claimed")
    /\ UNCHANGED <<enabled, effects, acked, replays, crashes>>

(* A receipt that is processing, processed or rejected by name: answered   *)
(* with the stored consequence, whatever it is.  A split consumer may      *)
(* stumble over one that is not stored yet (the KeyError of the ERP        *)
(* material webhook) and answer 500.                                       *)
AdmitDuplicate(s) ==
    /\ phase[s] = "admit"
    /\ seen[s] # "absent" /\ digest[at[s]] = body[s]
    /\ seen[s] \in {"processing", "processed", "rejected"}
    /\ \/ Answer(at[s])
       \/ at[s] \notin Joint /\ seen[s] # "processed" /\ UNCHANGED acked
    /\ Leave(s)
    /\ UNCHANGED <<rowVars, effects, replays, crashes>>

(* A dead-letter receipt requires authorized replay: answered with 500.    *)
AdmitDead(s) ==
    /\ phase[s] = "admit"
    /\ seen[s] = "dead_letter" /\ digest[at[s]] = body[s]
    /\ Leave(s)
    /\ UNCHANGED <<rowVars, effects, acked, replays, crashes>>

-----------------------------------------------------------------------------
(* Joint consumer: _process_claimed_payment_webhook.                       *)

(* Lock the receipt; processed is answered as a replay, and any state but  *)
(* processing is receipt_not_claimed, which allows one attempt only.       *)
JointLock(s) ==
    /\ phase[s] = "claimed" /\ at[s] \in Joint
    /\ ~ReceiptLocked(at[s])
    /\ \/ /\ state[at[s]] = "processed"
          /\ Answer(at[s])
          /\ Leave(s)
       \/ /\ state[at[s]] = "processing"
          /\ Goto(s, "working")
          /\ UNCHANGED acked
       \/ /\ state[at[s]] \notin {"processed", "processing"}
          /\ Goto(s, "refused")
          /\ UNCHANGED acked
    /\ UNCHANGED <<rowVars, effects, replays, crashes>>

(* The consequence and mark_processed commit together.                     *)
JointCommit(s) ==
    /\ phase[s] = "working"
    /\ effects' = [effects EXCEPT ![at[s]] = @ + 1]
    /\ SetState(at[s], "processed")
    /\ Answer(at[s])
    /\ Leave(s)
    /\ UNCHANGED <<digest, tries, enabled, replays, crashes>>

(* Mutant: what the consequence wrote is not rolled back.                  *)
JointErrorKeeps(s, p) ==
    /\ phase[s] = "working"
    /\ effects' = [effects EXCEPT ![at[s]] = @ + 1]
    /\ Goto(s, p)
    /\ UNCHANGED <<rowVars, acked, replays, crashes>>

(* A domain rejection (one attempt only) or a transient error; everything  *)
(* is rolled back.                                                         *)
JointError(s, p) ==
    /\ phase[s] = "working"
    /\ Goto(s, p)
    /\ UNCHANGED <<rowVars, effects, acked, replays, crashes>>

-----------------------------------------------------------------------------
(* Split consumers.                                                        *)

SplitCommit(s) ==
    /\ phase[s] = "claimed" /\ at[s] \notin Joint
    /\ effects' = [effects EXCEPT ![at[s]] = @ + 1]
    /\ Goto(s, "done")
    /\ UNCHANGED <<rowVars, acked, replays, crashes>>

SplitError(s, p) ==
    /\ phase[s] = "claimed" /\ at[s] \notin Joint
    /\ Goto(s, p)
    /\ UNCHANGED <<rowVars, effects, acked, replays, crashes>>

(* complete_consequence.                                                   *)
SplitComplete(s) ==
    /\ phase[s] = "done"
    /\ SetState(at[s], "processed")
    /\ Answer(at[s])
    /\ Leave(s)
    /\ UNCHANGED <<digest, tries, enabled, effects, replays, crashes>>

-----------------------------------------------------------------------------
(* Failure and replay.                                                     *)

(* Mutant: off by one in the attempt budget.                               *)
FailedStateOneMore(e, max) ==
    IF tries[e] > max THEN "dead_letter" ELSE "retryable"

FailedState(e, max) ==
    IF tries[e] >= max THEN "dead_letter" ELSE "retryable"

(* fail_consequence and fail_claimed_consequence: mark_failed looks at the *)
(* attempt count only, and writes over any state.                          *)
Fail(s) ==
    LET e == at[s]
        max == IF phase[s] = "refused" THEN 1 ELSE MaxAttempts
    IN
    /\ phase[s] \in {"refused", "failing", "name"}
    /\ ~ReceiptLocked(e)
    /\ SetState(e, IF phase[s] = "name" /\ tries[e] < MaxAttempts
                     THEN "rejected" ELSE FailedState(e, max))
    /\ Leave(s)
    /\ UNCHANGED <<digest, tries, enabled, effects, acked, replays, crashes>>

(* replay_receipt: read without a lock ...                                 *)
ReplayRead(s, e) ==
    /\ phase[s] = "idle"
    /\ replays < MaxReplays
    /\ replays' = replays + 1
    /\ state[e] \in Replayable
    /\ Enter(s, "replay", e, NoPayload, state[e])
    /\ UNCHANGED <<rowVars, effects, acked, crashes>>

(* ... and written at the commit, over whatever the row is by then.        *)
ReplayWrite(s) ==
    /\ phase[s] = "replay"
    /\ ~ReceiptLocked(at[s])
    /\ SetState(at[s], "verified")
    /\ Leave(s)
    /\ UNCHANGED <<digest, tries, enabled, effects, acked, replays, crashes>>

(* enable_after_connection_validation by an operator.                      *)
Enable ==
    /\ ~enabled
    /\ enabled' = TRUE
    /\ UNCHANGED <<state, digest, tries, effects, acked, sessVars, replays,
                   crashes>>

(* A process dies: its open transaction is rolled back and its request is  *)
(* not answered.                                                           *)
Crash(s) ==
    /\ phase[s] # "idle"
    /\ crashes < MaxCrashes
    /\ crashes' = crashes + 1
    /\ Leave(s)
    /\ UNCHANGED <<rowVars, effects, acked, replays>>

-----------------------------------------------------------------------------
WebStep(s) ==
    \/ Admit(s) \/ AdmitCollision(s) \/ AdmitClaim(s) \/ AdmitDuplicate(s)
    \/ AdmitDead(s)
    \/ JointLock(s) \/ JointCommit(s)
    \/ \E p \in {"refused", "failing"} : JointError(s, p)
    \/ SplitCommit(s) \/ SplitComplete(s)
    \/ \E p \in {"failing", "name"} : SplitError(s, p)
    \/ Fail(s)

Next ==
    \/ \E s \in Web :
          WebStep(s) \/ \E e \in Event, p \in Payload : Verify(s, e, p)
    \/ \E s \in Operator : ReplayWrite(s) \/ \E e \in Event : ReplayRead(s, e)
    \/ Enable
    \/ \E s \in Session : Crash(s)

Spec == Init /\ [][Next]_vars

(* A request or a replay that was started ends unless its process dies,    *)
(* and the provider repeats an event until one delivery of it succeeds.    *)
Fairness ==
    /\ \A s \in Web : WF_vars(WebStep(s))
    /\ \A s \in Operator : WF_vars(ReplayWrite(s))
    /\ \A e \in Event :
          SF_vars(/\ e \notin acked
                  /\ \E s \in Web, p \in Payload :
                        digest[e] = p /\ Verify(s, e, p))

FairSpec == Spec /\ Fairness

-----------------------------------------------------------------------------
(* Properties.                                                             *)

Phase == {"idle", "request", "admit", "claimed", "working", "done", "refused",
          "failing", "name", "replay"}

States == {"absent", "processed", "rejected", "dead_letter"} \cup Incomplete

TypeOK ==
    /\ state \in [Event -> States]
    /\ digest \in [Event -> Payload \cup {NoPayload}]
    /\ \A e \in Event : state[e] = "absent" <=> digest[e] = NoPayload
    /\ tries \in [Event -> Nat]
    /\ enabled \in BOOLEAN
    /\ effects \in [Event -> Nat]
    /\ acked \subseteq Event
    /\ phase \in [Session -> Phase]
    /\ at \in [Session -> Event \cup {NoEvent}]
    /\ \A s \in Session : at[s] = NoEvent <=> phase[s] = "idle"
    /\ body \in [Session -> Payload \cup {NoPayload}]
    /\ seen \in [Session -> States]
    /\ replays \in 0..MaxReplays
    /\ crashes \in 0..MaxCrashes

(* A session between its claim and the end of its consequence.             *)
Processes(s, e) ==
    at[s] = e /\ phase[s] \in {"claimed", "working", "done"}

(* While no operator replays, concurrent deliveries of one event never     *)
(* have it processed by two requests at once (the binding lock of          *)
(* receive_verified and the states claim_for_processing refuses).          *)
ExclusiveProcessing ==
    replays = 0 =>
       \A s, t \in Session, e \in Event :
          Processes(s, e) /\ Processes(t, e) => s = t

(* The consequence of a joint consumer is committed at most once more than *)
(* the receipt was replayed, whatever is redelivered, retried or killed:   *)
(* `processed' and the consequence are one commit.                         *)
JointConsequenceOnce ==
    \A e \in Joint : effects[e] <= 1 + replays

(* A receipt is claimed beyond its attempt budget only after an operator   *)
(* asked for it: at the budget it is dead-letter or still being processed. *)
AttemptBudget ==
    \A e \in Event : tries[e] <= MaxAttempts + replays

(* What the integration design says of receipts: a receipt with an         *)
(* incomplete consequence resumes processing rather than becoming a no-op. *)
IncompleteReceiptResumes ==
    \A e \in Event : state[e] \in Incomplete ~> state[e] \notin Incomplete

(* What replay_receipt says of itself: only a failed receipt is replayable.*)
OnlyFailedReopened ==
    [][\A e \in Event : state'[e] = "verified" =>
          state[e] \in Replayable \cup {"verified"}]_vars

(* What the design says of admission: receipt creation requires an enabled *)
(* receive binding.                                                        *)
AdmissionNeedsEnabled ==
    [][\A e \in Event : state[e] = "absent" /\ state'[e] # "absent" => enabled]_vars

=============================================================================
