------------------------ MODULE TopupSettlementProofs ------------------------
(***************************************************************************)
(* Proofs about TopupSettlement for any number of intents, web processes,  *)
(* attempts and faults.  The safety properties are inductive together with *)
(* what an open session knows: money that it has seen is still there, and  *)
(* no phase in which money is posted is reached before the gateway         *)
(* confirmed the charge.                                                   *)
(***************************************************************************)
EXTENDS TopupSettlement, TLAPS

Receipt == [kind : {"none", "success", "failed"},
            state : {"none", "processing", "processed", "retryable", "dead_letter"},
            attempts : 0..MaxAttempts]
SessionState == [phase : Phase, i : Intent \cup {NoIntent}, seen : Row,
                 found : {"none", "bare", "allocated"}, todo : SUBSET Intent]

(* Phases of a session that will post or has posted money.                 *)
PaidPhases == {"want_account", "has_account", "has_provider", "settle", "deposit",
               "cash", "allocate", "confirm", "project", "complete"}
CashPhases == {"allocate", "confirm", "project", "complete"}

(* What a session knows of its intent, r being its state.                  *)
Knows(r) ==
    /\ r.phase \notin {"idle", "sweep"} => r.i \in Intent
    /\ r.phase \in PaidPhases => gateway[r.i] = "paid"
    /\ r.phase \in CashPhases => cash[r.i] > 0
    /\ r.seen.linked => r.i \in Intent /\ cash[r.i] > 0
    /\ r.found # "none" => r.i \in Intent /\ cash[r.i] > 0
    /\ r.found = "allocated" => alloc[r.i] > 0

SessionInv == \A p \in Session : Knows(sess[p])

(* A success is announced only after the charge; the attempts of a receipt *)
(* that can still be claimed are not used up.                              *)
AnnounceInv ==
    /\ \A m \in wire : m[2] = "success" => gateway[m[1]] = "paid"
    /\ \A i \in Intent :
           /\ receipt[i].kind = "success" => gateway[i] = "paid"
           /\ receipt[i].state = "none" => receipt[i].attempts = 0
           /\ receipt[i].state = "retryable" => receipt[i].attempts < MaxAttempts

MoneyInv == CashPostedOnce /\ AllocatedOnce /\ MoneyIsConfirmed /\ JointSettlement

SettlementInv == TypeOK /\ AnnounceInv /\ MoneyInv /\ SessionInv

(* Nothing that a session knows is taken back by a step.                   *)
Grows ==
    \A i \in Intent : /\ gateway[i] = "paid" => gateway'[i] = "paid"
                      /\ cash[i] > 0 => cash'[i] > 0
                      /\ alloc[i] > 0 => alloc'[i] > 0

-----------------------------------------------------------------------------
(* The other sessions know what they knew.                                 *)
LEMMA OthersKeep ==
    ASSUME TypeOK, SessionInv, Grows, NEW p \in Session, NEW r \in SessionState,
           sess' = [sess EXCEPT ![p] = r], Knows(r)'
    PROVE  SessionInv'
<1> SUFFICES ASSUME NEW q \in Session PROVE Knows(sess[q])'
  BY DEF SessionInv
<1>1. CASE q = p
  <2>1. sess'[q] = r
    BY <1>1 DEF TypeOK
  <2> QED
    BY <2>1 DEF Knows
<1>2. CASE q # p
  <2>1. sess'[q] = sess[q]
    BY <1>2 DEF TypeOK
  <2>2. Knows(sess[q])
    BY DEF SessionInv
  <2> QED
    BY <2>1, <2>2 DEF Knows, PaidPhases, CashPhases, Grows
<1> QED
  BY <1>1, <1>2

(* A step that only moves a session and counts a fault.                    *)
LEMMA SessionStep ==
    ASSUME SettlementInv, NEW p \in Session, NEW r \in SessionState,
           UNCHANGED <<gateway, wire, receipt, quarantined, closed, money>>,
           faults' \in 0..MaxFaults,
           sess' = [sess EXCEPT ![p] = r], Knows(r)
    PROVE  SettlementInv'
<1>1. TypeOK'
  BY DEF SettlementInv, TypeOK, SessionState, money
<1>2. AnnounceInv' /\ MoneyInv' /\ Grows
  BY DEF SettlementInv, AnnounceInv, MoneyInv, CashPostedOnce, AllocatedOnce,
         MoneyIsConfirmed, JointSettlement, Grows, money
<1>3. Knows(r)'
  BY DEF Knows, money
<1> QED
  BY <1>1, <1>2, <1>3, OthersKeep DEF SettlementInv

(* The states in which Done and Goto leave a session.                      *)
DoneState(p) ==
    IF p = Sweep /\ sess[p].todo # {}
    THEN [Idle EXCEPT !.phase = "sweep", !.todo = sess[p].todo]
    ELSE Idle
GotoState(p, phase) == [sess[p] EXCEPT !.phase = phase]
RolledBackState(p, why) == IF p \in Hook THEN GotoState(p, why) ELSE DoneState(p)

(* An idle session claims nothing.                                         *)
LEMMA IdleKnows == Idle \in SessionState /\ Knows(Idle)
BY DEF Idle, SessionState, Knows, NewRow, Row, Purpose, Phase, PaidPhases, CashPhases

(* Done leaves a session that claims nothing.                              *)
LEMMA DoneKnows ==
    ASSUME TypeOK, NEW p \in Session, Done(p)
    PROVE  /\ DoneState(p) \in SessionState /\ Knows(DoneState(p))
           /\ sess' = [sess EXCEPT ![p] = DoneState(p)]
           /\ DoneState(p).phase \in {"idle", "sweep"}
           /\ DoneState(p).seen.linked = FALSE /\ DoneState(p).found = "none"
<1>1. sess[p].todo \in SUBSET Intent
  BY DEF TypeOK
<1> QED
  BY <1>1 DEF Done, DoneState, Idle, SessionState, Knows, NewRow, Row, Purpose, Phase,
          PaidPhases, CashPhases

(* A session that is done knows nothing, whatever the step did.            *)
LEMMA DoneLeaves ==
    ASSUME TypeOK, NEW p \in Session, Done(p)
    PROVE  \E r \in SessionState : Knows(r)' /\ sess' = [sess EXCEPT ![p] = r]
<1>1. PICK r \in SessionState :
          /\ r.phase \in {"idle", "sweep"} /\ r.seen.linked = FALSE /\ r.found = "none"
          /\ sess' = [sess EXCEPT ![p] = r]
  BY DoneKnows
<1>2. Knows(r)'
  BY <1>1 DEF Knows, PaidPhases, CashPhases
<1> QED
  BY <1>1, <1>2

(* A rollback keeps at most the intent and what was seen of it.            *)
LEMMA RolledBackKnows ==
    ASSUME TypeOK, SessionInv, NEW p \in Session, NEW why \in {"rejected", "failing"},
           sess[p].phase \notin {"idle", "sweep"}, RolledBack(p, why)
    PROVE  /\ RolledBackState(p, why) \in SessionState /\ Knows(RolledBackState(p, why))
           /\ sess' = [sess EXCEPT ![p] = RolledBackState(p, why)]
<1>1. CASE p \in Hook
  <2>1. Knows(sess[p]) /\ sess[p] \in SessionState
    BY DEF SessionInv, TypeOK, SessionState
  <2> QED
    BY <1>1, <2>1 DEF RolledBack, RolledBackState, Goto, GotoState, SessionState, Knows,
            Phase, PaidPhases, CashPhases, TypeOK
<1>2. CASE p \notin Hook
  BY <1>2, DoneKnows DEF RolledBack, RolledBackState
<1> QED
  BY <1>1, <1>2

-----------------------------------------------------------------------------
(* Steps that move a session and nothing else; first, the reading of a     *)
(* claimed webhook's intent.                                               *)
LEMMA PrepareWebhookKeeps ==
    ASSUME SettlementInv, NEW p \in Session, PrepareWebhook(p)
    PROVE  SettlementInv'
<1> DEFINE i == sess[p].i
           to == IF IsDeposit(i) /\ receipt[i].kind = "success"
                 THEN "want_account" ELSE "want_provider"
           r == [sess[p] EXCEPT !.seen = intent[i], !.phase = to]
<1>1. sess[p] \in SessionState /\ Knows(sess[p]) /\ sess[p].phase = "claimed"
  BY DEF SettlementInv, TypeOK, SessionState, SessionInv, PrepareWebhook, At
<1>2. i \in Intent
  BY <1>1 DEF Knows
<1>3. intent[i] \in Row /\ (to = "want_account" => gateway[i] = "paid")
  BY <1>2 DEF SettlementInv, TypeOK, AnnounceInv
<1>4. intent[i].linked => cash[i] > 0
  BY <1>2 DEF SettlementInv, MoneyInv, MoneyIsConfirmed
<1>5. r \in SessionState /\ Knows(r)
  BY <1>1, <1>2, <1>3, <1>4 DEF SessionState, Knows, Phase, PaidPhases, CashPhases
<1>6. sess' = [sess EXCEPT ![p] = r]
  BY <1>1 DEF PrepareWebhook, SettlementInv, TypeOK
<1> QED
  BY <1>5, <1>6, SessionStep DEF PrepareWebhook, SettlementInv, TypeOK

(* What the money of an intent says to a session that looks at it.         *)
LEMMA FoundKnows ==
    ASSUME SettlementInv, NEW i \in Intent
    PROVE  /\ PaymentFound(i) \in {"none", "bare", "allocated"}
           /\ PaymentFound(i) # "none" => cash[i] > 0
           /\ PaymentFound(i) = "allocated" => alloc[i] > 0
           /\ intent[i] \in Row /\ (intent[i].linked => cash[i] > 0)
BY DEF SettlementInv, TypeOK, MoneyInv, MoneyIsConfirmed, PaymentFound

(* Admission of the event, or its rejection.                               *)
LEMMA AdmitEventKeeps ==
    ASSUME SettlementInv, NEW p \in Session, AdmitEvent(p)
    PROVE  SettlementInv'
<1> DEFINE i == sess[p].i
           r == [sess[p] EXCEPT !.phase = "has_provider", !.found = PaymentFound(i)]
<1>1. sess[p] \in SessionState /\ Knows(sess[p]) /\ sess[p].phase = "want_provider"
  BY DEF SettlementInv, TypeOK, SessionState, SessionInv, AdmitEvent, At
<1>2. i \in Intent /\ gateway[i] = "paid"
  BY <1>1 DEF Knows, AdmitEvent, SettlementInv, AnnounceInv
<1>3. CASE event[i] = "failed" \/ "provider" \in closed
  BY <1>1, <1>3, RolledBackKnows, SessionStep DEF AdmitEvent, SettlementInv, TypeOK
<1>4. CASE ~(event[i] = "failed" \/ "provider" \in closed)
  <2>1. r \in SessionState /\ Knows(r)
    BY <1>1, <1>2, FoundKnows DEF SessionState, Knows, Phase, PaidPhases, CashPhases
  <2>2. sess' = [sess EXCEPT ![p] = r]
    BY <1>1, <1>4 DEF AdmitEvent, SettlementInv, TypeOK
  <2> QED
    BY <2>1, <2>2, SessionStep DEF AdmitEvent, SettlementInv, TypeOK
<1> QED
  BY <1>3, <1>4

(* The account row is taken, or the sweep has nothing to do.               *)
LEMMA LockAccountKeeps ==
    ASSUME SettlementInv, NEW p \in Session, LockAccount(p)
    PROVE  SettlementInv'
<1>1. sess[p] \in SessionState /\ Knows(sess[p]) /\ sess[p].phase = "want_account"
  BY DEF SettlementInv, TypeOK, SessionState, SessionInv, LockAccount, At
<1>2. CASE Done(p)
  BY <1>2, DoneKnows, SessionStep DEF LockAccount, SettlementInv, TypeOK
<1>3. CASE Goto(p, "has_account")
  <2>1. GotoState(p, "has_account") \in SessionState /\ Knows(GotoState(p, "has_account"))
    BY <1>1 DEF GotoState, SessionState, Knows, Phase, PaidPhases, CashPhases
  <2>2. sess' = [sess EXCEPT ![p] = GotoState(p, "has_account")]
    BY <1>3 DEF Goto, GotoState, SettlementInv, TypeOK
  <2> QED
    BY <2>1, <2>2, SessionStep DEF LockAccount, SettlementInv, TypeOK
<1> QED
  BY <1>2, <1>3 DEF LockAccount

(* A returning customer whose charge the gateway confirms.                 *)
LEMMA VerifyReturnKeeps ==
    ASSUME SettlementInv, NEW p \in Session, NEW i \in Intent, VerifyReturn(p, i)
    PROVE  SettlementInv'
<1> DEFINE r == [Idle EXCEPT !.i = i, !.seen = intent[i], !.found = PaymentFound(i),
                             !.phase = IF IsDeposit(i) THEN "deposit" ELSE "cash"]
<1>1. gateway[i] = "paid"
  BY DEF VerifyReturn
<1>2. r \in SessionState /\ Knows(r)
  BY <1>1, FoundKnows, IdleKnows
     DEF SessionState, Idle, NewRow, Knows, Phase, PaidPhases, CashPhases
<1> QED
  BY <1>2, SessionStep DEF VerifyReturn, SettlementInv, TypeOK

(* The portal reads the intent again.                                      *)
LEMMA PortalReadKeeps ==
    ASSUME SettlementInv, NEW p \in Session, PortalRead(p)
    PROVE  SettlementInv'
<1> DEFINE i == sess[p].i
           r == [sess[p] EXCEPT !.seen = intent[i], !.phase = "complete"]
<1>1. sess[p] \in SessionState /\ Knows(sess[p]) /\ sess[p].phase = "project"
  BY DEF SettlementInv, TypeOK, SessionState, SessionInv, PortalRead, At
<1>2. i \in Intent
  BY <1>1 DEF Knows
<1>3. r \in SessionState /\ Knows(r)
  BY <1>1, <1>2, FoundKnows DEF SessionState, Knows, Phase, PaidPhases, CashPhases
<1>4. sess' = [sess EXCEPT ![p] = r]
  BY <1>1 DEF PortalRead, SettlementInv, TypeOK
<1> QED
  BY <1>3, <1>4, SessionStep DEF PortalRead, SettlementInv, TypeOK

(* The sweep selects, observes, skips and reads.                           *)
LEMMA SweepMoves ==
    ASSUME SettlementInv,
           \/ SweepStart \/ SweepRead
           \/ \E i \in Intent : SweepObserve(i) \/ SweepUnavailable(i)
    PROVE  SettlementInv'
<1> USE DEF SettlementInv
<1>0. Sweep \in Session /\ sess[Sweep] \in SessionState /\ Knows(sess[Sweep])
  BY DEF Session, TypeOK, SessionState, SessionInv
<1>1. CASE SweepStart
  <2> DEFINE r == [Idle EXCEPT !.phase = "sweep", !.todo = Candidates]
  <2>1. r \in SessionState /\ Knows(r)
    BY IdleKnows DEF SessionState, Idle, NewRow, Knows, Phase, PaidPhases, CashPhases,
                     Candidates, Stranded
  <2> QED
    BY <1>0, <1>1, <2>1, SessionStep DEF SweepStart, TypeOK
<1>2. CASE SweepRead
  <2> DEFINE i == sess[Sweep].i
             to == IF sess[Sweep].phase = "settle" THEN "want_account" ELSE "expire"
             r == [sess[Sweep] EXCEPT !.seen = intent[i], !.phase = to]
  <2>1. i \in Intent /\ (to = "want_account" => gateway[i] = "paid")
    BY <1>0, <1>2 DEF SweepRead, Knows, PaidPhases
  <2>2. r \in SessionState /\ Knows(r)
    BY <1>0, <1>2, <2>1, FoundKnows DEF SessionState, Knows, Phase, PaidPhases, CashPhases
  <2>3. sess' = [sess EXCEPT ![Sweep] = r]
    BY <1>0, <1>2 DEF SweepRead, TypeOK
  <2> QED
    BY <1>0, <1>2, <2>2, <2>3, SessionStep DEF SweepRead, TypeOK
<1>3. ASSUME NEW i \in Intent, SweepObserve(i) PROVE SettlementInv'
  <2> DEFINE r == [Idle EXCEPT !.i = i, !.todo = sess[Sweep].todo \ {i},
                     !.phase = IF gateway[i] = "paid" THEN "settle" ELSE "unsuccessful"]
  <2>1. sess[Sweep].todo \ {i} \in SUBSET Intent
    BY <1>0 DEF SessionState
  <2>2. r \in SessionState /\ Knows(r)
    BY <2>1, IdleKnows DEF SessionState, Idle, NewRow, Knows, Phase, PaidPhases, CashPhases
  <2> QED
    BY <1>0, <1>3, <2>2, SessionStep DEF SweepObserve, TypeOK
<1>4. ASSUME NEW i \in Intent, SweepUnavailable(i) PROVE SettlementInv'
  <2> DEFINE r == IF sess[Sweep].todo = {i} THEN Idle
                  ELSE [sess[Sweep] EXCEPT !.todo = @ \ {i}]
  <2>1. r \in SessionState /\ Knows(r)
    BY <1>0, IdleKnows DEF SessionState, Knows
  <2>2. faults' \in 0..MaxFaults
    BY <1>4, SettlementAssumption DEF SweepUnavailable, TypeOK
  <2> QED
    BY <1>0, <1>4, <2>1, <2>2, SessionStep DEF SweepUnavailable
<1> QED
  BY <1>1, <1>2, <1>3, <1>4

(* Database errors, deaths and deadlock victims.                           *)
LEMMA FaultsKeep ==
    ASSUME SettlementInv, NEW p \in Session, Fail(p) \/ Crash(p) \/ DeadlockVictim(p)
    PROVE  SettlementInv'
<1> USE DEF SettlementInv
<1>1. CASE Fail(p)
  <2>1. faults' \in 0..MaxFaults /\ sess[p].phase \notin {"idle", "sweep"}
    BY <1>1, SettlementAssumption DEF Fail, TypeOK
  <2> QED
    BY <1>1, <2>1, RolledBackKnows, SessionStep DEF Fail
<1>2. CASE Crash(p)
  <2>1. faults' \in 0..MaxFaults
    BY <1>2, SettlementAssumption DEF Crash, TypeOK
  <2> QED
    BY <1>2, <2>1, IdleKnows, SessionStep DEF Crash
<1>3. CASE DeadlockVictim(p)
  <2>1. faults' \in 0..MaxFaults /\ sess[p].phase \notin {"idle", "sweep"}
    BY <1>3 DEF DeadlockVictim, TypeOK
  <2> QED
    BY <1>3, <2>1, RolledBackKnows, SessionStep DEF DeadlockVictim
<1> QED
  BY <1>1, <1>2, <1>3

-----------------------------------------------------------------------------
(* The gateway.                                                            *)
LEMMA GatewayKeeps ==
    ASSUME SettlementInv, NEW i \in Intent, Decline(i) \/ Pay(i)
    PROVE  SettlementInv'
<1> USE DEF SettlementInv
<1>1. TypeOK'
  <2>1. /\ gateway' \in [Intent -> {"open", "declined", "paid"}]
        /\ wire' \subseteq Intent \X {"success", "failed"}
    <3>1. gateway' \in [Intent -> {"open", "declined", "paid"}]
      BY DEF Decline, Pay, TypeOK
    <3>2. PICK kind \in {"success", "failed"} : wire' = wire \cup {<<i, kind>>}
      BY DEF Decline, Pay
    <3>3. wire \subseteq Intent \X {"success", "failed"}
      BY DEF TypeOK
    <3> QED
      BY <3>1, <3>2, <3>3
  <2>2. UNCHANGED <<receipt, quarantined, closed, money, sess, faults>>
    BY DEF Decline, Pay
  <2> QED
    BY <2>1, <2>2 DEF TypeOK, money
<1>2. Grows
  BY DEF Decline, Pay, TypeOK, Grows, money
<1>3. AnnounceInv'
  BY DEF Decline, Pay, TypeOK, AnnounceInv, money
<1>4. MoneyInv'
  BY DEF Decline, Pay, TypeOK, MoneyInv, CashPostedOnce, AllocatedOnce, MoneyIsConfirmed,
         JointSettlement, money
<1>5. SessionInv'
  BY <1>2 DEF Decline, Pay, SessionInv, Knows, Grows, PaidPhases, CashPhases
<1> QED
  BY <1>1, <1>3, <1>4, <1>5

(* A webhook is lost.                                                      *)
LEMMA LoseKeeps ==
    ASSUME SettlementInv, NEW m \in wire, Lose(m)
    PROVE  SettlementInv'
BY DEF Lose, SettlementInv, TypeOK, AnnounceInv, MoneyInv, CashPostedOnce, AllocatedOnce,
       MoneyIsConfirmed, JointSettlement, SessionInv, Knows, money

(* The account or the provider is switched off or on.                      *)
LEMMA BackOfficeKeeps ==
    ASSUME SettlementInv, NEW row \in {"account", "provider"},
           Deactivate(row) \/ Reactivate(row)
    PROVE  SettlementInv'
<1> USE DEF SettlementInv
<1>1. /\ UNCHANGED <<gateway, wire, receipt, quarantined, money, sess>>
      /\ closed' \subseteq {"account", "provider"} /\ faults' \in 0..MaxFaults
  <2>1. CASE Deactivate(row)
    <3>1. closed' \subseteq {"account", "provider"}
      BY <2>1 DEF Deactivate, TypeOK
    <3>2. faults' \in 0..MaxFaults
      BY <2>1, SettlementAssumption DEF Deactivate, TypeOK
    <3> QED
      BY <2>1, <3>1, <3>2 DEF Deactivate
  <2>2. CASE Reactivate(row)
    BY <2>2 DEF Reactivate, TypeOK
  <2> QED
    BY <2>1, <2>2
<1>2. TypeOK'
  BY <1>1 DEF TypeOK, money
<1>3. AnnounceInv' /\ MoneyInv'
  BY <1>1 DEF AnnounceInv, MoneyInv, CashPostedOnce, AllocatedOnce, MoneyIsConfirmed,
              JointSettlement, money
<1>4. SessionInv'
  BY <1>1 DEF SessionInv, Knows, money
<1> QED
  BY <1>2, <1>3, <1>4

-----------------------------------------------------------------------------
(* Steps that move a session and write a receipt.                          *)
LEMMA ReceiptStep ==
    ASSUME SettlementInv, NEW p \in Session, NEW r \in SessionState,
           NEW i \in Intent, NEW rc \in Receipt,
           UNCHANGED <<gateway, wire, quarantined, closed, money, faults>>,
           receipt' = [receipt EXCEPT ![i] = rc],
           rc.kind = "success" => gateway[i] = "paid",
           rc.state \in {"processing", "retryable", "dead_letter"},
           rc.state = "retryable" => rc.attempts < MaxAttempts,
           sess' = [sess EXCEPT ![p] = r], Knows(r)
    PROVE  SettlementInv'
<1> USE DEF SettlementInv
<1>1. TypeOK'
  BY DEF TypeOK, SessionState, Receipt, money
<1>2. AnnounceInv'
  BY DEF AnnounceInv, TypeOK, money
<1>3. MoneyInv' /\ Grows
  BY DEF MoneyInv, CashPostedOnce, AllocatedOnce, MoneyIsConfirmed, JointSettlement,
         Grows, TypeOK, money
<1>4. Knows(r)'
  BY DEF Knows, money
<1> QED
  BY <1>1, <1>2, <1>3, <1>4, OthersKeep

(* A webhook claims its receipt or quarantines the binding.                *)
LEMMA ReceiveWebhookKeeps ==
    ASSUME SettlementInv, NEW p \in Session, NEW i \in Intent,
           NEW kind \in {"success", "failed"}, ReceiveWebhook(p, i, kind)
    PROVE  SettlementInv'
<1> USE DEF SettlementInv
<1>1. CASE UNCHANGED quarantined
  <2> DEFINE rc == [kind |-> kind, state |-> "processing",
                    attempts |-> receipt[i].attempts + 1]
             r == [Idle EXCEPT !.phase = "claimed", !.i = i]
  <2>1. CASE UNCHANGED <<receipt, sess>>
    BY <1>1, <2>1 DEF ReceiveWebhook, TypeOK, AnnounceInv, MoneyInv, CashPostedOnce,
          AllocatedOnce, MoneyIsConfirmed, JointSettlement, SessionInv, Knows, money
  <2>2. CASE ~UNCHANGED <<receipt, sess>>
    <3>1. /\ receipt[i].state \in {"none", "retryable"}
          /\ receipt' = [receipt EXCEPT ![i] = rc]
          /\ sess' = [sess EXCEPT ![p] = r]
      BY <2>2 DEF ReceiveWebhook, TypeOK
    <3>2. rc \in Receipt
      BY <3>1, SettlementAssumption DEF TypeOK, AnnounceInv, Receipt
    <3>3. kind = "success" => gateway[i] = "paid"
      <4>1. <<i, kind>> \in wire
        BY DEF ReceiveWebhook
      <4> QED
        BY <4>1 DEF AnnounceInv
    <3>4. r \in SessionState /\ Knows(r)
      BY IdleKnows DEF SessionState, Idle, NewRow, Knows, Phase, PaidPhases, CashPhases
    <3> QED
      BY <3>1, <3>2, <3>3, <3>4, ReceiptStep, <1>1 DEF ReceiveWebhook
  <2> QED
    BY <2>1, <2>2
<1>2. CASE ~UNCHANGED quarantined
  <2>1. quarantined' = TRUE /\ UNCHANGED <<gateway, wire, receipt, closed, money, sess, faults>>
    BY <1>2 DEF ReceiveWebhook
  <2>2. TypeOK'
    BY <2>1 DEF TypeOK, money
  <2>3. AnnounceInv' /\ MoneyInv'
    BY <2>1 DEF AnnounceInv, MoneyInv, CashPostedOnce, AllocatedOnce, MoneyIsConfirmed,
                JointSettlement, money
  <2>4. SessionInv'
    BY <2>1 DEF SessionInv, Knows, money
  <2> QED
    BY <2>2, <2>3, <2>4
<1> QED
  BY <1>1, <1>2

(* A failed attempt is recorded on its receipt.                            *)
LEMMA RecordFailureKeeps ==
    ASSUME SettlementInv, NEW p \in Session, RecordFailure(p)
    PROVE  SettlementInv'
<1> USE DEF SettlementInv
<1> DEFINE i == sess[p].i
           rc == [receipt[i] EXCEPT !.state = FailureState(p)]
<1>1. i \in Intent
  BY DEF RecordFailure, SessionInv, Knows
<1>2. receipt[i] \in Receipt
  BY <1>1 DEF TypeOK, Receipt
<1>3. /\ FailureState(p) \in {"retryable", "dead_letter"}
      /\ FailureState(p) = "retryable" => receipt[i].attempts < MaxAttempts
  BY DEF FailureState
<1>4. rc \in Receipt /\ (rc.kind = "success" => gateway[i] = "paid")
  BY <1>1, <1>2, <1>3 DEF Receipt, AnnounceInv
<1>5. receipt' = [receipt EXCEPT ![i] = rc]
  BY <1>1 DEF RecordFailure, TypeOK
<1>6. /\ rc.state \in {"processing", "retryable", "dead_letter"}
      /\ rc.state = "retryable" => rc.attempts < MaxAttempts
  BY <1>2, <1>3 DEF Receipt
<1>7. /\ DoneState(p) \in SessionState /\ Knows(DoneState(p))
      /\ sess' = [sess EXCEPT ![p] = DoneState(p)]
  BY DoneKnows DEF RecordFailure
<1>8. UNCHANGED <<gateway, wire, quarantined, closed, money, faults>>
  BY DEF RecordFailure
<1> HIDE DEF rc, i
<1> QED
  BY <1>1, <1>4, <1>5, <1>6, <1>7, <1>8, ReceiptStep

-----------------------------------------------------------------------------
(* Steps that write the money of one intent.                               *)
Moves(p) == \E r \in SessionState : Knows(r)' /\ sess' = [sess EXCEPT ![p] = r]

Touches(i) ==
    /\ intent' = [intent EXCEPT ![i] = intent'[i]]
    /\ cash' = [cash EXCEPT ![i] = cash'[i]]
    /\ event' = [event EXCEPT ![i] = event'[i]]
    /\ alloc' = [alloc EXCEPT ![i] = alloc'[i]]
    /\ exc' = [exc EXCEPT ![i] = exc'[i]]
    /\ receipt' = [receipt EXCEPT ![i] = receipt'[i]]
    /\ UNCHANGED <<gateway, wire, quarantined, closed, faults>>

(* What such a step may leave: cash and allocations grow up to one, and    *)
(* claims come with the cash.                                              *)
WellPosted(i) ==
    /\ intent'[i] \in Row /\ event'[i] \in {"none", "failed", "processed"}
    /\ exc'[i] \in {"none", "open", "resolved"}
    /\ cash'[i] \in Nat /\ cash[i] <= cash'[i] /\ cash'[i] <= 1
    /\ alloc'[i] \in Nat /\ alloc[i] <= alloc'[i] /\ alloc'[i] <= cash'[i]
    /\ cash'[i] > 0 => gateway[i] = "paid"
    /\ intent'[i].linked \/ event'[i] = "processed" => cash'[i] > 0

(* ... and what may become of the receipt.                                 *)
WellAnswered(i) ==
    \/ /\ receipt'[i] = receipt[i]
       /\ intent[i].linked => intent'[i].linked
       /\ event[i] = "processed" => event'[i] = "processed"
    \/ /\ receipt'[i] = [receipt[i] EXCEPT !.state = "processed"]
       /\ receipt[i].kind = "success" => intent'[i].linked /\ event'[i] = "processed"

(* Such a step keeps the invariant.                                        *)
LEMMA MoneyStep ==
    ASSUME SettlementInv, NEW p \in Session, NEW i \in Intent,
           Moves(p), Touches(i), WellPosted(i), WellAnswered(i)
    PROVE  SettlementInv'
<1> USE DEF SettlementInv
<1>0. PICK r \in SessionState : Knows(r)' /\ sess' = [sess EXCEPT ![p] = r]
  BY DEF Moves
<1>1. /\ receipt'[i] \in Receipt /\ receipt'[i].kind = receipt[i].kind
      /\ receipt'[i].attempts = receipt[i].attempts
      /\ receipt'[i].state \in {receipt[i].state, "processed"}
  BY DEF WellAnswered, TypeOK, Receipt
<1>2. TypeOK'
  <2>1. sess' \in [Session -> SessionState]
    BY <1>0 DEF TypeOK, SessionState
  <2>2. receipt' \in [Intent -> Receipt]
    BY <1>1 DEF TypeOK, Receipt, Touches
  <2> QED
    BY <2>1, <2>2 DEF TypeOK, SessionState, Receipt, Touches, WellPosted
<1>3. \A j \in Intent \ {i} : /\ intent'[j] = intent[j] /\ cash'[j] = cash[j]
                              /\ event'[j] = event[j] /\ alloc'[j] = alloc[j]
                              /\ receipt'[j] = receipt[j]
  BY DEF TypeOK, Touches
<1>4. /\ cash \in [Intent -> Nat] /\ alloc \in [Intent -> Nat]
      /\ UNCHANGED <<gateway, wire>>
  BY DEF TypeOK, Touches
<1>5. AnnounceInv'
  BY <1>1, <1>3, <1>4 DEF AnnounceInv
<1>6. CashPostedOnce' /\ AllocatedOnce'
  BY <1>3, <1>4 DEF MoneyInv, CashPostedOnce, AllocatedOnce, WellPosted
<1>7. MoneyIsConfirmed'
  BY <1>3, <1>4 DEF MoneyInv, MoneyIsConfirmed, WellPosted
<1>8. JointSettlement'
  <2> SUFFICES ASSUME NEW j \in Intent,
                      receipt'[j].state = "processed" /\ receipt'[j].kind = "success"
               PROVE  cash'[j] = 1 /\ event'[j] = "processed" /\ intent'[j].linked
    BY DEF JointSettlement
  <2>1. CASE j # i
    BY <1>3, <2>1 DEF MoneyInv, JointSettlement
  <2>2. CASE j = i
    BY <1>1, <2>2 DEF WellAnswered, WellPosted, MoneyInv, JointSettlement
  <2> QED
    BY <2>1, <2>2
<1>9. Grows
  BY <1>3, <1>4 DEF Grows, WellPosted
<1> QED
  BY <1>0, <1>2, <1>5, <1>6, <1>7, <1>8, <1>9, OthersKeep DEF MoneyInv

(* A declined attempt is recorded, or refused after a success.             *)
LEMMA RecordDeclineKeeps ==
    ASSUME SettlementInv, NEW p \in Session, RecordDecline(p)
    PROVE  SettlementInv'
<1> USE DEF SettlementInv
<1> DEFINE i == sess[p].i
<1>1. i \in Intent /\ sess[p].phase = "want_provider" /\ receipt[i].kind = "failed"
  BY DEF RecordDecline, SessionInv, Knows, At
<1>2. CASE UNCHANGED <<event, receipt>> /\ RolledBack(p, "rejected")
  BY <1>1, <1>2, RolledBackKnows, SessionStep DEF RecordDecline, TypeOK, money
<1>3. CASE /\ event[i] # "processed" /\ event' = [event EXCEPT ![i] = "failed"]
           /\ Processed(i) /\ Done(p)
  <2>1. Moves(p)
    BY <1>3, DoneLeaves DEF Moves
  <2>2. Touches(i)
    BY <1>1, <1>3 DEF RecordDecline, TypeOK, Processed, Touches
  <2>3. WellPosted(i)
    BY <1>1, <1>3 DEF RecordDecline, TypeOK, WellPosted, MoneyInv, CashPostedOnce,
                      AllocatedOnce, MoneyIsConfirmed
  <2>4. WellAnswered(i)
    BY <1>1, <1>3 DEF RecordDecline, TypeOK, Processed, WellAnswered
  <2> QED
    BY <1>1, <2>1, <2>2, <2>3, <2>4, MoneyStep
<1> QED
  BY <1>2, <1>3 DEF RecordDecline

-----------------------------------------------------------------------------
(* The consequences that the paths share.                                  *)
LEMMA AllocatedFacts ==
    ASSUME SettlementInv, NEW i \in Intent, NEW checked \in BOOLEAN, Allocated(i, checked)
    PROVE  /\ alloc' = [alloc EXCEPT ![i] = alloc'[i]]
           /\ exc' = [exc EXCEPT ![i] = exc'[i]]
           /\ alloc'[i] \in Nat /\ alloc[i] <= alloc'[i] /\ alloc'[i] <= 1
           /\ exc'[i] \in {"none", "open", "resolved"}
<1>1. /\ alloc \in [Intent -> Nat] /\ exc \in [Intent -> {"none", "open", "resolved"}]
      /\ cash[i] \in Nat /\ alloc[i] <= 1
  BY DEF SettlementInv, TypeOK, MoneyInv, CashPostedOnce, AllocatedOnce
<1>2. Resolved(i) \in {"none", "open", "resolved"}
  BY <1>1 DEF Resolved
<1> QED
  BY <1>1, <1>2 DEF Allocated

(* The projection on the intent links it and keeps its purpose.            *)
LEMMA CompletedFacts ==
    ASSUME TypeOK, NEW i \in Intent, NEW seen \in Row
    PROVE  Completed(i, seen) \in Row /\ Completed(i, seen).linked
<1>1. intent[i] \in Row
  BY DEF TypeOK
<1> QED
  BY <1>1 DEF Row, Completed

(* Whatever the session found before it waited, a confirmed transaction    *)
(* has one Payment afterwards.                                             *)
LEMMA SettleFacts ==
    ASSUME SettlementInv, NEW p \in Session, NEW i \in Intent, NEW found,
           NEW checked \in BOOLEAN, Settle(p, i, found, checked),
           gateway[i] = "paid", sess[p].seen.linked => cash[i] > 0,
           found = "allocated" => cash[i] > 0
    PROVE  /\ WellPosted(i) /\ intent'[i].linked /\ event'[i] = "processed"
           /\ intent' = [intent EXCEPT ![i] = intent'[i]]
           /\ cash' = [cash EXCEPT ![i] = cash'[i]]
           /\ event' = [event EXCEPT ![i] = event'[i]]
           /\ alloc' = [alloc EXCEPT ![i] = alloc'[i]]
           /\ exc' = [exc EXCEPT ![i] = exc'[i]]
<1> USE DEF SettlementInv
<1>1. /\ cash \in [Intent -> Nat] /\ alloc \in [Intent -> Nat] /\ cash[i] <= 1
      /\ alloc[i] <= cash[i] /\ exc \in [Intent -> {"none", "open", "resolved"}]
      /\ event[i] = "processed" => cash[i] > 0
  BY DEF TypeOK, MoneyInv, CashPostedOnce, AllocatedOnce, MoneyIsConfirmed
<1>2. /\ intent' = [intent EXCEPT ![i] = intent'[i]] /\ intent'[i] \in Row /\ intent'[i].linked
  <2>1. sess[p].seen \in Row
    BY DEF TypeOK
  <2> QED
    BY <2>1, CompletedFacts DEF Settle, TypeOK
<1>3. event' = [event EXCEPT ![i] = event'[i]] /\ event'[i] = "processed"
  BY DEF Settle, TypeOK
<1>4. /\ cash' = [cash EXCEPT ![i] = cash'[i]] /\ cash'[i] = 1
      /\ alloc' = [alloc EXCEPT ![i] = alloc'[i]] /\ exc' = [exc EXCEPT ![i] = exc'[i]]
      /\ alloc'[i] \in Nat /\ alloc[i] <= alloc'[i] /\ alloc'[i] <= 1
      /\ exc'[i] \in {"none", "open", "resolved"}
  <2>1. CASE IsDeposit(i)
    BY <1>1, <2>1 DEF Settle, SettleDeposit, CashPosted
  <2>2. CASE ~IsDeposit(i) /\ (event[i] = "processed" \/ found = "allocated")
    BY <1>1, <2>2 DEF Settle, SettleInvoice
  <2>3. CASE ~IsDeposit(i) /\ ~(event[i] = "processed" \/ found = "allocated")
    BY <1>1, <2>3, AllocatedFacts DEF Settle, SettleInvoice, CashPosted
  <2> QED
    BY <2>1, <2>2, <2>3
<1> QED
  BY <1>1, <1>2, <1>3, <1>4 DEF WellPosted

(* The commit of an invoice's webhook.                                     *)
LEMMA SettleWebhookKeeps ==
    ASSUME SettlementInv, NEW p \in Session, SettleWebhook(p)
    PROVE  SettlementInv'
<1> USE DEF SettlementInv
<1> DEFINE i == sess[p].i
<1>1. /\ i \in Intent /\ gateway[i] = "paid" /\ (sess[p].seen.linked => cash[i] > 0)
      /\ sess[p].found = "allocated" => cash[i] > 0
  BY DEF SettleWebhook, SessionInv, Knows, At, PaidPhases
<1>2. /\ WellPosted(i) /\ intent'[i].linked /\ event'[i] = "processed"
      /\ intent' = [intent EXCEPT ![i] = intent'[i]] /\ cash' = [cash EXCEPT ![i] = cash'[i]]
      /\ event' = [event EXCEPT ![i] = event'[i]] /\ alloc' = [alloc EXCEPT ![i] = alloc'[i]]
      /\ exc' = [exc EXCEPT ![i] = exc'[i]]
  BY <1>1, SettleFacts DEF SettleWebhook
<1>3. Moves(p)
  BY DoneLeaves DEF SettleWebhook, Moves
<1>4. Touches(i) /\ WellAnswered(i)
  <2>1. /\ receipt' = [receipt EXCEPT ![i].state = "processed"]
        /\ UNCHANGED <<gateway, wire, quarantined, closed, faults>>
    BY DEF SettleWebhook, Processed
  <2>2. receipt'[i] = [receipt[i] EXCEPT !.state = "processed"]
    BY <1>1, <2>1 DEF TypeOK
  <2>3. receipt' = [receipt EXCEPT ![i] = receipt'[i]]
    BY <1>1, <2>1 DEF TypeOK
  <2> HIDE DEF i
  <2> QED
    BY <1>2, <2>1, <2>2, <2>3 DEF Touches, WellAnswered
<1> QED
  BY <1>1, <1>2, <1>3, <1>4, MoneyStep

(* The commit under account and provider, or its refusal.                  *)
LEMMA SettleInScopeKeeps ==
    ASSUME SettlementInv, NEW p \in Session, SettleInScope(p)
    PROVE  SettlementInv'
<1> USE DEF SettlementInv
<1> DEFINE i == sess[p].i
<1>1. /\ i \in Intent /\ gateway[i] = "paid" /\ (sess[p].seen.linked => cash[i] > 0)
      /\ sess[p].phase = "has_account"
  BY DEF SettleInScope, SessionInv, Knows, At, PaidPhases
<1>2. CASE Settle(p, i, PaymentFound(i), TRUE)
           /\ (IF p \in Hook THEN Processed(i) ELSE UNCHANGED receipt) /\ Done(p)
  <2>1. PaymentFound(i) = "allocated" => cash[i] > 0
    BY <1>1, FoundKnows
  <2>2. /\ WellPosted(i) /\ intent'[i].linked /\ event'[i] = "processed"
        /\ intent' = [intent EXCEPT ![i] = intent'[i]]
        /\ cash' = [cash EXCEPT ![i] = cash'[i]]
        /\ event' = [event EXCEPT ![i] = event'[i]]
        /\ alloc' = [alloc EXCEPT ![i] = alloc'[i]]
        /\ exc' = [exc EXCEPT ![i] = exc'[i]]
    BY <1>1, <1>2, <2>1, SettleFacts
  <2>3. Moves(p)
    BY <1>2, DoneLeaves DEF Moves
  <2>4. Touches(i) /\ WellAnswered(i)
    BY <1>1, <1>2, <2>2 DEF SettleInScope, Processed, TypeOK, Touches, WellAnswered
  <2> QED
    BY <1>1, <2>2, <2>3, <2>4, MoneyStep
<1>3. ASSUME NEW why \in {"rejected", "failing"}, RolledBack(p, why),
             UNCHANGED <<receipt, money>>
      PROVE  SettlementInv'
  BY <1>1, <1>3, RolledBackKnows, SessionStep DEF SettleInScope, TypeOK
<1> QED
  BY <1>2, <1>3 DEF SettleInScope

-----------------------------------------------------------------------------
(* The portal and the expiry.                                              *)
LEMMA PortalDepositKeeps ==
    ASSUME SettlementInv, NEW p \in Session, PortalDeposit(p)
    PROVE  SettlementInv'
<1> USE DEF SettlementInv
<1> DEFINE i == sess[p].i
<1>1. /\ i \in Intent /\ gateway[i] = "paid" /\ (sess[p].seen.linked => cash[i] > 0)
      /\ sess[p].seen \in Row
  BY DEF PortalDeposit, SessionInv, Knows, At, PaidPhases, TypeOK
<1>2. /\ cash \in [Intent -> Nat] /\ cash[i] <= 1 /\ alloc[i] \in Nat /\ alloc[i] <= cash[i]
      /\ exc[i] \in {"none", "open", "resolved"} /\ event[i] \in {"none", "failed", "processed"}
  BY <1>1 DEF TypeOK, MoneyInv, CashPostedOnce, AllocatedOnce
<1>3. CASE UNCHANGED <<intent, cash, alloc, exc>>
  BY <1>3, DoneKnows, SessionStep DEF PortalDeposit, TypeOK, money
<1>4. CASE /\ SettleDeposit(p, i)
           /\ intent' = [intent EXCEPT ![i] = Completed(i, sess[p].seen)]
  <2>1. cash' = [cash EXCEPT ![i] = cash'[i]] /\ cash'[i] = 1
    <3>1. SettleDeposit(p, i)
      BY <1>4
    <3> HIDE DEF i
    <3> QED
      BY <1>1, <1>2, <3>1 DEF SettleDeposit, CashPosted
  <2>2. /\ intent' = [intent EXCEPT ![i] = intent'[i]] /\ intent'[i] \in Row
        /\ intent'[i].linked
    BY <1>1, <1>4, CompletedFacts DEF TypeOK
  <2>3. Moves(p)
    BY DoneLeaves DEF PortalDeposit, Moves
  <2>4. Touches(i) /\ WellAnswered(i)
    BY <1>1, <1>4, <2>1, <2>2
       DEF PortalDeposit, SettleDeposit, TypeOK, Touches, WellAnswered
  <2>5. WellPosted(i)
    BY <1>1, <1>2, <1>4, <2>1, <2>2 DEF PortalDeposit, SettleDeposit, WellPosted
  <2> QED
    BY <1>1, <2>3, <2>4, <2>5, MoneyStep
<1> QED
  BY <1>3, <1>4 DEF PortalDeposit

(* The portal's first commit: the cash.                                    *)
LEMMA PortalCashKeeps ==
    ASSUME SettlementInv, NEW p \in Session, PortalCash(p)
    PROVE  SettlementInv'
<1> USE DEF SettlementInv
<1> DEFINE i == sess[p].i
<1>1. /\ i \in Intent /\ gateway[i] = "paid" /\ (sess[p].found # "none" => cash[i] > 0)
      /\ sess[p] \in SessionState /\ Knows(sess[p])
  BY DEF PortalCash, SessionInv, Knows, At, PaidPhases, TypeOK, SessionState
<1>2. /\ cash \in [Intent -> Nat] /\ cash[i] <= 1 /\ alloc[i] \in Nat /\ alloc[i] <= cash[i]
      /\ exc[i] \in {"none", "open", "resolved"} /\ event[i] \in {"none", "failed", "processed"}
      /\ intent[i] \in Row
  BY <1>1 DEF TypeOK, MoneyInv, CashPostedOnce, AllocatedOnce
<1>0. CASE "provider" \in closed
  BY <1>0, DoneKnows, SessionStep DEF PortalCash, TypeOK, money
<1> SUFFICES ASSUME "provider" \notin closed PROVE SettlementInv'
  BY <1>0
<1>3. cash' = [cash EXCEPT ![i] = cash'[i]] /\ cash'[i] = 1
  BY <1>1, <1>2 DEF PortalCash, CashPosted
<1>4. Moves(p)
  <2>1. PICK r \in SessionState : r = GotoState(p, "allocate")
    BY <1>1 DEF GotoState, SessionState, Phase
  <2>2. sess' = [sess EXCEPT ![p] = r]
    BY <2>1 DEF PortalCash, Goto, GotoState, TypeOK
  <2>3. Knows(r)'
    <3>1. /\ r.i = i /\ r.phase = "allocate" /\ UNCHANGED <<gateway, alloc>>
          /\ r.found = "allocated" => alloc[i] > 0
      BY <1>1, <2>1 DEF GotoState, SessionState, PortalCash, Knows
    <3> QED
      BY <1>1, <1>3, <3>1 DEF Knows, PaidPhases, CashPhases
  <2> QED
    BY <2>2, <2>3 DEF Moves
<1>5. Touches(i) /\ WellAnswered(i)
  BY <1>1, <1>3 DEF PortalCash, TypeOK, Touches, WellAnswered
<1>6. WellPosted(i)
  BY <1>1, <1>2, <1>3 DEF PortalCash, WellPosted
<1> QED
  BY <1>1, <1>4, <1>5, <1>6, MoneyStep

(* The two steps of the portal around the allocation.                      *)
LEMMA PortalAllocationKeeps ==
    ASSUME SettlementInv, NEW p \in Session, PortalSearch(p) \/ PortalAllocate(p)
    PROVE  SettlementInv'
<1> USE DEF SettlementInv
<1> DEFINE i == sess[p].i
<1>1. /\ i \in Intent /\ gateway[i] = "paid" /\ cash[i] > 0
      /\ sess[p] \in SessionState /\ Knows(sess[p])
  BY DEF PortalSearch, PortalAllocate, SessionInv, Knows, At, PaidPhases, CashPhases,
         TypeOK, SessionState
<1>2. /\ cash[i] \in Nat /\ cash[i] = 1 /\ alloc[i] \in Nat /\ alloc[i] <= cash[i]
      /\ exc \in [Intent -> {"none", "open", "resolved"}]
      /\ event[i] \in {"none", "failed", "processed"} /\ intent[i] \in Row
  BY <1>1 DEF TypeOK, MoneyInv, CashPostedOnce, AllocatedOnce
<1>3. /\ alloc' = [alloc EXCEPT ![i] = alloc'[i]] /\ exc' = [exc EXCEPT ![i] = exc'[i]]
      /\ alloc'[i] \in Nat /\ alloc[i] <= alloc'[i] /\ alloc'[i] <= 1
      /\ exc'[i] \in {"none", "open", "resolved"}
  <2>1. CASE PortalSearch(p)
    <3>1. Resolved(i) \in {"none", "open", "resolved"}
      BY <1>1, <1>2 DEF Resolved
    <3> QED
      BY <1>1, <1>2, <2>1, <3>1 DEF PortalSearch, TypeOK
  <2>2. CASE PortalAllocate(p)
    BY <1>1, <2>2, AllocatedFacts DEF PortalAllocate
  <2> QED
    BY <2>1, <2>2
<1>4. UNCHANGED <<gateway, wire, receipt, quarantined, closed, intent, cash, event, faults>>
  BY DEF PortalSearch, PortalAllocate
<1>5. Moves(p)
  <2>1. PICK to \in {"project", "confirm"} : Goto(p, to)
    BY DEF PortalSearch, PortalAllocate
  <2>2. PICK r \in SessionState : r = GotoState(p, to)
    BY <1>1 DEF GotoState, SessionState, Phase
  <2>3. sess' = [sess EXCEPT ![p] = r]
    BY <2>1, <2>2 DEF Goto, GotoState, TypeOK
  <2>4. Knows(r)'
    <3>1. /\ r.i = i /\ r.phase \in {"project", "confirm"}
          /\ r.found = "allocated" => alloc[i] > 0
      BY <1>1, <2>2 DEF GotoState, SessionState, Knows
    <3> QED
      BY <1>1, <1>2, <1>3, <1>4, <3>1 DEF Knows, PaidPhases, CashPhases
  <2> QED
    BY <2>3, <2>4 DEF Moves
<1>6. Touches(i) /\ WellAnswered(i)
  BY <1>1, <1>3, <1>4 DEF TypeOK, Touches, WellAnswered
<1>7. WellPosted(i)
  BY <1>1, <1>2, <1>3, <1>4 DEF WellPosted
<1> QED
  BY <1>1, <1>5, <1>6, <1>7, MoneyStep

(* The portal's last commit: the intent.                                   *)
LEMMA PortalCompleteKeeps ==
    ASSUME SettlementInv, NEW p \in Session, PortalComplete(p)
    PROVE  SettlementInv'
<1> USE DEF SettlementInv
<1> DEFINE i == sess[p].i
<1>1. i \in Intent /\ gateway[i] = "paid" /\ cash[i] > 0 /\ sess[p].seen \in Row
  BY DEF PortalComplete, SessionInv, Knows, At, PaidPhases, CashPhases, TypeOK
<1>2. /\ intent' = [intent EXCEPT ![i] = intent'[i]] /\ intent'[i] \in Row
      /\ intent'[i].linked
  BY <1>1, CompletedFacts DEF PortalComplete, TypeOK
<1>3. Moves(p)
  BY DoneLeaves DEF PortalComplete, Moves
<1>4. Touches(i) /\ WellAnswered(i)
  BY <1>1, <1>2 DEF PortalComplete, TypeOK, Touches, WellAnswered
<1>5. WellPosted(i)
  BY <1>1, <1>2 DEF PortalComplete, TypeOK, WellPosted, MoneyInv, CashPostedOnce,
                    AllocatedOnce
<1> QED
  BY <1>1, <1>3, <1>4, <1>5, MoneyStep

(* An expiry touches the status of the intent only.                        *)
LEMMA SweepExpireKeeps ==
    ASSUME SettlementInv, SweepExpire
    PROVE  SettlementInv'
<1> USE DEF SettlementInv
<1> DEFINE i == sess[Sweep].i
<1>0. Sweep \in Session
  BY DEF Session
<1>1. i \in Intent
  BY <1>0 DEF SweepExpire, SessionInv, Knows, At
<1>2. /\ intent' = [intent EXCEPT ![i] = intent'[i]] /\ intent'[i] \in Row
      /\ intent'[i].linked = intent[i].linked
  <2>1. intent[i] \in Row
    BY <1>1 DEF TypeOK
  <2>2. CASE UNCHANGED intent
    BY <1>1, <2>1, <2>2 DEF TypeOK
  <2>3. CASE intent' = [intent EXCEPT ![i].status = "expired"]
    BY <1>1, <2>1, <2>3 DEF TypeOK, Row
  <2> QED
    BY <2>2, <2>3 DEF SweepExpire
<1>3. Moves(Sweep)
  BY <1>0, DoneLeaves DEF SweepExpire, Moves
<1>4. Touches(i) /\ WellAnswered(i)
  BY <1>1, <1>2 DEF SweepExpire, TypeOK, Touches, WellAnswered
<1>5. WellPosted(i)
  BY <1>1, <1>2 DEF SweepExpire, TypeOK, WellPosted, MoneyInv, CashPostedOnce,
                    AllocatedOnce, MoneyIsConfirmed
<1> QED
  BY <1>0, <1>1, <1>3, <1>4, <1>5, MoneyStep

-----------------------------------------------------------------------------
(* The specification.                                                      *)
LEMMA InitKeeps == Init => SettlementInv
<1> SUFFICES ASSUME Init PROVE SettlementInv
  OBVIOUS
<1>1. PICK deposits \in SUBSET MayDeposit :
          intent = [i \in Intent |-> NewRow(
              IF i \in deposits THEN "account_credit_deposit" ELSE "invoice_payment")]
  BY DEF Init
<1>2. intent \in [Intent -> Row] /\ \A i \in Intent : intent[i].linked = FALSE
  BY <1>1 DEF NewRow, Row, Purpose
<1>3. sess \in [Session -> SessionState] /\ \A p \in Session : Knows(sess[p])
  BY IdleKnows DEF Init
<1>4. TypeOK
  <2>1. receipt \in [Intent -> Receipt] /\ faults \in 0..MaxFaults
    BY SettlementAssumption DEF Init, Receipt, NoReceipt
  <2>2. /\ gateway \in [Intent -> {"open", "declined", "paid"}]
        /\ wire \subseteq Intent \X {"success", "failed"} /\ quarantined \in BOOLEAN
        /\ closed \subseteq {"account", "provider"}
        /\ cash \in [Intent -> Nat] /\ alloc \in [Intent -> Nat]
        /\ event \in [Intent -> {"none", "failed", "processed"}]
        /\ exc \in [Intent -> {"none", "open", "resolved"}]
    BY DEF Init
  <2> QED
    BY <1>2, <1>3, <2>1, <2>2 DEF TypeOK, SessionState, Receipt
<1>5. AnnounceInv
  BY DEF Init, AnnounceInv, NoReceipt
<1>6. MoneyInv
  BY <1>2 DEF Init, MoneyInv, CashPostedOnce, AllocatedOnce, MoneyIsConfirmed,
              JointSettlement, NoReceipt
<1> QED
  BY <1>3, <1>4, <1>5, <1>6 DEF SettlementInv, SessionInv

(* Nothing happens.                                                        *)
LEMMA StutterKeeps == SettlementInv /\ UNCHANGED vars => SettlementInv'
BY DEF SettlementInv, TypeOK, AnnounceInv, MoneyInv, CashPostedOnce, AllocatedOnce,
       MoneyIsConfirmed, JointSettlement, SessionInv, Knows, vars

(* Every step keeps the invariant.                                         *)
LEMMA StepKeeps ==
    ASSUME SettlementInv, Next
    PROVE  SettlementInv'
<1>1. CASE External
  BY <1>1, GatewayKeeps, LoseKeeps, BackOfficeKeeps DEF External
<1>2. ASSUME NEW p \in Hook, NEW i \in Intent, NEW kind \in {"success", "failed"},
             ReceiveWebhook(p, i, kind)
      PROVE  SettlementInv'
  BY <1>2, ReceiveWebhookKeeps DEF Session
<1>3. ASSUME NEW p \in Portal, NEW i \in Intent, VerifyReturn(p, i) PROVE SettlementInv'
  BY <1>3, VerifyReturnKeeps DEF Session
<1>4. CASE SweepStep \/ \E i \in Intent : SweepUnavailable(i)
  BY <1>4, SweepMoves, SweepExpireKeeps DEF SweepStep
<1>5. ASSUME NEW p \in Session, HookStep(p) PROVE SettlementInv'
  BY <1>5, PrepareWebhookKeeps, RecordDeclineKeeps, AdmitEventKeeps, SettleWebhookKeeps,
     RecordFailureKeeps DEF HookStep
<1>6. ASSUME NEW p \in Session, PortalStep(p) PROVE SettlementInv'
  BY <1>6, PortalDepositKeeps, PortalCashKeeps, PortalAllocationKeeps, PortalReadKeeps,
     PortalCompleteKeeps DEF PortalStep
<1>7. ASSUME NEW p \in Session, ScopeStep(p) \/ Fail(p) \/ Crash(p) PROVE SettlementInv'
  BY <1>7, LockAccountKeeps, SettleInScopeKeeps, FaultsKeep DEF ScopeStep
<1> QED
  BY <1>1, <1>2, <1>3, <1>4, <1>5, <1>6, <1>7 DEF Next

(* The invariant of the three racing paths: types, announcements, money    *)
(* and what each open session knows.                                       *)
THEOREM SettlementInvariant == Spec => []SettlementInv
<1>1. Init => SettlementInv
  BY InitKeeps
<1>2. SettlementInv /\ [Next]_vars => SettlementInv'
  BY StepKeeps, StutterKeeps
<1> QED
  BY <1>1, <1>2, PTL DEF Spec

(* Every row, receipt and session keeps its type; attempts and faults stay *)
(* within their bounds.                                                    *)
THEOREM SettlementTypes == Spec => []TypeOK
<1>1. SettlementInv => TypeOK
  BY DEF SettlementInv
<1> QED
  BY <1>1, SettlementInvariant, PTL

(* Webhook, portal and sweep post one gateway transaction as one Payment,  *)
(* with no help of the unique index: the account lock and the second       *)
(* replay() of stage_verified_provider_settlement are enough.              *)
THEOREM PostedOnce == Spec => []CashPostedOnce
<1>1. SettlementInv => CashPostedOnce
  BY DEF SettlementInv, MoneyInv
<1> QED
  BY <1>1, SettlementInvariant, PTL

(* A Payment is allocated at most once to its invoice, although the search *)
(* for an allocation is made without a lock: the preview repeated under    *)
(* the account lock refuses the second one.                                *)
THEOREM AllocationOnce == Spec => []AllocatedOnce
<1>1. SettlementInv => AllocatedOnce
  BY DEF SettlementInv, MoneyInv
<1> QED
  BY <1>1, SettlementInvariant, PTL

(* Links, processed events and allocations are backed by a Payment, and a  *)
(* Payment by a charge that the gateway confirmed, although sessions act   *)
(* on observations made before they waited.                                *)
THEOREM ConfirmedMoney == Spec => []MoneyIsConfirmed
<1>1. SettlementInv => MoneyIsConfirmed
  BY DEF SettlementInv, MoneyInv
<1> QED
  BY <1>1, SettlementInvariant, PTL

(* A success webhook answered as processed has left cash, provider event   *)
(* and linked intent, and no later step of any path takes them back.       *)
THEOREM JointWebhook == Spec => []JointSettlement
<1>1. SettlementInv => JointSettlement
  BY DEF SettlementInv, MoneyInv
<1> QED
  BY <1>1, SettlementInvariant, PTL
=============================================================================
