---------------------- MODULE IntegrationDeliveryProofs ----------------------
(***************************************************************************)
(* Proofs about IntegrationDelivery for any deliveries, sessions and       *)
(* limits.  A flushed row is locked until its transaction ends; the task   *)
(* of a delivery that was enqueued once is one token, in the broker or     *)
(* with one worker, and while it exists the committed attempt count is     *)
(* below the budget and is the one the worker read.                        *)
(***************************************************************************)
EXTENDS IntegrationDelivery, TLAPS

Locking == {"staged", "queued", "leased", "sent"}
Working == {"read", "leased", "sent"}

(* Session s executes a task of delivery d.                                *)
Works(s, d) == at[s] = d /\ phase[s] \in Working

(* Workers, and only they, execute tasks.                                  *)
RoleInv ==
    \A s \in Session : IF s \in Worker THEN phase[s] \in Working \cup {"idle"}
                                       ELSE phase[s] \notin Working

(* Two sessions never hold the lock of one row.                            *)
LockInv ==
    \A s, t \in Session :
       phase[s] \in Locking /\ phase[t] \in Locking /\ at[s] = at[t] => s = t

(* What was sent, or is being executed, has a committed row.               *)
Committed(d) ==
    state[d] = "absent" => sent[d] = 0 /\ \A s \in Session : ~Works(s, d)

(* The only task of d: in the broker or with one worker.                   *)
OneToken(d) ==
    /\ kicks[d] = 0 => tasks[d] = 0 /\ tries[d] = 0 /\ sent[d] = 0
    /\ \A s \in Session : Works(s, d) => kicks[d] # 0 /\ tasks[d] = 0 /\ seen[s] = tries[d]
    /\ \A s, t \in Session : Works(s, d) /\ Works(t, d) => s = t
    /\ tasks[d] <= 1

(* While it exists, the budget is not used up; a request whose outcome is  *)
(* not recorded is in flight, or its worker died.                          *)
Spent(d) ==
    /\ tries[d] <= MaxAttempts
    /\ tasks[d] > 0 \/ (\E s \in Session : Works(s, d)) => tries[d] < MaxAttempts
    /\ sent[d] <= tries[d] + crashes + 1
    /\ (\A s \in Session : at[s] = d => phase[s] # "sent") => sent[d] <= tries[d] + crashes

RowInv ==
    \A d \in Delivery : Committed(d) /\ (kicks[d] <= 1 => OneToken(d) /\ Spent(d))

DeliveryInv == TypeOK /\ RoleInv /\ LockInv /\ RowInv

-----------------------------------------------------------------------------
(* Session s goes to phase p of delivery d, having read n.                 *)
Goes(s, p, d, n) ==
    /\ Enter(s, p, d, n)
    /\ p \in Phase /\ d \in Delivery \cup {NoDelivery} /\ n \in Nat
    /\ d = NoDelivery <=> p = "idle"
    /\ IF s \in Worker THEN p \in Working \cup {"idle"} ELSE p \notin Working
    /\ p \in Locking => ~RowLocked(d) \/ (phase[s] \in Locking /\ at[s] = d)

(* A move changes one session and keeps the types of all.                  *)
LEMMA EnterSets ==
    ASSUME TypeOK, NEW s \in Session, NEW p, NEW d, NEW n, Goes(s, p, d, n)
    PROVE  /\ phase' \in [Session -> Phase] /\ at' \in [Session -> Delivery \cup {NoDelivery}]
           /\ seen' \in [Session -> Nat]
           /\ \A t \in Session : at'[t] = NoDelivery <=> phase'[t] = "idle"
           /\ phase'[s] = p /\ at'[s] = d /\ seen'[s] = n
           /\ \A t \in Session \ {s} :
                 phase'[t] = phase[t] /\ at'[t] = at[t] /\ seen'[t] = seen[t]
BY DEF TypeOK, Goes, Enter

(* The roles and the locks after a step of one session.                    *)
LEMMA EnterKeeps ==
    ASSUME TypeOK, RoleInv, LockInv, NEW s \in Session, NEW p, NEW d, NEW n,
           Goes(s, p, d, n)
    PROVE  RoleInv' /\ LockInv'
<1>1. RoleInv'
  BY EnterSets DEF RoleInv, Goes
<1>2. p \in Locking => \A t \in Session \ {s} : ~(phase[t] \in Locking /\ at[t] = d)
  BY DEF Goes, RowLocked, Locking, LockInv
<1>3. LockInv'
  BY <1>2, EnterSets DEF LockInv
<1> QED
  BY <1>1, <1>3

(* A step writes delivery d and the sessions that work on it only.         *)
Elsewhere(d) ==
    /\ \A c \in Delivery \ {d} :
          /\ state'[c] = state[c] /\ tries'[c] = tries[c] /\ tasks'[c] = tasks[c]
          /\ kicks'[c] = kicks[c] /\ sent'[c] = sent[c]
    /\ \A t \in Session :
          \/ phase'[t] = phase[t] /\ at'[t] = at[t] /\ seen'[t] = seen[t]
          \/ at[t] \in {d, NoDelivery} /\ at'[t] \in {d, NoDelivery}
    /\ crashes' \in 0..MaxCrashes /\ crashes' >= crashes

(* The part of RowInv about one delivery.                                  *)
Good(d) == Committed(d) /\ (kicks[d] <= 1 => OneToken(d) /\ Spent(d))

(* What a step that neither moves nor spends the task of d may do: a       *)
(* worker may give it up, but not one whose request is in flight.          *)
LEMMA RowKept ==
    ASSUME TypeOK, RowInv, NEW d \in Delivery,
           state'[d] = state[d] \/ state'[d] # "absent",
           kicks'[d] = kicks[d], tries'[d] = tries[d], sent'[d] = sent[d],
           tasks'[d] \in Nat, tasks'[d] <= tasks[d],
           crashes' \in Nat, crashes' >= crashes,
           \A t \in Session : Works(t, d)' => Works(t, d) /\ seen'[t] = seen[t],
           \A t \in Session : at[t] = d /\ phase[t] = "sent"
                                 => at'[t] = d /\ phase'[t] = "sent"
    PROVE  Good(d)'
<1>1. /\ tries[d] \in Nat /\ sent[d] \in Nat /\ crashes \in Nat /\ tasks[d] \in Nat
      /\ kicks[d] \in Nat
  BY DeliveryAssumption DEF TypeOK
<1>2. Committed(d)'
  BY DEF RowInv, Committed
<1>3. OneToken(d) => OneToken(d)'
  <2>1. tasks[d] = 0 => tasks'[d] = 0
    BY <1>1
  <2>2. tasks[d] <= 1 => tasks'[d] <= 1
    BY <1>1
  <2> QED
    BY <2>1, <2>2 DEF OneToken
<1>4. Spent(d) => Spent(d)'
  <2>1. (\A t \in Session : at'[t] = d => phase'[t] # "sent")
           => (\A t \in Session : at[t] = d => phase[t] # "sent")
    OBVIOUS
  <2>2. (\E t \in Session : Works(t, d)') => (\E t \in Session : Works(t, d))
    OBVIOUS
  <2> QED
    BY <1>1, <2>1, <2>2 DEF Spent
<1> QED
  BY <1>2, <1>3, <1>4 DEF RowInv, Good

(* A delivery is good when the step is elsewhere.                          *)
LEMMA ElsewhereKeeps ==
    ASSUME TypeOK, TypeOK', RowInv, NEW d \in Delivery, Elsewhere(d), Good(d)'
    PROVE  RowInv'
<1> SUFFICES ASSUME NEW c \in Delivery, c # d PROVE Good(c)'
  BY DEF RowInv, Good
<1>1. /\ state'[c] = state[c] /\ tries'[c] = tries[c] /\ tasks'[c] = tasks[c]
      /\ kicks'[c] = kicks[c] /\ sent'[c] = sent[c] /\ crashes' \in Nat /\ crashes' >= crashes
  BY DeliveryAssumption DEF Elsewhere
<1>2. /\ \A t \in Session : Works(t, c)' => Works(t, c) /\ seen'[t] = seen[t]
      /\ \A t \in Session : at[t] = c /\ phase[t] = "sent" => at'[t] = c /\ phase'[t] = "sent"
  BY DeliveryAssumption DEF Elsewhere, Works
<1>3. tasks'[c] \in Nat /\ tasks'[c] <= tasks[c]
  BY <1>1 DEF TypeOK
<1> QED
  BY <1>1, <1>2, <1>3, RowKept

(* The columns keep their types.                                           *)
RowTypes ==
    /\ state \in [Delivery -> States] /\ tries \in [Delivery -> Nat]
    /\ tasks \in [Delivery -> Nat] /\ kicks \in [Delivery -> 0..MaxKicks]
    /\ sent \in [Delivery -> Nat] /\ replays \in 0..MaxReplays /\ crashes \in 0..MaxCrashes

(* A step of one session on one delivery.                                  *)
LEMMA SessionStepKeeps ==
    ASSUME DeliveryInv, NEW d \in Delivery, NEW s \in Session, NEW p, NEW c, NEW n,
           Goes(s, p, c, n), RowTypes', Elsewhere(d), Good(d)'
    PROVE  DeliveryInv'
<1> USE DEF DeliveryInv
<1>1. TypeOK'
  BY EnterSets DEF TypeOK, RowTypes
<1>2. RowInv'
  BY <1>1, ElsewhereKeeps
<1> QED
  BY <1>1, <1>2, EnterKeeps

(* A step that moves no session.                                           *)
LEMMA QuietStepKeeps ==
    ASSUME DeliveryInv, NEW d \in Delivery, UNCHANGED sessVars, RowTypes', Elsewhere(d),
           Good(d)'
    PROVE  DeliveryInv'
<1> USE DEF DeliveryInv
<1>1. TypeOK'
  BY DEF TypeOK, RowTypes, sessVars
<1>2. RowInv'
  BY <1>1, ElsewhereKeeps
<1>3. RoleInv' /\ LockInv'
  BY DEF RoleInv, LockInv, sessVars
<1> QED
  BY <1>1, <1>2, <1>3

(* A session moves on delivery d, and d is the only row written.           *)
Confined(s, d) ==
    /\ at[s] \in {d, NoDelivery} /\ at'[s] \in {d, NoDelivery}
    /\ state' = [state EXCEPT ![d] = state'[d]] /\ tries' = [tries EXCEPT ![d] = tries'[d]]
    /\ tasks' = [tasks EXCEPT ![d] = tasks'[d]] /\ kicks' = [kicks EXCEPT ![d] = kicks'[d]]
    /\ sent' = [sent EXCEPT ![d] = sent'[d]]
    /\ state'[d] \in States \ {"absent"} \/ state'[d] = state[d]
    /\ tries'[d] \in Nat /\ tasks'[d] \in Nat /\ kicks'[d] \in 0..MaxKicks /\ sent'[d] \in Nat
    /\ replays' \in 0..MaxReplays /\ crashes' \in 0..MaxCrashes /\ crashes' >= crashes

(* A step confined to one delivery has to restore that row's part only.    *)
LEMMA ConfinedKeeps ==
    ASSUME DeliveryInv, NEW d \in Delivery, NEW s \in Session, NEW p, NEW c, NEW n,
           Goes(s, p, c, n), Confined(s, d), Good(d)'
    PROVE  DeliveryInv'
<1>1. TypeOK
  BY DEF DeliveryInv
<1>2. RowTypes'
  <2>1. state'[d] \in States
    BY <1>1 DEF TypeOK, Confined
  <2> QED
    BY <1>1, <2>1 DEF TypeOK, Confined, RowTypes
<1>3. Elsewhere(d)
  <2>1. \A t \in Session :
           \/ phase'[t] = phase[t] /\ at'[t] = at[t] /\ seen'[t] = seen[t]
           \/ at[t] \in {d, NoDelivery} /\ at'[t] \in {d, NoDelivery}
    BY <1>1, EnterSets DEF Confined
  <2>2. \A b \in Delivery \ {d} :
           /\ state'[b] = state[b] /\ tries'[b] = tries[b] /\ tasks'[b] = tasks[b]
           /\ kicks'[b] = kicks[b] /\ sent'[b] = sent[b]
    BY <1>1 DEF Confined, TypeOK
  <2> QED
    BY <2>1, <2>2 DEF Confined, Elsewhere
<1> QED
  BY <1>2, <1>3, SessionStepKeeps

(* A step that leaves the task of d, its count and its requests alone.     *)
LEMMA MoveKeeps ==
    ASSUME DeliveryInv, NEW d \in Delivery, NEW s \in Session, NEW p, NEW c, NEW n,
           Goes(s, p, c, n), at[s] \in {d, NoDelivery}, c \in {d, NoDelivery},
           phase[s] # "sent", p \in Working => phase[s] \in Working /\ n = seen[s],
           state' = [state EXCEPT ![d] = state'[d]],
           state'[d] \in States \ {"absent"} \/ state'[d] = state[d],
           UNCHANGED <<tries, tasks, kicks, sent>>,
           replays' \in 0..MaxReplays, crashes' \in 0..MaxCrashes, crashes' >= crashes
    PROVE  DeliveryInv'
<1>1. TypeOK /\ RowInv
  BY DEF DeliveryInv
<1>2. /\ phase'[s] = p /\ at'[s] = c /\ seen'[s] = n
      /\ \A t \in Session \ {s} :
            phase'[t] = phase[t] /\ at'[t] = at[t] /\ seen'[t] = seen[t]
  BY <1>1, EnterSets
<1>3. Confined(s, d)
  BY <1>1, <1>2 DEF Confined, TypeOK
<1>4. c = d /\ phase[s] \in Working => at[s] = d
  BY <1>1 DEF TypeOK, Working
<1>5. \A t \in Session : Works(t, d)' => Works(t, d) /\ seen'[t] = seen[t]
  BY <1>2, <1>4 DEF Works
<1>6. \A t \in Session : at[t] = d /\ phase[t] = "sent" => at'[t] = d /\ phase'[t] = "sent"
  BY <1>2
<1>7. tasks'[d] \in Nat /\ tasks'[d] <= tasks[d] /\ crashes' \in Nat
  BY <1>1, DeliveryAssumption DEF TypeOK
<1>8. Good(d)'
  BY <1>1, <1>5, <1>6, <1>7, RowKept
<1> QED
  BY <1>3, <1>8, ConfinedKeeps

(* Leaving is always allowed.                                              *)
LEMMA LeaveGoes ==
    ASSUME NEW s \in Session, Leave(s)
    PROVE  Goes(s, "idle", NoDelivery, 0)
BY DEF Leave, Goes, Phase, Working, Locking

(* The handler's and the operators' rows, and a task that ends or flushes. *)
LEMMA MovesKeep ==
    ASSUME DeliveryInv, NEW s \in Session,
           \/ s \in Dispatcher /\ \E d \in Delivery : HandleNew(s, d)
           \/ s \in Operator /\ \E d \in Delivery : ManualCreate(s, d) \/ ReplayRead(s, d)
           \/ s \in Dispatcher /\ HandleCommit(s)
           \/ s \in Operator /\ ReplayWrite(s)
           \/ s \in Worker /\ (TaskRefused(s) \/ Lease(s))
    PROVE  DeliveryInv'
<1>1. TypeOK /\ crashes \in 0..MaxCrashes /\ crashes >= crashes /\ replays \in 0..MaxReplays
  BY DeliveryAssumption DEF DeliveryInv, TypeOK
<1>2. s \in Dispatcher \cup Operator => s \notin Worker
  BY DeliveryAssumption
<1>3. ASSUME NEW d \in Delivery, s \in Dispatcher, HandleNew(s, d) PROVE DeliveryInv'
  <2>1. Goes(s, "staged", d, 0)
    BY <1>2, <1>3, DeliveryAssumption DEF Goes, HandleNew, Phase, Working, Locking
  <2> QED
    BY <1>1, <1>3, <2>1, MoveKeeps DEF HandleNew, rowVars, Working, TypeOK
<1>4. ASSUME NEW d \in Delivery, s \in Operator, ManualCreate(s, d) PROVE DeliveryInv'
  <2>1. Goes(s, "committed", d, 0)
    BY <1>2, <1>4, DeliveryAssumption DEF Goes, ManualCreate, Phase, Working, Locking
  <2> QED
    BY <1>1, <1>4, <2>1, MoveKeeps DEF ManualCreate, SetState, Working, TypeOK, States
<1>5. ASSUME NEW d \in Delivery, s \in Operator, ReplayRead(s, d) PROVE DeliveryInv'
  <2>1. Goes(s, "replay", d, 0)
    BY <1>2, <1>5, DeliveryAssumption DEF Goes, ReplayRead, Phase, Working, Locking
  <2>2. replays' \in 0..MaxReplays
    BY <1>1, <1>5, DeliveryAssumption DEF ReplayRead
  <2> QED
    BY <1>1, <1>5, <2>1, <2>2, MoveKeeps DEF ReplayRead, rowVars, Working, TypeOK
<1>6. ASSUME HandleCommit(s) PROVE DeliveryInv'
  <2>1. PICK d \in Delivery : d = at[s]
    BY <1>1, <1>6 DEF HandleCommit, TypeOK
  <2> QED
    BY <1>1, <1>6, <2>1, LeaveGoes, MoveKeeps
       DEF HandleCommit, SetState, Working, TypeOK, States
<1>7. ASSUME s \in Operator, ReplayWrite(s) PROVE DeliveryInv'
  <2>1. PICK d \in Delivery : d = at[s]
    BY <1>1, <1>7 DEF ReplayWrite, TypeOK
  <2>2. Goes(s, "committed", d, 0)
    BY <1>2, <1>7, <2>1, DeliveryAssumption DEF Goes, ReplayWrite, Phase, Working, Locking
  <2> QED
    BY <1>1, <1>7, <2>1, <2>2, MoveKeeps DEF ReplayWrite, SetState, Working, TypeOK, States
<1>8. ASSUME TaskRefused(s) PROVE DeliveryInv'
  <2>1. PICK d \in Delivery : d = at[s]
    BY <1>1, <1>8 DEF TaskRefused, TypeOK
  <2> QED
    BY <1>1, <1>8, <2>1, LeaveGoes, MoveKeeps DEF TaskRefused, rowVars, Working, TypeOK
<1>9. ASSUME s \in Worker, Lease(s) PROVE DeliveryInv'
  <2>1. PICK d \in Delivery, n \in Nat : d = at[s] /\ n = seen[s]
    BY <1>1, <1>9 DEF Lease, TypeOK
  <2>2. Goes(s, "leased", d, n)
    BY <1>9, <2>1, DeliveryAssumption DEF Goes, Lease, Phase, Working
  <2> QED
    BY <1>1, <1>9, <2>1, <2>2, MoveKeeps DEF Lease, rowVars, Working, TypeOK
<1> QED
  BY <1>3, <1>4, <1>5, <1>6, <1>7, <1>8, <1>9

-----------------------------------------------------------------------------
(* Enqueueing: the first task of a delivery finds nothing spent.           *)
LEMMA RowEnqueued ==
    ASSUME TypeOK, RowInv, NEW d \in Delivery, NEW n \in {0, 1}, Enqueue(d, n),
           UNCHANGED <<rowVars, sent, crashes>>,
           \A t \in Session : (at[t] = d /\ phase[t] \in Working) \/ Works(t, d)'
              => at'[t] = at[t] /\ phase'[t] = phase[t] /\ seen'[t] = seen[t]
    PROVE  Good(d)'
<1>1. /\ tries[d] \in Nat /\ sent[d] \in Nat /\ crashes \in Nat /\ tasks[d] \in Nat
      /\ kicks[d] \in Nat /\ MaxAttempts \in Nat \ {0}
  BY DeliveryAssumption DEF TypeOK
<1>2. /\ kicks'[d] = kicks[d] + n /\ tasks'[d] = tasks[d] + n
      /\ state' = state /\ tries' = tries /\ sent' = sent /\ crashes' = crashes
  BY DEF Enqueue, rowVars, TypeOK
<1>3. \A t \in Session : Works(t, d)' => Works(t, d) /\ seen'[t] = seen[t]
  BY DEF Works
<1>4. CASE n = 0
  <2>1. \A t \in Session : at[t] = d /\ phase[t] = "sent" => at'[t] = d /\ phase'[t] = "sent"
    BY DEF Working
  <2> QED
    BY <1>1, <1>2, <1>3, <1>4, <2>1, RowKept
<1>5. CASE n = 1
  <2>0. Committed(d) /\ state'[d] = state[d] /\ sent'[d] = sent[d]
    BY <1>2 DEF RowInv
  <2>1. Committed(d)'
    BY <1>3, <2>0 DEF Committed
  <2>2. ASSUME kicks'[d] <= 1
        PROVE  OneToken(d)' /\ Spent(d)'
    <3>1. kicks[d] = 0
      BY <1>1, <1>2, <1>5, <2>2
    <3>2. OneToken(d)
      BY <1>1, <3>1 DEF RowInv
    <3>3. tasks[d] = 0 /\ tries[d] = 0 /\ sent[d] = 0 /\ \A t \in Session : ~Works(t, d)'
      BY <1>3, <3>1, <3>2 DEF OneToken
    <3>4. kicks'[d] = 1 /\ tasks'[d] = 1
      BY <1>2, <1>5, <3>1, <3>3
    <3>5. OneToken(d)'
      BY <3>3, <3>4 DEF OneToken
    <3>6. Spent(d)'
      BY <1>1, <1>2, <3>3 DEF Spent
    <3> QED
      BY <3>5, <3>6
  <2> QED
    BY <2>1, <2>2 DEF Good
<1> QED
  BY <1>4, <1>5

(* Dispatch and replay put at most one task of a delivery in the broker.   *)
LEMMA EnqueuesKeep ==
    ASSUME DeliveryInv, NEW s \in Session, NEW n \in {0, 1},
           \/ s \in Dispatcher /\ HandleEnqueue(s, n)
           \/ s \in Operator /\ OperatorEnqueue(s, n)
           \/ \E d \in Delivery : HandleExisting(s, d, n)
    PROVE  DeliveryInv'
<1>1. TypeOK /\ RowInv /\ crashes \in 0..MaxCrashes /\ crashes >= crashes
  BY DeliveryAssumption DEF DeliveryInv, TypeOK
<1>2. s \in Dispatcher \cup Operator => s \notin Worker
  BY DeliveryAssumption
<1>3. ASSUME NEW d \in Delivery, Enqueue(d, n)
      PROVE  /\ tasks' = [tasks EXCEPT ![d] = tasks'[d]] /\ tasks'[d] \in Nat
             /\ kicks' = [kicks EXCEPT ![d] = kicks'[d]] /\ kicks'[d] \in 0..MaxKicks
  <2>1. kicks[d] + n \in 0..MaxKicks /\ tasks[d] + n \in Nat
    BY <1>1, <1>3, DeliveryAssumption DEF TypeOK, Enqueue
  <2> QED
    BY <1>1, <1>3, <2>1 DEF TypeOK, Enqueue
<1>4. ASSUME NEW p \in Phase \ Working, NEW d \in Delivery, NEW c \in {d, NoDelivery},
             Goes(s, p, c, 0), at[s] = d, phase[s] \notin Working,
             Enqueue(d, n), UNCHANGED <<rowVars, sent, replays, crashes>>
      PROVE  DeliveryInv'
  <2>1. /\ phase'[s] = p /\ at'[s] = c
        /\ \A t \in Session \ {s} :
              phase'[t] = phase[t] /\ at'[t] = at[t] /\ seen'[t] = seen[t]
    BY <1>1, <1>4, EnterSets
  <2>2. Confined(s, d)
    BY <1>1, <1>3, <1>4, <2>1 DEF Confined, TypeOK, rowVars
  <2>3. Good(d)'
    BY <1>1, <1>4, <2>1, RowEnqueued DEF Works
  <2> QED
    BY <1>4, <2>2, <2>3, ConfinedKeeps
<1>5. ASSUME s \in Dispatcher, HandleEnqueue(s, n) PROVE DeliveryInv'
  <2>1. PICK d \in Delivery : d = at[s]
    BY <1>1, <1>5 DEF HandleEnqueue, TypeOK
  <2>2. Goes(s, "queued", d, 0)
    BY <1>2, <1>5, <2>1, DeliveryAssumption DEF Goes, HandleEnqueue, Phase, Working, Locking
  <2> QED
    BY <1>4, <1>5, <2>1, <2>2 DEF HandleEnqueue, Phase, Working
<1>6. ASSUME OperatorEnqueue(s, n) PROVE DeliveryInv'
  <2>1. PICK d \in Delivery : d = at[s]
    BY <1>1, <1>6 DEF OperatorEnqueue, TypeOK
  <2> QED
    BY <1>4, <1>6, <2>1, LeaveGoes DEF OperatorEnqueue, Phase, Working
<1>7. ASSUME NEW d \in Delivery, HandleExisting(s, d, n) PROVE DeliveryInv'
  <2>1. Enqueue(d, n) /\ UNCHANGED <<rowVars, sent, replays, crashes>> /\ UNCHANGED sessVars
    BY <1>7 DEF HandleExisting
  <2>2. UNCHANGED <<state, tries, sent, replays, crashes, phase, at, seen>>
    BY <2>1 DEF rowVars, sessVars
  <2>3. RowTypes'
    BY <1>1, <1>3, <2>1, <2>2 DEF RowTypes, TypeOK
  <2>4. Elsewhere(d)
    BY <1>1, <1>3, <2>1, <2>2 DEF Elsewhere, TypeOK
  <2>5. Good(d)'
    BY <1>1, <2>1, <2>2, RowEnqueued DEF Works
  <2> QED
    BY <2>1, <2>3, <2>4, <2>5, QuietStepKeeps
<1> QED
  BY <1>5, <1>6, <1>7

-----------------------------------------------------------------------------
(* The task of a delivery: taken, sent, recorded, lost with its worker.    *)

(* The numbers of a delivery.                                              *)
LEMMA Counts ==
    ASSUME TypeOK, NEW d \in Delivery
    PROVE  /\ tries[d] \in Nat /\ sent[d] \in Nat /\ crashes \in Nat /\ tasks[d] \in Nat
           /\ kicks[d] \in 0..MaxKicks /\ kicks[d] \in Nat /\ MaxAttempts \in Nat \ {0}
           /\ crashes \in 0..MaxCrashes /\ crashes >= crashes
           /\ replays \in 0..MaxReplays
BY DeliveryAssumption DEF TypeOK

(* A task takes its token from the broker.                                 *)
LEMMA TaskStartKeeps ==
    ASSUME DeliveryInv, NEW s \in Worker, NEW d \in Delivery, TaskStart(s, d)
    PROVE  DeliveryInv'
<1>1. TypeOK /\ RowInv /\ s \in Session
  BY DEF DeliveryInv, Session
<1>2. /\ tasks[d] > 0 /\ tasks'[d] = tasks[d] - 1 /\ tasks' = [tasks EXCEPT ![d] = tasks'[d]]
      /\ state' = state /\ tries' = tries /\ kicks' = kicks /\ sent' = sent
      /\ replays' = replays /\ crashes' = crashes /\ state[d] # "absent"
      /\ at[s] = NoDelivery /\ phase[s] = "idle"
  BY <1>1 DEF TaskStart, Take, rowVars, TypeOK
<1>3. tasks'[d] \in Nat
  BY <1>1, <1>2, Counts
<1>4. PICK n \in Nat : n = tries[d]
  BY <1>1, Counts
<1>5. Goes(s, "read", d, n)
  BY <1>4, DeliveryAssumption DEF Goes, TaskStart, Phase, Working, Locking
<1>6. /\ phase'[s] = "read" /\ at'[s] = d /\ seen'[s] = n
      /\ \A t \in Session \ {s} :
            phase'[t] = phase[t] /\ at'[t] = at[t] /\ seen'[t] = seen[t]
  BY <1>1, <1>5, EnterSets
<1>7. Confined(s, d)
  BY <1>1, <1>2, <1>3, <1>6, Counts DEF Confined, TypeOK
<1>8. Committed(d)'
  BY <1>2 DEF Committed
<1>9. ASSUME kicks'[d] <= 1
      PROVE  OneToken(d)' /\ Spent(d)'
  <2>1. OneToken(d) /\ Spent(d)
    BY <1>1, <1>2, <1>9 DEF RowInv
  <2>2. tasks[d] = 1 /\ tasks'[d] = 0 /\ tries[d] < MaxAttempts
    BY <1>1, <1>2, <2>1, Counts DEF OneToken, Spent
  <2>3. kicks[d] # 0 /\ \A t \in Session : ~Works(t, d)
    BY <2>1, <2>2 DEF OneToken
  <2>4. \A t \in Session : Works(t, d)' <=> t = s
    BY <1>1, <1>6, <2>3 DEF Works, Working
  <2>5. OneToken(d)'
    BY <1>2, <1>4, <1>6, <2>2, <2>3, <2>4 DEF OneToken
  <2>6. \A t \in Session : at[t] = d => phase[t] # "sent"
    BY <2>3 DEF Works, Working
  <2>7. Spent(d)'
    BY <1>1, <1>2, <2>1, <2>2, <2>6, Counts DEF Spent
  <2> QED
    BY <2>5, <2>7
<1> QED
  BY <1>1, <1>5, <1>7, <1>8, <1>9, ConfinedKeeps DEF Good

(* A task that finds nothing to do gives its token up.                     *)
LEMMA TaskNothingKeeps ==
    ASSUME DeliveryInv, NEW d \in Delivery, TaskNothingToDo(d)
    PROVE  DeliveryInv'
<1>1. TypeOK /\ RowInv
  BY DEF DeliveryInv
<1>2. /\ tasks[d] > 0 /\ tasks'[d] = tasks[d] - 1 /\ tasks' = [tasks EXCEPT ![d] = tasks'[d]]
      /\ UNCHANGED <<state, tries, kicks, sent, phase, at, seen, replays, crashes>>
      /\ UNCHANGED sessVars
  BY <1>1 DEF TaskNothingToDo, Take, rowVars, sessVars, TypeOK
<1>3. tasks'[d] \in Nat /\ tasks'[d] <= tasks[d]
  BY <1>1, <1>2, Counts
<1>4. RowTypes'
  BY <1>1, <1>2, <1>3 DEF RowTypes, TypeOK
<1>5. Elsewhere(d)
  BY <1>1, <1>2, Counts DEF Elsewhere, TypeOK
<1>6. Good(d)'
  BY <1>1, <1>2, <1>3, Counts, RowKept DEF Works
<1> QED
  BY <1>2, <1>4, <1>5, <1>6, QuietStepKeeps

(* A send is in flight until its result is recorded.                       *)
LEMMA SendKeeps ==
    ASSUME DeliveryInv, NEW s \in Worker, Send(s)
    PROVE  DeliveryInv'
<1>1. TypeOK /\ RowInv /\ s \in Session
  BY DEF DeliveryInv, Session
<1>2. PICK d \in Delivery, n \in Nat : d = at[s] /\ n = seen[s]
  BY <1>1 DEF Send, TypeOK
<1>3. /\ sent'[d] = sent[d] + 1 /\ sent' = [sent EXCEPT ![d] = sent'[d]]
      /\ state' = state /\ tries' = tries /\ kicks' = kicks /\ tasks' = tasks
      /\ replays' = replays /\ crashes' = crashes /\ phase[s] = "leased"
  BY <1>1, <1>2 DEF Send, rowVars, TypeOK
<1>4. sent'[d] \in Nat
  BY <1>1, <1>3, Counts
<1>5. Goes(s, "sent", d, n)
  BY <1>2, DeliveryAssumption DEF Goes, Send, Phase, Working, Locking
<1>6. /\ phase'[s] = "sent" /\ at'[s] = d /\ seen'[s] = n
      /\ \A t \in Session \ {s} :
            phase'[t] = phase[t] /\ at'[t] = at[t] /\ seen'[t] = seen[t]
  BY <1>1, <1>5, EnterSets
<1>7. Confined(s, d)
  BY <1>1, <1>2, <1>3, <1>4, <1>6, Counts DEF Confined, TypeOK
<1>8. Works(s, d) /\ \A t \in Session : (Works(t, d)' <=> Works(t, d)) /\ seen'[t] = seen[t]
  BY <1>1, <1>2, <1>3, <1>6 DEF Works, Working
<1>9. state[d] # "absent"
  BY <1>1, <1>8 DEF RowInv, Committed
<1>10. Committed(d)'
  BY <1>3, <1>9 DEF Committed
<1>11. ASSUME kicks'[d] <= 1
      PROVE  OneToken(d)' /\ Spent(d)'
  <2>1. OneToken(d) /\ Spent(d)
    BY <1>1, <1>3, <1>11 DEF RowInv
  <2>2. kicks[d] # 0 /\ tries[d] < MaxAttempts
    BY <1>1, <1>8, <2>1 DEF OneToken, Spent
  <2>3. \A t \in Session : at[t] = d => phase[t] # "sent"
    BY <1>1, <1>3, <1>8, <2>1 DEF OneToken, Works, Working
  <2>4. OneToken(d)'
    BY <1>3, <1>8, <2>1, <2>2 DEF OneToken
  <2>5. Spent(d)'
    BY <1>1, <1>3, <1>4, <1>6, <2>1, <2>2, <2>3, Counts DEF Spent
  <2> QED
    BY <2>4, <2>5
<1> QED
  BY <1>1, <1>5, <1>7, <1>10, <1>11, ConfinedKeeps DEF Good

(* A result asks for another attempt only below the budget.                *)
LEMMA ResultStates ==
    ASSUME NEW r \in Results, NEW m \in Nat
    PROVE  /\ ResultState(r, m) \in States \ {"absent"}
           /\ ResultState(r, m) = "retryable" => m < MaxAttempts
BY DEF ResultState, Results, States, Replayable, Parked

(* Recording counts the attempt; a retry is scheduled only within budget.  *)
LEMMA RecordKeeps ==
    ASSUME DeliveryInv, NEW s \in Worker, NEW r \in Results, Record(s, r)
    PROVE  DeliveryInv'
<1>1. TypeOK /\ RowInv /\ s \in Session
  BY DEF DeliveryInv, Session
<1>2. PICK d \in Delivery, n \in Nat : d = at[s] /\ n = seen[s]
  BY <1>1 DEF Record, TypeOK
<1>3. PICK st \in States \ {"absent"} : /\ st = ResultState(r, n + 1)
                                        /\ st = "retryable" => n + 1 < MaxAttempts
  BY ResultStates
<1>4. /\ state' = [state EXCEPT ![d] = st] /\ tries' = [tries EXCEPT ![d] = n + 1]
      /\ tasks' = IF st = "retryable" THEN [tasks EXCEPT ![d] = @ + 1] ELSE tasks
      /\ kicks' = kicks /\ sent' = sent /\ replays' = replays /\ crashes' = crashes
      /\ phase[s] = "sent" /\ Leave(s)
  BY <1>2, <1>3 DEF Record, SetState
<1>5. /\ state'[d] = st /\ tries'[d] = n + 1
      /\ tasks'[d] = IF st = "retryable" THEN tasks[d] + 1 ELSE tasks[d]
      /\ tasks' = [tasks EXCEPT ![d] = tasks'[d]]
  BY <1>1, <1>4 DEF TypeOK
<1>6. tries'[d] \in Nat /\ tasks'[d] \in Nat
  BY <1>1, <1>5, Counts
<1>7. Goes(s, "idle", NoDelivery, 0)
  BY <1>1, <1>4, LeaveGoes
<1>8. /\ phase'[s] = "idle" /\ at'[s] = NoDelivery
      /\ \A t \in Session \ {s} :
            phase'[t] = phase[t] /\ at'[t] = at[t] /\ seen'[t] = seen[t]
  BY <1>1, <1>7, EnterSets
<1>9. Confined(s, d)
  BY <1>1, <1>2, <1>4, <1>5, <1>6, <1>8, Counts DEF Confined, TypeOK
<1>10. Committed(d)'
  BY <1>5 DEF Committed
<1>11. ASSUME kicks'[d] <= 1
       PROVE  OneToken(d)' /\ Spent(d)'
  <2>1. OneToken(d) /\ Spent(d) /\ Works(s, d)
    BY <1>1, <1>2, <1>4, <1>11 DEF RowInv, Works, Working
  <2>2. kicks[d] # 0 /\ tries[d] < MaxAttempts /\ tasks[d] = 0 /\ n = tries[d]
    BY <1>1, <1>2, <2>1 DEF OneToken, Spent
  <2>3. \A t \in Session : ~Works(t, d)'
    BY <1>1, <1>8, <2>1, DeliveryAssumption DEF OneToken, Works, Working
  <2>4. tasks'[d] <= 1 /\ (tasks'[d] > 0 => tries'[d] < MaxAttempts)
    BY <1>3, <1>5, <2>2
  <2>5. OneToken(d)'
    BY <1>4, <2>2, <2>3, <2>4 DEF OneToken
  <2>6. tries'[d] <= MaxAttempts /\ sent'[d] <= tries'[d] + crashes'
    BY <1>1, <1>4, <1>5, <2>1, <2>2, Counts DEF Spent
  <2>7. Spent(d)'
    BY <1>1, <1>4, <1>6, <2>3, <2>4, <2>6, Counts DEF Spent
  <2> QED
    BY <2>5, <2>7
<1> QED
  BY <1>1, <1>7, <1>9, <1>10, <1>11, ConfinedKeeps DEF Good

(* A process dies; the task of a worker goes back to the broker or is lost *)
(* with it, and a request in flight is paid for by the death.              *)
LEMMA CrashKeeps ==
    ASSUME DeliveryInv, NEW s \in Session, NEW n \in {0, 1}, Crash(s, n)
    PROVE  DeliveryInv'
<1>1. TypeOK /\ RowInv /\ RoleInv
  BY DEF DeliveryInv
<1>2. PICK d \in Delivery : d = at[s]
  BY <1>1 DEF Crash, TypeOK
<1>3. /\ UNCHANGED <<state, tries, kicks, sent, replays>> /\ Leave(s)
      /\ crashes' = crashes + 1 /\ crashes < MaxCrashes /\ phase[s] # "idle"
  BY DEF Crash, rowVars
<1>4. crashes' \in 0..MaxCrashes /\ crashes' \in Nat /\ crashes' >= crashes
  BY <1>1, <1>3, Counts, DeliveryAssumption
<1>5. Goes(s, "idle", NoDelivery, 0)
  BY <1>3, LeaveGoes
<1>6. CASE s \notin Worker
  <2>1. phase[s] # "sent" /\ UNCHANGED tasks
    BY <1>1, <1>6 DEF RoleInv, Working, Crash
  <2> QED
    BY <1>1, <1>2, <1>3, <1>4, <1>5, <2>1, Counts, MoveKeeps DEF Working, TypeOK
<1>7. CASE s \in Worker
  <2>1. tasks' = [tasks EXCEPT ![d] = tasks'[d]] /\ tasks'[d] = tasks[d] + n
    BY <1>1, <1>2, <1>7 DEF Crash, TypeOK
  <2>2. tasks'[d] \in Nat
    BY <1>1, <2>1, Counts
  <2>3. /\ phase'[s] = "idle" /\ at'[s] = NoDelivery
        /\ \A t \in Session \ {s} :
              phase'[t] = phase[t] /\ at'[t] = at[t] /\ seen'[t] = seen[t]
    BY <1>1, <1>5, EnterSets
  <2>4. Confined(s, d)
    BY <1>1, <1>2, <1>3, <1>4, <2>1, <2>2, <2>3, Counts DEF Confined, TypeOK
  <2>5. Works(s, d)
    BY <1>1, <1>2, <1>3, <1>7 DEF RoleInv, Works, Working
  <2>6. Committed(d)'
    BY <1>1, <1>3, <2>5 DEF RowInv, Committed
  <2>7. ASSUME kicks'[d] <= 1
        PROVE  OneToken(d)' /\ Spent(d)'
    <3>1. OneToken(d) /\ Spent(d)
      BY <1>1, <1>3, <2>7 DEF RowInv
    <3>2. kicks[d] # 0 /\ tries[d] < MaxAttempts /\ tasks[d] = 0
      BY <2>5, <3>1 DEF OneToken, Spent
    <3>3. \A t \in Session : ~Works(t, d)'
      BY <2>3, <2>5, <3>1, DeliveryAssumption DEF OneToken, Works, Working
    <3>4. tasks'[d] <= 1
      BY <2>1, <3>2
    <3>5. OneToken(d)'
      BY <1>3, <3>2, <3>3, <3>4 DEF OneToken
    <3>6. sent'[d] <= tries'[d] + crashes'
      BY <1>1, <1>3, <3>1, Counts DEF Spent
    <3>7. Spent(d)'
      BY <1>1, <1>3, <1>4, <3>2, <3>6, Counts DEF Spent
    <3> QED
      BY <3>5, <3>7
  <2> QED
    BY <1>5, <2>4, <2>6, <2>7, ConfinedKeeps DEF Good
<1> QED
  BY <1>6, <1>7

-----------------------------------------------------------------------------
(* The specification.                                                      *)
LEMMA InitKeeps == Init => DeliveryInv
<1> SUFFICES ASSUME Init PROVE DeliveryInv
  OBVIOUS
<1>1. TypeOK
  BY DeliveryAssumption DEF Init, TypeOK, States, Phase
<1>2. RoleInv /\ LockInv
  BY DEF Init, RoleInv, LockInv, Working, Locking
<1>3. ASSUME NEW d \in Delivery PROVE Good(d)
  <2>1. \A s \in Session : phase[s] = "idle" /\ ~Works(s, d)
    BY DEF Init, Works, Working
  <2>2. tries[d] = 0 /\ tasks[d] = 0 /\ sent[d] = 0 /\ kicks[d] = 0 /\ crashes = 0
    BY DEF Init
  <2> QED
    BY <2>1, <2>2, DeliveryAssumption DEF Good, Committed, OneToken, Spent
<1> QED
  BY <1>1, <1>2, <1>3 DEF DeliveryInv, RowInv, Good

(* Stuttering.                                                             *)
LEMMA StutterKeeps == DeliveryInv /\ UNCHANGED vars => DeliveryInv'
<1> SUFFICES ASSUME DeliveryInv, UNCHANGED vars PROVE DeliveryInv'
  OBVIOUS
<1> USE DEF vars, rowVars, sessVars
<1>1. TypeOK' /\ RoleInv' /\ LockInv'
  BY DEF DeliveryInv, TypeOK, RoleInv, LockInv
<1>2. RowInv'
  BY DEF DeliveryInv, RowInv, Committed, OneToken, Spent, Works
<1> QED
  BY <1>1, <1>2 DEF DeliveryInv

(* Every step keeps the invariant.                                         *)
LEMMA StepKeeps ==
    ASSUME DeliveryInv, Next
    PROVE  DeliveryInv'
<1>1. ASSUME NEW s \in Dispatcher,
             \/ HandleStep(s)
             \/ \E d \in Delivery :
                   HandleNew(s, d) \/ \E n \in {0, 1} : HandleExisting(s, d, n)
      PROVE  DeliveryInv'
  BY <1>1, MovesKeep, EnqueuesKeep DEF HandleStep, Session
<1>2. ASSUME NEW s \in Worker, WorkerStep(s) \/ \E d \in Delivery : TaskStart(s, d)
      PROVE  DeliveryInv'
  BY <1>2, MovesKeep, SendKeeps, RecordKeeps, TaskStartKeeps DEF WorkerStep, Session
<1>3. ASSUME NEW s \in Operator,
             \/ OperatorStep(s)
             \/ \E d \in Delivery : ManualCreate(s, d) \/ ReplayRead(s, d)
      PROVE  DeliveryInv'
  BY <1>3, MovesKeep, EnqueuesKeep DEF OperatorStep, Session
<1> QED
  BY <1>1, <1>2, <1>3, TaskNothingKeeps, CrashKeeps DEF Next

(* The invariant of rows, tasks and sessions.                              *)
THEOREM DeliveryInvariant == Spec => []DeliveryInv
<1>1. Init => DeliveryInv
  BY InitKeeps
<1>2. DeliveryInv /\ [Next]_vars => DeliveryInv'
  BY StepKeeps, StutterKeeps
<1> QED
  BY <1>1, <1>2, PTL DEF Spec

(* Rows and sessions keep their types.                                     *)
THEOREM DeliveryTypes == Spec => []TypeOK
<1>1. DeliveryInv => TypeOK
  BY DEF DeliveryInv
<1> QED
  BY <1>1, DeliveryInvariant, PTL

(* Two HTTP requests for one delivery never overlap: the flush of the      *)
(* lease in execute_delivery keeps the row locked until the outcome is     *)
(* committed, however many tasks run for it.                               *)
THEOREM NoOverlap == Spec => []SendsDoNotOverlap
<1>1. DeliveryInv => SendsDoNotOverlap
  BY DEF DeliveryInv, LockInv, Locking, SendsDoNotOverlap
<1> QED
  BY <1>1, DeliveryInvariant, PTL

(* Nothing is sent for an event whose transaction did not commit, although *)
(* queue_platform_deliveries enqueues the task inside that transaction.    *)
THEOREM SentIsCommitted == Spec => []OnlyCommittedSent
<1>1. DeliveryInv => OnlyCommittedSent
  BY DEF DeliveryInv, RowInv, Committed, TypeOK, OnlyCommittedSent
<1> QED
  BY <1>1, DeliveryInvariant, PTL

(* A delivery whose task was enqueued once is sent at most MaxAttempts     *)
(* times, and once more for every process that died.                       *)
THEOREM BudgetHolds == Spec => []BudgetOfOneTask
<1>1. ASSUME DeliveryInv, NEW d \in Delivery, kicks[d] <= 1
      PROVE  sent[d] <= MaxAttempts + crashes
  <2>1. TypeOK /\ OneToken(d) /\ Spent(d)
    BY <1>1 DEF DeliveryInv, RowInv
  <2>2. CASE \A s \in Session : at[s] = d => phase[s] # "sent"
    BY <2>1, <2>2, Counts DEF Spent
  <2>3. CASE \E s \in Session : at[s] = d /\ phase[s] = "sent"
    <3>1. tries[d] < MaxAttempts
      BY <2>1, <2>3 DEF Spent, Works, Working
    <3> QED
      BY <2>1, <3>1, Counts DEF Spent
  <2> QED
    BY <2>2, <2>3
<1>2. DeliveryInv => BudgetOfOneTask
  BY <1>1 DEF BudgetOfOneTask
<1> QED
  BY <1>2, DeliveryInvariant, PTL
=============================================================================
