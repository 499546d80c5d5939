------------------------ MODULE IntegrationInboxProofs ------------------------
(***************************************************************************)
(* Proofs about IntegrationInbox for any events, consumers, sessions and   *)
(* limits.  A replay is a permit: while its session has not written it,    *)
(* and then while the receipt it reopened is not claimed, it pays for one  *)
(* attempt beyond the budget.  For a joint event the receipt itself is a   *)
(* permit too: open, or held by the one session that claimed it.           *)
(***************************************************************************)
EXTENDS IntegrationInbox, FiniteSetTheorems, TLAPS

(* Phases of a session that claimed its event and has not let go of it.    *)
Owning == {"claimed", "working", "done", "refused", "failing", "name"}
Holding == Owning \cup {"replay"}
Claimable == {"absent", "verified", "retryable"}
Taken == {"processing", "processed"}

(* The sessions in a phase of P on event e.                                *)
Sitting(P, e) == {s \in Session : at[s] = e /\ phase[s] \in P}

(* What a session may rely on of its event, given what it read.            *)
Relies(p, e, b, st) ==
    /\ p \notin {"idle", "replay"} => b \in Payload
    /\ p \in Holding => state[e] # "absent"
    /\ p = "working" => e \in Joint /\ state[e] = "processing"
    /\ p = "done" => e \notin Joint
    /\ p = "admit" /\ st \in {"absent", "retryable"} => tries[e] < MaxAttempts
    /\ p = "admit" /\ st \in Claimable /\ e \in Joint => state[e] \notin Taken

SessionInv == \A s \in Session : Relies(phase[s], at[s], body[s], seen[s])

(* The binding lock and the receipt lock.                                  *)
LockInv ==
    /\ \A s, t \in Session : phase[s] = "admit" /\ phase[t] = "admit" => s = t
    /\ \A s, t \in Session :
          phase[s] = "working" /\ phase[t] = "working" /\ at[s] = at[t] => s = t

(* A reopened receipt that was not claimed since, or whose claim is        *)
(* decided already.                                                        *)
Reopened(e) ==
    \/ state[e] = "verified"
    \/ \E s \in Session : phase[s] = "admit" /\ at[s] = e /\ seen[s] = "verified"

Permits(e) == Cardinality(Sitting({"replay"}, e)) + (IF Reopened(e) THEN 1 ELSE 0)

(* The attempts of e beyond its budget are paid for by replays.            *)
BudgetInv ==
    \A e \in Event :
       /\ IsFiniteSet(Sitting({"replay"}, e))
       /\ state[e] \in {"absent", "retryable"} => tries[e] < MaxAttempts
       /\ Permits(e) <= replays
       /\ tries[e] + Permits(e) <= MaxAttempts + replays

(* A joint consequence is committed, still possible, or neither.           *)
JointInv ==
    \A e \in Joint :
       /\ IsFiniteSet(Sitting(Holding, e))
       /\ effects[e] + Cardinality(Sitting(Holding, e))
             + (IF state[e] \in Taken THEN 0 ELSE 1) <= 1 + replays

(* Without a replay the receipt is processing while a session owns it, one *)
(* session owns it, and whoever decided to claim it finds no owner.        *)
OwnerInv ==
    replays = 0 =>
       /\ \A s \in Session : /\ phase[s] # "replay"
                             /\ phase[s] \in Owning => state[at[s]] = "processing"
       /\ \A s, t \in Session :
             phase[s] \in Owning /\ phase[t] \in Owning /\ at[s] = at[t] => s = t
       /\ \A s, t \in Session :
             phase[s] = "admit" /\ seen[s] \in Claimable /\ phase[t] \in Owning
                => at[s] # at[t]

InboxInv ==
    TypeOK /\ SessionInv /\ LockInv /\ BudgetInv /\ JointInv /\ OwnerInv

-----------------------------------------------------------------------------
(* Session s goes to phase p of event c with payload b, having read st.    *)
Goes(s, p, c, b, st) ==
    /\ Enter(s, p, c, b, st)
    /\ p \in Phase /\ c \in Event \cup {NoEvent} /\ b \in Payload \cup {NoPayload}
    /\ st \in States /\ (c = NoEvent <=> p = "idle")

(* A move changes one session and keeps the types of all.                  *)
LEMMA EnterSets ==
    ASSUME TypeOK, NEW s \in Session, NEW p, NEW c, NEW b, NEW st, Goes(s, p, c, b, st)
    PROVE  /\ phase' \in [Session -> Phase] /\ at' \in [Session -> Event \cup {NoEvent}]
           /\ body' \in [Session -> Payload \cup {NoPayload}] /\ seen' \in [Session -> States]
           /\ \A t \in Session : at'[t] = NoEvent <=> phase'[t] = "idle"
           /\ phase'[s] = p /\ at'[s] = c /\ body'[s] = b /\ seen'[s] = st
           /\ \A t \in Session \ {s} : /\ phase'[t] = phase[t] /\ at'[t] = at[t]
                                       /\ body'[t] = body[t] /\ seen'[t] = seen[t]
BY DEF TypeOK, Goes, Enter

(* One session moves: the number of sessions in given phases of an event.  *)
LEMMA CountMoves ==
    ASSUME TypeOK, NEW s \in Session, NEW p, NEW c, NEW b, NEW st, Goes(s, p, c, b, st),
           NEW P, NEW e, IsFiniteSet(Sitting(P, e))
    PROVE  /\ IsFiniteSet(Sitting(P, e)')
           /\ Cardinality(Sitting(P, e)) \in Nat /\ Cardinality(Sitting(P, e)') \in Nat
           /\ Cardinality(Sitting(P, e)') + (IF at[s] = e /\ phase[s] \in P THEN 1 ELSE 0)
                = Cardinality(Sitting(P, e)) + (IF c = e /\ p \in P THEN 1 ELSE 0)
<1> DEFINE S == Sitting(P, e)
           T == S \ {s}
<1>1. /\ IsFiniteSet(T) /\ Cardinality(S) \in Nat /\ Cardinality(T) \in Nat
      /\ Cardinality(T) = IF s \in S THEN Cardinality(S) - 1 ELSE Cardinality(S)
  BY FS_RemoveElement, FS_CardinalityType
<1>2. IsFiniteSet(T \cup {s}) /\ Cardinality(T \cup {s}) = Cardinality(T) + 1
  BY <1>1, FS_AddElement
<1>3. s \in S <=> at[s] = e /\ phase[s] \in P
  BY DEF Sitting
<1>4. CASE c = e /\ p \in P
  <2>1. S' = T \cup {s}
    BY <1>4, EnterSets DEF Sitting
  <2> QED
    BY <1>1, <1>2, <1>3, <1>4, <2>1
<1>5. CASE ~(c = e /\ p \in P)
  <2>1. S' = T
    BY <1>5, EnterSets DEF Sitting
  <2> QED
    BY <1>1, <1>2, <1>3, <1>5, <2>1
<1> QED
  BY <1>4, <1>5

-----------------------------------------------------------------------------
(* Steps that write no receipt.                                            *)

QuietMove(s, p, c, b, st) ==
    /\ Goes(s, p, c, b, st)
    /\ Relies(p, c, b, st)
    /\ p # "replay"
    /\ p \in Owning => phase[s] \in Owning /\ c = at[s]
    /\ p = "admit" => ~BindingLocked /\ st = state[c]
    /\ p = "working" => ~ReceiptLocked(c)
    /\ UNCHANGED <<state, digest, tries, replays>>
    /\ effects' \in [Event -> Nat] /\ \A e \in Joint : effects'[e] = effects[e]
    /\ enabled' \in BOOLEAN /\ acked' \subseteq Event /\ crashes' \in 0..MaxCrashes

(* The numbers of an event.                                                *)
LEMMA Counts ==
    ASSUME TypeOK, NEW e \in Event
    PROVE  /\ tries[e] \in Nat /\ effects[e] \in Nat /\ replays \in Nat
           /\ MaxAttempts \in Nat \ {0}
BY InboxAssumption DEF TypeOK

(* A move that writes no receipt and creates no permit.                    *)
LEMMA MoveKeeps ==
    ASSUME InboxInv, NEW s \in Session, NEW p, NEW c, NEW b, NEW st, QuietMove(s, p, c, b, st)
    PROVE  InboxInv'
<1> USE DEF InboxInv
<1>1. /\ state' = state /\ digest' = digest /\ tries' = tries /\ replays' = replays
      /\ Goes(s, p, c, b, st) /\ Relies(p, c, b, st)
  BY DEF QuietMove
<1>2. /\ phase'[s] = p /\ at'[s] = c /\ body'[s] = b /\ seen'[s] = st
      /\ \A t \in Session \ {s} : /\ phase'[t] = phase[t] /\ at'[t] = at[t]
                                  /\ body'[t] = body[t] /\ seen'[t] = seen[t]
  BY <1>1, EnterSets
<1>3. TypeOK'
  BY <1>1, EnterSets DEF TypeOK, QuietMove
<1>4. SessionInv'
  BY <1>1, <1>2 DEF SessionInv, Relies
<1>5. LockInv'
  BY <1>2 DEF LockInv, QuietMove, BindingLocked, ReceiptLocked
<1>6. BudgetInv'
  <2> SUFFICES ASSUME NEW e \in Event
               PROVE  /\ IsFiniteSet(Sitting({"replay"}, e)')
                      /\ state'[e] \in {"absent", "retryable"} => tries'[e] < MaxAttempts
                      /\ Permits(e)' <= replays'
                      /\ tries'[e] + Permits(e)' <= MaxAttempts + replays'
    BY DEF BudgetInv
  <2>1. /\ IsFiniteSet(Sitting({"replay"}, e)) /\ Permits(e) <= replays
        /\ state[e] \in {"absent", "retryable"} => tries[e] < MaxAttempts
        /\ tries[e] + Permits(e) <= MaxAttempts + replays
    BY DEF BudgetInv
  <2>2. Reopened(e)' => Reopened(e)
    BY <1>1, <1>2 DEF Reopened, QuietMove
  <2>3. p \notin {"replay"}
    BY DEF QuietMove
  <2>4. /\ IsFiniteSet(Sitting({"replay"}, e)')
        /\ Cardinality(Sitting({"replay"}, e)) \in Nat
        /\ Cardinality(Sitting({"replay"}, e)') \in Nat
        /\ Cardinality(Sitting({"replay"}, e)') <= Cardinality(Sitting({"replay"}, e))
    BY <1>1, <2>1, <2>3, CountMoves
  <2>5. Permits(e) \in Nat /\ Permits(e)' \in Nat /\ Permits(e)' <= Permits(e)
    BY <2>2, <2>4 DEF Permits
  <2> QED
    BY <1>1, <2>1, <2>4, <2>5, Counts
<1>7. JointInv'
  <2> SUFFICES ASSUME NEW e \in Joint
               PROVE  /\ IsFiniteSet(Sitting(Holding, e)')
                      /\ effects'[e] + Cardinality(Sitting(Holding, e)')
                           + (IF state'[e] \in Taken THEN 0 ELSE 1) <= 1 + replays'
    BY DEF JointInv, Sitting
  <2>1. e \in Event /\ effects'[e] = effects[e]
    BY InboxAssumption DEF QuietMove
  <2>2. /\ IsFiniteSet(Sitting(Holding, e))
        /\ effects[e] + Cardinality(Sitting(Holding, e))
             + (IF state[e] \in Taken THEN 0 ELSE 1) <= 1 + replays
    BY DEF JointInv
  <2>3. p \in Holding => phase[s] \in Holding /\ c = at[s]
    BY DEF QuietMove, Holding
  <2>4. /\ IsFiniteSet(Sitting(Holding, e)')
        /\ Cardinality(Sitting(Holding, e)) \in Nat
        /\ Cardinality(Sitting(Holding, e)') \in Nat
        /\ Cardinality(Sitting(Holding, e)') <= Cardinality(Sitting(Holding, e))
    BY <1>1, <2>2, <2>3, CountMoves
  <2> QED
    BY <1>1, <2>1, <2>2, <2>4, Counts
<1>8. OwnerInv'
  BY <1>1, <1>2 DEF OwnerInv, QuietMove, Claimable, Owning
<1> QED
  BY <1>3, <1>4, <1>5, <1>6, <1>7, <1>8

(* Leaving is a move to idle.                                              *)
LEMMA LeaveGoes ==
    ASSUME NEW s \in Session, Leave(s)
    PROVE  Goes(s, "idle", NoEvent, NoPayload, "absent")
BY DEF Leave, Goes, Phase, States

(* Ending a request, a replay or a process without writing the receipt.    *)
LEMMA LeaveKeeps ==
    ASSUME InboxInv, NEW s \in Session, Leave(s), UNCHANGED <<state, digest, tries, replays>>,
           UNCHANGED effects, enabled' \in BOOLEAN, acked' \subseteq Event,
           crashes' \in 0..MaxCrashes
    PROVE  InboxInv'
<1>1. QuietMove(s, "idle", NoEvent, NoPayload, "absent")
  <2>1. effects' \in [Event -> Nat]
    BY DEF InboxInv, TypeOK
  <2> QED
    BY <2>1, LeaveGoes DEF QuietMove, Relies, Holding, Owning
<1> QED
  BY <1>1, MoveKeeps

(* Going on with the same event and payload.                               *)
LEMMA GotoKeeps ==
    ASSUME InboxInv, NEW s \in Session, NEW p \in Owning, Goto(s, p), phase[s] \in Owning,
           p = "done" => at[s] \notin Joint,
           p = "working" => /\ at[s] \in Joint /\ state[at[s]] = "processing"
                            /\ ~ReceiptLocked(at[s]),
           UNCHANGED <<rowVars, acked, replays, crashes>>,
           effects' \in [Event -> Nat], \A e \in Joint : effects'[e] = effects[e]
    PROVE  InboxInv'
<1>1. PICK e \in Event, b \in Payload : e = at[s] /\ b = body[s] /\ state[e] # "absent"
  BY DEF InboxInv, TypeOK, SessionInv, Relies, Owning, Holding
<1>2. Goes(s, p, e, b, "absent")
  BY <1>1, InboxAssumption DEF Goto, Goes, Owning, Phase, States
<1>3. p \notin {"idle", "replay", "admit"}
  BY DEF Owning
<1>4. Relies(p, e, b, "absent")
  BY <1>1, <1>3 DEF Relies
<1>5. QuietMove(s, p, e, b, "absent")
  BY <1>1, <1>2, <1>3, <1>4 DEF QuietMove, rowVars, InboxInv, TypeOK
<1> QED
  BY <1>5, MoveKeeps

(* The steps that read, decide and fall back without writing a receipt.    *)
LEMMA MovesKeep ==
    ASSUME InboxInv, NEW s \in Session,
           \/ \E e \in Event, p \in Payload : Verify(s, e, p)
           \/ Admit(s) \/ AdmitCollision(s) \/ AdmitDuplicate(s) \/ AdmitDead(s)
           \/ JointLock(s) \/ (\E p \in {"refused", "failing"} : JointError(s, p))
           \/ SplitCommit(s) \/ (\E p \in {"failing", "name"} : SplitError(s, p))
           \/ Crash(s)
    PROVE  InboxInv'
<1>1. /\ TypeOK /\ enabled \in BOOLEAN /\ acked \subseteq Event /\ crashes \in 0..MaxCrashes
      /\ effects \in [Event -> Nat]
  BY DEF InboxInv, TypeOK
<1>2. ASSUME NEW e \in Event, NEW p \in Payload, Verify(s, e, p) PROVE InboxInv'
  <2>1. Goes(s, "request", e, p, "absent")
    BY <1>2, InboxAssumption DEF Verify, Goes, Phase, States
  <2>2. QuietMove(s, "request", e, p, "absent")
    BY <1>1, <1>2, <2>1 DEF Verify, QuietMove, Relies, Holding, Owning, rowVars
  <2> QED
    BY <2>2, MoveKeeps
<1>3. ASSUME Admit(s) PROVE InboxInv'
  <2>1. PICK e \in Event, b \in Payload, st \in States :
           e = at[s] /\ b = body[s] /\ st = state[e]
    BY <1>3 DEF Admit, InboxInv, TypeOK, SessionInv, Relies
  <2>2. Goes(s, "admit", e, b, st)
    BY <1>3, <2>1, InboxAssumption DEF Admit, Goes, Phase
  <2>3. Relies("admit", e, b, st)
    BY <2>1 DEF Relies, Holding, Owning, InboxInv, BudgetInv, Claimable, Taken
  <2>4. QuietMove(s, "admit", e, b, st)
    BY <1>1, <1>3, <2>1, <2>2, <2>3 DEF Admit, QuietMove, Owning, rowVars
  <2> QED
    BY <2>4, MoveKeeps
<1>4. ASSUME \/ AdmitCollision(s) \/ AdmitDuplicate(s) \/ AdmitDead(s) \/ Crash(s)
      PROVE  InboxInv'
  <2>1. at[s] \in Event
    BY <1>1, <1>4 DEF AdmitCollision, AdmitDuplicate, AdmitDead, Crash, TypeOK
  <2>2. crashes' \in 0..MaxCrashes
    BY <1>1, <1>4, InboxAssumption DEF AdmitCollision, AdmitDuplicate, AdmitDead, Crash
  <2>3. Leave(s) /\ UNCHANGED <<state, digest, tries, replays>> /\ UNCHANGED effects
    BY <1>4 DEF AdmitCollision, AdmitDuplicate, AdmitDead, Crash, rowVars
  <2>4. enabled' \in BOOLEAN /\ acked' \subseteq Event
    BY <1>1, <1>4, <2>1 DEF AdmitCollision, AdmitDuplicate, AdmitDead, Crash, rowVars, Answer
  <2> QED
    BY <2>2, <2>3, <2>4, LeaveKeeps
<1>5. ASSUME JointLock(s) PROVE InboxInv'
  <2>1. at[s] \in Event /\ at[s] \in Joint /\ phase[s] \in Owning
    BY <1>1, <1>5 DEF JointLock, TypeOK, Owning
  <2>2. CASE Answer(at[s]) /\ Leave(s)
    <3>1. acked' \subseteq Event
      BY <1>1, <2>1, <2>2 DEF Answer
    <3> QED
      BY <1>1, <1>5, <2>2, <3>1, LeaveKeeps DEF JointLock, rowVars
  <2>3. CASE Goto(s, "working") /\ state[at[s]] = "processing" /\ UNCHANGED acked
    BY <1>1, <1>5, <2>1, <2>3, GotoKeeps DEF JointLock, Owning
  <2>4. CASE Goto(s, "refused") /\ UNCHANGED acked
    BY <1>1, <1>5, <2>1, <2>4, GotoKeeps DEF JointLock, Owning
  <2> QED
    BY <1>5, <2>2, <2>3, <2>4 DEF JointLock
<1>6. ASSUME NEW p \in {"refused", "failing", "name"}, JointError(s, p) \/ SplitError(s, p)
      PROVE  InboxInv'
  BY <1>1, <1>6, GotoKeeps DEF JointError, SplitError, Owning
<1>7. ASSUME SplitCommit(s) PROVE InboxInv'
  <2>1. at[s] \in Event \ Joint
    BY <1>1, <1>7 DEF SplitCommit, TypeOK
  <2>2. effects' \in [Event -> Nat] /\ \A e \in Joint : effects'[e] = effects[e]
    BY <1>1, <1>7, <2>1, InboxAssumption DEF SplitCommit
  <2> QED
    BY <1>7, <2>1, <2>2, GotoKeeps DEF SplitCommit, Owning
<1> QED
  BY <1>2, <1>3, <1>4, <1>5, <1>6, <1>7

-----------------------------------------------------------------------------
(* Steps that end a claim or a replay by writing the receipt: y over       *)
(* whatever state it has, in a transaction that its lock, if another       *)
(* session holds it, makes wait.                                           *)
LetsGo(s, e, y) ==
    /\ Leave(s) /\ at[s] = e /\ phase[s] \in Holding
    /\ state' = [state EXCEPT ![e] = y]
    /\ \A t \in Session \ {s} : ~(phase[t] = "working" /\ at[t] = e)
    /\ y # "processing"
    /\ y = "retryable" => tries[e] < MaxAttempts
    /\ y = "verified" => phase[s] = "replay"
    /\ e \in Joint /\ y = "processed" => state[e] = "processing"
    /\ UNCHANGED <<digest, tries, enabled, replays, crashes>> /\ acked' \subseteq Event
    /\ effects' \in [Event -> Nat] /\ \A c \in Event \ {e} : effects'[c] = effects[c]
    /\ e \in Joint => effects'[e] <= effects[e] + (IF y = "processed" THEN 1 ELSE 0)

(* A commit that ends a session spends the permit it held.                 *)
LEMMA WriteKeeps ==
    ASSUME InboxInv, NEW s \in Session, NEW e \in Event, NEW y \in States \ {"absent"},
           LetsGo(s, e, y)
    PROVE  InboxInv'
<1> USE DEF InboxInv
<1>1. /\ digest' = digest /\ tries' = tries /\ replays' = replays
      /\ Goes(s, "idle", NoEvent, NoPayload, "absent")
  BY LeaveGoes DEF LetsGo
<1>2. /\ phase'[s] = "idle" /\ at'[s] = NoEvent
      /\ \A t \in Session \ {s} : /\ phase'[t] = phase[t] /\ at'[t] = at[t]
                                  /\ body'[t] = body[t] /\ seen'[t] = seen[t]
  BY <1>1, EnterSets
<1>3. /\ state'[e] = y /\ \A c \in Event \ {e} : state'[c] = state[c]
      /\ state[e] # "absent" /\ state' \in [Event -> States] /\ state \in [Event -> States]
  BY DEF LetsGo, TypeOK, SessionInv, Relies
<1>4. TypeOK'
  BY <1>1, <1>3, EnterSets DEF TypeOK, LetsGo
<1>5. SessionInv'
  <2> SUFFICES ASSUME NEW t \in Session
               PROVE  Relies(phase[t], at[t], body[t], seen[t])'
    BY DEF SessionInv
  <2>1. CASE t = s
    BY <1>2, <2>1 DEF Relies, Holding, Owning
  <2>2. CASE t # s
    <3>1. /\ phase'[t] = phase[t] /\ at'[t] = at[t] /\ body'[t] = body[t] /\ seen'[t] = seen[t]
          /\ Relies(phase[t], at[t], body[t], seen[t]) /\ at[t] \in Event \cup {NoEvent}
          /\ at[t] = NoEvent <=> phase[t] = "idle"
      BY <1>2, <2>2 DEF SessionInv, TypeOK
    <3>2. CASE at[t] # e
      BY <1>1, <1>3, <3>1, <3>2 DEF Relies, Holding, Owning
    <3>3. CASE at[t] = e
      <4>1. phase[t] # "working"
        BY <2>2, <3>3 DEF LetsGo
      <4>2. phase[t] = "admit" /\ seen[t] \in Claimable /\ e \in Joint => y \notin Taken
        BY <3>1, <3>3 DEF LetsGo, Relies, Taken
      <4> QED
        BY <1>1, <1>3, <3>1, <3>3, <4>1, <4>2 DEF Relies
    <3> QED
      BY <3>2, <3>3
  <2> QED
    BY <2>1, <2>2
<1>6. LockInv'
  BY <1>2 DEF LockInv
<1>7. BudgetInv'
  <2> SUFFICES ASSUME NEW c \in Event
               PROVE  /\ IsFiniteSet(Sitting({"replay"}, c)')
                      /\ state'[c] \in {"absent", "retryable"} => tries'[c] < MaxAttempts
                      /\ Permits(c)' <= replays'
                      /\ tries'[c] + Permits(c)' <= MaxAttempts + replays'
    BY DEF BudgetInv
  <2>1. /\ IsFiniteSet(Sitting({"replay"}, c)) /\ Permits(c) <= replays
        /\ state[c] \in {"absent", "retryable"} => tries[c] < MaxAttempts
        /\ tries[c] + Permits(c) <= MaxAttempts + replays
    BY DEF BudgetInv
  <2>2. state'[c] \in {"absent", "retryable"} => tries'[c] < MaxAttempts
    BY <1>1, <1>3, <2>1 DEF LetsGo
  <2>3. Reopened(c)' => Reopened(c) \/ (at[s] = c /\ phase[s] = "replay")
    BY <1>2, <1>3 DEF Reopened, LetsGo
  <2>4. /\ IsFiniteSet(Sitting({"replay"}, c)')
        /\ Cardinality(Sitting({"replay"}, c)) \in Nat
        /\ Cardinality(Sitting({"replay"}, c)') \in Nat
        /\ Cardinality(Sitting({"replay"}, c)')
             + (IF at[s] = c /\ phase[s] = "replay" THEN 1 ELSE 0)
             = Cardinality(Sitting({"replay"}, c))
    BY <1>1, <2>1, CountMoves
  <2>5. Permits(c) \in Nat /\ Permits(c)' \in Nat /\ Permits(c)' <= Permits(c)
    BY <2>3, <2>4 DEF Permits
  <2> QED
    BY <1>1, <2>1, <2>2, <2>4, <2>5, Counts
<1>8. JointInv'
  <2> SUFFICES ASSUME NEW c \in Joint
               PROVE  /\ IsFiniteSet(Sitting(Holding, c)')
                      /\ effects'[c] + Cardinality(Sitting(Holding, c)')
                           + (IF state'[c] \in Taken THEN 0 ELSE 1) <= 1 + replays'
    BY DEF JointInv, Sitting
  <2>1. c \in Event
    BY InboxAssumption
  <2>2. /\ IsFiniteSet(Sitting(Holding, c))
        /\ effects[c] + Cardinality(Sitting(Holding, c))
             + (IF state[c] \in Taken THEN 0 ELSE 1) <= 1 + replays
    BY DEF JointInv
  <2>3. /\ IsFiniteSet(Sitting(Holding, c)')
        /\ Cardinality(Sitting(Holding, c)) \in Nat
        /\ Cardinality(Sitting(Holding, c)') \in Nat
        /\ Cardinality(Sitting(Holding, c)') + (IF at[s] = c /\ phase[s] \in Holding THEN 1 ELSE 0)
             = Cardinality(Sitting(Holding, c))
    BY <1>1, <2>2, CountMoves DEF Holding, Owning
  <2>4. effects'[c] \in Nat
    BY <2>1 DEF LetsGo
  <2>5. CASE c # e
    BY <1>1, <1>3, <2>1, <2>2, <2>3, <2>4, <2>5, Counts DEF LetsGo
  <2>6. CASE c = e
    <3>1. Cardinality(Sitting(Holding, c)') + 1 = Cardinality(Sitting(Holding, c))
      BY <2>3, <2>6 DEF LetsGo
    <3>2. CASE y = "processed"
      <4>1. state[c] \in Taken /\ state'[c] \in Taken /\ effects'[c] <= effects[c] + 1
        BY <1>3, <2>6, <3>2 DEF LetsGo, Taken
      <4> QED
        BY <1>1, <2>1, <2>2, <2>3, <2>4, <3>1, <4>1, Counts
    <3>3. CASE y # "processed"
      <4>1. effects'[c] <= effects[c]
        BY <2>1, <2>6, <3>3, Counts DEF LetsGo
      <4> QED
        BY <1>1, <2>1, <2>2, <2>3, <2>4, <3>1, <4>1, Counts
    <3> QED
      BY <3>2, <3>3
  <2> QED
    BY <2>5, <2>6
<1>9. OwnerInv'
  <2> SUFFICES ASSUME replays = 0 PROVE OwnerInv'
    BY <1>1 DEF OwnerInv
  <2>1. \A t \in Session \ {s} : phase[t] \in Owning => at[t] # e
    BY DEF OwnerInv, LetsGo, Holding
  <2>2. \A t \in Session : phase[t] \in Owning => at[t] \in Event
    BY DEF TypeOK, Owning
  <2> QED
    BY <1>2, <1>3, <2>1, <2>2 DEF OwnerInv, Owning
<1> QED
  BY <1>4, <1>5, <1>6, <1>7, <1>8, <1>9

(* The commits of processing, of failure and of replay are such commits.   *)
LEMMA WritesKeep ==
    ASSUME InboxInv, NEW s \in Session,
           JointCommit(s) \/ SplitComplete(s) \/ Fail(s) \/ ReplayWrite(s)
    PROVE  InboxInv'
<1>1. /\ TypeOK /\ acked \subseteq Event /\ effects \in [Event -> Nat]
      /\ Relies(phase[s], at[s], body[s], seen[s])
  BY DEF InboxInv, TypeOK, SessionInv
<1>2. PICK e \in Event : e = at[s]
  BY <1>1 DEF JointCommit, SplitComplete, Fail, ReplayWrite, TypeOK
<1>3. phase[s] \in Holding /\ Leave(s) /\ UNCHANGED <<digest, tries, enabled, replays, crashes>>
  BY DEF JointCommit, SplitComplete, Fail, ReplayWrite, Holding, Owning
<1>4. acked' \subseteq Event
  BY <1>1, <1>2 DEF JointCommit, SplitComplete, Fail, ReplayWrite, Answer
<1>5. CASE JointCommit(s)
  <2>1. \A t \in Session \ {s} : ~(phase[t] = "working" /\ at[t] = e)
    BY <1>2, <1>5 DEF JointCommit, InboxInv, LockInv
  <2>2. state' = [state EXCEPT ![e] = "processed"] /\ state[e] = "processing"
    BY <1>1, <1>2, <1>5 DEF JointCommit, SetState, Relies
  <2>3. /\ effects' \in [Event -> Nat] /\ \A c \in Event \ {e} : effects'[c] = effects[c]
        /\ effects'[e] <= effects[e] + 1
    BY <1>1, <1>2, <1>5 DEF JointCommit
  <2>4. LetsGo(s, e, "processed")
    BY <1>2, <1>3, <1>4, <2>1, <2>2, <2>3 DEF LetsGo
  <2> QED
    BY <2>4, WriteKeeps DEF States
<1>6. CASE ~JointCommit(s)
  <2>1. effects' = effects /\ effects[e] \in Nat
    BY <1>1, <1>6 DEF SplitComplete, Fail, ReplayWrite
  <2>2. CASE SplitComplete(s)
    <3>1. e \notin Joint /\ state' = [state EXCEPT ![e] = "processed"]
      BY <1>1, <1>2, <2>2 DEF SplitComplete, SetState, Relies
    <3>2. \A t \in Session \ {s} : ~(phase[t] = "working" /\ at[t] = e)
      BY <3>1 DEF InboxInv, SessionInv, Relies
    <3>3. LetsGo(s, e, "processed")
      BY <1>1, <1>2, <1>3, <1>4, <2>1, <3>1, <3>2 DEF LetsGo
    <3> QED
      BY <3>3, WriteKeeps DEF States
  <2>3. CASE ReplayWrite(s)
    <3>1. state' = [state EXCEPT ![e] = "verified"] /\ phase[s] = "replay"
      BY <1>2, <2>3 DEF ReplayWrite, SetState
    <3>2. \A t \in Session \ {s} : ~(phase[t] = "working" /\ at[t] = e)
      BY <1>2, <2>3 DEF ReplayWrite, ReceiptLocked
    <3>3. LetsGo(s, e, "verified")
      BY <1>1, <1>2, <1>3, <1>4, <2>1, <3>1, <3>2 DEF LetsGo
    <3> QED
      BY <3>3, WriteKeeps DEF States, Incomplete
  <2>4. CASE Fail(s)
    <3>1. tries[e] \in Nat /\ MaxAttempts \in Nat \ {0}
      BY <1>1, Counts
    <3>2. PICK max \in {1, MaxAttempts} :
             SetState(e, IF phase[s] = "name" /\ tries[e] < MaxAttempts
                           THEN "rejected" ELSE FailedState(e, max))
      BY <1>2, <2>4 DEF Fail
    <3>3. /\ FailedState(e, max) \in {"dead_letter", "retryable"}
          /\ FailedState(e, max) = "retryable" => tries[e] < MaxAttempts
      BY <3>1 DEF FailedState
    <3>4. PICK y \in {"rejected", "dead_letter", "retryable"} :
             /\ state' = [state EXCEPT ![e] = y]
             /\ y = "retryable" => tries[e] < MaxAttempts
      BY <3>2, <3>3 DEF SetState
    <3>5. \A t \in Session \ {s} : ~(phase[t] = "working" /\ at[t] = e)
      BY <1>2, <2>4 DEF Fail, ReceiptLocked
    <3>6. LetsGo(s, e, y)
      BY <1>1, <1>2, <1>3, <1>4, <2>1, <3>4, <3>5 DEF LetsGo
    <3>7. y \in States \ {"absent"}
      BY DEF States, Incomplete
    <3> QED
      BY <3>6, <3>7, WriteKeeps
  <2> QED
    BY <1>6, <2>2, <2>3, <2>4
<1> QED
  BY <1>5, <1>6

-----------------------------------------------------------------------------
(* The claim pays for its attempt with room in the budget, or with the     *)
(* permit of the replay that reopened the receipt.                         *)
LEMMA ClaimKeeps ==
    ASSUME InboxInv, NEW s \in Session, AdmitClaim(s)
    PROVE  InboxInv'
<1> USE DEF InboxInv
<1>1. PICK e \in Event, b \in Payload :
         /\ e = at[s] /\ b = body[s] /\ phase[s] = "admit" /\ seen[s] \in Claimable
         /\ Relies("admit", e, b, seen[s])
  BY DEF AdmitClaim, MayClaim, Claimable, TypeOK, SessionInv, Relies
<1>2. /\ state' = [state EXCEPT ![e] = "processing"] /\ digest' = [digest EXCEPT ![e] = b]
      /\ tries' = [tries EXCEPT ![e] = @ + 1] /\ ~ReceiptLocked(e)
      /\ Enter(s, "claimed", e, b, "absent")
      /\ UNCHANGED <<enabled, effects, acked, replays, crashes>>
  BY <1>1 DEF AdmitClaim, SetState, Goto
<1>3. Goes(s, "claimed", e, b, "absent")
  BY <1>2, InboxAssumption DEF Goes, Phase, States
<1>4. /\ phase'[s] = "claimed" /\ at'[s] = e /\ body'[s] = b
      /\ \A t \in Session \ {s} : /\ phase'[t] = phase[t] /\ at'[t] = at[t]
                                  /\ body'[t] = body[t] /\ seen'[t] = seen[t]
  BY <1>3, EnterSets
<1>5. /\ state'[e] = "processing" /\ tries'[e] = tries[e] + 1 /\ tries[e] \in Nat
      /\ \A c \in Event \ {e} : state'[c] = state[c] /\ tries'[c] = tries[c]
  BY <1>2 DEF TypeOK
<1>6. \A t \in Session \ {s} : phase[t] # "admit"
  BY <1>1 DEF LockInv
<1>7. TypeOK'
  <2>1. state' \in [Event -> States] /\ digest' \in [Event -> Payload \cup {NoPayload}]
    BY <1>2 DEF TypeOK, States, Incomplete
  <2>2. \A c \in Event : state'[c] = "absent" <=> digest'[c] = NoPayload
    BY <1>2, InboxAssumption DEF TypeOK
  <2>3. tries' \in [Event -> Nat]
    BY <1>2 DEF TypeOK
  <2> QED
    BY <1>2, <1>3, <2>1, <2>2, <2>3, EnterSets DEF TypeOK
<1>8. SessionInv'
  <2> SUFFICES ASSUME NEW t \in Session
               PROVE  Relies(phase[t], at[t], body[t], seen[t])'
    BY DEF SessionInv
  <2>1. CASE t = s
    BY <1>4, <1>5, <2>1 DEF Relies
  <2>2. CASE t # s
    <3>1. /\ phase'[t] = phase[t] /\ at'[t] = at[t] /\ body'[t] = body[t]
          /\ Relies(phase[t], at[t], body[t], seen[t]) /\ phase[t] # "admit"
          /\ at[t] \in Event \cup {NoEvent} /\ (at[t] = NoEvent <=> phase[t] = "idle")
          /\ phase[t] = "working" => at[t] # e
      BY <1>2, <1>4, <1>6, <2>2 DEF SessionInv, TypeOK, ReceiptLocked
    <3> QED
      BY <1>5, <3>1 DEF Relies, Holding, Owning
  <2> QED
    BY <2>1, <2>2
<1>9. LockInv'
  BY <1>4 DEF LockInv
<1>10. BudgetInv'
  <2> SUFFICES ASSUME NEW c \in Event
               PROVE  /\ IsFiniteSet(Sitting({"replay"}, c)')
                      /\ state'[c] \in {"absent", "retryable"} => tries'[c] < MaxAttempts
                      /\ Permits(c)' <= replays'
                      /\ tries'[c] + Permits(c)' <= MaxAttempts + replays'
    BY DEF BudgetInv
  <2>1. /\ IsFiniteSet(Sitting({"replay"}, c)) /\ Permits(c) <= replays
        /\ state[c] \in {"absent", "retryable"} => tries[c] < MaxAttempts
        /\ tries[c] + Permits(c) <= MaxAttempts + replays
    BY DEF BudgetInv
  <2>2. /\ IsFiniteSet(Sitting({"replay"}, c)')
        /\ Cardinality(Sitting({"replay"}, c)) \in Nat
        /\ Cardinality(Sitting({"replay"}, c)') = Cardinality(Sitting({"replay"}, c))
    BY <1>1, <1>3, <2>1, CountMoves
  <2>3. CASE c # e
    <3>1. Reopened(c)' => Reopened(c)
      BY <1>4, <1>5, <2>3 DEF Reopened
    <3>2. Permits(c) \in Nat /\ Permits(c)' \in Nat /\ Permits(c)' <= Permits(c)
      BY <2>2, <3>1 DEF Permits
    <3> QED
      BY <1>2, <1>5, <2>1, <2>2, <2>3, <3>2, Counts
  <2>4. CASE c = e
    <3>1. ~Reopened(c)'
      BY <1>4, <1>5, <1>6, <2>4 DEF Reopened
    <3>2. Permits(c)' = Cardinality(Sitting({"replay"}, c))
      BY <2>2, <3>1 DEF Permits
    <3>3. CASE seen[s] = "verified"
      <4>1. Permits(c) = Cardinality(Sitting({"replay"}, c)) + 1
        BY <1>1, <2>4, <3>3 DEF Permits, Reopened
      <4> QED
        BY <1>2, <1>5, <2>1, <2>2, <2>4, <3>2, <4>1, Counts
    <3>4. CASE seen[s] # "verified"
      <4>1. tries[e] < MaxAttempts
        BY <1>1, <3>4 DEF Relies, Claimable
      <4>2. Cardinality(Sitting({"replay"}, c)) <= replays
        BY <2>1, <2>2, Counts DEF Permits
      <4> QED
        BY <1>2, <1>5, <2>2, <2>4, <3>2, <4>1, <4>2, Counts
    <3> QED
      BY <3>3, <3>4
  <2> QED
    BY <2>3, <2>4
<1>11. JointInv'
  <2> SUFFICES ASSUME NEW c \in Joint
               PROVE  /\ IsFiniteSet(Sitting(Holding, c)')
                      /\ effects'[c] + Cardinality(Sitting(Holding, c)')
                           + (IF state'[c] \in Taken THEN 0 ELSE 1) <= 1 + replays'
    BY DEF JointInv, Sitting
  <2>1. c \in Event
    BY InboxAssumption
  <2>2. /\ IsFiniteSet(Sitting(Holding, c))
        /\ effects[c] + Cardinality(Sitting(Holding, c))
             + (IF state[c] \in Taken THEN 0 ELSE 1) <= 1 + replays
    BY DEF JointInv
  <2>3. phase[s] \notin Holding /\ "claimed" \in Holding
    BY <1>1 DEF Holding, Owning
  <2>4. /\ IsFiniteSet(Sitting(Holding, c)')
        /\ Cardinality(Sitting(Holding, c)) \in Nat
        /\ Cardinality(Sitting(Holding, c)')
             = Cardinality(Sitting(Holding, c)) + (IF e = c THEN 1 ELSE 0)
    BY <1>3, <2>2, <2>3, CountMoves
  <2>5. CASE c # e
    BY <1>2, <1>5, <2>1, <2>2, <2>4, <2>5, Counts
  <2>6. CASE c = e
    <3>1. state[c] \notin Taken /\ state'[c] \in Taken
      BY <1>1, <1>5, <2>6 DEF Relies, Taken
    <3> QED
      BY <1>2, <2>1, <2>2, <2>4, <2>6, <3>1, Counts
  <2> QED
    BY <2>5, <2>6
<1>12. OwnerInv'
  <2> SUFFICES ASSUME replays = 0 PROVE OwnerInv'
    BY <1>2 DEF OwnerInv
  <2>1. \A t \in Session \ {s} : phase[t] \in Owning => at[t] # e
    BY <1>1 DEF OwnerInv
  <2>2. \A t \in Session : phase[t] \in Owning => at[t] \in Event
    BY DEF TypeOK, Owning
  <2> QED
    BY <1>4, <1>5, <1>6, <2>1, <2>2 DEF OwnerInv, Owning
<1> QED
  BY <1>7, <1>8, <1>9, <1>10, <1>11, <1>12

(* An authorized replay is one permit more, held by its session.           *)
LEMMA ReplayReadKeeps ==
    ASSUME InboxInv, NEW s \in Session, NEW e \in Event, ReplayRead(s, e)
    PROVE  InboxInv'
<1> USE DEF InboxInv
<1>1. PICK st \in States \ {"absent"} : st = state[e]
  BY DEF ReplayRead, TypeOK, Replayable
<1>2. /\ state' = state /\ digest' = digest /\ tries' = tries /\ replays' = replays + 1
      /\ UNCHANGED <<enabled, effects, acked, crashes>> /\ phase[s] = "idle"
      /\ replays \in Nat
  BY InboxAssumption DEF ReplayRead, rowVars, TypeOK
<1>3. Goes(s, "replay", e, NoPayload, st)
  BY <1>1, InboxAssumption DEF ReplayRead, Goes, Phase
<1>4. /\ phase'[s] = "replay" /\ at'[s] = e
      /\ \A t \in Session \ {s} : /\ phase'[t] = phase[t] /\ at'[t] = at[t]
                                  /\ body'[t] = body[t] /\ seen'[t] = seen[t]
  BY <1>3, EnterSets
<1>5. TypeOK'
  <2>1. replays' \in 0..MaxReplays
    BY InboxAssumption DEF ReplayRead, TypeOK
  <2> QED
    BY <1>2, <1>3, <2>1, EnterSets DEF TypeOK
<1>6. SessionInv'
  <2> SUFFICES ASSUME NEW t \in Session
               PROVE  Relies(phase[t], at[t], body[t], seen[t])'
    BY DEF SessionInv
  <2>1. CASE t = s
    BY <1>1, <1>2, <1>4, <2>1 DEF Relies
  <2>2. CASE t # s
    BY <1>2, <1>4, <2>2 DEF SessionInv, Relies
  <2> QED
    BY <2>1, <2>2
<1>7. LockInv'
  BY <1>4 DEF LockInv
<1>8. BudgetInv'
  <2> SUFFICES ASSUME NEW c \in Event
               PROVE  /\ IsFiniteSet(Sitting({"replay"}, c)')
                      /\ state'[c] \in {"absent", "retryable"} => tries'[c] < MaxAttempts
                      /\ Permits(c)' <= replays'
                      /\ tries'[c] + Permits(c)' <= MaxAttempts + replays'
    BY DEF BudgetInv
  <2>1. /\ IsFiniteSet(Sitting({"replay"}, c)) /\ Permits(c) <= replays
        /\ state[c] \in {"absent", "retryable"} => tries[c] < MaxAttempts
        /\ tries[c] + Permits(c) <= MaxAttempts + replays
    BY DEF BudgetInv
  <2>2. Reopened(c)' => Reopened(c)
    BY <1>2, <1>4 DEF Reopened
  <2>3. /\ IsFiniteSet(Sitting({"replay"}, c)')
        /\ Cardinality(Sitting({"replay"}, c)) \in Nat
        /\ Cardinality(Sitting({"replay"}, c)') \in Nat
        /\ Cardinality(Sitting({"replay"}, c)') <= Cardinality(Sitting({"replay"}, c)) + 1
    BY <1>3, <2>1, CountMoves
  <2>4. Permits(c) \in Nat /\ Permits(c)' \in Nat /\ Permits(c)' <= Permits(c) + 1
    BY <2>2, <2>3 DEF Permits
  <2> QED
    BY <1>2, <2>1, <2>3, <2>4, Counts
<1>9. JointInv'
  <2> SUFFICES ASSUME NEW c \in Joint
               PROVE  /\ IsFiniteSet(Sitting(Holding, c)')
                      /\ effects'[c] + Cardinality(Sitting(Holding, c)')
                           + (IF state'[c] \in Taken THEN 0 ELSE 1) <= 1 + replays'
    BY DEF JointInv, Sitting
  <2>1. c \in Event
    BY InboxAssumption
  <2>2. /\ IsFiniteSet(Sitting(Holding, c))
        /\ effects[c] + Cardinality(Sitting(Holding, c))
             + (IF state[c] \in Taken THEN 0 ELSE 1) <= 1 + replays
    BY DEF JointInv
  <2>3. /\ IsFiniteSet(Sitting(Holding, c)')
        /\ Cardinality(Sitting(Holding, c)) \in Nat
        /\ Cardinality(Sitting(Holding, c)') \in Nat
        /\ Cardinality(Sitting(Holding, c)') <= Cardinality(Sitting(Holding, c)) + 1
    BY <1>3, <2>2, CountMoves
  <2> QED
    BY <1>2, <2>1, <2>2, <2>3, Counts
<1>10. OwnerInv'
  BY <1>2 DEF OwnerInv
<1> QED
  BY <1>5, <1>6, <1>7, <1>8, <1>9, <1>10

-----------------------------------------------------------------------------
(* The specification.                                                      *)
LEMMA InitKeeps == Init => InboxInv
<1> SUFFICES ASSUME Init PROVE InboxInv
  OBVIOUS
<1>1. TypeOK
  BY InboxAssumption DEF Init, TypeOK, States, Phase
<1>2. SessionInv /\ LockInv /\ OwnerInv
  BY DEF Init, SessionInv, Relies, Holding, Owning, LockInv, OwnerInv
<1>3. \A e \in Event : \A P : "idle" \notin P => Sitting(P, e) = {}
  BY DEF Init, Sitting
<1>4. BudgetInv
  <2> SUFFICES ASSUME NEW e \in Event
               PROVE  /\ IsFiniteSet(Sitting({"replay"}, e))
                      /\ state[e] \in {"absent", "retryable"} => tries[e] < MaxAttempts
                      /\ Permits(e) <= replays /\ tries[e] + Permits(e) <= MaxAttempts + replays
    BY DEF BudgetInv
  <2>1. IsFiniteSet(Sitting({"replay"}, e)) /\ Cardinality(Sitting({"replay"}, e)) = 0
    BY <1>3, FS_EmptySet
  <2>2. ~Reopened(e) /\ tries[e] = 0 /\ replays = 0
    BY DEF Init, Reopened
  <2>3. Permits(e) = 0
    BY <2>1, <2>2 DEF Permits
  <2> QED
    BY <2>1, <2>2, <2>3, InboxAssumption
<1>5. JointInv
  <2> SUFFICES ASSUME NEW e \in Joint
               PROVE  /\ IsFiniteSet(Sitting(Holding, e))
                      /\ effects[e] + Cardinality(Sitting(Holding, e))
                           + (IF state[e] \in Taken THEN 0 ELSE 1) <= 1 + replays
    BY DEF JointInv
  <2>1. e \in Event /\ "idle" \notin Holding
    BY InboxAssumption DEF Holding, Owning
  <2>2. IsFiniteSet(Sitting(Holding, e)) /\ Cardinality(Sitting(Holding, e)) = 0
    BY <1>3, <2>1, FS_EmptySet
  <2>3. effects[e] = 0 /\ replays = 0
    BY <2>1 DEF Init
  <2> QED
    BY <2>2, <2>3
<1> QED
  BY <1>1, <1>2, <1>4, <1>5 DEF InboxInv

(* A step that writes neither receipts nor sessions, and stuttering.       *)
LEMMA EnableKeeps ==
    ASSUME InboxInv, UNCHANGED <<state, digest, tries, effects, acked, sessVars, replays, crashes>>,
           enabled' \in BOOLEAN
    PROVE  InboxInv'
<1> USE DEF InboxInv, sessVars
<1>1. TypeOK' /\ SessionInv' /\ LockInv'
  BY DEF TypeOK, SessionInv, Relies, LockInv
<1>2. OwnerInv'
  BY DEF OwnerInv
<1>3. \A P, e : Sitting(P, e)' = Sitting(P, e)
  BY DEF Sitting
<1>4. \A e : Reopened(e)' <=> Reopened(e)
  BY DEF Reopened
<1>5. BudgetInv'
  BY <1>3, <1>4 DEF BudgetInv, Permits
<1>6. JointInv'
  BY <1>3 DEF JointInv, Holding, Owning
<1> QED
  BY <1>1, <1>2, <1>5, <1>6

(* Every step keeps the invariant.                                         *)
LEMMA StepKeeps ==
    ASSUME InboxInv, Next
    PROVE  InboxInv'
<1>1. ASSUME NEW s \in Web,
             WebStep(s) \/ \E e \in Event, p \in Payload : Verify(s, e, p)
      PROVE  InboxInv'
  BY <1>1, MovesKeep, WritesKeep, ClaimKeeps DEF WebStep, Session
<1>2. ASSUME NEW s \in Operator, ReplayWrite(s) \/ \E e \in Event : ReplayRead(s, e)
      PROVE  InboxInv'
  BY <1>2, WritesKeep, ReplayReadKeeps DEF Session
<1>3. ASSUME Enable PROVE InboxInv'
  BY <1>3, EnableKeeps DEF Enable
<1> QED
  BY <1>1, <1>2, <1>3, MovesKeep DEF Next

(* The invariant of receipts, sessions and permits.                        *)
THEOREM InboxInvariant == Spec => []InboxInv
<1>1. Init => InboxInv
  BY InitKeeps
<1>2. InboxInv /\ [Next]_vars => InboxInv'
  <2>1. InboxInv /\ UNCHANGED vars => InboxInv'
    BY EnableKeeps DEF vars, rowVars, InboxInv, TypeOK
  <2> QED
    BY <2>1, StepKeeps
<1> QED
  BY <1>1, <1>2, PTL DEF Spec

(* Receipts and sessions keep their types; a receipt has a payload digest  *)
(* from its first commit on.                                               *)
THEOREM InboxTypes == Spec => []TypeOK
<1>1. InboxInv => TypeOK
  BY DEF InboxInv
<1> QED
  BY <1>1, InboxInvariant, PTL

(* While nothing was replayed, concurrent deliveries of one event never    *)
(* have it processed by two requests at once, for joint and split          *)
(* consumers alike (receive_verified and claim_for_processing).            *)
THEOREM Exclusive == Spec => []ExclusiveProcessing
<1>1. InboxInv => ExclusiveProcessing
  BY DEF InboxInv, OwnerInv, ExclusiveProcessing, Processes, Owning
<1> QED
  BY <1>1, InboxInvariant, PTL

(* A joint consequence is committed at most once more than receipts were   *)
(* replayed, although a failing request writes over a processed receipt.   *)
THEOREM ConsequenceOnce == Spec => []JointConsequenceOnce
<1>1. ASSUME InboxInv, NEW e \in Joint PROVE effects[e] <= 1 + replays
  <2>1. e \in Event /\ TypeOK
    BY <1>1, InboxAssumption DEF InboxInv
  <2>2. Cardinality(Sitting(Holding, e)) \in Nat
    BY <1>1, FS_CardinalityType DEF InboxInv, JointInv
  <2> QED
    BY <1>1, <2>1, <2>2, Counts DEF InboxInv, JointInv
<1>2. InboxInv => JointConsequenceOnce
  BY <1>1 DEF JointConsequenceOnce
<1> QED
  BY <1>2, InboxInvariant, PTL

(* A receipt is claimed at most max_attempts times, and once more for each *)
(* authorized replay, whatever fails, is redelivered or dies.              *)
THEOREM AttemptsBounded == Spec => []AttemptBudget
<1>1. ASSUME InboxInv, NEW e \in Event PROVE tries[e] <= MaxAttempts + replays
  <2>1. Cardinality(Sitting({"replay"}, e)) \in Nat
    BY <1>1, FS_CardinalityType DEF InboxInv, BudgetInv
  <2>2. Permits(e) \in Nat
    BY <2>1 DEF Permits
  <2>3. TypeOK /\ tries[e] + Permits(e) <= MaxAttempts + replays
    BY <1>1 DEF InboxInv, BudgetInv
  <2> QED
    BY <2>2, <2>3, Counts
<1>2. InboxInv => AttemptBudget
  BY <1>1 DEF AttemptBudget
<1> QED
  BY <1>2, InboxInvariant, PTL
=============================================================================
