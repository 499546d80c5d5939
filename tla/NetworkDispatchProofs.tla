------------------------ MODULE NetworkDispatchProofs ------------------------
(***************************************************************************)
(* Proofs about NetworkDispatch for any operations, targets, sessions and  *)
(* limits.  The properties become inductive with what an open transaction  *)
(* may rely on: the row lock keeps what it read of its dispatch true, an   *)
(* acknowledgement is never taken back, and the lock of a redrive keeps    *)
(* its source failed and without a successor.                              *)
(***************************************************************************)
EXTENDS NetworkDispatch, TLAPS

OpState == {"absent"} \cup Active \cup Terminal
RowState == {"absent", "acknowledged"} \cup Ready \cup Settled
AnyPhase == BeatPhase \cup WorkerPhase \cup RequestPhase

(* Phases of a session that works on an acknowledged dispatch.             *)
AckedPhase == {"suspect", "reconcile", "claimed", "starting", "device", "report",
               "abort", "finish", "raised", "fail"}

(* What a session in phase p may rely on of operation o and its dispatch.  *)
Relies(p, o) ==
    /\ p \in {"publish", "published", "claim"} => dStatus[o] \in Ready
    /\ p = "published" => attempts[o] < MaxAttempts
    /\ p = "fail" => dStatus[o] = "acknowledged"
    /\ p \in AckedPhase => o \in acked
    /\ p = "claimed" => execs[o] = 0
    /\ p = "stale" => opStatus[o] # "absent"
    /\ p = "redrive" => opStatus[o] = "failed" /\ retry[o] < MaxRetries /\ ~Superseded(o)

SessionInv == \A s \in Session : Relies(phase[s], at[s])

(* The two phases exclude each other on one operation.                     *)
Conflict(p, q) ==
    \/ p \in Locking /\ q \in Locking
    \/ p = "claimed" /\ q = "claimed"
    \/ p = "redrive" /\ q = "redrive"

ExclusionInv ==
    \A s, t \in Session : s # t /\ at[s] = at[t] => ~Conflict(phase[s], phase[t])

(* An operation has a dispatch; the acknowledgement and the status of a    *)
(* dispatch agree; only an acknowledged one was entered, and once.         *)
RowInv ==
    \A o \in Op :
       /\ opStatus[o] = "absent" <=> dStatus[o] = "absent"
       /\ opStatus[o] = "absent" => source[o] = NoOp
       /\ Superseded(o) => opStatus[o] # "absent"
       /\ dStatus[o] = "acknowledged" => o \in acked
       /\ o \in acked => dStatus[o] \in {"acknowledged", "completed", "reconciliation_needed"}
       /\ execs[o] <= 1 /\ (execs[o] > 0 => o \in acked)

DispatchInv ==
    /\ TypeOK /\ RowInv /\ SessionInv /\ ExclusionInv
    /\ OneActivePerTarget /\ LineageIsLinear

-----------------------------------------------------------------------------
(* A session s goes to phase p of operation o, having read st.             *)
Goes(s, p, o, st) ==
    /\ Enter(s, p, o, st)
    /\ p \in AnyPhase /\ o \in Op \cup {NoOp} /\ st \in OpState
    /\ o = NoOp <=> p = "idle"
    /\ Relies(p, o)'
    /\ \A t \in Session \ {s} : at[t] = o => ~Conflict(p, phase[t])

(* A step writes operation a and its dispatch only.                        *)
Touches(a) ==
    /\ opStatus' = [opStatus EXCEPT ![a] = opStatus'[a]]
    /\ dStatus' = [dStatus EXCEPT ![a] = dStatus'[a]]
    /\ attempts' = [attempts EXCEPT ![a] = attempts'[a]]
    /\ execs' = [execs EXCEPT ![a] = execs'[a]]
    /\ acked' \in {acked, acked \cup {a}}
    /\ UNCHANGED <<source, retry, aged>>

(* What a session may write: an operation that no redrive locks, a row     *)
(* that it has locked or nobody has, an entry that it claimed; active only *)
(* what the index lets be active.                                          *)
MayWrite(s, a) ==
    /\ opStatus'[a] = opStatus[a] \/ ~OpLocked(a)
    /\ opStatus'[a] \in Active => opStatus[a] \in Active \/ IndexFree(a)
    /\ \/ dStatus'[a] = dStatus[a] /\ attempts'[a] = attempts[a]
       \/ phase[s] \in Locking
       \/ ~RowLocked(a)
    /\ execs'[a] = execs[a] \/ phase[s] = "claimed"

(* ... and what it leaves.                                                 *)
WellWritten(a) ==
    /\ opStatus[a] # "absent" /\ opStatus'[a] \in OpState \ {"absent"}
    /\ dStatus'[a] \in RowState \ {"absent"}
    /\ attempts'[a] \in 0..MaxAttempts /\ execs'[a] \in 0..1
    /\ dStatus'[a] = "acknowledged" => a \in acked'
    /\ a \in acked' => dStatus'[a] \in {"acknowledged", "completed", "reconciliation_needed"}
    /\ execs'[a] > 0 => a \in acked'
    /\ envelopes' \in [Op -> Nat] /\ crashes' \in 0..MaxCrashes

(* The sessions after a step of one of them.                               *)
LEMMA EnterSets ==
    ASSUME TypeOK, NEW s \in Session, NEW p, NEW o, NEW st, Goes(s, p, o, st)
    PROVE  /\ phase' \in [Session -> AnyPhase] /\ at' \in [Session -> Op \cup {NoOp}]
           /\ seen' \in [Session -> OpState]
           /\ \A t \in Session : at'[t] = NoOp <=> phase'[t] = "idle"
           /\ phase'[s] = p /\ at'[s] = o
           /\ \A t \in Session \ {s} : phase'[t] = phase[t] /\ at'[t] = at[t]
BY DEF TypeOK, Goes, Enter, AnyPhase, OpState

(* A move into a phase that holds the row lock finds the lock free.        *)
LEMMA EnterExcludes ==
    ASSUME TypeOK, ExclusionInv, NEW s \in Session, NEW p, NEW o, NEW st,
           Goes(s, p, o, st)
    PROVE  ExclusionInv'
<1> SUFFICES ASSUME NEW t \in Session, NEW u \in Session, t # u, at'[t] = at'[u]
             PROVE  ~Conflict(phase'[t], phase'[u])
  BY DEF ExclusionInv, Conflict
<1>1. \A q, r : Conflict(q, r) <=> Conflict(r, q)
  BY DEF Conflict
<1>2. \A v \in Session \ {s} : at[v] = o => ~Conflict(p, phase[v])
  BY DEF Goes
<1> QED
  BY <1>1, <1>2, EnterSets DEF ExclusionInv

(* A step that moves one session and writes no row.                        *)
LEMMA MoveKeeps ==
    ASSUME DispatchInv, NEW s \in Session, NEW p, NEW o, NEW st, Goes(s, p, o, st),
           UNCHANGED <<opVars, rowVars, execs>>,
           envelopes' \in [Op -> Nat], crashes' \in 0..MaxCrashes
    PROVE  DispatchInv'
<1> USE DEF DispatchInv
<1>1. UNCHANGED <<opStatus, source, retry, dStatus, attempts, acked, aged, execs>>
  BY DEF opVars, rowVars
<1>2. TypeOK'
  BY <1>1, EnterSets DEF TypeOK, AnyPhase, OpState
<1>3. RowInv' /\ OneActivePerTarget' /\ LineageIsLinear'
  BY <1>1 DEF RowInv, Superseded, OneActivePerTarget, LineageIsLinear
<1>4. SessionInv'
  <2> SUFFICES ASSUME NEW t \in Session PROVE Relies(phase[t], at[t])'
    BY DEF SessionInv
  <2>1. CASE t = s
    BY <2>1, EnterSets DEF Goes, Relies, Superseded
  <2>2. CASE t # s
    BY <1>1, <2>2, EnterSets DEF SessionInv, Relies, Superseded
  <2> QED
    BY <2>1, <2>2
<1>5. ExclusionInv'
  BY EnterExcludes
<1> QED
  BY <1>2, <1>3, <1>4, <1>5

(* A step of a session that writes its operation or its dispatch.          *)
LEMMA WriteKeeps ==
    ASSUME DispatchInv, NEW s \in Session, NEW a \in Op, at[s] = a,
           Touches(a), MayWrite(s, a), WellWritten(a),
           NEW p, NEW o, NEW st, Goes(s, p, o, st)
    PROVE  DispatchInv'
<1> USE DEF DispatchInv
<1>1. /\ UNCHANGED <<source, retry, aged>> /\ acked \subseteq acked' /\ acked' \subseteq Op
      /\ \A b \in Op \ {a} :
            /\ opStatus'[b] = opStatus[b] /\ dStatus'[b] = dStatus[b]
            /\ attempts'[b] = attempts[b] /\ execs'[b] = execs[b]
            /\ b \in acked' <=> b \in acked
  BY DEF Touches, TypeOK
<1>2. TypeOK'
  <2>1. /\ opStatus' \in [Op -> OpState] /\ dStatus' \in [Op -> RowState]
        /\ attempts' \in [Op -> 0..MaxAttempts] /\ execs' \in [Op -> Nat]
    BY DEF Touches, WellWritten, TypeOK, OpState, RowState
  <2> QED
    BY <1>1, <2>1, EnterSets DEF TypeOK, AnyPhase, OpState, RowState, WellWritten
<1>3. RowInv'
  <2> SUFFICES ASSUME NEW b \in Op
               PROVE  /\ opStatus'[b] = "absent" <=> dStatus'[b] = "absent"
                      /\ opStatus'[b] = "absent" => source[b] = NoOp
                      /\ Superseded(b) => opStatus'[b] # "absent"
                      /\ dStatus'[b] = "acknowledged" => b \in acked'
                      /\ b \in acked' =>
                           dStatus'[b] \in {"acknowledged", "completed", "reconciliation_needed"}
                      /\ execs'[b] <= 1 /\ (execs'[b] > 0 => b \in acked')
    BY <1>1 DEF RowInv, Superseded
  <2>1. CASE b = a
    BY <2>1 DEF WellWritten
  <2>2. CASE b # a
    BY <1>1, <2>2 DEF RowInv
  <2> QED
    BY <2>1, <2>2
<1>4. SessionInv'
  <2> SUFFICES ASSUME NEW t \in Session PROVE Relies(phase[t], at[t])'
    BY DEF SessionInv
  <2>1. CASE t = s
    BY <2>1, EnterSets DEF Goes, Relies, Superseded
  <2>2. CASE t # s
    <3>1. phase'[t] = phase[t] /\ at'[t] = at[t] /\ Relies(phase[t], at[t])
      BY <2>2, EnterSets DEF SessionInv
    <3>2. CASE at[t] # a
      <4>1. phase[t] # "idle" => at[t] \in Op
        BY DEF TypeOK
      <4> QED
        BY <1>1, <3>1, <3>2, <4>1 DEF Relies, Superseded, AckedPhase
    <3>3. CASE at[t] = a
      <4>1. ~Conflict(phase[s], phase[t])
        BY <2>2, <3>3 DEF ExclusionInv
      <4>2. phase[t] \in Locking => dStatus'[a] = dStatus[a] /\ attempts'[a] = attempts[a]
        BY <3>3, <4>1 DEF MayWrite, Conflict, RowLocked
      <4>3. phase[t] = "claimed" => execs'[a] = execs[a]
        BY <4>1 DEF MayWrite, Conflict
      <4>4. phase[t] = "redrive" => opStatus'[a] = opStatus[a]
        BY <3>3 DEF MayWrite, OpLocked
      <4> QED
        BY <1>1, <3>1, <3>3, <4>2, <4>3, <4>4
           DEF Relies, Superseded, Locking, AckedPhase, WellWritten
    <3> QED
      BY <3>2, <3>3
  <2> QED
    BY <2>1, <2>2
<1>5. ExclusionInv'
  BY EnterExcludes
<1>6. OneActivePerTarget'
  BY <1>1 DEF OneActivePerTarget, MayWrite, IndexFree
<1>7. LineageIsLinear'
  BY <1>1 DEF LineageIsLinear
<1> QED
  BY <1>2, <1>3, <1>4, <1>5, <1>6, <1>7

(* Leaving is always possible: an idle session relies on nothing.          *)
LEMMA LeaveGoes ==
    ASSUME NEW s \in Session, Leave(s)
    PROVE  Goes(s, "idle", NoOp, "absent")
BY NetworkAssumption
   DEF Leave, Goes, AnyPhase, BeatPhase, OpState, Relies, AckedPhase, Conflict, Locking

(* Phases that exclude no other.                                           *)
LEMMA FreeGoes ==
    ASSUME NEW s \in Session, NEW p, NEW o \in Op, NEW st \in OpState, Enter(s, p, o, st),
           p \in AnyPhase \ (Locking \cup {"idle", "claimed", "redrive"}), Relies(p, o)'
    PROVE  Goes(s, p, o, st)
BY NetworkAssumption DEF Goes, Conflict

(* Nobody has the row: a session may go to a phase that locks it.          *)
LEMMA LockGoes ==
    ASSUME NEW s \in Session, NEW p \in Locking, NEW o \in Op, NEW st \in OpState,
           Enter(s, p, o, st), Relies(p, o)', ~RowLocked(o)
    PROVE  Goes(s, p, o, st)
<1>1. p \in AnyPhase /\ p \notin {"idle", "claimed", "redrive"}
  BY DEF Locking, AnyPhase, BeatPhase, WorkerPhase, RequestPhase
<1>2. \A t \in Session \ {s} : at[t] = o => phase[t] \notin Locking
  BY DEF RowLocked
<1> QED
  BY <1>1, <1>2, NetworkAssumption DEF Goes, Conflict

(* ... or the session has it already.                                      *)
LEMMA StillLocked ==
    ASSUME ExclusionInv, NEW s \in Session, NEW p \in Locking, NEW o \in Op,
           NEW st \in OpState, Enter(s, p, o, st), Relies(p, o)',
           phase[s] \in Locking, at[s] = o
    PROVE  Goes(s, p, o, st)
<1>1. p \in AnyPhase /\ p \notin {"idle", "claimed", "redrive"}
  BY DEF Locking, AnyPhase, BeatPhase, WorkerPhase, RequestPhase
<1>2. \A t \in Session \ {s} : at[t] = o => phase[t] \notin Locking
  BY DEF ExclusionInv, Conflict
<1> QED
  BY <1>1, <1>2, NetworkAssumption DEF Goes, Conflict

-----------------------------------------------------------------------------
(* Steps that write no row.                                                *)
LEMMA RequestMovesKeep ==
    ASSUME DispatchInv, NEW s \in Session,
           \/ StaleAbandon(s) \/ RedriveAbandon(s)
           \/ \E o \in Op : StaleRead(s, o) \/ RedriveReview(s, o)
    PROVE  DispatchInv'
<1> USE DEF DispatchInv
<1>1. CASE StaleAbandon(s) \/ RedriveAbandon(s)
  <2>1. Leave(s) /\ UNCHANGED <<opVars, rowVars, envelopes, execs, crashes>>
    BY <1>1 DEF StaleAbandon, RedriveAbandon
  <2> QED
    BY <2>1, LeaveGoes, MoveKeeps DEF TypeOK
<1>2. ASSUME NEW o \in Op, StaleRead(s, o) PROVE DispatchInv'
  <2>1. /\ Enter(s, "stale", o, opStatus[o]) /\ opStatus[o] \in Active
        /\ UNCHANGED <<opVars, rowVars, envelopes, execs, crashes>>
    BY <1>2 DEF StaleRead
  <2>2. Goes(s, "stale", o, opStatus[o])
    <3>1. PICK st \in OpState : st = opStatus[o]
      BY DEF TypeOK, OpState
    <3>2. Relies("stale", o)'
      BY <2>1 DEF Relies, AckedPhase, opVars, Active
    <3> QED
      BY <2>1, <3>1, <3>2, FreeGoes DEF AnyPhase, RequestPhase, Locking
  <2> QED
    BY <2>1, <2>2, MoveKeeps DEF TypeOK
<1>3. ASSUME NEW o \in Op, RedriveReview(s, o) PROVE DispatchInv'
  <2>1. /\ Enter(s, "redrive", o, opStatus[o]) /\ opStatus[o] = "failed"
        /\ retry[o] < MaxRetries /\ ~Superseded(o) /\ ~OpLocked(o)
        /\ UNCHANGED <<opVars, rowVars, envelopes, execs, crashes>>
    BY <1>3 DEF RedriveReview
  <2>2. Goes(s, "redrive", o, "failed")
    <3>1. Relies("redrive", o)'
      BY <2>1 DEF Relies, AckedPhase, opVars, Superseded
    <3> QED
      BY <2>1, <3>1, NetworkAssumption
         DEF Goes, AnyPhase, RequestPhase, OpState, Terminal, Conflict, Locking, OpLocked
  <2> QED
    BY <2>1, <2>2, MoveKeeps DEF TypeOK
<1> QED
  BY <1>1, <1>2, <1>3

(* The moves of the beat tasks, publisher and reconciler.                  *)
LEMMA BeatMovesKeep ==
    ASSUME DispatchInv, NEW s \in Session,
           \/ PublishLock(s) \/ PublishAccepted(s) \/ ReconcileLock(s) \/ ReconcileSkip(s)
           \/ \E o \in Op : PublishSelect(s, o) \/ ReconcileSelect(s, o)
    PROVE  DispatchInv'
<1> USE DEF DispatchInv
<1>0. phase[s] # "idle" => at[s] \in Op
  BY DEF TypeOK
<1>1. CASE /\ Leave(s) 
           /\ UNCHANGED <<opVars, rowVars, envelopes, execs, crashes>>
  BY <1>1, LeaveGoes, MoveKeeps DEF TypeOK
<1>2. ASSUME NEW o \in Op, PublishSelect(s, o) PROVE DispatchInv'
  <2>1. Relies("selected", o)'
    BY DEF Relies, AckedPhase
  <2>2. Goes(s, "selected", o, "absent")
    BY <1>2, <2>1, FreeGoes DEF PublishSelect, AnyPhase, BeatPhase, Locking, OpState
  <2> QED
    BY <1>2, <2>2, MoveKeeps DEF PublishSelect, TypeOK
<1>3. ASSUME NEW o \in Op, ReconcileSelect(s, o) PROVE DispatchInv'
  <2>1. o \in acked' 
    BY <1>3 DEF ReconcileSelect, RowInv, rowVars
  <2>2. Relies("suspect", o)'
    BY <2>1 DEF Relies, AckedPhase
  <2>3. Goes(s, "suspect", o, "absent")
    BY <1>3, <2>2, FreeGoes DEF ReconcileSelect, AnyPhase, BeatPhase, Locking, OpState
  <2> QED
    BY <1>3, <2>3, MoveKeeps DEF ReconcileSelect, TypeOK
<1>4. CASE PublishLock(s) /\ ~Leave(s)
  <2>1. PICK o \in Op, st \in OpState : o = at[s] /\ st = opStatus[o]
    BY <1>0, <1>4 DEF PublishLock, TypeOK, OpState
  <2>2. Enter(s, "publish", o, st) /\ dStatus[o] \in Ready /\ ~RowLocked(o)
    BY <1>4, <2>1 DEF PublishLock
  <2>3. Relies("publish", o)'
    BY <1>4, <2>2 DEF Relies, AckedPhase, PublishLock, rowVars
  <2>4. Goes(s, "publish", o, st)
    <3>1. "publish" \in Locking
      BY DEF Locking
    <3> QED
      BY <2>2, <2>3, <3>1, LockGoes
  <2> QED
    BY <1>4, <2>4, MoveKeeps DEF PublishLock, TypeOK
<1>5. CASE ReconcileLock(s) /\ ~Leave(s)
  <2>1. PICK o \in Op, st \in OpState : o = at[s] /\ st = opStatus[o]
    BY <1>0, <1>5 DEF ReconcileLock, TypeOK, OpState
  <2>2. Enter(s, "reconcile", o, st) /\ ~RowLocked(o) /\ o \in acked'
    BY <1>5, <2>1 DEF ReconcileLock, SessionInv, Relies, AckedPhase, rowVars
  <2>3. Relies("reconcile", o)'
    BY <2>2 DEF Relies, AckedPhase
  <2>4. Goes(s, "reconcile", o, st)
    <3>1. "reconcile" \in Locking
      BY DEF Locking
    <3> QED
      BY <2>2, <2>3, <3>1, LockGoes
  <2> QED
    BY <1>5, <2>4, MoveKeeps DEF ReconcileLock, TypeOK
<1>6. CASE PublishAccepted(s)
  <2>1. PICK o \in Op : o = at[s]
    BY <1>0, <1>6 DEF PublishAccepted
  <2>2. /\ Enter(s, "published", o, "absent") /\ phase[s] \in Locking
        /\ dStatus[o] \in Ready /\ attempts[o] < MaxAttempts
        /\ UNCHANGED <<opVars, rowVars, execs, crashes>>
    BY <1>6, <2>1 DEF PublishAccepted, Goto, SessionInv, Relies, Locking
  <2>3. Relies("published", o)'
    BY <2>2 DEF Relies, AckedPhase, rowVars
  <2>4. Goes(s, "published", o, "absent")
    BY <2>1, <2>2, <2>3, StillLocked DEF Locking, OpState
  <2>5. envelopes' \in [Op -> Nat]
    BY <1>6, <2>1 DEF PublishAccepted, TypeOK
  <2> QED
    BY <2>2, <2>4, <2>5, MoveKeeps DEF TypeOK
<1>7. CASE ReconcileSkip(s)
  BY <1>1, <1>7 DEF ReconcileSkip
<1> QED
  BY <1>1, <1>2, <1>3, <1>4, <1>5, <1>6, <1>7 DEF PublishLock, ReconcileLock

(* A worker goes on with its acknowledged dispatch.                        *)
LEMMA TaskMoveKeeps ==
    ASSUME DispatchInv, NEW s \in Session, NEW p, NEW o \in Op, NEW st \in OpState,
           Enter(s, p, o, st), phase[s] \in AckedPhase, at[s] = o,
           p \in {"report", "abort", "raised", "starting", "device", "finish"},
           UNCHANGED <<opVars, rowVars, envelopes, execs, crashes>>
    PROVE  DispatchInv'
<1> USE DEF DispatchInv
<1>1. o \in acked'
  BY DEF SessionInv, Relies, rowVars
<1>2. Relies(p, o)'
  BY <1>1 DEF Relies
<1>3. p \in AnyPhase \ (Locking \cup {"idle", "claimed", "redrive"})
  BY DEF AnyPhase, WorkerPhase, Locking
<1>4. Goes(s, p, o, st)
  BY <1>2, <1>3, FreeGoes
<1> QED
  BY <1>4, MoveKeeps DEF TypeOK

(* The moves of a worker before it writes.                                 *)
LEMMA WorkerMovesKeep ==
    ASSUME DispatchInv, NEW s \in Session,
           \/ ClaimLock(s) \/ ClaimRaises(s) \/ ReportRead(s) \/ DeviceError(s)
           \/ TaskRaises(s) \/ FailLock(s) \/ \E o \in Op : Receive(s, o)
    PROVE  DispatchInv'
<1> USE DEF DispatchInv
<1>0. phase[s] # "idle" => at[s] \in Op
  BY DEF TypeOK
<1>1. CASE Leave(s) /\ UNCHANGED <<opVars, rowVars, envelopes, execs, crashes>>
  BY <1>1, LeaveGoes, MoveKeeps DEF TypeOK
<1>2. ASSUME NEW o \in Op, Receive(s, o) PROVE DispatchInv'
  <2>1. Relies("received", o)'
    BY DEF Relies, AckedPhase
  <2>2. Goes(s, "received", o, "absent")
    BY <1>2, <2>1, FreeGoes DEF Receive, AnyPhase, WorkerPhase, Locking, OpState
  <2>3. envelopes' \in [Op -> Nat]
    BY <1>2 DEF Receive, TypeOK
  <2> QED
    BY <1>2, <2>2, <2>3, MoveKeeps DEF Receive, TypeOK
<1>3. CASE ClaimLock(s) /\ ~Leave(s)
  <2>1. PICK o \in Op, st \in OpState : o = at[s] /\ st = opStatus[o]
    BY <1>0, <1>3 DEF ClaimLock, TypeOK, OpState
  <2>2. Enter(s, "claim", o, st) /\ dStatus[o] \in Ready /\ ~RowLocked(o)
    BY <1>3, <2>1 DEF ClaimLock
  <2>3. Relies("claim", o)' /\ "claim" \in Locking
    BY <1>3, <2>2 DEF Relies, AckedPhase, ClaimLock, rowVars, Locking
  <2>4. Goes(s, "claim", o, st)
    BY <2>2, <2>3, LockGoes
  <2> QED
    BY <1>3, <2>4, MoveKeeps DEF ClaimLock, TypeOK
<1>4. CASE FailLock(s) /\ ~Leave(s)
  <2>1. PICK o \in Op, st \in OpState : o = at[s] /\ st = opStatus[o]
    BY <1>0, <1>4 DEF FailLock, TypeOK, OpState
  <2>2. Enter(s, "fail", o, st) /\ dStatus[o] = "acknowledged" /\ ~RowLocked(o) /\ o \in acked
    BY <1>4, <2>1 DEF FailLock, RowInv
  <2>3. Relies("fail", o)' /\ "fail" \in Locking
    BY <1>4, <2>2 DEF Relies, FailLock, rowVars, Locking
  <2>4. Goes(s, "fail", o, st)
    BY <2>2, <2>3, LockGoes
  <2> QED
    BY <1>4, <2>4, MoveKeeps DEF FailLock, TypeOK
<1>5. CASE ReportRead(s) \/ DeviceError(s)
  <2>1. PICK o \in Op, st \in OpState : o = at[s] /\ st = opStatus[o]
    BY <1>0, <1>5 DEF ReportRead, DeviceError, TypeOK, OpState
  <2>2. /\ Enter(s, "report", o, st) \/ Enter(s, "abort", o, st)
        /\ phase[s] \in AckedPhase
        /\ UNCHANGED <<opVars, rowVars, envelopes, execs, crashes>>
    BY <1>5, <2>1 DEF ReportRead, DeviceError, CatchAndReread, AckedPhase
  <2> QED
    BY <2>1, <2>2, TaskMoveKeeps
<1>6. CASE TaskRaises(s)
  <2>1. PICK o \in Op : o = at[s]
    BY <1>0, <1>6 DEF TaskRaises
  <2>2. Enter(s, "raised", o, "absent") /\ phase[s] \in AckedPhase
    BY <1>6, <2>1 DEF TaskRaises, Goto, AckedPhase
  <2> QED
    BY <1>6, <2>1, <2>2, TaskMoveKeeps DEF TaskRaises, OpState
<1>7. CASE ClaimRaises(s)
  BY <1>1, <1>7 DEF ClaimRaises
<1> QED
  BY <1>1, <1>2, <1>3, <1>4, <1>5, <1>6, <1>7 DEF ClaimLock, FailLock

(* Lost envelopes, deaths and redelivery, and the passing of time.         *)
LEMMA EnvironmentKeeps ==
    ASSUME DispatchInv,
           \/ \E s \in Session, n \in {0, 1} : Crash(s, n)
           \/ \E o \in Op : LoseEnvelope(o) \/ AckAges(o)
    PROVE  DispatchInv'
<1> USE DEF DispatchInv
<1>1. ASSUME NEW s \in Session, NEW n \in {0, 1}, Crash(s, n) PROVE DispatchInv'
  <2>1. at[s] \in Op
    BY <1>1 DEF Crash, TypeOK
  <2>2. envelopes' \in [Op -> Nat] /\ crashes' \in 0..MaxCrashes
    BY <1>1, <2>1, NetworkAssumption DEF Crash, TypeOK
  <2> QED
    BY <1>1, <2>2, LeaveGoes, MoveKeeps DEF Crash
<1>2. ASSUME NEW o \in Op, LoseEnvelope(o) \/ AckAges(o) PROVE DispatchInv'
  <2>1. /\ UNCHANGED <<opStatus, source, retry, dStatus, attempts, acked, execs>>
        /\ UNCHANGED <<phase, at, seen, crashes>>
        /\ envelopes' \in [Op -> Nat] /\ aged' \subseteq acked
    BY <1>2 DEF LoseEnvelope, AckAges, TypeOK, RowInv, opVars, rowVars, sessVars
  <2>2. TypeOK'
    BY <2>1 DEF TypeOK
  <2>3. RowInv' /\ OneActivePerTarget' /\ LineageIsLinear'
    BY <2>1 DEF RowInv, Superseded, OneActivePerTarget, LineageIsLinear
  <2>4. SessionInv' /\ ExclusionInv'
    BY <2>1 DEF SessionInv, Relies, Superseded, ExclusionInv, Conflict
  <2> QED
    BY <2>2, <2>3, <2>4
<1> QED
  BY <1>1, <1>2

-----------------------------------------------------------------------------
(* Steps that write an operation.                                          *)

(* The operation takes status x, if it may; its dispatch stays.            *)
LEMMA OperationWrite ==
    ASSUME DispatchInv, NEW s \in Session, NEW a \in Op, at[s] = a,
           NEW x \in OpState \ {"absent"}, opStatus' = [opStatus EXCEPT ![a] = x],
           ~OpLocked(a), x \in Active => IndexFree(a),
           phase[s] = "stale" \/ phase[s] \in AckedPhase,
           UNCHANGED <<source, retry, rowVars, envelopes, execs, crashes>>,
           NEW p, NEW o, NEW st, Goes(s, p, o, st)
    PROVE  DispatchInv'
<1> USE DEF DispatchInv
<1>1. /\ opStatus'[a] = x
      /\ UNCHANGED <<source, retry, dStatus, attempts, acked, aged, envelopes, execs, crashes>>
  BY DEF TypeOK, rowVars
<1>2. opStatus[a] # "absent" /\ dStatus[a] # "absent"
  BY DEF SessionInv, Relies, RowInv
<1>3. Touches(a)
  BY <1>1 DEF Touches, TypeOK
<1>4. MayWrite(s, a)
  BY <1>1 DEF MayWrite
<1>5. WellWritten(a)
  <2>1. /\ dStatus[a] \in RowState /\ attempts[a] \in 0..MaxAttempts /\ execs[a] \in Nat
        /\ envelopes \in [Op -> Nat] /\ crashes \in 0..MaxCrashes
    BY DEF TypeOK, RowState
  <2> QED
    BY <1>1, <1>2, <2>1 DEF WellWritten, RowInv
<1> QED
  BY <1>3, <1>4, <1>5, WriteKeeps

(* _transition_status: written, or refused into the handler.               *)
LEMMA TransitionKeeps ==
    ASSUME DispatchInv, NEW s \in Session, NEW x \in Active \cup Terminal,
           NEW next \in {"device", "finish"}, phase[s] \in AckedPhase, Transition(s, x, next)
    PROVE  DispatchInv'
<1> USE DEF DispatchInv
<1>1. PICK a \in Op, st \in OpState : a = at[s] /\ st = opStatus[a] /\ a \in acked
  BY DEF TypeOK, OpState, SessionInv, Relies, AckedPhase
<1>2. UNCHANGED <<source, retry, rowVars, envelopes, execs, crashes>>
  BY DEF Transition
<1>3. CASE opStatus' = [opStatus EXCEPT ![a] = x] /\ Goto(s, next)
           /\ (x \in Active => IndexFree(a)) /\ ~OpLocked(a)
  <2>1. Relies(next, a)' /\ next \in AnyPhase \ (Locking \cup {"idle", "claimed", "redrive"})
    BY <1>1, <1>2 DEF Relies, rowVars, AnyPhase, WorkerPhase, Locking
  <2>2. Goes(s, next, a, "absent")
    BY <1>1, <1>3, <2>1, FreeGoes DEF Goto, OpState
  <2>3. x \in OpState \ {"absent"}
    BY DEF OpState, Active, Terminal
  <2> QED
    BY <1>1, <1>2, <1>3, <2>2, <2>3, OperationWrite
<1>4. CASE UNCHANGED opStatus /\ CatchAndReread(s)
  BY <1>1, <1>2, <1>4, TaskMoveKeeps DEF CatchAndReread, opVars
<1> QED
  BY <1>1, <1>3, <1>4 DEF Transition, SetOp

(* The writes to the operation alone.                                      *)
LEMMA OperationWritesKeep ==
    ASSUME DispatchInv, NEW s \in Session,
           \/ StaleWrite(s) \/ AbortWrite(s) \/ MarkRunning(s)
           \/ \E st \in Outcome : ReportWrite(s, st)
    PROVE  DispatchInv'
<1> USE DEF DispatchInv
<1>1. CASE StaleWrite(s)
  <2>1. PICK a \in Op : a = at[s]
    BY <1>1 DEF StaleWrite, TypeOK
  <2>2. "failed" \in OpState \ {"absent"} /\ "failed" \notin Active
    BY DEF OpState, Terminal, Active
  <2> QED
    BY <1>1, <2>1, <2>2, LeaveGoes, OperationWrite DEF StaleWrite, SetOp
<1>2. CASE AbortWrite(s)
  <2>1. PICK a \in Op : a = at[s] /\ a \in acked
    BY <1>2 DEF AbortWrite, TypeOK, SessionInv, Relies, AckedPhase
  <2>2. /\ Enter(s, "finish", a, "absent") /\ phase[s] \in AckedPhase
        /\ UNCHANGED <<source, retry, rowVars, envelopes, execs, crashes>>
    BY <1>2, <2>1 DEF AbortWrite, Goto, AckedPhase
  <2>3. CASE UNCHANGED opStatus
    BY <2>1, <2>2, <2>3, TaskMoveKeeps DEF OpState, opVars
  <2>4. CASE ~OpLocked(a) /\ SetOp(a, "failed")
    <3>1. Relies("finish", a)'
      BY <2>1, <2>2 DEF Relies, rowVars
    <3>2. Goes(s, "finish", a, "absent")
      BY <2>2, <3>1, FreeGoes DEF AnyPhase, WorkerPhase, Locking, OpState
    <3>3. "failed" \in OpState \ {"absent"} /\ "failed" \notin Active
      BY DEF OpState, Terminal, Active
    <3> QED
      BY <2>1, <2>2, <2>4, <3>2, <3>3, OperationWrite DEF SetOp
  <2> QED
    BY <1>2, <2>1, <2>3, <2>4 DEF AbortWrite, Terminalize
<1>3. CASE MarkRunning(s)
  <2>1. "running" \in Active \cup Terminal /\ phase[s] \in AckedPhase
    BY <1>3 DEF MarkRunning, Active, AckedPhase
  <2> QED
    BY <1>3, <2>1, TransitionKeeps DEF MarkRunning
<1>4. ASSUME NEW st \in Outcome, ReportWrite(s, st) PROVE DispatchInv'
  <2>1. st \in Active \cup Terminal /\ phase[s] \in AckedPhase
    BY <1>4, NetworkAssumption DEF ReportWrite, Active, Outcomes, AckedPhase
  <2> QED
    BY <1>4, <2>1, TransitionKeeps DEF ReportWrite
<1> QED
  BY <1>1, <1>2, <1>3, <1>4

-----------------------------------------------------------------------------
(* Steps that write a dispatch.                                            *)

(* The operation stays, or is failed by _terminalize_operation.            *)
OperationEnds(a) == UNCHANGED opStatus \/ (~OpLocked(a) /\ SetOp(a, "failed"))

(* A dispatch takes status y under its lock, and the session is done.      *)
LEMMA RowWrite ==
    ASSUME DispatchInv, NEW s \in Session, NEW a \in Op, at[s] = a,
           phase[s] \in Locking \/ ~RowLocked(a), dStatus[a] # "absent",
           NEW y \in RowState \ {"absent"}, dStatus' = [dStatus EXCEPT ![a] = y],
           y = "acknowledged" => a \in acked,
           a \in acked => y \in {"acknowledged", "completed", "reconciliation_needed"},
           OperationEnds(a),
           NEW n \in 0..MaxAttempts, attempts' = [attempts EXCEPT ![a] = n],
           envelopes' \in [Op -> Nat],
           UNCHANGED <<source, retry, acked, aged, execs, crashes>>, Leave(s)
    PROVE  DispatchInv'
<1> USE DEF DispatchInv
<1>1. /\ opStatus \in [Op -> OpState] /\ opStatus[a] # "absent" /\ execs[a] \in 0..1
      /\ execs[a] > 0 => a \in acked
  BY DEF TypeOK, OpState, RowInv
<1>2. /\ opStatus' = [opStatus EXCEPT ![a] = opStatus'[a]]
      /\ opStatus'[a] \in {opStatus[a], "failed"}
      /\ opStatus'[a] = opStatus[a] \/ ~OpLocked(a)
  BY <1>1 DEF OperationEnds, SetOp
<1>3. dStatus'[a] = y /\ attempts'[a] = n
  BY DEF TypeOK
<1>4. Touches(a)
  BY <1>2, <1>3 DEF Touches, TypeOK
<1>5. MayWrite(s, a)
  <2>1. opStatus'[a] \in Active => opStatus[a] \in Active
    BY <1>2 DEF Active
  <2> QED
    BY <1>2, <2>1 DEF MayWrite
<1>6. WellWritten(a)
  <2>1. opStatus'[a] \in OpState \ {"absent"}
    BY <1>1, <1>2 DEF OpState, Terminal
  <2> QED
    BY <1>1, <1>3, <2>1 DEF WellWritten, TypeOK
<1> QED
  BY <1>4, <1>5, <1>6, LeaveGoes, WriteKeeps

(* Closing a dispatch ends its operation.                                  *)
LEMMA TerminalizeEnds ==
    ASSUME NEW a \in Op, NEW st, Terminalize(a, st)
    PROVE  OperationEnds(a)
BY DEF Terminalize, OperationEnds

(* A row that is still offered has not been acknowledged.                  *)
LEMMA PublishHolds ==
    ASSUME DispatchInv, NEW s \in Session, phase[s] \in {"publish", "published", "claim"}
    PROVE  /\ at[s] \in Op /\ dStatus[at[s]] \in Ready /\ at[s] \notin acked
           /\ phase[s] \in Locking /\ attempts[at[s]] \in 0..MaxAttempts
           /\ phase[s] = "published" => attempts[at[s]] < MaxAttempts
BY DEF DispatchInv, TypeOK, SessionInv, Relies, RowInv, Ready, Locking

(* The writes of a session that has locked a row nobody acknowledged.      *)
LEMMA PublishWritesKeep ==
    ASSUME DispatchInv, NEW s \in Session,
           \/ PublishCancel(s) \/ PublishExhausted(s) \/ PublishCommit(s)
           \/ \E n \in {0, 1} : PublishRejected(s, n)
           \/ ClaimCancel(s) \/ ClaimMismatch(s)
    PROVE  DispatchInv'
<1> USE DEF DispatchInv
<1>1. phase[s] \in {"publish", "published", "claim"} /\ Leave(s)
  BY DEF PublishCancel, PublishExhausted, PublishCommit, PublishRejected, ClaimCancel,
         ClaimMismatch
<1>2. PICK a \in Op : /\ a = at[s] /\ dStatus[a] \in Ready /\ a \notin acked
                      /\ phase[s] \in Locking /\ attempts[a] \in 0..MaxAttempts
                      /\ phase[s] = "published" => attempts[a] < MaxAttempts
  BY <1>1, PublishHolds
<1>3. UNCHANGED <<source, retry, acked, aged, execs, crashes>>
  BY DEF PublishCancel, PublishExhausted, PublishCommit, PublishRejected, ClaimCancel,
         ClaimMismatch, opVars
<1>4. envelopes' \in [Op -> Nat]
  BY <1>2 DEF PublishCancel, PublishExhausted, PublishCommit, PublishRejected, ClaimCancel,
         ClaimMismatch, TypeOK
<1>5. PICK n \in 0..MaxAttempts : attempts' = [attempts EXCEPT ![a] = n]
  <2>1. CASE UNCHANGED attempts
    BY <1>2, <2>1 DEF TypeOK
  <2>2. CASE attempts' = [attempts EXCEPT ![a] = @ + 1] /\ attempts[a] < MaxAttempts
    <3>1. attempts[a] + 1 \in 0..MaxAttempts
      BY <1>2, <2>2, NetworkAssumption
    <3> QED
      BY <2>2, <3>1
  <2> QED
    BY <1>2, <2>1, <2>2 DEF PublishCancel, PublishExhausted, PublishCommit, PublishRejected,
         ClaimCancel, ClaimMismatch
<1>6. PICK y \in RowState \ {"absent", "acknowledged"} : dStatus' = [dStatus EXCEPT ![a] = y]
  <2>1. dStatus \in [Op -> RowState] /\ dStatus[a] \notin {"absent", "acknowledged"}
    BY <1>2 DEF TypeOK, RowState, Ready
  <2>2. CASE UNCHANGED dStatus
    BY <2>1, <2>2
  <2>3. ASSUME NEW y \in {"canceled", "reconciliation_needed", "failed", "dispatched"},
               SetRow(a, y)
        PROVE  \E z \in RowState \ {"absent", "acknowledged"} :
                  dStatus' = [dStatus EXCEPT ![a] = z]
    BY <2>3 DEF SetRow, RowState, Ready, Settled
  <2> QED
    BY <1>2, <2>2, <2>3 DEF PublishCancel, PublishExhausted, PublishCommit, PublishRejected,
         Exhaust, ClaimCancel, ClaimMismatch
<1>7. OperationEnds(a)
  BY <1>2, TerminalizeEnds DEF OperationEnds, PublishCancel, PublishExhausted, PublishCommit,
     PublishRejected, Exhaust, ClaimCancel, ClaimMismatch, opVars
<1>8. dStatus[a] # "absent"
  BY <1>2 DEF Ready
<1> QED
  BY <1>1, <1>2, <1>3, <1>4, <1>5, <1>6, <1>7, <1>8, RowWrite

(* The reconciler and the end of a task, on acknowledged dispatches.       *)
LEMMA AckedWritesKeep ==
    ASSUME DispatchInv, NEW s \in Session,
           ReconcileProject(s) \/ ReconcileTimeout(s) \/ CompleteDispatch(s) \/ FailCommit(s)
    PROVE  DispatchInv'
<1> USE DEF DispatchInv
<1>1. /\ phase[s] \in {"reconcile", "finish", "fail"} /\ Leave(s)
      /\ UNCHANGED <<source, retry, attempts, acked, aged, envelopes, execs, crashes>>
  BY DEF ReconcileProject, ReconcileTimeout, CompleteDispatch, FailCommit, opVars
<1>2. PICK a \in Op : /\ a = at[s] /\ a \in acked
                      /\ phase[s] \in Locking \/ ~RowLocked(a)
  BY <1>1 DEF TypeOK, SessionInv, Relies, AckedPhase, Locking, ReconcileProject,
              ReconcileTimeout, CompleteDispatch, FailCommit
<1>3. dStatus[a] \in {"acknowledged", "completed", "reconciliation_needed"}
  BY <1>2 DEF RowInv
<1>4. PICK y \in {"acknowledged", "completed", "reconciliation_needed"} :
         dStatus' = [dStatus EXCEPT ![a] = y]
  <2>1. CASE UNCHANGED dStatus
    BY <1>3, <2>1 DEF TypeOK
  <2>2. CASE ~UNCHANGED dStatus
    BY <1>2, <2>2 DEF ReconcileProject, ReconcileTimeout, CompleteDispatch, FailCommit, SetRow
  <2> QED
    BY <2>1, <2>2
<1>5. OperationEnds(a)
  BY <1>2, TerminalizeEnds DEF OperationEnds, ReconcileProject, ReconcileTimeout,
     CompleteDispatch, FailCommit, opVars
<1>6. PICK n \in 0..MaxAttempts : attempts' = [attempts EXCEPT ![a] = n]
  BY <1>1, <1>2 DEF TypeOK
<1>7. y \in RowState \ {"absent"}
  BY DEF RowState, Settled
<1>8. envelopes' \in [Op -> Nat] /\ dStatus[a] # "absent"
  BY <1>1, <1>3 DEF TypeOK
<1> QED
  BY <1>1, <1>2, <1>4, <1>5, <1>6, <1>7, <1>8, RowWrite

(* The claim: the only acknowledgement, and the only claimed session.      *)
LEMMA ClaimCommitKeeps ==
    ASSUME DispatchInv, NEW s \in Session, ClaimCommit(s)
    PROVE  DispatchInv'
<1> USE DEF DispatchInv
<1>1. PICK a \in Op : /\ a = at[s] /\ dStatus[a] \in Ready /\ a \notin acked
                      /\ phase[s] \in Locking /\ attempts[a] \in 0..MaxAttempts
  BY PublishHolds DEF ClaimCommit
<1>2. /\ dStatus' = [dStatus EXCEPT ![a] = "acknowledged"] /\ acked' = acked \cup {a}
      /\ Enter(s, "claimed", a, "absent")
      /\ UNCHANGED <<opStatus, source, retry, attempts, aged, envelopes, execs, crashes>>
  BY <1>1 DEF ClaimCommit, SetRow, Goto, opVars
<1>3. dStatus'[a] = "acknowledged" /\ execs[a] = 0
  BY <1>1, <1>2 DEF TypeOK, RowInv
<1>4. Touches(a)
  BY <1>1, <1>2, <1>3 DEF Touches, TypeOK
<1>5. MayWrite(s, a)
  BY <1>1, <1>2 DEF MayWrite
<1>6. WellWritten(a)
  <2>1. opStatus[a] \in OpState \ {"absent"}
    BY <1>1 DEF TypeOK, OpState, RowInv, Ready
  <2>2. "acknowledged" \in RowState \ {"absent"}
    BY DEF RowState
  <2> QED
    BY <1>1, <1>2, <1>3, <2>1, <2>2 DEF WellWritten, TypeOK
<1>7. Goes(s, "claimed", a, "absent")
  <2>1. Relies("claimed", a)'
    BY <1>2, <1>3 DEF Relies
  <2>2. \A t \in Session : at[t] = a => phase[t] # "claimed"
    BY <1>1 DEF SessionInv, Relies, AckedPhase
  <2> QED
    BY <1>2, <2>1, <2>2, NetworkAssumption
       DEF Goes, AnyPhase, WorkerPhase, OpState, Conflict, Locking
<1> QED
  BY <1>1, <1>4, <1>5, <1>6, <1>7, WriteKeeps

(* The task is entered once, by the session whose claim was committed.     *)
LEMMA EnterTaskKeeps ==
    ASSUME DispatchInv, NEW s \in Session, EnterTask(s)
    PROVE  DispatchInv'
<1> USE DEF DispatchInv
<1>1. PICK a \in Op, st \in OpState : /\ a = at[s] /\ st = opStatus[a] /\ a \in acked
                                      /\ execs[a] = 0
  BY DEF EnterTask, TypeOK, OpState, SessionInv, Relies, AckedPhase
<1>2. /\ execs' = [execs EXCEPT ![a] = 1] /\ Enter(s, "starting", a, st)
      /\ phase[s] = "claimed"
      /\ UNCHANGED <<opStatus, source, retry, dStatus, attempts, acked, aged, envelopes, crashes>>
  BY <1>1 DEF EnterTask, opVars, rowVars
<1>3. execs'[a] = 1
  BY <1>2 DEF TypeOK
<1>4. Touches(a)
  BY <1>1, <1>2, <1>3 DEF Touches, TypeOK
<1>5. MayWrite(s, a)
  BY <1>1, <1>2 DEF MayWrite
<1>6. WellWritten(a)
  <2>1. /\ opStatus[a] \in OpState \ {"absent"} /\ dStatus[a] \in RowState \ {"absent"}
        /\ attempts[a] \in 0..MaxAttempts
        /\ envelopes \in [Op -> Nat] /\ crashes \in 0..MaxCrashes
        /\ dStatus[a] \in {"acknowledged", "completed", "reconciliation_needed"}
    BY <1>1 DEF TypeOK, OpState, RowState, RowInv
  <2> QED
    BY <1>1, <1>2, <1>3, <2>1 DEF WellWritten
<1>7. Goes(s, "starting", a, st)
  <2>1. Relies("starting", a)'
    BY <1>1, <1>2 DEF Relies
  <2> QED
    BY <1>2, <2>1, FreeGoes DEF AnyPhase, WorkerPhase, Locking
<1> QED
  BY <1>1, <1>4, <1>5, <1>6, <1>7, WriteKeeps

-----------------------------------------------------------------------------
(* Steps that create an operation.                                         *)

(* n is inserted with its dispatch; a stale operation may be failed in the *)
(* same transaction.  src is the source of a redrive, or none.             *)
LEMMA CreateKeeps ==
    ASSUME DispatchInv, NEW n \in Op, opStatus[n] = "absent",
           NEW src \in Op \cup {NoOp}, NEW count \in 0..MaxRetries, NEW status,
           Create(n, src, count, status),
           \/ status = opStatus
           \/ \E b \in Op : /\ ~OpLocked(b) /\ opStatus[b] # "absent"
                            /\ status = [opStatus EXCEPT ![b] = "failed"],
           \A p \in Op \ {n} : TargetOf[p] = TargetOf[n] => status[p] \notin Active,
           src # NoOp => /\ opStatus[src] # "absent" /\ ~Superseded(src)
                         /\ count = retry[src] + 1 /\ TargetOf[n] = TargetOf[src],
           \A t \in Session : phase'[t] = "redrive" => at'[t] # src,
           \/ UNCHANGED sessVars
           \/ \E s \in Session : Leave(s),
           UNCHANGED <<attempts, acked, aged, envelopes, execs, crashes>>
    PROVE  DispatchInv'
<1> USE DEF DispatchInv
<1>1. /\ opStatus \in [Op -> OpState] /\ dStatus[n] = "absent" /\ source[n] = NoOp
      /\ ~Superseded(n) /\ n \notin acked
  BY DEF TypeOK, OpState, RowInv
<1>2. /\ status \in [Op -> OpState]
      /\ \A p \in Op : /\ status[p] = "absent" <=> opStatus[p] = "absent"
                       /\ status[p] \in {opStatus[p], "failed"}
                       /\ OpLocked(p) => status[p] = opStatus[p]
  BY <1>1 DEF OpState, Terminal
<1>3. /\ \A p \in Op \ {n} : /\ opStatus'[p] = status[p] /\ source'[p] = source[p]
                             /\ retry'[p] = retry[p] /\ dStatus'[p] = dStatus[p]
      /\ opStatus'[n] = "pending" /\ source'[n] = src /\ retry'[n] = count
      /\ dStatus'[n] = "pending"
  BY <1>2 DEF Create, SetRow, TypeOK
<1>4. \A t \in Session :
         \/ phase'[t] = phase[t] /\ at'[t] = at[t]
         \/ phase'[t] = "idle" /\ at'[t] = NoOp
  BY DEF Leave, Enter, sessVars, TypeOK
<1>5. TypeOK'
  <2>1. /\ opStatus' \in [Op -> OpState] /\ source' \in [Op -> Op \cup {NoOp}]
        /\ retry' \in [Op -> 0..MaxRetries] /\ dStatus' \in [Op -> RowState]
    BY <1>2 DEF Create, SetRow, TypeOK, OpState, RowState, Active, Ready
  <2>2. /\ phase' \in [Session -> AnyPhase] /\ at' \in [Session -> Op \cup {NoOp}]
        /\ seen' \in [Session -> OpState]
    BY DEF Leave, Enter, sessVars, TypeOK, AnyPhase, BeatPhase, OpState
  <2>3. \A t \in Session : at'[t] = NoOp <=> phase'[t] = "idle"
    BY <1>4 DEF TypeOK
  <2> QED
    BY <2>1, <2>2, <2>3 DEF TypeOK, OpState, RowState, AnyPhase
<1>6. \A p \in Op : Superseded(p)' <=> Superseded(p) \/ p = src
  BY <1>1, <1>3, NetworkAssumption DEF Superseded
<1>7. RowInv'
  BY <1>1, <1>2, <1>3, <1>6, NetworkAssumption DEF RowInv
<1>8. SessionInv'
  <2> SUFFICES ASSUME NEW t \in Session PROVE Relies(phase[t], at[t])'
    BY DEF SessionInv
  <2>1. CASE phase'[t] = "idle"
    BY <2>1 DEF Relies, AckedPhase
  <2>2. CASE phase'[t] # "idle"
    <3>1. /\ phase'[t] = phase[t] /\ at'[t] = at[t] /\ at[t] \in Op
          /\ Relies(phase[t], at[t])
      BY <1>4, <2>2 DEF SessionInv, TypeOK
    <3>2. CASE at[t] # n
      <4>1. phase[t] = "redrive" => OpLocked(at[t]) /\ at[t] # src
        BY <3>1 DEF OpLocked
      <4> QED
        BY <1>2, <1>3, <1>6, <3>1, <3>2, <4>1 DEF Relies, AckedPhase
    <3>3. CASE at[t] = n
      BY <1>1, <3>1, <3>3 DEF Relies, AckedPhase, Ready
    <3> QED
      BY <3>2, <3>3
  <2> QED
    BY <2>1, <2>2
<1>9. ExclusionInv'
  BY <1>4 DEF ExclusionInv, Conflict, Locking
<1>10. OneActivePerTarget'
  BY <1>2, <1>3 DEF OneActivePerTarget, Active
<1>11. LineageIsLinear'
  <2>1. \A o \in Op : source[o] # NoOp => source[o] \in Op /\ source[o] # n
    BY <1>1 DEF Superseded, TypeOK
  <2>2. src # NoOp => src \in Op /\ src # n
    OBVIOUS
  <2> QED
    BY <1>1, <1>3, <2>1, <2>2 DEF LineageIsLinear, Superseded
<1> QED
  BY <1>5, <1>7, <1>8, <1>9, <1>10, <1>11

(* A new operation finds the target's index free.                          *)
LEMMA StartKeeps ==
    ASSUME DispatchInv, NEW n \in Op, Start(n)
    PROVE  DispatchInv'
<1>1. \A p \in Op \ {n} : TargetOf[p] = TargetOf[n] => opStatus[p] \notin Active
  BY DEF Start, IndexFree
<1>2. \A t \in Session : phase'[t] = "redrive" => at'[t] # NoOp
  BY NetworkAssumption DEF Start, sessVars, DispatchInv, TypeOK
<1>3. NoOp \in Op \cup {NoOp} /\ 0 \in 0..MaxRetries
  BY NetworkAssumption
<1> QED
  BY <1>1, <1>2, <1>3, CreateKeeps DEF Start

(* Replacing a stale operation fails it in the same commit.                *)
LEMMA StaleReplaceKeeps ==
    ASSUME DispatchInv, NEW s \in Session, NEW n \in Op, StaleReplace(s, n)
    PROVE  DispatchInv'
<1> USE DEF DispatchInv
<1>1. PICK b \in Op : b = at[s] /\ opStatus[b] # "absent"
  BY DEF StaleReplace, TypeOK, SessionInv, Relies
<1>2. PICK status : status = [opStatus EXCEPT ![b] = "failed"]
  OBVIOUS
<1>3. /\ Create(n, NoOp, 0, status) /\ ~OpLocked(b) /\ opStatus[n] = "absent" /\ Leave(s)
      /\ UNCHANGED <<attempts, acked, aged, envelopes, execs, crashes>>
  BY <1>1, <1>2 DEF StaleReplace
<1>4. \A p \in Op \ {n} : TargetOf[p] = TargetOf[n] => status[p] \notin Active
  BY <1>1, <1>2 DEF StaleReplace, TypeOK, Active
<1>5. \A t \in Session : phase'[t] = "redrive" => at'[t] # NoOp
  BY <1>3, NetworkAssumption DEF Leave, Enter, TypeOK
<1>6. NoOp \in Op \cup {NoOp} /\ 0 \in 0..MaxRetries
  BY NetworkAssumption
<1> QED
  BY <1>1, <1>2, <1>3, <1>4, <1>5, <1>6, CreateKeeps

(* A redrive continues a failed operation nobody has continued yet.        *)
LEMMA RedriveStartKeeps ==
    ASSUME DispatchInv, NEW s \in Session, NEW n \in Op, RedriveStart(s, n)
    PROVE  DispatchInv'
<1> USE DEF DispatchInv
<1>1. PICK src \in Op : /\ src = at[s] /\ opStatus[src] = "failed" /\ ~Superseded(src)
                        /\ retry[src] < MaxRetries
  BY DEF RedriveStart, TypeOK, SessionInv, Relies
<1>2. PICK count \in 0..MaxRetries : count = retry[src] + 1
  <2>1. retry[src] + 1 \in 0..MaxRetries
    BY <1>1, NetworkAssumption DEF TypeOK
  <2> QED
    BY <2>1
<1>3. /\ Create(n, src, count, opStatus) /\ opStatus[n] = "absent" /\ Leave(s)
      /\ TargetOf[n] = TargetOf[src]
      /\ UNCHANGED <<attempts, acked, aged, envelopes, execs, crashes>>
  BY <1>1, <1>2 DEF RedriveStart
<1>4. \A p \in Op \ {n} : TargetOf[p] = TargetOf[n] => opStatus[p] \notin Active
  BY DEF RedriveStart, IndexFree
<1>5. \A t \in Session : phase'[t] = "redrive" => at'[t] # src
  <2>1. \A t \in Session \ {s} : at[t] = src => phase[t] # "redrive"
    BY <1>1 DEF ExclusionInv, Conflict, RedriveStart
  <2> QED
    BY <1>3, <2>1 DEF Leave, Enter, TypeOK
<1> QED
  BY <1>1, <1>2, <1>3, <1>4, <1>5, CreateKeeps

-----------------------------------------------------------------------------
(* The specification.                                                      *)
LEMMA InitKeeps == Init => DispatchInv
<1> SUFFICES ASSUME Init PROVE DispatchInv
  OBVIOUS
<1>1. TypeOK
  BY NetworkAssumption DEF Init, TypeOK, BeatPhase
<1>2. RowInv /\ OneActivePerTarget /\ LineageIsLinear
  BY NetworkAssumption DEF Init, RowInv, Superseded, OneActivePerTarget, LineageIsLinear, Active
<1>3. SessionInv /\ ExclusionInv
  BY DEF Init, SessionInv, Relies, AckedPhase, ExclusionInv, Conflict, Locking
<1> QED
  BY <1>1, <1>2, <1>3 DEF DispatchInv

(* Stuttering.                                                             *)
LEMMA StutterKeeps == DispatchInv /\ UNCHANGED vars => DispatchInv'
<1> SUFFICES ASSUME DispatchInv, UNCHANGED vars PROVE DispatchInv'
  OBVIOUS
<1> USE DEF vars, opVars, rowVars, sessVars
<1>1. TypeOK' /\ RowInv' /\ OneActivePerTarget' /\ LineageIsLinear'
  BY DEF DispatchInv, TypeOK, RowInv, Superseded, OneActivePerTarget, LineageIsLinear
<1>2. SessionInv' /\ ExclusionInv'
  BY DEF DispatchInv, SessionInv, Relies, Superseded, ExclusionInv, Conflict
<1> QED
  BY <1>1, <1>2 DEF DispatchInv

(* Every step keeps the invariant.                                         *)
LEMMA StepKeeps ==
    ASSUME DispatchInv, Next
    PROVE  DispatchInv'
<1>1. ASSUME NEW n \in Op, Start(n) \/ LoseEnvelope(n) \/ AckAges(n) PROVE DispatchInv'
  BY <1>1, StartKeeps, EnvironmentKeeps
<1>2. ASSUME NEW s \in Beat,
             BeatEnds(s) \/ \E o \in Op : PublishSelect(s, o) \/ ReconcileSelect(s, o)
      PROVE  DispatchInv'
  BY <1>2, BeatMovesKeep, PublishWritesKeep, AckedWritesKeep DEF BeatEnds, Session
<1>3. ASSUME NEW s \in Worker,
             \/ ClaimEnds(s) \/ TaskStep(s) \/ FailCommit(s)
             \/ \E o \in Op : Receive(s, o)
      PROVE  DispatchInv'
  BY <1>3, WorkerMovesKeep, OperationWritesKeep, PublishWritesKeep, AckedWritesKeep,
     ClaimCommitKeeps, EnterTaskKeeps DEF ClaimEnds, TaskStep, Session
<1>4. ASSUME NEW s \in Request,
             RequestEnds(s) \/ \E o \in Op : StaleRead(s, o) \/ RedriveReview(s, o)
      PROVE  DispatchInv'
  BY <1>4, RequestMovesKeep, OperationWritesKeep, StaleReplaceKeeps, RedriveStartKeeps
     DEF RequestEnds, Session
<1>5. ASSUME NEW s \in Session, NEW n \in {0, 1}, Crash(s, n) PROVE DispatchInv'
  BY <1>5, EnvironmentKeeps
<1> QED
  BY <1>1, <1>2, <1>3, <1>4, <1>5 DEF Next

(* The invariant of operations, dispatches and open transactions.          *)
THEOREM DispatchInvariant == Spec => []DispatchInv
<1>1. Init => DispatchInv
  BY InitKeeps
<1>2. DispatchInv /\ [Next]_vars => DispatchInv'
  BY StepKeeps, StutterKeeps
<1> QED
  BY <1>1, <1>2, PTL DEF Spec

(* Rows and sessions keep their types; attempts stay within max_attempts   *)
(* and retries within max_retries.                                         *)
THEOREM DispatchTypes == Spec => []TypeOK
<1>1. DispatchInv => TypeOK
  BY DEF DispatchInv
<1> QED
  BY <1>1, DispatchInvariant, PTL

(* However often its envelope is published, repeated or redelivered, a     *)
(* dispatch enters its device task at most once (claim_dispatch_execution).*)
THEOREM OneExecution == Spec => []AtMostOneExecution
<1>1. DispatchInv => AtMostOneExecution
  BY DEF DispatchInv, RowInv, AtMostOneExecution
<1> QED
  BY <1>1, DispatchInvariant, PTL

(* A dispatch shown as failed or canceled never reached its device, even   *)
(* when publisher, reconciler and late worker write the row in turn.       *)
THEOREM WithdrawnIsSafe == Spec => []WithdrawnNeverRan
<1>1. DispatchInv => WithdrawnNeverRan
  BY DEF DispatchInv, RowInv, TypeOK, WithdrawnNeverRan, Withdrawn
<1> QED
  BY <1>1, DispatchInvariant, PTL

(* At most one active operation per target, with any number of sessions    *)
(* that start, expire, redrive and mark operations.                        *)
THEOREM SingleActive == Spec => []OneActivePerTarget
<1>1. DispatchInv => OneActivePerTarget
  BY DEF DispatchInv
<1> QED
  BY <1>1, DispatchInvariant, PTL

(* Redrives form a line: no source has two successors, retry_count counts  *)
(* along it and the target stays.                                          *)
THEOREM LinearLineage == Spec => []LineageIsLinear
<1>1. DispatchInv => LineageIsLinear
  BY DEF DispatchInv
<1> QED
  BY <1>1, DispatchInvariant, PTL

(* When an attempt is created, its source is failed: the review made under *)
(* the lock of redrive_operation is still true at the commit.              *)
THEOREM RedriveReviewHolds == Spec => RedriveOnlyFailed
<1>1. ASSUME DispatchInv, [Next]_vars, NEW o \in Op, source'[o] # source[o]
      PROVE  opStatus[source'[o]] = "failed"
  <2>0. TypeOK /\ RowInv /\ SessionInv
    BY <1>1 DEF DispatchInv
  <2>1. ASSUME NEW n \in Op, NEW c, NEW st, Create(n, NoOp, c, st), opStatus[n] = "absent"
        PROVE  FALSE
    BY <1>1, <2>0, <2>1 DEF Create, TypeOK, RowInv
  <2>2. ASSUME NEW s \in Session, NEW n \in Op, RedriveStart(s, n)
        PROVE  opStatus[source'[o]] = "failed"
    <3>1. opStatus[at[s]] = "failed"
      BY <2>0, <2>2 DEF RedriveStart, SessionInv, Relies
    <3> QED
      BY <1>1, <2>0, <2>2, <3>1 DEF RedriveStart, Create, TypeOK
  <2>3. \A n \in Op : ~Start(n)
    BY <2>1 DEF Start
  <2>4. \A s \in Session, n \in Op : ~StaleReplace(s, n)
    BY <2>1 DEF StaleReplace
  <2>5. source' # source /\ Next
    BY <1>1 DEF vars, opVars
  <2>6. \A n \in Op : LoseEnvelope(n) \/ AckAges(n) => UNCHANGED source
    BY DEF LoseEnvelope, AckAges, opVars
  <2>7. \A s \in Beat :
           BeatEnds(s) \/ (\E p \in Op : PublishSelect(s, p) \/ ReconcileSelect(s, p))
              => UNCHANGED source
    BY DEF BeatEnds, PublishLock, PublishCancel, PublishExhausted, PublishRejected,
           PublishAccepted, PublishCommit, ReconcileLock, ReconcileProject,
           ReconcileTimeout, ReconcileSkip, PublishSelect, ReconcileSelect, opVars
  <2>8. \A s \in Worker :
           \/ ClaimEnds(s) \/ TaskStep(s) \/ FailCommit(s)
           \/ \E p \in Op : Receive(s, p)
           => UNCHANGED source
    BY DEF ClaimEnds, ClaimCancel, ClaimMismatch, ClaimRaises, ClaimCommit, TaskStep,
           ClaimLock, EnterTask, MarkRunning, ReportRead, ReportWrite, Transition,
           DeviceError, AbortWrite, CompleteDispatch, TaskRaises, FailLock, FailCommit,
           Receive, opVars
  <2>9. \A s \in Request :
           \/ StaleWrite(s) \/ StaleAbandon(s) \/ RedriveAbandon(s)
           \/ \E p \in Op : StaleRead(s, p) \/ RedriveReview(s, p)
           => UNCHANGED source
    BY DEF StaleWrite, StaleAbandon, RedriveAbandon, StaleRead, RedriveReview, opVars
  <2>10. \A s \in Session, n \in {0, 1} : Crash(s, n) => UNCHANGED source
    BY DEF Crash, opVars
  <2>11. \E s \in Request, n \in Op : StaleReplace(s, n) \/ RedriveStart(s, n)
    BY <2>3, <2>5, <2>6, <2>7, <2>8, <2>9, <2>10 DEF Next, RequestEnds
  <2> QED
    BY <2>2, <2>4, <2>11 DEF Session
<1>2. DispatchInv /\ [Next]_vars
         => [\A o \in Op : source'[o] # source[o] => opStatus[source'[o]] = "failed"]_vars
  BY <1>1
<1> QED
  BY <1>2, DispatchInvariant, PTL DEF Spec, RedriveOnlyFailed

-----------------------------------------------------------------------------
(* The refinement of CommandOnce.  A command is none, offered, taken,      *)
(* closed or withdrawn by the status and the acknowledgement of its row.   *)
LEMMA CommandStates ==
    ASSUME NEW o \in Op, dStatus \in [Op -> RowState]
    PROVE  /\ dStatus[o] = "absent" => CommandState(o) = "none"
           /\ dStatus[o] \in Ready => CommandState(o) = "offered"
           /\ dStatus[o] = "acknowledged" => CommandState(o) = "taken"
           /\ dStatus[o] \in Settled /\ o \in acked => CommandState(o) = "closed"
           /\ dStatus[o] \in Settled /\ o \notin acked => CommandState(o) = "withdrawn"
BY DEF CommandState, RowState, Ready, Settled

(* What one step may make of the row of operation a.                       *)
RowMoves(a) ==
    \/ dStatus[a] = "absent" /\ dStatus'[a] \in Ready /\ acked' = acked
    \/ dStatus[a] \in Ready /\ dStatus'[a] \in Ready /\ acked' = acked
    \/ dStatus[a] \in Ready /\ dStatus'[a] = "acknowledged" /\ acked' = acked \cup {a}
    \/ dStatus[a] \in Ready /\ dStatus'[a] \in Settled /\ a \notin acked /\ acked' = acked
    \/ /\ dStatus[a] \in {"acknowledged"} \cup Settled /\ a \in acked /\ acked' = acked
       /\ dStatus'[a] \in Settled
    \/ dStatus'[a] = dStatus[a] /\ acked' = acked

(* Each of them is a move of the abstract command, or none.                *)
LEMMA RowMove ==
    ASSUME TypeOK, TypeOK', NEW a \in Op, RowMoves(a), UNCHANGED execs,
           dStatus' = [dStatus EXCEPT ![a] = dStatus'[a]]
    PROVE  [Once!Next]_(Once!vars)
<1>0. dStatus \in [Op -> RowState] /\ dStatus' \in [Op -> RowState]
  BY DEF TypeOK, RowState
<1> DEFINE st == [o \in Op |-> CommandState(o)]
<1>1. \A b \in Op \ {a} : CommandState(b)' = CommandState(b)
  BY <1>0 DEF RowMoves, CommandState
<1>2. /\ dStatus'[a] = "absent" => CommandState(a)' = "none"
      /\ dStatus'[a] \in Ready => CommandState(a)' = "offered"
      /\ dStatus'[a] = "acknowledged" => CommandState(a)' = "taken"
      /\ dStatus'[a] \in Settled /\ a \in acked' => CommandState(a)' = "closed"
      /\ dStatus'[a] \in Settled /\ a \notin acked' => CommandState(a)' = "withdrawn"
  BY <1>0 DEF CommandState, RowState, Ready, Settled
<1>3. \/ CommandState(a)' = CommandState(a)
      \/ CommandState(a) = "none" /\ CommandState(a)' = "offered"
      \/ CommandState(a) = "offered" /\ CommandState(a)' = "taken"
      \/ CommandState(a) = "offered" /\ CommandState(a)' = "withdrawn"
      \/ CommandState(a) = "taken" /\ CommandState(a)' = "closed"
  <2>1. CASE dStatus'[a] = dStatus[a] /\ acked' = acked
    BY <2>1 DEF CommandState
  <2>2. CASE ~(dStatus'[a] = dStatus[a] /\ acked' = acked)
    BY <1>0, <1>2, <2>2, CommandStates DEF RowMoves
  <2> QED
    BY <2>1, <2>2
<1>4. st' = [st EXCEPT ![a] = CommandState(a)'] /\ st[a] = CommandState(a)
  BY <1>1
<1>5. CASE CommandState(a)' = CommandState(a)
  <2>1. st' = st
    BY <1>4, <1>5
  <2> QED
    BY <2>1 DEF Once!vars
<1>6. ASSUME NEW from, NEW to, CommandState(a) = from, CommandState(a)' = to
      PROVE  Once!Move(a, from, to)
  BY <1>4, <1>6 DEF Once!Move
<1> QED
  BY <1>3, <1>5, <1>6 DEF Once!Next

(* A new operation offers its command.                                     *)
LEMMA CreateOffers ==
    ASSUME TypeOK, RowInv, TypeOK', NEW n \in Op, NEW src, NEW count, NEW status,
           Create(n, src, count, status), opStatus[n] = "absent", UNCHANGED <<acked, execs>>
    PROVE  [Once!Next]_(Once!vars)
<1>1. dStatus[n] = "absent" /\ dStatus' = [dStatus EXCEPT ![n] = "pending"]
  BY DEF RowInv, Create, SetRow
<1>2. dStatus'[n] = "pending"
  BY <1>1 DEF TypeOK
<1> QED
  BY <1>1, <1>2, RowMove DEF RowMoves, Ready

(* Publishing keeps a command offered or withdraws it; the claim takes it. *)
LEMMA OfferMoves ==
    ASSUME DispatchInv, DispatchInv', NEW s \in Session,
           \/ PublishCancel(s) \/ PublishExhausted(s) \/ PublishCommit(s)
           \/ \E n \in {0, 1} : PublishRejected(s, n)
           \/ ClaimCancel(s) \/ ClaimMismatch(s) \/ ClaimCommit(s)
    PROVE  [Once!Next]_(Once!vars)
<1>1. phase[s] \in {"publish", "published", "claim"} /\ UNCHANGED execs
  BY DEF PublishCancel, PublishExhausted, PublishCommit, PublishRejected, ClaimCancel,
         ClaimMismatch, ClaimCommit
<1>2. PICK a \in Op : a = at[s] /\ dStatus[a] \in Ready /\ a \notin acked
  BY <1>1, PublishHolds
<1>3. TypeOK /\ TypeOK' /\ dStatus \in [Op -> RowState]
  BY DEF DispatchInv, TypeOK, RowState
<1>4. CASE UNCHANGED <<dStatus, acked>>
  BY <1>1, <1>2, <1>3, <1>4, RowMove DEF RowMoves
<1>5. ASSUME NEW y \in {"canceled", "reconciliation_needed", "failed", "dispatched"},
             SetRow(a, y), UNCHANGED acked
      PROVE  [Once!Next]_(Once!vars)
  <2>1. dStatus' = [dStatus EXCEPT ![a] = y] /\ dStatus'[a] = y
    BY <1>3, <1>5 DEF SetRow
  <2>2. RowMoves(a)
    BY <1>2, <1>5, <2>1 DEF RowMoves, Ready, Settled
  <2> QED
    BY <1>1, <1>3, <2>1, <2>2, RowMove
<1>6. CASE ClaimCommit(s)
  <2>1. /\ dStatus' = [dStatus EXCEPT ![a] = "acknowledged"]
        /\ dStatus'[a] = "acknowledged" /\ acked' = acked \cup {a}
    BY <1>2, <1>3, <1>6 DEF ClaimCommit, SetRow
  <2> QED
    BY <1>1, <1>2, <1>3, <2>1, RowMove DEF RowMoves
<1>7. CASE ~ClaimCommit(s)
  <2>1. \/ UNCHANGED <<dStatus, acked>>
        \/ UNCHANGED acked /\ \E y \in {"canceled", "reconciliation_needed", "failed",
                                        "dispatched"} : SetRow(a, y)
    BY <1>2, <1>7 DEF PublishCancel, PublishExhausted, PublishCommit, PublishRejected,
       Exhaust, ClaimCancel, ClaimMismatch
  <2> QED
    BY <1>4, <1>5, <2>1
<1> QED
  BY <1>6, <1>7

(* The reconciler and the end of a task close a taken command, once.       *)
LEMMA CloseMoves ==
    ASSUME DispatchInv, DispatchInv', NEW s \in Session,
           ReconcileProject(s) \/ ReconcileTimeout(s) \/ CompleteDispatch(s) \/ FailCommit(s)
    PROVE  [Once!Next]_(Once!vars)
<1>1. phase[s] \in {"reconcile", "finish", "fail"} /\ UNCHANGED <<acked, execs>>
  BY DEF ReconcileProject, ReconcileTimeout, CompleteDispatch, FailCommit
<1>2. PICK a \in Op : a = at[s] /\ a \in acked
  BY <1>1 DEF DispatchInv, TypeOK, SessionInv, Relies, AckedPhase
<1>3. dStatus[a] \in {"acknowledged"} \cup Settled
  BY <1>2 DEF DispatchInv, RowInv, Settled
<1>4. TypeOK /\ TypeOK' /\ dStatus \in [Op -> RowState]
  BY DEF DispatchInv, TypeOK, RowState
<1>5. CASE UNCHANGED dStatus
  BY <1>1, <1>2, <1>4, <1>5, RowMove DEF RowMoves
<1>6. CASE ~UNCHANGED dStatus
  <2>1. PICK y \in {"completed", "reconciliation_needed"} : SetRow(a, y)
    BY <1>2, <1>6 DEF ReconcileProject, ReconcileTimeout, CompleteDispatch, FailCommit
  <2>2. dStatus' = [dStatus EXCEPT ![a] = y] /\ dStatus'[a] = y
    BY <1>4, <2>1 DEF SetRow
  <2> QED
    BY <1>1, <1>2, <1>3, <1>4, <2>2, RowMove DEF RowMoves, Settled
<1> QED
  BY <1>5, <1>6

(* Entering the task is the run of a taken command, even when the          *)
(* reconciler has closed it in the meantime.                               *)
LEMMA EnterTaskRuns ==
    ASSUME DispatchInv, NEW s \in Session, EnterTask(s)
    PROVE  [Once!Next]_(Once!vars)
<1>1. PICK a \in Op : a = at[s] /\ a \in acked /\ execs[a] = 0
  BY DEF EnterTask, DispatchInv, TypeOK, SessionInv, Relies, AckedPhase
<1>2. execs' = [execs EXCEPT ![a] = 1] /\ UNCHANGED <<dStatus, acked>>
  BY <1>1 DEF EnterTask, rowVars
<1>3. dStatus \in [Op -> RowState] /\ dStatus[a] \in {"acknowledged"} \cup Settled
  BY <1>1 DEF DispatchInv, TypeOK, RowState, RowInv, Settled
<1>4. CommandState(a) \in {"taken", "closed"}
  BY <1>1, <1>3, CommandStates
<1>5. \A b \in Op : CommandState(b)' = CommandState(b)
  BY <1>2 DEF CommandState
<1>6. Once!Run(a)
  BY <1>1, <1>2, <1>4, <1>5 DEF Once!Run
<1> QED
  BY <1>6 DEF Once!Next

(* Every other step leaves rows, acknowledgements and entries alone.       *)
LEMMA Invisible ==
    ASSUME UNCHANGED <<dStatus, acked, execs>>
    PROVE  [Once!Next]_(Once!vars)
<1>1. \A b \in Op : CommandState(b)' = CommandState(b)
  BY DEF CommandState
<1> QED
  BY <1>1 DEF Once!vars

(* Every step is a step of the abstract command, or invisible to it.       *)
LEMMA CommandStep ==
    ASSUME DispatchInv, DispatchInv', Next
    PROVE  [Once!Next]_(Once!vars)
<1>1. \A n \in Op : LoseEnvelope(n) \/ AckAges(n) => UNCHANGED <<dStatus, acked, execs>>
  BY DEF LoseEnvelope, AckAges, rowVars
<1>2. ASSUME NEW n \in Op, Start(n) PROVE [Once!Next]_(Once!vars)
  BY <1>2, CreateOffers DEF Start, DispatchInv
<1>3. ASSUME NEW s \in Session, NEW n \in Op, StaleReplace(s, n) \/ RedriveStart(s, n)
      PROVE  [Once!Next]_(Once!vars)
  <2>1. TypeOK /\ RowInv /\ TypeOK'
    BY DEF DispatchInv
  <2> QED
    BY <1>3, <2>1, CreateOffers DEF StaleReplace, RedriveStart
<1>4. \A s \in Beat :
         \/ PublishLock(s) \/ PublishAccepted(s) \/ ReconcileLock(s) \/ ReconcileSkip(s)
         \/ \E o \in Op : PublishSelect(s, o) \/ ReconcileSelect(s, o)
         => UNCHANGED <<dStatus, acked, execs>>
  BY DEF PublishLock, PublishAccepted, ReconcileLock, ReconcileSkip, PublishSelect,
         ReconcileSelect, rowVars
<1>5. \A s \in Worker :
         \/ ClaimRaises(s) \/ ClaimLock(s) \/ MarkRunning(s) \/ ReportRead(s)
         \/ (\E st \in Outcome : ReportWrite(s, st))
         \/ DeviceError(s) \/ AbortWrite(s) \/ TaskRaises(s) \/ FailLock(s)
         \/ \E o \in Op : Receive(s, o)
         => UNCHANGED <<dStatus, acked, execs>>
  BY DEF ClaimRaises, ClaimLock, MarkRunning, ReportRead, ReportWrite, Transition,
         DeviceError, AbortWrite, TaskRaises, FailLock, Receive, rowVars
<1>6. \A s \in Request :
         \/ StaleWrite(s) \/ StaleAbandon(s) \/ RedriveAbandon(s)
         \/ \E o \in Op : StaleRead(s, o) \/ RedriveReview(s, o)
         => UNCHANGED <<dStatus, acked, execs>>
  BY DEF StaleWrite, StaleAbandon, RedriveAbandon, StaleRead, RedriveReview, rowVars
<1>7. \A s \in Session, n \in {0, 1} : Crash(s, n) => UNCHANGED <<dStatus, acked, execs>>
  BY DEF Crash, rowVars
<1>8. ASSUME NEW s \in Beat,
             BeatEnds(s) \/ \E o \in Op : PublishSelect(s, o) \/ ReconcileSelect(s, o)
      PROVE  [Once!Next]_(Once!vars)
  BY <1>4, <1>8, Invisible, OfferMoves, CloseMoves DEF BeatEnds, Session
<1>9. ASSUME NEW s \in Worker,
             \/ ClaimEnds(s) \/ TaskStep(s) \/ FailCommit(s)
             \/ \E o \in Op : Receive(s, o)
      PROVE  [Once!Next]_(Once!vars)
  BY <1>5, <1>9, Invisible, OfferMoves, CloseMoves, EnterTaskRuns
     DEF ClaimEnds, TaskStep, Session
<1>10. ASSUME NEW s \in Request,
             RequestEnds(s) \/ \E o \in Op : StaleRead(s, o) \/ RedriveReview(s, o)
      PROVE  [Once!Next]_(Once!vars)
  BY <1>3, <1>6, <1>10, Invisible DEF RequestEnds, Session
<1> QED
  BY <1>1, <1>2, <1>7, <1>8, <1>9, <1>10, Invisible DEF Next

(* Rows, locks, broker, retries and crashes together implement the command *)
(* of CommandOnce: offered once, taken by one worker, entered at most once *)
(* and never after it was withdrawn.                                       *)
THEOREM DispatchRefinement == Spec => ImplementsCommandOnce
<1>1. Init => Once!Init
  <2> SUFFICES ASSUME Init PROVE Once!Init
    OBVIOUS
  <2>1. dStatus \in [Op -> RowState] /\ \A o \in Op : dStatus[o] = "absent"
    BY DEF Init, RowState
  <2>2. \A o \in Op : CommandState(o) = "none"
    BY <2>1, CommandStates
  <2> QED
    BY <2>2 DEF Init, Once!Init
<1>2. DispatchInv /\ DispatchInv' /\ [Next]_vars => [Once!Next]_(Once!vars)
  BY CommandStep, Invisible DEF vars, rowVars
<1> QED
  BY <1>1, <1>2, DispatchInvariant, PTL DEF Spec, Once!Spec, ImplementsCommandOnce
=============================================================================
