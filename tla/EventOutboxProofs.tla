-------------------------- MODULE EventOutboxProofs --------------------------
(***************************************************************************)
(* Proofs about EventOutbox for any set of events, plans and limits.       *)
(*                                                                         *)
(* RowInv is inductive whatever the time limits are.  ExactInv adds what   *)
(* holds when no retry outlasts the stale window: then the manifest is     *)
(* what is missing and owner commands to be replayed, nothing else, and no *)
(* handler takes effect twice.                                             *)
(***************************************************************************)
EXTENDS EventOutbox, TLAPS

(* Rows waiting for a retry have failed, have budget and are not yet being *)
(* retried.                                                                *)
QueueInv ==
    \A e \in retryBatch :
        status[e] = "failed" /\ retries[e] < MaxRetries /\ e \notin retrying

(* Nobody else changes what a running retry read of its row.               *)
RetryInv ==
    \A e \in retrying :
        /\ status[e] \in {"processing", "failed"}
        /\ retryNames = FailedHandlerNames(e)

(* Only rows that were dispatched once can be timed out.                   *)
MarkInv ==
    \A e \in marked \cup stale :
        status[e] \notin {"absent", "staged", "pending"}

RowInv ==
    /\ TypeOK
    /\ NothingForgotten
    /\ PrerequisitesFirst
    /\ OneOwner
    /\ QueueInv
    /\ RetryInv
    /\ MarkInv

USE OutboxAssumption

-----------------------------------------------------------------------------

(* What one recorded run does to the row of its event: the types hold,     *)
(* nothing missing is forgotten and prerequisites stay in front, provided  *)
(* everything missing was asked for and everything taken as recovered was  *)
(* in effect.                                                              *)
LEMMA RecordRunKeeps ==
    ASSUME TypeOK, NothingForgotten, PrerequisitesFirst,
           NEW e \in Events, NEW todo \in SUBSET Plan[e],
           NEW recovered \in SUBSET Plan[e], NEW S \in SUBSET todo,
           Missing(e) \subseteq todo,
           \A h \in recovered : effects[e][h] > 0,
           RunOutcome(e, recovered, S),
           RecordRun(e, todo, S)
    PROVE  /\ status' \in [Events -> Statuses]
           /\ status'[e] \in {"failed", "completed"}
           /\ \A f \in Events \ {e} :
                status'[f] = status[f] /\ manifest'[f] = manifest[f]
                /\ latest'[f] = latest[f]
           /\ manifest' \in [Events -> SUBSET Handlers]
           /\ latest' \in [Events -> [Handlers -> {"none", "success", "failed"}]]
           /\ effects' \in [Events -> [Handlers -> Nat]]
           /\ stale' \subseteq Events /\ stale' \subseteq stale
           /\ NothingForgotten'
           /\ PrerequisitesFirst'
<1> USE DEF TypeOK, Statuses
<1>1. /\ status' = [status EXCEPT ![e] = IF S = todo THEN "completed"
                                                     ELSE "failed"]
      /\ manifest' = [manifest EXCEPT ![e] = todo \ S]
      /\ stale' = stale \ {e}
  BY DEF RecordRun
<1>2. latest' = [latest EXCEPT ![e] =
                    [h \in Handlers |-> IF h \in S THEN "success"
                                        ELSE IF h \in todo THEN "failed"
                                        ELSE latest[e][h]]]
  BY DEF RecordRun
<1>3. /\ effects' = [effects EXCEPT ![e] =
                    [h \in Handlers |-> effects[e][h]
                         + IF h \in S \ Separate[e] THEN 1 ELSE 0]]
      /\ \A h \in S \cap Separate[e] : effects[e][h] > 0
  BY DEF RecordRun
<1>4. effects' \in [Events -> [Handlers -> Nat]]
  BY <1>3
<1>5. latest' \in [Events -> [Handlers -> {"none", "success", "failed"}]]
  BY <1>2
<1>6. \A f \in Events \ {e} :
        /\ status'[f] = status[f] /\ manifest'[f] = manifest[f]
        /\ latest'[f] = latest[f] /\ effects'[f] = effects[f]
  BY <1>1, <1>2, <1>3
<1>7. \A h \in Handlers :
        /\ effects[e][h] \in Nat
        /\ effects'[e][h] = effects[e][h]
                            + IF h \in S \ Separate[e] THEN 1 ELSE 0
  BY <1>3
<1>8. Missing(e)' \subseteq todo \ S
  <2> SUFFICES ASSUME NEW h \in Plan[e], effects'[e][h] = 0
               PROVE  h \in todo \ S
    BY DEF Missing
  <2>1. h \in Handlers
    OBVIOUS
  <2>2. effects[e][h] = 0 /\ h \notin S
    BY <2>1, <1>3, <1>7
  <2> QED BY <2>2 DEF Missing
<1>9. NothingForgotten'
  <2> SUFFICES ASSUME NEW f \in Events
               PROVE  /\ status'[f] \in {"absent", "staged"} =>
                            \A h \in Handlers : effects'[f][h] = 0
                      /\ status'[f] = "pending" =>
                            \A h \in Handlers \ Separate[f] : effects'[f][h] = 0
                      /\ status'[f] \in {"processing", "failed"} =>
                            Missing(f)' \subseteq FailedHandlerNames(f)'
                      /\ status'[f] \in {"completed", "purged"} => Missing(f)' = {}
    BY DEF NothingForgotten
  <2>1. CASE f # e
    <3>1. /\ status'[f] = status[f] /\ manifest'[f] = manifest[f]
          /\ latest'[f] = latest[f] /\ effects'[f] = effects[f]
      BY <2>1, <1>6
    <3>2. Missing(f)' = Missing(f)
      BY <3>1, Zenon DEF Missing
    <3>3. FailedHandlerNames(f)' = FailedHandlerNames(f)
      BY <3>1, Zenon DEF FailedHandlerNames
    <3> QED BY <3>1, <3>2, <3>3 DEF NothingForgotten
  <2>2. CASE f = e /\ S = todo
    BY <2>2, <1>1, <1>8
  <2>3. CASE f = e /\ S # todo
    <3>1. FailedHandlerNames(e)' = todo \ S
      BY <2>3, <1>1 DEF FailedHandlerNames
    <3> QED BY <2>3, <3>1, <1>1, <1>8
  <2> QED BY <2>1, <2>2, <2>3
<1>10. PrerequisitesFirst'
  <2> SUFFICES ASSUME NEW f \in Events, NEW h \in Handlers,
                      effects'[f][h] > 0, NEW d \in Deps[f][h]
               PROVE  effects'[f][d] > 0
    BY DEF PrerequisitesFirst
  <2>0. d \in Handlers /\ d \in Plan[f]
    OBVIOUS
  <2>1. CASE f # e
    BY <2>1, <1>6 DEF PrerequisitesFirst
  <2>2. CASE f = e /\ effects[e][h] > 0
    <3>1. effects[e][d] > 0
      BY <2>2 DEF PrerequisitesFirst
    <3>2. /\ effects[e][d] \in Nat
          /\ effects'[e][d] = effects[e][d]
                              + IF d \in S \ Separate[e] THEN 1 ELSE 0
      BY <2>0, <1>7
    <3> QED BY <2>2, <3>1, <3>2
  <2>3. CASE f = e /\ ~(effects[e][h] > 0)
    <3>1. /\ effects[e][h] \in Nat
          /\ effects'[e][h] = effects[e][h]
                              + IF h \in S \ Separate[e] THEN 1 ELSE 0
      BY <1>7
    <3>2. h \in S
      BY <2>3, <3>1
    <3>3. d \in recovered \cup S
      BY <3>2, <2>3 DEF RunOutcome
    <3>4. /\ effects[e][d] \in Nat
          /\ effects'[e][d] = effects[e][d]
                              + IF d \in S \ Separate[e] THEN 1 ELSE 0
      BY <2>0, <1>7
    <3>5. d \in S \cap Separate[e] => effects[e][d] > 0
      BY <1>3
    <3> QED BY <3>3, <3>4, <3>5, <2>3
  <2> QED BY <2>1, <2>2, <2>3
<1> QED BY <1>1, <1>4, <1>5, <1>6, <1>9, <1>10

(* The first run of a pending or staged row satisfies those conditions.    *)
LEMMA FirstRunKeeps ==
    ASSUME TypeOK, NothingForgotten, PrerequisitesFirst,
           NEW e \in Events, status[e] \in {"staged", "pending"}, FirstRun(e)
    PROVE  /\ status' \in [Events -> Statuses]
           /\ status'[e] \in {"failed", "completed"}
           /\ \A f \in Events \ {e} :
                status'[f] = status[f] /\ manifest'[f] = manifest[f]
                /\ latest'[f] = latest[f]
           /\ manifest' \in [Events -> SUBSET Handlers]
           /\ latest' \in [Events -> [Handlers -> {"none", "success", "failed"}]]
           /\ effects' \in [Events -> [Handlers -> Nat]]
           /\ stale' \subseteq Events /\ stale' \subseteq stale
           /\ retries' = retries /\ age' = age
           /\ NothingForgotten'
           /\ PrerequisitesFirst'
<1>1. PICK S \in SUBSET Plan[e] :
        RunOutcome(e, {}, S) /\ RecordRun(e, Plan[e], S)
  BY DEF FirstRun
<1>2. Missing(e) \subseteq Plan[e]
  BY DEF Missing
<1>3. Plan[e] \in SUBSET Plan[e] /\ {} \in SUBSET Plan[e]
  OBVIOUS
<1>4. \A h \in {} : effects[e][h] > 0
  OBVIOUS
<1> HIDE DEF RunOutcome, RecordRun
<1> QED BY <1>1, <1>2, <1>3, <1>4, RecordRunKeeps DEF FirstRun

(* A retry satisfies them too: what it was asked for covers what is        *)
(* missing, and what it takes as recovered is in effect.                   *)
LEMMA RetryFinishKeeps ==
    ASSUME RowInv, NEW e \in Events, RetryFinish(e)
    PROVE  /\ status' \in [Events -> Statuses]
           /\ status'[e] \in {"failed", "completed"}
           /\ \A f \in Events \ {e} :
                status'[f] = status[f] /\ manifest'[f] = manifest[f]
                /\ latest'[f] = latest[f]
           /\ manifest' \in [Events -> SUBSET Handlers]
           /\ latest' \in [Events -> [Handlers -> {"none", "success", "failed"}]]
           /\ effects' \in [Events -> [Handlers -> Nat]]
           /\ stale' \subseteq Events /\ stale' \subseteq stale
           /\ NothingForgotten'
           /\ PrerequisitesFirst'
<1>1. PICK S \in SUBSET RetryTodo(e) :
        RunOutcome(e, RetryRecovered(e), S) /\ RecordRun(e, RetryTodo(e), S)
  BY DEF RetryFinish
<1>2. TypeOK /\ NothingForgotten /\ PrerequisitesFirst
  BY DEF RowInv
<1>3. RetryTodo(e) \in SUBSET Plan[e] /\ RetryRecovered(e) \in SUBSET Plan[e]
  BY DEF RetryTodo, RetryRecovered
<1>4. e \in retrying /\ retryNames = FailedHandlerNames(e)
      /\ status[e] \in {"processing", "failed"}
  BY DEF RowInv, RetryInv, RetryFinish
<1>5. Missing(e) \subseteq retryNames /\ Missing(e) \subseteq Plan[e]
  BY <1>2, <1>4 DEF NothingForgotten, Missing
<1>6. Missing(e) \subseteq RetryTodo(e)
  BY <1>5 DEF RetryTodo
<1>7. \A h \in RetryRecovered(e) : effects[e][h] > 0
  <2> SUFFICES ASSUME NEW h \in RetryRecovered(e) PROVE effects[e][h] > 0
    OBVIOUS
  <2>1. h \in Plan[e] /\ h \notin Missing(e) /\ h \in Handlers
    BY <1>5 DEF RetryRecovered
  <2>2. effects[e][h] \in Nat
    BY <1>2, <2>1 DEF TypeOK
  <2> QED BY <2>1, <2>2 DEF Missing
<1> QED BY <1>1, <1>2, <1>3, <1>6, <1>7, RecordRunKeeps

(* Steps that leave effects, manifests and attempts alone and keep every   *)
(* row on its side of the first dispatch keep the two row properties.      *)
LEMMA StatusMoveKeeps ==
    ASSUME TypeOK, NothingForgotten, PrerequisitesFirst,
           UNCHANGED <<manifest, latest, effects>>,
           \A f \in Events :
              \/ status'[f] = status[f]
              \/ /\ status[f] \in {"absent", "staged"}
                 /\ status'[f] \in {"absent", "staged", "pending"}
              \/ /\ status[f] \in {"processing", "failed", "completed"}
                 /\ status'[f] \in {"processing", "failed"}
              \/ /\ status[f] = "completed"
                 /\ status'[f] = "purged"
    PROVE  NothingForgotten' /\ PrerequisitesFirst'
<1>1. PrerequisitesFirst'
  BY DEF PrerequisitesFirst
<1>2. ASSUME NEW f \in Events
      PROVE  Missing(f)' = Missing(f)
             /\ FailedHandlerNames(f)' = FailedHandlerNames(f)
  BY DEF Missing, FailedHandlerNames
<1>3. NothingForgotten'
  <2> SUFFICES ASSUME NEW f \in Events
               PROVE  /\ status'[f] \in {"absent", "staged"} =>
                            \A h \in Handlers : effects'[f][h] = 0
                      /\ status'[f] = "pending" =>
                            \A h \in Handlers \ Separate[f] : effects'[f][h] = 0
                      /\ status'[f] \in {"processing", "failed"} =>
                            Missing(f)' \subseteq FailedHandlerNames(f)'
                      /\ status'[f] \in {"completed", "purged"} => Missing(f)' = {}
    BY DEF NothingForgotten
  <2> QED BY <1>2 DEF NothingForgotten
<1> QED BY <1>1, <1>3

(* An owner command only runs for a row somebody owns, and makes nothing   *)
(* missing that was not.                                                   *)
LEMMA OwnerCommandKeeps ==
    ASSUME TypeOK, NothingForgotten, PrerequisitesFirst, OneOwner, RetryInv,
           NEW e \in Events, NEW h \in Separate[e], OwnerCommand(e, h)
    PROVE  NothingForgotten' /\ PrerequisitesFirst'
<1>0. h \in Handlers /\ Deps[e][h] = {}
  BY SeparateAssumption
<1>1. /\ effects' = [effects EXCEPT ![e][h] = 1]
      /\ status' = status /\ manifest' = manifest /\ latest' = latest
  BY DEF OwnerCommand, rowVars, retryVars
<1>2. status[e] \in {"pending", "processing", "failed"}
  BY DEF OwnerCommand, OneOwner, RetryInv
<1>3. PrerequisitesFirst'
  BY <1>0, <1>1 DEF PrerequisitesFirst, TypeOK
<1>4. \A f \in Events : \A g \in Handlers :
        effects'[f][g] = IF f = e /\ g = h THEN 1 ELSE effects[f][g]
  BY <1>0, <1>1 DEF TypeOK
<1>5. ASSUME NEW f \in Events
      PROVE  /\ Missing(f)' \subseteq Missing(f)
             /\ FailedHandlerNames(f)' = FailedHandlerNames(f)
  BY <1>1, <1>4 DEF Missing, FailedHandlerNames
<1>6. NothingForgotten'
  <2> SUFFICES ASSUME NEW f \in Events
               PROVE  /\ status[f] \in {"absent", "staged"} =>
                            \A g \in Handlers : effects'[f][g] = 0
                      /\ status[f] = "pending" =>
                            \A g \in Handlers \ Separate[f] : effects'[f][g] = 0
                      /\ status[f] \in {"processing", "failed"} =>
                            Missing(f)' \subseteq FailedHandlerNames(f)'
                      /\ status[f] \in {"completed", "purged"} => Missing(f)' = {}
    BY <1>1 DEF NothingForgotten
  <2>1. CASE f = e
    <3>1. \A g \in Handlers \ Separate[e] : effects'[e][g] = effects[e][g]
      BY <1>4
    <3>2. status[e] = "pending" =>
                \A g \in Handlers \ Separate[e] : effects'[e][g] = 0
      BY <3>1 DEF NothingForgotten
    <3>3. status[e] \in {"processing", "failed"} =>
              Missing(e) \subseteq FailedHandlerNames(e)
      BY DEF NothingForgotten
    <3>4. status[e] \in {"processing", "failed"} =>
              Missing(e)' \subseteq FailedHandlerNames(e)'
      BY <1>5, <3>3
    <3>5. /\ status[e] \notin {"absent", "staged"}
          /\ status[e] \notin {"completed", "purged"}
      BY <1>2
    <3> QED BY <2>1, <3>2, <3>4, <3>5
  <2>2. CASE f # e
    <3>1. \A g \in Handlers : effects'[f][g] = effects[f][g]
      BY <2>2, <1>4
    <3>2. /\ status[f] \in {"absent", "staged"} =>
                \A g \in Handlers : effects[f][g] = 0
          /\ status[f] = "pending" =>
                \A g \in Handlers \ Separate[f] : effects[f][g] = 0
      BY DEF NothingForgotten
    <3>3. /\ status[f] \in {"processing", "failed"} =>
                Missing(f) \subseteq FailedHandlerNames(f)
          /\ status[f] \in {"completed", "purged"} => Missing(f) = {}
      BY DEF NothingForgotten
    <3>4. Missing(f)' \subseteq Missing(f) /\ FailedHandlerNames(f)' = FailedHandlerNames(f)
      BY <1>5
    <3> DEFINE missing == Missing(f)
               missingNext == Missing(f)'
               names == FailedHandlerNames(f)
               namesNext == FailedHandlerNames(f)'
    <3>5. /\ status[f] \in {"processing", "failed"} => missingNext \subseteq namesNext
          /\ status[f] \in {"completed", "purged"} => missingNext = {}
      <4>1. /\ status[f] \in {"processing", "failed"} => missing \subseteq names
            /\ status[f] \in {"completed", "purged"} => missing = {}
            /\ missingNext \subseteq missing /\ namesNext = names
        BY <3>3, <3>4
      <4> HIDE DEF missing, missingNext, names, namesNext
      <4> QED BY <4>1
    <3>6. /\ status[f] \in {"absent", "staged"} =>
                \A g \in Handlers : effects'[f][g] = 0
          /\ status[f] = "pending" =>
                \A g \in Handlers \ Separate[f] : effects'[f][g] = 0
      BY <3>1, <3>2
    <3> QED BY <3>5, <3>6
  <2> QED BY <2>1, <2>2
<1> QED BY <1>3, <1>6

(* Every step of the outbox keeps RowInv.                                  *)
LEMMA RowInvStep ==
    ASSUME RowInv, [Next]_vars
    PROVE  RowInv'
<1> USE DEF RowInv, Claimable, IsFirst, rowVars, dispatchVars, retryVars
<1>0. TypeOK /\ NothingForgotten /\ PrerequisitesFirst /\ OneOwner
      /\ QueueInv /\ RetryInv /\ MarkInv
  OBVIOUS
<1> HIDE DEF RowInv
<1>1. ASSUME NEW e \in Events, Emit(e)
       PROVE  RowInv'
  <2>1. TypeOK'
    BY <1>1, <1>0 DEF Emit, TypeOK, Statuses
  <2>2. NothingForgotten' /\ PrerequisitesFirst'
    BY <1>1, <1>0, StatusMoveKeeps DEF Emit, TypeOK
  <2>3. OneOwner'
    BY <1>1, <1>0 DEF Emit, TypeOK, OneOwner
  <2>4. QueueInv'
    BY <1>1, <1>0 DEF Emit, TypeOK, QueueInv
  <2>5. RetryInv'
    BY <1>1, <1>0 DEF Emit, TypeOK, RetryInv, FailedHandlerNames
  <2>6. MarkInv'
    BY <1>1, <1>0 DEF Emit, TypeOK, MarkInv
  <2> QED BY <2>1, <2>2, <2>3, <2>4, <2>5, <2>6 DEF RowInv
<1>2. ASSUME NEW e \in Events, CallerCommit(e)
       PROVE  RowInv'
  <2>1. TypeOK'
    BY <1>2, <1>0 DEF CallerCommit, TypeOK, Statuses
  <2>2. NothingForgotten' /\ PrerequisitesFirst'
    BY <1>2, <1>0, StatusMoveKeeps DEF CallerCommit, TypeOK
  <2>3. OneOwner'
    BY <1>2, <1>0 DEF CallerCommit, TypeOK, OneOwner
  <2>4. QueueInv'
    BY <1>2, <1>0 DEF CallerCommit, TypeOK, QueueInv
  <2>5. RetryInv'
    BY <1>2, <1>0 DEF CallerCommit, TypeOK, RetryInv, FailedHandlerNames
  <2>6. MarkInv'
    BY <1>2, <1>0 DEF CallerCommit, TypeOK, MarkInv
  <2> QED BY <2>1, <2>2, <2>3, <2>4, <2>5, <2>6 DEF RowInv
<1>3. ASSUME NEW e \in Events, CallerCommitInline(e)
       PROVE  RowInv'
  <2>1. status[e] \in {"staged", "pending"} /\ FirstRun(e)
    BY <1>3, <1>0 DEF CallerCommitInline, OneOwner
  <2>2. NothingForgotten' /\ PrerequisitesFirst'
    BY <2>1, <1>0, FirstRunKeeps
  <2>3. /\ status' \in [Events -> Statuses]
        /\ status'[e] \in {"failed", "completed"}
        /\ \A f \in Events \ {e} :
              status'[f] = status[f] /\ manifest'[f] = manifest[f]
              /\ latest'[f] = latest[f]
        /\ manifest' \in [Events -> SUBSET Handlers]
        /\ latest' \in [Events -> [Handlers -> {"none", "success", "failed"}]]
        /\ effects' \in [Events -> [Handlers -> Nat]]
        /\ stale' \subseteq Events /\ stale' \subseteq stale
        /\ retries' = retries /\ age' = age
    BY <2>1, <1>0, FirstRunKeeps
  <2>4. TypeOK'
    BY <1>3, <1>0, <2>3 DEF CallerCommitInline, TypeOK
  <2>5. OneOwner'
    BY <1>3, <1>0, <2>1, <2>3 DEF CallerCommitInline, TypeOK, OneOwner
  <2>6. QueueInv'
    BY <1>3, <1>0, <2>1, <2>3 DEF CallerCommitInline, TypeOK, QueueInv, OneOwner
  <2>7. RetryInv'
    <3>1. retrying' = retrying /\ retryNames' = retryNames
      BY <1>3 DEF CallerCommitInline
    <3>2. ASSUME NEW f \in retrying
          PROVE  /\ f \in Events \ {e}
                 /\ status[f] \in {"processing", "failed"}
                 /\ retryNames = FailedHandlerNames(f)
      BY <1>0, <2>1 DEF RetryInv, TypeOK
    <3>3. ASSUME NEW f \in retrying
          PROVE  status'[f] = status[f]
                 /\ FailedHandlerNames(f)' = FailedHandlerNames(f)
      <4>1. f \in Events \ {e}
        BY <3>2
      <4>2. status'[f] = status[f] /\ manifest'[f] = manifest[f]
            /\ latest'[f] = latest[f]
        BY <2>3, <4>1
      <4> QED BY <4>2, Zenon DEF FailedHandlerNames
    <3> QED BY <3>1, <3>2, <3>3 DEF RetryInv
  <2>8. MarkInv'
    BY <1>3, <1>0, <2>1, <2>3 DEF CallerCommitInline, TypeOK, MarkInv
  <2> QED BY <2>2, <2>4, <2>5, <2>6, <2>7, <2>8 DEF RowInv
<1>4. ASSUME NEW e \in Events, CallerRollback(e)
       PROVE  RowInv'
  <2>1. TypeOK'
    BY <1>4, <1>0 DEF CallerRollback, TypeOK, Statuses
  <2>2. NothingForgotten' /\ PrerequisitesFirst'
    BY <1>4, <1>0, StatusMoveKeeps DEF CallerRollback, TypeOK
  <2>3. OneOwner'
    BY <1>4, <1>0 DEF CallerRollback, TypeOK, OneOwner
  <2>4. QueueInv'
    BY <1>4, <1>0 DEF CallerRollback, TypeOK, QueueInv
  <2>5. RetryInv'
    BY <1>4, <1>0 DEF CallerRollback, TypeOK, RetryInv, FailedHandlerNames
  <2>6. MarkInv'
    BY <1>4, <1>0 DEF CallerRollback, TypeOK, MarkInv
  <2> QED BY <2>1, <2>2, <2>3, <2>4, <2>5, <2>6 DEF RowInv
<1>5. ASSUME NEW e \in Events, CallbackClaim(e)
       PROVE  RowInv'
  <2>1. TypeOK'
    BY <1>5, <1>0 DEF CallbackClaim, TypeOK
  <2>2. NothingForgotten' /\ PrerequisitesFirst'
    BY <1>5, <1>0, StatusMoveKeeps DEF CallbackClaim
  <2>3. OneOwner'
    BY <1>5, <1>0 DEF CallbackClaim, TypeOK, OneOwner, QueueInv, RetryInv, MarkInv
  <2>4. QueueInv'
    BY <1>5, <1>0 DEF CallbackClaim, TypeOK, QueueInv
  <2>5. RetryInv'
    BY <1>5, <1>0 DEF CallbackClaim, TypeOK, RetryInv, FailedHandlerNames
  <2>6. MarkInv'
    BY <1>5, <1>0 DEF CallbackClaim, TypeOK, MarkInv
  <2> QED BY <2>1, <2>2, <2>3, <2>4, <2>5, <2>6 DEF RowInv
<1>6. ASSUME NEW e \in Events, CallbackLost(e)
       PROVE  RowInv'
  <2>1. TypeOK'
    BY <1>6, <1>0 DEF CallbackLost, TypeOK
  <2>2. NothingForgotten' /\ PrerequisitesFirst'
    BY <1>6, <1>0, StatusMoveKeeps DEF CallbackLost
  <2>3. OneOwner'
    BY <1>6, <1>0 DEF CallbackLost, TypeOK, OneOwner
  <2>4. QueueInv'
    BY <1>6, <1>0 DEF CallbackLost, TypeOK, QueueInv
  <2>5. RetryInv'
    BY <1>6, <1>0 DEF CallbackLost, TypeOK, RetryInv, FailedHandlerNames
  <2>6. MarkInv'
    BY <1>6, <1>0 DEF CallbackLost, TypeOK, MarkInv
  <2> QED BY <2>1, <2>2, <2>3, <2>4, <2>5, <2>6 DEF RowInv
<1>7. ASSUME NEW e \in Events, PeriodicVisit(e)
       PROVE  RowInv'
  <2>1. TypeOK'
    BY <1>7, <1>0 DEF PeriodicVisit, TypeOK
  <2>2. NothingForgotten' /\ PrerequisitesFirst'
    BY <1>7, <1>0, StatusMoveKeeps DEF PeriodicVisit
  <2>3. OneOwner'
    BY <1>7, <1>0 DEF PeriodicVisit, TypeOK, OneOwner, QueueInv, RetryInv, MarkInv
  <2>4. QueueInv'
    BY <1>7, <1>0 DEF PeriodicVisit, TypeOK, QueueInv
  <2>5. RetryInv'
    BY <1>7, <1>0 DEF PeriodicVisit, TypeOK, RetryInv, FailedHandlerNames
  <2>6. MarkInv'
    BY <1>7, <1>0 DEF PeriodicVisit, TypeOK, MarkInv
  <2> QED BY <2>1, <2>2, <2>3, <2>4, <2>5, <2>6 DEF RowInv
<1>8. ASSUME NEW e \in Events, DispatchCommit(e)
       PROVE  RowInv'
  <2>1. status[e] \in {"staged", "pending"} /\ FirstRun(e)
    BY <1>8, <1>0 DEF DispatchCommit, OneOwner
  <2>2. NothingForgotten' /\ PrerequisitesFirst'
    BY <2>1, <1>0, FirstRunKeeps
  <2>3. /\ status' \in [Events -> Statuses]
        /\ status'[e] \in {"failed", "completed"}
        /\ \A f \in Events \ {e} :
              status'[f] = status[f] /\ manifest'[f] = manifest[f]
              /\ latest'[f] = latest[f]
        /\ manifest' \in [Events -> SUBSET Handlers]
        /\ latest' \in [Events -> [Handlers -> {"none", "success", "failed"}]]
        /\ effects' \in [Events -> [Handlers -> Nat]]
        /\ stale' \subseteq Events /\ stale' \subseteq stale
        /\ retries' = retries /\ age' = age
    BY <2>1, <1>0, FirstRunKeeps
  <2>4. TypeOK'
    BY <1>8, <1>0, <2>3 DEF DispatchCommit, TypeOK
  <2>5. OneOwner'
    BY <1>8, <1>0, <2>1, <2>3 DEF DispatchCommit, TypeOK, OneOwner
  <2>6. QueueInv'
    BY <1>8, <1>0, <2>1, <2>3 DEF DispatchCommit, TypeOK, QueueInv, OneOwner
  <2>7. RetryInv'
    <3>1. retrying' = retrying /\ retryNames' = retryNames
      BY <1>8 DEF DispatchCommit
    <3>2. ASSUME NEW f \in retrying
          PROVE  /\ f \in Events \ {e}
                 /\ status[f] \in {"processing", "failed"}
                 /\ retryNames = FailedHandlerNames(f)
      BY <1>0, <2>1 DEF RetryInv, TypeOK
    <3>3. ASSUME NEW f \in retrying
          PROVE  status'[f] = status[f]
                 /\ FailedHandlerNames(f)' = FailedHandlerNames(f)
      <4>1. f \in Events \ {e}
        BY <3>2
      <4>2. status'[f] = status[f] /\ manifest'[f] = manifest[f]
            /\ latest'[f] = latest[f]
        BY <2>3, <4>1
      <4> QED BY <4>2, Zenon DEF FailedHandlerNames
    <3> QED BY <3>1, <3>2, <3>3 DEF RetryInv
  <2>8. MarkInv'
    BY <1>8, <1>0, <2>1, <2>3 DEF DispatchCommit, TypeOK, MarkInv
  <2> QED BY <2>2, <2>4, <2>5, <2>6, <2>7, <2>8 DEF RowInv
<1>9. ASSUME NEW e \in Events, DispatchAbort(e)
       PROVE  RowInv'
  <2>1. TypeOK'
    BY <1>9, <1>0 DEF DispatchAbort, TypeOK
  <2>2. NothingForgotten' /\ PrerequisitesFirst'
    BY <1>9, <1>0, StatusMoveKeeps DEF DispatchAbort
  <2>3. OneOwner'
    BY <1>9, <1>0 DEF DispatchAbort, TypeOK, OneOwner
  <2>4. QueueInv'
    BY <1>9, <1>0 DEF DispatchAbort, TypeOK, QueueInv
  <2>5. RetryInv'
    BY <1>9, <1>0 DEF DispatchAbort, TypeOK, RetryInv, FailedHandlerNames
  <2>6. MarkInv'
    BY <1>9, <1>0 DEF DispatchAbort, TypeOK, MarkInv
  <2> QED BY <2>1, <2>2, <2>3, <2>4, <2>5, <2>6 DEF RowInv
<1>10. ASSUME NEW e \in Events, RetryStart(e)
       PROVE  RowInv'
  <2>1. TypeOK'
    BY <1>10, <1>0 DEF RetryStart, TypeOK, Statuses, QueueInv, FailedHandlerNames
  <2>2. NothingForgotten' /\ PrerequisitesFirst'
    BY <1>10, <1>0, StatusMoveKeeps DEF RetryStart, TypeOK, QueueInv
  <2>3. OneOwner'
    BY <1>10, <1>0 DEF RetryStart, TypeOK, OneOwner, QueueInv
  <2>4. QueueInv'
    BY <1>10, <1>0 DEF RetryStart, TypeOK, QueueInv
  <2>5. RetryInv'
    BY <1>10, <1>0 DEF RetryStart, TypeOK, RetryInv, FailedHandlerNames, QueueInv
  <2>6. MarkInv'
    BY <1>10, <1>0 DEF RetryStart, TypeOK, MarkInv, QueueInv
  <2> QED BY <2>1, <2>2, <2>3, <2>4, <2>5, <2>6 DEF RowInv
<1>11. ASSUME NEW e \in Events, RetryFinish(e)
       PROVE  RowInv'
  <2>1. e \in retrying /\ retrying' = {} /\ retryBatch' = retryBatch
        /\ status[e] \in {"processing", "failed"}
    BY <1>11, <1>0 DEF RetryFinish, RetryInv
  <2>2. NothingForgotten' /\ PrerequisitesFirst'
    BY <1>11, RowInv, RetryFinishKeeps
  <2>3. /\ status' \in [Events -> Statuses]
        /\ status'[e] \in {"failed", "completed"}
        /\ \A f \in Events \ {e} :
              status'[f] = status[f] /\ manifest'[f] = manifest[f]
              /\ latest'[f] = latest[f]
        /\ manifest' \in [Events -> SUBSET Handlers]
        /\ latest' \in [Events -> [Handlers -> {"none", "success", "failed"}]]
        /\ effects' \in [Events -> [Handlers -> Nat]]
        /\ stale' \subseteq Events /\ stale' \subseteq stale
    BY <1>11, RowInv, RetryFinishKeeps
  <2>4. TypeOK'
    BY <1>11, <1>0, <2>3 DEF RetryFinish, TypeOK
  <2>5. OneOwner'
    BY <1>11, <1>0, <2>1, <2>3 DEF RetryFinish, TypeOK, OneOwner
  <2>6. QueueInv'
    BY <1>11, <1>0, <2>1, <2>3 DEF RetryFinish, TypeOK, QueueInv, OneOwner
  <2>7. RetryInv'
    BY <1>11, <1>0, <2>1, <2>3 DEF RetryFinish, TypeOK, RetryInv, OneOwner, FailedHandlerNames
  <2>8. MarkInv'
    BY <1>11, <1>0, <2>1, <2>3 DEF RetryFinish, TypeOK, MarkInv
  <2> QED BY <2>2, <2>4, <2>5, <2>6, <2>7, <2>8 DEF RowInv
<1>12. ASSUME NEW e \in Events, RetryAbort(e)
       PROVE  RowInv'
  <2>1. TypeOK'
    BY <1>12, <1>0 DEF RetryAbort, TypeOK
  <2>2. NothingForgotten' /\ PrerequisitesFirst'
    BY <1>12, <1>0, StatusMoveKeeps DEF RetryAbort
  <2>3. OneOwner'
    BY <1>12, <1>0 DEF RetryAbort, TypeOK, OneOwner
  <2>4. QueueInv'
    BY <1>12, <1>0 DEF RetryAbort, TypeOK, QueueInv
  <2>5. RetryInv'
    BY <1>12, <1>0 DEF RetryAbort, TypeOK, RetryInv, FailedHandlerNames
  <2>6. MarkInv'
    BY <1>12, <1>0 DEF RetryAbort, TypeOK, MarkInv
  <2> QED BY <2>1, <2>2, <2>3, <2>4, <2>5, <2>6 DEF RowInv
<1>13. ASSUME NEW e \in Events, GrowOld(e)
       PROVE  RowInv'
  <2>1. TypeOK'
    BY <1>13, <1>0 DEF GrowOld, TypeOK
  <2>2. NothingForgotten' /\ PrerequisitesFirst'
    BY <1>13, <1>0, StatusMoveKeeps DEF GrowOld
  <2>3. OneOwner'
    BY <1>13, <1>0 DEF GrowOld, TypeOK, OneOwner
  <2>4. QueueInv'
    BY <1>13, <1>0 DEF GrowOld, TypeOK, QueueInv
  <2>5. RetryInv'
    BY <1>13, <1>0 DEF GrowOld, TypeOK, RetryInv, FailedHandlerNames
  <2>6. MarkInv'
    BY <1>13, <1>0 DEF GrowOld, TypeOK, MarkInv
  <2> QED BY <2>1, <2>2, <2>3, <2>4, <2>5, <2>6 DEF RowInv
<1>14. ASSUME NEW e \in Events, GoStale(e)
       PROVE  RowInv'
  <2>1. TypeOK'
    BY <1>14, <1>0 DEF GoStale, TypeOK
  <2>2. NothingForgotten' /\ PrerequisitesFirst'
    BY <1>14, <1>0, StatusMoveKeeps DEF GoStale
  <2>3. OneOwner'
    BY <1>14, <1>0 DEF GoStale, TypeOK, OneOwner
  <2>4. QueueInv'
    BY <1>14, <1>0 DEF GoStale, TypeOK, QueueInv
  <2>5. RetryInv'
    BY <1>14, <1>0 DEF GoStale, TypeOK, RetryInv, FailedHandlerNames
  <2>6. MarkInv'
    BY <1>14, <1>0 DEF GoStale, TypeOK, MarkInv
  <2> QED BY <2>1, <2>2, <2>3, <2>4, <2>5, <2>6 DEF RowInv
<1>15. ASSUME PeriodicList
       PROVE  RowInv'
  <2>1. TypeOK'
    BY <1>15, <1>0 DEF PeriodicList, TypeOK, Oldest
  <2>2. NothingForgotten' /\ PrerequisitesFirst'
    BY <1>15, <1>0, StatusMoveKeeps DEF PeriodicList
  <2>3. OneOwner'
    BY <1>15, <1>0 DEF PeriodicList, TypeOK, OneOwner
  <2>4. QueueInv'
    BY <1>15, <1>0 DEF PeriodicList, TypeOK, QueueInv
  <2>5. RetryInv'
    BY <1>15, <1>0 DEF PeriodicList, TypeOK, RetryInv, FailedHandlerNames
  <2>6. MarkInv'
    BY <1>15, <1>0 DEF PeriodicList, TypeOK, MarkInv
  <2> QED BY <2>1, <2>2, <2>3, <2>4, <2>5, <2>6 DEF RowInv
<1>16. ASSUME PeriodicDies
       PROVE  RowInv'
  <2>1. TypeOK'
    BY <1>16, <1>0 DEF PeriodicDies, TypeOK
  <2>2. NothingForgotten' /\ PrerequisitesFirst'
    BY <1>16, <1>0, StatusMoveKeeps DEF PeriodicDies
  <2>3. OneOwner'
    BY <1>16, <1>0 DEF PeriodicDies, TypeOK, OneOwner
  <2>4. QueueInv'
    BY <1>16, <1>0 DEF PeriodicDies, TypeOK, QueueInv
  <2>5. RetryInv'
    BY <1>16, <1>0 DEF PeriodicDies, TypeOK, RetryInv, FailedHandlerNames
  <2>6. MarkInv'
    BY <1>16, <1>0 DEF PeriodicDies, TypeOK, MarkInv
  <2> QED BY <2>1, <2>2, <2>3, <2>4, <2>5, <2>6 DEF RowInv
<1>17. ASSUME RetryList
       PROVE  RowInv'
  <2>1. TypeOK'
    BY <1>17, <1>0 DEF RetryList, TypeOK, Oldest
  <2>2. NothingForgotten' /\ PrerequisitesFirst'
    BY <1>17, <1>0, StatusMoveKeeps DEF RetryList
  <2>3. OneOwner'
    BY <1>17, <1>0 DEF RetryList, TypeOK, OneOwner, Oldest, Retryable
  <2>4. QueueInv'
    BY <1>17, <1>0 DEF RetryList, TypeOK, QueueInv, Oldest, Retryable
  <2>5. RetryInv'
    BY <1>17, <1>0 DEF RetryList, TypeOK, RetryInv, FailedHandlerNames
  <2>6. MarkInv'
    BY <1>17, <1>0 DEF RetryList, TypeOK, MarkInv
  <2> QED BY <2>1, <2>2, <2>3, <2>4, <2>5, <2>6 DEF RowInv
<1>18. ASSUME StaleSelect
       PROVE  RowInv'
  <2>1. TypeOK'
    BY <1>18, <1>0 DEF StaleSelect, TypeOK
  <2>2. NothingForgotten' /\ PrerequisitesFirst'
    BY <1>18, <1>0, StatusMoveKeeps DEF StaleSelect
  <2>3. OneOwner'
    BY <1>18, <1>0 DEF StaleSelect, TypeOK, OneOwner
  <2>4. QueueInv'
    BY <1>18, <1>0 DEF StaleSelect, TypeOK, QueueInv
  <2>5. RetryInv'
    BY <1>18, <1>0 DEF StaleSelect, TypeOK, RetryInv, FailedHandlerNames
  <2>6. MarkInv'
    BY <1>18, <1>0 DEF StaleSelect, TypeOK, MarkInv
  <2> QED BY <2>1, <2>2, <2>3, <2>4, <2>5, <2>6 DEF RowInv
<1>19. ASSUME StaleWrite
       PROVE  RowInv'
  <2>1. TypeOK'
    BY <1>19, <1>0 DEF StaleWrite, TypeOK, Statuses
  <2>2. NothingForgotten' /\ PrerequisitesFirst'
    BY <1>19, <1>0, StatusMoveKeeps DEF StaleWrite, TypeOK, MarkInv, Statuses
  <2>3. OneOwner'
    BY <1>19, <1>0 DEF StaleWrite, TypeOK, OneOwner
  <2>4. QueueInv'
    BY <1>19, <1>0 DEF StaleWrite, TypeOK, QueueInv
  <2>5. RetryInv'
    BY <1>19, <1>0 DEF StaleWrite, TypeOK, RetryInv, FailedHandlerNames
  <2>6. MarkInv'
    BY <1>19, <1>0 DEF StaleWrite, TypeOK, MarkInv
  <2> QED BY <2>1, <2>2, <2>3, <2>4, <2>5, <2>6 DEF RowInv
<1>20. ASSUME StaleAbort
       PROVE  RowInv'
  <2>1. TypeOK'
    BY <1>20, <1>0 DEF StaleAbort, TypeOK
  <2>2. NothingForgotten' /\ PrerequisitesFirst'
    BY <1>20, <1>0, StatusMoveKeeps DEF StaleAbort
  <2>3. OneOwner'
    BY <1>20, <1>0 DEF StaleAbort, TypeOK, OneOwner
  <2>4. QueueInv'
    BY <1>20, <1>0 DEF StaleAbort, TypeOK, QueueInv
  <2>5. RetryInv'
    BY <1>20, <1>0 DEF StaleAbort, TypeOK, RetryInv, FailedHandlerNames
  <2>6. MarkInv'
    BY <1>20, <1>0 DEF StaleAbort, TypeOK, MarkInv
  <2> QED BY <2>1, <2>2, <2>3, <2>4, <2>5, <2>6 DEF RowInv
<1>21. ASSUME CleanupCompleted
       PROVE  RowInv'
  <2>1. TypeOK'
    BY <1>21, <1>0 DEF CleanupCompleted, TypeOK, Statuses
  <2>2. NothingForgotten' /\ PrerequisitesFirst'
    BY <1>21, <1>0, StatusMoveKeeps DEF CleanupCompleted, TypeOK
  <2>3. OneOwner'
    BY <1>21, <1>0 DEF CleanupCompleted, TypeOK, OneOwner
  <2>4. QueueInv'
    BY <1>21, <1>0 DEF CleanupCompleted, TypeOK, QueueInv
  <2>5. RetryInv'
    BY <1>21, <1>0 DEF CleanupCompleted, TypeOK, RetryInv, FailedHandlerNames
  <2>6. MarkInv'
    BY <1>21, <1>0 DEF CleanupCompleted, TypeOK, MarkInv
  <2> QED BY <2>1, <2>2, <2>3, <2>4, <2>5, <2>6 DEF RowInv
<1>22. ASSUME UNCHANGED vars
       PROVE  RowInv'
  BY <1>22, <1>0 DEF vars, RowInv, TypeOK, NothingForgotten, PrerequisitesFirst,
     OneOwner, QueueInv, RetryInv, MarkInv, Missing, FailedHandlerNames
<1>23. ASSUME NEW e \in Events, NEW h \in Separate[e], OwnerCommand(e, h)
       PROVE  RowInv'
  <2>0. h \in Handlers /\ h \in Plan[e] /\ Deps[e][h] = {}
    BY SeparateAssumption
  <2>1. TypeOK'
    BY <1>23, <1>0, <2>0 DEF OwnerCommand, TypeOK
  <2>2. NothingForgotten' /\ PrerequisitesFirst'
    BY <1>23, <1>0, OwnerCommandKeeps
  <2>3. OneOwner'
    BY <1>23, <1>0 DEF OwnerCommand, OneOwner
  <2>4. QueueInv'
    BY <1>23, <1>0 DEF OwnerCommand, QueueInv
  <2>5. RetryInv'
    BY <1>23, <1>0 DEF OwnerCommand, RetryInv, FailedHandlerNames
  <2>6. MarkInv'
    BY <1>23, <1>0 DEF OwnerCommand, MarkInv
  <2> QED BY <2>1, <2>2, <2>3, <2>4, <2>5, <2>6 DEF RowInv
<1> QED
  BY <1>1, <1>2, <1>3, <1>4, <1>5, <1>6, <1>7, <1>8, <1>9, <1>10, <1>11, <1>12, <1>13, <1>14, <1>15, <1>16, <1>17, <1>18, <1>19, <1>20, <1>21, <1>22, <1>23 DEF Next

(* No row, no lock and no batch at first.                                  *)
LEMMA RowInvInit ==
    ASSUME Init
    PROVE  RowInv
BY DEF Init, RowInv, TypeOK, Statuses, NothingForgotten, PrerequisitesFirst,
       OneOwner, QueueInv, RetryInv, MarkInv

(* RowInv holds in every reachable state, whatever the limits.             *)
THEOREM RowInvariant == Spec => []RowInv
<1>1. Init => RowInv
  BY RowInvInit
<1>2. RowInv /\ [Next]_vars => RowInv'
  BY RowInvStep
<1> QED BY <1>1, <1>2, PTL DEF Spec

(* Every variable of the outbox keeps its type; in particular retry_count  *)
(* never passes MAX_RETRIES.                                               *)
THEOREM TypeCorrect == Spec => []TypeOK
<1>1. RowInv => TypeOK
  BY DEF RowInv
<1> QED BY <1>1, RowInvariant, PTL

(* No interleaving of callers, callbacks, tasks, crashes and timeouts      *)
(* makes the outbox lose a handler's effect.                               *)
THEOREM NeverForgotten == Spec => []NothingForgotten
<1>1. RowInv => NothingForgotten
  BY DEF RowInv
<1> QED BY <1>1, RowInvariant, PTL

(* A handler's effect is committed only behind its prerequisites'.         *)
THEOREM DependencyOrder == Spec => []PrerequisitesFirst
<1>1. RowInv => PrerequisitesFirst
  BY DEF RowInv
<1> QED BY <1>1, RowInvariant, PTL

(* Row locks and advisory locks give every row one owner at a time.        *)
THEOREM SingleOwner == Spec => []OneOwner
<1>1. RowInv => OneOwner
  BY DEF RowInv
<1> QED BY <1>1, RowInvariant, PTL

-----------------------------------------------------------------------------
(* What holds in addition when Celery kills a retry before its row counts  *)
(* as stale.                                                               *)

(* A row that failed, or is being retried, names what is missing and       *)
(* nothing besides, except handlers whose owner command will be replayed.  *)
ManifestExact ==
    \A e \in Events :
        status[e] \in {"processing", "failed"} =>
            /\ manifest[e] # {}
            /\ manifest[e] \subseteq Missing(e) \cup Separate[e]

(* Nobody times out a row that a retry still works on.                     *)
NoOverlap ==
    /\ \A e \in marked \cup stale : status[e] = "processing" /\ e \notin retrying
    /\ \A e \in retrying : status[e] = "processing"

ExactInv == RowInv /\ ManifestExact /\ NoOverlap /\ AtMostOnce

(* One recorded run that is asked for nothing that would be repeated.      *)
LEMMA RecordRunExact ==
    ASSUME TypeOK, ManifestExact, AtMostOnce, NEW e \in Events,
           NEW todo \in SUBSET (Missing(e) \cup Separate[e]),
           NEW S \in SUBSET todo, RecordRun(e, todo, S)
    PROVE  ManifestExact' /\ AtMostOnce'
<1> USE DEF TypeOK
<1>1. /\ status' = [status EXCEPT ![e] = IF S = todo THEN "completed"
                                                     ELSE "failed"]
      /\ manifest' = [manifest EXCEPT ![e] = todo \ S]
      /\ effects' = [effects EXCEPT ![e] =
                       [h \in Handlers |-> effects[e][h]
                            + IF h \in S \ Separate[e] THEN 1 ELSE 0]]
  BY DEF RecordRun
<1>2. \A h \in Handlers :
        /\ effects[e][h] \in Nat
        /\ effects'[e][h] = effects[e][h]
                            + IF h \in S \ Separate[e] THEN 1 ELSE 0
  <2>1. effects'[e] = [h \in Handlers |-> effects[e][h]
                            + IF h \in S \ Separate[e] THEN 1 ELSE 0]
    BY <1>1
  <2>2. effects[e] \in [Handlers -> Nat]
    BY Zenon
  <2> QED BY <2>1, <2>2
<1>3. \A h \in S \ Separate[e] : h \in Handlers /\ effects[e][h] = 0
  BY DEF Missing
<1>4. AtMostOnce'
  <2> SUFFICES ASSUME NEW f \in Events, NEW h \in Handlers
               PROVE  effects'[f][h] <= 1
    BY DEF AtMostOnce
  <2>1. CASE f # e
    BY <2>1, <1>1 DEF AtMostOnce
  <2>2. CASE f = e
    <3>1. effects[e][h] <= 1 /\ (h \in S \ Separate[e] => effects[e][h] = 0)
      BY <1>3 DEF AtMostOnce
    <3> QED BY <2>2, <3>1, <1>2
  <2> QED BY <2>1, <2>2
<1>5. \A h \in Missing(e) \ S : h \in Missing(e)'
  BY <1>2 DEF Missing
<1>6. ManifestExact'
  <2> SUFFICES ASSUME NEW f \in Events,
                      status'[f] \in {"processing", "failed"}
               PROVE  /\ manifest'[f] # {}
                      /\ manifest'[f] \subseteq Missing(f)' \cup Separate[f]
    BY DEF ManifestExact
  <2>1. CASE f # e
    <3>1. /\ status'[f] = status[f] /\ manifest'[f] = manifest[f]
          /\ effects'[f] = effects[f]
      BY <2>1, <1>1
    <3>2. Missing(f)' = Missing(f)
      BY <3>1, Zenon DEF Missing
    <3> QED BY <3>1, <3>2 DEF ManifestExact
  <2>2. CASE f = e
    <3>1. manifest'[e] = todo \ S
      BY <1>1
    <3>2. S # todo
      BY <2>2, <1>1
    <3> QED BY <2>2, <3>1, <3>2, <1>5
  <2> QED BY <2>1, <2>2
<1> QED BY <1>4, <1>6

(* Steps that change no effects and no manifest.                           *)
LEMMA StatusMoveExact ==
    ASSUME ManifestExact, AtMostOnce, UNCHANGED <<manifest, effects>>,
           \A f \in Events :
              status'[f] \in {"processing", "failed"} =>
                  status[f] \in {"processing", "failed"}
    PROVE  ManifestExact' /\ AtMostOnce'
BY DEF ManifestExact, AtMostOnce, Missing

(* A first run adds each effect of its own to a row that had none.         *)
LEMMA FirstRunExact ==
    ASSUME ExactInv, NEW e \in Events, status[e] \in {"staged", "pending"},
           FirstRun(e)
    PROVE  ManifestExact' /\ AtMostOnce'
<1>1. Plan[e] \subseteq Missing(e) \cup Separate[e]
  BY DEF ExactInv, RowInv, NothingForgotten, Missing
<1>2. PICK S \in SUBSET Plan[e] : RecordRun(e, Plan[e], S)
  BY DEF FirstRun
<1> QED BY <1>1, <1>2, RecordRunExact DEF ExactInv, RowInv

(* What a retry is asked for is missing, or an owner command to replay.    *)
LEMMA RetryTodoExact ==
    ASSUME ExactInv, NEW e \in Events, e \in retrying
    PROVE  /\ status[e] = "processing"
           /\ retryNames # {}
           /\ RetryTodo(e) \subseteq Missing(e) \cup Separate[e]
           /\ Missing(e) \subseteq RetryTodo(e)
<1>1. status[e] = "processing" /\ retryNames = FailedHandlerNames(e)
  BY DEF ExactInv, RowInv, RetryInv, NoOverlap
<1>2. manifest[e] # {} /\ manifest[e] \subseteq Missing(e) \cup Separate[e]
  BY <1>1 DEF ExactInv, ManifestExact
<1>3. Missing(e) \subseteq retryNames /\ Missing(e) \subseteq Plan[e]
  BY <1>1 DEF ExactInv, RowInv, NothingForgotten, Missing
<1>4. retryNames = manifest[e]
  BY <1>1, <1>2 DEF FailedHandlerNames
<1> QED BY <1>1, <1>2, <1>3, <1>4 DEF RetryTodo

(* A retry adds effects only to handlers that the manifest still names.    *)
LEMMA RetryFinishExact ==
    ASSUME ExactInv, NEW e \in Events, RetryFinish(e)
    PROVE  ManifestExact' /\ AtMostOnce'
<1>1. RetryTodo(e) \subseteq Missing(e) \cup Separate[e]
  BY RetryTodoExact DEF RetryFinish
<1>2. PICK S \in SUBSET RetryTodo(e) : RecordRun(e, RetryTodo(e), S)
  BY DEF RetryFinish
<1> QED BY <1>1, <1>2, RecordRunExact DEF ExactInv, RowInv

(* An owner command takes effect where it had none.                        *)
LEMMA OwnerCommandExact ==
    ASSUME TypeOK, ManifestExact, AtMostOnce, NEW e \in Events,
           NEW h \in Separate[e], OwnerCommand(e, h)
    PROVE  ManifestExact' /\ AtMostOnce'
<1>0. h \in Handlers
  BY SeparateAssumption
<1>1. /\ effects' = [effects EXCEPT ![e][h] = 1]
      /\ status' = status /\ manifest' = manifest
  BY DEF OwnerCommand
<1>2. AtMostOnce'
  BY <1>0, <1>1 DEF AtMostOnce, TypeOK
<1>3. ASSUME NEW f \in Events
      PROVE  Missing(f) \subseteq Missing(f)' \cup Separate[f]
  BY <1>0, <1>1 DEF Missing, TypeOK
<1>4. ManifestExact'
  BY <1>1, <1>3 DEF ManifestExact
<1> QED BY <1>2, <1>4

(* Every step keeps ExactInv when retries are killed in time.              *)
LEMMA ExactInvStep ==
    ASSUME ~SlowRetries, ExactInv, [Next]_vars
    PROVE  ExactInv'
<1> USE DEF IsFirst, rowVars, dispatchVars, retryVars
<1>0. RowInv /\ ManifestExact /\ NoOverlap /\ AtMostOnce /\ TypeOK
      /\ QueueInv /\ MarkInv /\ OneOwner
  BY DEF ExactInv, RowInv
<1>1. ASSUME NEW e \in Events, Emit(e)
       PROVE  ManifestExact' /\ AtMostOnce' /\ NoOverlap'
  <2>1. ManifestExact' /\ AtMostOnce'
    BY <1>1, <1>0, StatusMoveExact DEF Emit, TypeOK
  <2>2. NoOverlap'
    BY <1>1, <1>0 DEF Emit, TypeOK, NoOverlap
  <2> QED BY <2>1, <2>2
<1>2. ASSUME NEW e \in Events, CallerCommit(e)
       PROVE  ManifestExact' /\ AtMostOnce' /\ NoOverlap'
  <2>1. ManifestExact' /\ AtMostOnce'
    BY <1>2, <1>0, StatusMoveExact DEF CallerCommit, TypeOK
  <2>2. NoOverlap'
    BY <1>2, <1>0 DEF CallerCommit, TypeOK, NoOverlap
  <2> QED BY <2>1, <2>2
<1>3. ASSUME NEW e \in Events, CallerCommitInline(e)
       PROVE  ManifestExact' /\ AtMostOnce' /\ NoOverlap'
  <2>1. status[e] \in {"staged", "pending"} /\ FirstRun(e)
    BY <1>3, <1>0 DEF CallerCommitInline, OneOwner
  <2>2. ManifestExact' /\ AtMostOnce'
    BY <2>1, FirstRunExact
  <2>3. NoOverlap'
    BY <1>3, <1>0, <2>1 DEF CallerCommitInline, FirstRun, RecordRun, TypeOK, NoOverlap
  <2> QED BY <2>2, <2>3
<1>4. ASSUME NEW e \in Events, CallerRollback(e)
       PROVE  ManifestExact' /\ AtMostOnce' /\ NoOverlap'
  <2>1. ManifestExact' /\ AtMostOnce'
    BY <1>4, <1>0, StatusMoveExact DEF CallerRollback, TypeOK
  <2>2. NoOverlap'
    BY <1>4, <1>0 DEF CallerRollback, TypeOK, NoOverlap
  <2> QED BY <2>1, <2>2
<1>5. ASSUME NEW e \in Events, CallbackClaim(e)
       PROVE  ManifestExact' /\ AtMostOnce' /\ NoOverlap'
  <2>1. ManifestExact' /\ AtMostOnce'
    BY <1>5, <1>0, StatusMoveExact DEF CallbackClaim
  <2>2. NoOverlap'
    BY <1>5, <1>0 DEF CallbackClaim, NoOverlap
  <2> QED BY <2>1, <2>2
<1>6. ASSUME NEW e \in Events, CallbackLost(e)
       PROVE  ManifestExact' /\ AtMostOnce' /\ NoOverlap'
  <2>1. ManifestExact' /\ AtMostOnce'
    BY <1>6, <1>0, StatusMoveExact DEF CallbackLost
  <2>2. NoOverlap'
    BY <1>6, <1>0 DEF CallbackLost, NoOverlap
  <2> QED BY <2>1, <2>2
<1>7. ASSUME NEW e \in Events, PeriodicVisit(e)
       PROVE  ManifestExact' /\ AtMostOnce' /\ NoOverlap'
  <2>1. ManifestExact' /\ AtMostOnce'
    BY <1>7, <1>0, StatusMoveExact DEF PeriodicVisit
  <2>2. NoOverlap'
    BY <1>7, <1>0 DEF PeriodicVisit, NoOverlap
  <2> QED BY <2>1, <2>2
<1>8. ASSUME NEW e \in Events, DispatchCommit(e)
       PROVE  ManifestExact' /\ AtMostOnce' /\ NoOverlap'
  <2>1. status[e] \in {"staged", "pending"} /\ FirstRun(e)
    BY <1>8, <1>0 DEF DispatchCommit, OneOwner
  <2>2. ManifestExact' /\ AtMostOnce'
    BY <2>1, FirstRunExact
  <2>3. NoOverlap'
    BY <1>8, <1>0, <2>1 DEF DispatchCommit, FirstRun, RecordRun, TypeOK, NoOverlap
  <2> QED BY <2>2, <2>3
<1>9. ASSUME NEW e \in Events, DispatchAbort(e)
       PROVE  ManifestExact' /\ AtMostOnce' /\ NoOverlap'
  <2>1. ManifestExact' /\ AtMostOnce'
    BY <1>9, <1>0, StatusMoveExact DEF DispatchAbort
  <2>2. NoOverlap'
    BY <1>9, <1>0 DEF DispatchAbort, NoOverlap
  <2> QED BY <2>1, <2>2
<1>10. ASSUME NEW e \in Events, RetryStart(e)
       PROVE  ManifestExact' /\ AtMostOnce' /\ NoOverlap'
  <2>1. ManifestExact' /\ AtMostOnce'
    BY <1>10, <1>0, StatusMoveExact DEF RetryStart, TypeOK, QueueInv
  <2>2. NoOverlap'
    BY <1>10, <1>0 DEF RetryStart, TypeOK, NoOverlap, QueueInv
  <2> QED BY <2>1, <2>2
<1>11. ASSUME NEW e \in Events, RetryFinish(e)
       PROVE  ManifestExact' /\ AtMostOnce' /\ NoOverlap'
  <2>1. ManifestExact' /\ AtMostOnce'
    BY <1>11, RetryFinishExact
  <2>2. NoOverlap'
    BY <1>11, <1>0 DEF RetryFinish, RecordRun, TypeOK, NoOverlap
  <2> QED BY <2>1, <2>2
<1>12. ASSUME NEW e \in Events, RetryAbort(e)
       PROVE  ManifestExact' /\ AtMostOnce' /\ NoOverlap'
  <2>1. ManifestExact' /\ AtMostOnce'
    BY <1>12, <1>0, StatusMoveExact DEF RetryAbort
  <2>2. NoOverlap'
    BY <1>12, <1>0 DEF RetryAbort, NoOverlap
  <2> QED BY <2>1, <2>2
<1>13. ASSUME NEW e \in Events, GrowOld(e)
       PROVE  ManifestExact' /\ AtMostOnce' /\ NoOverlap'
  <2>1. ManifestExact' /\ AtMostOnce'
    BY <1>13, <1>0, StatusMoveExact DEF GrowOld
  <2>2. NoOverlap'
    BY <1>13, <1>0 DEF GrowOld, NoOverlap
  <2> QED BY <2>1, <2>2
<1>14. ASSUME NEW e \in Events, GoStale(e)
       PROVE  ManifestExact' /\ AtMostOnce' /\ NoOverlap'
  <2>1. ManifestExact' /\ AtMostOnce'
    BY <1>14, <1>0, StatusMoveExact DEF GoStale
  <2>2. NoOverlap'
    BY <1>14, <1>0 DEF GoStale, NoOverlap
  <2> QED BY <2>1, <2>2
<1>15. ASSUME PeriodicList
       PROVE  ManifestExact' /\ AtMostOnce' /\ NoOverlap'
  <2>1. ManifestExact' /\ AtMostOnce'
    BY <1>15, <1>0, StatusMoveExact DEF PeriodicList
  <2>2. NoOverlap'
    BY <1>15, <1>0 DEF PeriodicList, NoOverlap
  <2> QED BY <2>1, <2>2
<1>16. ASSUME PeriodicDies
       PROVE  ManifestExact' /\ AtMostOnce' /\ NoOverlap'
  <2>1. ManifestExact' /\ AtMostOnce'
    BY <1>16, <1>0, StatusMoveExact DEF PeriodicDies
  <2>2. NoOverlap'
    BY <1>16, <1>0 DEF PeriodicDies, NoOverlap
  <2> QED BY <2>1, <2>2
<1>17. ASSUME RetryList
       PROVE  ManifestExact' /\ AtMostOnce' /\ NoOverlap'
  <2>1. ManifestExact' /\ AtMostOnce'
    BY <1>17, <1>0, StatusMoveExact DEF RetryList
  <2>2. NoOverlap'
    BY <1>17, <1>0 DEF RetryList, NoOverlap
  <2> QED BY <2>1, <2>2
<1>18. ASSUME StaleSelect
       PROVE  ManifestExact' /\ AtMostOnce' /\ NoOverlap'
  <2>1. ManifestExact' /\ AtMostOnce'
    BY <1>18, <1>0, StatusMoveExact DEF StaleSelect
  <2>2. NoOverlap'
    BY <1>18, <1>0 DEF StaleSelect, NoOverlap
  <2> QED BY <2>1, <2>2
<1>19. ASSUME StaleWrite
       PROVE  ManifestExact' /\ AtMostOnce' /\ NoOverlap'
  <2>1. ManifestExact' /\ AtMostOnce'
    BY <1>19, <1>0, StatusMoveExact DEF StaleWrite, TypeOK, NoOverlap
  <2>2. NoOverlap'
    BY <1>19, <1>0 DEF StaleWrite, TypeOK, NoOverlap
  <2> QED BY <2>1, <2>2
<1>20. ASSUME StaleAbort
       PROVE  ManifestExact' /\ AtMostOnce' /\ NoOverlap'
  <2>1. ManifestExact' /\ AtMostOnce'
    BY <1>20, <1>0, StatusMoveExact DEF StaleAbort
  <2>2. NoOverlap'
    BY <1>20, <1>0 DEF StaleAbort, NoOverlap
  <2> QED BY <2>1, <2>2
<1>21. ASSUME CleanupCompleted
       PROVE  ManifestExact' /\ AtMostOnce' /\ NoOverlap'
  <2>1. ManifestExact' /\ AtMostOnce'
    BY <1>21, <1>0, StatusMoveExact DEF CleanupCompleted, TypeOK
  <2>2. NoOverlap'
    BY <1>21, <1>0 DEF CleanupCompleted, TypeOK, NoOverlap
  <2> QED BY <2>1, <2>2
<1>22. ASSUME UNCHANGED vars
       PROVE  ManifestExact' /\ AtMostOnce' /\ NoOverlap'
  BY <1>22, <1>0, StatusMoveExact DEF vars, NoOverlap
<1>23. RowInv'
  BY <1>0, RowInvStep
<1>24. ASSUME NEW e \in Events, NEW h \in Separate[e], OwnerCommand(e, h)
       PROVE  ManifestExact' /\ AtMostOnce' /\ NoOverlap'
  <2>1. ManifestExact' /\ AtMostOnce'
    BY <1>24, <1>0, OwnerCommandExact
  <2>2. NoOverlap'
    BY <1>24, <1>0 DEF OwnerCommand, NoOverlap
  <2> QED BY <2>1, <2>2
<1> QED
  BY <1>1, <1>2, <1>3, <1>4, <1>5, <1>6, <1>7, <1>8, <1>9, <1>10, <1>11, <1>12, <1>13, <1>14, <1>15, <1>16, <1>17, <1>18, <1>19, <1>20, <1>21, <1>22, <1>23, <1>24 DEF Next, ExactInv

(* When Celery's task_time_limit is below stale_minutes, ExactInv holds.   *)
THEOREM ExactInvariant == ~SlowRetries => (Spec => []ExactInv)
<1> SUFFICES ASSUME ~SlowRetries PROVE Spec => []ExactInv
  OBVIOUS
<1>1. Init => ExactInv
  BY RowInvInit DEF Init, ExactInv, ManifestExact, NoOverlap, AtMostOnce
<1>2. ExactInv /\ [Next]_vars => ExactInv'
  BY ExactInvStep
<1> QED BY <1>1, <1>2, PTL DEF Spec

(* Then no handler's effect is committed twice ...                         *)
THEOREM ExactlyOnce == ~SlowRetries => (Spec => []AtMostOnce)
<1>1. ExactInv => AtMostOnce
  BY DEF ExactInv
<1> QED BY <1>1, ExactInvariant, PTL

(* ... and a completed event is never failed again.                        *)
THEOREM CompletedStays == ~SlowRetries => (Spec => CompletedIsFinal)
<1> SUFFICES ASSUME ~SlowRetries PROVE Spec => CompletedIsFinal
  OBVIOUS
<1>3. ASSUME ExactInv, [Next]_vars, NEW e \in Events, status[e] = "completed"
      PROVE  status'[e] \in {"completed", "purged"}
  <2> USE DEF rowVars, dispatchVars, retryVars
  <2>0. TypeOK /\ OneOwner /\ QueueInv /\ RetryInv /\ NoOverlap
    BY <1>3 DEF ExactInv, RowInv
  <2>1. ASSUME NEW f \in Events,
               Emit(f) \/ CallerCommit(f) \/ CallerCommitInline(f)
                 \/ CallerRollback(f) \/ DispatchCommit(f)
        PROVE  status'[e] \in {"completed", "purged"}
    BY <2>1, <2>0, <1>3 DEF Emit, CallerCommit, CallerCommitInline, FirstRun,
       RecordRun, CallerRollback, DispatchCommit, TypeOK, OneOwner
  <2>2. ASSUME NEW f \in Events,
               CallbackClaim(f) \/ CallbackLost(f) \/ PeriodicVisit(f)
                 \/ DispatchAbort(f) \/ RetryAbort(f) \/ GrowOld(f)
                 \/ GoStale(f) \/ PeriodicList \/ PeriodicDies \/ RetryList
                 \/ StaleSelect \/ StaleAbort
                 \/ \E h \in Separate[f] : OwnerCommand(f, h)
        PROVE  status'[e] \in {"completed", "purged"}
    BY <2>2, <1>3 DEF CallbackClaim, CallbackLost, PeriodicVisit,
       DispatchAbort, RetryAbort, GrowOld, GoStale, PeriodicList,
       PeriodicDies, RetryList, StaleSelect, StaleAbort, OwnerCommand
  <2>3. ASSUME NEW f \in Events, RetryStart(f) \/ RetryFinish(f)
        PROVE  status'[e] \in {"completed", "purged"}
    BY <2>3, <2>0, <1>3 DEF RetryStart, RetryFinish, RecordRun, TypeOK,
       IsFirst, QueueInv, NoOverlap
  <2>4. ASSUME StaleWrite \/ CleanupCompleted
        PROVE  status'[e] \in {"completed", "purged"}
    BY <2>4, <2>0, <1>3 DEF StaleWrite, CleanupCompleted, NoOverlap
  <2> QED BY <1>3, <2>1, <2>2, <2>3, <2>4 DEF Next, vars
<1>4. ExactInv /\ [Next]_vars =>
        [\A e \in Events : status[e] = "completed" =>
                             status'[e] \in {"completed", "purged"}]_vars
  BY <1>3
<1>5. Spec => []ExactInv
  BY ExactInvariant
<1> QED BY <1>4, <1>5, PTL DEF Spec, CompletedIsFinal

-----------------------------------------------------------------------------
(* The abstract specification.                                             *)

(* A recorded run of a row that is, or now becomes, accepted delivers what *)
(* the handlers in S wrote through the dispatcher's session.               *)
LEMMA RunTakesEffect ==
    ASSUME ExactInv, NEW e \in Events,
           NEW todo \in SUBSET (Missing(e) \cup Separate[e]),
           NEW S \in SUBSET todo, NEW recovered \in SUBSET Plan[e],
           \A h \in recovered : effects[e][h] > 0,
           RunOutcome(e, recovered, S), RecordRun(e, todo, S)
    PROVE  Delivery!TakeEffect(e, S \ Separate[e])
<1> DEFINE D == S \ Separate[e]
<1>0. TypeOK
  BY DEF ExactInv, RowInv
<1>1. /\ effects' = [effects EXCEPT ![e] =
                    [h \in Handlers |-> effects[e][h]
                         + IF h \in D THEN 1 ELSE 0]]
      /\ \A h \in S \cap Separate[e] : effects[e][h] > 0
  BY DEF RecordRun
<1>2. \A h \in D : h \in Handlers /\ effects[e][h] = 0
  BY DEF Missing
<1>3. \A h \in Handlers : effects[e][h] \in Nat
  BY <1>0 DEF TypeOK
<1>4. [h \in Handlers |-> effects[e][h] + IF h \in D THEN 1 ELSE 0]
      = [h \in Handlers |-> IF h \in D THEN 1 ELSE effects[e][h]]
  BY <1>2, <1>3
<1>5. D \cap Delivery!Done(e) = {}
  BY <1>2 DEF Delivery!Done
<1>6. \A h \in D : Deps[e][h] \subseteq Delivery!Done(e) \cup D
  <2> SUFFICES ASSUME NEW h \in D, NEW d \in Deps[e][h]
               PROVE  d \in Delivery!Done(e) \cup D
    OBVIOUS
  <2>1. d \in recovered \cup S /\ d \in Handlers
    BY <1>2 DEF RunOutcome
  <2>2. CASE d \in D
    BY <2>2
  <2>3. CASE d \notin D
    <3>1. effects[e][d] > 0
      BY <2>1, <2>3, <1>1
    <3> QED BY <3>1, <2>1 DEF Delivery!Done
  <2> QED BY <2>2, <2>3
<1> QED BY <1>1, <1>4, <1>5, <1>6 DEF Delivery!TakeEffect

(* Steps that commit no handler effect and neither accept nor retire.      *)
LEMMA InvisibleStep ==
    ASSUME UNCHANGED effects,
           \A f \in Events :
              \/ status'[f] = status[f]
              \/ /\ status[f] \in {"absent", "staged"}
                 /\ status'[f] \in {"absent", "staged"}
              \/ /\ status[f] \in {"pending", "processing", "failed", "completed"}
                 /\ status'[f] \in {"pending", "processing", "failed", "completed"}
    PROVE  UNCHANGED Delivery!vars
<1>1. Accepted' = Accepted
  BY DEF Accepted
<1> QED BY <1>1 DEF Delivery!vars

(* The row of e moves, no other does.                                      *)
LEMMA RunMovesAccepted ==
    ASSUME TypeOK, NEW e \in Events, NEW todo, NEW S, RecordRun(e, todo, S)
    PROVE  Accepted' = [Accepted EXCEPT ![e] = "yes"]
BY DEF TypeOK, RecordRun, Accepted

(* Every step of the outbox is a step of EventDelivery or invisible to it. *)
LEMMA DeliveryStep ==
    ASSUME ~SlowRetries, ExactInv, [Next]_vars
    PROVE  [Delivery!Next]_(Delivery!vars)
<1> USE DEF rowVars, dispatchVars, retryVars
<1>0. /\ TypeOK /\ OneOwner /\ QueueInv /\ RetryInv /\ NoOverlap
      /\ NothingForgotten /\ ManifestExact
  BY DEF ExactInv, RowInv
<1>1. ASSUME NEW e \in Events, CallerCommit(e)
      PROVE  Delivery!Next
  <2>1. Accepted[e] = "no" /\ Accepted' = [Accepted EXCEPT ![e] = "yes"]
    BY <1>1, <1>0 DEF CallerCommit, TypeOK, Accepted
  <2>2. effects' = [effects EXCEPT ![e] =
                      [h \in Handlers |-> IF h \in {} THEN 1 ELSE effects[e][h]]]
    BY <1>1, <1>0 DEF CallerCommit, TypeOK
  <2>3. Delivery!TakeEffect(e, {})
    BY <2>2 DEF Delivery!TakeEffect
  <2>4. Delivery!Accept(e, {})
    BY <2>1, <2>3 DEF Delivery!Accept
  <2>5. {} \in SUBSET Plan[e]
    OBVIOUS
  <2> QED BY <2>4, <2>5 DEF Delivery!Next
<1>2. ASSUME NEW e \in Events, CallerCommitInline(e) \/ DispatchCommit(e)
      PROVE  Delivery!Next
  <2>1. status[e] \in {"staged", "pending"} /\ FirstRun(e)
    BY <1>2, <1>0 DEF CallerCommitInline, DispatchCommit, OneOwner
  <2>2. PICK S \in SUBSET Plan[e] :
          RunOutcome(e, {}, S) /\ RecordRun(e, Plan[e], S)
    BY <2>1 DEF FirstRun
  <2> DEFINE D == S \ Separate[e]
  <2>3. Plan[e] \subseteq Missing(e) \cup Separate[e]
    BY <2>1, <1>0 DEF NothingForgotten, Missing
  <2>4. Delivery!TakeEffect(e, D) /\ D \in SUBSET Plan[e]
    BY <2>2, <2>3, RunTakesEffect
  <2>5. Accepted' = [Accepted EXCEPT ![e] = "yes"]
    BY <2>2, <1>0, RunMovesAccepted
  <2>6. CASE status[e] = "staged"
    <3>1. Accepted[e] = "no"
      BY <2>6 DEF Accepted
    <3>2. Delivery!Accept(e, D)
      BY <3>1, <2>4, <2>5 DEF Delivery!Accept
    <3> HIDE DEF D
    <3> QED BY <3>2, <2>4 DEF Delivery!Next
  <2>7. CASE status[e] = "pending"
    <3>1. Accepted[e] = "yes" /\ Accepted' = Accepted
      BY <2>5, <2>7 DEF Accepted
    <3>2. Delivery!Deliver(e, D)
      BY <3>1, <2>4 DEF Delivery!Deliver
    <3> HIDE DEF D
    <3> QED BY <3>2, <2>4 DEF Delivery!Next
  <2> QED BY <2>1, <2>6, <2>7
<1>3. ASSUME NEW e \in Events, RetryFinish(e)
      PROVE  Delivery!Next
  <2>1. /\ status[e] = "processing" /\ retryNames # {}
        /\ RetryTodo(e) \subseteq Missing(e) \cup Separate[e]
        /\ Missing(e) \subseteq RetryTodo(e)
    BY <1>3, RetryTodoExact DEF RetryFinish
  <2>2. PICK S \in SUBSET RetryTodo(e) :
          RunOutcome(e, RetryRecovered(e), S) /\ RecordRun(e, RetryTodo(e), S)
    BY <1>3 DEF RetryFinish
  <2> DEFINE D == S \ Separate[e]
  <2>3. RetryRecovered(e) \subseteq Plan[e]
        /\ \A h \in RetryRecovered(e) : effects[e][h] > 0
    <3>1. ASSUME NEW h \in RetryRecovered(e)
          PROVE  h \in Plan[e] /\ h \notin Missing(e) /\ h \in Handlers
      BY <2>1 DEF RetryRecovered, RetryTodo
    <3> QED BY <3>1, <1>0 DEF Missing, TypeOK
  <2>4. Delivery!TakeEffect(e, D)
    BY <2>1, <2>2, <2>3, RunTakesEffect
  <2>5. D \in SUBSET Plan[e]
    BY <2>1 DEF RetryTodo
  <2>6. Accepted[e] = "yes" /\ Accepted' = Accepted
    BY <2>1, <2>2, <1>0, RunMovesAccepted DEF Accepted
  <2>7. Delivery!Deliver(e, D)
    BY <2>4, <2>6 DEF Delivery!Deliver
  <2> HIDE DEF D
  <2> QED BY <2>5, <2>7 DEF Delivery!Next
<1>4. ASSUME CleanupCompleted
      PROVE  Delivery!Next
  <2> DEFINE R == {e \in Events : status[e] = "completed" /\ age[e] = "ancient"}
  <2>1. /\ status' = [e \in Events |-> IF e \in R THEN "purged" ELSE status[e]]
        /\ effects' = effects
    BY <1>4 DEF CleanupCompleted
  <2>2. Accepted' = [e \in Events |-> IF e \in R THEN "retired" ELSE Accepted[e]]
    BY <2>1 DEF Accepted
  <2>3. ASSUME NEW e \in R
        PROVE  Accepted[e] = "yes" /\ Plan[e] \subseteq Delivery!Done(e)
    BY <1>0 DEF NothingForgotten, Missing, TypeOK, Delivery!Done, Accepted
  <2>4. R \in SUBSET Events
    OBVIOUS
  <2> HIDE DEF R
  <2>5. Delivery!Retire(R)
    BY <2>1, <2>2, <2>3 DEF Delivery!Retire
  <2> QED BY <2>4, <2>5 DEF Delivery!Next
<1>5. ASSUME NEW e \in Events,
             Emit(e) \/ CallerRollback(e) \/ RetryStart(e)
      PROVE  UNCHANGED Delivery!vars
  BY <1>5, <1>0, InvisibleStep DEF Emit, CallerRollback, RetryStart, IsFirst,
     QueueInv, TypeOK
<1>6. ASSUME StaleWrite
      PROVE  UNCHANGED Delivery!vars
  BY <1>6, <1>0, InvisibleStep DEF StaleWrite, NoOverlap
<1>7. ASSUME NEW e \in Events,
             CallbackClaim(e) \/ CallbackLost(e) \/ PeriodicVisit(e)
               \/ DispatchAbort(e) \/ RetryAbort(e) \/ GrowOld(e) \/ GoStale(e)
      PROVE  UNCHANGED Delivery!vars
  BY <1>7, InvisibleStep DEF CallbackClaim, CallbackLost, PeriodicVisit,
     DispatchAbort, RetryAbort, GrowOld, GoStale
<1>8. ASSUME PeriodicList \/ PeriodicDies \/ RetryList \/ StaleSelect
               \/ StaleAbort \/ UNCHANGED vars
      PROVE  UNCHANGED Delivery!vars
  BY <1>8, InvisibleStep DEF PeriodicList, PeriodicDies, RetryList,
     StaleSelect, StaleAbort, vars
<1>9. ASSUME NEW e \in Events, NEW h \in Separate[e], OwnerCommand(e, h)
      PROVE  Delivery!Next
  <2>0. h \in Handlers /\ Deps[e][h] = {} /\ {h} \in SUBSET Plan[e]
    BY SeparateAssumption
  <2>1. status[e] \in {"pending", "processing", "failed"}
    BY <1>9, <1>0 DEF OwnerCommand, OneOwner, RetryInv
  <2>2. Accepted[e] = "yes" /\ Accepted' = Accepted
    BY <1>9, <2>1 DEF OwnerCommand, Accepted
  <2>3. effects[e][h] = 0 /\ effects' = [effects EXCEPT ![e][h] = 1]
    BY <1>9 DEF OwnerCommand
  <2>4. effects' = [effects EXCEPT ![e] =
                      [g \in Handlers |-> IF g \in {h} THEN 1 ELSE effects[e][g]]]
    BY <2>0, <2>3, <1>0 DEF TypeOK
  <2>5. Delivery!TakeEffect(e, {h})
    <3>1. {h} \cap Delivery!Done(e) = {}
      BY <2>3 DEF Delivery!Done
    <3>2. \A g \in {h} : Deps[e][g] \subseteq Delivery!Done(e) \cup {h}
      BY <2>0
    <3> QED BY <3>1, <3>2, <2>4 DEF Delivery!TakeEffect
  <2>6. Delivery!Deliver(e, {h})
    BY <2>2, <2>5 DEF Delivery!Deliver
  <2> QED BY <2>0, <2>6 DEF Delivery!Next
<1> QED BY <1>1, <1>2, <1>3, <1>4, <1>5, <1>6, <1>7, <1>8, <1>9 DEF Next

(* The outbox implements EventDelivery: emitted with the caller's commit,  *)
(* every handler once and in dependency order, dropped only when complete. *)
THEOREM Refinement == ~SlowRetries => (Spec => ImplementsDelivery)
<1> SUFFICES ASSUME ~SlowRetries PROVE Spec => ImplementsDelivery
  OBVIOUS
<1>1. Init => Delivery!Init
  BY DEF Init, Delivery!Init, Accepted
<1>2. ExactInv /\ [Next]_vars => [Delivery!Next]_(Delivery!vars)
  BY DeliveryStep
<1>3. Spec => []ExactInv
  BY ExactInvariant
<1> QED BY <1>1, <1>2, <1>3, PTL DEF Spec, Delivery!Spec, ImplementsDelivery
==============================================================================
