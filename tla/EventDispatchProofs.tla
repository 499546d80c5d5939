------------------------- MODULE EventDispatchProofs -------------------------
(***************************************************************************)
(* Proofs about EventDispatch for the production handler tables and any    *)
(* number of retries.  First the plan: PlanBefore is a strict total order  *)
(* of the handlers of an event, so every position of the plan holds        *)
(* exactly one handler, and what a handler waits for comes before it.      *)
(* Then the loop: LoopInv accounts for every handler the loop has passed.  *)
(***************************************************************************)
EXTENDS EventDispatch, FiniteSetTheorems, TLAPS

Below(t, h) == {g \in Applicable(t) : PlanBefore(g, h)}
Rank(t, h) == Cardinality(Below(t, h))

(* What this run was asked to do, what earlier runs have done, and the     *)
(* handlers the loop is past.                                              *)
Todo == IF manifest = {} THEN Applicable(type) ELSE manifest
Before == Applicable(type) \ Todo
Passed == {h \in Applicable(type) : Rank(type, h) + 1 < step}

(* Every handler passed is in exactly one of the three sets.               *)
AccountInv ==
    /\ succeeded \cup raised \cup blocked = Before \cup (Passed \cap Todo)
    /\ Before \subseteq succeeded
    /\ succeeded \cap (raised \cup blocked) = {}
    /\ raised \cap blocked = {}

(* No effect is kept before the effects it waits for.                      *)
ClosedInv == \A h \in succeeded : Dependencies(type, h) \subseteq succeeded

EffectInv == \A h \in Handlers : attempts[h] = IF h \in succeeded THEN 1 ELSE 0

(* Somebody raised before somebody was blocked.                            *)
BlockInv ==
    /\ blocked # {} => raised # {}
    /\ FanoutIsolation

EndInv ==
    status # "processing" =>
        /\ step > PlanLength(type)
        /\ status = "failed" <=> raised \cup blocked # {}

LoopInv ==
    /\ TypeOK
    /\ AccountInv
    /\ ClosedInv
    /\ EffectInv
    /\ BlockInv
    /\ EndInv

-----------------------------------------------------------------------------
(* The tables.                                                             *)

(* The registered handlers.                                                *)
LEMMA HandlerNames ==
    Handlers = { "LifecycleHandler", "ArrangementHandler",
                 "SubscriptionChangeExecutionHandler", "ReferralHandler",
                 "ProvisioningHandler", "IdentityLifecycleProjectionHandler",
                 "SalesLifecycleProjectionHandler",
                 "BillingLifecycleProjectionHandler", "PrepaidRenewalHandler",
                 "SupportLifecycleProjectionHandler", "EnforcementHandler",
                 "NotificationHandler", "SurveyTriggerHandler",
                 "WebhookHandler" }
  BY DEF Handlers, HANDLER_CONTROLS

(* The sort key of each handler.                                           *)
Key(h) == <<HANDLER_CONTROLS[h].stage, HANDLER_CONTROLS[h].order,
            HANDLER_CONTROLS[h].reg>>

(* The keys of the production table.                                       *)
LEMMA HandlerKeys ==
    /\ Key("LifecycleHandler") = <<10, 10, 2>>
    /\ Key("ArrangementHandler") = <<10, 20, 15>>
    /\ Key("SubscriptionChangeExecutionHandler") = <<10, 25, 16>>
    /\ Key("ReferralHandler") = <<10, 30, 17>>
    /\ Key("ProvisioningHandler") = <<10, 40, 4>>
    /\ Key("IdentityLifecycleProjectionHandler") = <<10, 44, 11>>
    /\ Key("SalesLifecycleProjectionHandler") = <<10, 45, 5>>
    /\ Key("BillingLifecycleProjectionHandler") = <<10, 47, 6>>
    /\ Key("PrepaidRenewalHandler") = <<10, 47, 18>>
    /\ Key("SupportLifecycleProjectionHandler") = <<10, 48, 8>>
    /\ Key("EnforcementHandler") = <<10, 50, 12>>
    /\ Key("NotificationHandler") = <<20, 10, 3>>
    /\ Key("SurveyTriggerHandler") = <<20, 15, 9>>
    /\ Key("WebhookHandler") = <<30, 10, 1>>
  BY DEF Key, HANDLER_CONTROLS, StateStage, CommunicationStage, ExternalStage

(* Handlers are registered at different positions.                         *)
LEMMA KeysDiffer ==
    /\ \A h \in Handlers : /\ HANDLER_CONTROLS[h].stage \in Nat
                           /\ HANDLER_CONTROLS[h].order \in Nat
                           /\ HANDLER_CONTROLS[h].reg \in Nat
    /\ \A g, h \in Handlers :
           HANDLER_CONTROLS[g].reg = HANDLER_CONTROLS[h].reg => g = h
<1>1. \A h \in Handlers : /\ Key(h)[1] = HANDLER_CONTROLS[h].stage
                          /\ Key(h)[2] = HANDLER_CONTROLS[h].order
                          /\ Key(h)[3] = HANDLER_CONTROLS[h].reg
  BY DEF Key
<1>2. \A h \in Handlers : Key(h)[1] \in Nat /\ Key(h)[2] \in Nat /\ Key(h)[3] \in Nat
  BY HandlerNames, HandlerKeys
<1>3. \A g, h \in Handlers : Key(g)[3] = Key(h)[3] => g = h
  BY HandlerNames, HandlerKeys
<1>4. QED
  BY <1>1, <1>2, <1>3

(* PlanBefore is a strict total order.                                     *)
LEMMA PlanOrder ==
    /\ \A h \in Handlers : ~PlanBefore(h, h)
    /\ \A f, g, h \in Handlers : PlanBefore(f, g) /\ PlanBefore(g, h) => PlanBefore(f, h)
    /\ \A g, h \in Handlers : g = h \/ PlanBefore(g, h) \/ PlanBefore(h, g)
  BY KeysDiffer DEF PlanBefore

(* Initial segments of the numbers.                                        *)
LEMMA SegmentSize ==
    \A n \in Nat : /\ IsFiniteSet(1..n)
                   /\ IsFiniteSet(0..(n - 1)) /\ Cardinality(0..(n - 1)) = n
<1>1. SUFFICES ASSUME NEW n \in Nat
               PROVE  /\ IsFiniteSet(1..n)
                      /\ IsFiniteSet(0..(n - 1)) /\ Cardinality(0..(n - 1)) = n
  OBVIOUS
<1>2. \A a, b \in Int : /\ IsFiniteSet(a..b)
                        /\ Cardinality(a..b) = IF a > b THEN 0 ELSE b - a + 1
  BY FS_Interval
<1>3. 0 \in Int /\ 1 \in Int /\ n \in Int /\ n - 1 \in Int
  OBVIOUS
<1>4. (IF 0 > n - 1 THEN 0 ELSE n - 1 - 0 + 1) = n
  OBVIOUS
<1>5. QED
  BY <1>2, <1>3, <1>4

(* An event has finitely many handlers.                                    *)
LEMMA ApplicableHandlers ==
    ASSUME NEW t
    PROVE  /\ Applicable(t) \subseteq Handlers
           /\ IsFiniteSet(Applicable(t))
           /\ PlanLength(t) \in Nat
<1>1. Applicable(t) \in SUBSET Handlers
  BY DEF Applicable
<1>2. IsFiniteSet(Handlers)
  <2> DEFINE reg == [h \in Handlers |-> Key(h)[3]]
  <2>1. \A h \in Handlers : Key(h)[3] \in 1..18
    BY HandlerNames, HandlerKeys
  <2>2. \A g, h \in Handlers : Key(g)[3] = Key(h)[3] => g = h
    BY KeysDiffer DEF Key
  <2>3. reg \in Injection(Handlers, 1..18)
    BY <2>1, <2>2 DEF Injection, IsInjective
  <2>4. IsFiniteSet(1..18)
    BY SegmentSize
  <2>5. QED
    BY <2>3, <2>4, FS_Injection
<1>3. QED
  BY <1>1, <1>2, FS_Subset, FS_CardinalityType DEF PlanLength

(* Rank numbers the handlers of an event from 0 in the order of the plan.  *)
LEMMA RankOrders ==
    ASSUME NEW t
    PROVE  /\ \A h \in Applicable(t) : Rank(t, h) \in 0..(PlanLength(t) - 1)
           /\ \A g, h \in Applicable(t) : PlanBefore(g, h) => Rank(t, g) < Rank(t, h)
           /\ \A g, h \in Applicable(t) : Rank(t, g) = Rank(t, h) => g = h
<1>1. /\ Applicable(t) \subseteq Handlers /\ IsFiniteSet(Applicable(t))
      /\ PlanLength(t) \in Nat
  BY ApplicableHandlers
<1>2. \A h : Below(t, h) \in SUBSET Applicable(t)
  BY DEF Below
<1>3. \A h : IsFiniteSet(Below(t, h)) /\ Rank(t, h) \in Nat
  BY <1>1, <1>2, FS_Subset, FS_CardinalityType DEF Rank
<1>4. ASSUME NEW h \in Applicable(t)
      PROVE  Rank(t, h) < PlanLength(t)
  <2>1. h \notin Below(t, h)
    BY <1>1, PlanOrder DEF Below
  <2>2. /\ Cardinality(Below(t, h)) <= Cardinality(Applicable(t))
        /\ Cardinality(Applicable(t)) # Cardinality(Below(t, h))
    BY <1>1, <1>2, <2>1, FS_Subset
  <2>3. QED
    BY <1>1, <1>3, <2>2 DEF Rank, PlanLength
<1>5. ASSUME NEW g \in Applicable(t), NEW h \in Applicable(t), PlanBefore(g, h)
      PROVE  Rank(t, g) < Rank(t, h)
  <2>1. g \in Below(t, h) /\ g \notin Below(t, g)
    BY <1>1, <1>5, PlanOrder DEF Below
  <2>2. Below(t, g) \in SUBSET Below(t, h)
    BY <1>1, <1>5, PlanOrder DEF Below
  <2>3. /\ Cardinality(Below(t, g)) <= Cardinality(Below(t, h))
        /\ Cardinality(Below(t, h)) # Cardinality(Below(t, g))
    BY <1>3, <2>1, <2>2, FS_Subset
  <2>4. QED
    BY <1>3, <2>3 DEF Rank
<1>6. ASSUME NEW g \in Applicable(t), NEW h \in Applicable(t),
             Rank(t, g) = Rank(t, h)
      PROVE  g = h
  <2>1. g = h \/ PlanBefore(g, h) \/ PlanBefore(h, g)
    BY <1>1, PlanOrder
  <2>2. QED
    BY <1>3, <1>5, <1>6, <2>1
<1>7. QED
  BY <1>1, <1>3, <1>4, <1>5, <1>6

(* Every position of the plan holds the handler of that rank: the CHOOSE   *)
(* of PlanStep always finds one.                                           *)
LEMMA PlanPositions ==
    ASSUME NEW t, NEW n \in 1..PlanLength(t)
    PROVE  PlanStep(t, n) \in Applicable(t) /\ Rank(t, PlanStep(t, n)) = n - 1
<1> DEFINE A == Applicable(t)
           T == 0..(PlanLength(t) - 1)
           rank == [h \in A |-> Rank(t, h)]
<1>1. IsFiniteSet(A) /\ PlanLength(t) \in Nat /\ Cardinality(A) = PlanLength(t)
  BY ApplicableHandlers DEF PlanLength
<1>2. rank \in Injection(A, T)
  BY RankOrders DEF Injection, IsInjective
<1>3. IsFiniteSet(T) /\ Cardinality(T) = PlanLength(t)
  BY <1>1, SegmentSize
<1>4. rank \in Surjection(A, T)
  <2> HIDE DEF A, T, rank
  <2>1. QED
    BY <1>1, <1>2, <1>3, FS_Injection
<1>5. PICK h \in A : rank[h] = n - 1
  <2>1. n - 1 \in T
    BY <1>1
  <2> HIDE DEF A, T, rank
  <2>2. QED
    BY <1>4, <2>1 DEF Surjection
<1>6. Cardinality({g \in A : PlanBefore(g, h)}) = n - 1
  BY <1>5 DEF Rank, Below
<1>7. /\ PlanStep(t, n) \in A
      /\ Cardinality({g \in A : PlanBefore(g, PlanStep(t, n))}) = n - 1
  BY <1>5, <1>6 DEF PlanStep
<1>8. QED
  BY <1>7 DEF Rank, Below

(* What a handler waits for comes before it in the plan: start-up          *)
(* validation refuses cycles, the production tables also agree with the    *)
(* order the loop runs in.                                                 *)
LEMMA DependenciesComeFirst ==
    ASSUME NEW t, NEW h \in Applicable(t), NEW d \in Dependencies(t, h)
    PROVE  d \in Applicable(t) /\ PlanBefore(d, h)
<1>1. d \in Applicable(t) /\ d \in Handlers /\ h \in Handlers
  BY ApplicableHandlers DEF Dependencies
<1>2. CASE HANDLER_CONTROLS[d].stage < HANDLER_CONTROLS[h].stage
  BY <1>1, <1>2 DEF PlanBefore
<1>3. CASE d \in EVENT_HANDLER_DEPENDENCIES(t, h)
  <2>1. /\ h = "EnforcementHandler"
        /\ d \in {"PrepaidRenewalHandler", "ProvisioningHandler"}
    BY <1>3 DEF EVENT_HANDLER_DEPENDENCIES
  <2>2. Key(d)[1] = Key(h)[1] /\ Key(d)[2] < Key(h)[2]
    BY <2>1, HandlerKeys
  <2>3. QED
    BY <1>1, <2>2 DEF Key, PlanBefore
<1>4. QED
  BY <1>1, <1>2, <1>3 DEF Dependencies

(* In a fan-out event only one handler waits, and for one other.           *)
LEMMA FanoutDependencies ==
    ASSUME NEW t \in EventTypes \ CHAINED_EVENT_TYPES, NEW h,
           Dependencies(t, h) # {}
    PROVE  h = "EnforcementHandler" /\ Dependencies(t, h) = {"PrepaidRenewalHandler"}
<1>1. PICK d : d \in Dependencies(t, h)
  OBVIOUS
<1>2. Dependencies(t, h) \subseteq EVENT_HANDLER_DEPENDENCIES(t, h)
  BY DEF Dependencies
<1>3. t \in FanoutEventTypes
  BY DEF EventTypes
<1>4. /\ h = "EnforcementHandler"
      /\ EVENT_HANDLER_DEPENDENCIES(t, h) = {"PrepaidRenewalHandler"}
  BY <1>1, <1>2, <1>3 DEF EVENT_HANDLER_DEPENDENCIES, FanoutEventTypes
<1>5. QED
  BY <1>1, <1>2, <1>4

-----------------------------------------------------------------------------
(* One position of the loop: the handler there has not been passed, all it *)
(* waits for has been, and stepping on passes it and no other.             *)
LEMMA LoopPosition ==
    ASSUME TypeOK, Running
    PROVE  /\ Current \in Applicable(type) /\ Current \in Handlers
           /\ Current \notin Passed
           /\ Dependencies(type, Current) \subseteq Passed
           /\ Passed \cup {Current} =
                  {h \in Applicable(type) : Rank(type, h) + 1 < step + 1}
           /\ step + 1 \in 1..(PlanLength(type) + 1)
<1>1. /\ PlanLength(type) \in Nat /\ step \in 1..PlanLength(type)
      /\ Applicable(type) \subseteq Handlers
  BY ApplicableHandlers DEF TypeOK, Running
<1>2. Current \in Applicable(type) /\ Rank(type, Current) = step - 1
  BY <1>1, PlanPositions DEF Current
<1>3. \A h \in Applicable(type) : Rank(type, h) \in Nat
  BY RankOrders
<1>4. Current \notin Passed
  BY <1>1, <1>2 DEF Passed
<1>5. Dependencies(type, Current) \subseteq Passed
  BY <1>1, <1>2, <1>3, DependenciesComeFirst, RankOrders DEF Passed
<1>6. Passed \cup {Current} =
          {h \in Applicable(type) : Rank(type, h) + 1 < step + 1}
  <2>1. ASSUME NEW h \in Applicable(type)
        PROVE  Rank(type, h) + 1 < step + 1 <=>
                   Rank(type, h) + 1 < step \/ h = Current
    BY <1>1, <1>2, <1>3, RankOrders
  <2>2. QED
    BY <1>2, <2>1 DEF Passed
<1>7. QED
  BY <1>1, <1>2, <1>4, <1>5, <1>6

(* At the end of the plan every handler has been passed.                   *)
LEMMA AllPassed ==
    ASSUME TypeOK, step > PlanLength(type)
    PROVE  Passed = Applicable(type)
<1>1. PlanLength(type) \in Nat /\ step = PlanLength(type) + 1
  BY ApplicableHandlers DEF TypeOK
<1>2. \A h \in Applicable(type) : Rank(type, h) \in 0..(PlanLength(type) - 1)
  BY RankOrders
<1>3. QED
  BY <1>1, <1>2 DEF Passed

(* A handler that has to wait found one of its prerequisites failed.       *)
LEMMA UnmetFailed ==
    ASSUME LoopInv, Running, Unmet # {}
    PROVE  Unmet \cap (raised \cup blocked) # {}
<1>1. PICK d : d \in Dependencies(type, Current) /\ d \notin succeeded
  BY DEF Unmet
<1>2. d \in Passed /\ d \in Applicable(type)
  BY <1>1, LoopPosition DEF LoopInv, Passed
<1>3. d \in Todo
  BY <1>1, <1>2 DEF LoopInv, AccountInv, Before
<1>4. d \in raised \cup blocked
  BY <1>1, <1>2, <1>3 DEF LoopInv, AccountInv
<1>5. QED
  BY <1>1, <1>4 DEF Unmet

(* What the four steps of the loop have in common.                         *)
Passes ==
    /\ Running
    /\ step' = step + 1
    /\ UNCHANGED <<type, retry, manifest, status>>

(* Whichever of the four it is, the loop passes the current handler.       *)
LEMMA PassingOn ==
    ASSUME LoopInv, Passes
    PROVE  /\ Passed' = Passed \cup {Current}
           /\ Todo' = Todo /\ Before' = Before
           /\ EndInv'
           /\ Current \in Applicable(type) /\ Current \in Handlers
           /\ Current \notin Passed
           /\ Selected <=> Current \in Todo
           /\ type \in EventTypes /\ retry' \in 0..MaxRetries
           /\ manifest' \subseteq Applicable(type)
           /\ step' \in 1..(PlanLength(type) + 1)
           /\ status' \in {"processing", "completed", "failed"}
<1>1. TypeOK /\ Running
  BY DEF LoopInv, Passes
<1>2. Passed' = {h \in Applicable(type) : Rank(type, h) + 1 < step + 1}
  BY DEF Passes, Passed
<1>3. Todo' = Todo /\ Before' = Before
  BY DEF Passes, Todo, Before
<1>4. EndInv'
  BY DEF Passes, Running, EndInv
<1>5. Selected <=> Current \in Todo
  BY <1>1, LoopPosition DEF Selected, Todo
<1>6. QED
  BY <1>1, <1>2, <1>3, <1>4, <1>5, LoopPosition DEF Passes, TypeOK

(* A recovered handler is not in Todo: passing it changes no account.      *)
LEMMA SkipKeeps ==
    ASSUME LoopInv, SkipRecovered
    PROVE  LoopInv'
<1>1. Passes /\ UNCHANGED <<type, succeeded, raised, blocked, attempts>>
  BY DEF SkipRecovered, Passes
<1>2. Passed' \cap Todo' = Passed \cap Todo
  BY <1>1, PassingOn DEF SkipRecovered
<1>3. AccountInv'
  BY <1>1, <1>2, PassingOn DEF LoopInv, AccountInv
<1>4. TypeOK'
  BY <1>1, PassingOn DEF LoopInv, TypeOK
<1>5. ClosedInv' /\ EffectInv' /\ BlockInv'
  BY <1>1 DEF LoopInv, ClosedInv, EffectInv, BlockInv, FanoutIsolation
<1>6. QED
  BY <1>1, <1>3, <1>4, <1>5, PassingOn DEF LoopInv

(* A blocked handler is behind one that raised.                            *)
LEMMA BlockKeeps ==
    ASSUME LoopInv, Block
    PROVE  LoopInv'
<1>1. /\ Passes /\ UNCHANGED <<type, succeeded, raised, attempts>>
      /\ blocked' = blocked \cup {Current}
      /\ Selected /\ Unmet # {} /\ Running
  BY DEF Block, Passes
<1>2. /\ Passed' \cap Todo' = (Passed \cap Todo) \cup {Current}
      /\ Current \notin succeeded \cup raised \cup blocked
  BY <1>1, PassingOn DEF LoopInv, AccountInv, Before
<1>3. AccountInv'
  <2>1. succeeded \cup raised \cup blocked' = Before \cup (Passed' \cap Todo')
    BY <1>1, <1>2 DEF LoopInv, AccountInv
  <2>2. QED
    BY <1>1, <1>2, <2>1, PassingOn DEF LoopInv, AccountInv
<1>4. TypeOK'
  BY <1>1, PassingOn DEF LoopInv, TypeOK
<1>5. ClosedInv' /\ EffectInv'
  BY <1>1 DEF LoopInv, ClosedInv, EffectInv
<1>6. BlockInv'
  <2>1. PICK d \in Unmet : d \in raised \cup blocked
    BY <1>1, UnmetFailed
  <2>2. raised # {}
    BY <2>1 DEF LoopInv, BlockInv
  <2>3. ASSUME type \notin CHAINED_EVENT_TYPES
        PROVE  blocked' \subseteq {"EnforcementHandler"} /\ "PrepaidRenewalHandler" \in raised
    <3>1. /\ Current = "EnforcementHandler"
          /\ Dependencies(type, Current) = {"PrepaidRenewalHandler"}
      BY <2>1, <2>3, FanoutDependencies DEF LoopInv, TypeOK, Unmet
    <3>2. d = "PrepaidRenewalHandler" /\ blocked \subseteq {"EnforcementHandler"}
      BY <2>1, <2>3, <3>1 DEF Unmet, LoopInv, BlockInv, FanoutIsolation
    <3>3. QED
      BY <1>1, <2>1, <3>1, <3>2
  <2>4. QED
    BY <1>1, <2>2, <2>3 DEF BlockInv, FanoutIsolation
<1>7. QED
  BY <1>1, <1>3, <1>4, <1>5, <1>6, PassingOn DEF LoopInv

(* A handler runs only behind its prerequisites, and only once.            *)
LEMMA SucceedKeeps ==
    ASSUME LoopInv, HandlerSucceeds
    PROVE  LoopInv'
<1>1. /\ Passes /\ UNCHANGED <<type, raised, blocked>>
      /\ succeeded' = succeeded \cup {Current}
      /\ attempts' = [attempts EXCEPT ![Current] = @ + 1]
      /\ Selected /\ Unmet = {}
  BY DEF HandlerSucceeds, Passes
<1>2. /\ Passed' \cap Todo' = (Passed \cap Todo) \cup {Current}
      /\ Current \notin succeeded \cup raised \cup blocked
  BY <1>1, PassingOn DEF LoopInv, AccountInv, Before
<1>3. AccountInv'
  <2>1. succeeded' \cup raised \cup blocked = Before \cup (Passed' \cap Todo')
    BY <1>1, <1>2 DEF LoopInv, AccountInv
  <2>2. QED
    BY <1>1, <1>2, <2>1, PassingOn DEF LoopInv, AccountInv
<1>4. TypeOK'
  <2>1. attempts' \in [Handlers -> Nat]
    BY <1>1, PassingOn DEF LoopInv, TypeOK
  <2>2. QED
    BY <1>1, <2>1, PassingOn DEF LoopInv, TypeOK
<1>5. ClosedInv'
  BY <1>1 DEF LoopInv, ClosedInv, Unmet
<1>6. EffectInv'
  <2>1. attempts[Current] = 0
    BY <1>1, <1>2, PassingOn DEF LoopInv, EffectInv
  <2>2. /\ attempts'[Current] = 1
        /\ \A h \in Handlers \ {Current} : attempts'[h] = attempts[h]
    BY <1>1, <2>1, PassingOn DEF LoopInv, TypeOK
  <2>3. QED
    BY <1>1, <2>2 DEF LoopInv, EffectInv
<1>7. BlockInv'
  BY <1>1 DEF LoopInv, BlockInv, FanoutIsolation
<1>8. QED
  BY <1>1, <1>3, <1>4, <1>5, <1>6, <1>7, PassingOn DEF LoopInv

(* A handler that raises leaves no effect.                                 *)
LEMMA RaiseKeeps ==
    ASSUME LoopInv, HandlerRaises
    PROVE  LoopInv'
<1>1. /\ Passes /\ UNCHANGED <<type, succeeded, blocked, attempts>>
      /\ raised' = raised \cup {Current} /\ Selected
  BY DEF HandlerRaises, Passes
<1>2. /\ Passed' \cap Todo' = (Passed \cap Todo) \cup {Current}
      /\ Current \notin succeeded \cup raised \cup blocked
  BY <1>1, PassingOn DEF LoopInv, AccountInv, Before
<1>3. AccountInv'
  <2>1. succeeded \cup raised' \cup blocked = Before \cup (Passed' \cap Todo')
    BY <1>1, <1>2 DEF LoopInv, AccountInv
  <2>2. QED
    BY <1>1, <1>2, <2>1, PassingOn DEF LoopInv, AccountInv
<1>4. TypeOK'
  BY <1>1, PassingOn DEF LoopInv, TypeOK
<1>5. ClosedInv' /\ EffectInv' /\ BlockInv'
  BY <1>1 DEF LoopInv, ClosedInv, EffectInv, BlockInv, FanoutIsolation
<1>6. QED
  BY <1>1, <1>3, <1>4, <1>5, PassingOn DEF LoopInv

(* When the loop ends, everything that did not succeed has failed.         *)
LEMMA RestFailed ==
    ASSUME LoopInv, step > PlanLength(type)
    PROVE  succeeded = Applicable(type) \ (raised \cup blocked)
<1>1. Passed = Applicable(type) /\ Todo \subseteq Applicable(type)
  BY AllPassed DEF LoopInv, TypeOK, Todo
<1>2. succeeded \cup raised \cup blocked = Applicable(type)
  BY <1>1 DEF LoopInv, AccountInv, Before
<1>3. QED
  BY <1>2 DEF LoopInv, AccountInv

(* The end of the run reads the sets and changes none of them.             *)
LEMMA MarkKeeps ==
    ASSUME LoopInv, MarkEventCompleted
    PROVE  LoopInv'
<1>1. /\ UNCHANGED <<type, retry, manifest, step, succeeded, raised, blocked,
                     attempts>>
      /\ step > PlanLength(type)
      /\ status' \in {"completed", "failed"}
      /\ status' = "failed" <=> raised \cup blocked # {}
  BY DEF MarkEventCompleted
<1>2. TypeOK' /\ EndInv'
  BY <1>1 DEF LoopInv, TypeOK, EndInv
<1>3. AccountInv'
  BY <1>1 DEF LoopInv, AccountInv, Before, Todo, Passed
<1>4. ClosedInv' /\ EffectInv' /\ BlockInv'
  BY <1>1 DEF LoopInv, ClosedInv, EffectInv, BlockInv, FanoutIsolation
<1>5. QED
  BY <1>2, <1>3, <1>4 DEF LoopInv

(* The manifest of a retry is never empty, which retry_event would read as *)
(* "the whole plan".                                                       *)
LEMMA RetryKeeps ==
    ASSUME LoopInv, RetryEvent
    PROVE  LoopInv'
<1>1. /\ status = "failed" /\ retry < MaxRetries /\ retry' = retry + 1
      /\ manifest' = raised \cup blocked
      /\ succeeded' = Applicable(type) \ manifest'
      /\ raised' = {} /\ blocked' = {} /\ step' = 1 /\ status' = "processing"
      /\ UNCHANGED <<type, attempts>>
  BY DEF RetryEvent
<1>2. step > PlanLength(type) /\ raised \cup blocked # {}
  BY <1>1 DEF LoopInv, EndInv
<1>3. succeeded' = succeeded
  BY <1>1, <1>2, RestFailed
<1>4. /\ manifest' # {} /\ manifest' \subseteq Applicable(type)
      /\ Todo' = manifest' /\ Before' = succeeded'
  BY <1>1, <1>2 DEF LoopInv, TypeOK, Todo, Before
<1>5. Passed' = {}
  <2>1. \A h \in Applicable(type) : Rank(type, h) \in Nat
    BY RankOrders
  <2>2. \A h \in Applicable(type) : ~(Rank(type, h) + 1 < 1)
    BY <2>1
  <2>3. QED
    BY <1>1, <2>2 DEF Passed
<1>6. TypeOK'
  <2>1. retry' \in 0..MaxRetries
    BY <1>1, MaxRetriesAssumption DEF LoopInv, TypeOK
  <2>2. step' \in 1..(PlanLength(type) + 1)
    BY <1>1, ApplicableHandlers
  <2>3. QED
    BY <1>1, <1>3, <1>4, <2>1, <2>2 DEF LoopInv, TypeOK
<1>7. AccountInv'
  BY <1>1, <1>4, <1>5 DEF AccountInv
<1>8. ClosedInv' /\ EffectInv'
  BY <1>1, <1>3 DEF LoopInv, ClosedInv, EffectInv
<1>9. BlockInv' /\ EndInv'
  BY <1>1 DEF BlockInv, FanoutIsolation, EndInv
<1>10. QED
  BY <1>6, <1>7, <1>8, <1>9 DEF LoopInv

(* The first dispatch starts with nothing passed.                          *)
LEMMA LoopStarts == Init => LoopInv
<1>1. SUFFICES ASSUME Init PROVE LoopInv
  OBVIOUS
<1>2. TypeOK
  BY <1>1, ApplicableHandlers, MaxRetriesAssumption DEF Init, TypeOK
<1>3. Passed = {}
  <2>1. \A h \in Applicable(type) : Rank(type, h) \in Nat
    BY RankOrders
  <2>2. \A h \in Applicable(type) : ~(Rank(type, h) + 1 < 1)
    BY <2>1
  <2>3. QED
    BY <1>1, <2>2 DEF Passed, Init
<1>4. Before = {}
  BY <1>1 DEF Init, Before, Todo
<1>5. AccountInv /\ ClosedInv
  BY <1>1, <1>3, <1>4 DEF Init, AccountInv, ClosedInv
<1>6. EffectInv /\ BlockInv /\ EndInv
  BY <1>1 DEF Init, EffectInv, BlockInv, FanoutIsolation, EndInv
<1>7. QED
  BY <1>2, <1>5, <1>6 DEF LoopInv

(* Every step of the loop and every retry keeps the account.               *)
LEMMA LoopStep == LoopInv /\ [Next]_vars => LoopInv'
<1>1. ASSUME LoopInv, UNCHANGED vars PROVE LoopInv'
  BY <1>1 DEF vars, LoopInv, TypeOK, AccountInv, ClosedInv, EffectInv, BlockInv,
              FanoutIsolation, EndInv, Before, Todo, Passed
<1>2. QED
  BY <1>1, SkipKeeps, BlockKeeps, SucceedKeeps, RaiseKeeps, MarkKeeps, RetryKeeps
     DEF Next

-----------------------------------------------------------------------------
(* The loop and its retries account for every handler of the plan.         *)
THEOREM LoopInvariant == Spec => []LoopInv
  BY LoopStarts, LoopStep, PTL DEF Spec

(* A finished run of dispatch or retry_event has an outcome the outbox     *)
(* model allows, and its failure manifest is exactly the rest.             *)
THEOREM RunOutcomes == Spec => []LoopGivesRunOutcome
<1>1. LoopInv => LoopGivesRunOutcome
  <2>1. SUFFICES ASSUME LoopInv, status \in {"completed", "failed"}
                 PROVE  /\ RunOutcome(type, Todo, Before, succeeded \ Before)
                        /\ raised \cup blocked = Todo \ (succeeded \ Before)
                        /\ raised \cap blocked = {}
    BY DEF LoopGivesRunOutcome, Todo, Before
  <2>2. succeeded = Applicable(type) \ (raised \cup blocked)
    BY <2>1, RestFailed DEF LoopInv, EndInv
  <2>3. Todo \subseteq Applicable(type) /\ Before = Applicable(type) \ Todo
    BY <2>1 DEF LoopInv, TypeOK, Todo, Before
  <2>4. raised \cup blocked \subseteq Applicable(type)
    BY <2>1 DEF LoopInv, TypeOK
  <2>5. raised \cup blocked = Todo \ (succeeded \ Before)
    BY <2>1, <2>2, <2>3, <2>4 DEF LoopInv, AccountInv
  <2>6. succeeded \ Before \subseteq Todo
    BY <2>2, <2>3
  <2>7. ASSUME NEW h \in succeeded \ Before, NEW d \in Dependencies(type, h)
        PROVE  d \in Before \cup {g \in succeeded \ Before : PlanBefore(g, h)}
    <3>1. d \in succeeded /\ h \in Applicable(type)
      BY <2>1, <2>2 DEF LoopInv, ClosedInv
    <3>2. PlanBefore(d, h)
      BY <3>1, DependenciesComeFirst
    <3>3. QED
      BY <3>1, <3>2
  <2>8. RunOutcome(type, Todo, Before, succeeded \ Before)
    BY <2>6, <2>7 DEF RunOutcome
  <2>9. QED
    BY <2>1, <2>5, <2>8 DEF LoopInv, AccountInv
<1>2. QED
  BY <1>1, LoopInvariant, PTL

(* No handler of the production tables fails an event in which nothing     *)
(* raised.                                                                 *)
THEOREM NobodyStarves == Spec => []NoHandlerIsStarved
<1>1. LoopInv => NoHandlerIsStarved
  BY DEF LoopInv, EndInv, BlockInv, NoHandlerIsStarved
<1>2. QED
  BY <1>1, LoopInvariant, PTL

(* In a fan-out event only access enforcement is ever held back, and only  *)
(* by the prepaid renewal it depends on.                                   *)
THEOREM FanoutIsIsolated == Spec => []FanoutIsolation
<1>1. LoopInv => FanoutIsolation
  BY DEF LoopInv, BlockInv
<1>2. QED
  BY <1>1, LoopInvariant, PTL

(* Whatever is retried and however often, no handler's effect is kept      *)
(* twice, and a completed event has every effect.                          *)
THEOREM HandlersOnce == Spec => []EachHandlerOnce
<1>1. LoopInv => EachHandlerOnce
  <2>1. SUFFICES ASSUME LoopInv PROVE EachHandlerOnce
    OBVIOUS
  <2>2. \A h \in Handlers : attempts[h] \in {0, 1}
    BY <2>1 DEF LoopInv, EffectInv
  <2>3. ASSUME status = "completed", NEW h \in Applicable(type)
        PROVE  attempts[h] = 1
    <3>1. succeeded = Applicable(type) \ (raised \cup blocked)
      BY <2>1, <2>3, RestFailed DEF LoopInv, EndInv
    <3>2. raised \cup blocked = {}
      BY <2>1, <2>3 DEF LoopInv, EndInv
    <3>3. h \in Handlers /\ h \in succeeded
      BY <3>1, <3>2, ApplicableHandlers
    <3>4. QED
      BY <2>1, <3>3 DEF LoopInv, EffectInv
  <2>4. QED
    BY <2>2, <2>3 DEF EachHandlerOnce
<1>2. QED
  BY <1>1, LoopInvariant, PTL

(* In a chained event no effect of a later stage is kept before all the    *)
(* effects of the earlier stages are, over the first run and all retries.  *)
THEOREM StagesInOrder == Spec => []CommunicationAfterState
<1>1. LoopInv => CommunicationAfterState
  <2>1. SUFFICES ASSUME LoopInv, type \in CHAINED_EVENT_TYPES,
                        NEW h \in Applicable(type), NEW g \in Applicable(type),
                        attempts[h] > 0,
                        HANDLER_CONTROLS[g].stage < HANDLER_CONTROLS[h].stage
                 PROVE  attempts[g] > 0
    BY DEF CommunicationAfterState
  <2>2. g \in Handlers /\ h \in Handlers
    BY ApplicableHandlers
  <2>3. h \in succeeded
    BY <2>1, <2>2 DEF LoopInv, EffectInv
  <2>4. g \in Dependencies(type, h)
    BY <2>1 DEF Dependencies
  <2>5. QED
    BY <2>1, <2>2, <2>3, <2>4 DEF LoopInv, ClosedInv, EffectInv
<1>2. QED
  BY <1>1, LoopInvariant, PTL
=============================================================================
