SPECIFICATION Spec
CONSTANT MaxRetries = 3
INVARIANTS
    LoopGivesRunOutcome
    NoHandlerIsStarved
    FanoutIsolation
    EachHandlerOnce
    CommunicationAfterState
CHECK_DEADLOCK FALSE
