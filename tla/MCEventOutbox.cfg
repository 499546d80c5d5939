SPECIFICATION Spec
CONSTANTS
    state = state
    notify = notify
    webhook = webhook
    Events = {1, 2}
    Handlers <- MCHandlers
    Plan <- MCPlan
    Deps <- MCDeps
    Separate <- MCSeparate
    Poison = {}
    MaxRetries = 2
    BatchSize = 1
    RetryBatchSize = 2
    SlowRetries = FALSE
INVARIANTS
    TypeOK
    NothingForgotten
    PrerequisitesFirst
    AtMostOnce
    OneOwner
PROPERTIES
    CompletedIsFinal
    ImplementsDelivery
CHECK_DEADLOCK FALSE
