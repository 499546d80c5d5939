SPECIFICATION FairSpec
CONSTANTS
    state = state
    notify = notify
    webhook = webhook
    Events = {1, 2}
    Handlers <- MCHandlers
    Plan <- MCPlan
    Deps <- MCDeps
    Separate <- MCSeparate
    Poison = {1}
    MaxRetries = 2
    BatchSize = 2
    RetryBatchSize = 2
    SlowRetries = TRUE
PROPERTY EventuallySettled
CHECK_DEADLOCK FALSE
