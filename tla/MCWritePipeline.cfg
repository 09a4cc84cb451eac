SPECIFICATION Spec
CONSTANTS
    User = {u1, nobody}
    Unauthenticated = nobody
    MaxWrites = 4
    kMaxPendingWrites = 3
    MaxDisturbances = 2
INVARIANTS
    PipelineIsQueuePrefix
    ResultsMatchPipeline
    IdleOnlyWhenUnneeded
    CallbacksFollowTheirWrites
    AppliedInOrder
PROPERTIES
    ImplementsDurableWrites
    EveryWriteAdvances
    EventuallySettled
CHECK_DEADLOCK FALSE
