CONSTANTS
    w1 = w1
    w2 = w2
    Workers <- MCWorkers
    PhaseCount = 2
    PhaseOf <- TreePhaseOf
    Children <- TreeChildren
    QueueCapacity = 16
    Modulus = 64
    Registries <- MCRegistries
    NoTask = 0
    MaxTicks = 1
    MaxExecutors = 1
SPECIFICATION PipelineSpec
INVARIANT Accounting
CHECK_DEADLOCK FALSE
