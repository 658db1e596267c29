CONSTANTS
    w1 = w1
    w2 = w2
    Workers <- MCWorkers
    PhaseCount = 1
    PhaseOf <- ForkPhaseOf
    Children <- ForkChildren
    QueueCapacity = 16
    Modulus = 64
    Registries <- MCRegistries
    NoTask = 0
    MaxTicks = 1
    MaxExecutors = 1
SPECIFICATION PipelineSpec
INVARIANT BarrierComplete
SYMMETRY WorkerSymmetry
CHECK_DEADLOCK FALSE
