CONSTANTS
    w1 = w1
    w2 = w2
    Workers <- MCWorkers
    PhaseCount = 1
    PhaseOf <- JoinPhaseOf
    Children <- JoinChildren
    QueueCapacity = 16
    Modulus = 64
    Registries <- MCRegistries
    NoTask = 0
    MaxTicks = 1
    MaxExecutors = 1
SPECIFICATION PipelineSpec
INVARIANT DependencyOrder
SYMMETRY WorkerSymmetry
CHECK_DEADLOCK FALSE
