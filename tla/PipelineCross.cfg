CONSTANTS
    w1 = w1
    w2 = w2
    Workers <- MCWorkers
    PhaseCount = 3
    PhaseOf <- CrossPhaseOf
    Children <- CrossChildren
    QueueCapacity = 4
    Modulus = 8
    Registries <- MCRegistries
    NoTask = 0
    MaxTicks = 2
    MaxExecutors = 2
SPECIFICATION FairPipelineSpec
INVARIANTS BarrierComplete ReadyQueueHasRoom ShutdownLeavesNothing
PROPERTIES FollowsSchedule TickEnds ShutdownEnds
CHECK_DEADLOCK FALSE
