CONSTANTS
    p1 = p1
    p2 = p2
    c1 = c1
    c2 = c2
    Producers <- MCProducers
    Consumers <- MCConsumers
    Values <- MCValues
    Capacity = 2
    MaxTickets = 3
SPECIFICATION MCFairSpec
INVARIANTS IInv ExclusiveSlots DeliversInOrder
PROPERTIES ImplementsFifo EnqueueReturns EventuallyTaken
