CONSTANTS
    p1 = p1
    p2 = p2
    a = a
    b = b
    Producers <- MCProducers
    Values <- MCValues
    Empty = Empty
    Capacity = 2
    Width = 8
    MaxLag = 2
SPECIFICATION FairSpec
INVARIANT SizeEstimate
PROPERTIES ImplementsQueue RefusesOnlyWhenFull KeepsDelivering
