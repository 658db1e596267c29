CONSTANTS
    t1 = t1
    t2 = t2
    A = A
    B = B
    Threads <- MCThreads
    Types <- MCTypes
    MaxSubscriptions = 3
SPECIFICATION Spec
INVARIANTS DeliversToPermanent QuietAfterUnsubscribe RegistrationOrder SnapshotCurrent
SYMMETRY Symmetry
