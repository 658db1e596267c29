CONSTANTS
    s1 = s1
    s2 = s2
    IO = IO
    Senders <- MCSenders
    MaxConnections = 1
    MaxSends = 2
    HeaderSize = 2
    MaxPacketSize = 1
    PayloadLengths <- MCPayloadLengths
    SendCapacity = 1
    InboundCapacity = 2
SPECIFICATION FairSpec
INVARIANTS OneWriter WireInOrder NothingStranded ReceiveInOrder DecodesTheStream StopLeavesNothing
PROPERTY AcceptedIsWritten
