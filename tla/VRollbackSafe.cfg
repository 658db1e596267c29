CONSTANTS
    MaxPacketSize = 5
    MaxStringLength = 7
    ByteBase = 3
    PrefixSize = 2
    Blobs <- MCBlobs
    Strings <- MCStrings
    MaxFields = 3
SPECIFICATION Spec
PROPERTY RollbackSafe
