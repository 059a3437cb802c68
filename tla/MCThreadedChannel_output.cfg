CONSTANTS
    a = a
    b = b
    NoPacket = NoPacket
    Layers <- Pair
    KeepOpen <- OnlyA
    Interest <- OneEach
    Faults <- SendFaults
    MaxWrites = 1
    MaxIn = 0
    MaxOpens <- Once
SPECIFICATION FairSpec
INVARIANTS TypeOK UnfinishedExact ReturnedIsSettled
PROPERTIES ImplementsOutputQueue  
CHECK_DEADLOCK FALSE
