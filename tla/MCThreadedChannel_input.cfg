CONSTANTS
    a = a
    b = b
    NoPacket = NoPacket
    Layers <- Pair
    KeepOpen <- Pair
    Interest <- OneEach
    Faults <- NoFaults
    MaxWrites = 0
    MaxIn = 2
    MaxOpens <- TwiceA
SPECIFICATION Spec
INVARIANTS InboxInOrder DispatchReachesAll
CHECK_DEADLOCK FALSE
