CONSTANTS
    a = a
    b = b
    NoPacket = NoPacket
    Layers <- Pair
    KeepOpen <- Pair
    Interest <- OneEach
    Faults <- SocketFaults
    MaxWrites = 0
    MaxIn = 0
    MaxOpens <- Once
SPECIFICATION Spec
INVARIANT ActiveIsRunning
CHECK_DEADLOCK FALSE
