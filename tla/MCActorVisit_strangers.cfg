CONSTANTS
    bob = bob
    alice = alice
    S0 = S0
    S1 = S1
    S2 = S2
    S3 = S3
    S4 = S4
    req = req
    bye = bye
    ans = ans
    Empty = Empty
    Unknown = Unknown
    NoState = NoState
    NoTransition = NoTransition
    States <- Vertices
    Symbols <- Words
    Actors <- Both
    Automaton <- ClientAndLoop
    InitialState <- StartAtS0
    Initiator <- OnlyBob
    Peer <- Alone
    Threaded = FALSE
    KeepOpen <- Nobody
    Filtered <- SomeNames
    Modifying <- Both
    Staying <- OnlyBob
    Target <- Unaimed
    MaxTransitions <- AllFour
    Lossy = FALSE
    Faults <- AllFaults
    Injected <- Strange
    MaxInjected = 1
SPECIFICATION Spec
INVARIANTS ActiveIffExecuting
CHECK_DEADLOCK FALSE
