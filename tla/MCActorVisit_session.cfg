CONSTANTS
    bob = bob
    alice = alice
    S0 = S0
    S1 = S1
    S2 = S2
    S3 = S3
    S4 = S4
    req = req
    bye = bye
    ans = ans
    Empty = Empty
    Unknown = Unknown
    NoState = NoState
    NoTransition = NoTransition
    States <- Vertices
    Symbols <- Words
    Actors <- Both
    Automaton <- SessionOfBoth
    InitialState <- StartAtS0
    Initiator <- OnlyBob
    Peer <- Opposite
    Threaded = TRUE
    KeepOpen <- Nobody
    Filtered <- AllNames
    Modifying <- Nobody
    Staying <- Nobody
    Target <- Unaimed
    MaxTransitions <- BobFive
    Lossy = TRUE
    Faults <- Nobody
    Injected <- Nobody
    MaxInjected = 0
SPECIFICATION FairSpec
INVARIANTS PeersInStep VisitLimit
PROPERTIES StaleByTimeoutsOnly VisitsEnd
CHECK_DEADLOCK FALSE
