SPECIFICATION Spec
CONSTANTS
    Symbols <- MCSymbols
    Unknown = "unknown"
    Captures <- MCCaptures
    MaxStates = 3
    MaxTransitions = 2
    MaxDraws = 1
    MaxEdits = 1
INVARIANTS GraphSound RunsAreTheSessions CopiesAreFaithful MutationsKeepTheirPromise
PROPERTIES OriginalUntouched
CHECK_DEADLOCK FALSE
