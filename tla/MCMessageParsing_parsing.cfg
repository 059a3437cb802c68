CONSTANTS
    pad = pad
    id = id
    end = end
    note = note
    mark = mark
    tail = tail
    head = head
    gap = gap
    key = key
    x = x
    y = y
    None = None
    Leafs <- AllLeafs
    Units <- TwoBytes
    Symbols <- ThreeSymbols
    Scope <- Scopes
    MinSize <- Shortest
    MaxSize <- Longest
    Alphabet <- Accepted
    Constant <- Fixed
    Environments <- WithKey
    MaxData = 3
SPECIFICATION FairSpec
INVARIANTS SessionStable AcceptedCorrectly RefusedDoesNotFit EchoUnderstood
PROPERTY ReadingEnds
