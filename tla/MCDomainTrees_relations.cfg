SPECIFICATION Spec
CONSTANTS
    Variables <- MCVariables
    Kind <- MCKind
    Children <- MCChildren
    LastOptional <- MCLastOptional
    Targets <- MCTargets
    Constant <- MCConstant
    MinSize <- MCMinSize
    MaxSize <- MCMaxSize
    Alphabet <- MCAlphabet
    Times <- MCTimes
    Delimiter <- MCDelimiter
    Symbols <- MCSymbols
    MaxByte = 3
    MaxData = 4
INVARIANTS AcceptedRelationsHold
CHECK_DEADLOCK FALSE
