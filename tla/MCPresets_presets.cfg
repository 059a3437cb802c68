SPECIFICATION Spec
CONSTANTS
    Variables <- MCVariables
    Fields <- MCFields
    Symbol = "sym"
    SubFields <- MCSubFields
    Domain <- MCDomain
    LeafFields <- MCLeafFields
    Children <- MCChildren
    TypeOf <- MCTypeOf
    Targets <- MCTargets
    Requests <- MCRequests
    Limits <- MCLimits
    TypedValues <- MCTypedValues
    DefaultMax = 3
    MaxDepth = 3
    MaxPresets = 2
    MaxCalls = 4
INVARIANTS WellFormed LastCallWins FuzzingReachesDescendants BudgetHolds
PROPERTIES FailureKeepsTheRest
CHECK_DEADLOCK FALSE
