SPECIFICATION FairHashSpec
CONSTANTS
    UintMax = 7
    Limit = 9
INVARIANTS LeastNonce NeverFails
PROPERTY SolvesIfAny
CHECK_DEADLOCK FALSE
