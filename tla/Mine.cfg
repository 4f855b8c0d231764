SPECIFICATION FairSpec
CONSTANTS
    Stride = 3
    MaxNonce = 9
    CheckEvery = 2
INVARIANTS ResultSolves GaveUpLate SoonOver
PROPERTIES FirstKeeps EachItsOwn Searches
CHECK_DEADLOCK FALSE
