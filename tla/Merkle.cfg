SPECIFICATION Spec
CONSTANTS
    Messages = {a, b}
    MaxLeaves = 7
    WarpSize = 2
    CudaErrors = TRUE
    LostGrids = TRUE
INVARIANTS TypeOK OnlyRacesHurt RootsBind
CHECK_DEADLOCK FALSE
