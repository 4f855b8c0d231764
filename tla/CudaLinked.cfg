SPECIFICATION RootsSpec
CONSTANTS
    d1 = d1
    d2 = d2
    Data = {d1, d2}
    GenesisData = gdata
    Golden = {g}
    NoRoot = none
    NoNonce = fail
    GenesisNonce = g
    Null = null
    Contents <- WholeContents
    Ports = {p1}
    MaxRounds = 2
    MaxNodes = 1
    CudaErrors = FALSE
    MaxFailures = 0
INVARIANT ChainLinked
