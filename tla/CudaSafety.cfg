SPECIFICATION RootsSpec
CONSTANTS
    d1 = d1
    d2 = d2
    Data = {d1, d2}
    GenesisData = gdata
    Golden = {g}
    NoRoot = none
    NoNonce = fail
    GenesisNonce = g
    Null = null
    Contents <- LinkedContents
    Ports = {p1}
    MaxRounds = 1
    MaxNodes = 1
    CudaErrors = TRUE
    MaxFailures = 3
INVARIANTS TypeOK CorruptionNeedsRace StaleIsFlagged 
PROPERTY InterruptEndsSearch
