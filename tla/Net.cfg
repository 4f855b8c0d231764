SPECIFICATION Spec
CONSTANTS
    Nodes = {n1, n2, n3}
    Data = {d1}
    GenesisData = gdata
    Golden = {g, h}
    NoRoot = none
    NoNonce = fail
    GenesisNonce = g
    GenesisNonces = {g, h}
    Null = null
    MaxLength = 3
    MaxCrashes = 1
    MaxLosses = 0
    NameAll = TRUE
    Interrupts = TRUE
SYMMETRY Ports
INVARIANTS TypeOK   
CHECK_DEADLOCK FALSE
