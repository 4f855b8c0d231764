SPECIFICATION FairSpec
CONSTANTS
    Nodes = {n1, n2}
    Data = {d1, d2}
    GenesisData = gdata
    Golden = {g}
    NoRoot = none
    NoNonce = fail
    GenesisNonce = g
    GenesisNonces = {g}
    Null = null
    MaxLength = 3
    MaxCrashes = 1
    MaxLosses = 1
    NameAll = FALSE
    Interrupts = TRUE
PROPERTIES  JoinsEnd SendsEnd
CHECK_DEADLOCK FALSE
