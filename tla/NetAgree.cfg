SPECIFICATION Spec
CONSTANTS
    Nodes = {n1, n2}
    Data = {d1, d2}
    GenesisData = gdata
    Golden = {g}
    NoRoot = none
    NoNonce = fail
    GenesisNonce = g
    GenesisNonces = {g}
    Null = null
    MaxLength = 2
    MaxCrashes = 0
    MaxLosses = 0
    NameAll = TRUE
    Interrupts = FALSE
INVARIANT Agreement
CHECK_DEADLOCK FALSE
