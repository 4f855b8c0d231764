SPECIFICATION FairSpec
CONSTANTS
    d1 = d1
    d2 = d2
    Data = {d1, d2}
    GenesisData = gdata
    Golden = {g}
    NoRoot = none
    NoNonce = fail
    GenesisNonce = g
    Null = null
    Contents <- LinkedContents
    Ports = {p1}
    MaxRounds = 2
    MaxNodes = 1
INVARIANTS TypeOK BlocksMined  QuietAppend CorruptionNeedsRace InstalledWhole 
PROPERTIES RequestsEnd CommandsEnd ChangesInOnePiece
