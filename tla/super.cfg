SPECIFICATION FairSpec
CONSTANTS
    h1 = h1
    h2 = h2
    Handlers <- TwoHandlers
    Servers <- ThreeServers
    Tries <- TwoAndOne
    Old = Old
    NoFile = NoFile
    Nobody = Nobody
    Root = FALSE
    MaxDeaths = 2
INVARIANTS TypeOK LockHeld AddressLive
PROPERTIES HandlerEnds
CHECK_DEADLOCK FALSE
