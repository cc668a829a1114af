SPECIFICATION FairSpec
CONSTANTS
    NStreams = 2
    CloseOnExit = {0}
    Cap = 2
    Room = 2
    Ready = 2
    Total = 2
    CopyTotal = 7
    MayClose = {0, 1}
    Services = {"free", "copy"}
    Timeouts = TRUE
INVARIANTS Conserved OutputComplete InputComplete
PROPERTIES RelayEnds InputEnds
CHECK_DEADLOCK FALSE
