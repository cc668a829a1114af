SPECIFICATION FairSpec
CONSTANTS
    Calls <- CallsMC
    Chunk = 2
    Room = 2
    Statuses = {3}
    Failure = 1
    FdClosed = 125
    OutMax = 1
INVARIANTS OutputWhole InputWhole StatusTrue
CHECK_DEADLOCK FALSE
PROPERTIES CollectEnds HangUpEnds DeathHeard
