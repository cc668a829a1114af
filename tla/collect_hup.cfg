SPECIFICATION FairSpec
CONSTANTS
    Calls <- CallsForever
    Chunk = 2
    Room = 2
    Statuses = {3}
    Failure = 1
    FdClosed = 125
    OutMax = 0
PROPERTY CollectReturns
CHECK_DEADLOCK FALSE
