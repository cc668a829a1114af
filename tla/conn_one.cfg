SPECIFICATION FairSpec
CONSTANTS
    Conns = {c1}
    Success = 0
    Failure = 1
    Statuses = {0, 1, 2}
    NStd = 3
    CloseOnAccept = {FALSE, TRUE}
    Lis = Lis
    NoConn = NoConn
    NoStatus = NoStatus
    Lost = Lost
INVARIANTS TypeOK FirstStatusOnly CompleteAnswer FailsafeStatus
PROPERTIES ImplementsCall DialEnds WaitEnds
CHECK_DEADLOCK FALSE
