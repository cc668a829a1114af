SPECIFICATION FairSpec
CONSTANTS
    Calls <- AllCalls
    Statuses = {0, 1, 3, 126, 127, 2, 255}
    Success = 0
    Failure = 1
    CallFailure = 126
    SysFailure = 127
    Late = 2
    NoStatus = 999
    MaxLines = 2
    Pids = {1, 2}
    Users = {0, 1}
    Root = 0
    NoUser = 9
    Group <- Groups
    Caller = 1
    Others <- OthersOwners
    MaxBirths = 2
    Delim <- De
    BufSize = 4
    Killed = 888
INVARIANTS StatusGiven StatusTrue ListTrue TunnelClean OutWhole
PROPERTY LeavingEnds
CHECK_DEADLOCK FALSE
