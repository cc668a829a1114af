SPECIFICATION Spec
CONSTANTS
    Conns = {c1, c2}
    Success = 0
    Failure = 0
    Statuses = {0}
    NStd = 0
    CloseOnAccept = {FALSE, TRUE}
    Lis = Lis
    NoConn = NoConn
    NoStatus = NoStatus
    Lost = Lost
INVARIANTS OwnDescriptors
CHECK_DEADLOCK FALSE
SYMMETRY Sym
