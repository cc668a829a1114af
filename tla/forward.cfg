SPECIFICATION FairSpec
CONSTANTS
    Site <- Whole
    Links <- Symlinks
    Settings <- Parsed
    Indexes <- ParsedIndexes
    Calls <- AllCalls
    PlusAddr <- Bb
    PlusMax = 2
    IntMax = 7
    LinksMax = 3
    Statuses = {0, 1, 3}
    Success = 0
    Failure = 1
    NoStatus = 99
    MaxHops = 6
INVARIANTS PlusBounded AsAsked
PROPERTIES DialReturns Reaches Unwinds
CHECK_DEADLOCK FALSE
