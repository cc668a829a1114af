SPECIFICATION FairSpec
CONSTANTS
    s1 = s1
    s2 = s2
    Servers <- TwoSpawns
    Old = Old
    NoFile = NoFile
    Confs <- AnyAddress
    Root = FALSE
    MaxDeaths = 1
INVARIANTS OnlyWithoutReaper ToldAnswers
PROPERTIES SpawnCleans CallerEnds
CHECK_DEADLOCK FALSE
