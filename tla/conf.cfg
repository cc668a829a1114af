SPECIFICATION Spec
CONSTANTS
    a = a
    b = b
    dflt = dflt
    main = main
    x = x
    y = y
    u = u
    v = v
    Objs <- ObjsMC
    Loaded = a
    Names <- NamesMC
    Default = dflt
    Options <- OptionsMC
    Values <- ValuesMC
    Files <- FilesMC
    Grow = 1
    MaxItems = 2
INVARIANTS TypeOK
VIEW State
PROPERTIES ImplementsMap
CHECK_DEADLOCK FALSE
