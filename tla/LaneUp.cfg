\* One up beside one other command, in two checkouts.
SPECIFICATION LaneSpec
CONSTANTS
    p1 = p1
    c1 = c1
    c2 = c2
    web = web
    one = one
    feat = feat
    main = main
    detached = detached
    Checkouts = {c1, c2}
    Services = {web}
    Ports <- MCPorts
    NoPort = NoPort
    RangeStart = 1
    RangeEnd = 2
    HostReserved = {}
    AppendMoves = TRUE
    Procs = {p1}
    App <- MCApp
    Trees <- MCTrees
    ServiceOrder <- OneOrder
    Branches = {feat, main}
    Detached = detached
    Names = {feat, main}
    BaseName <- MCBaseName
    Options <- MCOptions
    NoLane = NoLane
    MaxSwitches = 1
    Composed = {c1}
    BareMetal = {c1}
INVARIANTS
    RunningKeepsPorts
PROPERTIES
    QuietUpIsAssigned
