\* Two processes, two checkouts of one app and one of another.
SPECIFICATION Spec
CONSTANTS
    p1 = p1
    p2 = p2
    c1 = c1
    c2 = c2
    d1 = d1
    api = api
    web = web
    one = one
    two = two
    feat = feat
    main = main
    detached = detached
    Checkouts = {c1, c2, d1}
    Services = {api, web}
    Ports <- MCPorts
    NoPort = NoPort
    RangeStart = 1
    RangeEnd = 3
    HostReserved = {}
    AppendMoves = TRUE
    Procs = {p1, p2}
    App <- MCApp
    Trees <- MCTrees
    ServiceOrder <- OneOrder
    Branches = {feat, main}
    Detached = detached
    Names = {feat, main}
    BaseName <- MCBaseName
    Options <- MCOptions
    NoLane = NoLane
    MaxSwitches = 1
SYMMETRY ProcSymmetry
INVARIANTS
    PortsAreUnique
    LaneFitsMode
PROPERTIES
    LaneScoped
