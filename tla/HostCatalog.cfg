\* Two commands at a time over two checkouts.
SPECIFICATION Spec
CONSTANTS
    c1 = c1
    c2 = c2
    web = web
    api = api
    p1 = p1
    p2 = p2
    Checkouts = {c1, c2}
    Services = {web, api}
    NoPort = NoPort
    Ports <- MCPorts
    RangeStart = 1
    RangeEnd = 3
    HostReserved = {}
    AppendMoves = TRUE
    Procs = {p1, p2}
    NoProc = NoProc
    NoCommand = NoCommand
    Commands <- MCCommands
SYMMETRY ProcSymmetry
INVARIANTS
    PortsAreUnique
    OutputsArePrepared
PROPERTIES
    OwnRowsOnly
    DevPortsStick
    StableOnFixture
    ReassignMovesOneRow
    Serializable
