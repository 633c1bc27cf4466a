\* Fair scheduling of commands that want the same lock.
SPECIFICATION FairSpec
CONSTANTS
    c1 = c1
    c2 = c2
    web = web
    api = api
    p1 = p1
    p2 = p2
    Checkouts = {c1, c2}
    Services = {web, api}
    NoPort = NoPort
    Ports <- MCPorts
    RangeStart = 1
    RangeEnd = 3
    HostReserved = {}
    AppendMoves = TRUE
    Procs = {p1, p2}
    NoProc = NoProc
    NoCommand = NoCommand
    Commands <- DevCommands
PROPERTIES
    EveryCommandEnds
