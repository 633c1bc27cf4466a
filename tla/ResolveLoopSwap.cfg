\* A new service declared before a displaced one.
SPECIFICATION LoopSpec
CHECK_DEADLOCK FALSE
CONSTANTS
    c1 = c1
    c2 = c2
    web = web
    api = api
    db = db
    Checkouts = {c1, c2}
    Services = {web, api, db}
    NoPort = NoPort
    Ports <- MCPorts
    RangeStart = 1
    RangeEnd = 4
    HostReserved = {}
    AppendMoves = TRUE
    KeyOrder <- MCKeyOrder
    StartCatalogs <- MCStartCatalogs
    BoundSets <- NoneBound
    Commands <- SwapCommands
INVARIANTS
    RowsKeepPortsApart
