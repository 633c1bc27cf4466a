\* Every resolution of a checkout with up to three services.
SPECIFICATION LoopSpec
CHECK_DEADLOCK FALSE
CONSTANTS
    c1 = c1
    c2 = c2
    web = web
    api = api
    db = db
    Checkouts = {c1, c2}
    Services = {web, api, db}
    NoPort = NoPort
    Ports <- MCPorts
    RangeStart = 1
    RangeEnd = 4
    HostReserved = {}
    AppendMoves = TRUE
    KeyOrder <- MCKeyOrder
    StartCatalogs <- MCStartCatalogs
    BoundSets <- MCBoundSets
    Commands <- MCCommands
INVARIANTS
    LoopComputesOutcome
    FirstFit
    ManifestPortsDiffer
    UniqueWhileAliased
