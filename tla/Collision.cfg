\* Every cause of a refusal, with others that prepare and listen.
SPECIFICATION FairSpec
CONSTANTS
    c1 = c1
    c2 = c2
    c3 = c3
    web = web
    api = api
    Checkouts = {c1, c2, c3}
    Services = {web, api}
    Ports <- MCPorts
    NoPort = NoPort
    RangeStart = 1
    RangeEnd = 4
    HostReserved = {}
    AppendMoves = TRUE
    Home = c1
    HomeAdapters <- MCHomeAdapters
    DevAdapter <- MCDevAdapter
    NoKey = NoKey
    MaxDisturbances = 4
INVARIANTS
    NeverUntracked
PROPERTIES
    RemedyHelps
    RecipesSuffice
