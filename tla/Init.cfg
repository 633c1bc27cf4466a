\* One init with any options, in a tree that changes once.
SPECIFICATION ScaffoldSpec
CONSTANTS
    root = root
    api = api
    deep = deep
    nest = nest
    vendor = vendor
    good = good
    wide = wide
    bad = bad
    Root = root
    Walk <- MCWalk
    Path <- MCPath
    SkippedTrees = {vendor}
    NestedGitRoots = {nest}
    MaxScanDepth = 1
    SignalSets <- MCSignals
    FileSets <- MCFiles
    Sources = {good, wide, bad}
    Valid = {good, wide}
    Escaping <- MCEscaping
    MaxEdits = 1
\* init ends.
CHECK_DEADLOCK FALSE
INVARIANTS
    ScanFindsAll
    RefusalWritesNothing
    SuccessWritesAll
    CopiesFit
PROPERTIES
    ExistingStay
