\* Two processes, two lanes of one slug, adapters that change.
SPECIFICATION Spec
CONSTANTS
    p1 = p1
    p2 = p2
    x = x
    y = y
    px = px
    a = a
    b = b
    Procs = {p1, p2}
    NoProc = NoProc
    Lanes = {x, y}
    Paths = {px}
    Main = Main
    SiblingPath <- OnePath
    Apps = {a, b}
    NoAdapter = NoAdapter
    HasInputs = FALSE
    InitialAdapters <- MCAdapters
    InitialBranches = {y}
    Commands <- MCCommands
    NoCommand = NoCommand
    MaxBirths = 3
    MaxEdits = 1
SYMMETRY ProcSymmetry
INVARIANTS
    RetiredUnlessBlurred
PROPERTIES
    LiveRowsStay
    CreatedIsRegistered
    DevIfUnedited
