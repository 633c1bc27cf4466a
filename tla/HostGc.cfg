\* Two processes, of any kind, while the checkout changes.
SPECIFICATION Spec
CONSTANTS
    r1 = r1
    top = top
    sub = sub
    p1 = p1
    p2 = p2
    a = a
    b = b
    s = s
    Procs = {p1, p2}
    NoProc = NoProc
    Repos = {r1}
    NoRepo = NoRepo
    Tree <- MCTree
    Hidden = {}
    Apps = {a, b}
    Services = {s}
    Ports = {1, 2}
    Commands <- MCCommands
    NoCommand = NoCommand
    AnyApp = AnyApp
    InitialRows <- MCInitialRows
    InitialFiles <- MCInitialFiles
    Broken = Broken
    NoFile = NoFile
    MaxTime = 1
    MaxChanges = 2
SYMMETRY ProcSymmetry
PROPERTIES
    ConfirmedOnly
    UncertaintyKeepsRows
