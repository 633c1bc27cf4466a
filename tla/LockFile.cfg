\* Three processes that are killed and come back.
SPECIFICATION FairSpec
CONSTANTS
    p1 = p1
    p2 = p2
    p3 = p3
    Procs = {p1, p2, p3}
    NoProc = NoProc
    Pid <- MCPid
    MaxTries = 2
INVARIANTS
    HolderIsRecorded
    MessagesNameProcesses
PROPERTIES
    ImplementsLock
    WaitersAreAnswered
