\* Prepares that fail and are killed while the user edits and `up` reads.
SPECIFICATION Spec
CONSTANTS
    p1 = p1
    p2 = p2
    v1 = v1
    v2 = v2
    Procs = {p1, p2}
    NoProc = NoProc
    Versions = {v1, v2}
    Edit = Edit
    Absent = Absent
    Plan <- MCPlan
    Verified = {2, 3}
    Generated = {3}
    Editable = {3}
    Expected = {v1, v2}
SYMMETRY MCSymmetry
INVARIANTS
    PreparedTogether
    FailureLeavesNoTrace
    HashesAgree
    TempsRemoved
    UpSawPreparedOutputs
