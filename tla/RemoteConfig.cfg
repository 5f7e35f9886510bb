SPECIFICATION Spec
CONSTANTS
    proc1 = proc1
    proc2 = proc2
    fet1 = fet1
    fet2 = fet2
    fet3 = fet3
    Procs = {proc1, proc2}
    Fetches = {fet1, fet2, fet3}
    ProcOf <- MCProcOf
    Targets = {"none", "vip"}
    NoTarget = "none"
    None = None
    Clocks = {1}
    MaxFetches = 3
    MaxSeq = 2
    MaxVersion = 2
    MaxTurns = 2
SYMMETRY Symmetry
INVARIANTS RevokedStaysClosed TargetNotMixed
PROPERTY NoGetterRollback
CHECK_DEADLOCK FALSE
