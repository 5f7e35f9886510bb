SPECIFICATION Spec
CONSTANTS
    Keys = {x1, x2}
    Ids = {i1, i2}
    Calls = {c1, c2}
    Passes = {"lane", "close"}
    None = None
    QueueSize = 1
    MaxOwed = 1
    MaxSeq = 2
    MaxTurns = 1
SYMMETRY Symmetry
CHECK_DEADLOCK FALSE
PROPERTIES NoWithdrawnFactSent NoInstallAcrossWithdrawal
