SPECIFICATION FairSpec
CONSTANTS
    Closers = {a, b}
    Tracks = {t}
    Buffer = 1
    MaxDecisions = 2
    Nobody = nobody
INVARIANTS CleanCloseIsComplete
PROPERTIES LossReported CloseReturns ImplementsRegister
CHECK_DEADLOCK FALSE
