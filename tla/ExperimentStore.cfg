SPECIFICATION Spec
CONSTANTS
    Keys = {k1, k2}
    Clocks = {1}
    None = None
    MaxInstalls = 2
    MaxScopes = 2
    MaxTurns = 2
    MaxFaults = 2
SYMMETRY Symmetry
INVARIANTS DroppedStaysGone GhostIsOwed FactKeysKnown
CHECK_DEADLOCK FALSE
