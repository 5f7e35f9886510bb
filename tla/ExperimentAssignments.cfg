SPECIFICATION Spec
CONSTANTS
    Keys = {k1, k2}
    Calls = {c1, c2}
    Lane = lane
    HostBands = {"adult", "minor"}
    None = None
    MaxSeq = 3
    MaxTurns = 1
SYMMETRY Symmetry
INVARIANTS NoRevival MinorNotServed
PROPERTY NoInstallAcrossDenial
CHECK_DEADLOCK FALSE
