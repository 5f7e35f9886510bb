SPECIFICATION Spec
CONSTANTS
    Apps = {a1, a2}
    None = None
    QueueSize = 1
    MaxOwed = 2
    MaxDenials = 1
    MaxWithdrawals = 1
    MaxFaults = 1
    MaxCrashes = 1
SYMMETRY Symmetry
INVARIANTS StoredSurvives ConsentDropCountedOnce
PROPERTY NoWithdrawnFactSent
