SPECIFICATION Spec
CONSTANTS
    e1 = e1
    e2 = e2
    e3 = e3
    Events = {e1, e2, e3}
    Facts = {}
    IdOf <- OwnIds
    MaxEvents = 2
    BatchSize = 2
    MaxFaults = 3
    MaxCrashes = 2
    MaxDecisions = 3
    MaxSweeps = 0
    MaxStale = 0
    NoFile = NoFile
SYMMETRY Perms
INVARIANTS SpooledSurvives SpoolInSync CondemnedNeverLoads
