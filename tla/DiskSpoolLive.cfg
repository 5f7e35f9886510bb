SPECIFICATION FairSpec
CONSTANTS
    e1 = e1
    e2 = e2
    e3 = e3
    Events = {e1, e2}
    Facts = {e1, e2}
    IdOf <- SharedIds
    MaxEvents = 1
    BatchSize = 1
    MaxFaults = 2
    MaxCrashes = 1
    MaxDecisions = 1
    MaxSweeps = 1
    MaxStale = 1
    NoFile = NoFile
INVARIANT WithdrawnNeverLoads
PROPERTY SpooledSettles
