SPECIFICATION LiveSpec
CONSTANTS
    Deciders = {d1, d2}
    Trackers = {t1}
    Worker = worker
    NoOne = noOne
    NoEvent = noEvent
    BufferSize = 1
    BatchSize = 2
    MaxCalls = 2
    MaxDecisions = 3
INVARIANTS Accounting BatchIsOneEpoch DenialAbortsInFlight NoDenialUnderGrant
PROPERTIES EpochDropsArePreDenial EventsSettle
