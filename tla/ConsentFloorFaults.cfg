SPECIFICATION Spec
CONSTANTS
    Callers = {c1, c2}
    Dispatchers = {w}
    Kinds = {"granted", "denied", "minor"}
    Clocks = {0}
    Cap = 2
    Outcomes = {"retry", "abort"}
    MaxDecisions = 3
    MaxFaults = 1
    MaxCrashes = 2
    MaxDamage = 1
    None = none
SYMMETRY CallerSymmetry
INVARIANTS NoGrantPastDenial RecordedGrantSurvives DurableDenialSurvives CleanCloseRestores DeliveryInDecisionOrder
PROPERTIES NoGrantAheadOfHeldDenial EventsFollowGrant
