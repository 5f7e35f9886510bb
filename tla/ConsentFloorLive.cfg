SPECIFICATION LiveSpec
CONSTANTS
    Callers = {c1, c2}
    Dispatchers = {w}
    Kinds = {"granted", "denied"}
    Clocks = {0, 5}
    Cap = 1
    Outcomes = {"lost", "terminal"}
    MaxDecisions = 2
    MaxFaults = 1
    MaxCrashes = 1
    MaxDamage = 0
    None = none
INVARIANT TrailOrdered
PROPERTY DenialsDelivered
