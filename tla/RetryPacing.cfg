SPECIFICATION FairSpec
CONSTANTS
    Tracks = {t1, t2}
INVARIANTS FreshNotDeferred
PROPERTIES NoStalledRetry
