SPECIFICATION MCSpec
CONSTANTS
    c1 = c1
    c2 = c2
    c3 = c3
    Calls = {c1, c2, c3}
    Ids = {"i1", "i2"}
    Inputs = {"x", "y"}
    Jobs <- EveryJob
    SerialJobs <- RepeatedJobs
    OverlapJobs <- MixedJobs
    FreeCalls = 1
    Funds = 3
    NoRow <- MCNoRow
    Faults = {"db", "drop", "crash"}
    MaxInFlight = 2
SYMMETRY CallSymmetry
INVARIANTS
    WalletAnswerTrue
    CachedAnswerTrue
    SerialCallsCounted

    
