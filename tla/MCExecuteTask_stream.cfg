SPECIFICATION MCSpec
CONSTANTS
    c1 = c1
    c2 = c2
    c3 = c3
    Calls = {c1, c2}
    Ids = {"i1", "i2"}
    Inputs = {"x", "y"}
    Jobs <- StreamJobs
    SerialJobs <- StreamJobs
    OverlapJobs <- StreamJobs
    FreeCalls = 0
    Funds = 3
    NoRow <- MCNoRow
    Faults = {}
    MaxInFlight = 1
SYMMETRY CallSymmetry
INVARIANTS
    WalletCallPays
