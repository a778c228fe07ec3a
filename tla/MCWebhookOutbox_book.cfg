SPECIFICATION FairSpec
CONSTANTS
    h1 = h1
    h2 = h2
    s1 = s1
    s2 = s2
    r1 = r1
    r2 = r2
    r3 = r3
    Hubs = {h1, h2}
    Subs = {s1}
    Rows = {r1, r2}
    BatchSize = 2
    Lease = 1
    MaxAttempts = 3
    Minute = 1
    Hour = 2
    MaxFaults = 1
INVARIANTS
    OneHandler
    OutcomeTrue
PROPERTIES
    KeepsDeliveries
    EveryEventSettled
