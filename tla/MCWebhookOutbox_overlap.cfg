SPECIFICATION Spec
CONSTANTS
    h1 = h1
    h2 = h2
    s1 = s1
    s2 = s2
    r1 = r1
    r2 = r2
    r3 = r3
    Hubs = {h1, h2}
    Subs = {s1}
    Rows = {r1, r2, r3}
    BatchSize = 3
    Lease = 2
    MaxAttempts = 2
    Minute = 1
    Hour = 1
    MaxFaults = 0
SYMMETRY Symmetry
INVARIANTS
    AcceptedOnce
