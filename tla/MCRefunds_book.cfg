SPECIFICATION MCSpec
CONSTANTS
    t1 = t1
    t2 = t2
    t3 = t3
    c1 = c1
    c2 = c2
    c3 = c3
    c4 = c4
    Txs = {t1, t2, t3}
    Agent <- MCAgent
    Provider <- MCProvider
    Calls = {c1, c2, c3, c4}
    Jobs <- SomeJobs
    DayLimit = 2
    PairLimit = 1
    Faults = {"db", "process", "crash"}
    MaxInFlight = 2
INVARIANTS
    CreditNeedsConsent
    OverrunBounded
PROPERTIES
    SerialKeepsPaybacks
    SerialEveryRequestResolved
