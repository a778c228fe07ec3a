SPECIFICATION BookSpec
CONSTANTS
    h1 = h1
    h2 = h2
    Rows = {1, 2}
    Hubs = {h1, h2}
    Lasting = {h1}
    Unknown = Unknown
    Unasked = Unasked
    MinConfirmations = 1
    MaxAttempts = 2
    OrphanAge = 2
    BatchLimit = 1
    MaxBlock = 2
    Faults = {"head", "rpc", "lag", "reorg", "db"}
INVARIANTS
    StatusTrue
PROPERTIES
    KeepsVerdicts
    EverySettlementResolved
