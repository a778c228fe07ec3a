SPECIFICATION MCSpec
CONSTANTS
    Checks = {k1, k2}
    Callers = {a1}
    Limits = {1, 2}
    Window = 2
    PerSecond = 2
    MaxRetry = 10
    MaxTicks = 7
    Nonces = {n1, n2, n3}
    Stamps = {1}
    Skew = 1
    Ttl = 2
    Capacity = 2
    Fraction = 2
    MaxInstant = 7
    MaxAccepted = 5
    MaxHits = 2
    Gates = {g1, g2}
    FlagTtl = 2
    MaxBeats = 4
    FlagFaults = {"db"}
    Agents = {a1}
    Providers = {p1}
    Presenters = {r1, r2}
    GraceAsked = {0, 2}
    GraceMin = 1
    GraceMax = 2
    RotationCap = 2
    MaxIssued = 3
    MaxHour = 2
    KeyFaults = {"db"}
    None = None
    Attempts = {t1, t2}
    Prices = {1, 3}
    MaxWall = 2
    PaymentFaults = {"db", "link", "stray"}
    Relays = {s1, s2, s3}
    Hubs = {m1}
    Fees = {1, 2}
    KmsKeyId = TRUE
    RelayFaults = {"rpc"}
    Base = 16
    Width = 2
    Order <- MCOrder
    HalfOrder <- MCHalfOrder
    FirstParts <- MCFirstParts
    EngineCalls = {c1}
    MaxPosts = 3
    MaxRetries = 3
    BridgeFaults = {"bridge"}
    MaxEvents = 3
    Requests = {q1, q2, q3}
    Subscribers = {u1, u2}
    Urls = {h1, h2}
    SubFaults = {"db", "link"}
INVARIANTS
    SettledIsPaid
    RefusedIsUnpaid
    ReceiptsDistinct
    SignatureTrue
    PostsAccounted
    ThreadChained
    NonceOnce
    FreshEnough
    OneWinner
    NeverLockedOut
    StreamRelayed
    SecretWasTold
PROPERTIES
    WindowRespected
    RetryHonest
    KeepsPromise
