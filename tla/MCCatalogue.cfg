SPECIFICATION MCSpec
CONSTANTS
    Namespaces = {n1}
    Registrants = {g1, g2}
    Verifiers = {v1}
    Resolvers = {c, g, q}
    Liars = {q}
    ProviderFaults = {"db"}
    Items = {1, 2, 3}
    Versions = {1, 2, 3}
    Editors = {e1, e2}
    Manifests = {{"x402"}}
    PageSize = 1
    X402Config = TRUE
    MaxCalls = 1
INVARIANTS
    VerifiedWasPublished
    ActiveWasProven
    ListedOnce
PROPERTIES
    EndsAreFinal
CHECK_DEADLOCK FALSE
