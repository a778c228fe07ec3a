SPECIFICATION Spec
CONSTANTS
    h1 = h1
    h2 = h2
    Rows = {1}
    Hubs = {h1, h2}
    Lasting = {h1}
    Unknown = Unknown
    Unasked = Unasked
    MinConfirmations = 2
    MaxAttempts = 3
    OrphanAge = 2
    BatchLimit = 2
    MaxBlock = 5
    Faults = {}
PROPERTIES
    TerminalIsFinal
