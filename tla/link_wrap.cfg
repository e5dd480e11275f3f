SPECIFICATION Spec
CONSTANTS
    x = x  y = y  z = z
    MaxRetries = 2
    HistorySize = 3
    Others <- ThreeOthers
    Us = Us
    Nobody = Nobody
    IdSize = 2
    MaxSends = 3
    MaxOthers = 4
INVARIANT AlwaysReceived
CHECK_DEADLOCK FALSE
