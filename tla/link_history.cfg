SPECIFICATION Spec
CONSTANTS
    x = x  y = y  z = z
    MaxRetries = 2
    HistorySize = 3
    Others <- ThreeOthers
    Us = Us
    Nobody = Nobody
    IdSize = 256
    MaxSends = 2
    MaxOthers = 4
PROPERTY HistoryDeep
CHECK_DEADLOCK FALSE
