SPECIFICATION FairSpec
CONSTANTS
    x = x  y = y  z = z
    MaxRetries = 2
    HistorySize = 3
    Others <- ThreeOthers
    Us = Us
    Nobody = Nobody
    IdSize = 2
    MaxSends = 3
    MaxOthers = 3
INVARIANTS AckedIsReceived
PROPERTIES CopiesDropped ImplementsService Answered
CHECK_DEADLOCK FALSE
