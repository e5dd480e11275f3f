SPECIFICATION FairSpec
CONSTANTS
    a = a  b = b  b1 = b1  b2 = b2
    Packets <- ThreePackets
    NEntries = 2
    Buffers <- TwoBuffers
    NoBuf = NoBuf
    NoKey = NoKey
    HeadersUnpack = TRUE
    MaxFrames = 7
INVARIANTS TypeOK BuffersOwnedOnce BufferHoldsCount OneCollector Intact
PROPERTIES NotExpiredEarly CacheDrains
