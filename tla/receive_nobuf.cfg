SPECIFICATION Spec
CONSTANTS
    a = a  b = b  b1 = b1  b2 = b2
    Packets <- ThreePackets
    NEntries = 2
    Buffers <- TwoBuffers
    NoBuf = NoBuf
    NoKey = NoKey
    HeadersUnpack = TRUE
    MaxFrames = 5
INVARIANT ActiveHasBuffer
