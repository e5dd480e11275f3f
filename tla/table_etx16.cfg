\* One neighbour, and ints of 16 bits: repeated penalties.
SPECIFICATION Spec
CONSTANTS
    a1 = a1  a2 = a2  a3 = a3  p1 = p1  p2 = p2
    Addrs <- OneAddr
    NoAddr = NoAddr
    MaxNeighbours = 2
    MaxRetx = 5
    Packets <- OnePacket
    NoPacket = NoPacket
    IntIs16Bits = TRUE
    LocalBPs = {20}
    BeaconBPs = {0}
    TxTimes <- Millisecond
    Dead = {}
    Lossless = {}
INVARIANT EtxInRange
