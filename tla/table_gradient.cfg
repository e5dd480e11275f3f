\* Two slow deliveries in a row.
SPECIFICATION Spec
CONSTANTS
    a1 = a1  a2 = a2  a3 = a3  p1 = p1  p2 = p2
    Addrs <- TwoAddrs
    NoAddr = NoAddr
    MaxNeighbours = 2
    MaxRetx = 2
    Packets <- TwoPackets
    NoPacket = NoPacket
    IntIs16Bits = FALSE
    LocalBPs = {1, 4, 20}
    BeaconBPs = {0, 3}
    TxTimes <- SlowLinks
    Dead = {}
    Lossless = {}
SYMMETRY Symmetry
INVARIANT ChosenIsDownhill
