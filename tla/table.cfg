\* One of the neighbours never acknowledges, one always does, and one is slow;
\* room for two.  The largest backpressure is among those of this node.
SPECIFICATION FairSpec
CONSTANTS
    a1 = a1  a2 = a2  a3 = a3  p1 = p1  p2 = p2
    Addrs <- ThreeAddrs
    NoAddr = NoAddr
    MaxNeighbours = 2
    MaxRetx = 1
    Packets <- OnePacket
    NoPacket = NoPacket
    IntIs16Bits = FALSE
    LocalBPs = {5, 65546}
    BeaconBPs = {1}
    TxTimes <- OneSlowLink
    Dead = {a1}
    Lossless = {a2}
PROPERTY DeadLinkAbandoned
INVARIANTS EtxInRange ResultsFindTheirEntry ChosenWell
