-------------------------- MODULE MCNeighbourTable --------------------------
(***************************************************************************)
(* Instances of NeighbourTable for TLC.                                    *)
(***************************************************************************)
EXTENDS NeighbourTable, TLC

CONSTANTS a1, a2, a3, p1, p2

OneAddr    == {a1}
TwoAddrs   == {a1, a2}
ThreeAddrs == {a1, a2, a3}
OnePacket  == {p1}
TwoPackets == {p1, p2}

\* Transmission times: of equal links, of fast and slow ones, and of links one
\* of which is so slow that its rate becomes 0.
Times(ts)   == [a \in Addrs |-> ts]
Millisecond == Times({1})
FastLinks   == Times({0, 1})
UnlikeLinks == Times({0, 1, 9000})
SlowLinks   == Times({0, 1, 60000})
OneSlowLink == [FastLinks EXCEPT ![a3] = {15000}]

Symmetry   == Permutations(TwoPackets)
=============================================================================
