---- MODULE MCReassembly ----
(* Instances of Reassembly for TLC. *)
EXTENDS Reassembly

CONSTANTS a, b, b1, b2

\* Source a uses a tag again, for a packet of another size; b uses the same tag.
ThreePackets == <<[src |-> a, tag |-> 1, size |-> 2],
                  [src |-> a, tag |-> 1, size |-> 3],
                  [src |-> b, tag |-> 1, size |-> 2]>>

TwoBuffers == {b1, b2}
====
