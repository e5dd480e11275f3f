------------------------- MODULE MCBackIPQueueing -------------------------
(* Model values and symmetry for checking BackIPQueueing with TLC.         *)
EXTENDS BackIPQueueing, TLC

CONSTANTS e1, e2, e3

TwoEntries   == {e1, e2}
ThreeEntries == {e1, e2, e3}

\* The entries are interchangeable buffers.
Symmetry == Permutations(Entries)
=============================================================================
