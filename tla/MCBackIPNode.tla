---------------------------- MODULE MCBackIPNode ----------------------------
(* Model values for checking BackIPNode with TLC.                          *)
EXTENDS BackIPNode, TLC

CONSTANTS e1, e2, e3, i1, i2

TwoEntries == {e1, e2}
ThreeEntries == {e1, e2, e3}
TwoInfos   == {i1, i2}

\* Queue entries and send_info structures are interchangeable.
Symmetry == Permutations(Entries) \cup Permutations(Infos)
=============================================================================
