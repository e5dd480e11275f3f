-------------------------- MODULE MCIPDispatchSend --------------------------
(* Model values and symmetry for checking IPDispatchSend with TLC.         *)
EXTENDS IPDispatchSend, TLC

CONSTANTS i1, i2, i3

TwoInfos   == {i1, i2}
ThreeInfos == {i1, i2, i3}

\* The structures of a pool are interchangeable.
Symmetry == Permutations(Infos)
=============================================================================
