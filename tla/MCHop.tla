---- MODULE MCHop ----
(* Instances of Hop for TLC. *)
EXTENDS Hop

CONSTANTS x, y, z

ThreeOthers == {x, y, z}
====
