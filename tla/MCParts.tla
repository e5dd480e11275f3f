------------------------------ MODULE MCParts -------------------------------
(* Model values for checking Parts with TLC.                               *)
EXTENDS Parts

CONSTANTS t1, t2, t3, t4

FourTasks == {t1, t2, t3, t4}
=============================================================================
