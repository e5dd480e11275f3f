---------------------------- MODULE LinkService -----------------------------
(***************************************************************************)
(* What the layers above expect of the CC2420 link: a frame that is        *)
(* accepted is put on the air between once and the number of times asked   *)
(* for, and is answered once: at the first attempt that is acknowledged,   *)
(* or with FAIL after the last.  The answer says how often it was sent.    *)
(***************************************************************************)
EXTENDS Integers

CONSTANTS MaxRetries       \* the largest number of attempts asked for

VARIABLES
    limit,           \* attempts the frame in work may use; 0 if there is none
    attempts,        \* attempts that have failed
    answer           \* the last sendDone: its error and the attempts it reports

Init ==
    /\ limit = 0 /\ attempts = 0
    /\ answer = [ok |-> FALSE, attempts |-> 0]

Accept ==
    /\ limit = 0
    /\ limit' \in 1 .. MaxRetries
    /\ UNCHANGED <<attempts, answer>>

Fail ==
    /\ attempts + 1 < limit
    /\ attempts' = attempts + 1
    /\ UNCHANGED <<limit, answer>>

Answer ==
    /\ attempts < limit
    /\ limit' = 0 /\ attempts' = 0
    /\ \E ok \in BOOLEAN :
         /\ answer' = [ok |-> ok, attempts |-> attempts + 1]
         /\ ~ok => attempts + 1 = limit

Next == Accept \/ Fail \/ Answer

Spec == Init /\ [][Next]_<<limit, attempts, answer>>
=============================================================================
