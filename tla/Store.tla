------------------------------- MODULE Store --------------------------------
(***************************************************************************)
(* What the queueing layer expects of Stack and Pool: a double-ended       *)
(* sequence and a set, both bounded, between which the entries move.  The  *)
(* layer holds what it has taken from one and not yet put into the other.  *)
(* BackIPQueueing uses the stack and the pools in this form.               *)
(***************************************************************************)
EXTENDS Integers, Sequences

CONSTANTS
    Entries,         \* the elements of the pool
    Capacity         \* size of the stack

VARIABLES
    seq,             \* the stack, bottom first
    pool,            \* what is free
    hand             \* what the queueing layer holds

store == <<seq, pool, hand>>

Init == seq = <<>> /\ pool = Entries /\ hand = {}

Get ==
    \/ pool = {} /\ UNCHANGED store
    \/ \E e \in pool : /\ pool' = pool \ {e} /\ hand' = hand \cup {e}
                       /\ UNCHANGED seq

Put(e) == /\ pool' = pool \cup {e} /\ hand' = hand \ {e}
          /\ UNCHANGED seq

PushTop(e) ==
    IF Len(seq) = Capacity THEN UNCHANGED store
    ELSE seq' = Append(seq, e) /\ hand' = hand \ {e} /\ UNCHANGED pool

PushBottom(e) ==
    IF Len(seq) = Capacity THEN UNCHANGED store
    ELSE seq' = <<e>> \o seq /\ hand' = hand \ {e} /\ UNCHANGED pool

PopTop ==
    /\ seq # <<>>
    /\ hand' = hand \cup {seq[Len(seq)]}
    /\ seq' = SubSeq(seq, 1, Len(seq) - 1)
    /\ UNCHANGED pool

PopBottom ==
    /\ seq # <<>>
    /\ hand' = hand \cup {Head(seq)}
    /\ seq' = Tail(seq)
    /\ UNCHANGED pool

Next ==
    \/ Get \/ PopTop \/ PopBottom
    \/ \E e \in hand : Put(e) \/ PushTop(e) \/ PushBottom(e)

Spec == Init /\ [][Next]_store
=============================================================================
