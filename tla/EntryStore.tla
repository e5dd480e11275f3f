----------------------------- MODULE EntryStore -----------------------------
(***************************************************************************)
(* BackIP's StackC and TinyOS's PoolP, as the queueing layer uses them:    *)
(* two rings in fixed arrays.  Entries are taken from the pool, pushed on  *)
(* the stack at either end, popped at either end and put back.             *)
(*                                                                         *)
(* The stack's top and bottom name the same cell when it is empty and when *)
(* it holds one entry; a cell that was popped keeps its contents.          *)
(***************************************************************************)
EXTENDS Integers, Sequences, FiniteSets

CONSTANTS
    PoolSize,        \* size of PoolP
    StackSize,       \* STACK_SIZE
    NoEntry          \* NULL

StoreAssumption == PoolSize \in Nat \ {0} /\ StackSize \in Nat \ {0}

Entries == 0 .. PoolSize - 1     \* the elements of the pool

VARIABLES
    stack, top, bottom, size,      \* StackC
    queue, index, free,            \* PoolP
    hand                           \* what the queueing layer holds

stackVars == <<stack, top, bottom, size>>
poolVars  == <<queue, index, free>>
vars      == <<stack, top, bottom, size, queue, index, free, hand>>

\* Init.init of the pool; the stack's variables are zero.
Init ==
    /\ stack = [i \in 0 .. StackSize - 1 |-> NoEntry]
    /\ top = 0 /\ bottom = 0 /\ size = 0
    /\ queue = [i \in 0 .. PoolSize - 1 |-> i]
    /\ index = 0 /\ free = PoolSize
    /\ hand = {}

After(i, n)  == IF i = n - 1 THEN 0 ELSE i + 1
Before(i, n) == IF i = 0 THEN n - 1 ELSE i - 1

-----------------------------------------------------------------------------
(* PoolP                                                                   *)

Get ==
    /\ IF free = 0 THEN UNCHANGED <<poolVars, hand>>
       ELSE /\ hand' = hand \cup {queue[index]}
            /\ queue' = [queue EXCEPT ![index] = NoEntry]
            /\ index' = After(index, PoolSize)
            /\ free' = free - 1
    /\ UNCHANGED stackVars

Wrapped(i) == IF i >= PoolSize THEN i - PoolSize ELSE i

Put(e) ==
    /\ IF free >= PoolSize THEN UNCHANGED <<poolVars, hand>>
       ELSE /\ queue' = [queue EXCEPT ![Wrapped(index + free)] = e]
            /\ free' = free + 1
            /\ hand' = hand \ {e}
            /\ UNCHANGED index
    /\ UNCHANGED stackVars

-----------------------------------------------------------------------------
(* StackC                                                                  *)

\* Slip: the top moves on also when the stack was empty.
AlwaysMoves == After(top, StackSize)

\* Where the next entry goes: into the cell of top and bottom if it is the
\* first.
TopCell    == IF size > 0 THEN After(top, StackSize) ELSE top
BottomCell == IF size > 0 THEN Before(bottom, StackSize) ELSE bottom

PushTop(e) ==
    /\ IF size = StackSize THEN UNCHANGED <<stackVars, hand>>
       ELSE /\ top' = TopCell
            /\ stack' = [stack EXCEPT ![TopCell] = e]
            /\ size' = size + 1
            /\ hand' = hand \ {e}
            /\ UNCHANGED bottom
    /\ UNCHANGED poolVars

PushBottom(e) ==
    /\ IF size = StackSize THEN UNCHANGED <<stackVars, hand>>
       ELSE /\ bottom' = BottomCell
            /\ stack' = [stack EXCEPT ![BottomCell] = e]
            /\ size' = size + 1
            /\ hand' = hand \ {e}
            /\ UNCHANGED top
    /\ UNCHANGED poolVars

\* The queueing layer looks at empty() or size() first.
PopTop ==
    /\ size > 0
    /\ hand' = hand \cup {stack[top]}
    /\ top' = IF size > 1 THEN Before(top, StackSize) ELSE top
    /\ size' = size - 1
    /\ UNCHANGED <<stack, bottom, poolVars>>

PopBottom ==
    /\ size > 0
    /\ hand' = hand \cup {stack[bottom]}
    /\ bottom' = IF size > 1 THEN After(bottom, StackSize) ELSE bottom
    /\ size' = size - 1
    /\ UNCHANGED <<stack, top, poolVars>>

Next ==
    \/ Get \/ PopTop \/ PopBottom
    \/ \E e \in hand : Put(e) \/ PushTop(e) \/ PushBottom(e)

Spec == Init /\ [][Next]_vars

-----------------------------------------------------------------------------
(* Properties.                                                             *)

\* Stack.element
Element(i) == stack[(i + bottom) % StackSize]

\* The cell of the i-th entry of the pool's ring, from index on.
Cell(i) == Wrapped(index + i)

Contents == [i \in 1 .. size |-> Element(i - 1)]
Free     == {queue[Cell(i)] : i \in 0 .. free - 1}

\* Every entry is once in the pool, on the stack or in hand, and the stack's
\* top is its last cell.
TwoRings ==
    /\ top = IF size = 0 THEN bottom ELSE (bottom + size - 1) % StackSize
    /\ \A i, j \in 0 .. free - 1 : queue[Cell(i)] = queue[Cell(j)] => i = j
    /\ \A i, j \in 0 .. size - 1 : Element(i) = Element(j) => i = j
    /\ \A i \in 0 .. size - 1 : Element(i) \in Entries \ (Free \cup hand)
    /\ Free \subseteq Entries \ hand
    /\ hand \subseteq Entries
    /\ free + size + Cardinality(hand) = PoolSize

\* However the two rings have been turned, the stack is a sequence with two
\* ends and the pool a set: nothing is popped that was not pushed, nothing is
\* got twice, and an operation is refused only when there is no room.
Abstract == INSTANCE Store WITH seq <- Contents, pool <- Free,
                                Capacity <- StackSize
ImplementsStore == Abstract!Spec
=============================================================================
