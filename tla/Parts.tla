------------------------------- MODULE Parts --------------------------------
(***************************************************************************)
(* The data structures that BackIP rests on, side by side: the task list,  *)
(* the stack and pool of queue entries, the heap and the route table.      *)
(* They share no state; part says which of them a behaviour exercises, so  *)
(* that the states add up instead of multiplying.  The heap is IpMalloc    *)
(* itself, the others are instances.                                       *)
(***************************************************************************)
EXTENDS IpMalloc, Sequences

CONSTANTS
    Tasks, NoTask,                                        \* TaskList
    PoolSize, StackSize, NoEntry,                         \* EntryStore
    TableSize, MaxLen, Bytes, Hops, NoHop, MaxKey, MaxAdds  \* ForwardingTable

VARIABLES part

VARIABLES m_head, m_tail, m_next, ret, fifo
VARIABLES stack, top, bottom, size, queue, index, free, hand
VARIABLES table, last_key, added, known, adds

T == INSTANCE TaskList
E == INSTANCE EntryStore
R == INSTANCE ForwardingTable WITH Size <- TableSize

ASSUME PartsAssumption ==
    /\ T!TasksAssumption /\ E!StoreAssumption /\ R!TableAssumption
    /\ HeapAssumption

ofTasks   == <<m_head, m_tail, m_next, ret, fifo>>
ofEntries == <<stack, top, bottom, size, queue, index, free, hand>>
ofHeap    == <<region, blocks>>
ofRoutes  == <<table, last_key, added, known, adds>>
allVars == <<part, m_head, m_tail, m_next, ret, fifo, stack, top, bottom,
             size, queue, index, free, hand, region, blocks, table, last_key,
             added, known, adds>>

PartsInit ==
    /\ part \in {"tasks", "entries", "heap", "routes"}
    /\ T!Init /\ E!Init /\ Init /\ R!Init

TaskStep ==
    /\ part = "tasks" /\ T!Next
    /\ UNCHANGED <<part, ofEntries, ofHeap, ofRoutes>>

EntryStep ==
    /\ part = "entries" /\ E!Next
    /\ UNCHANGED <<part, ofTasks, ofHeap, ofRoutes>>

HeapStep ==
    /\ part = "heap" /\ Next
    /\ UNCHANGED <<part, ofTasks, ofEntries, ofRoutes>>

RouteStep ==
    /\ part = "routes" /\ R!Next
    /\ UNCHANGED <<part, ofTasks, ofEntries, ofHeap>>

PartsNext == TaskStep \/ EntryStep \/ HeapStep \/ RouteStep

PartsSpec == PartsInit /\ [][PartsNext]_allVars

-----------------------------------------------------------------------------
(* Properties.                                                             *)

\* Tasks run in the order of their posts: see TaskList.
TasksInOrder == T!ImplementsQueue

\* The rings of StackC and PoolP are a stack and a set: see EntryStore.
EntriesStored == E!ImplementsStore

\* Packets take the longest match: see ForwardingTable.
LongestMatch == R!LongestMatch

\* Moving entries up and down loses no route: see ForwardingTable.
OthersStay == R!OthersStay

\* A key names one route: see ForwardingTable.
KeysUnique == R!KeysUnique

\* What the proofs rest on, in one conjunction.
Supporting ==
    /\ T!Represents
    /\ E!TwoRings
    /\ RegionsTile /\ InUseHeld
    /\ KeysUnique /\ R!Sorted

\* Statements of comments that the code does not keep.
UpdateTakesEffect == R!UpdateTakesEffect
EventsTell        == R!EventsTell
=============================================================================
