------------------------------ MODULE IpMalloc ------------------------------
(***************************************************************************)
(* The heap of ip_malloc.c, from which reassembly takes its buffers.       *)
(*                                                                         *)
(* The heap is cut into regions, each with a header word (bndrt_t) that    *)
(* holds its length, header included, and whether it is in use; the next   *)
(* region starts where it ends.  The map region has the headers that can   *)
(* be reached from the start of the heap.  The loops of ip_malloc and      *)
(* ip_free, which walk from header to header, are the choice of the first  *)
(* region with some property (RegionsTile justifies this).                 *)
(*                                                                         *)
(* blocks is a history variable: the addresses that callers hold, with the *)
(* length each asked for.  Left out: IP_MALLOC_FLAGS, which no code reads, *)
(* and ip_malloc_freespace, which changes nothing.                         *)
(***************************************************************************)
EXTENDS Integers, FiniteSets

CONSTANTS
    HeapSize,        \* IP_MALLOC_HEAP_SIZE
    Requests,        \* the lengths that callers ask for
    IntSize          \* the number of values of uint16_t

HeaderSize == 2      \* sizeof(bndrt_t)
Align      == 2      \* IP_MALLOC_ALIGN

HeapAssumption ==
    /\ HeapSize \in Nat /\ HeapSize % 2 = 0 /\ HeapSize > 0
    /\ IntSize \in Nat \ {0}
    /\ \A n \in Requests : n \in Nat /\ n + 5 < IntSize

VARIABLES
    region,          \* the length and the use of each region, by its address
    blocks           \* what callers hold: the length asked for, by address

vars == <<region, blocks>>

Regions == DOMAIN region
End(r)  == r + region[r].len

\* ip_malloc_init
Init ==
    /\ region = [r \in {0} |-> [len |-> HeapSize, inUse |-> FALSE]]
    /\ blocks = [b \in {} |-> 0]

-----------------------------------------------------------------------------
\* Slip: one header too few is asked for.
NeedsOne(n) == (n + HeaderSize + (n % Align)) % IntSize

\* The length that must be free: the request, two headers, and rounding up.
Needed(n) ==
    LET sz == (n + 2 * HeaderSize) % IntSize
    IN  (sz + (sz % Align)) % IntSize

Fits(r, n)     == ~region[r].inUse /\ region[r].len >= Needed(n)
FirstFit(r, n) == Fits(r, n) /\ \A s \in Regions : Fits(s, n) => r <= s

\* ip_malloc: NULL
MallocFails(n) ==
    /\ \A r \in Regions : ~Fits(r, n)
    /\ UNCHANGED vars

\* ip_malloc: the region is cut; what remains may be no more than a header.
MallocTakes(r, n) ==
    LET len == Needed(n) - HeaderSize
    IN  /\ FirstFit(r, n)
        /\ region' = [s \in Regions \cup {r + len} |->
                        CASE s = r       -> [len |-> len, inUse |-> TRUE]
                          [] s = r + len -> [len |-> region[r].len - len,
                                             inUse |-> FALSE]
                          [] OTHER       -> region[s]]
        /\ blocks' = [b \in DOMAIN blocks \cup {r + HeaderSize} |->
                        IF b = r + HeaderSize THEN n ELSE blocks[b]]

\* Slip: what was freed is joined with the region before it only.
JoinsPrevious(r) == {r}

\* The regions that ip_free joins: the one freed and the one after it, if
\* that is free; then the one before them, if that is free.
Joined(r) ==
    {r} \cup {s \in Regions : s = End(r) /\ ~region[s].inUse}

First(r) ==
    IF \E p \in Regions : End(p) = r /\ ~region[p].inUse
    THEN CHOOSE p \in Regions : End(p) = r /\ ~region[p].inUse
    ELSE r

Last(r) == IF Joined(r) = {r} THEN r ELSE End(r)

\* ip_free of an address that ip_malloc returned.
Free(b) ==
    LET r == b - HeaderSize
    IN  /\ b \in DOMAIN blocks
        /\ region' = [s \in (Regions \ Joined(r)) \cup {First(r)} |->
                        IF s = First(r)
                        THEN [len |-> End(Last(r)) - s, inUse |-> FALSE]
                        ELSE region[s]]
        /\ blocks' = [c \in DOMAIN blocks \ {b} |-> blocks[c]]

Next ==
    \/ \E n \in Requests :
         MallocFails(n) \/ \E r \in Regions : MallocTakes(r, n)
    \/ \E b \in DOMAIN blocks : Free(b)

Spec == Init /\ [][Next]_vars

-----------------------------------------------------------------------------
(* Properties.                                                             *)

\* The regions cover the heap without gap or overlap: from the header at 0
\* each leads to the next, and the last ends where the heap does.
RegionsTile ==
    /\ 0 \in Regions
    /\ \A r \in Regions :
         /\ r \in Nat /\ region[r].len \in Nat /\ region[r].len >= HeaderSize
         /\ End(r) \in Regions \cup {HeapSize}
         /\ End(r) <= HeapSize
         /\ \A s \in Regions : s <= r \/ End(r) <= s

\* What callers hold lies in the heap, is as long as they asked for, and
\* overlaps neither another block nor a header, whatever was cut and joined.
BlocksApart ==
    \A b \in DOMAIN blocks :
      /\ b + blocks[b] <= HeapSize
      /\ \A c \in DOMAIN blocks : b < c => b + blocks[b] + HeaderSize <= c
      /\ \A r \in Regions : r + HeaderSize <= b \/ b + blocks[b] <= r

\* Free space is never split for good: no two free regions touch, so that once
\* all is given back there is one region again.
NoSplinters ==
    \A r \in Regions :
      ~region[r].inUse /\ End(r) \in Regions => region[End(r)].inUse

\* A region is in use exactly as long as a caller holds its block.
InUseHeld ==
    \A r \in Regions : region[r].inUse <=> r + HeaderSize \in DOMAIN blocks
=============================================================================
