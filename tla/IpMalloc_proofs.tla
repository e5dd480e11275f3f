--------------------------- MODULE IpMalloc_proofs ---------------------------
(***************************************************************************)
(* For any heap and any sequence of calls, what ip_malloc.c gives out lies *)
(* apart, and free space does not fall into pieces.                        *)
(*                                                                         *)
(* The inductive invariant adds to RegionsTile, NoSplinters and InUseHeld  *)
(* that what a caller holds is the inside of a region long enough for it   *)
(* (BlocksInside).                                                         *)
(***************************************************************************)
EXTENDS IpMalloc, TLAPS

RegionType == [len : Nat, inUse : BOOLEAN]

BlocksInside ==
  \A b \in DOMAIN blocks :
    /\ b \in Nat /\ blocks[b] \in Nat
    /\ b - HeaderSize \in Regions
    /\ blocks[b] + HeaderSize <= region[b - HeaderSize].len

IInv ==
  /\ \A r \in Regions : region[r] \in RegionType
  /\ RegionsTile /\ NoSplinters /\ InUseHeld /\ BlocksInside

-----------------------------------------------------------------------------
LEMMA MakesRegion ==
  ASSUME NEW n \in Nat, NEW u \in BOOLEAN
  PROVE  [len |-> n, inUse |-> u] \in RegionType
BY DEF RegionType

\* The sum of the lengths does not overflow: a request, two headers, and
\* rounding up to a multiple of two.
LEMMA NeededIs ==
  ASSUME HeapAssumption, NEW n \in Requests
  PROVE  /\ n \in Nat /\ Needed(n) \in Nat
         /\ Needed(n) >= n + 4
<1>1. n \in Nat /\ IntSize \in Nat \ {0} /\ n + 5 < IntSize
  BY DEF HeapAssumption
<1>2. (n + 2 * HeaderSize) % IntSize = n + 4
  BY <1>1 DEF HeaderSize
<1>3. (n + 4) % Align \in {0, 1}
  BY <1>1 DEF Align
<1>4. \A d \in {0, 1} : (n + 4 + d) % IntSize = n + 4 + d
  BY <1>1
<1>5. Needed(n) = n + 4 + ((n + 4) % Align)
  BY <1>2, <1>3, <1>4 DEF Needed
<1> QED BY <1>1, <1>3, <1>5

\* What a step must leave of each region and block.
LEMMA TileParts ==
  ASSUME HeapAssumption, IInv, NEW r \in Regions
  PROVE  /\ HeapSize \in Nat /\ r \in Nat /\ region[r].len \in Nat /\ region[r].len >= 2
         /\ region[r].inUse \in BOOLEAN
         /\ End(r) \in Nat /\ r < End(r) /\ r + 2 <= End(r)
         /\ End(r) <= HeapSize
         /\ End(r) \in Regions \cup {HeapSize}
         /\ \A s \in Regions : s <= r \/ End(r) <= s
BY DEF HeapAssumption, IInv, RegionsTile, RegionType, End, HeaderSize

LEMMA InitInv == ASSUME HeapAssumption, Init  PROVE IInv
<1>1. Regions = {0} /\ region[0] = [len |-> HeapSize, inUse |-> FALSE]
  BY DEF Init, Regions
<1>2. HeapSize \in Nat /\ HeapSize >= 2
  BY DEF HeapAssumption
<1>3. RegionsTile
  BY <1>1, <1>2 DEF RegionsTile, End, HeaderSize
<1>4. NoSplinters
  BY <1>1, <1>2 DEF NoSplinters, End
<1>5. DOMAIN blocks = {}
  BY DEF Init
<1>6. InUseHeld /\ BlocksInside
  BY <1>1, <1>5 DEF InUseHeld, BlocksInside
<1>7. \A r \in Regions : region[r] \in RegionType
  BY <1>1, <1>2, MakesRegion
<1> QED BY <1>3, <1>4, <1>6, <1>7 DEF IInv

-----------------------------------------------------------------------------
LEMMA MallocInv ==
  ASSUME HeapAssumption, IInv, NEW n \in Requests, NEW r \in Regions,
         MallocTakes(r, n)
  PROVE  IInv'
<1> DEFINE len == Needed(n) - HeaderSize
           m   == r + len
<1>1. /\ len \in Nat /\ len >= n + 2 /\ n \in Nat
      /\ region[r].len >= len + 2 /\ region[r].inUse = FALSE
  <2>1. region[r].inUse = FALSE /\ region[r].len >= Needed(n)
    BY TileParts DEF MallocTakes, FirstFit, Fits
  <2>2. region[r].len \in Nat
    BY TileParts
  <2> QED BY <2>1, <2>2, NeededIs DEF HeaderSize
<1>2. /\ Regions' = Regions \cup {m}
      /\ region'[r] = [len |-> len, inUse |-> TRUE]
      /\ m # r => region'[m] = [len |-> region[r].len - len, inUse |-> FALSE]
      /\ \A s \in Regions \ {r, m} : region'[s] = region[s]
  <2>1. region' = [s \in Regions \cup {m} |->
                     CASE s = r -> [len |-> len, inUse |-> TRUE]
                       [] s = m -> [len |-> region[r].len - len,
                                    inUse |-> FALSE]
                       [] OTHER -> region[s]]
    BY DEF MallocTakes
  <2> HIDE DEF len
  <2>6. m # r
    BY <1>1, TileParts
  <2> HIDE DEF m
  <2>2. Regions' = Regions \cup {m}
    BY <2>1 DEF Regions
  <2>3. region'[r] = [len |-> len, inUse |-> TRUE]
    BY <2>1, <2>6
  <2>4. m # r => region'[m] = [len |-> region[r].len - len, inUse |-> FALSE]
    BY <2>1
  <2>5. \A s \in Regions \ {r, m} : region'[s] = region[s]
    BY <2>1
  <2> QED BY <2>2, <2>3, <2>4, <2>5
<1> HIDE DEF len
<1>3. /\ m \in Nat /\ r < m /\ m < End(r) /\ m \notin Regions
      /\ m # HeapSize
  BY <1>1, TileParts DEF End
<1>4. /\ End(r)' = m /\ End(m)' = End(r)
      /\ \A s \in Regions \ {r} : End(s)' = End(s)
  <2>1. End(r)' = m
    BY <1>2 DEF End
  <2>2. End(m)' = End(r)
    BY <1>1, <1>2, <1>3, TileParts DEF End
  <2>3. ASSUME NEW s \in Regions \ {r}  PROVE End(s)' = End(s)
    BY <1>2, <1>3 DEF End
  <2> QED BY <2>1, <2>2, <2>3
<1>5. DOMAIN blocks' = DOMAIN blocks \cup {r + 2} /\ blocks'[r + 2] = n
      /\ \A b \in DOMAIN blocks \ {r + 2} : blocks'[b] = blocks[b]
  BY DEF MallocTakes, HeaderSize
<1> HIDE DEF m
<1>6. \A s \in Regions' : region'[s] \in RegionType
  <2>1. region'[r] \in RegionType
    BY <1>1, <1>2, MakesRegion
  <2>2. region[r].len - len \in Nat
    BY <1>1, TileParts
  <2>3. region'[m] \in RegionType
    <3>1. region'[m] = [len |-> region[r].len - len, inUse |-> FALSE]
      BY <1>2, <1>3, TileParts
    <3> QED BY <3>1, <2>2, MakesRegion
  <2>4. \A s \in Regions \ {r, m} : region'[s] \in RegionType
    BY <1>2 DEF IInv
  <2> QED BY <2>1, <2>3, <2>4, <1>2
<1>7. RegionsTile'
  <2>1. 0 \in Regions'
    BY <1>2 DEF IInv, RegionsTile
  <2>2. ASSUME NEW s \in Regions'
        PROVE  /\ s \in Nat /\ region'[s].len \in Nat
               /\ region'[s].len >= HeaderSize
               /\ End(s)' \in Regions' \cup {HeapSize} /\ End(s)' <= HeapSize
               /\ \A t \in Regions' : t <= s \/ End(s)' <= t
    <3>1. CASE s = r
      <4>1. /\ region'[s].len = len /\ End(s)' = m
        BY <3>1, <1>2, <1>4
      <4>2. m <= HeapSize
        BY <1>3, TileParts
      <4>3. \A t \in Regions' : t <= r \/ m <= t
        BY <1>2, <1>3, TileParts
      <4> QED BY <3>1, <4>1, <4>2, <4>3, <1>1, <1>2, TileParts DEF HeaderSize
    <3>2. CASE s = m
      <4>1. /\ region'[s].len = region[r].len - len /\ End(s)' = End(r)
        BY <3>2, <1>2, <1>3, <1>4
      <4>2. region'[s].len \in Nat /\ region'[s].len >= 2
        BY <4>1, <1>1, TileParts
      <4>3. \A t \in Regions' : t <= m \/ End(r) <= t
        BY <1>2, <1>3, TileParts
      <4>4. End(r) \in Regions' \cup {HeapSize} /\ End(r) <= HeapSize
        BY <1>2, TileParts
      <4> QED BY <3>2, <4>1, <4>2, <4>3, <4>4, <1>3 DEF HeaderSize
    <3>3. CASE s \in Regions \ {r}
      <4>1. region'[s] = region[s] /\ End(s)' = End(s)
        BY <3>3, <1>2, <1>3, <1>4
      <4>2. s <= r \/ End(r) <= s
        BY <3>3, TileParts
      <4>3. r <= s \/ End(s) <= r
        BY <3>3, TileParts
      <4>4. m <= s \/ End(s) <= m
        BY <4>2, <4>3, <3>3, <1>3, TileParts
      <4>5. \A t \in Regions' : t <= s \/ End(s) <= t
        BY <4>4, <4>2, <4>3, <3>3, <1>2, <1>3, TileParts
      <4> QED BY <4>1, <4>5, <3>3, <1>2, TileParts DEF HeaderSize
    <3> QED BY <3>1, <3>2, <3>3, <1>2
  <2> QED BY <2>1, <2>2 DEF RegionsTile
<1>8. NoSplinters'
  <2>1. ASSUME NEW s \in Regions', ~region'[s].inUse, End(s)' \in Regions'
        PROVE  region'[End(s)'].inUse
    <3>1. s # r
      BY <2>1, <1>2
    <3>2. CASE s = m
      <4>1. End(r) \in Regions /\ End(r) # r
        BY <3>2, <2>1, <1>2, <1>3, <1>4, TileParts
      <4>2. region[End(r)].inUse
        BY <4>1, <1>1 DEF IInv, NoSplinters
      <4> QED BY <4>1, <4>2, <3>2, <1>2, <1>3, <1>4
    <3>3. CASE s \in Regions \ {r}
      <4>1. End(s)' = End(s) /\ region'[s] = region[s]
        BY <3>3, <1>2, <1>3, <1>4
      <4>2. End(s) \in Regions
        BY <4>1, <3>3, <2>1, <1>2, <1>3, TileParts
      <4>3. region[End(s)].inUse
        BY <4>1, <4>2, <3>3, <2>1 DEF IInv, NoSplinters
      <4> QED BY <4>1, <4>2, <4>3, <1>2, <1>3
    <3> QED BY <3>1, <3>2, <3>3, <1>2
  <2> QED BY <2>1 DEF NoSplinters
<1>9. BlocksInside'
  <2>1. ASSUME NEW b \in DOMAIN blocks'
        PROVE  /\ b \in Nat /\ blocks'[b] \in Nat
               /\ b - 2 \in Regions' /\ blocks'[b] + 2 <= region'[b - 2].len
    <3>1. CASE b = r + 2
      <4>1. r \in Nat /\ b - 2 = r
        BY <3>1, TileParts
      <4> QED BY <4>1, <3>1, <1>1, <1>2, <1>5
    <3>2. CASE b # r + 2
      <4>1. b \in DOMAIN blocks /\ blocks'[b] = blocks[b]
        BY <3>2, <1>5
      <4>2. /\ b \in Nat /\ blocks[b] \in Nat /\ b - 2 \in Regions
            /\ blocks[b] + 2 <= region[b - 2].len
        BY <4>1 DEF IInv, BlocksInside, HeaderSize
      <4>3. b - 2 # r
        BY <4>2, <3>2, TileParts
      <4> QED BY <4>1, <4>2, <4>3, <1>2, <1>3
    <3> QED BY <3>1, <3>2
  <2> QED BY <2>1 DEF BlocksInside, HeaderSize
<1>10. InUseHeld'
  <2>1. ASSUME NEW s \in Regions'
        PROVE  region'[s].inUse <=> s + 2 \in DOMAIN blocks'
    <3>1. CASE s = r
      BY <3>1, <1>2, <1>5
    <3>2. CASE s = m
      <4>1. m + 2 \notin DOMAIN blocks
        <5>1. (m + 2) - 2 = m
          BY <1>3
        <5> QED BY <5>1, <1>3 DEF IInv, BlocksInside, HeaderSize
      <4>2. m + 2 # r + 2
        BY <1>3, TileParts
      <4> QED BY <4>1, <4>2, <3>2, <1>2, <1>3, <1>5
    <3>3. CASE s \in Regions \ {r}
      <4>1. s + 2 # r + 2 /\ region'[s] = region[s]
        BY <3>3, <1>2, <1>3, TileParts
      <4>2. region[s].inUse <=> s + 2 \in DOMAIN blocks
        BY <3>3 DEF IInv, InUseHeld, HeaderSize
      <4> QED BY <4>1, <4>2, <1>5
    <3> QED BY <3>1, <3>2, <3>3, <1>2
  <2> QED BY <2>1 DEF InUseHeld, HeaderSize
<1> QED BY <1>6, <1>7, <1>8, <1>9, <1>10 DEF IInv

-----------------------------------------------------------------------------
\* Two regions do not end at the same place.
LEMMA EndsDiffer ==
  ASSUME HeapAssumption, IInv, NEW r \in Regions, NEW s \in Regions,
         End(r) = End(s)
  PROVE  r = s
<1>1. /\ r \in Nat /\ s \in Nat /\ End(r) \in Nat
      /\ r < End(r) /\ s < End(s)
      /\ s <= r \/ End(r) <= s
      /\ r <= s \/ End(s) <= r
  BY TileParts
<1> QED BY <1>1

\* The region that the joined ones become: it starts at r, or at the one free
\* region p before r, and ends at e, behind r and the free region after r.
LEMMA JoinedParts ==
  ASSUME HeapAssumption, IInv, NEW r \in Regions, region[r].inUse
  PROVE  /\ First(r) \in Regions /\ First(r) <= r
         /\ First(r) # r => ~region[First(r)].inUse /\ End(First(r)) = r
         /\ \A s \in Regions : End(s) = r /\ ~region[s].inUse => s = First(r)
         /\ Last(r) \in Regions /\ r <= Last(r)
         /\ Joined(r) = {r, Last(r)}
         /\ Last(r) # r => Last(r) = End(r) /\ ~region[Last(r)].inUse
         /\ Last(r) = r /\ End(r) \in Regions => region[End(r)].inUse
         /\ First(r) \notin Joined(r) \/ First(r) = r
<1>1. /\ First(r) \in Regions
      /\ First(r) # r => ~region[First(r)].inUse /\ End(First(r)) = r
  BY DEF First
<1>2. First(r) <= r
  BY <1>1, TileParts
<1>3. ASSUME NEW s \in Regions, End(s) = r, ~region[s].inUse
      PROVE  s = First(r)
  <2>1. End(First(r)) = r
    BY <1>3 DEF First
  <2> QED BY <2>1, <1>1, <1>3, EndsDiffer
<1>4. /\ Joined(r) = {r} \/ Joined(r) = {r, End(r)}
      /\ Joined(r) # {r} => End(r) \in Regions /\ ~region[End(r)].inUse
  BY DEF Joined
<1>5. r < End(r) /\ r \in Nat /\ End(r) \in Nat
  BY TileParts
<1>6. Last(r) = IF Joined(r) = {r} THEN r ELSE End(r)
  BY DEF Last
<1>7. End(r) \in Regions /\ Joined(r) = {r} => region[End(r)].inUse
  <2>1. End(r) # r
    BY <1>5
  <2>2. End(r) \in Regions /\ ~region[End(r)].inUse => End(r) \in Joined(r)
    BY DEF Joined
  <2> QED BY <2>1, <2>2
<1>8. Joined(r) = {r, Last(r)}
  BY <1>4, <1>6
<1>9. Last(r) \in Regions /\ r <= Last(r)
  BY <1>4, <1>5, <1>6
<1>10. Last(r) # r => Last(r) = End(r) /\ ~region[Last(r)].inUse
  BY <1>4, <1>6
<1>11. Last(r) = r => Joined(r) = {r}
  BY <1>8
<1>12. First(r) \notin Joined(r) \/ First(r) = r
  <2>1. First(r) # r => First(r) # End(r)
    BY <1>1, <1>2, <1>5, TileParts
  <2> QED BY <2>1, <1>8, <1>10
<1> QED BY <1>1, <1>2, <1>3, <1>7, <1>8, <1>9, <1>10, <1>11, <1>12

LEMMA FreeInv ==
  ASSUME HeapAssumption, IInv, NEW b \in DOMAIN blocks, Free(b)
  PROVE  IInv'
<1> DEFINE r == b - HeaderSize
<1>1. r \in Regions /\ b \in Nat /\ r + 2 = b /\ region[r].inUse
  BY DEF IInv, BlocksInside, InUseHeld, HeaderSize
<1>2. PICK f \in Regions, l \in Regions, e \in Nat :
        f = First(r) /\ l = Last(r) /\ e = End(Last(r))
  BY <1>1, JoinedParts, TileParts
<1>3. /\ Regions' = (Regions \ Joined(r)) \cup {f}
      /\ region'[f] = [len |-> e - f, inUse |-> FALSE]
      /\ \A s \in Regions' \ {f} : region'[s] = region[s]
  <2>1. region' = [s \in (Regions \ Joined(r)) \cup {f} |->
                     IF s = f THEN [len |-> e - s, inUse |-> FALSE]
                     ELSE region[s]]
    BY <1>2 DEF Free
  <2>2. Regions' = (Regions \ Joined(r)) \cup {f}
    BY <2>1 DEF Regions
  <2> QED BY <2>1, <2>2
<1>blocks. DOMAIN blocks' = DOMAIN blocks \ {b}
       /\ \A c \in DOMAIN blocks' : blocks'[c] = blocks[c]
  BY DEF Free
<1> HIDE DEF r
<1>4. /\ f \in Regions /\ f <= r /\ l \in Regions /\ r <= l
      /\ f # r => ~region[f].inUse /\ End(f) = r
      /\ \A s \in Regions : End(s) = r /\ ~region[s].inUse => s = f
      /\ Joined(r) = {r, l}
      /\ l # r => l = End(r) /\ ~region[l].inUse
      /\ l = r /\ End(r) \in Regions => region[End(r)].inUse
      /\ f \notin Joined(r) \/ f = r
  BY <1>1, <1>2, JoinedParts
<1>5. /\ e = End(l) /\ l < e /\ e <= HeapSize /\ l + 2 <= e
      /\ e \in Regions \cup {HeapSize} /\ HeapSize \in Nat
      /\ f \in Nat /\ r \in Nat /\ l \in Nat
      /\ f < e /\ f + 2 <= e
  <2>1. /\ e = End(l) /\ l < e /\ e <= HeapSize /\ l + 2 <= e
        /\ e \in Regions \cup {HeapSize} /\ HeapSize \in Nat
        /\ f \in Nat /\ r \in Nat /\ l \in Nat
    BY <1>1, <1>2, <1>4, TileParts
  <2> QED BY <2>1, <1>4
<1>6. /\ Regions' = (Regions \ {r, l}) \cup {f}
      /\ e \in Regions => e \in Regions' \ {f}
      /\ \A s \in Regions' : s \in Regions
  <2>1. Regions' = (Regions \ {r, l}) \cup {f}
    BY <1>3, <1>4
  <2>2. e # r /\ e # l /\ e # f
    BY <1>4, <1>5
  <2> QED BY <2>1, <2>2, <1>4
<1>7. End(f)' = e /\ \A s \in Regions' \ {f} : End(s)' = End(s)
  <2>1. End(f)' = e
    BY <1>3, <1>5 DEF End
  <2>2. ASSUME NEW s \in Regions' \ {f}  PROVE End(s)' = End(s)
    BY <1>3 DEF End
  <2> QED BY <2>1, <2>2
\* A region that is left alone is followed by one that is left, and that one
\* is the joined one only if the region is in use.
<1>8. ASSUME NEW s \in Regions' \ {f}
      PROVE  /\ End(s) \in Regions' \cup {HeapSize}
             /\ End(s) = f => region[s].inUse
  <2>1. /\ s \in Regions /\ s # r /\ s # l
        /\ End(s) \in Regions \cup {HeapSize}
    BY <1>4, <1>6, TileParts
  <2>2. End(s) = l => l = r
    BY <2>1, <1>1, <1>4, EndsDiffer
  <2>3. End(s) = r => f = r
    <3>1. CASE End(s) = r /\ f # r
      BY <3>1, <2>1, <1>4, EndsDiffer
    <3> QED BY <3>1
  <2>4. End(s) = f => region[s].inUse
    <3>1. CASE f = r
      BY <3>1, <2>1, <1>4
    <3>2. CASE f # r
      BY <3>2, <2>1, <1>4 DEF IInv, NoSplinters
    <3> QED BY <3>1, <3>2
  <2> QED BY <2>1, <2>2, <2>3, <2>4, <1>6
<1>9. \A s \in Regions' : region'[s] \in RegionType
  <2>1. e - f \in Nat
    BY <1>5
  <2>2. region'[f] \in RegionType
    BY <2>1, <1>3 DEF RegionType
  <2> QED BY <2>2, <1>3, <1>6 DEF IInv
<1>10. RegionsTile'
  <2>1. 0 \in Regions'
    <3>1. 0 \in Regions
      BY DEF IInv, RegionsTile
    <3>2. l = 0 => r = 0
      BY <1>4, <1>5
    <3>3. r = 0 => f = 0
      BY <1>4, <1>5
    <3> QED BY <3>1, <3>2, <3>3, <1>6
  <2>2. ASSUME NEW s \in Regions'
        PROVE  /\ s \in Nat /\ region'[s].len \in Nat
               /\ region'[s].len >= HeaderSize
               /\ End(s)' \in Regions' \cup {HeapSize} /\ End(s)' <= HeapSize
               /\ \A t \in Regions' : t <= s \/ End(s)' <= t
    <3>1. CASE s = f
      <4>1. region'[s].len = e - f /\ End(s)' = e
        BY <3>1, <1>3, <1>7
      <4>2. e - f \in Nat /\ e - f >= 2
        BY <1>5
      <4>3. ASSUME NEW t \in Regions'  PROVE t <= f \/ e <= t
        <5>1. t \in Regions /\ (t = f \/ (t # r /\ t # l))
          BY <1>6
        <5>2. t <= f \/ r <= t
          BY <5>1, <1>4, TileParts
        <5>3. t <= r \/ l <= t
          BY <5>1, <1>1, <1>4, TileParts
        <5>4. t <= l \/ e <= t
          BY <5>1, <1>4, <1>5, TileParts
        <5> QED BY <5>1, <5>2, <5>3, <5>4, <1>5, TileParts
      <4> QED BY <3>1, <4>1, <4>2, <4>3, <1>5, <1>6 DEF HeaderSize
    <3>2. CASE s # f
      <4>1. /\ s \in Regions /\ region'[s] = region[s] /\ End(s)' = End(s)
            /\ End(s) \in Regions' \cup {HeapSize}
        BY <3>2, <1>3, <1>6, <1>7, <1>8
      <4>2. \A t \in Regions' : t <= s \/ End(s) <= t
        BY <4>1, <1>6, TileParts
      <4> QED BY <4>1, <4>2, TileParts DEF HeaderSize
    <3> QED BY <3>1, <3>2
  <2> QED BY <2>1, <2>2 DEF RegionsTile
<1>11. NoSplinters'
  <2>1. ASSUME NEW s \in Regions', ~region'[s].inUse, End(s)' \in Regions'
        PROVE  region'[End(s)'].inUse
    <3>1. CASE s = f
      <4>1. End(s)' = e /\ e \in Regions
        BY <3>1, <2>1, <1>6, <1>7
      <4>2. region[e].inUse
        BY <4>1, <1>4, <1>5 DEF IInv, NoSplinters
      <4> QED BY <4>1, <4>2, <1>3, <1>6
    <3>2. CASE s # f
      <4>1. region'[s] = region[s] /\ End(s)' = End(s) /\ s \in Regions
        BY <3>2, <1>3, <1>6, <1>7
      <4>2. End(s) # f /\ End(s) \in Regions
        BY <4>1, <3>2, <2>1, <1>6, <1>8
      <4>3. region[End(s)].inUse
        BY <4>1, <4>2, <2>1 DEF IInv, NoSplinters
      <4> QED BY <4>1, <4>2, <4>3, <2>1, <1>3
    <3> QED BY <3>1, <3>2
  <2> QED BY <2>1 DEF NoSplinters
<1>12. ASSUME NEW c \in DOMAIN blocks'
       PROVE  /\ c \in Nat /\ blocks'[c] \in Nat
              /\ c - 2 \in Regions' \ {f}
              /\ blocks'[c] + 2 <= region'[c - 2].len
  <2>1. c \in DOMAIN blocks /\ c # b /\ blocks'[c] = blocks[c]
    BY <1>blocks
  <2>2. /\ c \in Nat /\ blocks[c] \in Nat /\ c - 2 \in Regions
        /\ blocks[c] + 2 <= region[c - 2].len
    BY <2>1 DEF IInv, BlocksInside, HeaderSize
  <2>3. (c - 2) + 2 = c /\ c - 2 # r
    BY <2>1, <2>2, <1>1
  <2>4. region[c - 2].inUse
    BY <2>1, <2>2, <2>3 DEF IInv, InUseHeld, HeaderSize
  <2>5. c - 2 # l /\ c - 2 # f
    BY <2>3, <2>4, <1>4
  <2>6. c - 2 \in Regions' \ {f}
    BY <2>2, <2>3, <2>5, <1>6
  <2> QED BY <2>1, <2>2, <2>6, <1>3
<1>13. BlocksInside'
  BY <1>12 DEF BlocksInside, HeaderSize
<1>14. InUseHeld'
  <2>1. ASSUME NEW s \in Regions'
        PROVE  region'[s].inUse <=> s + 2 \in DOMAIN blocks'
    <3>1. CASE s = f
      <4>1. (f + 2) - 2 = f
        BY <1>5
      <4>2. f + 2 \notin DOMAIN blocks'
        BY <4>1, <1>12
      <4> QED BY <3>1, <4>2, <1>3
    <3>2. CASE s # f
      <4>1. s \in Regions /\ s # r /\ region'[s] = region[s]
        BY <3>2, <1>3, <1>4, <1>6
      <4>2. region[s].inUse <=> s + 2 \in DOMAIN blocks
        BY <4>1 DEF IInv, InUseHeld, HeaderSize
      <4>3. s + 2 # b
        BY <4>1, <1>1, <1>5, TileParts
      <4> QED BY <4>1, <4>2, <4>3, <1>blocks
    <3> QED BY <3>1, <3>2
  <2> QED BY <2>1 DEF InUseHeld, HeaderSize
<1> QED BY <1>9, <1>10, <1>11, <1>13, <1>14 DEF IInv

-----------------------------------------------------------------------------
LEMMA Invariance == ASSUME HeapAssumption  PROVE Spec => []IInv
<1>1. ASSUME IInv, [Next]_vars  PROVE IInv'
  <2>1. CASE UNCHANGED vars
    BY <1>1, <2>1 DEF vars, IInv, RegionsTile, NoSplinters, InUseHeld,
                      BlocksInside, Regions, End
  <2>2. ASSUME NEW n \in Requests, MallocFails(n)  PROVE IInv'
    BY <2>1, <2>2 DEF MallocFails
  <2>3. ASSUME NEW n \in Requests, NEW r \in Regions, MallocTakes(r, n)
        PROVE  IInv'
    BY <1>1, <2>3, MallocInv
  <2>4. ASSUME NEW b \in DOMAIN blocks, Free(b)  PROVE IInv'
    BY <1>1, <2>4, FreeInv
  <2> QED BY <1>1, <2>1, <2>2, <2>3, <2>4 DEF Next
<1> QED BY InitInv, <1>1, PTL DEF Spec

\* For any heap and requests the headers of ip_malloc.c cut the heap without gap
\* or overlap: its loops from header to header end, and pass every region.
THEOREM HeapTiled == ASSUME HeapAssumption  PROVE Spec => []RegionsTile
<1>1. IInv => RegionsTile
  BY DEF IInv
<1> QED BY Invariance, <1>1, PTL

\* For any heap and requests ip_free leaves no two free regions side by side.
THEOREM HeapUnsplintered == ASSUME HeapAssumption  PROVE Spec => []NoSplinters
<1>1. IInv => NoSplinters
  BY DEF IInv
<1> QED BY Invariance, <1>1, PTL

\* For any heap and requests the blocks that ip_malloc gives out overlap neither
\* each other nor a header, and lie in the heap.
THEOREM HeapBlocksApart == ASSUME HeapAssumption  PROVE Spec => []BlocksApart
<1>1. ASSUME IInv  PROVE BlocksApart
  <2>1. ASSUME NEW b \in DOMAIN blocks
        PROVE  /\ b - 2 \in Regions /\ b \in Nat /\ blocks[b] \in Nat
               /\ b + blocks[b] <= End(b - 2)
               /\ End(b - 2) <= HeapSize /\ End(b - 2) \in Nat
               /\ HeapSize \in Nat
               /\ \A s \in Regions : s \in Nat /\ (s <= b - 2 \/ End(b - 2) <= s)
    <3>1. /\ b \in Nat /\ blocks[b] \in Nat /\ b - 2 \in Regions
          /\ blocks[b] + 2 <= region[b - 2].len
      BY <1>1 DEF IInv, BlocksInside, HeaderSize
    <3> QED BY <3>1, <1>1, TileParts DEF End
  <2>2. ASSUME NEW b \in DOMAIN blocks  PROVE b + blocks[b] <= HeapSize
    BY <2>1
  <2>3. ASSUME NEW b \in DOMAIN blocks, NEW c \in DOMAIN blocks, b < c
        PROVE  b + blocks[b] + 2 <= c
    <3>1. c - 2 <= b - 2 \/ End(b - 2) <= c - 2
      BY <2>1
    <3> QED BY <3>1, <2>1, <2>3
  <2>4. ASSUME NEW b \in DOMAIN blocks, NEW r \in Regions
        PROVE  r + 2 <= b \/ b + blocks[b] <= r
    BY <2>1
  <2> QED BY <2>2, <2>3, <2>4 DEF BlocksApart, HeaderSize
<1> QED BY Invariance, <1>1, PTL
=============================================================================
