----------------------- MODULE IPDispatchSend_proofs -----------------------
(***************************************************************************)
(* Proofs about IPDispatchSend, for any number of fragments and packets,   *)
(* whatever the layer below answers and whenever the stack is stopped.     *)
(***************************************************************************)
EXTENDS IPDispatchSend, SequenceTheorems, FiniteSetTheorems,
        FunctionTheorems, TLAPS

-----------------------------------------------------------------------------
(* The places of a packet in a queue.                                      *)

Item == [info : Infos, kind : Kinds]
Places(q, i) == {j \in DOMAIN q : q[j].info = i}

\* The places of a packet are finite in number.
LEMMA PlacesFinite ==
    ASSUME NEW q \in Seq(Item), NEW i
    PROVE  /\ IsFiniteSet(Places(q, i)) /\ Cardinality(Places(q, i)) \in Nat
           /\ Cardinality(Places(q, i)) <= Len(q)
           /\ Cardinality(Places(q, i)) = 0 <=> Places(q, i) = {}
<1>1. Len(q) \in Nat /\ DOMAIN q = 1 .. Len(q)
  BY LenProperties
<1>2. IsFiniteSet(1 .. Len(q)) /\ Cardinality(1 .. Len(q)) = Len(q)
  BY <1>1, FS_Interval
<1>3. Places(q, i) \in SUBSET (1 .. Len(q))
  BY <1>1 DEF Places
<1>4. IsFiniteSet(Places(q, i)) /\ Cardinality(Places(q, i)) <= Len(q)
  BY <1>2, <1>3, FS_Subset
<1>5. Cardinality(Places(q, i)) \in Nat
  BY <1>4, FS_CardinalityType
<1>6. Cardinality(Places(q, i)) = 0 <=> Places(q, i) = {}
  BY <1>4, FS_EmptySet
<1> QED  BY <1>4, <1>5, <1>6

\* Dequeuing shifts every place by one and takes away the first.
LEMMA PlacesAfterDequeue ==
    ASSUME NEW q \in Seq(Item), q # <<>>, NEW i
    PROVE  Cardinality(Places(Tail(q), i)) =
             IF Head(q).info = i THEN Cardinality(Places(q, i)) - 1
             ELSE Cardinality(Places(q, i))
<1> DEFINE P == Places(q, i)
           R == Places(Tail(q), i)
           f == [j \in P \ {1} |-> j - 1]
<1>1. /\ Len(q) \in Nat \ {0} /\ DOMAIN q = 1 .. Len(q)
      /\ Head(q) = q[1]
  BY EmptySeq, LenProperties
<1>2. /\ Tail(q) \in Seq(Item) /\ Len(Tail(q)) = Len(q) - 1
      /\ \A j \in 1 .. Len(q) - 1 : Tail(q)[j] = q[j + 1]
  BY HeadTailProperties
<1>3. DOMAIN Tail(q) = 1 .. Len(q) - 1
  BY <1>2, LenProperties
<1>4. ASSUME NEW j \in P \ {1}  PROVE  j - 1 \in R
  <2>1. j \in 1 .. Len(q) /\ q[j].info = i
    BY <1>1, <1>4 DEF Places
  <2>2. j - 1 \in 1 .. Len(q) - 1 /\ (j - 1) + 1 = j
    BY <2>1, <1>1, <1>4
  <2>3. Tail(q)[j - 1] = q[j]
    BY <2>2, <1>2
  <2> QED  BY <2>1, <2>2, <2>3, <1>3 DEF Places
<1>5. ASSUME NEW j \in R  PROVE  j + 1 \in P \ {1} /\ f[j + 1] = j
  <2>1. j \in 1 .. Len(q) - 1 /\ Tail(q)[j].info = i
    BY <1>3 DEF Places
  <2>2. j + 1 \in 1 .. Len(q) /\ j + 1 # 1 /\ (j + 1) - 1 = j
    BY <2>1, <1>1
  <2>3. q[j + 1].info = i
    BY <2>1, <1>2
  <2> QED  BY <2>2, <2>3, <1>1 DEF Places
<1>6. P \subseteq Int
  BY <1>1 DEF Places
<1>7. f \in Bijection(P \ {1}, R)
  <2>1. f \in [P \ {1} -> R]
    BY <1>4
  <2>2. \A a, b \in P \ {1} : f[a] = f[b] => a = b
    BY <1>6
  <2>3. \A t \in R : \E s \in P \ {1} : f[s] = t
    BY <1>5
  <2> HIDE DEF f, P, R
  <2> QED  BY <2>1, <2>2, <2>3, Fun_IsBij
<1>8. IsFiniteSet(P) /\ Cardinality(P) \in Nat
  BY PlacesFinite
<1>9. IsFiniteSet(P \ {1})
      /\ Cardinality(P \ {1}) = IF 1 \in P THEN Cardinality(P) - 1
                                ELSE Cardinality(P)
  BY <1>8, FS_RemoveElement
<1>10. Cardinality(R) = Cardinality(P \ {1})
  <2> HIDE DEF f, P, R
  <2> QED  BY <1>7, <1>9, FS_Bijection DEF ExistsBijection
<1>11. 1 \in P <=> Head(q).info = i
  BY <1>1 DEF Places
<1> QED  BY <1>9, <1>10, <1>11

\* Queueing e fragments of a packet that has none in the queue gives it e
\* places, and leaves the places of the others.
LEMMA PlacesAfterEnqueue ==
    ASSUME NEW q \in Seq(Item), NEW x \in Infos, Places(q, x) = {},
           NEW e \in Nat, NEW r \in Seq(Item), Len(r) = Len(q) + e,
           \A j \in 1 .. Len(q) : r[j] = q[j],
           \A j \in Len(q) + 1 .. Len(q) + e : r[j].info = x
    PROVE  /\ q # <<>> => r # <<>> /\ Head(r) = Head(q)
           /\ Cardinality(Places(r, x)) = e
           /\ \A i : i # x => Places(r, i) = Places(q, i)
<1>1. /\ Len(q) \in Nat /\ DOMAIN q = 1 .. Len(q)
  BY LenProperties
<1>2. DOMAIN r = 1 .. Len(q) + e
  BY LenProperties
<1>3. Cardinality(Places(r, x)) = e
  <2>1. Places(r, x) = Len(q) + 1 .. Len(q) + e
    <3>1. \A j \in 1 .. Len(q) : r[j].info # x
      BY <1>1 DEF Places
    <3> QED  BY <3>1, <1>1, <1>2 DEF Places
  <2>2. Cardinality(Len(q) + 1 .. Len(q) + e) = e
    <3>1. PICK m \in Nat : m = Len(q)  BY <1>1
    <3>2. Cardinality(m + 1 .. m + e) =
            IF m + 1 > m + e THEN 0 ELSE (m + e) - (m + 1) + 1
      BY FS_Interval
    <3> QED  BY <3>1, <3>2
  <2> QED  BY <2>1, <2>2
<1>4. ASSUME NEW i, i # x  PROVE Places(r, i) = Places(q, i)
  BY <1>1, <1>2, <1>4 DEF Places
<1>5. q # <<>> => r # <<>> /\ Head(r) = Head(q)
  <2> SUFFICES ASSUME q # <<>>  PROVE r # <<>> /\ Head(r) = Head(q)
    OBVIOUS
  <2>1. Len(q) \in Nat \ {0}
    BY EmptySeq
  <2>2. Len(r) # 0 /\ r[1] = q[1]
    BY <2>1, <1>1
  <2>3. Head(q) = q[1]
    BY <2>1, <1>1
  <2>4. r # <<>> /\ Head(r) = r[1]
    BY <2>2, EmptySeq
  <2> QED  BY <2>2, <2>3, <2>4
<1> QED  BY <1>3, <1>4, <1>5

-----------------------------------------------------------------------------
(* The inductive invariant: the safety properties, and                     *)
(* - Progress: an attempt uses up a reference, so that a packet of which   *)
(*   all fragments have been attempted has no other fragment in the queue; *)
(*   and an in6_iid was given back early only for a packet that failed,    *)
(*   of which sendTask sends nothing any more;                             *)
(* - RadioOff: while the radio is off, no sendDone is due.                 *)

InfoRec == [refcount : 0 .. NFragments, failed : BOOLEAN,
            fragments : 0 .. NFragments, attempts : 0 .. NFragments,
            upper : Uppers]

ProgressOf(r) ==
    /\ r.attempts + r.refcount <= r.fragments
    /\ r.upper = "returned" => r.failed

Progress == \A i \in Infos : ProgressOf(info[i])

RadioOff == ~radioOn => state = "stopped" /\ ~ipBusy

Buffers == /\ TypeOK
           /\ BuffersConserved
           /\ RefcountsExact
           /\ Progress

IInv == Buffers /\ IidReturnedOnce /\ DoneFindsHead /\ RadioOff

\* NSends is a number.
LEMMA NSendsNat == NSends \in Nat
BY DispatchAssumption, FS_CardinalityType DEF NSends

\* The packets that hold an in6_iid are finite in number.
LEMMA HeldFinite == IsFiniteSet(Held) /\ Cardinality(Held) \in Nat
<1>1. Held \in SUBSET Infos
  BY DEF Held
<1>2. IsFiniteSet(Held)
  BY <1>1, DispatchAssumption, FS_Subset
<1> QED  BY <1>2, FS_CardinalityType

\* What the invariant says of a packet, in terms of Places.
LEMMA PacketFacts ==
    ASSUME Buffers, NEW i \in Infos
    PROVE  /\ sendQueue \in Seq(Item)
           /\ info[i] \in InfoRec
           /\ ProgressOf(info[i])
           /\ info[i].refcount = Cardinality(Places(sendQueue, i))
           /\ i \in infoPool <=> info[i].refcount = 0
           /\ i \in infoPool <=> Places(sendQueue, i) = {}
<1>1. sendQueue \in Seq(Item) /\ info[i] \in InfoRec
  BY DEF Buffers, TypeOK, Item, InfoRec
<1>2. PlacesOf(i) = Places(sendQueue, i)
  BY DEF PlacesOf, Places
<1>3. /\ info[i].refcount = Cardinality(Places(sendQueue, i))
      /\ i \in infoPool <=> Places(sendQueue, i) = {}
  BY <1>2 DEF Buffers, RefcountsExact
<1>4. ProgressOf(info[i])
  BY DEF Buffers, Progress
<1> QED  BY <1>1, <1>3, <1>4, PlacesFinite

\* The packet at the head of the queue has a reference there.
LEMMA HeadFacts ==
    ASSUME Buffers, sendQueue # <<>>
    PROVE  /\ HeadInfo \in Infos \ infoPool
           /\ info[HeadInfo].refcount \in Nat \ {0}
<1>1. sendQueue \in Seq(Item)
  BY DEF Buffers, TypeOK, Item
<1>2. HeadInfo \in Infos
  <2>1. Head(sendQueue) \in Item
    BY <1>1, HeadTailProperties
  <2> QED  BY <2>1 DEF Item, HeadInfo
<1>3. 1 \in DOMAIN sendQueue /\ Head(sendQueue) = sendQueue[1]
  BY <1>1, EmptySeq, LenProperties
<1>4. 1 \in Places(sendQueue, HeadInfo)
  BY <1>3 DEF Places, HeadInfo
<1>5. HeadInfo \notin infoPool /\ info[HeadInfo].refcount # 0
  BY <1>2, <1>4, PacketFacts
<1>6. info[HeadInfo].refcount \in Nat
  BY <1>2, PacketFacts DEF InfoRec
<1> QED  BY <1>2, <1>5, <1>6

-----------------------------------------------------------------------------
(* Initiation.                                                             *)

\* The initial state satisfies the invariant.
LEMMA InitIInv == Init => IInv
<1> SUFFICES ASSUME Init  PROVE IInv
  OBVIOUS
<1> USE DEF Init
<1>1. TypeOK
  <2>1. sendQueue \in Seq([info : Infos, kind : Kinds])
    BY EmptySeq
  <2>2. 0 \in 0 .. NFragments /\ NFragments \in 0 .. NFragments
        /\ NSends \in 0 .. NSends
    BY DispatchAssumption, NSendsNat
  <2>3. Free \in InfoRec
    BY <2>2 DEF Free, InfoRec, Uppers
  <2> QED  BY <2>1, <2>2, <2>3 DEF TypeOK, InfoRec
<1>2. BuffersConserved
  BY DispatchAssumption DEF BuffersConserved
<1>3. RefcountsExact
  BY FS_EmptySet DEF RefcountsExact, PlacesOf, Free
<1>4. Progress
  BY DEF Progress, ProgressOf, Free
<1>5. IidReturnedOnce
  <2>1. Held = {}
    BY DEF Held
  <2> QED  BY <2>1, FS_EmptySet, NSendsNat DEF IidReturnedOnce
<1>6. DoneFindsHead /\ RadioOff
  BY DEF DoneFindsHead, RadioOff
<1> QED  BY <1>1, <1>2, <1>3, <1>4, <1>5, <1>6 DEF IInv, Buffers

-----------------------------------------------------------------------------
(* Consecution: queueing a packet.                                         *)

\* Steps that leave the packets and the pools alone.
LEMMA PacketsUntouched ==
    ASSUME IInv, UNCHANGED <<packets, pools>>,
           ipBusy' \in BOOLEAN, posted' \in BOOLEAN, owed' \in {0, 1},
           state' \in {"running", "stopped", "stopping"},
           radioOn' \in BOOLEAN
    PROVE  Buffers' /\ IidReturnedOnce'
<1> USE DEF packets, pools
<1>1. TypeOK'
  BY DEF IInv, Buffers, TypeOK
<1>2. BuffersConserved' /\ RefcountsExact' /\ Progress'
  BY DEF IInv, Buffers, BuffersConserved, RefcountsExact, PlacesOf, Progress
<1>3. IidReturnedOnce'
  BY DEF IInv, IidReturnedOnce, Held
<1> QED  BY <1>1, <1>2, <1>3 DEF Buffers

\* IPLower.send of a packet preserves the invariant, also when only some of
\* its fragments find a buffer.
LEMMA SendPacketStep ==
    ASSUME IInv, NEW k \in Kinds, NEW n \in 1 .. MaxFrags, NEW m \in BOOLEAN,
           SendPacket(k, n, m)
    PROVE  IInv'
<1> DEFINE e == Enqueued(n)
           iid == ~m /\ iidPool > 0
<1>1. PICK i \in infoPool :
         IF e = 0 THEN UNCHANGED <<packets, pools>>
         ELSE /\ sendQueue' = sendQueue
                         \o [j \in 1 .. e |-> [info |-> i, kind |-> k]]
              /\ infoPool' = infoPool \ {i}
              /\ info' = [info EXCEPT ![i] =
                   [refcount |-> e, failed |-> ~Fits(n),
                    fragments |-> e, attempts |-> 0,
                    upper |-> IF ~iid THEN "null"
                              ELSE IF Fits(n) THEN "held" ELSE "returned"]]
              /\ iidPool' = IF iid /\ Fits(n) THEN iidPool - 1 ELSE iidPool
              /\ entryPool' = entryPool - e
              /\ fragPool' = fragPool - e
  BY DEF SendPacket
<1>2. UNCHANGED <<ipBusy, state, radioOn, owed>> /\ posted' = TRUE
  BY DEF SendPacket, control
<1>3. i \in Infos /\ entryPool \in 0 .. NFragments /\ n \in Nat
      /\ NFragments \in Nat /\ iidPool \in 0 .. NSends /\ MaxFrags \in Nat
  BY DispatchAssumption DEF IInv, Buffers, TypeOK
<1>4. e \in Nat /\ e <= entryPool
  BY <1>3 DEF Enqueued
<1>5. CASE e = 0
  <2>1. UNCHANGED <<packets, pools>>
    BY <1>1, <1>5
  <2>2. Buffers' /\ IidReturnedOnce'
    BY <2>1, <1>2, PacketsUntouched DEF IInv, Buffers, TypeOK
  <2>3. DoneFindsHead' /\ RadioOff'
    BY <2>1, <1>2 DEF IInv, DoneFindsHead, RadioOff, HeadInfo, packets
  <2> QED  BY <2>2, <2>3 DEF IInv
<1>6. CASE e # 0
  <2> DEFINE new == [refcount |-> e, failed |-> ~Fits(n),
                     fragments |-> e, attempts |-> 0,
                     upper |-> IF ~iid THEN "null"
                               ELSE IF Fits(n) THEN "held" ELSE "returned"]
  <2>1. /\ sendQueue' = sendQueue
                         \o [j \in 1 .. e |-> [info |-> i, kind |-> k]]
        /\ infoPool' = infoPool \ {i}
        /\ info' = [info EXCEPT ![i] = new]
        /\ iidPool' = IF iid /\ Fits(n) THEN iidPool - 1 ELSE iidPool
        /\ entryPool' = entryPool - e
        /\ fragPool' = fragPool - e
    BY <1>1, <1>6
  <2>2. sendQueue \in Seq(Item) /\ Places(sendQueue, i) = {}
    BY <1>3, PacketFacts DEF IInv
  <2>3. new \in InfoRec /\ ProgressOf(new)
    <3>1. e \in 0 .. NFragments /\ 0 \in 0 .. NFragments /\ 0 + e <= e
      BY <1>3, <1>4
    <3>2. Fits(n) \in BOOLEAN
      BY DEF Fits
    <3> HIDE DEF e, iid
    <3> QED  BY <3>1, <3>2 DEF InfoRec, ProgressOf, Uppers
  <2>4. info \in [Infos -> InfoRec]
    BY DEF IInv, Buffers, TypeOK, InfoRec
  <2>5. /\ sendQueue' \in Seq(Item)
        /\ Len(sendQueue') = Len(sendQueue) + e
        /\ sendQueue # <<>> =>
             sendQueue' # <<>> /\ Head(sendQueue') = Head(sendQueue)
        /\ Cardinality(Places(sendQueue', i)) = e
        /\ \A j : j # i => Places(sendQueue', j) = Places(sendQueue, j)
    <3> DEFINE t == [j \in 1 .. e |-> [info |-> i, kind |-> k]]
    <3> HIDE DEF e
    <3>1. /\ t \in Seq(Item) /\ Len(t) = e
          /\ \A j \in 1 .. e : t[j].info = i
      <4>1. \A j \in 1 .. e : [info |-> i, kind |-> k] \in Item
        BY <1>3 DEF Item
      <4> QED  BY <4>1, <1>4, SMT
    <3>2. sendQueue' = sendQueue \o t
      BY <2>1
    <3> HIDE DEF t
    <3>3. /\ sendQueue' \in Seq(Item)
          /\ Len(sendQueue') = Len(sendQueue) + Len(t)
          /\ \A j \in 1 .. Len(sendQueue) + Len(t) : sendQueue'[j] =
               IF j <= Len(sendQueue) THEN sendQueue[j]
               ELSE t[j - Len(sendQueue)]
      BY <2>2, <3>1, <3>2, ConcatProperties
    <3>4. Len(sendQueue) \in Nat
      BY <2>2, LenProperties
    <3>5. \A j \in 1 .. Len(sendQueue) : sendQueue'[j] = sendQueue[j]
      BY <1>4, <3>1, <3>3, <3>4
    <3>6. ASSUME NEW j \in Len(sendQueue) + 1 .. Len(sendQueue) + e
          PROVE  sendQueue'[j].info = i
      <4>1. /\ j \in 1 .. Len(sendQueue) + Len(t)
            /\ ~(j <= Len(sendQueue))
            /\ j - Len(sendQueue) \in 1 .. e
        BY <1>4, <3>1, <3>4
      <4>2. sendQueue'[j] = t[j - Len(sendQueue)]
        BY <3>3, <4>1
      <4> QED  BY <3>1, <4>1, <4>2
    <3>7. Len(sendQueue') = Len(sendQueue) + e
      BY <3>1, <3>3
    <3>8. /\ i \in Infos /\ e \in Nat /\ sendQueue \in Seq(Item)
          /\ sendQueue' \in Seq(Item) /\ Places(sendQueue, i) = {}
      BY <1>3, <1>4, <2>2, <3>3
    <3>9. \A j \in Len(sendQueue) + 1 .. Len(sendQueue) + e :
             sendQueue'[j].info = i
      BY <3>6
    <3>10. /\ sendQueue # <<>> =>
                sendQueue' # <<>> /\ Head(sendQueue') = Head(sendQueue)
           /\ Cardinality(Places(sendQueue', i)) = e
           /\ \A j : j # i => Places(sendQueue', j) = Places(sendQueue, j)
      BY <3>5, <3>7, <3>8, <3>9, PlacesAfterEnqueue
    <3> QED  BY <3>3, <3>7, <3>10
  <2> HIDE DEF e, iid, new
  <2>6. /\ info' \in [Infos -> InfoRec] /\ info'[i] = new
        /\ \A j \in Infos : j # i => info'[j] = info[j]
    BY <1>3, <2>1, <2>3, <2>4
  <2>7. iidPool' \in 0 .. NSends
    BY <1>3, <2>1, NSendsNat DEF iid
  <2>8. BuffersConserved' /\ entryPool' \in 0 .. NFragments
    <3>1. PICK l \in Nat : l = Len(sendQueue)
      BY <2>2, LenProperties
    <3>2. entryPool + l = NFragments /\ fragPool = entryPool
      BY <3>1 DEF IInv, Buffers, BuffersConserved
    <3>3. /\ (entryPool - e) + (l + e) = NFragments
          /\ entryPool - e \in 0 .. NFragments
      BY ONLY <3>2, <1>3, <1>4
    <3> QED  BY <3>1, <3>2, <3>3, <2>1, <2>5 DEF BuffersConserved
  <2>9. TypeOK'
    <3>1. fragPool' = entryPool'
      BY <2>8 DEF BuffersConserved
    <3> QED  BY <1>2, <2>1, <2>5, <2>6, <2>7, <2>8, <3>1
                DEF IInv, Buffers, TypeOK, Item, InfoRec
  <2>10. RefcountsExact'
    <3> SUFFICES ASSUME NEW j \in Infos
                 PROVE  /\ info'[j].refcount =
                             Cardinality(Places(sendQueue', j))
                        /\ j \in infoPool' <=> Places(sendQueue', j) = {}
      BY DEF RefcountsExact, PlacesOf, Places
    <3>1. Cardinality(Places(sendQueue', j)) = 0
            <=> Places(sendQueue', j) = {}
      BY <2>5, PlacesFinite
    <3>2. CASE j = i
      BY <1>6, <2>1, <2>5, <2>6, <3>1, <3>2 DEF new
    <3>3. CASE j # i
      BY <2>1, <2>5, <2>6, <3>1, <3>3, PacketFacts DEF IInv
    <3> QED  BY <3>2, <3>3
  <2>11. Progress'
    BY <2>3, <2>6 DEF IInv, Buffers, Progress
  <2>12. IidReturnedOnce'
    <3>1. Held' = IF iid /\ Fits(n) THEN Held \cup {i} ELSE Held
      <4>1. \A j \in Infos : j # i => (j \in Held' <=> j \in Held)
        BY <2>1, <2>6 DEF Held
      <4>2. i \in Held' <=> iid /\ Fits(n)
        BY <1>3, <2>1, <2>6 DEF Held, new
      <4>3. i \notin Held
        BY DEF Held
      <4>4. Held \subseteq Infos /\ Held' \subseteq Infos
        BY DEF Held
      <4> QED  BY <4>1, <4>2, <4>3, <4>4, <1>3
    <3>2. i \notin Held
      BY DEF Held
    <3>3. iidPool + Cardinality(Held) <= NSends
      BY DEF IInv, IidReturnedOnce
    <3>4. CASE iid /\ Fits(n)
      <4>1. Cardinality(Held') = Cardinality(Held) + 1
        BY <3>1, <3>2, <3>4, HeldFinite, FS_AddElement
      <4>2. iidPool' = iidPool - 1
        BY <2>1, <3>4
      <4> QED  BY <4>1, <4>2, <3>3, <1>3, HeldFinite, NSendsNat
                  DEF IidReturnedOnce
    <3>5. CASE ~(iid /\ Fits(n))
      BY <2>1, <3>1, <3>3, <3>5 DEF IidReturnedOnce
    <3> QED  BY <3>4, <3>5
  <2>13. DoneFindsHead'
    <3>1. ipBusy' <=> owed' = 1
      BY <1>2 DEF IInv, DoneFindsHead
    <3>2. ASSUME owed' = 1
          PROVE  sendQueue' # <<>> /\ ~info'[Head(sendQueue').info].failed
      <4>1. sendQueue # <<>> /\ ~info[HeadInfo].failed
        BY <1>2, <3>2 DEF IInv, DoneFindsHead
      <4>2. HeadInfo \in Infos /\ HeadInfo # i
        BY <4>1, HeadFacts DEF IInv
      <4>3. Head(sendQueue').info = HeadInfo
        BY <4>1, <2>5 DEF HeadInfo
      <4> QED  BY <4>1, <4>2, <4>3, <2>5, <2>6
    <3> QED  BY <3>1, <3>2 DEF DoneFindsHead, HeadInfo
  <2>14. RadioOff'
    BY <1>2 DEF IInv, RadioOff
  <2> QED
    BY <2>8, <2>9, <2>10, <2>11, <2>12, <2>13, <2>14 DEF IInv, Buffers
<1> QED  BY <1>5, <1>6

-----------------------------------------------------------------------------
(* Consecution: giving back the head of the queue, whose info has become r.*)

\* SENDINFO_DECR and the puts that follow it preserve what is said of the
\* buffers, and no packet comes to hold an in6_iid.
LEMMA GiveBackStep ==
    ASSUME Buffers, sendQueue # <<>>, NEW r \in InfoRec,
           r.refcount = info[HeadInfo].refcount,
           r.attempts + (r.refcount - 1) <= r.fragments,
           r.refcount # 1 => (r.upper = "returned" => r.failed),
           r.upper = "held" => info[HeadInfo].upper = "held",
           Release(r), Dequeue,
           iidPool' \in 0 .. NSends,
           ipBusy' \in BOOLEAN, posted' \in BOOLEAN, owed' \in {0, 1},
           state' \in {"running", "stopped", "stopping"},
           radioOn' \in BOOLEAN
    PROVE  /\ Buffers'
           /\ Held' \subseteq Held
           /\ r.upper # "held" => HeadInfo \notin Held'
<1> DEFINE h == HeadInfo
           left == [r EXCEPT !.refcount = @ - 1]
<1>1. /\ sendQueue' = Tail(sendQueue)
      /\ entryPool' = entryPool + 1 /\ fragPool' = fragPool + 1
  BY DEF Dequeue
<1>2. h \in Infos /\ h \notin infoPool /\ r.refcount \in Nat \ {0}
  BY HeadFacts
<1>3. sendQueue \in Seq(Item) /\ info \in [Infos -> InfoRec]
  BY DEF Buffers, TypeOK, Item, InfoRec
<1>4. /\ sendQueue' \in Seq(Item)
      /\ Len(sendQueue) \in Nat \ {0}
      /\ Len(sendQueue') = Len(sendQueue) - 1
  BY <1>1, <1>3, HeadTailProperties, EmptySeq
<1>5. \A i : Cardinality(Places(sendQueue', i)) =
               IF i = h THEN Cardinality(Places(sendQueue, i)) - 1
               ELSE Cardinality(Places(sendQueue, i))
  BY <1>1, <1>3, PlacesAfterDequeue DEF HeadInfo
<1>6. /\ infoPool' = IF r.refcount = 1 THEN infoPool \cup {h} ELSE infoPool
      /\ info' = [info EXCEPT ![h] = IF r.refcount = 1 THEN Free ELSE left]
  BY DEF Release
<1>7. NFragments \in Nat /\ 0 \in 0 .. NFragments
  BY DispatchAssumption
<1>8. Free \in InfoRec /\ ProgressOf(Free) /\ Free.refcount = 0
      /\ Free.upper = "null"
  BY <1>7 DEF Free, InfoRec, ProgressOf, Uppers
<1>9. /\ left \in InfoRec /\ left.refcount = r.refcount - 1
      /\ left.upper = r.upper
      /\ r.refcount # 1 => ProgressOf(left)
  <2>1. r.refcount - 1 \in 0 .. NFragments
    BY <1>2, <1>7 DEF InfoRec
  <2>2. left \in InfoRec
    BY <2>1 DEF InfoRec
  <2>3. /\ left.refcount = r.refcount - 1 /\ left.upper = r.upper
        /\ left.attempts = r.attempts /\ left.fragments = r.fragments
        /\ left.failed = r.failed
    BY DEF InfoRec
  <2>4. r.attempts + (r.refcount - 1) <= r.fragments
    OBVIOUS
  <2> HIDE DEF left
  <2> QED  BY <2>2, <2>3, <2>4 DEF ProgressOf
<1> HIDE DEF left, h
<1>10. /\ info' \in [Infos -> InfoRec]
       /\ info'[h] = IF r.refcount = 1 THEN Free ELSE left
       /\ \A i \in Infos : i # h => info'[i] = info[i]
  BY <1>2, <1>3, <1>6, <1>8, <1>9
<1>11. BuffersConserved' /\ entryPool' \in 0 .. NFragments
  <2>1. PICK l \in Nat : l = Len(sendQueue) /\ l # 0
    BY <1>4
  <2>2. /\ entryPool + l = NFragments /\ fragPool = entryPool
        /\ entryPool \in 0 .. NFragments
    BY <2>1 DEF Buffers, BuffersConserved, TypeOK
  <2>3. /\ (entryPool + 1) + (l - 1) = NFragments
        /\ entryPool + 1 \in 0 .. NFragments
    BY ONLY <2>1, <2>2, <1>7
  <2> QED  BY <2>1, <2>2, <2>3, <1>1, <1>4 DEF BuffersConserved
<1>12. TypeOK'
  <2>1. infoPool' \subseteq Infos
    BY <1>2, <1>6 DEF Buffers, TypeOK
  <2>2. fragPool' = entryPool'
    BY <1>11 DEF BuffersConserved
  <2> QED  BY <2>1, <2>2, <1>4, <1>10, <1>11 DEF TypeOK, Item, InfoRec
<1>13. RefcountsExact'
  <2> SUFFICES ASSUME NEW i \in Infos
               PROVE  /\ info'[i].refcount =
                           Cardinality(Places(sendQueue', i))
                      /\ i \in infoPool' <=> Places(sendQueue', i) = {}
    BY DEF RefcountsExact, PlacesOf, Places
  <2>1. Cardinality(Places(sendQueue', i)) = 0
          <=> Places(sendQueue', i) = {}
    BY <1>4, PlacesFinite
  <2>2. CASE i = h
    <3>1. r.refcount = Cardinality(Places(sendQueue, h))
      BY <1>2, PacketFacts DEF h
    <3>2. Cardinality(Places(sendQueue', h)) = r.refcount - 1
      BY <3>1, <1>5
    <3>3. info'[h].refcount = r.refcount - 1
      BY <1>2, <1>8, <1>9, <1>10
    <3>4. h \in infoPool' <=> r.refcount = 1
      BY <1>2, <1>6
    <3> QED  BY <2>1, <2>2, <3>2, <3>3, <3>4, <1>2
  <2>3. CASE i # h
    <3>1. info'[i] = info[i] /\ (i \in infoPool' <=> i \in infoPool)
      BY <2>3, <1>6, <1>10
    <3>2. Cardinality(Places(sendQueue', i)) =
            Cardinality(Places(sendQueue, i))
      BY <2>3, <1>5
    <3> QED  BY <2>1, <3>1, <3>2, PacketFacts
  <2> QED  BY <2>2, <2>3
<1>14. Progress'
  BY <1>2, <1>8, <1>9, <1>10 DEF Buffers, Progress
<1>15. Held' \subseteq Held
  <2> SUFFICES ASSUME NEW i \in Held'  PROVE i \in Held
    OBVIOUS
  <2>1. i \in Infos /\ i \notin infoPool' /\ info'[i].upper = "held"
    BY DEF Held
  <2>2. CASE i = h
    <3>1. r.refcount # 1 /\ r.upper = "held"
      BY <2>1, <2>2, <1>6, <1>9, <1>10
    <3> QED  BY <3>1, <2>2, <1>2 DEF Held, h
  <2>3. CASE i # h
    BY <2>1, <2>3, <1>6, <1>10 DEF Held
  <2> QED  BY <2>2, <2>3
<1>16. ASSUME r.upper # "held"  PROVE HeadInfo \notin Held'
  BY <1>6, <1>9, <1>10, <1>16 DEF Held, h
<1> QED
  BY <1>11, <1>12, <1>13, <1>14, <1>15, <1>16 DEF Buffers

\* Fewer packets hold an in6_iid: their number does not grow, and shrinks when
\* one that held an in6_iid does no longer.
LEMMA FewerHeld ==
    ASSUME Held' \subseteq Held, NEW i
    PROVE  /\ Cardinality(Held') \in Nat
           /\ Cardinality(Held') <= Cardinality(Held)
           /\ i \in Held /\ i \notin Held'
                => Cardinality(Held') + 1 <= Cardinality(Held)
<1>1. IsFiniteSet(Held) /\ Cardinality(Held) \in Nat
  BY HeldFinite
<1>2. IsFiniteSet(Held') /\ Cardinality(Held') <= Cardinality(Held)
  BY <1>1, FS_Subset
<1>3. Cardinality(Held') \in Nat
  BY <1>2, FS_CardinalityType
<1>4. ASSUME i \in Held, i \notin Held'
      PROVE  Cardinality(Held') + 1 <= Cardinality(Held)
  <2>1. IsFiniteSet(Held \ {i})
        /\ Cardinality(Held \ {i}) = Cardinality(Held) - 1
    BY <1>1, <1>4, FS_RemoveElement
  <2>2. Cardinality(Held') <= Cardinality(Held \ {i})
    BY <2>1, <1>4, FS_Subset
  <2> QED  BY <2>1, <2>2, <1>1, <1>3
<1> QED  BY <1>2, <1>3, <1>4

-----------------------------------------------------------------------------
(* Consecution: sendTask, sendDone and SplitControl.                       *)

\* The label fail of sendTask preserves the invariant.
LEMMA DropHeadStep ==
    ASSUME IInv, MaySend, DropHead
    PROVE  IInv'
<1> DEFINE r == [info[HeadInfo] EXCEPT !.failed = TRUE]
<1>1. sendQueue # <<>> /\ ~ipBusy /\ state = "running"
  BY DEF MaySend
<1>2. Release(r) /\ Dequeue /\ UNCHANGED <<iidPool, ipBusy, state, radioOn, owed>>
      /\ posted' = TRUE
  BY DEF DropHead, control
<1>3. HeadInfo \in Infos /\ info[HeadInfo] \in InfoRec
      /\ ProgressOf(info[HeadInfo]) /\ info[HeadInfo].refcount \in Nat
  BY <1>1, HeadFacts, PacketFacts DEF IInv
<1>4. r \in InfoRec /\ r.refcount = info[HeadInfo].refcount
      /\ r.upper = info[HeadInfo].upper /\ r.failed = TRUE
      /\ r.attempts = info[HeadInfo].attempts
      /\ r.fragments = info[HeadInfo].fragments
  BY <1>3 DEF InfoRec
<1>5. r.attempts + (r.refcount - 1) <= r.fragments
  BY <1>3, <1>4 DEF ProgressOf, InfoRec
<1> HIDE DEF r
<1>6. /\ iidPool' \in 0 .. NSends /\ ipBusy' \in BOOLEAN
      /\ posted' \in BOOLEAN /\ owed' \in {0, 1} /\ radioOn' \in BOOLEAN
      /\ state' \in {"running", "stopped", "stopping"}
  BY <1>2 DEF IInv, Buffers, TypeOK
<1>7. Buffers' /\ Held' \subseteq Held
  BY <1>1, <1>2, <1>4, <1>5, <1>6, GiveBackStep DEF IInv
<1>8. IidReturnedOnce'
  <2>1. Cardinality(Held') \in Nat /\ Cardinality(Held') <= Cardinality(Held)
    BY <1>7, FewerHeld
  <2>2. iidPool' = iidPool /\ iidPool \in Nat /\ NSends \in Nat
        /\ iidPool + Cardinality(Held) <= NSends
    BY <1>2, NSendsNat DEF IInv, Buffers, TypeOK, IidReturnedOnce
  <2> QED  BY <2>1, <2>2, HeldFinite DEF IidReturnedOnce
<1>9. DoneFindsHead'
  BY <1>1, <1>2 DEF IInv, DoneFindsHead
<1>10. RadioOff'
  BY <1>2 DEF IInv, RadioOff
<1> QED  BY <1>7, <1>8, <1>9, <1>10 DEF IInv

\* sendTask preserves the invariant.
LEMMA SendTaskStep ==
    ASSUME IInv, SendTask
    PROVE  IInv'
<1>1. CASE SendTaskIdle
  <2>1. UNCHANGED <<packets, pools, ipBusy, state, radioOn, owed>>
        /\ posted' = FALSE
    BY <1>1 DEF SendTaskIdle, control
  <2>2. Buffers' /\ IidReturnedOnce'
    BY <2>1, PacketsUntouched DEF IInv, Buffers, TypeOK
  <2>3. DoneFindsHead' /\ RadioOff'
    BY <2>1 DEF IInv, DoneFindsHead, RadioOff, HeadInfo, packets
  <2> QED  BY <2>2, <2>3 DEF IInv
<1>2. CASE SendTaskDrops \/ SendTaskFails
  BY <1>2, DropHeadStep DEF SendTaskDrops, SendTaskFails
<1>3. CASE SendTaskSends
  <2>1. /\ UNCHANGED <<packets, pools, state, radioOn>>
        /\ posted' = FALSE /\ ipBusy' = TRUE /\ owed' = owed + 1
        /\ ~ipBusy /\ state = "running" /\ sendQueue # <<>>
        /\ ~info[HeadInfo].failed
    BY <1>3 DEF SendTaskSends, MaySend, control
  <2>2. owed = 0 /\ owed' = 1
    BY <2>1 DEF IInv, Buffers, TypeOK, DoneFindsHead
  <2>3. Buffers' /\ IidReturnedOnce'
    BY <2>1, <2>2, PacketsUntouched DEF IInv, Buffers, TypeOK
  <2>4. DoneFindsHead'
    BY <2>1, <2>2 DEF DoneFindsHead, HeadInfo, packets
  <2>5. RadioOff'
    BY <2>1 DEF IInv, RadioOff
  <2> QED  BY <2>3, <2>4, <2>5 DEF IInv
<1> QED  BY <1>1, <1>2, <1>3 DEF SendTask

\* Ieee154Send.sendDone preserves the invariant: an in6_iid is given back only
\* for a packet that still holds one, because what was sent had not failed,
\* and because the last attempt of a packet is that of its last reference.
LEMMA SendDoneStep ==
    ASSUME IInv, SendDone
    PROVE  IInv'
<1>1. owed = 1 /\ ipBusy /\ sendQueue # <<>> /\ ~info[HeadInfo].failed
  BY DEF SendDone, IInv, Buffers, TypeOK, DoneFindsHead
<1>2. owed' = 0 /\ ipBusy' = FALSE /\ posted' = TRUE /\ Dequeue
  BY <1>1 DEF SendDone
<1>3. HeadInfo \in Infos /\ HeadInfo \notin infoPool
      /\ info[HeadInfo] \in InfoRec
      /\ ProgressOf(info[HeadInfo]) /\ info[HeadInfo].refcount \in Nat \ {0}
  BY <1>1, HeadFacts, PacketFacts DEF IInv
<1>4. /\ iidPool \in 0 .. NSends /\ NSends \in Nat
      /\ state \in {"running", "stopped", "stopping"} /\ radioOn \in BOOLEAN
      /\ iidPool + Cardinality(Held) <= NSends
  BY NSendsNat DEF IInv, Buffers, TypeOK, IidReturnedOnce
<1>5. /\ ipBusy' \in BOOLEAN /\ posted' \in BOOLEAN /\ owed' \in {0, 1}
  BY <1>2
<1>6. CASE SendDoneStopping
  <2> DEFINE r == info[HeadInfo]
  <2>1. state' = "stopped" /\ radioOn' = FALSE /\ Release(r)
        /\ iidPool' = iidPool
    BY <1>6 DEF SendDoneStopping
  <2>2. r.attempts + (r.refcount - 1) <= r.fragments
        /\ (r.upper = "returned" => r.failed)
    BY <1>3 DEF ProgressOf, InfoRec
  <2> HIDE DEF r
  <2>3. r \in InfoRec /\ r.refcount = info[HeadInfo].refcount
        /\ r.upper = info[HeadInfo].upper
    BY <1>3 DEF r
  <2>4. Buffers' /\ Held' \subseteq Held
    BY <1>1, <1>2, <1>4, <1>5, <2>1, <2>2, <2>3, GiveBackStep DEF IInv
  <2>5. IidReturnedOnce'
    <3>1. Cardinality(Held') \in Nat
          /\ Cardinality(Held') <= Cardinality(Held)
      BY <2>4, FewerHeld
    <3> QED  BY <3>1, <2>1, <1>4, HeldFinite DEF IidReturnedOnce
  <2>6. DoneFindsHead' /\ RadioOff'
    BY <1>2, <2>1 DEF DoneFindsHead, RadioOff
  <2> QED  BY <2>4, <2>5, <2>6 DEF IInv
<1>7. ASSUME NEW d \in Delivery, SendDoneRunning(d)
      PROVE  IInv'
  <2> DEFINE a == Attempted(d)
             iid == Reported(a, d) /\ a.upper # "null"
             r == IF iid THEN [a EXCEPT !.upper = "returned"] ELSE a
  <2>1. /\ UNCHANGED <<state, radioOn>> /\ state # "stopping"
        /\ Release(r)
        /\ iidPool' = IF iid /\ iidPool < NSends THEN iidPool + 1 ELSE iidPool
    BY <1>7 DEF SendDoneRunning, control
  <2>2. /\ info[HeadInfo].attempts \in 0 .. NFragments
        /\ info[HeadInfo].refcount \in 0 .. NFragments
        /\ info[HeadInfo].fragments \in 0 .. NFragments
        /\ info[HeadInfo].attempts + info[HeadInfo].refcount
             <= info[HeadInfo].fragments
        /\ info[HeadInfo].upper # "returned"
        /\ NFragments \in Nat
    BY <1>1, <1>3, DispatchAssumption DEF ProgressOf, InfoRec
  <2>3. /\ a \in InfoRec
        /\ a.attempts = info[HeadInfo].attempts + 1
        /\ a.refcount = info[HeadInfo].refcount
        /\ a.fragments = info[HeadInfo].fragments
        /\ a.upper = info[HeadInfo].upper
        /\ a.failed = ~d
    <3>1. info[HeadInfo].attempts + 1 \in 0 .. NFragments
      BY <1>3, <2>2
    <3>2. d \in BOOLEAN
      BY DEF Delivery
    <3>3. info[HeadInfo].failed = FALSE
      BY <1>1, <1>3 DEF InfoRec
    <3> QED  BY <1>3, <3>1, <3>2, <3>3 DEF Attempted, InfoRec
  <2> HIDE DEF a
  <2>4. /\ r \in InfoRec /\ r.refcount = a.refcount
        /\ r.attempts = a.attempts /\ r.fragments = a.fragments
        /\ r.failed = a.failed
        /\ r.upper = IF iid THEN "returned" ELSE a.upper
    BY <2>3 DEF InfoRec, Uppers
  <2>5. r.attempts + (r.refcount - 1) <= r.fragments
    BY <2>2, <2>3, <2>4
  <2>6. r.refcount # 1 => (r.upper = "returned" => r.failed)
    <3> SUFFICES ASSUME r.refcount # 1, iid  PROVE r.failed
      BY <2>2, <2>3, <2>4
    <3>1. a.attempts # a.fragments
      BY <1>3, <2>2, <2>3, <2>4
    <3> QED  BY <3>1, <2>3, <2>4 DEF Reported
  <2> HIDE DEF r
  <2>7. iidPool' \in 0 .. NSends
    BY <1>4, <2>1
  <2>8. r.upper = "held" => info[HeadInfo].upper = "held"
    BY <2>3, <2>4
  <2>9. /\ Buffers' /\ Held' \subseteq Held
        /\ r.upper # "held" => HeadInfo \notin Held'
    BY <1>1, <1>2, <1>4, <1>5, <2>1, <2>3, <2>4, <2>5, <2>6, <2>7, <2>8,
       GiveBackStep DEF IInv
  <2>10. IidReturnedOnce'
    <3>1. /\ Cardinality(Held') \in Nat /\ Cardinality(Held) \in Nat
          /\ Cardinality(Held') <= Cardinality(Held)
          /\ HeadInfo \in Held /\ HeadInfo \notin Held'
               => Cardinality(Held') + 1 <= Cardinality(Held)
      BY <2>9, FewerHeld, HeldFinite
    <3>2. CASE iid
      <4>1. info[HeadInfo].upper = "held"
        BY <1>3, <2>2, <2>3, <3>2 DEF InfoRec, Uppers
      <4>2. HeadInfo \in Held /\ HeadInfo \notin Held'
        BY <1>3, <2>4, <2>9, <3>2, <4>1 DEF Held
      <4> QED  BY <1>4, <2>1, <3>1, <4>2 DEF IidReturnedOnce
    <3>3. CASE ~iid
      BY <1>4, <2>1, <3>1, <3>3 DEF IidReturnedOnce
    <3> QED  BY <3>2, <3>3
  <2>11. DoneFindsHead' /\ RadioOff'
    BY <1>1, <1>2, <2>1 DEF IInv, DoneFindsHead, RadioOff
  <2> QED  BY <2>9, <2>10, <2>11 DEF IInv
<1> QED  BY <1>6, <1>7 DEF SendDone

\* SplitControl.stop and start preserve the invariant.
LEMMA ControlStep ==
    ASSUME IInv, SplitControlStop \/ SplitControlStart
    PROVE  IInv'
<1>1. UNCHANGED <<packets, pools, posted, owed>>
      /\ state' \in {"running", "stopped", "stopping"}
      /\ radioOn' \in BOOLEAN /\ ipBusy' = ipBusy
  <2>1. CASE SplitControlStop
    BY <2>1 DEF SplitControlStop, IInv, Buffers, TypeOK
  <2>2. CASE SplitControlStart
    <3>1. ~ipBusy
      BY <2>2 DEF SplitControlStart, IInv, RadioOff
    <3>2. ipBusy = FALSE
      BY <3>1 DEF IInv, Buffers, TypeOK
    <3> QED  BY <2>2, <3>2 DEF SplitControlStart
  <2> QED  BY <2>1, <2>2
<1>2. Buffers' /\ IidReturnedOnce'
  BY <1>1, PacketsUntouched DEF IInv, Buffers, TypeOK
<1>3. DoneFindsHead'
  BY <1>1 DEF IInv, DoneFindsHead, HeadInfo, packets
<1>4. RadioOff'
  BY <1>1 DEF SplitControlStop, SplitControlStart, IInv, RadioOff
<1> QED  BY <1>2, <1>3, <1>4 DEF IInv

-----------------------------------------------------------------------------
(* The theorems.                                                           *)

\* Every step, and every stutter, preserves the invariant.
LEMMA NextStep ==
    ASSUME IInv, [Next]_vars
    PROVE  IInv'
<1>1. ASSUME UNCHANGED vars  PROVE IInv'
  <2>1. UNCHANGED <<packets, pools, ipBusy, posted, owed, state, radioOn>>
    BY <1>1 DEF vars, packets, pools
  <2>2. Buffers' /\ IidReturnedOnce'
    BY <2>1, PacketsUntouched DEF IInv, Buffers, TypeOK
  <2>3. DoneFindsHead' /\ RadioOff'
    BY <2>1 DEF IInv, DoneFindsHead, RadioOff, HeadInfo, packets
  <2> QED  BY <2>2, <2>3 DEF IInv
<1>2. CASE Upper
  <2>1. PICK k \in Kinds, n \in 1 .. MaxFrags, m \in BOOLEAN : IPSend(k, n, m)
    BY <1>2 DEF Upper
  <2> QED  BY <2>1, <1>1, SendPacketStep DEF IPSend, SendRejected
<1>3. CASE SendTask
  BY <1>3, SendTaskStep
<1>4. CASE SendDone
  BY <1>4, SendDoneStep
<1>5. CASE Control
  BY <1>5, ControlStep DEF Control
<1> QED  BY <1>1, <1>2, <1>3, <1>4, <1>5 DEF Next

\* The invariant holds of every run.
THEOREM Invariance == Spec => []IInv
<1>1. Init => IInv
  BY InitIInv
<1>2. IInv /\ [Next]_vars => IInv'
  BY NextStep
<1> QED  BY <1>1, <1>2, PTL DEF Spec

\* For any number of fragments and packets: the pools, the queue and the
\* send_info fields of IPDispatchP keep within their sizes and types.
THEOREM TypeCorrect == Spec => []TypeOK
<1>1. IInv => TypeOK
  BY DEF IInv, Buffers
<1> QED  BY <1>1, Invariance, PTL

\* For any number of fragments and packets: every fragment buffer and every
\* queue entry is in its pool or in SendQueue, through partial packets
\* (IPLower.send), dropped fragments (sendTask) and completions (sendDone).
THEOREM FragmentsConserved == Spec => []BuffersConserved
<1>1. IInv => BuffersConserved
  BY DEF IInv, Buffers
<1> QED  BY <1>1, Invariance, PTL

\* For any number of fragments and packets: the reference count of a send_info
\* is what refers to it, so that none is freed early, twice, or never.
THEOREM ReferencesCounted == Spec => []RefcountsExact
<1>1. IInv => RefcountsExact
  BY DEF IInv, Buffers
<1> QED  BY <1>1, Invariance, PTL

\* For any number of fragments and packets: sendDone finds the fragment that
\* was sent at the head of SendQueue, and radioBusy says when one is due.
THEOREM CompletionFindsFragment == Spec => []DoneFindsHead
<1>1. IInv => DoneFindsHead
  BY DEF IInv
<1> QED  BY <1>1, Invariance, PTL

\* For any number of fragments and packets: the in6_iid pool of
\* IPForwardingEngineP never receives more than it gave.
THEOREM IidsReturnedOnce == Spec => []IidReturnedOnce
<1>1. IInv => IidReturnedOnce
  BY DEF IInv
<1> QED  BY <1>1, Invariance, PTL

\* One step of StopWaits.
LEMMA StopWaitsStep ==
    ASSUME IInv, [Next]_vars, radioOn, ~radioOn'
    PROVE  owed' = 0
<1>1. CASE SplitControlStop
  <2>1. ~ipBusy /\ owed' = owed
    BY <1>1 DEF SplitControlStop
  <2> QED  BY <2>1 DEF IInv, Buffers, TypeOK, DoneFindsHead
<1>2. CASE SendDone
  BY <1>2 DEF SendDone, IInv, Buffers, TypeOK
<1>3. CASE Upper \/ SendTask \/ SplitControlStart \/ UNCHANGED vars
  BY <1>3
     DEF Upper, IPSend, SendRejected, SendPacket, SendTask, SendTaskIdle,
         SendTaskDrops, SendTaskFails, DropHead, SendTaskSends, control,
         SplitControlStart, vars
<1> QED  BY <1>1, <1>2, <1>3 DEF Next, Control

\* For any number of fragments and packets: SplitControl.stop turns the radio
\* off only when the layer below owes no sendDone.
THEOREM StopAwaitsCompletion == Spec => StopWaits
<1>1. IInv /\ [Next]_vars => [radioOn /\ ~radioOn' => owed' = 0]_vars
  BY StopWaitsStep
<1> QED  BY <1>1, Invariance, PTL DEF Spec, StopWaits
=============================================================================
