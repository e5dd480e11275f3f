----------------------- MODULE NeighbourTable_proofs ------------------------
(***************************************************************************)
(* Proofs about NeighbourTable, for any set of neighbours, any size of the *)
(* table and any MAX_RETX_ATTEMPTS, on a platform whose ints do not wrap.  *)
(***************************************************************************)
EXTENDS NeighbourTable, SequenceTheorems, NaturalsInduction,
        WellFoundedInduction, TLAPS

\* The largest uint16_t, for leaves that need not know its value.
LEMMA Uint16Facts == UINT16_MAX \in Nat /\ UINT16_MAX >= 1
BY DEF UINT16_MAX

\* The backpressure of a new entry is one that a node can have.
LEMMA BackpressureFacts == MaxBackpressure \in Nat /\ 255 \in 0 .. MaxBackpressure
BY DEF MaxBackpressure, UINT16_MAX

\* The averages stay in their ranges.
LEMMA EtxAverageFacts ==
    ASSUME ~IntIs16Bits,
           NEW old \in 100 .. 200 * MaxRetx, NEW n \in 1 .. 2 * MaxRetx
    PROVE  EtxAverage(old, n) \in 100 .. 200 * MaxRetx
<1>1. MaxRetx \in Nat \ {0}
  BY TableAssumption
<1>2. EtxAverage(old, n) = (old * 90 + n * 100 * 10) \div 100
  BY DEF EtxAverage, Wrap
<1>3. /\ old * 90 + n * 100 * 10 \in Int
      /\ 10000 <= old * 90 + n * 100 * 10
      /\ old * 90 + n * 100 * 10 <= 20000 * MaxRetx
  BY <1>1
<1>4. ASSUME NEW x \in Int, 10000 <= x, x <= 20000 * MaxRetx
      PROVE  x \div 100 \in 100 .. 200 * MaxRetx
  BY <1>1, <1>4
<1> QED  BY <1>2, <1>3, <1>4

\* nt_update_neighbour_tx_time stays a positive uint16_t.
LEMMA TimeAverageFacts ==
    ASSUME NEW a \in Addrs, NEW t \in TxTimes[a],
           NEW old \in 1 .. UINT16_MAX
    PROVE  TimeAverage(old, t) \in 1 .. UINT16_MAX
<1> USE Uint16Facts
<1>1. t \in 0 .. UINT16_MAX
  BY TableAssumption
<1>2. CASE t = 0
  <2>1. TimeAverage(old, t) = (9 * old + 1) \div 10
    BY <1>2 DEF TimeAverage
  <2> QED  BY <2>1
<1>3. CASE t # 0
  <2>1. TimeAverage(old, t) = (9 * old + t) \div 10
    BY <1>3 DEF TimeAverage
  <2> QED  BY <2>1, <1>1, <1>3
<1> QED  BY <1>2, <1>3

\* _get_neighbour_index
LEMMA EnteredFacts ==
    ASSUME order \in Seq(Addrs), Len(order) <= MaxNeighbours,
           IsInjective(order), NEW a \in Addrs
    PROVE  /\ Entered(a) \in Seq(Addrs)
           /\ Len(Entered(a)) <= MaxNeighbours
           /\ IsInjective(Entered(a))
           /\ Listed \subseteq ToSet(Entered(a))
<1>0. MaxNeighbours \in Nat
  BY TableAssumption
<1>1. CASE a \in Listed \/ Len(order) >= MaxNeighbours
  BY <1>1 DEF Entered, Listed
<1>2. CASE a \notin Listed /\ ~(Len(order) >= MaxNeighbours)
  <2> DEFINE t == Append(order, a)
  <2>1. Len(order) \in Nat /\ DOMAIN order = 1 .. Len(order)
    BY LenProperties
  <2>2. Entered(a) = t
    BY <1>2 DEF Entered
  <2>3. /\ t \in Seq(Addrs) /\ Len(t) = Len(order) + 1
        /\ \A i \in 1 .. Len(order) : t[i] = order[i]
        /\ t[Len(order) + 1] = a
    BY AppendProperties
  <2>4. DOMAIN t = 1 .. Len(order) + 1
    BY <2>3, LenProperties
  <2> HIDE DEF t
  <2>5. IsInjective(t)
    BY <1>2, <2>1, <2>3, <2>4 DEF IsInjective, Listed, ToSet
  <2>6. Listed \subseteq ToSet(t)
    BY <2>1, <2>3, <2>4 DEF Listed, ToSet
  <2>7. Len(t) <= MaxNeighbours
    BY <1>0, <1>2, <2>1, <2>3
  <2> QED  BY <2>2, <2>3, <2>5, <2>6, <2>7
<1> QED  BY <1>1, <1>2

-----------------------------------------------------------------------------
(* The inductive invariant.  That a frame at the link layer has been       *)
(* counted (tx >= 1) is what keeps the ETX of a delivered packet at one    *)
(* transmission or more.                                                   *)

IInv ==
    /\ TypeOK
    /\ \A a \in Addrs : ETX[a] \in 100 .. 200 * MaxRetx
    /\ \A a \in Addrs : tx_time[a] \in 1 .. UINT16_MAX
    /\ ResultsFindTheirEntry
    /\ air # NoPacket => tx[air] >= 1

\* The initial state satisfies the inductive invariant.
LEMMA InitIInv == Init => IInv
<1> SUFFICES ASSUME Init  PROVE IInv
  OBVIOUS
<1> USE TableAssumption, Uint16Facts
<1>1. order \in Seq(Addrs) /\ Len(order) = 0 /\ IsInjective(order)
  BY DEF Init, IsInjective
<1>2. TypeOK
  BY <1>1, BackpressureFacts DEF Init, TypeOK
<1> QED  BY <1>1, <1>2 DEF Init, IInv, ResultsFindTheirEntry

\* The chosen neighbour is in the table.
LEMMA BestListed ==
    ASSUME order \in Seq(Addrs), NEW myBP, NEW a \in Best(myBP)
    PROVE  a \in Listed /\ a \in Addrs
<1>1. PICK i \in DOMAIN order : a = order[i]
  BY DEF Best
<1> QED  BY <1>1, LenProperties, ElementOfSeq DEF Listed, ToSet

\* UDPBeacon.recvfrom preserves the table's invariant.
LEMMA BeaconStep ==
    ASSUME IInv, NEW a \in Addrs, NEW bp \in BeaconBPs, BeaconReceived(a, bp)
    PROVE  IInv'
<1> USE DEF BeaconReceived
<1>1. /\ order' \in Seq(Addrs) /\ Len(order)' <= MaxNeighbours
      /\ IsInjective(order') /\ Listed \subseteq ToSet(order')
  BY EnteredFacts DEF IInv, TypeOK, ResultsFindTheirEntry
<1>2. backpressure' \in [Addrs -> 0 .. MaxBackpressure]
  BY TableAssumption, BackpressureFacts DEF IInv, TypeOK
<1>3. TypeOK'
  BY <1>1, <1>2 DEF IInv, TypeOK
<1>4. ResultsFindTheirEntry'
  BY <1>1 DEF IInv, ResultsFindTheirEntry, Listed
<1> QED  BY <1>3, <1>4 DEF IInv

\* An attempt of sendDataTask preserves it: the chosen neighbour is listed.
LEMMA AttemptStep ==
    ASSUME IInv, NEW p \in Packets, Attempt(p)
    PROVE  IInv'
<1> USE DEF Attempt
<1>1. curr_nb' \in Listed /\ curr_nb' \in Addrs
  BY BestListed DEF IInv, TypeOK
<1>2. tx[p] \in 0 .. MaxRetx /\ tx[p] < MaxRetx /\ MaxRetx \in Nat
  BY TableAssumption DEF IInv, TypeOK
<1>3. tx' \in [Packets -> 0 .. MaxRetx] /\ tx'[p] = tx[p] + 1
  BY <1>2 DEF IInv, TypeOK
<1>4. TypeOK'
  BY <1>1, <1>3 DEF IInv, TypeOK
<1>5. ResultsFindTheirEntry'
  BY <1>1 DEF IInv, ResultsFindTheirEntry, Listed
<1>6. tx'[air'] >= 1
  BY <1>2, <1>3
<1> QED  BY <1>4, <1>5, <1>6 DEF IInv

\* Both link results: the ETX of a listed neighbour is averaged with n.
LEMMA UpdateFacts ==
    ASSUME IInv, ~IntIs16Bits, NEW a \in Addrs, a \in Listed,
           NEW n \in 1 .. 2 * MaxRetx, UpdateETX(a, n)
    PROVE  /\ order' = order
           /\ ETX' \in [Addrs -> 0 .. UINT16_MAX]
           /\ \A b \in Addrs : ETX'[b] \in 100 .. 200 * MaxRetx
<1> USE DEF UpdateETX
<1>1. order' = order /\ Found(a)
  BY DEF Entered, Found
<1>2. EtxAverage(ETX[a], n) \in 100 .. 200 * MaxRetx
  BY EtxAverageFacts DEF IInv
<1>3. ETX' = [ETX EXCEPT ![a] = EtxAverage(ETX[a], n)]
  BY <1>1 DEF EtxOf
<1>4. MaxRetx \in Nat /\ 200 * MaxRetx <= UINT16_MAX
  BY TableAssumption
<1>5. \A b \in Addrs : ETX'[b] \in 100 .. 200 * MaxRetx
  BY <1>2, <1>3 DEF IInv, TypeOK
<1>6. ETX' \in [Addrs -> 0 .. UINT16_MAX]
  <2>1. EtxAverage(ETX[a], n) \in 0 .. UINT16_MAX
    BY <1>2, <1>4, Uint16Facts
  <2>2. ETX \in [Addrs -> 0 .. UINT16_MAX]
    BY DEF IInv, TypeOK
  <2> QED  BY ONLY <1>3, <2>1, <2>2
<1> QED  BY <1>1, <1>5, <1>6

\* The penalty of sendDataTask preserves it.
LEMMA GiveUpStep ==
    ASSUME IInv, ~IntIs16Bits, NEW p \in Packets, GiveUp(p)
    PROVE  IInv'
<1> USE DEF GiveUp
<1>1. curr_nb' \in Listed /\ curr_nb' \in Addrs
  BY BestListed DEF IInv, TypeOK
<1>2. 2 * MaxRetx \in 1 .. 2 * MaxRetx /\ MaxRetx \in Nat
  BY TableAssumption
<1>3. /\ order' = order /\ ETX' \in [Addrs -> 0 .. UINT16_MAX]
      /\ \A b \in Addrs : ETX'[b] \in 100 .. 200 * MaxRetx
  BY <1>1, <1>2, UpdateFacts
<1>4. tx' \in [Packets -> 0 .. MaxRetx]
  BY <1>2 DEF IInv, TypeOK
<1>5. TypeOK'
  BY <1>1, <1>3, <1>4 DEF IInv, TypeOK
<1>6. ResultsFindTheirEntry'
  BY <1>1, <1>3 DEF IInv, ResultsFindTheirEntry, Listed
<1> QED  BY <1>3, <1>5, <1>6 DEF IInv

\* A completion without acknowledgement preserves it.
LEMMA LostStep ==
    ASSUME IInv, Lost
    PROVE  IInv'
<1> USE DEF Lost
<1>1. TypeOK'
  BY DEF IInv, TypeOK
<1> QED  BY <1>1 DEF IInv, ResultsFindTheirEntry

\* An acknowledgement preserves it: both averages stay in range.
LEMMA DeliveredStep ==
    ASSUME IInv, ~IntIs16Bits, Delivered
    PROVE  IInv'
<1> USE DEF Delivered
<1>1. curr_nb \in Listed /\ curr_nb \in Addrs /\ air \in Packets
  <2>1. curr_nb \in Listed /\ air \in Packets
    BY DEF IInv, TypeOK, ResultsFindTheirEntry
  <2> QED
    BY <2>1, LenProperties, ElementOfSeq DEF IInv, TypeOK, Listed, ToSet
<1>2. MaxRetx \in Nat /\ tx[air] \in 1 .. 2 * MaxRetx
  <2>1. MaxRetx \in Nat /\ tx[air] \in 0 .. MaxRetx /\ tx[air] >= 1
    BY <1>1, TableAssumption DEF IInv, TypeOK
  <2> QED  BY <2>1
<1>3. /\ order' = order /\ ETX' \in [Addrs -> 0 .. UINT16_MAX]
      /\ \A b \in Addrs : ETX'[b] \in 100 .. 200 * MaxRetx
  BY <1>1, <1>2, UpdateFacts
<1>4. /\ tx_time' \in [Addrs -> 0 .. UINT16_MAX]
      /\ \A b \in Addrs : tx_time'[b] \in 1 .. UINT16_MAX
  <2>1. PICK t \in TxTimes[curr_nb] : UpdateLinkRate(curr_nb, t)
    OBVIOUS
  <2>2. tx_time' = [tx_time EXCEPT ![curr_nb]
                       = TimeAverage(tx_time[curr_nb], t)]
    BY <1>1, <2>1 DEF UpdateLinkRate, Found, TimeOf
  <2>3. TimeAverage(tx_time[curr_nb], t) \in 1 .. UINT16_MAX
    BY <1>1, TimeAverageFacts DEF IInv
  <2>4. TimeAverage(tx_time[curr_nb], t) \in 0 .. UINT16_MAX
    BY <2>3, Uint16Facts
  <2>5. /\ tx_time \in [Addrs -> 0 .. UINT16_MAX]
        /\ \A b \in Addrs : tx_time[b] \in 1 .. UINT16_MAX
    BY DEF IInv, TypeOK
  <2>6. tx_time' \in [Addrs -> 0 .. UINT16_MAX]
    BY ONLY <2>2, <2>4, <2>5
  <2>7. \A b \in Addrs : tx_time'[b] \in 1 .. UINT16_MAX
    BY ONLY <2>2, <2>3, <2>5
  <2> QED  BY <2>6, <2>7
<1>5. tx' \in [Packets -> 0 .. MaxRetx]
  BY <1>2 DEF IInv, TypeOK
<1>6. TypeOK'
  BY <1>3, <1>4, <1>5 DEF IInv, TypeOK
<1>7. ResultsFindTheirEntry'
  BY <1>3 DEF IInv, ResultsFindTheirEntry
<1> QED  BY <1>3, <1>4, <1>6, <1>7 DEF IInv

\* Every step, and every stutter, preserves the inductive invariant.
LEMMA NextStep ==
    ASSUME IInv, ~IntIs16Bits, [Next]_vars
    PROVE  IInv'
<1>1. CASE Beacons
  BY <1>1, BeaconStep DEF Beacons
<1>2. CASE Attempts
  BY <1>2, AttemptStep, GiveUpStep DEF Attempts
<1>3. CASE Lost
  BY <1>3, LostStep
<1>4. CASE Delivered
  BY <1>4, DeliveredStep
<1>5. CASE UNCHANGED vars
  BY <1>5 DEF vars, IInv, TypeOK, ResultsFindTheirEntry, Listed
<1> QED  BY <1>1, <1>2, <1>3, <1>4, <1>5 DEF Next

\* The inductive invariant of the table holds of every run of updateNeighbour,
\* the beacons and the link results; the theorems below follow from it.
THEOREM TableInvariance ==
    ASSUME ~IntIs16Bits
    PROVE  Spec => []IInv
<1>1. Init => IInv
  BY InitIInv
<1>2. IInv /\ [Next]_vars => IInv'
  BY NextStep
<1> QED  BY <1>1, <1>2, PTL DEF Spec

\* However many acknowledgements and penalties nt_update_neighbour_ETX
\* averages, no link looks better than a lossless one or worse than a
\* penalty, if int is wide enough; table_etx16 shows that 16 bits are not.
THEOREM EtxStaysInRange ==
    ASSUME ~IntIs16Bits
    PROVE  Spec => []EtxInRange
<1>1. IInv => EtxInRange
  BY DEF IInv, EtxInRange
<1> QED  BY <1>1, TableInvariance, PTL

\* A link result always finds the entry of its neighbour, and an address has
\* one entry, whatever beacons met a full table.
THEOREM LinkResultsSafe ==
    ASSUME ~IntIs16Bits
    PROVE  Spec => []ResultsFindTheirEntry
<1>1. IInv => ResultsFindTheirEntry
  BY DEF IInv
<1> QED  BY <1>1, TableInvariance, PTL

\* The division by tx_time in updateNeighbour is always defined, and every
\* field of the table keeps its type.
THEOREM RateIsDefined ==
    ASSUME ~IntIs16Bits
    PROVE  Spec => [](TypeOK /\ RateDefined)
<1>1. IInv => TypeOK /\ RateDefined
  BY DEF IInv, RateDefined
<1> QED  BY <1>1, TableInvariance, PTL

-----------------------------------------------------------------------------
(* The choice of updateNeighbour.  Gradients and rates are small enough    *)
(* for their product to fit an int32_t; the rest is order: of products, of *)
(* quotients, and the greatest weight that the scan of the table finds.    *)

\* The quotient by a longer time is not larger.
LEMMA QuotientOrder ==
    ASSUME NEW s \in Nat \ {0}, NEW t \in Nat \ {0}, s <= t
    PROVE  10000 \div t <= 10000 \div s
<1> DEFINE p == 10000 \div s
           q == 10000 \div t
<1>1. p \in Nat /\ q \in Nat
  BY SMT
<1>2. 10000 < s * (p + 1) /\ t * q <= 10000
  BY SMT
<1> HIDE DEF p, q
<1>3. SUFFICES ASSUME q >= p + 1  PROVE FALSE
  BY <1>1, SMT DEF p, q
<1>4. s * (p + 1) <= s * q
  BY <1>1, <1>3, SMT
<1>5. s * q <= t * q
  BY <1>1, SMT
<1> QED  BY <1>1, <1>2, <1>4, <1>5, SMT

\* The quotient is a rate from 0 to 10000; it is 0 above ten seconds only.
LEMMA QuotientRange ==
    ASSUME NEW t \in Nat \ {0}
    PROVE  /\ 10000 \div t \in Nat /\ 10000 \div t <= 10000
           /\ t > 10000 => 10000 \div t = 0
           /\ t <= 10000 => 10000 \div t >= 1
<1> DEFINE q == 10000 \div t
<1>1. q \in Nat /\ t * q <= 10000 /\ 10000 < t * (q + 1)
  BY SMT
<1> HIDE DEF q
<1>2. q <= t * q
  BY <1>1, SMT
<1>3. q >= 1 => t <= t * q
  BY <1>1, SMT
<1>4. q = 0 => 10000 < t
  BY <1>1, SMT
<1>5. /\ q \in Nat /\ q <= 10000
      /\ t > 10000 => q = 0
      /\ t <= 10000 => q >= 1
  BY <1>1, <1>2, <1>3, <1>4, SMT
<1> QED  BY <1>5 DEF q

\* No gradient is farther from zero than GradientLimit, and no weight farther
\* than WeightLimit, which is less than INT32_MAX.
GradientLimit == 70000
WeightLimit   == GradientLimit * 10000

LEMMA LimitFacts ==
    /\ GradientLimit \in Nat /\ WeightLimit \in Nat
    /\ INT32_MAX \in Nat /\ WeightLimit <= INT32_MAX
BY SMT DEF GradientLimit, WeightLimit, INT32_MAX

\* The range of a product, and its order.
LEMMA ProductRange ==
    ASSUME NEW G \in Nat, NEW R \in Nat, NEW g \in Int, NEW r \in Nat,
           -G <= g, g <= G, r <= R
    PROVE  g * r \in Int /\ -(G * R) <= g * r /\ g * r <= G * R
<1>1. G * r <= G * R
  BY SMT
<1>2. g * r <= G * r
  BY SMT
<1>3. (-G) * r <= g * r
  BY SMT
<1>4. (-G) * r = -(G * r)
  BY SMT
<1> QED  BY <1>1, <1>2, <1>3, <1>4, SMT

LEMMA ProductOrder ==
    ASSUME NEW g \in Int, NEW h \in Int, NEW r \in Nat, NEW q \in Nat,
           h > g, h > 0, r >= 1, r >= q
    PROVE  h * r > g * q
<1>1. CASE g <= 0
  <2>1. g * q <= 0
    BY <1>1, SMT
  <2>2. h * r >= r
    BY SMT
  <2> QED  BY <2>1, <2>2, SMT
<1>2. CASE g > 0
  <2>1. g * q <= g * r
    BY <1>2, SMT
  <2>2. g * r < h * r
    BY <1>2, SMT
  <2> QED  BY <2>1, <2>2, SMT
<1> QED  BY <1>1, <1>2, SMT

\* What updateNeighbour computes for a neighbour.
LEMMA WeightFacts ==
    ASSUME IInv, ~IntIs16Bits, NEW myBP \in LocalBPs, NEW a \in Addrs
    PROVE  /\ Gradient(a, myBP) \in Int /\ Rate(a) \in Nat
           /\ tx_time[a] \in Nat \ {0}
           /\ Slow(a) => Rate(a) = 0
           /\ ~Slow(a) => Rate(a) >= 1
           /\ Weight(a, myBP) = Gradient(a, myBP) * Rate(a)
           /\ Weight(a, myBP) \in Int /\ Weight(a, myBP) <= WeightLimit
<1>1. PICK t \in Nat \ {0} : t = tx_time[a]
  BY Uint16Facts DEF IInv
<1>2. /\ Rate(a) \in Nat /\ Rate(a) <= 10000
      /\ tx_time[a] \in Nat \ {0}
      /\ Slow(a) => Rate(a) = 0
      /\ ~Slow(a) => Rate(a) >= 1
  BY <1>1, QuotientRange DEF Rate, Slow
<1>3. PICK g \in Int :
          /\ g = Gradient(a, myBP)
          /\ -GradientLimit <= g /\ g <= GradientLimit
  <2>1. PICK x \in 0 .. UINT16_MAX : x = ETX[a]
    BY DEF IInv, TypeOK
  <2>2. PICK b \in 0 .. MaxBackpressure : b = backpressure[a]
    BY DEF IInv, TypeOK
  <2>3. myBP \in 0 .. MaxBackpressure
    BY TableAssumption
  <2>4. Gradient(a, myBP) = myBP - b - ((2 * x) \div 100)
    BY <2>1, <2>2 DEF Gradient, Wrap
  <2>5. PICK y \in Nat : y = (2 * x) \div 100 /\ 100 * y <= 2 * x
    BY <2>1, Uint16Facts, SMT
  <2>6. MaxBackpressure = 65546 /\ UINT16_MAX = 65535 /\ GradientLimit = 70000
    BY SMT DEF MaxBackpressure, UINT16_MAX, GradientLimit
  <2>7. myBP \in Nat /\ myBP <= 65546 /\ b \in Nat /\ b <= 65546
    BY <2>3, <2>6, SMT
  <2>8. y <= 2000
    BY <2>5, <2>6, SMT
  <2>9. /\ myBP - b - y \in Int
        /\ -70000 <= myBP - b - y /\ myBP - b - y <= 70000
    BY <2>7, <2>8, SMT
  <2> QED  BY <2>4, <2>5, <2>6, <2>9
<1>4. PICK r \in Nat : r = Rate(a) /\ r <= 10000
  BY <1>2
<1>5. g * r \in Int /\ -WeightLimit <= g * r /\ g * r <= WeightLimit
  BY <1>3, <1>4, LimitFacts, ProductRange DEF WeightLimit
<1>6. -INT32_MAX - 1 <= g * r /\ g * r <= INT32_MAX
  BY <1>5, LimitFacts, SMT DEF INT32_MAX
<1>7. ToInt32(g * r) = g * r
  <2>1. g * r \in -INT32_MAX - 1 .. INT32_MAX
    BY <1>5, <1>6, LimitFacts, SMT
  <2> QED  BY <2>1 DEF ToInt32
<1>8. Weight(a, myBP) = g * r
  BY <1>3, <1>4, <1>7 DEF Weight
<1> QED  BY <1>2, <1>3, <1>4, <1>5, <1>8

\* A set of naturals has a least element.
LEMMA LeastFacts ==
    ASSUME NEW I, I \subseteq Nat, I # {}
    PROVE  \E i \in I : \A j \in I : i <= j
<1>1. \E i \in I : \A j \in I : ~(<<j, i>> \in OpToRel(<, Nat))
  BY WFMin, NatLessThanWellFounded, Zenon
<1>2. PICK i \in I : \A j \in I : ~(<<j, i>> \in OpToRel(<, Nat))
  BY <1>1, Zenon
<1>3. ASSUME NEW j \in I  PROVE i <= j
  <2>1. i \in Nat /\ j \in Nat
    OBVIOUS
  <2>2. ~(j < i)
    BY <1>2, <2>1 DEF OpToRel
  <2> QED  BY <2>1, <2>2
<1> QED  BY <1>3

\* If some weight is above -1, the scan of the table finds a next hop: of the
\* greatest weights, the one that comes first.
LEMMA SomeBest ==
    ASSUME IInv, ~IntIs16Bits, NEW myBP \in LocalBPs, NEW k \in DOMAIN order,
           Weight(order[k], myBP) > -1
    PROVE  Best(myBP) # {}
<1> DEFINE w(i) == Weight(order[i], myBP)
           Far == {WeightLimit - w(i) : i \in DOMAIN order}
           Most == {i \in DOMAIN order : \A j \in DOMAIN order : w(j) <= w(i)}
<1>1. order \in Seq(Addrs) /\ DOMAIN order \subseteq Nat
  <2>1. order \in Seq(Addrs)
    BY DEF IInv, TypeOK
  <2>2. Len(order) \in Nat /\ DOMAIN order = 1 .. Len(order)
    BY <2>1, LenProperties
  <2> QED  BY <2>1, <2>2
<1>2. \A i \in DOMAIN order : w(i) \in Int /\ w(i) <= WeightLimit
  <2> TAKE i \in DOMAIN order
  <2>1. order[i] \in Addrs
    BY <1>1, LenProperties, ElementOfSeq
  <2> QED  BY <2>1, WeightFacts
<1> HIDE DEF w
<1>3. PICK d \in Far : \A e \in Far : d <= e
  <2>1. ASSUME NEW v \in Int, v <= WeightLimit  PROVE WeightLimit - v \in Nat
    BY <2>1, LimitFacts
  <2>2. Far \subseteq Nat /\ Far # {}
    BY <1>2, <2>1
  <2> HIDE DEF Far
  <2> QED  BY <2>2, LeastFacts
<1>4. Most # {} /\ Most \subseteq Nat
  <2>1. PICK m \in DOMAIN order : d = WeightLimit - w(m)
    BY <1>3
  <2>2. ASSUME NEW j \in DOMAIN order  PROVE w(j) <= w(m)
    <3>1. WeightLimit - w(m) <= WeightLimit - w(j)
      BY <1>3, <2>1
    <3>2. w(j) \in Int /\ w(m) \in Int /\ WeightLimit \in Int
      BY <1>2, LimitFacts
    <3> QED  BY ONLY <3>1, <3>2
  <2> QED  BY <1>1, <2>2
<1>5. PICK i \in Most : \A j \in Most : i <= j
  <2> HIDE DEF Most
  <2> QED  BY <1>4, LeastFacts
<1>6. w(i) > -1
  BY <1>2, <1>5 DEF w
<1>7. ASSUME NEW j \in DOMAIN order
      PROVE  \/ w(j) < w(i)
             \/ w(j) = w(i) /\ i <= j
  <2>1. w(j) <= w(i)
    BY <1>5
  <2>2. w(j) = w(i) => j \in Most
    BY <1>5
  <2>3. w(j) \in Int /\ w(i) \in Int
    BY <1>2, <1>5
  <2>4. w(j) < w(i) \/ w(j) = w(i)
    BY ONLY <2>1, <2>3
  <2>5. j \in Most => i <= j
    BY <1>5
  <2> HIDE DEF Most
  <2> QED  BY <2>2, <2>4, <2>5
<1>8. IsBest(i, myBP)
  BY <1>6, <1>7 DEF w, IsBest
<1> QED  BY <1>5, <1>8 DEF Best

\* The chosen one has a weight above -1, and none has a greater one.
LEMMA BestGreatest ==
    ASSUME IInv, ~IntIs16Bits, NEW myBP \in LocalBPs, NEW a \in Best(myBP),
           NEW b \in Listed
    PROVE  /\ a \in Addrs /\ b \in Addrs
           /\ Weight(a, myBP) > -1 /\ Weight(b, myBP) <= Weight(a, myBP)
<1>1. PICK i \in DOMAIN order : a = order[i] /\ IsBest(i, myBP)
  BY DEF Best
<1>2. PICK j \in DOMAIN order : b = order[j]
  BY DEF Listed, ToSet
<1>3. a \in Addrs /\ b \in Addrs
  BY <1>1, <1>2, LenProperties, ElementOfSeq DEF IInv, TypeOK
<1>4. Weight(a, myBP) \in Int /\ Weight(b, myBP) \in Int
  BY <1>3, WeightFacts
<1> QED  BY <1>1, <1>2, <1>3, <1>4 DEF IsBest

\* For any table, any backpressures that nodes can have and any link results:
\* updateNeighbour finds a next hop if one lies down the gradient, and the one
\* it takes is downhill and not dominated, in spite of the 32-bit products and
\* the rounded rates; of neighbours slower than ten seconds only what
\* ChosenWell says.
THEOREM ChoiceIsWell ==
    ASSUME ~IntIs16Bits
    PROVE  Spec => []ChosenWell
<1>1. ASSUME IInv  PROVE ChosenWell
  <2> SUFFICES ASSUME NEW myBP \in LocalBPs
               PROVE  /\ (\E b \in Listed : Gradient(b, myBP) >= 0)
                            => Best(myBP) # {}
                      /\ \A a \in Best(myBP) :
                           /\ ~Slow(a) => Gradient(a, myBP) >= 0
                           /\ \A b \in Listed :
                                ~Slow(b) /\ Gradient(b, myBP) > 0 =>
                                  /\ ~Slow(a) /\ Gradient(a, myBP) > 0
                                  /\ Gradient(b, myBP) > Gradient(a, myBP)
                                       => tx_time[a] < tx_time[b]
    BY DEF ChosenWell
  <2> USE <1>1
  <2>1. ASSUME NEW b \in Listed, Gradient(b, myBP) >= 0
        PROVE  Best(myBP) # {}
    <3>1. PICK k \in DOMAIN order : b = order[k]
      BY DEF Listed, ToSet
    <3>2. b \in Addrs
      BY <3>1, LenProperties, ElementOfSeq DEF IInv, TypeOK
    <3>3. PICK g \in Int, r \in Nat :
              /\ g = Gradient(b, myBP) /\ g >= 0
              /\ r = Rate(b)
              /\ Weight(b, myBP) = g * r
      BY <2>1, <3>2, WeightFacts
    <3>4. g * r >= 0
      BY <3>3
    <3> QED  BY <3>1, <3>3, <3>4, SomeBest
  <2>2. ASSUME NEW a \in Best(myBP), ~Slow(a)
        PROVE  Gradient(a, myBP) >= 0
    <3>1. a \in Addrs /\ a \in Listed
      BY BestListed DEF IInv, TypeOK
    <3>2. PICK g \in Int, r \in Nat :
              /\ g = Gradient(a, myBP)
              /\ r = Rate(a) /\ r >= 1
              /\ Weight(a, myBP) = g * r
      BY <2>2, <3>1, WeightFacts
    <3>3. g * r > -1
      BY <3>1, <3>2, BestGreatest
    <3>4. SUFFICES ASSUME g <= -1  PROVE FALSE
      BY <3>2
    <3>5. g * r <= -1 * r
      BY <3>2, <3>4
    <3> QED  BY <3>2, <3>3, <3>5
  <2>3. ASSUME NEW a \in Best(myBP), NEW b \in Listed,
               ~Slow(b), Gradient(b, myBP) > 0
        PROVE  /\ ~Slow(a) /\ Gradient(a, myBP) > 0
               /\ Gradient(b, myBP) > Gradient(a, myBP)
                    => tx_time[a] < tx_time[b]
    <3>1. /\ a \in Addrs /\ b \in Addrs
          /\ Weight(a, myBP) > -1 /\ Weight(b, myBP) <= Weight(a, myBP)
      BY BestGreatest
    <3>2. PICK g \in Int, q \in Nat :
              /\ g = Gradient(a, myBP)
              /\ q = Rate(a)
              /\ Slow(a) => q = 0
              /\ Weight(a, myBP) = g * q
      BY <3>1, WeightFacts
    <3>3. PICK h \in Int, r \in Nat :
              /\ h = Gradient(b, myBP) /\ h > 0
              /\ r = Rate(b) /\ r >= 1
              /\ Weight(b, myBP) = h * r
      BY <2>3, <3>1, WeightFacts
    <3>4. h * r >= 1 /\ h * r <= g * q
      <4>1. h * r >= r
        BY <3>3
      <4>2. h * r >= 1
        BY <3>3, <4>1
      <4>3. Weight(a, myBP) = g * q /\ Weight(b, myBP) = h * r
        BY <3>2, <3>3
      <4> QED  BY ONLY <3>1, <4>2, <4>3
    <3>5. g > 0 /\ q # 0
      <4>1. SUFFICES ASSUME g <= 0 \/ q = 0  PROVE FALSE
        BY <3>2
      <4>2. g * q <= 0
        BY <3>2, <4>1
      <4> QED  BY <3>2, <3>3, <3>4, <4>2
    <3>6. h > g => tx_time[a] < tx_time[b]
      <4> SUFFICES ASSUME h > g, ~(tx_time[a] < tx_time[b])  PROVE FALSE
        OBVIOUS
      <4>1. PICK s \in Nat \ {0}, t \in Nat \ {0} :
              s = tx_time[b] /\ t = tx_time[a] /\ s <= t
        BY <3>1, WeightFacts
      <4>2. 10000 \div t <= 10000 \div s
        BY <4>1, QuotientOrder
      <4>3. q <= r
        <5>1. Rate(a) = 10000 \div t /\ Rate(b) = 10000 \div s
          BY <4>1 DEF Rate
        <5>2. q = Rate(a) /\ r = Rate(b)
          BY <3>2, <3>3
        <5> QED  BY ONLY <4>2, <5>1, <5>2
      <4>4. h * r > g * q
        BY <3>2, <3>3, <4>3, ProductOrder
      <4> QED  BY <3>2, <3>3, <3>4, <4>4
    <3> QED  BY <3>2, <3>3, <3>5, <3>6
  <2> QED  BY <2>1, <2>2, <2>3
<1> QED  BY <1>1, TableInvariance, PTL
=============================================================================
