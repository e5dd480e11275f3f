--------------------------- MODULE NeighbourTable ---------------------------
(***************************************************************************)
(* The neighbour table and the choice of the next hop                      *)
(* (tos/lib/net/backip/BackIPBeaconingP.nc), driven by the link results    *)
(* that BackIPQueueingP reports about the packets it sends.                *)
(*                                                                         *)
(* Each neighbour heard of has an entry: its advertised backpressure, an   *)
(* EWMA of its expected transmissions (ETX, in hundredths) and an EWMA of  *)
(* its transmission time.  Before every attempt the neighbour of greatest  *)
(* weight (differential backpressure less an ETX cost, times the rate) is  *)
(* chosen; an acknowledged packet updates both averages, and a packet that *)
(* used up its attempts penalises the link.                                *)
(*                                                                         *)
(* The queue is reduced to what the link results need: some packet is      *)
(* attempted, with its own tx_count (BackIPQueueing has the queue).        *)
(***************************************************************************)
EXTENDS Integers, FiniteSets, SequencesExt

CONSTANTS
    Addrs,           \* link-layer addresses of the nodes around
    NoAddr,          \* curr_nb_ll_addr before the first choice
    MaxNeighbours,   \* MAX_NEIGHBOURS
    MaxRetx,         \* MAX_RETX_ATTEMPTS
    Packets,         \* queue entries that may be attempted
    NoPacket,
    IntIs16Bits,     \* is the platform's int 16 bits wide (MSP430, AVR)?
    LocalBPs,        \* values of this node's own backpressure
    BeaconBPs,       \* backpressures that beacons advertise
    TxTimes,         \* transmission times that are measured, for each address
    Dead,            \* neighbours whose links never acknowledge
    Lossless         \* neighbours whose links always do

UINT16_MAX == 65535
INT32_MAX  == 2147483647

\* The largest backpressure that _get_bp computes: virtualQueueSize (uint16_t)
\* over a full stack (FORWARDING_QUEUE_SIZE) and the frame under send.
MaxBackpressure == UINT16_MAX + 10 + 1

ASSUME TableAssumption ==
    /\ NoAddr \notin Addrs /\ NoPacket \notin Packets
    /\ MaxNeighbours \in Nat \ {0}
    /\ MaxRetx \in Nat \ {0} /\ 200 * MaxRetx <= UINT16_MAX
    /\ IntIs16Bits \in BOOLEAN
    /\ LocalBPs \subseteq 0 .. MaxBackpressure
    /\ BeaconBPs \subseteq 0 .. MaxBackpressure
    /\ TxTimes \in [Addrs -> SUBSET (0 .. UINT16_MAX)]
    /\ Dead \subseteq Addrs /\ Lossless \subseteq Addrs \ Dead

VARIABLES
    order,           \* the addresses in the table, in order of their entries
    backpressure, ETX, tx_time,     \* the fields of the entries
    curr_nb,         \* curr_nb_ll_addr
    tx,              \* tx_count of each packet
    air,             \* the packet at the link layer
    tried,           \* history: neighbours some attempt was sent to
    penalised        \* history: neighbours some penalty was charged to

vars == <<order, backpressure, ETX, tx_time, curr_nb, tx, air, tried,
          penalised>>

Listed == ToSet(order)

-----------------------------------------------------------------------------
(* The table.                                                              *)

\* Slip: a new neighbour overwrites the last entry of a full table.
ReplacesLast(a) ==
    IF a \in Listed THEN order
    ELSE IF Len(order) < MaxNeighbours THEN Append(order, a)
    ELSE Append(Front(order), a)

\* Slip: the table grows past its last entry.
NoLimit(a) == IF a \in Listed THEN order ELSE Append(order, a)

\* _get_neighbour_index: find the address or append it, if there is room.
Entered(a) ==
    IF a \in Listed \/ Len(order) >= MaxNeighbours THEN order
    ELSE Append(order, a)

\* Whether the caller got an index.
Found(a) == a \in Listed \/ Len(order) < MaxNeighbours

\* The averages of a's entry; those of a new one.
EtxOf(a) == IF a \in Listed THEN ETX[a] ELSE 100
TimeOf(a) == IF a \in Listed THEN tx_time[a] ELSE 1

\* The arithmetic of uint16_t operands is done in (unsigned) int: modulo 2^16
\* where that has 16 bits; elsewhere nothing here reaches its limit.
Wrap(x) == IF IntIs16Bits THEN x % (UINT16_MAX + 1) ELSE x

\* Slip: the attempts are not scaled to hundredths.
Unscaled(old, n) == Wrap(old * 90 + n * 10) \div 100

\* nt_update_neighbour_ETX, LINK_ETX_ALPHA = 90
EtxAverage(old, n) == Wrap(old * 90 + n * 100 * 10) \div 100

\* Slip: a transmission within the millisecond counts as zero.
ZeroTime(old, t) == (9 * old + t) \div 10

\* nt_update_neighbour_tx_time, LINK_TX_TIME_ALPHA = 9, in 32 bits
TimeAverage(old, t) == (9 * old + (IF t = 0 THEN 1 ELSE t)) \div 10

-----------------------------------------------------------------------------
(* updateNeighbour: the first entry of greatest weight, if above -1.       *)

\* What there is to gain at a: the differential backpressure less the ETX cost.
Gradient(a, myBP) == myBP - backpressure[a] - Wrap(2 * ETX[a]) \div 100
Rate(a) == 10000 \div tx_time[a]

\* The product is a uint32_t; curr_weight, an int32_t, takes it modulo 2^32.
ToInt32(x) ==
    IF x \in -INT32_MAX - 1 .. INT32_MAX THEN x
    ELSE ((x + INT32_MAX + 1) % (2 * INT32_MAX + 2)) - INT32_MAX - 1

\* Slip: weights are kept in an int of 16 bits.
NarrowWeight(a, myBP) ==
    ((Gradient(a, myBP) * Rate(a) + 32768) % 65536) - 32768

Weight(a, myBP) == ToInt32(Gradient(a, myBP) * Rate(a))

IsBest(i, myBP) ==
    /\ Weight(order[i], myBP) > -1
    /\ \A j \in DOMAIN order :
          \/ Weight(order[j], myBP) < Weight(order[i], myBP)
          \/ Weight(order[j], myBP) = Weight(order[i], myBP) /\ i <= j

Best(myBP) == {order[i] : i \in {i \in DOMAIN order : IsBest(i, myBP)}}

-----------------------------------------------------------------------------
Init ==
    /\ order = <<>>
    /\ backpressure = [a \in Addrs |-> 255]
    /\ ETX = [a \in Addrs |-> 100]
    /\ tx_time = [a \in Addrs |-> 1]
    /\ curr_nb = NoAddr
    /\ tx = [p \in Packets |-> 0]
    /\ air = NoPacket
    /\ tried = {} /\ penalised = {}

\* UDPBeacon.recvfrom: a neighbour advertises its backpressure.
BeaconReceived(a, bp) ==
    /\ order' = Entered(a)
    /\ backpressure' =
         IF Found(a) THEN [backpressure EXCEPT ![a] = bp] ELSE backpressure
    /\ UNCHANGED <<ETX, tx_time, curr_nb, tx, air, tried, penalised>>

\* updateETX on the current neighbour
UpdateETX(a, n) ==
    /\ order' = Entered(a)
    /\ ETX' = IF Found(a) THEN [ETX EXCEPT ![a] = EtxAverage(EtxOf(a), n)]
              ELSE ETX

\* updateLinkRate on the current neighbour
UpdateLinkRate(a, t) ==
    tx_time' = IF Found(a)
               THEN [tx_time EXCEPT ![a] = TimeAverage(TimeOf(a), t)]
               ELSE tx_time

\* sendDataTask: a packet with attempts left goes to the best neighbour.
Attempt(p) ==
    /\ air = NoPacket
    /\ \E myBP \in LocalBPs : curr_nb' \in Best(myBP)
    /\ tx[p] < MaxRetx
    /\ tx' = [tx EXCEPT ![p] = @ + 1]
    /\ air' = p
    /\ tried' = tried \cup {curr_nb'}
    /\ UNCHANGED <<order, backpressure, ETX, tx_time, penalised>>

\* Slip: the packet is given up without a penalty for the link.
NoPenalty(p) ==
    /\ air = NoPacket
    /\ \E myBP \in LocalBPs : curr_nb' \in Best(myBP)
    /\ tx[p] >= MaxRetx
    /\ tx' = [tx EXCEPT ![p] = 0]
    /\ UNCHANGED <<order, ETX, backpressure, tx_time, air, tried, penalised>>

\* sendDataTask: a packet without attempts left penalises "the" neighbour,
\* which updateNeighbour has just chosen anew.
GiveUp(p) ==
    /\ air = NoPacket
    /\ \E myBP \in LocalBPs : curr_nb' \in Best(myBP)
    /\ tx[p] >= MaxRetx
    /\ UpdateETX(curr_nb', 2 * MaxRetx)
    /\ tx' = [tx EXCEPT ![p] = 0]
    /\ penalised' = penalised \cup {curr_nb'}
    /\ UNCHANGED <<backpressure, tx_time, air, tried>>

\* SubSend.sendDone, not acknowledged: the packet waits for another attempt.
Lost ==
    /\ air # NoPacket /\ curr_nb \notin Lossless
    /\ air' = NoPacket
    /\ UNCHANGED <<order, backpressure, ETX, tx_time, curr_nb, tx, tried,
                   penalised>>

\* SubSend.sendDone, acknowledged: both averages learn; the entry is recycled.
Delivered ==
    /\ air # NoPacket /\ curr_nb \notin Dead
    /\ UpdateETX(curr_nb, tx[air])
    /\ \E t \in TxTimes[curr_nb] : UpdateLinkRate(curr_nb, t)
    /\ tx' = [tx EXCEPT ![air] = 0]
    /\ air' = NoPacket
    /\ UNCHANGED <<backpressure, curr_nb, tried, penalised>>

Beacons  == \E a \in Addrs, bp \in BeaconBPs : BeaconReceived(a, bp)
Attempts == \E p \in Packets : Attempt(p) \/ GiveUp(p)

Next == Beacons \/ Attempts \/ Lost \/ Delivered

Spec == Init /\ [][Next]_vars

\* The queue keeps attempting (its tasks and timers are served), and the link
\* layer answers every frame.
FairSpec == Spec /\ WF_vars(Attempts) /\ WF_vars(Lost \/ Delivered)

-----------------------------------------------------------------------------
(* Properties.                                                             *)

\* The table holds at most MAX_NEIGHBOURS entries, one for each address, and
\* every field has a value of its type.
TypeOK ==
    /\ order \in Seq(Addrs) /\ Len(order) <= MaxNeighbours
    /\ backpressure \in [Addrs -> 0 .. MaxBackpressure]
    /\ ETX \in [Addrs -> 0 .. UINT16_MAX]
    /\ tx_time \in [Addrs -> 0 .. UINT16_MAX]
    /\ curr_nb \in Addrs \cup {NoAddr}
    /\ tx \in [Packets -> 0 .. MaxRetx]
    /\ air \in Packets \cup {NoPacket}
    /\ tried \subseteq Addrs /\ penalised \subseteq Addrs

\* "EWMA in 100ths of expected transmissions": an ETX is never better than
\* that of a lossless link (100), nor worse than the penalty of
\* nt_update_neighbour_ETX, whatever sequence of link results led to it.
EtxInRange == \A a \in Addrs : ETX[a] \in 100 .. 200 * MaxRetx

\* updateNeighbour never divides by zero: however many fast transmissions
\* nt_update_neighbour_tx_time averages, the time stays at least 1.
RateDefined == \A a \in Addrs : tx_time[a] >= 1

\* A link result is never lost to a full table, and never creates an entry:
\* the neighbour it is about is in the table, once.
ResultsFindTheirEntry ==
    /\ air # NoPacket => curr_nb \in Listed
    /\ IsInjective(order)

\* A neighbour that never acknowledges is abandoned for good when another one
\* is known whose link loses nothing, provided the two advertise alike and are
\* equally fast: the penalties of the dead link add up, in spite of the integer
\* divisions and of the penalties that are charged to the good link in its
\* place (which can keep a slower good link from ever being chosen).
DeadLinkAbandoned ==
    <>(Listed \cap Lossless # {}) => <>[](curr_nb \notin Dead)

\* 'Before "giving up" on a link': the link that is penalised for the failed
\* attempts is one that was attempted.
PenaltyDeserved == penalised \subseteq tried

\* The choice by products of 32 bits and rounded rates is the choice meant:
\* (1) there is a next hop if any neighbour lies down the gradient; (2) one
\* whose rate is not rounded to zero (at most ten seconds) is chosen only if
\* it does; (3) one that would gain something is passed over only for one that
\* gains something too, and if that one gains less, it is the faster of the two.
\* For all backpressures a node can have, up to the largest (342-372).  Slower
\* neighbours may be chosen uphill: see ChosenIsDownhill.
Slow(a) == tx_time[a] > 10000

ChosenWell ==
    \A myBP \in LocalBPs :
      /\ (\E b \in Listed : Gradient(b, myBP) >= 0) => Best(myBP) # {}
      /\ \A a \in Best(myBP) :
           /\ ~Slow(a) => Gradient(a, myBP) >= 0
           /\ \A b \in Listed :
                ~Slow(b) /\ Gradient(b, myBP) > 0 =>
                  /\ ~Slow(a) /\ Gradient(a, myBP) > 0
                  /\ Gradient(b, myBP) > Gradient(a, myBP)
                       => tx_time[a] < tx_time[b]

\* "No neighbour is good right now": a neighbour is chosen only down the
\* backpressure gradient.
ChosenIsDownhill ==
    \A myBP \in LocalBPs : \A a \in Best(myBP) : Gradient(a, myBP) >= 0
=============================================================================
