----------------------- MODULE BackIPQueueing_proofs -----------------------
(***************************************************************************)
(* Proofs about BackIPQueueing, for any number of queue entries and any    *)
(* bound on the number of messages.                                        *)
(***************************************************************************)
EXTENDS BackIPQueueing, SequenceTheorems, FiniteSetTheorems, TLAPS

-----------------------------------------------------------------------------
(* The stack operations, in terms of length, distinctness and contents.    *)

\* The capacity of the stack and of the pools is a positive number.
LEMMA SizeFacts == QSize \in Nat \ {0}
<1>1. QSize \in Nat
  BY QueueAssumption, FS_CardinalityType DEF QSize
<1>2. QSize # 0
  BY QueueAssumption, FS_EmptySet DEF QSize
<1> QED  BY <1>1, <1>2

\* popTop
LEMMA PopTopFacts ==
    ASSUME NEW s \in Seq(Entries), s # <<>>, IsInjective(s)
    PROVE  /\ PopTop(s) \in Seq(Entries)
           /\ Len(PopTop(s)) = Len(s) - 1
           /\ Len(s) \in Nat \ {0}
           /\ TopOf(s) \in Entries
           /\ IsInjective(PopTop(s))
           /\ ToSet(PopTop(s)) = ToSet(s) \ {TopOf(s)}
           /\ TopOf(s) \in ToSet(s)
<1>1. Len(s) \in Nat \ {0} /\ DOMAIN s = 1 .. Len(s)
  BY EmptySeq, LenProperties
<1>2. \A i \in 1 .. Len(s) - 1 : s[i] \in Entries
  BY <1>1, ElementOfSeq
<1>3. PopTop(s) = SubSeq(s, 1, Len(s) - 1)
  BY DEF PopTop, Front
<1>4. TopOf(s) = s[Len(s)]
  BY DEF TopOf, Last
<1>5. PopTop(s) \in Seq(Entries) /\ Len(PopTop(s)) = Len(s) - 1
  BY <1>1, <1>2, <1>3, SubSeqProperties
<1>6. \A i \in 1 .. Len(s) - 1 : PopTop(s)[i] = s[i]
  BY <1>1, <1>2, <1>3, SubSeqProperties
<1>7. DOMAIN PopTop(s) = 1 .. Len(s) - 1
  BY <1>5, LenProperties
<1>8. TopOf(s) \in Entries
  BY <1>1, <1>4, ElementOfSeq
<1>9. IsInjective(PopTop(s))
  BY <1>1, <1>6, <1>7 DEF IsInjective
<1>10. ToSet(PopTop(s)) = ToSet(s) \ {TopOf(s)}
  BY <1>1, <1>4, <1>6, <1>7 DEF IsInjective, ToSet
<1>11. TopOf(s) \in ToSet(s)
  BY <1>1, <1>4 DEF ToSet
<1> QED
  BY <1>1, <1>5, <1>8, <1>9, <1>10, <1>11

\* popBottom
LEMMA PopBottomFacts ==
    ASSUME NEW s \in Seq(Entries), s # <<>>, IsInjective(s)
    PROVE  /\ Tail(s) \in Seq(Entries)
           /\ Len(Tail(s)) = Len(s) - 1
           /\ Len(s) \in Nat \ {0}
           /\ Head(s) \in Entries
           /\ IsInjective(Tail(s))
           /\ ToSet(Tail(s)) = ToSet(s) \ {Head(s)}
           /\ Head(s) \in ToSet(s)
<1>1. Len(s) \in Nat \ {0} /\ DOMAIN s = 1 .. Len(s)
  BY EmptySeq, LenProperties
<1>2. /\ Head(s) \in Entries /\ Tail(s) \in Seq(Entries)
      /\ Len(Tail(s)) = Len(s) - 1
      /\ \A i \in 1 .. Len(s) - 1 : Tail(s)[i] = s[i + 1]
  BY HeadTailProperties
<1>3. DOMAIN Tail(s) = 1 .. Len(s) - 1
  BY <1>2, LenProperties
<1>4. Head(s) = s[1]
  BY <1>1
<1>5. IsInjective(Tail(s))
  BY <1>1, <1>2, <1>3 DEF IsInjective
<1>6. ToSet(Tail(s)) = ToSet(s) \ {Head(s)}
  <2>1. ASSUME NEW x \in ToSet(Tail(s))  PROVE  x \in ToSet(s) \ {Head(s)}
    BY <2>1, <1>1, <1>2, <1>3, <1>4 DEF IsInjective, ToSet
  <2>2. ASSUME NEW x \in ToSet(s), x # Head(s)  PROVE  x \in ToSet(Tail(s))
    <3>1. PICK i \in 1 .. Len(s) : x = s[i]
      BY <2>2, <1>1 DEF ToSet
    <3>2. i - 1 \in 1 .. Len(s) - 1 /\ (i - 1) + 1 = i
      BY <3>1, <2>2, <1>1, <1>4
    <3>3. Tail(s)[i - 1] = x
      BY <3>1, <3>2, <1>2
    <3> QED  BY <3>2, <3>3, <1>3 DEF ToSet
  <2> QED  BY <2>1, <2>2
<1>7. Head(s) \in ToSet(s)
  BY <1>1, <1>4 DEF ToSet
<1> QED
  BY <1>1, <1>2, <1>5, <1>6, <1>7

\* pushTop, when there is room
LEMMA PushTopFacts ==
    ASSUME NEW s \in Seq(Entries), Len(s) < QSize, IsInjective(s),
           NEW e \in Entries, e \notin ToSet(s)
    PROVE  /\ PushTop(s, e) = Append(s, e)
           /\ PushTop(s, e) \in Seq(Entries)
           /\ Len(PushTop(s, e)) = Len(s) + 1
           /\ IsInjective(PushTop(s, e))
           /\ ToSet(PushTop(s, e)) = ToSet(s) \cup {e}
<1> DEFINE t == Append(s, e)
<1>1. Len(s) \in Nat /\ DOMAIN s = 1 .. Len(s)
  BY LenProperties
<1>2. PushTop(s, e) = t
  BY DEF PushTop
<1>3. /\ t \in Seq(Entries) /\ Len(t) = Len(s) + 1
      /\ \A i \in 1 .. Len(s) : t[i] = s[i]
      /\ t[Len(s) + 1] = e
  BY AppendProperties
<1>4. DOMAIN t = 1 .. Len(s) + 1
  BY <1>3, LenProperties
<1> HIDE DEF t
<1>5. IsInjective(t)
  BY <1>1, <1>3, <1>4 DEF IsInjective, ToSet
<1>6. ToSet(t) = ToSet(s) \cup {e}
  <2>1. ASSUME NEW i \in 1 .. Len(s) + 1  PROVE t[i] \in ToSet(s) \cup {e}
    <3>1. CASE i = Len(s) + 1  BY <3>1, <1>3
    <3>2. CASE i # Len(s) + 1
      <4>1. i \in 1 .. Len(s)  BY <3>2, <1>1
      <4> QED  BY <4>1, <1>1, <1>3 DEF ToSet
    <3> QED  BY <3>1, <3>2
  <2>2. ASSUME NEW i \in 1 .. Len(s)  PROVE s[i] \in ToSet(t)
    BY <2>2, <1>1, <1>3, <1>4 DEF ToSet
  <2>3. e \in ToSet(t)
    BY <1>1, <1>3, <1>4 DEF ToSet
  <2> QED  BY <2>1, <2>2, <2>3, <1>1, <1>4 DEF ToSet
<1> QED
  BY <1>2, <1>3, <1>5, <1>6 DEF t

-----------------------------------------------------------------------------
(* The inductive invariant.  The counters are only known to be natural     *)
(* numbers; their bounds in TypeOK follow from the two accounting laws.    *)

DataTypes ==
    /\ stack \in Seq(Entries) /\ Len(stack) \in 0 .. QSize
    /\ tx \in [Entries -> 0 .. MaxRetx]
    /\ qePool \subseteq Entries
    /\ msgPool \in Nat
    /\ cur \in Entries
    /\ virtualQueueSize \in Nat
    /\ sending_data \in {0, 1}
    /\ my_last_bp \in Nat
    /\ stat_sent_total \in 0 .. MaxSends
    /\ stat_sent_null \in Nat /\ stat_sent_success \in Nat
    /\ stat_dropped_q \in Nat /\ stat_dropped_cond \in Nat
    /\ air \in Frames
    /\ owed \in {0, 1}
    /\ carried \in 0 .. QSize

FlagTypes ==
    /\ sending_beacon \in BOOLEAN
    /\ radioBusy \in BOOLEAN
    /\ suppress_sendDone \in BOOLEAN
    /\ txRetryTimer \in BOOLEAN
    /\ tasks \subseteq {"signalDone", "sendDataTask"}
    /\ beaconTimer \in BOOLEAN

IInv ==
    /\ DataTypes
    /\ FlagTypes
    /\ EachEntryOnce
    /\ MessagesConserved
    /\ Accounting
    /\ BackpressurePreserved
    /\ FlagsMatchFrame
    /\ SendDoneMatched

\* The counters, related as plain numbers.
LEMMA CounterLaws ==
    ASSUME IInv
    PROVE  /\ InFlight = sending_data
           /\ virtualQueueSize = stat_dropped_cond - stat_sent_null
           /\ Len(stack) + sending_data + stat_sent_success
              + stat_dropped_cond + stat_dropped_q <= MaxSends + QSize
<1> USE SizeFacts, QueueAssumption
<1>1. InFlight = sending_data
  BY DEF IInv, DataTypes, FlagsMatchFrame, InFlight, B2N
<1>2. /\ Len(stack) \in Nat /\ sending_data \in Nat
      /\ virtualQueueSize \in Nat /\ carried \in Nat /\ carried <= QSize
      /\ stat_sent_total \in Nat /\ stat_sent_total <= MaxSends
      /\ stat_sent_null \in Nat /\ stat_sent_success \in Nat
      /\ stat_dropped_q \in Nat /\ stat_dropped_cond \in Nat
  BY DEF IInv, DataTypes
<1>3. stat_sent_total + carried =
        Len(stack) + sending_data + stat_sent_success
        + stat_dropped_cond + stat_dropped_q
  BY <1>1 DEF IInv, Accounting
<1>4. Len(stack) + virtualQueueSize + sending_data =
        stat_sent_total + carried
        - stat_dropped_q - stat_sent_success - stat_sent_null
  BY DEF IInv, BackpressurePreserved, Backpressure
<1> QED  BY <1>1, <1>2, <1>3, <1>4

\* The invariant bounds the counters by their declared types.
LEMMA IInvTypeOK == IInv => TypeOK
<1> SUFFICES ASSUME IInv  PROVE TypeOK
  OBVIOUS
<1> USE SizeFacts, QueueAssumption
<1>1. /\ stat_sent_null \in Counter /\ stat_sent_success \in Counter
      /\ stat_dropped_q \in Counter /\ stat_dropped_cond \in Counter
      /\ virtualQueueSize \in Counter
  BY CounterLaws DEF IInv, DataTypes, Counter
<1>2. msgPool \in 0 .. QSize
  BY DEF IInv, DataTypes, MessagesConserved, InFlight, B2N
<1> QED
  BY <1>1, <1>2 DEF IInv, DataTypes, FlagTypes, TypeOK

\* What conditionalDiscard leaves behind.
LEMMA KeptFacts ==
    ASSUME IInv
    PROVE  /\ KeptStack \in Seq(Entries)
           /\ IsInjective(KeptStack)
           /\ Len(KeptStack) \in Nat /\ Len(KeptStack) < QSize
           /\ ToSet(KeptStack) \cup KeptQePool = ToSet(stack) \cup qePool
           /\ ToSet(KeptStack) \cap KeptQePool = {}
           /\ KeptQePool \subseteq Entries
           /\ KeptMsgPool \in Nat
           /\ KeptMsgPool + Len(KeptStack) = msgPool + Len(stack)
           /\ KeptVirtual \in Nat
           /\ KeptVirtual + Len(KeptStack) = virtualQueueSize + Len(stack)
           /\ KeptDropped \in Nat
           /\ KeptDropped + Len(KeptStack) = stat_dropped_cond + Len(stack)
<1> USE SizeFacts
<1>1. /\ stack \in Seq(Entries) /\ Len(stack) \in Nat /\ Len(stack) <= QSize
      /\ IsInjective(stack) /\ ToSet(stack) \cap qePool = {}
      /\ qePool \subseteq Entries
      /\ msgPool \in Nat /\ virtualQueueSize \in Nat
      /\ stat_dropped_cond \in Nat
  BY DEF IInv, DataTypes, EachEntryOnce, Occupied
<1>2. CASE Full
  <2>1. stack # <<>>
    BY <1>1, <1>2 DEF Full
  <2>2. /\ Tail(stack) \in Seq(Entries) /\ Len(Tail(stack)) = Len(stack) - 1
        /\ IsInjective(Tail(stack))
        /\ ToSet(Tail(stack)) = ToSet(stack) \ {Head(stack)}
        /\ Head(stack) \in ToSet(stack) /\ Head(stack) \in Entries
    BY <1>1, <2>1, PopBottomFacts
  <2>3. KeptStack = Tail(stack) /\ KeptQePool = qePool \cup {Head(stack)}
    BY <1>2 DEF KeptStack, KeptQePool
  <2>4. KeptMsgPool = msgPool + 1 /\ KeptVirtual = virtualQueueSize + 1
        /\ KeptDropped = stat_dropped_cond + 1 /\ Len(stack) = QSize
    BY <1>1, <1>2 DEF KeptMsgPool, KeptVirtual, KeptDropped, Full
  <2>5. /\ ToSet(KeptStack) \cup KeptQePool = ToSet(stack) \cup qePool
        /\ ToSet(KeptStack) \cap KeptQePool = {}
        /\ KeptQePool \subseteq Entries
    BY <1>1, <2>2, <2>3
  <2> QED  BY <1>1, <2>2, <2>3, <2>4, <2>5
<1>3. CASE ~Full
  <2>1. /\ KeptStack = stack /\ KeptQePool = qePool /\ KeptMsgPool = msgPool
        /\ KeptVirtual = virtualQueueSize
        /\ KeptDropped = stat_dropped_cond
        /\ Len(stack) < QSize
    BY <1>1, <1>3 DEF KeptStack, KeptQePool, KeptMsgPool, KeptVirtual,
                      KeptDropped, Full
  <2> QED  BY <1>1, <2>1
<1> QED  BY <1>2, <1>3

-----------------------------------------------------------------------------
(* Initiation, and consecution one action at a time.                       *)

\* The initial state satisfies the inductive invariant.
LEMMA InitIInv == Init => IInv
<1> SUFFICES ASSUME Init  PROVE IInv
  OBVIOUS
<1>1. DataTypes
  BY SizeFacts, QueueAssumption DEF Init, DataTypes, Frames
<1>2. FlagTypes
  BY DEF Init, FlagTypes
<1>3. EachEntryOnce
  BY DEF Init, EachEntryOnce, Occupied, ToSet, IsInjective
<1>4. MessagesConserved /\ FlagsMatchFrame /\ SendDoneMatched
  BY SizeFacts
     DEF Init, MessagesConserved, FlagsMatchFrame, SendDoneMatched, InFlight,
         B2N
<1>5. Accounting /\ BackpressurePreserved
  BY DEF Init, Accounting, BackpressurePreserved, Backpressure, InFlight, B2N
<1> QED  BY <1>1, <1>2, <1>3, <1>4, <1>5 DEF IInv

\* A step that leaves the buffers, the counters and the frame alone.
LEMMA Untouched ==
    ASSUME IInv,
           UNCHANGED <<stack, tx, qePool, msgPool, cur, virtualQueueSize,
                       sending_data, stats, air, carried>>
    PROVE  EachEntryOnce' /\ MessagesConserved' /\ Accounting'
           /\ BackpressurePreserved'
BY DEF IInv, EachEntryOnce, MessagesConserved, Accounting, Occupied,
       BackpressurePreserved, Backpressure, InFlight, stats

\* StdControl.start preserves the invariant.
LEMMA StartStep ==
    ASSUME IInv, ControlOps # "anytime", StdControlStart
    PROVE  IInv'
<1> USE DEF StdControlStart, buffers, stats
<1>1. air = "none"
  BY DEF ControlAllowed
<1>2. DataTypes' /\ FlagTypes'
  <2>1. DataTypes'
    BY SizeFacts, QueueAssumption DEF IInv, DataTypes
  <2>2. FlagTypes'  BY DEF IInv, FlagTypes
  <2> QED  BY <2>1, <2>2
<1>3. EachEntryOnce' /\ MessagesConserved' /\ SendDoneMatched'
  BY DEF IInv, EachEntryOnce, MessagesConserved, SendDoneMatched, Occupied,
         InFlight
<1>4. FlagsMatchFrame' /\ sending_data = 0
  BY <1>1 DEF IInv, FlagsMatchFrame, DataTypes
<1>5. Accounting' /\ BackpressurePreserved'
  BY <1>1, <1>4 DEF IInv, DataTypes, Accounting,
                    BackpressurePreserved, Backpressure, InFlight, B2N
<1> QED  BY <1>2, <1>3, <1>4, <1>5 DEF IInv

\* StdControl.stop preserves the invariant.
LEMMA StopStep ==
    ASSUME IInv, ControlOps # "anytime", StdControlStop
    PROVE  IInv'
<1> USE DEF StdControlStop, buffers, client, stats
<1>1. air = "none"
  BY DEF ControlAllowed
<1>2. DataTypes' /\ FlagTypes' /\ SendDoneMatched' /\ FlagsMatchFrame'
  BY <1>1 DEF IInv, DataTypes, FlagTypes, SendDoneMatched, FlagsMatchFrame
<1> QED  BY <1>2, Untouched DEF IInv

\* Steps that change only flags, timers and tasks.
LEMMA QuietStep ==
    ASSUME IInv,
           \/ BeaconTimerArmed \/ SendingBeacon \/ SendBeaconRefused
           \/ TaskRadioBusy \/ TaskNothing \/ TaskNoNeighbour
           \/ RetryTimerFired
    PROVE  IInv'
<1> USE DEF BeaconTimerArmed, SendingBeacon, SendBeaconRefused, TaskRadioBusy,
            TaskNothing, TaskNoNeighbour, RetryTimerFired, TaskStarts,
            RunTask, CheckBp, Post, buffers, client, stats
<1>1. UNCHANGED <<stack, tx, qePool, msgPool, cur, virtualQueueSize,
                  sending_data, radioBusy, suppress_sendDone, my_last_bp,
                  stats, air, owed, carried>>
  OBVIOUS
<1>2. DataTypes' /\ FlagTypes'
  BY DEF IInv, DataTypes, FlagTypes
<1>3. FlagsMatchFrame'
  BY <1>1 DEF IInv, FlagsMatchFrame
<1>4. "signalDone" \in tasks <=> "signalDone" \in tasks'
  OBVIOUS
<1>5. SendDoneMatched'
  BY <1>1, <1>4 DEF IInv, SendDoneMatched, B2N
<1> QED  BY <1>1, <1>2, <1>3, <1>5, Untouched DEF IInv

\* Send.send of a beacon preserves the invariant.
LEMMA SendBeaconStep ==
    ASSUME IInv, owed = 0, SendBeacon
    PROVE  IInv'
<1> USE DEF SendBeacon, BeaconToRadio, buffers, stats
<1>1. PICK ok \in Answers : BeaconToRadio(ok)
  OBVIOUS
<1>2. air = "none" /\ sending_data = 0 /\ "signalDone" \notin tasks
  BY DEF IInv, DataTypes, FlagsMatchFrame, SendDoneMatched, B2N, Frames
<1>3. Backpressure \in Nat
  BY <1>2 DEF IInv, DataTypes, Backpressure
<1>4. DataTypes' /\ FlagTypes'
  <2>1. DataTypes'  BY <1>1, <1>3 DEF IInv, DataTypes, Frames
  <2>2. FlagTypes'  BY <1>1 DEF IInv, FlagTypes
  <2> QED  BY <2>1, <2>2
<1>5. air' \in {"none", "beacon"} /\ air' # "data"
  BY <1>1, <1>2
<1>6. FlagsMatchFrame'
  BY <1>1, <1>2, <1>5 DEF FlagsMatchFrame
<1>7. SendDoneMatched'
  BY <1>1, <1>2 DEF SendDoneMatched, B2N
<1>8. EachEntryOnce' /\ MessagesConserved' /\ Accounting'
      /\ BackpressurePreserved'
  BY <1>2, <1>5 DEF IInv, EachEntryOnce, MessagesConserved, Accounting,
       Occupied, BackpressurePreserved, Backpressure, InFlight, B2N
<1> QED  BY <1>4, <1>6, <1>7, <1>8 DEF IInv

\* Task signalDone preserves the invariant.
LEMMA SignalDoneStep ==
    ASSUME IInv, SignalDone
    PROVE  IInv'
<1> USE DEF SignalDone, RunTask, buffers, stats
<1>1. owed = 1 /\ air # "beacon"
  BY DEF IInv, DataTypes, SendDoneMatched, B2N
<1>2. DataTypes' /\ FlagTypes' /\ SendDoneMatched' /\ FlagsMatchFrame'
  BY <1>1 DEF IInv, DataTypes, FlagTypes, SendDoneMatched, B2N,
              FlagsMatchFrame
<1> QED  BY <1>2, Untouched DEF IInv

\* The two laws as arithmetic over the state, with InFlight for sending_data.
LEMMA Numbers ==
    ASSUME IInv
    PROVE  /\ Len(stack) \in Nat /\ InFlight \in Nat
           /\ sending_data = InFlight
           /\ msgPool \in Nat /\ virtualQueueSize \in Nat /\ carried \in Nat
           /\ stat_sent_total \in Nat /\ stat_sent_null \in Nat
           /\ stat_sent_success \in Nat
           /\ stat_dropped_q \in Nat /\ stat_dropped_cond \in Nat
           /\ msgPool + Len(stack) + InFlight = QSize
           /\ stat_sent_total + carried =
                Len(stack) + InFlight + stat_sent_success
                + stat_dropped_cond + stat_dropped_q
           /\ Len(stack) + virtualQueueSize + InFlight =
                stat_sent_total + carried
                - stat_dropped_q - stat_sent_success - stat_sent_null
<1>1. sending_data = InFlight /\ InFlight \in Nat
  BY DEF IInv, DataTypes, FlagsMatchFrame, InFlight, B2N
<1> QED
  BY <1>1 DEF IInv, DataTypes, MessagesConserved, Accounting,
              BackpressurePreserved, Backpressure

\* Send.send of data, refused for want of a buffer, preserves it.
LEMMA SendRefusedStep ==
    ASSUME IInv, SendRefused
    PROVE  IInv'
<1> USE DEF SendRefused, client
<1>1. DataTypes'
  BY KeptFacts, SizeFacts, QueueAssumption DEF IInv, DataTypes
<1>2. FlagTypes' /\ FlagsMatchFrame' /\ SendDoneMatched'
  BY DEF IInv, FlagTypes, FlagsMatchFrame, SendDoneMatched
<1>3. EachEntryOnce'
  BY KeptFacts DEF IInv, EachEntryOnce, Occupied
<1>4. InFlight' = InFlight /\ sending_data' = sending_data
  BY DEF InFlight
<1>5. MessagesConserved'
  BY <1>4, KeptFacts, Numbers, SizeFacts DEF MessagesConserved
<1>6. PICK n \in Nat, f \in Nat : n = Len(stack) /\ f = InFlight
  BY Numbers
<1>7. PICK m \in Nat, v \in Nat, d \in Nat :
         m = Len(KeptStack) /\ v = KeptVirtual /\ d = KeptDropped
  BY KeptFacts
<1>8. v + m = virtualQueueSize + n /\ d + m = stat_dropped_cond + n
  BY <1>6, <1>7, KeptFacts
<1>9. /\ stat_sent_total + carried = n + f + stat_sent_success
           + stat_dropped_cond + stat_dropped_q
      /\ n + virtualQueueSize + f = stat_sent_total + carried
           - stat_dropped_q - stat_sent_success - stat_sent_null
      /\ virtualQueueSize \in Nat /\ carried \in Nat
      /\ stat_sent_total \in Nat /\ stat_sent_null \in Nat
      /\ stat_sent_success \in Nat /\ stat_dropped_q \in Nat
      /\ stat_dropped_cond \in Nat
  BY <1>6, Numbers
<1>10. /\ (stat_sent_total + 1) + carried = m + f + stat_sent_success
            + d + (stat_dropped_q + 1)
       /\ m + v + f = (stat_sent_total + 1) + carried
            - (stat_dropped_q + 1) - stat_sent_success - stat_sent_null
  BY ONLY <1>8, <1>9
<1>11. Accounting' /\ BackpressurePreserved'
  BY <1>4, <1>6, <1>7, <1>10, Numbers
     DEF Accounting, BackpressurePreserved, Backpressure
<1> QED  BY <1>1, <1>2, <1>3, <1>5, <1>11 DEF IInv

\* Send.send of data, accepted, preserves the invariant.
LEMMA SendAcceptedStep ==
    ASSUME IInv, owed = 0, SendAccepted
    PROVE  IInv'
<1> USE DEF SendAccepted
<1>0. PICK e \in KeptQePool : Enqueue(e)
  OBVIOUS
<1>1. /\ stack' \in Seq(Entries) /\ IsInjective(stack')
      /\ Len(stack') = Len(KeptStack) + 1
      /\ ToSet(stack') = ToSet(KeptStack) \cup {e}
      /\ qePool' = KeptQePool \ {e} /\ e \in Entries
      /\ msgPool' = KeptMsgPool - 1 /\ virtualQueueSize' = KeptVirtual
      /\ tx' = [tx EXCEPT ![e] = 0]
      /\ stat_sent_total' = stat_sent_total + 1
      /\ stat_dropped_cond' = KeptDropped
  BY <1>0, KeptFacts, PushTopFacts DEF Enqueue
<1>2. InFlight' = InFlight /\ sending_data' = sending_data
  BY DEF InFlight
<1>3. DataTypes'
  <2>1. tx' \in [Entries -> 0 .. MaxRetx]
    BY <1>1, QueueAssumption DEF IInv, DataTypes
  <2>2. stack' \in Seq(Entries) /\ Len(stack') \in 0 .. QSize
    BY <1>1, KeptFacts, SizeFacts
  <2>3. qePool' \subseteq Entries /\ msgPool' \in Nat
        /\ virtualQueueSize' \in Nat
    BY <1>1, KeptFacts
  <2>4. stat_sent_total' \in 0 .. MaxSends /\ owed' \in {0, 1}
    BY <1>1, QueueAssumption DEF IInv, DataTypes
  <2> QED  BY <1>1, KeptFacts, <2>1, <2>2, <2>3, <2>4 DEF IInv, DataTypes
<1>4. FlagTypes'
  BY DEF IInv, FlagTypes
<1>5. EachEntryOnce'
  BY <1>1, KeptFacts DEF IInv, EachEntryOnce, Occupied
<1>6. FlagsMatchFrame'
  BY DEF IInv, FlagsMatchFrame
<1>7. SendDoneMatched'
  BY DEF IInv, DataTypes, SendDoneMatched, B2N
<1>8. MessagesConserved'
  <2>1. PICK n \in Nat, f \in Nat, p \in Nat, m \in Nat, k \in Nat :
           /\ n = Len(stack) /\ f = InFlight /\ p = msgPool
           /\ m = Len(KeptStack) /\ k = KeptMsgPool
    BY KeptFacts, Numbers
  <2>2. k + m = p + n /\ p + n + f = QSize
    BY <2>1, KeptFacts, Numbers
  <2>3. msgPool' = k - 1 /\ Len(stack') = m + 1 /\ InFlight' = f
    BY <1>1, <1>2, <2>1
  <2>4. (k - 1) + (m + 1) + f = p + n + f
    BY ONLY <2>2
  <2> QED  BY <2>2, <2>3, <2>4 DEF MessagesConserved
<1>9. PICK n \in Nat, f \in Nat : n = Len(stack) /\ f = InFlight
  BY Numbers
<1>10. PICK m \in Nat, v \in Nat, d \in Nat :
          m = Len(KeptStack) /\ v = KeptVirtual /\ d = KeptDropped
  BY KeptFacts
<1>11. v + m = virtualQueueSize + n /\ d + m = stat_dropped_cond + n
  BY <1>9, <1>10, KeptFacts
<1>12. /\ stat_sent_total + carried = n + f + stat_sent_success
            + stat_dropped_cond + stat_dropped_q
       /\ n + virtualQueueSize + f = stat_sent_total + carried
            - stat_dropped_q - stat_sent_success - stat_sent_null
       /\ virtualQueueSize \in Nat /\ carried \in Nat
       /\ stat_sent_total \in Nat /\ stat_sent_null \in Nat
       /\ stat_sent_success \in Nat /\ stat_dropped_q \in Nat
       /\ stat_dropped_cond \in Nat
  BY <1>9, Numbers
<1>13. /\ (stat_sent_total + 1) + carried = (m + 1) + f + stat_sent_success
            + d + stat_dropped_q
       /\ (m + 1) + v + f = (stat_sent_total + 1) + carried
            - stat_dropped_q - stat_sent_success - stat_sent_null
  BY ONLY <1>11, <1>12
<1>14. Accounting' /\ BackpressurePreserved'
  BY <1>1, <1>2, <1>9, <1>10, <1>13, Numbers
     DEF Accounting, BackpressurePreserved, Backpressure
<1> QED  BY <1>3, <1>4, <1>5, <1>6, <1>7, <1>8, <1>14 DEF IInv

\* A step of sendDataTask that finds data starts with the radio free; the
\* discard keeps both laws, and the entry it takes is in nobody's hands.
LEMMA TakeTop ==
    ASSUME IInv, TaskHasData
    PROVE  /\ air = "none" /\ sending_data = 0 /\ InFlight = 0
           /\ cur' \in Entries
           /\ PopTop(KeptStack) \in Seq(Entries)
           /\ IsInjective(PopTop(KeptStack))
           /\ Len(PopTop(KeptStack)) = Len(KeptStack) - 1
           /\ Len(KeptStack) \in Nat /\ Len(KeptStack) < QSize
           /\ Len(KeptStack) >= 1
           /\ ToSet(PopTop(KeptStack)) = ToSet(KeptStack) \ {cur'}
           /\ cur' \in ToSet(KeptStack)
           /\ ToSet(KeptStack) \cup qePool' = Entries
           /\ ToSet(KeptStack) \cap qePool' = {}
           /\ msgPool' \in Nat /\ msgPool' + Len(KeptStack) = QSize
           /\ virtualQueueSize' \in Nat
           /\ virtualQueueSize' + Len(KeptStack)
                = virtualQueueSize + Len(stack)
           /\ stat_dropped_cond' \in Nat
           /\ stat_dropped_cond' + Len(KeptStack)
                = stat_dropped_cond + Len(stack)
<1> USE DEF TaskHasData
<1>1. air = "none" /\ sending_data = 0 /\ InFlight = 0
  BY DEF IInv, FlagsMatchFrame, TaskHasData, InFlight, B2N, DataTypes
<1>2. /\ PopTop(KeptStack) \in Seq(Entries)
      /\ IsInjective(PopTop(KeptStack))
      /\ Len(PopTop(KeptStack)) = Len(KeptStack) - 1
      /\ Len(KeptStack) \in Nat \ {0}
      /\ cur' \in Entries
      /\ ToSet(PopTop(KeptStack)) = ToSet(KeptStack) \ {cur'}
      /\ cur' \in ToSet(KeptStack)
  BY KeptFacts, PopTopFacts
<1>3. ToSet(KeptStack) \cup qePool' = Entries
  BY <1>1, KeptFacts DEF IInv, EachEntryOnce, Occupied
<1>4. msgPool' \in Nat /\ msgPool' + Len(KeptStack) = QSize
  BY <1>1, KeptFacts DEF IInv, MessagesConserved, DataTypes
<1>5. stat_dropped_cond' \in Nat
      /\ stat_dropped_cond' + Len(KeptStack) = stat_dropped_cond + Len(stack)
  BY KeptFacts
<1> QED  BY <1>1, <1>2, <1>3, <1>4, <1>5, KeptFacts

\* The laws between the discard and the end of the task.
LEMMA TakeTopLaws ==
    ASSUME IInv, TaskHasData
    PROVE  /\ stat_sent_total + carried = Len(KeptStack) + stat_sent_success
                + stat_dropped_cond' + stat_dropped_q
           /\ Len(KeptStack) + virtualQueueSize' = stat_sent_total + carried
                - stat_dropped_q - stat_sent_success - stat_sent_null
<1>1. PICK n \in Nat, m \in Nat, v \in Nat, d \in Nat, f \in Nat :
         /\ n = Len(stack) /\ m = Len(KeptStack)
         /\ v = virtualQueueSize' /\ d = stat_dropped_cond'
         /\ f = InFlight
  BY Numbers, TakeTop
<1>2. v + m = virtualQueueSize + n /\ d + m = stat_dropped_cond + n /\ f = 0
  BY <1>1, TakeTop
<1>3. /\ stat_sent_total + carried = n + f + stat_sent_success
           + stat_dropped_cond + stat_dropped_q
      /\ n + virtualQueueSize + f = stat_sent_total + carried
           - stat_dropped_q - stat_sent_success - stat_sent_null
      /\ virtualQueueSize \in Nat /\ carried \in Nat
      /\ stat_sent_total \in Nat /\ stat_sent_null \in Nat
      /\ stat_sent_success \in Nat /\ stat_dropped_q \in Nat
      /\ stat_dropped_cond \in Nat
  BY <1>1, Numbers
<1>4. /\ stat_sent_total + carried = m + stat_sent_success + d
           + stat_dropped_q
      /\ m + v = stat_sent_total + carried
           - stat_dropped_q - stat_sent_success - stat_sent_null
  BY ONLY <1>2, <1>3
<1> QED  BY <1>1, <1>4

\* An attempt that ends with the entry back on the stack.
LEMMA PutBack ==
    ASSUME IInv, TaskHasData, stack' = PushTop(PopTop(KeptStack), cur')
    PROVE  /\ stack' = Append(PopTop(KeptStack), cur')
           /\ stack' \in Seq(Entries) /\ IsInjective(stack')
           /\ Len(stack') = Len(KeptStack)
           /\ ToSet(stack') = ToSet(KeptStack)
<1>1. Len(PopTop(KeptStack)) < QSize /\ cur' \notin ToSet(PopTop(KeptStack))
  BY TakeTop, SizeFacts
<1>2. /\ stack' = Append(PopTop(KeptStack), cur')
      /\ stack' \in Seq(Entries) /\ IsInjective(stack')
      /\ Len(stack') = Len(PopTop(KeptStack)) + 1
      /\ ToSet(stack') = ToSet(PopTop(KeptStack)) \cup {cur'}
  BY <1>1, TakeTop, PushTopFacts
<1> QED  BY <1>2, TakeTop

\* sendDataTask, giving up on a packet, preserves the invariant.
LEMMA TaskGivesUpStep ==
    ASSUME IInv, TaskGivesUp \/ TaskSendFails
    PROVE  IInv'
<1> USE DEF TaskGivesUp, TaskSendFails
<1>0. TaskHasData /\ stack' = PushTop(PopTop(KeptStack), cur')
  OBVIOUS
<1>1. /\ air' = "none" /\ sending_data' = 0 /\ InFlight' = 0
      /\ UNCHANGED <<sending_beacon, radioBusy, my_last_bp, owed, carried>>
      /\ UNCHANGED <<stat_sent_total, stat_sent_null, stat_sent_success,
                     stat_dropped_q>>
      /\ tasks' = tasks \ {"sendDataTask"}
  BY <1>0, TakeTop DEF TaskHasData, TaskStarts, client, InFlight, B2N
<1>2. tx' \in [Entries -> 0 .. MaxRetx]
  <2>1. tx \in [Entries -> 0 .. MaxRetx] /\ 0 \in 0 .. MaxRetx
    BY QueueAssumption DEF IInv, DataTypes
  <2>2. tx' = [tx EXCEPT ![cur'] = 0] \/ tx' = tx
    OBVIOUS
  <2> QED  BY ONLY <2>1, <2>2
<1>3. DataTypes'
  <2>1. stack' \in Seq(Entries) /\ Len(stack)' \in 0 .. QSize
    BY <1>0, TakeTop, PutBack, SizeFacts
  <2>2. /\ qePool' \subseteq Entries /\ msgPool' \in Nat /\ cur' \in Entries
        /\ virtualQueueSize' \in Nat /\ stat_dropped_cond' \in Nat
    BY <1>0, TakeTop
  <2> QED  BY <1>1, <1>2, <2>1, <2>2 DEF IInv, DataTypes, Frames
<1>4. FlagTypes'
  BY <1>0, <1>1 DEF IInv, FlagTypes, TaskHasData, CheckBp
<1>5. EachEntryOnce'
  BY <1>0, <1>1, TakeTop, PutBack DEF EachEntryOnce, Occupied
<1>6. MessagesConserved'
  BY <1>0, <1>1, TakeTop, PutBack, SizeFacts DEF MessagesConserved
<1>7. FlagsMatchFrame'
  BY <1>1 DEF FlagsMatchFrame
<1>8. SendDoneMatched'
  BY <1>0, <1>1, TakeTop DEF IInv, SendDoneMatched, B2N
<1>9. Accounting'
  BY <1>0, <1>1, TakeTop, TakeTopLaws, PutBack, Numbers DEF Accounting
<1>10. BackpressurePreserved'
  BY <1>0, <1>1, TakeTop, TakeTopLaws, PutBack, Numbers
     DEF BackpressurePreserved, Backpressure
<1> QED  BY <1>3, <1>4, <1>5, <1>6, <1>7, <1>8, <1>9, <1>10 DEF IInv

\* sendDataTask, handing a frame to the radio, preserves it.
LEMMA TaskSendsDataStep ==
    ASSUME IInv, TaskSendsData
    PROVE  IInv'
<1> USE DEF TaskSendsData
<1>0. TaskHasData /\ stack' = PopTop(KeptStack)
  OBVIOUS
<1>1. /\ air' = "data" /\ sending_data' = 1 /\ InFlight' = 1
      /\ radioBusy' = TRUE /\ suppress_sendDone' = TRUE
      /\ UNCHANGED <<sending_beacon, my_last_bp, txRetryTimer, owed, carried>>
      /\ UNCHANGED <<stat_sent_total, stat_sent_null, stat_sent_success,
                     stat_dropped_q>>
      /\ tasks' = tasks \ {"sendDataTask"}
  BY <1>0 DEF TaskHasData, TaskStarts, client, InFlight, B2N
<1>2. tx' \in [Entries -> 0 .. MaxRetx]
  <2>1. /\ tx \in [Entries -> 0 .. MaxRetx] /\ cur' \in Entries
        /\ MaxRetx \in Nat
    BY <1>0, TakeTop, QueueAssumption DEF IInv, DataTypes
  <2>2. tx[cur'] + 1 \in 0 .. MaxRetx
    BY <2>1 DEF Exhausted
  <2>3. tx' = [tx EXCEPT ![cur'] = tx[cur'] + 1]
    BY <2>1
  <2> QED  BY ONLY <2>1, <2>2, <2>3
<1>3. DataTypes'
  <2>1. stack' \in Seq(Entries) /\ Len(stack)' \in 0 .. QSize
    BY <1>0, TakeTop, SizeFacts
  <2>2. /\ qePool' \subseteq Entries /\ msgPool' \in Nat /\ cur' \in Entries
        /\ virtualQueueSize' \in Nat /\ stat_dropped_cond' \in Nat
    BY <1>0, TakeTop
  <2> QED  BY <1>1, <1>2, <2>1, <2>2 DEF IInv, DataTypes, Frames
<1>4. FlagTypes'
  BY <1>0, <1>1 DEF IInv, FlagTypes, TaskHasData, CheckBp
<1>5. EachEntryOnce'
  BY <1>0, <1>1, TakeTop DEF EachEntryOnce, Occupied
<1>6. MessagesConserved'
  <2>1. PICK m \in Nat, g \in Nat : m = Len(KeptStack) /\ g = msgPool'
    BY <1>0, TakeTop
  <2>2. Len(stack)' = m - 1 /\ g + m = QSize
    BY <2>1, <1>0, TakeTop
  <2>3. g + (m - 1) + 1 = QSize
    BY ONLY <2>2, SizeFacts
  <2> QED  BY <1>1, <2>1, <2>2, <2>3 DEF MessagesConserved
<1>7. FlagsMatchFrame'
  BY <1>1 DEF FlagsMatchFrame
<1>8. SendDoneMatched'
  BY <1>0, <1>1, TakeTop DEF IInv, SendDoneMatched, B2N
<1>9. Accounting' /\ BackpressurePreserved'
  <2>1. PICK m \in Nat, v \in Nat, d \in Nat :
           /\ m = Len(KeptStack) /\ v = virtualQueueSize'
           /\ d = stat_dropped_cond'
    BY <1>0, TakeTop
  <2>2. /\ stat_sent_total + carried = m + stat_sent_success
             + d + stat_dropped_q
        /\ m + v = stat_sent_total + carried
             - stat_dropped_q - stat_sent_success - stat_sent_null
        /\ carried \in Nat /\ stat_sent_total \in Nat
        /\ stat_sent_null \in Nat /\ stat_sent_success \in Nat
        /\ stat_dropped_q \in Nat
    BY <1>0, <2>1, TakeTopLaws, Numbers
  <2>3. /\ stat_sent_total + carried = (m - 1) + 1 + stat_sent_success
             + d + stat_dropped_q
        /\ (m - 1) + v + 1 = stat_sent_total + carried
             - stat_dropped_q - stat_sent_success - stat_sent_null
    BY ONLY <2>2
  <2>4. Len(stack)' = m - 1
    BY <2>1, <1>0, TakeTop
  <2> QED  BY <1>1, <2>1, <2>3, <2>4
              DEF Accounting, BackpressurePreserved, Backpressure
<1> QED  BY <1>3, <1>4, <1>5, <1>6, <1>7, <1>8, <1>9 DEF IInv

\* sendDataTask, generating a null packet, preserves it.
LEMMA TaskSendsNullStep ==
    ASSUME IInv, TaskSendsNull
    PROVE  IInv'
<1> USE DEF TaskSendsNull, TaskStarts, RunTask, CheckBp, buffers, client
<1>1. virtualQueueSize' \in Nat /\ virtualQueueSize' = virtualQueueSize - 1
  BY DEF IInv, DataTypes
<1>2. stat_sent_null' \in Nat /\ stat_sent_null' = stat_sent_null + 1
  BY DEF IInv, DataTypes
<1>3. DataTypes'
  BY <1>1, <1>2 DEF IInv, DataTypes
<1>4. FlagTypes' /\ FlagsMatchFrame' /\ EachEntryOnce'
  BY DEF IInv, FlagTypes, FlagsMatchFrame, EachEntryOnce, Occupied
<1>5. SendDoneMatched'
  BY DEF IInv, SendDoneMatched, B2N
<1>6. MessagesConserved' /\ Accounting'
  BY DEF IInv, MessagesConserved, Accounting, InFlight
<1>7. BackpressurePreserved'
  <2>1. PICK n \in Nat, f \in Nat : n = Len(stack) /\ f = sending_data
    BY Numbers
  <2>2. /\ n + virtualQueueSize + f = stat_sent_total + carried
             - stat_dropped_q - stat_sent_success - stat_sent_null
        /\ virtualQueueSize \in Nat /\ carried \in Nat
        /\ stat_sent_total \in Nat /\ stat_sent_null \in Nat
        /\ stat_sent_success \in Nat /\ stat_dropped_q \in Nat
    BY <2>1, Numbers
  <2>3. n + (virtualQueueSize - 1) + f = stat_sent_total + carried
             - stat_dropped_q - stat_sent_success - (stat_sent_null + 1)
    BY ONLY <2>2
  <2> QED  BY <1>1, <1>2, <2>1, <2>3 DEF BackpressurePreserved, Backpressure
<1> QED  BY <1>3, <1>4, <1>5, <1>6, <1>7 DEF IInv

\* The frame whose completion is suppressed is data; its entry is current_send_qe.
LEMMA FrameIsData ==
    ASSUME IInv, air # "none", suppress_sendDone
    PROVE  /\ air = "data" /\ sending_data = 1 /\ InFlight = 1
           /\ cur \in Entries /\ cur \notin ToSet(stack) /\ cur \notin qePool
           /\ ToSet(stack) \cap qePool = {}
           /\ ToSet(stack) \cup qePool \cup {cur} = Entries
           /\ stack \in Seq(Entries) /\ IsInjective(stack)
           /\ Len(stack) < QSize /\ msgPool < QSize
<1>1. air = "data"
  BY DEF IInv, DataTypes, Frames, FlagsMatchFrame
<1>2. sending_data = 1 /\ InFlight = 1
  BY <1>1 DEF IInv, FlagsMatchFrame, InFlight, B2N
<1>3. /\ cur \in Entries /\ cur \notin ToSet(stack) /\ cur \notin qePool
      /\ ToSet(stack) \cap qePool = {}
      /\ ToSet(stack) \cup qePool \cup {cur} = Entries
      /\ stack \in Seq(Entries) /\ IsInjective(stack)
  BY <1>1 DEF IInv, DataTypes, EachEntryOnce, Occupied
<1>4. Len(stack) < QSize /\ msgPool < QSize
  <2>1. PICK n \in Nat, f \in Nat, z \in Nat :
           n = Len(stack) /\ f = InFlight /\ f = 1 /\ z = QSize
    BY <1>2, Numbers, SizeFacts
  <2>2. msgPool \in Nat /\ msgPool + n + f = z
    BY <2>1, Numbers
  <2>3. n < z /\ msgPool < z
    BY ONLY <2>1, <2>2
  <2> QED  BY <2>1, <2>3
<1> QED  BY <1>1, <1>2, <1>3, <1>4

\* SubSend.sendDone without acknowledgement preserves the invariant.
LEMMA DataLostStep ==
    ASSUME IInv, DataLost
    PROVE  IInv'
<1> USE DEF DataLost, stats, client, Post
<1>1. air # "none" /\ suppress_sendDone
  OBVIOUS
<1>2. /\ stack' \in Seq(Entries) /\ IsInjective(stack')
      /\ Len(stack)' = Len(stack) + 1
      /\ ToSet(stack') = ToSet(stack) \cup {cur}
  BY <1>1, FrameIsData, PushTopFacts
<1>3. air' = "none" /\ sending_data' = 0 /\ InFlight' = 0
  BY DEF InFlight, B2N
<1>4. DataTypes'
  <2>1. Len(stack)' \in 0 .. QSize
    BY <1>1, <1>2, FrameIsData, Numbers, SizeFacts
  <2> QED  BY <2>1, <1>2, <1>3 DEF IInv, DataTypes, Frames
<1>5. FlagTypes'
  BY DEF IInv, FlagTypes
<1>6. EachEntryOnce'
  BY <1>1, <1>2, <1>3, FrameIsData DEF EachEntryOnce, Occupied
<1>7. FlagsMatchFrame'
  BY <1>3 DEF FlagsMatchFrame
<1>8. SendDoneMatched'
  BY <1>1, FrameIsData DEF IInv, SendDoneMatched, B2N
<1>9. MessagesConserved' /\ Accounting' /\ BackpressurePreserved'
  <2>1. PICK n \in Nat, f \in Nat :
           n = Len(stack) /\ f = InFlight /\ f = 1 /\ f = sending_data
    BY <1>1, FrameIsData, Numbers
  <2>2. /\ msgPool + n + f = QSize
        /\ stat_sent_total + carried = n + f + stat_sent_success
             + stat_dropped_cond + stat_dropped_q
        /\ n + virtualQueueSize + f = stat_sent_total + carried
             - stat_dropped_q - stat_sent_success - stat_sent_null
        /\ msgPool \in Nat
        /\ virtualQueueSize \in Nat /\ carried \in Nat
        /\ stat_sent_total \in Nat /\ stat_sent_null \in Nat
        /\ stat_sent_success \in Nat /\ stat_dropped_q \in Nat
        /\ stat_dropped_cond \in Nat
    BY <2>1, Numbers
  <2>3. /\ msgPool + (n + 1) + 0 = QSize
        /\ stat_sent_total + carried = (n + 1) + 0 + stat_sent_success
             + stat_dropped_cond + stat_dropped_q
        /\ (n + 1) + virtualQueueSize + 0 = stat_sent_total + carried
             - stat_dropped_q - stat_sent_success - stat_sent_null
    BY ONLY <2>1, <2>2
  <2>4. Len(stack)' = n + 1
    BY <1>2, <2>1
  <2> QED  BY <1>3, <2>3, <2>4
              DEF MessagesConserved, Accounting, BackpressurePreserved,
                  Backpressure
<1> QED  BY <1>4, <1>5, <1>6, <1>7, <1>8, <1>9 DEF IInv

\* SubSend.sendDone with acknowledgement preserves the invariant.
LEMMA DataDeliveredStep ==
    ASSUME IInv, DataDelivered
    PROVE  IInv'
<1> USE DEF DataDelivered, client, Recycle, PostIfMore
<1>1. air # "none" /\ suppress_sendDone
  OBVIOUS
<1>2. msgPool' = msgPool + 1 /\ qePool' = qePool \cup {cur}
  BY <1>1, FrameIsData
<1>3. air' = "none" /\ sending_data' = 0 /\ InFlight' = 0
  BY DEF InFlight, B2N
<1>4. DataTypes'
  <2>1. stat_sent_success' \in Nat /\ msgPool' \in Nat
    BY <1>2 DEF IInv, DataTypes
  <2>2. qePool' \subseteq Entries
    BY <1>2 DEF IInv, DataTypes
  <2> QED  BY <2>1, <2>2, <1>3 DEF IInv, DataTypes, Frames
<1>5. FlagTypes'
  BY DEF IInv, FlagTypes
<1>6. EachEntryOnce'
  BY <1>1, <1>2, <1>3, FrameIsData DEF EachEntryOnce, Occupied
<1>7. FlagsMatchFrame'
  BY <1>3 DEF FlagsMatchFrame
<1>8. SendDoneMatched'
  <2>1. "signalDone" \in tasks' <=> "signalDone" \in tasks
    OBVIOUS
  <2> QED  BY <2>1, <1>1, <1>3, FrameIsData DEF IInv, SendDoneMatched, B2N
<1>9. MessagesConserved' /\ Accounting' /\ BackpressurePreserved'
  <2>1. PICK n \in Nat, f \in Nat :
           n = Len(stack) /\ f = InFlight /\ f = 1 /\ f = sending_data
    BY <1>1, FrameIsData, Numbers
  <2>2. /\ msgPool + n + f = QSize
        /\ stat_sent_total + carried = n + f + stat_sent_success
             + stat_dropped_cond + stat_dropped_q
        /\ n + virtualQueueSize + f = stat_sent_total + carried
             - stat_dropped_q - stat_sent_success - stat_sent_null
        /\ msgPool \in Nat
        /\ virtualQueueSize \in Nat /\ carried \in Nat
        /\ stat_sent_total \in Nat /\ stat_sent_null \in Nat
        /\ stat_sent_success \in Nat /\ stat_dropped_q \in Nat
        /\ stat_dropped_cond \in Nat
    BY <2>1, Numbers
  <2>3. /\ (msgPool + 1) + n + 0 = QSize
        /\ stat_sent_total + carried = n + 0 + (stat_sent_success + 1)
             + stat_dropped_cond + stat_dropped_q
        /\ n + virtualQueueSize + 0 = stat_sent_total + carried
             - stat_dropped_q - (stat_sent_success + 1) - stat_sent_null
    BY ONLY <2>1, <2>2
  <2> QED  BY <1>2, <1>3, <2>1, <2>3
              DEF MessagesConserved, Accounting, BackpressurePreserved,
                  Backpressure
<1> QED  BY <1>4, <1>5, <1>6, <1>7, <1>8, <1>9 DEF IInv

\* SubSend.sendDone of a beacon preserves the invariant.
LEMMA BeaconDoneStep ==
    ASSUME IInv, BeaconDone
    PROVE  IInv'
<1> USE DEF BeaconDone, buffers, stats, PostIfMore
<1>1. air = "beacon" /\ air' = "none"
  BY DEF IInv, DataTypes, Frames, FlagsMatchFrame
<1>2. InFlight' = 0 /\ InFlight = 0 /\ sending_data = 0
  BY <1>1 DEF IInv, DataTypes, FlagsMatchFrame, InFlight, B2N
<1>3. "signalDone" \in tasks' <=> "signalDone" \in tasks
  OBVIOUS
<1>4. owed = 1 /\ owed' = 0 /\ "signalDone" \notin tasks
  BY <1>1 DEF IInv, DataTypes, SendDoneMatched, B2N
<1>5. DataTypes'
  BY <1>1, <1>4 DEF IInv, DataTypes, Frames
<1>6. FlagTypes'
  BY DEF IInv, FlagTypes
<1>7. EachEntryOnce'
  BY <1>1 DEF IInv, EachEntryOnce, Occupied
<1>8. FlagsMatchFrame'
  BY <1>1, <1>2 DEF FlagsMatchFrame
<1>9. SendDoneMatched'
  BY <1>1, <1>3, <1>4 DEF SendDoneMatched, B2N
<1>10. MessagesConserved' /\ Accounting' /\ BackpressurePreserved'
  BY <1>2 DEF IInv, MessagesConserved, Accounting, BackpressurePreserved,
              Backpressure
<1> QED  BY <1>5, <1>6, <1>7, <1>8, <1>9, <1>10 DEF IInv

-----------------------------------------------------------------------------
(* The theorems.  The one hypothesis on the environment is that the        *)
(* component is not restarted while a frame of its own is at the link      *)
(* layer; MCBackIPQueueing shows what happens when it is.                  *)

\* Every step, and every stutter, preserves the inductive invariant.
LEMMA NextStep ==
    ASSUME IInv, ControlOps # "anytime", [Next]_vars
    PROVE  IInv'
<1>1. CASE Control
  BY <1>1, StartStep, StopStep DEF Control
<1>2. CASE Beaconing
  BY <1>2, QuietStep DEF Beaconing
<1>3. CASE Send
  BY <1>3, QuietStep, SendBeaconStep, SendRefusedStep, SendAcceptedStep
     DEF Send, SendCommand
<1>4. CASE SignalDone
  BY <1>4, SignalDoneStep
<1>5. CASE SendDataTask
  BY <1>5, QuietStep, TaskGivesUpStep, TaskSendsDataStep, TaskSendsNullStep
     DEF SendDataTask
<1>6. CASE RetryTimerFired
  BY <1>6, QuietStep
<1>7. CASE SubSendDone
  BY <1>7, DataLostStep, DataDeliveredStep, BeaconDoneStep DEF SubSendDone
<1>8. CASE UNCHANGED vars
  <2>1. DataTypes'  BY <1>8 DEF vars, IInv, DataTypes
  <2>2. FlagTypes'  BY <1>8 DEF vars, IInv, FlagTypes
  <2>3. FlagsMatchFrame' /\ SendDoneMatched'
    BY <1>8 DEF vars, IInv, FlagsMatchFrame, SendDoneMatched
  <2>4. UNCHANGED <<stack, tx, qePool, msgPool, cur, virtualQueueSize,
                    sending_data, stats, air, carried>>
    BY <1>8 DEF vars, stats
  <2> QED  BY <2>1, <2>2, <2>3, <2>4, Untouched DEF IInv
<1> QED
  BY <1>1, <1>2, <1>3, <1>4, <1>5, <1>6, <1>7, <1>8 DEF Next

\* The inductive invariant holds of every run: from it follow the theorems
\* below.
THEOREM Invariance ==
    ASSUME ControlOps # "anytime"
    PROVE  Spec => []IInv
<1>1. Init => IInv
  BY InitIInv
<1>2. IInv /\ [Next]_vars => IInv'
  BY NextStep
<1> QED  BY <1>1, <1>2, PTL DEF Spec

\* For any queue size: the stack, the pools and the statistics of
\* BackIPQueueingP stay within their capacities and declared types.
THEOREM TypeCorrect ==
    ASSUME ControlOps # "anytime"
    PROVE  Spec => []TypeOK
BY Invariance, IInvTypeOK, PTL

\* For any queue size: no queue entry is lost or in two places, across
\* discards, retransmissions, refusals and completions.
THEOREM BuffersConserved ==
    ASSUME ControlOps # "anytime"
    PROVE  Spec => []EachEntryOnce
<1>1. IInv => EachEntryOnce
  BY DEF IInv
<1> QED  BY <1>1, Invariance, PTL

\* For any queue size: MessagePool has a message for each free queue entry, so
\* that an entry that comes back from the radio finds room on the stack.
THEOREM PoolsInStep ==
    ASSUME ControlOps # "anytime"
    PROVE  Spec => []MessagesConserved
<1>1. IInv => MessagesConserved
  BY DEF IInv
<1> QED  BY <1>1, Invariance, PTL

\* For any queue size: each data message accepted by Send.send is counted
\* exactly once, as queued, in flight, delivered, discarded or refused.
THEOREM MessagesCounted ==
    ASSUME ControlOps # "anytime"
    PROVE  Spec => []Accounting
<1>1. IInv => Accounting
  BY DEF IInv
<1> QED  BY <1>1, Invariance, PTL

\* For any queue size: the value of _get_bp() survives every discard.
THEOREM BackpressureSurvivesDrops ==
    ASSUME ControlOps # "anytime"
    PROVE  Spec => []BackpressurePreserved
<1>1. IInv => BackpressurePreserved
  BY DEF IInv
<1> QED  BY <1>1, Invariance, PTL

\* For any queue size: IPDispatch gets exactly one sendDone for each message
\* accepted from it.
THEOREM CompletionsMatch ==
    ASSUME ControlOps # "anytime"
    PROVE  Spec => []SendDoneMatched
<1>1. IInv => SendDoneMatched
  BY DEF IInv
<1> QED  BY <1>1, Invariance, PTL

\* One step of HeldUntilAcked (SubSend.sendDone), under the invariant.
LEMMA LeavesByAckStep ==
    ASSUME IInv, [Next]_vars, air = "data", air' # "data"
    PROVE  \/ stat_sent_success' = stat_sent_success + 1
           \/ stack' = Append(stack, cur)
<1>1. radioBusy /\ suppress_sendDone
  BY DEF IInv, FlagsMatchFrame
<1>2. ~SendBeacon /\ ~TaskGivesUp /\ ~TaskSendsData /\ ~TaskSendFails
      /\ ~TaskSendsNull /\ ~BeaconDone
  BY <1>1 DEF SendBeacon, TaskGivesUp, TaskSendsData, TaskSendFails,
              TaskSendsNull, TaskHasData, BeaconDone
<1>3. CASE DataLost
  <2>1. stack' = PushTop(stack, cur)
    BY <1>3 DEF DataLost
  <2> QED  BY <2>1, <1>1, FrameIsData DEF PushTop
<1>4. CASE DataDelivered
  BY <1>4 DEF DataDelivered
<1>5. CASE Control \/ Beaconing \/ Send \/ SignalDone \/ SendDataTask
           \/ RetryTimerFired
  <2>1. air' = air
    BY <1>2, <1>5
       DEF Control, StdControlStart, StdControlStop, Beaconing,
           BeaconTimerArmed, SendingBeacon, Send, SendCommand,
           SendBeaconRefused,
           SendRefused, SendAccepted, SignalDone, SendDataTask,
           TaskRadioBusy, TaskNothing, TaskNoNeighbour, RetryTimerFired
  <2> QED  BY <2>1
<1>6. CASE UNCHANGED vars
  BY <1>6 DEF vars
<1> QED
  BY <1>2, <1>3, <1>4, <1>5, <1>6 DEF Next, SubSendDone

\* What conditionalDiscard takes off the stack is its oldest entry.
LEMMA OldestDiscarded ==
    ASSUME IInv, NEW e \in ToSet(stack), e \notin ToSet(KeptStack)
    PROVE  /\ Full /\ Head(stack) = e /\ e \in KeptQePool
           /\ KeptDropped = stat_dropped_cond + 1
<1>1. Full
  BY DEF KeptStack
<1>2. stack \in Seq(Entries) /\ IsInjective(stack) /\ stack # <<>>
  BY <1>1, SizeFacts DEF IInv, DataTypes, EachEntryOnce, Full
<1>3. ToSet(KeptStack) = ToSet(stack) \ {Head(stack)}
  BY <1>1, <1>2, PopBottomFacts DEF KeptStack
<1> QED  BY <1>1, <1>3 DEF KeptQePool, KeptDropped

\* The discard leaves the newest entry on top.
LEMMA TopSurvives ==
    ASSUME IInv, KeptStack # <<>>
    PROVE  TopOf(KeptStack) = TopOf(stack)
<1>1. CASE ~Full
  BY <1>1 DEF KeptStack
<1>2. CASE Full
  <2>1. stack \in Seq(Entries) /\ IsInjective(stack) /\ stack # <<>>
        /\ KeptStack = Tail(stack)
    BY <1>2, SizeFacts DEF IInv, DataTypes, EachEntryOnce, Full, KeptStack
  <2>2. PICK n \in Nat : n = Len(stack)
    BY <2>1, LenProperties
  <2>3. /\ Tail(stack) \in Seq(Entries) /\ Len(Tail(stack)) = n - 1
        /\ \A i \in 1 .. n - 1 : Tail(stack)[i] = stack[i + 1]
    BY <2>1, <2>2, HeadTailProperties
  <2>4. n - 1 \in 1 .. n - 1 /\ (n - 1) + 1 = n
    BY <2>1, <2>2, <2>3, EmptySeq, LenProperties
  <2>5. Tail(stack)[n - 1] = stack[n]
    BY <2>3, <2>4
  <2> QED  BY <2>1, <2>2, <2>3, <2>5 DEF TopOf, Last
<1> QED  BY <1>1, <1>2

\* One step of OldestDiscardedFirst, under the invariant.
LEMMA OrderStep ==
    ASSUME IInv, [Next]_vars, NEW e \in Occupied, e \notin Occupied'
    PROVE  \/ air' = "data" /\ cur' = e /\ TopOf(stack) = e
           \/ /\ Full /\ Head(stack) = e /\ e \in qePool'
              /\ stat_dropped_cond' = stat_dropped_cond + 1
<1>1. CASE SendRefused \/ TaskGivesUp \/ TaskSendFails
  <2>1. ToSet(stack') = ToSet(KeptStack) /\ qePool' = KeptQePool
        /\ stat_dropped_cond' = KeptDropped
    <3>1. CASE SendRefused
      BY <3>1 DEF SendRefused
    <3>2. CASE TaskGivesUp \/ TaskSendFails
      BY <3>2, PutBack DEF TaskGivesUp, TaskSendFails, TaskHasData
    <3> QED  BY <1>1, <3>1, <3>2
  <2> QED  BY <2>1, OldestDiscarded DEF Occupied
<1>2. CASE SendAccepted
  <2>1. PICK f \in KeptQePool : Enqueue(f)
    BY <1>2 DEF SendAccepted
  <2>2. ToSet(stack') = ToSet(KeptStack) \cup {f}
        /\ qePool' = KeptQePool \ {f} /\ stat_dropped_cond' = KeptDropped
    BY <2>1, KeptFacts, PushTopFacts DEF Enqueue
  <2> QED  BY <2>2, OldestDiscarded DEF Occupied
<1>3. CASE TaskSendsData
  <2>1. TaskHasData /\ stack' = PopTop(KeptStack) /\ air' = "data"
    BY <1>3 DEF TaskSendsData
  <2>2. /\ cur' = TopOf(KeptStack) /\ KeptStack # <<>>
        /\ qePool' = KeptQePool /\ stat_dropped_cond' = KeptDropped
    BY <2>1 DEF TaskHasData
  <2>3. ToSet(stack') = ToSet(KeptStack) \ {cur'}
    BY <2>1, TakeTop
  <2>4. CASE e = cur'
    BY <2>1, <2>2, <2>4, TopSurvives
  <2>5. CASE e # cur'
    BY <2>2, <2>3, <2>5, OldestDiscarded DEF Occupied
  <2> QED  BY <2>4, <2>5
<1>4. CASE DataLost
  <2>1. ToSet(stack') = ToSet(stack) \cup {cur}
    BY <1>4, FrameIsData, PushTopFacts DEF DataLost
  <2> QED  BY <2>1 DEF Occupied
<1>5. CASE stack' = stack
  BY <1>5 DEF Occupied
<1>6. \/ SendRefused \/ TaskGivesUp \/ TaskSendFails \/ SendAccepted
      \/ TaskSendsData \/ DataLost \/ stack' = stack
  BY DEF Next, vars, Control, StdControlStart, StdControlStop, Beaconing,
         BeaconTimerArmed, SendingBeacon, Send, SendCommand,
         SendBeaconRefused, SendBeacon, SignalDone, SendDataTask,
         TaskRadioBusy, TaskNothing, TaskNoNeighbour, TaskSendsNull,
         RetryTimerFired, SubSendDone, DataDelivered, BeaconDone, buffers
<1> QED  BY <1>1, <1>2, <1>3, <1>4, <1>5, <1>6

\* For any queue size: an entry leaves the stack from the top, to the radio,
\* or from the bottom when conditionalDiscard finds the stack full.
THEOREM OldestLeavesFirst ==
    ASSUME ControlOps # "anytime"
    PROVE  Spec => OldestDiscardedFirst
<1>1. IInv /\ [Next]_vars
        => [\A e \in Occupied : e \notin Occupied' =>
              \/ air' = "data" /\ cur' = e /\ TopOf(stack) = e
              \/ Full /\ Head(stack) = e /\ e \in qePool']_vars
  BY OrderStep
<1> QED  BY <1>1, Invariance, PTL DEF Spec, OldestDiscardedFirst

\* The part of HeldUntilAcked about entries that leave the node.
LEMMA LeavingStep ==
    ASSUME IInv, [Next]_vars, NEW e \in Held, e \notin Held'
    PROVE  \/ e \in UnderSend /\ stat_sent_success' = stat_sent_success + 1
           \/ /\ Full /\ e = Head(stack)
              /\ stat_dropped_cond' = stat_dropped_cond + 1
<1>1. CASE e \in Occupied
  BY <1>1, OrderStep DEF Held, UnderSend
<1>2. CASE e \in UnderSend
  <2>1. air = "data" /\ e = cur
    BY <1>2 DEF UnderSend
  <2>2. CASE air' = "data"
    <3>1. cur' = cur
      <4>1. radioBusy
        BY <2>1 DEF IInv, FlagsMatchFrame
      <4> QED
        BY <4>1
           DEF Next, vars, Control, StdControlStart, StdControlStop, Beaconing,
               BeaconTimerArmed, SendingBeacon, Send, SendCommand,
               SendBeaconRefused, SendBeacon, SendRefused, SendAccepted,
               SignalDone, SendDataTask, TaskRadioBusy, TaskNothing,
               TaskNoNeighbour, TaskGivesUp, TaskSendsData, TaskSendFails,
               TaskHasData, TaskSendsNull, RetryTimerFired, SubSendDone,
               DataLost, DataDelivered, BeaconDone
    <3> QED  BY <2>1, <2>2, <3>1 DEF Held, UnderSend
  <2>3. CASE air' # "data"
    <3>1. stack' = Append(stack, cur) => cur \in Occupied'
      <4>1. ASSUME stack' = Append(stack, cur)  PROVE cur \in ToSet(stack')
        <5>1. stack \in Seq(Entries) /\ cur \in Entries
          BY DEF IInv, DataTypes
        <5>2. PICK k \in Nat : k = Len(stack)
          BY <5>1, LenProperties
        <5>3. k + 1 \in DOMAIN stack' /\ stack'[k + 1] = cur
          BY <4>1, <5>1, <5>2, AppendProperties
        <5> QED  BY <5>3 DEF ToSet
      <4> QED  BY <4>1 DEF Occupied
    <3> QED  BY <1>2, <2>1, <2>3, <3>1, LeavesByAckStep DEF Held
  <2> QED  BY <2>2, <2>3
<1> QED  BY <1>1, <1>2 DEF Held

\* The part of HeldUntilAcked about runs of sendDataTask.
LEMMA AttemptStep ==
    ASSUME IInv, [Next]_vars, "sendDataTask" \in tasks \ tasks', stack # <<>>
    PROVE  \/ air' = air /\ stack' # <<>> /\ TopOf(stack') = TopOf(stack)
           \/ air' = "data" /\ cur' = TopOf(stack)
<1>1. SendDataTask
  BY DEF Next, vars, Control, StdControlStart, StdControlStop, Beaconing,
         BeaconTimerArmed, SendingBeacon, Send, SendCommand,
         SendBeaconRefused, SendBeacon, SendRefused, SendAccepted,
         SignalDone, RetryTimerFired, SubSendDone, DataLost, DataDelivered,
         BeaconDone, Post, PostIfMore
<1>2. CASE TaskRadioBusy \/ TaskNothing \/ TaskNoNeighbour \/ TaskSendsNull
  BY <1>2 DEF TaskRadioBusy, TaskNothing, TaskNoNeighbour, TaskSendsNull,
              buffers
<1>3. CASE TaskGivesUp \/ TaskSendFails
  <2>1. TaskHasData /\ stack' = PushTop(PopTop(KeptStack), cur')
        /\ air' = air
    BY <1>3 DEF TaskGivesUp, TaskSendFails
  <2>2. stack' = Append(PopTop(KeptStack), cur') /\ stack' \in Seq(Entries)
    BY <2>1, PutBack
  <2>3. cur' = TopOf(stack)
    BY <2>1, TopSurvives DEF TaskHasData
  <2>4. PopTop(KeptStack) \in Seq(Entries) /\ cur' \in Entries
    BY <2>1, TakeTop
  <2>5. PICK k \in Nat : k = Len(PopTop(KeptStack))
    BY <2>4, LenProperties
  <2>6. Len(stack') = k + 1 /\ stack'[k + 1] = cur' /\ stack' # <<>>
    BY <2>2, <2>4, <2>5, AppendProperties
  <2>7. TopOf(stack') = cur'
    BY <2>6 DEF TopOf, Last
  <2> QED  BY <2>1, <2>3, <2>6, <2>7
<1>4. CASE TaskSendsData
  BY <1>4, TopSurvives DEF TaskSendsData, TaskHasData
<1> QED  BY <1>1, <1>2, <1>3, <1>4 DEF SendDataTask

\* For any queue size: an accepted packet leaves the node acknowledged, or
\* counted as the oldest of a full stack; a frame that is lost, a refusal of
\* the link layer and a give-up leave their packet on top of the stack.
THEOREM PacketsHeldUntilAcked ==
    ASSUME ControlOps # "anytime"
    PROVE  Spec => HeldUntilAcked
<1>1. IInv /\ [Next]_vars => [StaysHeld]_vars
  BY LeavingStep, LeavesByAckStep, AttemptStep DEF StaysHeld
<1> QED  BY <1>1, Invariance, PTL DEF Spec, HeldUntilAcked

\* One step of NoStall: a handler that leaves data on the stack leaves a task,
\* the timer or a frame behind.
LEMMA NoStallStep ==
    ASSUME IInv, NoStall, ControlOps = "never", [Next]_vars
    PROVE  NoStall'
<1>1. CASE Control
  BY <1>1 DEF Control, StdControlStart, StdControlStop, ControlAllowed
<1>2. CASE Beaconing
  BY <1>2 DEF Beaconing, BeaconTimerArmed, SendingBeacon, buffers, NoStall
<1>3. CASE Send
  <2>1. CASE SendBeaconRefused \/ SendBeacon
    BY <2>1 DEF SendBeaconRefused, SendBeacon, BeaconToRadio, buffers, NoStall
  <2>2. CASE SendRefused
    <3>1. stack # <<>> \/ stack' = stack
      <4>1. Len(stack) >= QSize => stack # <<>>
        BY SizeFacts, EmptySeq
      <4> QED  BY <2>2, <4>1 DEF SendRefused, KeptStack, Full
    <3>2. UNCHANGED <<tasks, txRetryTimer, air>>
      BY <2>2 DEF SendRefused
    <3> QED  BY <3>1, <3>2 DEF NoStall
  <2>3. CASE SendAccepted
    BY <2>3 DEF SendAccepted, NoStall
  <2> QED  BY <1>3, <2>1, <2>2, <2>3 DEF Send, SendCommand
<1>4. CASE SignalDone
  BY <1>4 DEF SignalDone, buffers, NoStall
<1>5. CASE SendDataTask
  <2>1. CASE TaskRadioBusy \/ TaskNoNeighbour \/ TaskGivesUp \/ TaskSendFails
    BY <2>1 DEF TaskRadioBusy, TaskNoNeighbour, TaskGivesUp, TaskSendFails,
                NoStall
  <2>2. CASE TaskNothing \/ TaskSendsNull
    BY <2>2 DEF TaskNothing, TaskSendsNull, NothingToSend, buffers, NoStall
  <2>3. CASE TaskSendsData
    BY <2>3 DEF TaskSendsData, NoStall
  <2> QED  BY <1>5, <2>1, <2>2, <2>3 DEF SendDataTask
<1>6. CASE RetryTimerFired
  BY <1>6 DEF RetryTimerFired, Post, NoStall
<1>7. CASE SubSendDone
  <2>1. CASE DataLost
    BY <2>1 DEF DataLost, Post, NoStall
  <2>2. CASE DataDelivered \/ BeaconDone
    <3>1. stack # <<>> => Len(stack) > 0
      BY EmptySeq, LenProperties DEF IInv, DataTypes
    <3>2. stack' = stack
      BY <2>2 DEF DataDelivered, BeaconDone, buffers
    <3>3. stack # <<>> => "sendDataTask" \in tasks'
      BY <2>2, <3>1 DEF DataDelivered, BeaconDone, PostIfMore, MoreToSend
    <3> QED  BY <3>2, <3>3 DEF NoStall
  <2> QED  BY <1>7, <2>1, <2>2 DEF SubSendDone
<1>8. CASE UNCHANGED vars
  BY <1>8 DEF vars, NoStall
<1> QED
  BY <1>1, <1>2, <1>3, <1>4, <1>5, <1>6, <1>7, <1>8 DEF Next

\* For any queue size, also when the link layer refuses frames: whatever
\* handler of BackIPQueueingP runs last, data that stays on the stack has
\* sendDataTask, txRetryTimer or a completion to come that looks at it again.
THEOREM NeverStalls ==
    ASSUME ControlOps = "never"
    PROVE  Spec => []NoStall
<1>1. Init => NoStall
  BY DEF Init, NoStall
<1>2. Spec => []IInv
  BY Invariance
<1>3. IInv /\ NoStall /\ [Next]_vars => NoStall'
  BY NoStallStep
<1> QED  BY <1>1, <1>2, <1>3, PTL DEF Spec
=============================================================================
