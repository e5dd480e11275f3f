-------------------------- MODULE BackIPNode_proofs --------------------------
(***************************************************************************)
(* Proofs about BackIPNode: the node uses the queueing layer as that layer *)
(* expects, schedules every task once, keeps beaconing while it is alone   *)
(* and never strands its data, for any number of buffers and packets.      *)
(***************************************************************************)
EXTENDS BackIPNode, SequenceTheorems, FiniteSetTheorems, TLAPS

-----------------------------------------------------------------------------
(* IPDispatch in the node.                                                 *)

\* Each step of the node is one of IPDispatch, or leaves it alone.
LEMMA DispatchStep ==
    ASSUME [Next]_vars
    PROVE  IP!Next \/ UNCHANGED IP!vars
<1> USE DEF IP!Next, IP!Upper, IP!Control
<1>1. ASSUME UNCHANGED dispatch  PROVE UNCHANGED IP!vars
  BY <1>1 DEF dispatch, IP!vars
<1>2. CASE PacketHanded
  <2>1. \E n \in 1 .. MaxFrags : IP!IPSend("data", n, FALSE)
    BY <1>2 DEF PacketHanded
  <2> QED  BY <2>1 DEF Kinds
<1>3. 1 \in 1 .. MaxFrags
  BY NodeAssumption
<1>4. CASE BeaconTimerFired
  BY <1>3, <1>4 DEF BeaconTimerFired, Kinds
<1>5. CASE Hearing
  BY <1>1, <1>5 DEF Hearing, BeaconHeard
<1>6. CASE SendTask
  BY <1>6 DEF SendTask, IP!SendTask
<1>7. CASE SignalDone
  BY <1>7 DEF SignalDone
<1>8. CASE DataTaskWaits \/ DataTaskSends
  BY <1>1, <1>8 DEF DataTaskWaits, DataTaskSends
<1>9. CASE DataTaskSendsNull
  BY <1>3, <1>9 DEF DataTaskSendsNull, Kinds
<1>10. CASE RetryTimerFired \/ DataLost \/ DataDelivered
  BY <1>1, <1>10 DEF RetryTimerFired, DataLost, DataDelivered
<1>11. CASE BeaconDone
  BY <1>11 DEF BeaconDone
<1>12. CASE Restart
  <2>1. CASE StackStop \/ StackStart
    <3>1. ControlOps # "never"
      BY <2>1
         DEF StackStop, StackStart, RoutingStop, Q!StdControlStop,
             Q!ControlAllowed
    <3> QED  BY <1>1, <2>1, <3>1 DEF StackStop, StackStart
  <2>2. CASE AddressSet \/ AddressRemoved
    BY <1>1, <2>2 DEF AddressSet, AddressRemoved
  <2> QED  BY <1>12, <2>1, <2>2 DEF Restart
<1>13. CASE UNCHANGED vars
  BY <1>1, <1>13 DEF vars, dispatch
<1> QED
  BY <1>2, <1>4, <1>5, <1>6, <1>7, <1>8, <1>9, <1>10, <1>11, <1>12, <1>13
     DEF Next, Tasks, Radio

-----------------------------------------------------------------------------
(* The queueing layer in the node.  It must not be called while it owes a  *)
(* sendDone: radioBusy of IPDispatch sees to that.                         *)

\* radioBusy says whether a sendDone is owed, and none is while the radio is
\* off, so that the restart does not lose track of one.
OneOwed ==
    /\ ipBusy \in BOOLEAN /\ radioOn \in BOOLEAN
    /\ ipBusy => owed = 1
    /\ ~ipBusy => owed = 0
    /\ ~radioOn => ~ipBusy /\ state = "stopped"

\* The initial state satisfies OneOwed.
LEMMA InitOneOwed == Init => OneOwed
BY DEF Init, IP!Init, OneOwed

\* Each step of IPDispatch preserves OneOwed.
LEMMA OneOwedStep ==
    ASSUME OneOwed, [Next]_vars
    PROVE  OneOwed'
<1>1. IP!Next \/ UNCHANGED IP!vars
  BY DispatchStep
<1>2. CASE IP!Upper
  BY <1>2 DEF IP!Upper, IP!IPSend, IP!SendRejected, IP!SendPacket, IP!control,
              IP!vars, OneOwed
<1>3. CASE IP!SendTask
  <2>1. CASE IP!SendTaskIdle \/ IP!SendTaskDrops \/ IP!SendTaskFails
    <3>1. UNCHANGED <<ipBusy, state, radioOn, owed>>
      BY <2>1 DEF IP!SendTaskIdle, IP!SendTaskDrops, IP!SendTaskFails,
                  IP!DropHead, IP!control
    <3> QED  BY <3>1 DEF OneOwed
  <2>2. CASE IP!SendTaskSends
    <3>1. /\ UNCHANGED <<state, radioOn>> /\ state = "running" /\ ~ipBusy
          /\ ipBusy' = TRUE /\ owed' = owed + 1
      BY <2>2 DEF IP!SendTaskSends, IP!MaySend, IP!control
    <3>2. owed = 0
      BY <3>1 DEF OneOwed
    <3> QED  BY <3>1, <3>2 DEF OneOwed
  <2> QED  BY <1>3, <2>1, <2>2 DEF IP!SendTask
<1>4. CASE IP!SendDone
  <2>1. /\ owed > 0 /\ owed' = owed - 1 /\ ipBusy' = FALSE
        /\ \/ state' = "stopped" /\ radioOn' = FALSE
           \/ UNCHANGED <<state, radioOn>>
    BY <1>4 DEF IP!SendDone, IP!SendDoneStopping, IP!SendDoneRunning,
                IP!control
  <2>2. ipBusy => owed = 1
    BY DEF OneOwed
  <2>3. ~ipBusy => owed = 0
    BY DEF OneOwed
  <2>4. owed' = 0
    BY <2>1, <2>2, <2>3, SMT
  <2>5. ~ipBusy' /\ ipBusy' \in BOOLEAN
    BY <2>1
  <2>6. radioOn' \in BOOLEAN /\ (~radioOn' => state' = "stopped")
    <3>1. CASE state' = "stopped" /\ radioOn' = FALSE
      BY <3>1
    <3>2. CASE UNCHANGED <<state, radioOn>>
      BY <3>2 DEF OneOwed
    <3> QED  BY <2>1, <3>1, <3>2
  <2> QED  BY <2>4, <2>5, <2>6 DEF OneOwed
<1>5. CASE IP!Control
  <2>1. CASE IP!SplitControlStop
    <3>1. UNCHANGED <<ipBusy, owed>>
      BY <2>1 DEF IP!SplitControlStop
    <3>2. CASE ipBusy
      BY <2>1, <3>1, <3>2 DEF IP!SplitControlStop, OneOwed
    <3>3. CASE ~ipBusy
      <4>1. state' = "stopped" /\ radioOn' = FALSE
        BY <2>1, <3>3 DEF IP!SplitControlStop
      <4>2. ~ipBusy' /\ ipBusy' \in BOOLEAN
        BY <3>1, <3>3 DEF OneOwed
      <4>3. owed' = 0
        BY <3>1, <3>3 DEF OneOwed
      <4> QED  BY <4>1, <4>2, <4>3 DEF OneOwed
    <3> QED  BY <3>2, <3>3
  <2>2. CASE IP!SplitControlStart
    <3>1. ~radioOn /\ radioOn' = TRUE /\ ipBusy' = FALSE /\ owed' = owed
      BY <2>2 DEF IP!SplitControlStart
    <3>2. owed = 0
      BY <3>1 DEF OneOwed
    <3> QED  BY <3>1, <3>2 DEF OneOwed
  <2> QED  BY <1>5, <2>1, <2>2 DEF IP!Control
<1>6. CASE UNCHANGED IP!vars
  BY <1>6 DEF IP!vars, OneOwed
<1> QED  BY <1>1, <1>2, <1>3, <1>4, <1>5, <1>6 DEF IP!Next

\* Each step of the node is one of the queueing layer, or leaves it alone.
LEMMA QueueingStep ==
    ASSUME OneOwed, [Next]_vars
    PROVE  Q!Next \/ UNCHANGED Q!vars
<1> USE DEF Q!Next
<1>1. ASSUME UNCHANGED queueing  PROVE UNCHANGED Q!vars
  BY <1>1 DEF queueing, Q!vars
<1>2. CASE PacketHanded
  BY <1>1, <1>2 DEF PacketHanded
<1>3. CASE BeaconTimerFired
  BY <1>3 DEF BeaconTimerFired, Q!Beaconing
<1>4. CASE Hearing
  BY <1>1, <1>4 DEF Hearing, BeaconHeard, Q!Beaconing
<1>5. CASE SendTask
  <2>1. CASE UNCHANGED queueing
    BY <1>1, <2>1
  <2>2. CASE (IP!SendTaskFails \/ IP!SendTaskSends) /\ Q!SendCommand
    <3>1. ~ipBusy
      BY <2>2 DEF IP!SendTaskFails, IP!SendTaskSends, IP!MaySend
    <3>2. owed = 0
      BY <3>1 DEF OneOwed
    <3> QED  BY <2>2, <3>2 DEF Q!Send
  <2> QED  BY <1>5, <2>1, <2>2 DEF SendTask
<1>6. CASE SignalDone
  BY <1>6 DEF SignalDone
<1>7. CASE DataTaskWaits \/ DataTaskSends \/ DataTaskSendsNull
  BY <1>7 DEF DataTaskWaits, DataTaskSends, DataTaskSendsNull, Q!SendDataTask
<1>8. CASE RetryTimerFired \/ DataLost \/ DataDelivered \/ BeaconDone
  BY <1>8 DEF RetryTimerFired, DataLost, DataDelivered, BeaconDone,
              Q!SubSendDone
<1>9. CASE Restart
  BY <1>1, <1>9
     DEF Restart, StackStop, StackStart, AddressSet, AddressRemoved,
         RoutingStart, RoutingStop, Q!Control
<1>10. CASE UNCHANGED vars
  BY <1>1, <1>10 DEF vars, queueing
<1> QED
  BY <1>2, <1>3, <1>4, <1>5, <1>6, <1>7, <1>8, <1>9, <1>10
     DEF Next, Tasks, Radio

\* BackIPQueueingP under blip, with the beaconing component beside it and its
\* tasks in the scheduler's order, behaves as BackIPQueueing says: in
\* particular IPDispatch never calls Send.send with a sendDone outstanding.
THEOREM NodeImplementsQueueing == Spec => ImplementsQueueing
<1>1. Init => OneOwed /\ Q!Init
  BY InitOneOwed DEF Init
<1>2. OneOwed /\ [Next]_vars => OneOwed'
  BY OneOwedStep
<1>3. OneOwed /\ [Next]_vars => [Q!Next]_(Q!vars)
  BY QueueingStep
<1> QED  BY <1>1, <1>2, <1>3, PTL DEF Spec, ImplementsQueueing, Q!Spec

-----------------------------------------------------------------------------
(* Beaconing.                                                              *)

\* Who starts and stops routing: the stack and the global address.
LEMMA RestartsRouting ==
    ASSUME Restart
    PROVE  RoutingStart \/ RoutingStop
             \/ UNCHANGED <<queueing, no_neighbours, routing, bound>>
BY DEF Restart, StackStop, StackStart, AddressSet, AddressRemoved

\* Whatever becomes of a node's frames, a beacon timer that runs and has not
\* fired goes on running until routing is stopped.
LEMMA TimerKept ==
    ASSUME [Next]_vars, ~BeaconTimerFired, ~RoutingStop, beaconTimer
    PROVE  beaconTimer'
<1>1. CASE PacketHanded
  BY <1>1 DEF PacketHanded, queueing
<1>2. CASE Hearing
  BY <1>2 DEF Hearing, BeaconHeard, queueing, Q!BeaconTimerArmed
<1>3. CASE SendTask
  BY <1>3 DEF SendTask, queueing, Q!SendCommand, Q!SendBeaconRefused,
              Q!SendBeacon, Q!SendRefused, Q!SendAccepted
<1>4. CASE SignalDone
  BY <1>4 DEF SignalDone, Q!SignalDone
<1>5. CASE DataTaskWaits
  <2>1. CASE Q!TaskRadioBusy
    BY <2>1 DEF Q!TaskRadioBusy
  <2>2. CASE Q!TaskNothing \/ Q!TaskNoNeighbour
    BY <2>2, Zenon DEF Q!TaskNothing, Q!TaskNoNeighbour, Q!CheckBp
  <2> QED  BY <1>5, <2>1, <2>2 DEF DataTaskWaits
<1>6. CASE DataTaskSends \/ DataTaskSendsNull
  BY <1>6 DEF DataTaskSends, DataTaskSendsNull, Q!TaskGivesUp,
              Q!TaskSendFails, Q!TaskSendsData, Q!TaskSendsNull,
              Q!TaskHasData, Q!CheckBp
<1>7. CASE RetryTimerFired \/ DataLost \/ DataDelivered \/ BeaconDone
  BY <1>7 DEF RetryTimerFired, DataLost, DataDelivered, BeaconDone,
              Q!RetryTimerFired, Q!DataLost, Q!DataDelivered, Q!BeaconDone
<1>8. CASE Restart
  <2>1. RoutingStart \/ UNCHANGED queueing
    BY <1>8, RestartsRouting
  <2> QED  BY <2>1 DEF RoutingStart, Q!StdControlStart, queueing
<1>9. CASE UNCHANGED vars
  BY <1>9 DEF vars
<1> QED
  BY <1>1, <1>2, <1>3, <1>4, <1>5, <1>6, <1>7, <1>8, <1>9
     DEF Next, Tasks, Radio

\* Where routing is started and the node alone after a step, that was so before
\* it, or routing was started by the step.
LEMMA StillAlone ==
    ASSUME [Next]_vars, ~RoutingStart, routing', no_neighbours'
    PROVE  routing /\ no_neighbours
<1>1. CASE Hearing
  BY <1>1 DEF Hearing, BeaconHeard
<1>2. CASE Restart
  <2>1. CASE RoutingStop
    BY <2>1 DEF RoutingStop
  <2>2. CASE UNCHANGED <<queueing, no_neighbours, routing, bound>>
    BY <2>2, Zenon
  <2> QED  BY <1>2, <2>1, <2>2, RestartsRouting, Zenon
<1>3. CASE ~Hearing /\ ~Restart
  BY <1>3 DEF Next, Tasks, Radio, PacketHanded, BeaconTimerFired,
              SendTask, SignalDone, DataTaskWaits, DataTaskSends,
              DataTaskSendsNull, RetryTimerFired, DataLost, DataDelivered,
              BeaconDone, beaconing, control, vars
<1> QED  BY <1>1, <1>2, <1>3

\* For any sizes, with the stack stopped and started, the radio failing to
\* start and the global address coming and going in any order that ControlOps
\* allows: a node without neighbours always has a beacon to come while routing
\* is started, for each handler that uses up the timer's shot arms it again.
THEOREM AloneNodeBeacons == Spec => []AloneMeansBeaconing
<1>1. Init => AloneMeansBeaconing
  BY DEF Init, AloneMeansBeaconing
<1>2. ASSUME AloneMeansBeaconing, [Next]_vars
      PROVE  AloneMeansBeaconing'
  <2> SUFFICES ASSUME routing', no_neighbours'  PROVE beaconTimer'
    BY DEF AloneMeansBeaconing
  <2>1. CASE RoutingStart
    BY <2>1 DEF RoutingStart, Q!StdControlStart
  <2>2. CASE RoutingStop
    BY <2>2 DEF RoutingStop
  <2>3. CASE BeaconTimerFired
    BY <2>3 DEF BeaconTimerFired, beaconing
  <2>4. CASE ~RoutingStart /\ ~RoutingStop /\ ~BeaconTimerFired
    <3>1. beaconTimer
      BY <1>2, <2>4, StillAlone DEF AloneMeansBeaconing
    <3> QED  BY <1>2, <2>4, <3>1, TimerKept
  <2> QED  BY <2>1, <2>2, <2>3, <2>4
<1> QED  BY <1>1, <1>2, PTL DEF Spec

-----------------------------------------------------------------------------
(* The scheduler's queue.                                                  *)

TaskNames == {"sendTask", "signalDone", "sendDataTask"}

\* The tasks that wait to run; Posted is Waiting'.
Waiting == tasks \cup (IF posted THEN {"sendTask"} ELSE {})

\* postTask keeps each task in the queue once, and adds t if it was posted.
LEMMA PostOnceProperties ==
    ASSUME NEW s \in Seq(TaskNames), IsInjective(s), NEW t \in TaskNames
    PROVE  /\ PostOnce(s, t) \in Seq(TaskNames)
           /\ IsInjective(PostOnce(s, t))
           /\ ToSet(PostOnce(s, t)) =
                ToSet(s) \cup (IF t \in Posted THEN {t} ELSE {})
<1>1. CASE t \in Posted \ ToSet(s)
  <2> DEFINE u == Append(s, t)
             n == Len(s)
  <2>1. /\ u \in Seq(TaskNames) /\ n \in Nat /\ DOMAIN s = 1 .. n
        /\ DOMAIN u = 1 .. n + 1
        /\ u[n + 1] = t /\ \A i \in 1 .. n : u[i] = s[i]
    OBVIOUS
  <2>2. \A i \in 1 .. n : s[i] # t
    BY <1>1, <2>1 DEF ToSet
  <2> HIDE DEF u, n
  <2>3. IsInjective(u)
    <3> SUFFICES ASSUME NEW i \in DOMAIN u, NEW j \in DOMAIN u, u[i] = u[j]
                 PROVE  i = j
      BY DEF IsInjective
    <3>1. \A a, b \in 1 .. n : s[a] = s[b] => a = b
      BY <2>1 DEF IsInjective
    <3> QED  BY <2>1, <2>2, <3>1
  <2>4. ToSet(u) = ToSet(s) \cup {t}
    <3>1. ASSUME NEW x \in ToSet(u)  PROVE x \in ToSet(s) \cup {t}
      BY <2>1, <3>1 DEF ToSet
    <3>2. n + 1 \in DOMAIN u /\ \A i \in 1 .. n : i \in DOMAIN u
      BY <2>1
    <3>3. ASSUME NEW x \in ToSet(s) \cup {t}  PROVE x \in ToSet(u)
      BY <2>1, <3>2, <3>3 DEF ToSet
    <3> QED  BY <3>1, <3>3
  <2>5. PostOnce(s, t) = u
    BY <1>1 DEF PostOnce, u
  <2> QED  BY <1>1, <2>1, <2>3, <2>4, <2>5
<1>2. CASE t \notin Posted \ ToSet(s)
  <2>1. PostOnce(s, t) = s
    BY <1>2 DEF PostOnce
  <2>2. ToSet(s) = ToSet(s) \cup (IF t \in Posted THEN {t} ELSE {})
    BY <1>2
  <2> QED  BY <2>1, <2>2
<1> QED  BY <1>1, <1>2

\* What a handler leaves in the queue, if what was in it still waits.
LEMMA ScheduleProperties ==
    ASSUME NEW rest \in Seq(TaskNames), IsInjective(rest),
           ToSet(rest) \subseteq Posted, Posted \subseteq TaskNames,
           Schedule(rest)
    PROVE  fifo' \in Seq(TaskNames) /\ IsInjective(fifo') /\ ToSet(fifo') = Posted
<1> DEFINE a == PostOnce(rest, "sendTask")
           b == PostOnce(a, "signalDone")
           c == PostOnce(b, "sendDataTask")
           If(t) == IF t \in Posted THEN {t} ELSE {}
<1>0. "sendTask" \in TaskNames /\ "signalDone" \in TaskNames
        /\ "sendDataTask" \in TaskNames
  BY DEF TaskNames
<1>1. /\ a \in Seq(TaskNames) /\ IsInjective(a)
      /\ ToSet(a) = ToSet(rest) \cup If("sendTask")
  BY <1>0, PostOnceProperties
<1> HIDE DEF a
<1>2. /\ b \in Seq(TaskNames) /\ IsInjective(b)
      /\ ToSet(b) = ToSet(a) \cup If("signalDone")
  BY <1>0, <1>1, PostOnceProperties
<1> HIDE DEF b
<1>3. /\ c \in Seq(TaskNames) /\ IsInjective(c)
      /\ ToSet(c) = ToSet(b) \cup If("sendDataTask")
  BY <1>0, <1>2, PostOnceProperties
<1>4. fifo' = c
  BY DEF Schedule, a, b, c
<1> HIDE DEF c
<1>5. ToSet(c) = ToSet(rest) \cup If("sendTask") \cup If("signalDone")
                   \cup If("sendDataTask")
  BY <1>1, <1>2, <1>3
<1>6. Posted = ToSet(rest) \cup If("sendTask") \cup If("signalDone")
                 \cup If("sendDataTask")
  BY DEF TaskNames
<1> QED  BY <1>3, <1>4, <1>5, <1>6

\* The head of the queue is in it once.
LEMMA TailProperties ==
    ASSUME fifo \in Seq(TaskNames), IsInjective(fifo), fifo # <<>>
    PROVE  /\ Tail(fifo) \in Seq(TaskNames) /\ IsInjective(Tail(fifo))
           /\ ToSet(Tail(fifo)) = ToSet(fifo) \ {Head(fifo)}
<1> DEFINE u == Tail(fifo)
           n == Len(fifo)
<1>1. /\ u \in Seq(TaskNames) /\ n \in Nat /\ n >= 1
      /\ DOMAIN fifo = 1 .. n /\ DOMAIN u = 1 .. n - 1
      /\ Head(fifo) = fifo[1] /\ \A i \in 1 .. n - 1 : u[i] = fifo[i + 1]
  OBVIOUS
<1> HIDE DEF u, n
<1>2. \A i, j \in 1 .. n : fifo[i] = fifo[j] => i = j
  BY <1>1 DEF IsInjective
<1>3. IsInjective(u)
  <2> SUFFICES ASSUME NEW i \in DOMAIN u, NEW j \in DOMAIN u, u[i] = u[j]
               PROVE  i = j
    BY DEF IsInjective
  <2>1. i + 1 \in 1 .. n /\ j + 1 \in 1 .. n /\ fifo[i + 1] = fifo[j + 1]
    BY <1>1
  <2> QED  BY <1>1, <1>2, <2>1
<1>4. ASSUME NEW x \in ToSet(u)  PROVE x \in ToSet(fifo) \ {Head(fifo)}
  <2>1. PICK i \in 1 .. n - 1 : x = u[i]
    BY <1>1, <1>4 DEF ToSet
  <2>2. i + 1 \in 1 .. n /\ 1 \in 1 .. n /\ x = fifo[i + 1] /\ i + 1 # 1
    BY <1>1, <2>1
  <2> QED  BY <1>1, <1>2, <2>2 DEF ToSet
<1>5. ASSUME NEW x \in ToSet(fifo) \ {Head(fifo)}  PROVE x \in ToSet(u)
  <2>1. PICK i \in 1 .. n : x = fifo[i]
    BY <1>1, <1>5 DEF ToSet
  <2>2. i - 1 \in 1 .. n - 1 /\ x = u[i - 1]
    BY <1>1, <1>5, <2>1
  <2> QED  BY <1>1, <2>2 DEF ToSet
<1> QED  BY <1>1, <1>3, <1>4, <1>5 DEF u

\* An event takes nothing from the queue.
LEMMA EventSchedules ==
    ASSUME TypeOK, fifo \in Seq(TaskNames), Event,
           tasks \subseteq tasks', tasks' \subseteq TaskNames,
           posted => posted'
    PROVE  fifo' \in Seq(TaskNames) /\ IsInjective(fifo') /\ ToSet(fifo') = Posted
<1>1. Posted \subseteq TaskNames
  BY DEF Posted, TaskNames
<1>2. ToSet(fifo) \subseteq Posted
  BY DEF TypeOK, Posted
<1>3. IsInjective(fifo) /\ Schedule(fifo)
  BY DEF TypeOK, Event
<1> QED  BY <1>1, <1>2, <1>3, ScheduleProperties

\* A task is taken from the head of the queue, and the others stay.
LEMMA TaskSchedules ==
    ASSUME TypeOK, fifo \in Seq(TaskNames), NEW t, Task(t),
           tasks \ {t} \subseteq tasks', tasks' \subseteq TaskNames,
           posted /\ t # "sendTask" => posted'
    PROVE  fifo' \in Seq(TaskNames) /\ IsInjective(fifo') /\ ToSet(fifo') = Posted
<1>1. Posted \subseteq TaskNames
  BY DEF Posted, TaskNames
<1>2. fifo # <<>> /\ Head(fifo) = t /\ Schedule(Tail(fifo))
  BY DEF Task
<1>3. /\ Tail(fifo) \in Seq(TaskNames) /\ IsInjective(Tail(fifo))
      /\ ToSet(Tail(fifo)) = ToSet(fifo) \ {t}
  BY <1>2, TailProperties DEF TypeOK
<1>4. ToSet(fifo) = tasks \cup (IF posted THEN {"sendTask"} ELSE {})
  BY DEF TypeOK
<1>5. ToSet(Tail(fifo)) \subseteq Posted
  BY <1>3, <1>4 DEF Posted
<1> QED  BY <1>1, <1>2, <1>3, <1>5, ScheduleProperties

\* What is posted is TRUE or FALSE, and the queueing layer's tasks are two.
PostTypes ==
    /\ fifo \in Seq(TaskNames)
    /\ posted \in BOOLEAN
    /\ tasks \subseteq {"signalDone", "sendDataTask"}

\* No event takes back what was posted.
LEMMA EventsPost ==
    ASSUME PostTypes,
           \/ PacketHanded \/ BeaconTimerFired \/ Hearing \/ RetryTimerFired
           \/ Radio \/ Restart
    PROVE  /\ Event
           /\ tasks \subseteq tasks'
           /\ tasks' \subseteq {"signalDone", "sendDataTask"}
           /\ posted' \in BOOLEAN /\ (posted => posted')
<1> USE DEF PostTypes
<1>1. ASSUME UNCHANGED queueing  PROVE tasks' = tasks
  BY <1>1 DEF queueing
<1>2. ASSUME UNCHANGED dispatch  PROVE posted' = posted
  BY <1>2 DEF dispatch
<1>3. ASSUME NEW k, NEW n, NEW m, IP!IPSend(k, n, m)
      PROVE  posted' \in BOOLEAN /\ (posted => posted')
  BY <1>3 DEF IP!IPSend, IP!SendRejected, IP!SendPacket, IP!vars
<1>4. CASE PacketHanded
  BY <1>1, <1>3, <1>4 DEF PacketHanded
<1>5. CASE BeaconTimerFired
  BY <1>3, <1>5 DEF BeaconTimerFired, Q!SendingBeacon
<1>6. CASE Hearing
  BY <1>1, <1>2, <1>6 DEF Hearing, BeaconHeard, Q!BeaconTimerArmed
<1>7. CASE RetryTimerFired
  BY <1>2, <1>7 DEF RetryTimerFired, Q!RetryTimerFired, Q!Post
<1>8. CASE DataLost
  BY <1>2, <1>8 DEF DataLost, Q!DataLost, Q!Post
<1>9. CASE DataDelivered
  BY <1>2, <1>9 DEF DataDelivered, Q!DataDelivered, Q!PostIfMore
<1>10. CASE BeaconDone
  BY <1>10 DEF BeaconDone, Q!BeaconDone, Q!PostIfMore, IP!SendDone
<1>11. CASE Restart
  <2>1. Event /\ tasks' = tasks
    <3>1. tasks' = tasks
      BY <1>1, <1>11, RestartsRouting
         DEF RoutingStart, RoutingStop, Q!StdControlStart, Q!StdControlStop
    <3> QED
      BY <1>11, <3>1
         DEF Restart, StackStop, StackStart, AddressSet, AddressRemoved
  <2>2. posted' \in BOOLEAN /\ (posted => posted')
    <3>1. IP!SplitControlStop \/ IP!SplitControlStart \/ UNCHANGED dispatch
      BY <1>11
         DEF Restart, StackStop, StackStart, AddressSet, AddressRemoved
    <3> QED  BY <1>2, <3>1 DEF IP!SplitControlStop, IP!SplitControlStart
  <2> QED  BY <2>1, <2>2
<1> QED
  BY <1>4, <1>5, <1>6, <1>7, <1>8, <1>9, <1>10, <1>11 DEF Radio

\* A task that runs takes back no post but its own.
LEMMA TasksPost ==
    ASSUME PostTypes, Tasks
    PROVE  \E t \in TaskNames :
             /\ Task(t)
             /\ tasks \ {t} \subseteq tasks'
             /\ tasks' \subseteq {"signalDone", "sendDataTask"}
             /\ posted' \in BOOLEAN /\ (posted /\ t # "sendTask" => posted')
<1> USE DEF PostTypes, TaskNames
<1>1. CASE SendTask
  <2>1. posted' \in BOOLEAN
    BY <1>1 DEF SendTask, IP!SendTaskIdle, IP!SendTaskDrops,
                IP!SendTaskFails, IP!SendTaskSends, IP!DropHead
  <2>2. tasks \subseteq tasks' /\ tasks' \subseteq {"signalDone", "sendDataTask"}
    BY <1>1 DEF SendTask, queueing, Q!SendCommand, Q!SendBeaconRefused,
                Q!SendBeacon, Q!SendRefused, Q!SendAccepted
  <2>3. Task("sendTask")
    BY <1>1 DEF SendTask
  <2> QED  BY <2>1, <2>2, <2>3
<1>2. CASE SignalDone
  <2>1. Task("signalDone")
    BY <1>2 DEF SignalDone
  <2>2. tasks' = tasks \ {"signalDone"} /\ posted' = TRUE
    BY <1>2 DEF SignalDone, Q!SignalDone, IP!SendDone
  <2> QED  BY <2>1, <2>2
<1>3. CASE DataTaskWaits \/ DataTaskSends \/ DataTaskSendsNull
  <2>1. Task("sendDataTask")
    BY <1>3 DEF DataTaskWaits, DataTaskSends, DataTaskSendsNull
  <2>2. tasks' = tasks \ {"sendDataTask"}
    BY <1>3 DEF DataTaskWaits, DataTaskSends, DataTaskSendsNull,
                Q!TaskRadioBusy, Q!TaskNothing, Q!TaskNoNeighbour,
                Q!TaskGivesUp, Q!TaskSendFails, Q!TaskSendsData,
                Q!TaskSendsNull, Q!TaskHasData, Q!TaskStarts
  <2>3. posted' \in BOOLEAN /\ (posted => posted')
    BY <1>3 DEF DataTaskWaits, DataTaskSends, DataTaskSendsNull, dispatch,
                IP!IPSend, IP!SendRejected, IP!SendPacket, IP!vars
  <2> QED  BY <2>1, <2>2, <2>3
<1> QED  BY <1>1, <1>2, <1>3 DEF Tasks

\* The bound on what is handed to blip is kept.
LEMMA HandedStep ==
    ASSUME handed \in 0 .. MaxFrames, [Next]_vars
    PROVE  handed' \in 0 .. MaxFrames
<1>1. ASSUME NEW n \in Nat, More(n)  PROVE handed' \in 0 .. MaxFrames
  BY <1>1, NodeAssumption DEF More
<1>2. CASE PacketHanded
  BY <1>1, <1>2 DEF PacketHanded
<1>3. CASE BeaconTimerFired
  BY <1>1, <1>3 DEF BeaconTimerFired
<1>4. CASE ~PacketHanded /\ ~BeaconTimerFired
  <2>1. handed' = handed
    BY <1>4
       DEF Next, Tasks, Radio, Restart, Hearing, BeaconHeard, SendTask,
           SignalDone, DataTaskWaits, DataTaskSends, DataTaskSendsNull,
           RetryTimerFired, DataLost, DataDelivered, BeaconDone, StackStop,
           StackStart, AddressSet, AddressRemoved, vars
  <2> QED  BY <2>1
<1> QED  BY <1>2, <1>3, <1>4

\* What beaconing knows of the neighbourhood, and whether routing is started,
\* keep their types.
Flags == {no_neighbours, known, valid, routing, bound}

LEMMA BeaconingStep ==
    ASSUME Flags \subseteq BOOLEAN, [Next]_vars
    PROVE  Flags' \subseteq BOOLEAN
<1> USE DEF Flags
<1>1. CASE Hearing
  BY <1>1 DEF Hearing, BeaconHeard, control
<1>2. CASE Restart
  BY <1>2 DEF Restart, StackStop, StackStart, AddressSet, AddressRemoved,
              RoutingStart, RoutingStop
<1>3. CASE ~Hearing /\ ~Restart
  <2>1. UNCHANGED <<no_neighbours, known, valid, routing, bound>>
    BY <1>3 DEF Next, Tasks, Radio, PacketHanded, BeaconTimerFired,
                SendTask, SignalDone, DataTaskWaits, DataTaskSends,
                DataTaskSendsNull, RetryTimerFired, DataLost, DataDelivered,
                BeaconDone, beaconing, control, vars
  <2> QED  BY <2>1
<1> QED  BY <1>1, <1>2, <1>3

\* For any sizes: in SchedulerBasicP's queue every posted task of the node's
\* components waits exactly once, whichever handlers post it and whenever, and
\* no task waits that was not posted.
THEOREM NodeTypes == Spec => []TypeOK
<1>1. Init => TypeOK /\ PostTypes
  <2> SUFFICES ASSUME Init  PROVE TypeOK /\ PostTypes
    OBVIOUS
  <2>1. fifo = <<>> /\ tasks = {} /\ posted = FALSE /\ handed = 0
    BY DEF Init, Q!Init, IP!Init
  <2>2. IsInjective(fifo) /\ ToSet(fifo) = {} /\ fifo \in Seq(TaskNames)
    BY <2>1 DEF IsInjective, ToSet
  <2>3. handed \in 0 .. MaxFrames
    BY <2>1, NodeAssumption
  <2> QED  BY <2>1, <2>2, <2>3 DEF Init, TypeOK, PostTypes
<1>2. ASSUME TypeOK, PostTypes, [Next]_vars  PROVE TypeOK' /\ PostTypes'
  <2>1. handed' \in 0 .. MaxFrames /\ Flags' \subseteq BOOLEAN
    BY <1>2, HandedStep, BeaconingStep DEF TypeOK, Flags
  <2>2. /\ fifo' \in Seq(TaskNames) /\ IsInjective(fifo') /\ ToSet(fifo') = Posted
        /\ tasks' \subseteq {"signalDone", "sendDataTask"}
        /\ posted' \in BOOLEAN
    <3>1. CASE \/ PacketHanded \/ BeaconTimerFired \/ Hearing
               \/ RetryTimerFired \/ Radio \/ Restart
      <4>1. /\ Event /\ tasks \subseteq tasks' /\ (posted => posted')
            /\ tasks' \subseteq {"signalDone", "sendDataTask"}
            /\ posted' \in BOOLEAN
        BY <1>2, <3>1, EventsPost
      <4>2. tasks' \subseteq TaskNames
        BY <4>1 DEF TaskNames
      <4> QED  BY <1>2, <4>1, <4>2, EventSchedules DEF PostTypes
    <3>2. CASE Tasks
      <4>1. PICK t \in TaskNames :
              /\ Task(t) /\ tasks \ {t} \subseteq tasks'
              /\ tasks' \subseteq {"signalDone", "sendDataTask"}
              /\ posted' \in BOOLEAN
              /\ (posted /\ t # "sendTask" => posted')
        BY <1>2, <3>2, TasksPost
      <4>2. tasks' \subseteq TaskNames
        BY <4>1 DEF TaskNames
      <4> QED  BY <1>2, <4>1, <4>2, TaskSchedules DEF PostTypes
    <3>3. CASE UNCHANGED vars
      <4>1. UNCHANGED <<fifo, tasks, posted>>
        BY <3>3 DEF vars
      <4> QED  BY <1>2, <4>1 DEF TypeOK, PostTypes, Posted
    <3> QED  BY <1>2, <3>1, <3>2, <3>3 DEF Next
  <2> QED  BY <2>1, <2>2 DEF TypeOK, Flags, PostTypes, Posted
<1> QED  BY <1>1, <1>2, PTL DEF Spec

-----------------------------------------------------------------------------
(* Nothing strands on the stack of the node.                               *)

\* The types that NoStall rests on.
StackTypes ==
    stack \in Seq(Entries) /\ cur \in Entries /\ qePool \subseteq Entries

\* A full stack is not empty.
LEMMA FullStack == ASSUME StackTypes, Q!Full  PROVE stack # <<>>
<1>1. Cardinality(Entries) \in Nat /\ Cardinality(Entries) # 0
  BY NodeAssumption, FS_CardinalityType, FS_EmptySet
<1>2. Q!Cardinality(Entries) = Cardinality(Entries)
  BY DEF Q!Cardinality, Cardinality
<1> QED  BY <1>1, <1>2 DEF StackTypes, Q!Full, Q!QSize

\* The queueing layer's steps keep those types.
LEMMA StackTypesStep ==
    ASSUME StackTypes, Q!Next \/ UNCHANGED Q!vars
    PROVE  StackTypes'
<1> USE DEF StackTypes
<1>1. /\ Q!KeptStack \in Seq(Entries) /\ Q!KeptQePool \subseteq Entries
  <2>1. CASE Q!Full
    BY <2>1, FullStack, HeadTailProperties DEF Q!KeptStack, Q!KeptQePool
  <2>2. CASE ~Q!Full
    BY <2>2 DEF Q!KeptStack, Q!KeptQePool
  <2> QED  BY <2>1, <2>2
<1>2. ASSUME NEW s \in Seq(Entries), NEW e \in Entries
      PROVE  Q!PushTop(s, e) \in Seq(Entries)
  BY DEF Q!PushTop
<1>3. ASSUME NEW s \in Seq(Entries), s # <<>>
      PROVE  Q!PopTop(s) \in Seq(Entries) /\ Q!TopOf(s) \in Entries
  <2>1. Len(s) \in Nat /\ Len(s) # 0
    BY <1>3
  <2>2. SubSeq(s, 1, Len(s) - 1) \in Seq(Entries)
    BY <2>1
  <2> QED  BY <2>1, <2>2 DEF Q!PopTop, Q!TopOf, Q!Front, Q!Last
<1>4. CASE Q!Control \/ Q!Beaconing \/ Q!SignalDone \/ Q!RetryTimerFired
  BY <1>4 DEF Q!Control, Q!StdControlStart, Q!StdControlStop, Q!Beaconing,
              Q!BeaconTimerArmed, Q!SendingBeacon, Q!SignalDone,
              Q!RetryTimerFired, Q!buffers
<1>5. CASE Q!Send
  <2>1. CASE Q!SendBeaconRefused \/ Q!SendBeacon
    BY <2>1 DEF Q!SendBeaconRefused, Q!SendBeacon, Q!buffers
  <2>2. CASE Q!SendRefused
    BY <1>1, <2>2 DEF Q!SendRefused
  <2>3. CASE Q!SendAccepted
    BY <1>1, <1>2, <2>3 DEF Q!SendAccepted, Q!Enqueue
  <2> QED  BY <1>5, <2>1, <2>2, <2>3 DEF Q!Send, Q!SendCommand
<1>6. CASE Q!SendDataTask
  <2>1. CASE Q!TaskRadioBusy \/ Q!TaskNothing \/ Q!TaskNoNeighbour
             \/ Q!TaskSendsNull
    BY <2>1 DEF Q!TaskRadioBusy, Q!TaskNothing, Q!TaskNoNeighbour,
                Q!TaskSendsNull, Q!buffers
  <2>2. CASE Q!TaskGivesUp \/ Q!TaskSendsData \/ Q!TaskSendFails
    <3>1. /\ Q!KeptStack # <<>> /\ cur' = Q!TopOf(Q!KeptStack)
          /\ qePool' = Q!KeptQePool
      BY <2>2 DEF Q!TaskGivesUp, Q!TaskSendsData, Q!TaskSendFails,
                  Q!TaskHasData
    <3>2. /\ cur' \in Entries /\ qePool' \subseteq Entries
          /\ Q!PopTop(Q!KeptStack) \in Seq(Entries)
      BY <1>1, <1>3, <3>1
    <3>3. Q!PushTop(Q!PopTop(Q!KeptStack), cur') \in Seq(Entries)
      BY <1>2, <3>2
    <3>4. stack' \in Seq(Entries)
      BY <2>2, <3>2, <3>3 DEF Q!TaskGivesUp, Q!TaskSendsData, Q!TaskSendFails
    <3> QED  BY <3>2, <3>4
  <2> QED  BY <1>6, <2>1, <2>2 DEF Q!SendDataTask
<1>7. CASE Q!SubSendDone
  BY <1>2, <1>7 DEF Q!SubSendDone, Q!DataLost, Q!DataDelivered, Q!BeaconDone,
                    Q!Recycle, Q!buffers
<1>8. CASE UNCHANGED Q!vars
  BY <1>8 DEF Q!vars
<1> QED  BY <1>4, <1>5, <1>6, <1>7, <1>8 DEF Q!Next

\* A handler that leaves data on the stack leaves a task, the timer or a frame
\* behind.
LEMMA NoStallStep ==
    ASSUME StackTypes, NoStall, ControlOps = "never",
           Q!Next \/ UNCHANGED Q!vars
    PROVE  NoStall'
<1> USE DEF NoStall, Q!NoStall
<1>1. CASE Q!Control
  BY <1>1 DEF Q!Control, Q!StdControlStart, Q!StdControlStop,
              Q!ControlAllowed
<1>2. CASE Q!Beaconing
  BY <1>2 DEF Q!Beaconing, Q!BeaconTimerArmed, Q!SendingBeacon, Q!buffers
<1>3. CASE Q!Send
  <2>1. CASE Q!SendBeaconRefused \/ Q!SendBeacon
    BY <2>1 DEF Q!SendBeaconRefused, Q!SendBeacon, Q!BeaconToRadio, Q!buffers
  <2>2. CASE Q!SendRefused
    <3>1. stack # <<>> \/ stack' = stack
      BY <2>2, FullStack DEF Q!SendRefused, Q!KeptStack
    <3>2. UNCHANGED <<tasks, txRetryTimer, air>>
      BY <2>2 DEF Q!SendRefused
    <3> QED  BY <3>1, <3>2
  <2>3. CASE Q!SendAccepted
    BY <2>3 DEF Q!SendAccepted
  <2> QED  BY <1>3, <2>1, <2>2, <2>3 DEF Q!Send, Q!SendCommand
<1>4. CASE Q!SignalDone
  BY <1>4 DEF Q!SignalDone, Q!buffers
<1>5. CASE Q!SendDataTask
  <2>1. CASE Q!TaskRadioBusy \/ Q!TaskNoNeighbour \/ Q!TaskGivesUp
             \/ Q!TaskSendFails
    BY <2>1 DEF Q!TaskRadioBusy, Q!TaskNoNeighbour, Q!TaskGivesUp,
                Q!TaskSendFails
  <2>2. CASE Q!TaskNothing \/ Q!TaskSendsNull
    BY <2>2 DEF Q!TaskNothing, Q!TaskSendsNull, Q!NothingToSend, Q!buffers
  <2>3. CASE Q!TaskSendsData
    BY <2>3 DEF Q!TaskSendsData
  <2> QED  BY <1>5, <2>1, <2>2, <2>3 DEF Q!SendDataTask
<1>6. CASE Q!RetryTimerFired
  BY <1>6 DEF Q!RetryTimerFired, Q!Post
<1>7. CASE Q!SubSendDone
  <2>1. CASE Q!DataLost
    BY <2>1 DEF Q!DataLost, Q!Post
  <2>2. CASE Q!DataDelivered \/ Q!BeaconDone
    <3>1. stack # <<>> => Len(stack) > 0
      BY DEF StackTypes
    <3>2. stack' = stack
      BY <2>2 DEF Q!DataDelivered, Q!BeaconDone, Q!buffers
    <3>3. stack # <<>> => "sendDataTask" \in tasks'
      BY <2>2, <3>1 DEF Q!DataDelivered, Q!BeaconDone, Q!PostIfMore,
                        Q!MoreToSend
    <3> QED  BY <3>2, <3>3
  <2> QED  BY <1>7, <2>1, <2>2 DEF Q!SubSendDone
<1>8. CASE UNCHANGED Q!vars
  BY <1>8 DEF Q!vars
<1> QED
  BY <1>1, <1>2, <1>3, <1>4, <1>5, <1>6, <1>7, <1>8 DEF Q!Next

\* For any sizes, also when the link layer refuses frames: below blip, with the
\* null packets going round through IPDispatch and the tasks in the scheduler's
\* order, data on the stack always has the task, the retry timer or a
\* completion to come that looks at it again.
THEOREM NodeNeverStalls ==
    ASSUME ControlOps = "never"
    PROVE  Spec => []NoStall
<1>1. Init => OneOwed /\ StackTypes /\ NoStall
  <2>1. Init => StackTypes /\ NoStall
    BY DEF Init, Q!Init, StackTypes, NoStall, Q!NoStall
  <2> QED  BY <2>1, InitOneOwed
<1>2. OneOwed /\ [Next]_vars => OneOwed'
  BY OneOwedStep
<1>3. OneOwed /\ StackTypes /\ [Next]_vars => StackTypes'
  BY QueueingStep, StackTypesStep
<1>4. OneOwed /\ StackTypes /\ NoStall /\ [Next]_vars => NoStall'
  BY QueueingStep, NoStallStep
<1> QED  BY <1>1, <1>2, <1>3, <1>4, PTL DEF Spec
=============================================================================
