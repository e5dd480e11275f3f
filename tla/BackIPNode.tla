----------------------------- MODULE BackIPNode -----------------------------
(***************************************************************************)
(* The sending side of one BackIP node: blip's IPDispatch above BackIP's   *)
(* queueing layer, the beaconing component beside them, and the scheduler. *)
(*                                                                         *)
(* Every packet, be it data, a beacon or a null packet, waits in the send  *)
(* queue of IPDispatch, and sendTask hands the head of that queue to the   *)
(* queueing layer.  Each action is one task or event, and is the           *)
(* conjunction of what the components do in it; owed is the interface:     *)
(* what Send.send answers, and the sendDone events it promises.            *)
(*                                                                         *)
(* TinyOS runs tasks in the order in which they were posted, a task being  *)
(* posted at most once (SchedulerBasicP); timers and the radio may come    *)
(* between any two tasks.                                                  *)
(***************************************************************************)
EXTENDS Integers, FiniteSets, SequencesExt

CONSTANTS
    Entries, MaxRetx, BpDiffThresh, MaxSends, RadioMayRefuse, \* BackIPQueueing
    Infos, NFragments, MaxFrags, FakeLink,                    \* IPDispatchSend
    ControlOps,      \* when the stack and routing may be stopped and started
    Root,            \* I_AM_ROOT
    MaxFrames        \* bound on the frames of data and beacons handed to blip

\* As in BackIPQueueing and IPDispatchSend.
ASSUME NodeAssumption ==
    /\ IsFiniteSet(Entries) /\ Entries # {} /\ Cardinality(Entries) # 1
    /\ MaxRetx \in Nat \ {0} /\ BpDiffThresh \in Nat \ {0}
    /\ MaxSends \in Nat /\ MaxSends + Cardinality(Entries) <= 65535
    /\ RadioMayRefuse \in BOOLEAN /\ FakeLink \in BOOLEAN
    /\ IsFiniteSet(Infos) /\ Infos # {}
    /\ NFragments \in Nat \ {0} /\ MaxFrags \in Nat \ {0}
    /\ ControlOps \in {"never", "quiet", "anytime"}
    /\ Root \in BOOLEAN /\ MaxFrames \in Nat

Kinds == {"data", "beacon", "null"}

VARIABLES
    stack, tx, qePool, msgPool, cur, virtualQueueSize, sending_data,
    sending_beacon, radioBusy, suppress_sendDone, my_last_bp,
    stat_sent_total, stat_sent_null, stat_sent_success,
    stat_dropped_q, stat_dropped_cond, txRetryTimer, tasks, air, beaconTimer,
    carried

VARIABLES
    sendQueue, info, infoPool, entryPool, fragPool, iidPool, ipBusy, state,
    radioOn, posted

VARIABLES
    owed,            \* sendDone events the queueing layer owes IPDispatch
    fifo,            \* the scheduler's queue of posted tasks
    no_neighbours,   \* of BackIPBeaconingP
    known,           \* is some neighbour in the table?
    valid,           \* m_valid_addr of IPAddressP: is there a global address?
    routing,         \* was the last call of RoutingControl a start?
    bound,           \* is UDPBeacon bound to its port?
    handed           \* frames of data and beacons handed to blip so far

Q  == INSTANCE BackIPQueueing
IP == INSTANCE IPDispatchSend

queueing == <<stack, tx, qePool, msgPool, cur, virtualQueueSize, sending_data,
              sending_beacon, radioBusy, suppress_sendDone, my_last_bp,
              stat_sent_total, stat_sent_null, stat_sent_success,
              stat_dropped_q, stat_dropped_cond, txRetryTimer, tasks, air,
              beaconTimer, carried, owed>>
dispatch == <<sendQueue, info, infoPool, entryPool, fragPool, iidPool, ipBusy,
              state, radioOn, posted, owed>>
control   == <<valid, routing, bound>>
beaconing == <<no_neighbours, known, control>>
vars == <<stack, tx, qePool, msgPool, cur, virtualQueueSize, sending_data,
          sending_beacon, radioBusy, suppress_sendDone, my_last_bp,
          stat_sent_total, stat_sent_null, stat_sent_success,
          stat_dropped_q, stat_dropped_cond, txRetryTimer, tasks, air,
          beaconTimer, carried, sendQueue, info, infoPool, entryPool,
          fragPool, iidPool, ipBusy, state, radioOn, posted, owed, fifo,
          no_neighbours, known, valid, routing, bound, handed>>

-----------------------------------------------------------------------------
(* The scheduler.                                                          *)

\* What waits to run after the step.
Posted == tasks' \cup (IF posted' THEN {"sendTask"} ELSE {})

\* Slip: a task that waits already is posted again.
PostTwice(s, t) == IF t \in Posted THEN Append(s, t) ELSE s

\* postTask: t goes to the end, unless it waits already.
PostOnce(s, t) == IF t \in Posted \ ToSet(s) THEN Append(s, t) ELSE s

\* What a handler has posted, in the order in which handlers post.
Schedule(rest) ==
    fifo' = PostOnce(PostOnce(PostOnce(rest, "sendTask"), "signalDone"),
                     "sendDataTask")

Task(t) == fifo # <<>> /\ Head(fifo) = t /\ Schedule(Tail(fifo))
Event   == Schedule(fifo)

-----------------------------------------------------------------------------
\* The radio is up.  Routing is started if there is a global address by then,
\* and there is one if nothing will start it later.
Init ==
    /\ Q!Init /\ IP!Init
    /\ fifo = <<>>
    /\ valid \in BOOLEAN /\ (ControlOps = "never" => valid)
    /\ routing = valid /\ bound = valid
    /\ no_neighbours = valid /\ beaconTimer = valid
    /\ known = FALSE
    /\ handed = 0

More(n) == handed + n <= MaxFrames /\ handed' = handed + n

\* The application, or a packet to forward.
PacketHanded ==
    /\ \E n \in 1 .. MaxFrags : More(n) /\ IP!IPSend("data", n, FALSE)
    /\ UNCHANGED <<queueing, beaconing>>
    /\ Event

\* Slip: only the root starts the timer again.
FiresOnce ==
    /\ More(1)
    /\ Q!SendingBeacon
    /\ beaconTimer' = Root
    /\ IP!IPSend("beacon", 1, TRUE)
    /\ UNCHANGED beaconing
    /\ Event

\* BeaconTimer.fired: mark, send, and start again as the root or while alone.
BeaconTimerFired ==
    /\ More(1)
    /\ Q!SendingBeacon
    /\ beaconTimer' = (Root \/ no_neighbours)
    /\ IP!IPSend("beacon", 1, TRUE)
    /\ UNCHANGED beaconing
    /\ Event

\* UDPBeacon.recvfrom: a neighbour is known; a request is answered soon.
BeaconHeard(request) ==
    /\ radioOn /\ bound
    /\ known' = TRUE /\ no_neighbours' = FALSE
    /\ IF request /\ ~beaconTimer THEN Q!BeaconTimerArmed
       ELSE UNCHANGED queueing
    /\ UNCHANGED <<dispatch, control, handed>>
    /\ Event

\* sendTask: what the queueing layer answers is what IPDispatch sees (owed').
SendTask ==
    /\ \/ (IP!SendTaskIdle \/ IP!SendTaskDrops) /\ UNCHANGED queueing
       \/ (IP!SendTaskFails \/ IP!SendTaskSends) /\ Q!SendCommand
    /\ UNCHANGED <<beaconing, handed>>
    /\ Task("sendTask")

\* signalDone: the sendDone of a data message, which is in the stack by now.
SignalDone ==
    /\ Q!SignalDone /\ IP!SendDone
    /\ UNCHANGED <<beaconing, handed>>
    /\ Task("signalDone")

\* sendDataTask; without an entry in the table no neighbour can be good.
DataTaskWaits ==
    /\ Q!TaskRadioBusy \/ Q!TaskNothing \/ Q!TaskNoNeighbour
    /\ UNCHANGED <<dispatch, beaconing, handed>>
    /\ Task("sendDataTask")

DataTaskSends ==
    /\ known
    /\ \/ Q!TaskGivesUp \/ Q!TaskSendFails
       \/ radioOn /\ Q!TaskSendsData
    /\ UNCHANGED <<dispatch, beaconing, handed>>
    /\ Task("sendDataTask")

\* PacketGen.sendNull: the null packet goes through the stack like any other.
DataTaskSendsNull ==
    /\ known
    /\ Q!TaskSendsNull
    /\ IP!IPSend("null", 1, FALSE)
    /\ UNCHANGED <<beaconing, handed>>
    /\ Task("sendDataTask")

RetryTimerFired ==
    /\ Q!RetryTimerFired
    /\ UNCHANGED <<dispatch, beaconing, handed>>
    /\ Event

\* SubSend.sendDone
DataLost ==
    /\ Q!DataLost
    /\ UNCHANGED <<dispatch, beaconing, handed>>
    /\ Event

DataDelivered ==
    /\ Q!DataDelivered
    /\ UNCHANGED <<dispatch, beaconing, handed>>
    /\ Event

BeaconDone ==
    /\ Q!BeaconDone /\ IP!SendDone
    /\ UNCHANGED <<beaconing, handed>>
    /\ Event

(***************************************************************************)
(* IPStackControlP.  RoutingControl reaches the queueing layer and the     *)
(* beaconing component (IPStackC), whose ports and default route are free  *)
(* to take, so that its start does not fail half way.                      *)
(***************************************************************************)
RoutingStart ==
    /\ Q!StdControlStart
    /\ no_neighbours' = TRUE
    /\ routing' = TRUE /\ bound' = TRUE

RoutingStop ==
    /\ Q!StdControlStop
    /\ routing' = FALSE
    /\ UNCHANGED <<no_neighbours, bound>>

\* SplitControl.stop: routing first, then IPDispatch.
StackStop ==
    /\ RoutingStop /\ IP!SplitControlStop
    /\ UNCHANGED <<known, valid, handed>>
    /\ Event

\* SubSplitControl.startDone: the radio may have failed to start; routing is
\* started anyhow, provided that there is a global address.
StackStart ==
    /\ Q!ControlAllowed
    /\ \/ IP!SplitControlStart
       \/ ~radioOn /\ UNCHANGED dispatch
    /\ IF valid THEN RoutingStart
       ELSE UNCHANGED <<queueing, no_neighbours, routing, bound>>
    /\ UNCHANGED <<known, valid, handed>>
    /\ Event

\* IPAddress.setAddress and removeAddress: their event changed starts and
\* stops routing alone, whether the stack runs or not.
AddressSet ==
    /\ valid' = TRUE
    /\ RoutingStart
    /\ UNCHANGED <<dispatch, known, handed>>
    /\ Event

AddressRemoved ==
    /\ valid' = FALSE
    /\ RoutingStop
    /\ UNCHANGED <<dispatch, known, handed>>
    /\ Event

Hearing == \E request \in BOOLEAN : BeaconHeard(request)
Tasks   == \/ SendTask \/ SignalDone
           \/ DataTaskWaits \/ DataTaskSends \/ DataTaskSendsNull
Radio   == DataLost \/ DataDelivered \/ BeaconDone
Restart == StackStop \/ StackStart \/ AddressSet \/ AddressRemoved

Next ==
    \/ PacketHanded \/ BeaconTimerFired \/ Hearing \/ Tasks
    \/ RetryTimerFired \/ Radio \/ Restart

Spec == Init /\ [][Next]_vars

(***************************************************************************)
(* Fairness: posted tasks run, timers fire, the link layer answers, and a  *)
(* first neighbour is heard.  As in BackIPQueueing the network is good     *)
(* enough: again and again there is a good neighbour for a task that needs *)
(* one, and a frame that is retried for ever is acknowledged in the end.   *)
(***************************************************************************)
FairSpec ==
    /\ Spec
    /\ WF_vars(Tasks)
    /\ WF_vars(BeaconTimerFired) /\ WF_vars(RetryTimerFired)
    /\ WF_vars(Radio)
    /\ WF_vars(~known /\ Hearing)
    /\ SF_vars(DataTaskSends \/ DataTaskSendsNull)
    /\ SF_vars(DataDelivered)

-----------------------------------------------------------------------------
(* Properties.                                                             *)

\* The scheduler's queue holds each posted task once, and nothing else.
TypeOK ==
    /\ IsInjective(fifo)
    /\ ToSet(fifo) = tasks \cup (IF posted THEN {"sendTask"} ELSE {})
    /\ {no_neighbours, known, valid, routing, bound} \subseteq BOOLEAN
    /\ handed \in 0 .. MaxFrames

\* The queueing layer in its real surroundings behaves as BackIPQueueing
\* says: in particular IPDispatch never calls Send.send while a sendDone is
\* owed to it, so what is proved of BackIPQueueing holds here.
ImplementsQueueing == Q!Spec

\* "Other nodes: Send beacons fast till they have one neighbour at least": while
\* routing is started, a node that is alone has a beacon scheduled.  Routing is
\* stopped and started with the stack and with the global address, in any order
\* of the two, and each start forgets the neighbours (BeaconingP, 84): it must
\* find or leave a running timer, and no handler may use up the timer's shot
\* and leave the node alone without another.
AloneMeansBeaconing == routing /\ no_neighbours => beaconTimer

\* Once no more packets and beacons are handed to blip, the node empties: no
\* fragment stays in IPDispatch's queue, and no packet, data or null, on the
\* stack or at the link layer.
NodeDrains == <>[](stack = <<>> /\ air = "none" /\ sendQueue = <<>>)

\* Data on the stack always has the task, the retry timer or a sendDone to come
\* that will look at it again, as long as the stack is not stopped.
NoStall == Q!NoStall

\* "a null packet is generated from this virtual queue backlog": one joins
\* IPDispatch's queue whenever the backlog is reduced for it.
NullIsGenerated ==
    [][stat_sent_null' > stat_sent_null
         => Len(sendQueue') > Len(sendQueue)]_vars

\* "Beacons have to bypass queues": what the queueing layer puts on its stack
\* was not sent as a beacon.
BeaconsBypass ==
    [][stat_sent_total' > stat_sent_total
         => Head(sendQueue).kind # "beacon"]_vars

\* "if there's a packet in the radio, wait for it to exit before stopping"
StopWaits == [][radioOn /\ ~radioOn' => air' = "none"]_vars

\* "deallocate the memory associated with this request": no in6_iid is lost.
IidsConserved == iidPool + Cardinality(IP!Held) = Cardinality(Infos)
=============================================================================
