--------------------------- MODULE BackIPQueueing ---------------------------
(***************************************************************************)
(* The queueing layer of BackIP (tos/lib/net/backip/BackIPQueueingP.nc).   *)
(*                                                                         *)
(* The layer sits between blip's IPDispatch (interface Send) and the       *)
(* CC2420 link (interface SubSend).  Data messages are copied into a LIFO  *)
(* stack of queue entries and sent from a task; a beacon bypasses the      *)
(* stack.  When the stack is full its oldest entry is discarded and a      *)
(* "virtual queue" counter takes its place, so that the backpressure the   *)
(* node advertises does not drop.                                          *)
(*                                                                         *)
(* TinyOS tasks, timer events and radio events run to completion, so one   *)
(* action is one handler.  Here posted tasks may run in any order; the     *)
(* module BackIPNode adds the FIFO order of the scheduler.  What the other *)
(* components answer (does a good neighbour exist, does the radio accept   *)
(* the frame, was it acknowledged) is chosen nondeterministically.         *)
(*                                                                         *)
(* Left out: the bytes of a message and the destination written into them, *)
(* the DELAY build option, stat_dropped_fail and stat_recvd_total (only    *)
(* ever incremented and reported), first_tx_time (see NeighbourTable).     *)
(***************************************************************************)
EXTENDS Integers, FiniteSets, SequencesExt

CONSTANTS
    Entries,         \* the fe_queue_entry_t structures of QEntryPool
    MaxRetx,         \* MAX_RETX_ATTEMPTS
    BpDiffThresh,    \* BP_DIFF_THRESH
    MaxSends,        \* bound on stat_sent_total since the last start
    ControlOps,      \* when StdControl.start/stop may be called
    RadioMayRefuse   \* may SubSend.send fail while the link layer is idle?

\* FORWARDING_QUEUE_SIZE is the capacity of the stack and of both pools.
QSize == Cardinality(Entries)

\* The counters are uint16_t: under MaxSends none of them wraps.  A stack of
\* two or more entries is never emptied by a discard.
ASSUME QueueAssumption ==
    /\ IsFiniteSet(Entries) /\ Entries # {} /\ QSize # 1
    /\ MaxRetx \in Nat \ {0}
    /\ BpDiffThresh \in Nat \ {0}
    /\ MaxSends \in Nat /\ MaxSends + QSize <= 65535
    /\ ControlOps \in {"never", "quiet", "anytime"}
    /\ RadioMayRefuse \in BOOLEAN

VARIABLES
    stack,             \* SendStack, bottom (oldest) first
    tx,                \* tx_count of each queue entry
    qePool,            \* free entries of QEntryPool
    msgPool,           \* number of free messages in MessagePool
    cur,               \* current_send_qe
    virtualQueueSize,
    sending_data,
    sending_beacon,
    radioBusy,
    suppress_sendDone,
    my_last_bp,
    stat_sent_total, stat_sent_null, stat_sent_success,
    stat_dropped_q, stat_dropped_cond,      \* send_stats
    txRetryTimer,      \* is the one-shot running?
    tasks,             \* posted tasks of this component
    air,               \* what the link layer is transmitting for us
    beaconTimer,       \* is BeaconingP's one-shot running?
    owed,              \* Send.sendDone events owed to IPDispatch
    carried            \* history: packets on the stack at the last start

buffers == <<stack, tx, qePool, msgPool>>
client  == <<owed, carried>>
stats   == <<stat_sent_total, stat_sent_null, stat_sent_success,
             stat_dropped_q, stat_dropped_cond>>
vars == <<stack, tx, qePool, msgPool, cur, virtualQueueSize, sending_data,
          sending_beacon, radioBusy, suppress_sendDone, my_last_bp,
          stat_sent_total, stat_sent_null, stat_sent_success,
          stat_dropped_q, stat_dropped_cond,
          txRetryTimer, tasks, air, beaconTimer, owed, carried>>

Frames     == {"none", "data", "beacon"}
Occupied   == ToSet(stack)

B2N(b) == IF b THEN 1 ELSE 0

-----------------------------------------------------------------------------
(* Helpers of the component.                                               *)

\* _get_bp()
Backpressure == Len(stack) + virtualQueueSize + sending_data

\* Slip: the entry goes back to the wrong end.
PushBottom(s, e) == IF Len(s) < QSize THEN <<e>> \o s ELSE s

\* Stack.pushTop: refused, with no effect, when the stack is full.
PushTop(s, e) == IF Len(s) < QSize THEN Append(s, e) ELSE s
PopTop(s)     == Front(s)
TopOf(s)      == Last(s)

\* Slips: drop the newest entry; keep the message; do not account for the
\* drop in the virtual queue, or in the statistics.
DropNewest        == IF Len(stack) >= QSize THEN Front(stack) ELSE stack
KeepMessage       == msgPool
NoVirtualGrowth   == virtualQueueSize
UncountedDrop     == stat_dropped_cond

\* conditionalDiscard(): the loop runs at most once, because the stack never
\* holds more than QSize entries.
Full           == Len(stack) >= QSize
KeptStack      == IF Full THEN Tail(stack) ELSE stack
KeptQePool     == IF Full THEN qePool \cup {Head(stack)} ELSE qePool
KeptMsgPool    == IF Full THEN msgPool + 1 ELSE msgPool
KeptVirtual    == IF Full THEN virtualQueueSize + 1 ELSE virtualQueueSize
KeptDropped    == IF Full THEN stat_dropped_cond + 1 ELSE stat_dropped_cond

\* check_bp(): ask for a beacon when the advertised value has drifted.
Drift == LET d == Backpressure - my_last_bp IN IF d < 0 THEN -d ELSE d
CheckBp == beaconTimer' = (beaconTimer \/ Drift >= BpDiffThresh)

\* The link layer (PacketLinkP) takes one frame at a time: EBUSY otherwise.
Answers == {ok \in BOOLEAN :
              IF air = "none" THEN ok \/ RadioMayRefuse ELSE ~ok}

Post(t)  == tasks' = tasks \cup {t}
RunTask(t) == t \in tasks

-----------------------------------------------------------------------------
(* Initial state: after the boot, before any traffic.  The start that came *)
(* with it set the timer, if there was a global address already.           *)

Init ==
    /\ stack = <<>>
    /\ tx = [e \in Entries |-> 0]
    /\ qePool = Entries
    /\ msgPool = QSize
    /\ cur \in Entries
    /\ virtualQueueSize = 0
    /\ sending_data = 0
    /\ sending_beacon = FALSE
    /\ radioBusy = FALSE
    /\ suppress_sendDone = FALSE
    /\ my_last_bp = 0
    /\ stat_sent_total = 0 /\ stat_sent_null = 0 /\ stat_sent_success = 0
    /\ stat_dropped_q = 0 /\ stat_dropped_cond = 0
    /\ txRetryTimer = FALSE
    /\ tasks = {}
    /\ air = "none"
    /\ beaconTimer \in BOOLEAN
    /\ owed = 0
    /\ carried = 0

-----------------------------------------------------------------------------
(* StdControl.  IPStackControlP calls start whenever the node's address    *)
(* changes and whenever the radio comes up; ControlOps says whether that   *)
(* may happen while a frame is at the link layer.  IPStackC.RoutingControl *)
(* reaches BackIPBeaconingP as well, which arms or stops its timer.        *)

ControlAllowed ==
    \/ ControlOps = "anytime"
    \/ ControlOps = "quiet" /\ air = "none"

StdControlStart ==
    /\ ControlAllowed
    /\ radioBusy' = FALSE
    /\ sending_beacon' = FALSE
    /\ suppress_sendDone' = FALSE
    /\ virtualQueueSize' = 0
    /\ stat_sent_total' = 0 /\ stat_sent_null' = 0 /\ stat_sent_success' = 0
    /\ stat_dropped_q' = 0 /\ stat_dropped_cond' = 0
    /\ carried' = Len(stack)
    /\ beaconTimer' = TRUE
    /\ UNCHANGED <<buffers, cur, sending_data, my_last_bp, txRetryTimer,
                   tasks, air, owed>>

StdControlStop ==
    /\ ControlAllowed
    /\ radioBusy' = FALSE
    /\ txRetryTimer' = FALSE
    /\ beaconTimer' = FALSE
    /\ UNCHANGED <<buffers, cur, virtualQueueSize, sending_data,
                   sending_beacon, suppress_sendDone, my_last_bp, stats,
                   tasks, air, client>>

-----------------------------------------------------------------------------
(* The beaconing component.  Its timer may be armed for reasons of its own *)
(* (no neighbour yet, a REQ beacon received, being the root).              *)

BeaconTimerArmed ==
    /\ ~beaconTimer
    /\ beaconTimer' = TRUE
    /\ UNCHANGED <<buffers, cur, virtualQueueSize, sending_data,
                   sending_beacon, radioBusy, suppress_sendDone, my_last_bp,
                   stats, txRetryTimer, tasks, air, client>>

\* BeaconTimer.fired marks the beacon (BeaconQueueInterface.SendingBeacon)
\* and hands it to the IP stack, from where it arrives through Send.send.  A
\* root, and a node without neighbours, starts the timer again.
SendingBeacon ==
    /\ beaconTimer
    /\ beaconTimer' \in BOOLEAN
    /\ sending_beacon' = TRUE
    /\ UNCHANGED <<buffers, cur, virtualQueueSize, sending_data, radioBusy,
                   suppress_sendDone, my_last_bp, stats, txRetryTimer, tasks,
                   air, client>>

-----------------------------------------------------------------------------
(* Send.send.                                                              *)

\* A beacon meets a busy radio: ERETRY, and the mark is cleared.
SendBeaconRefused ==
    /\ sending_beacon /\ radioBusy
    /\ sending_beacon' = FALSE
    /\ UNCHANGED <<buffers, cur, virtualQueueSize, sending_data, radioBusy,
                   suppress_sendDone, my_last_bp, stats, txRetryTimer, tasks,
                   air, beaconTimer, client>>

\* Slip: suppress_sendDone keeps its value from the last data frame.
BeaconKeepsSuppress(ok) ==
    /\ radioBusy' = TRUE
    /\ sending_beacon' = FALSE
    /\ my_last_bp' = Backpressure
    /\ air'  = IF ok THEN "beacon" ELSE air
    /\ owed' = IF ok THEN owed + 1 ELSE owed
    /\ UNCHANGED suppress_sendDone

\* A beacon goes straight to the link layer.  radioBusy stays set when the
\* link layer refuses it.
BeaconToRadio(ok) ==
    /\ radioBusy' = TRUE
    /\ sending_beacon' = FALSE
    /\ suppress_sendDone' = FALSE
    /\ my_last_bp' = Backpressure
    /\ air'  = IF ok THEN "beacon" ELSE air
    /\ owed' = IF ok THEN owed + 1 ELSE owed

SendBeacon ==
    /\ sending_beacon /\ ~radioBusy
    /\ \E ok \in Answers : BeaconToRadio(ok)
    /\ UNCHANGED <<buffers, cur, virtualQueueSize, sending_data, stats,
                   txRetryTimer, tasks, beaconTimer, carried>>

\* Data, but no free message or entry is left even after the discard.
SendRefused ==
    /\ ~sending_beacon
    /\ stat_sent_total < MaxSends
    /\ KeptMsgPool = 0 \/ KeptQePool = {}
    /\ stat_sent_total' = stat_sent_total + 1
    /\ stat_dropped_q' = stat_dropped_q + 1
    /\ stat_dropped_cond' = KeptDropped
    /\ stack' = KeptStack
    /\ qePool' = KeptQePool
    /\ msgPool' = KeptMsgPool
    /\ virtualQueueSize' = KeptVirtual
    /\ UNCHANGED <<tx, cur, sending_data, sending_beacon, radioBusy,
                   suppress_sendDone, my_last_bp, stat_sent_null,
                   stat_sent_success, txRetryTimer, tasks, air, beaconTimer,
                   client>>

\* Data is copied and pushed; the answer to IPDispatch comes from a task.
\* (After the discard pushTop cannot find the stack full.)
Enqueue(e) ==
    /\ stack' = PushTop(KeptStack, e)
    /\ tx' = [tx EXCEPT ![e] = 0]
    /\ qePool' = KeptQePool \ {e}
    /\ msgPool' = KeptMsgPool - 1
    /\ virtualQueueSize' = KeptVirtual
    /\ stat_sent_total' = stat_sent_total + 1
    /\ stat_dropped_cond' = KeptDropped

SendAccepted ==
    /\ ~sending_beacon
    /\ stat_sent_total < MaxSends
    /\ KeptMsgPool > 0
    /\ \E e \in KeptQePool : Enqueue(e)
    /\ tasks' = tasks \cup {"signalDone", "sendDataTask"}
    /\ owed' = owed + 1
    /\ UNCHANGED <<cur, sending_data, sending_beacon, radioBusy,
                   suppress_sendDone, my_last_bp, stat_sent_null,
                   stat_sent_success, stat_dropped_q, txRetryTimer, air,
                   beaconTimer, carried>>

\* task signalDone: Send.sendDone for a data message.
SignalDone ==
    /\ RunTask("signalDone")
    /\ tasks' = tasks \ {"signalDone"}
    /\ owed' = owed - 1
    /\ UNCHANGED <<buffers, cur, virtualQueueSize, sending_data,
                   sending_beacon, radioBusy, suppress_sendDone, my_last_bp,
                   stats, txRetryTimer, air, beaconTimer, carried>>

-----------------------------------------------------------------------------
(* task sendDataTask, one action for each way through it.                  *)

TaskStarts ==
    /\ RunTask("sendDataTask")
    /\ tasks' = tasks \ {"sendDataTask"}

\* Slip: one attempt too many.
PastLimit(e) == tx[e] > MaxRetx

\* The entry has used up its attempts.
Exhausted(e) == tx[e] >= MaxRetx

NothingToSend == stack = <<>> /\ virtualQueueSize = 0

\* The previous frame is still on its way: try again later.
TaskRadioBusy ==
    /\ TaskStarts /\ radioBusy
    /\ txRetryTimer' = TRUE
    /\ UNCHANGED <<buffers, cur, virtualQueueSize, sending_data,
                   sending_beacon, radioBusy, suppress_sendDone, my_last_bp,
                   stats, air, beaconTimer, client>>

TaskNothing ==
    /\ TaskStarts /\ ~radioBusy /\ CheckBp
    /\ NothingToSend
    /\ UNCHANGED <<buffers, cur, virtualQueueSize, sending_data,
                   sending_beacon, radioBusy, suppress_sendDone, my_last_bp,
                   stats, txRetryTimer, air, client>>

\* updateNeighbour found no good neighbour.
TaskNoNeighbour ==
    /\ TaskStarts /\ ~radioBusy /\ CheckBp
    /\ ~NothingToSend
    /\ txRetryTimer' = TRUE
    /\ UNCHANGED <<buffers, cur, virtualQueueSize, sending_data,
                   sending_beacon, radioBusy, suppress_sendDone, my_last_bp,
                   stats, air, client>>

\* There is data and a neighbour: discard if full, then look at the top entry.
TaskHasData ==
    /\ TaskStarts /\ ~radioBusy /\ CheckBp
    /\ KeptStack # <<>>
    /\ cur' = TopOf(KeptStack)
    /\ virtualQueueSize' = KeptVirtual
    /\ stat_dropped_cond' = KeptDropped
    /\ UNCHANGED <<stat_sent_total, stat_sent_null, stat_sent_success,
                   stat_dropped_q>>
    /\ qePool' = KeptQePool
    /\ msgPool' = KeptMsgPool

\* Too many attempts: the link is penalised and the entry starts again.
TaskGivesUp ==
    /\ TaskHasData
    /\ Exhausted(cur')
    /\ stack' = PushTop(PopTop(KeptStack), cur')
    /\ tx' = [tx EXCEPT ![cur'] = 0]
    /\ sending_data' = 0
    /\ txRetryTimer' = TRUE
    /\ UNCHANGED <<sending_beacon, radioBusy, suppress_sendDone, my_last_bp,
                   air, client>>

\* The frame goes to the link layer.
TaskSendsData ==
    /\ TaskHasData
    /\ ~Exhausted(cur')
    /\ TRUE \in Answers
    /\ stack' = PopTop(KeptStack)
    /\ tx' = [tx EXCEPT ![cur'] = @ + 1]
    /\ suppress_sendDone' = TRUE
    /\ sending_data' = 1
    /\ radioBusy' = TRUE
    /\ air' = "data"
    /\ UNCHANGED <<sending_beacon, my_last_bp, txRetryTimer, client>>

\* The link layer refuses it: undo, and retry soon.
TaskSendFails ==
    /\ TaskHasData
    /\ ~Exhausted(cur')
    /\ FALSE \in Answers
    /\ stack' = PushTop(PopTop(KeptStack), cur')
    /\ suppress_sendDone' = TRUE
    /\ sending_data' = 0
    /\ txRetryTimer' = TRUE
    /\ UNCHANGED <<tx, sending_beacon, radioBusy, my_last_bp, air, client>>

\* Only virtual backlog: a null packet is generated (it comes back through
\* Send.send like any other packet, if the IP stack has room for it).
TaskSendsNull ==
    /\ TaskStarts /\ ~radioBusy /\ CheckBp
    /\ stack = <<>> /\ virtualQueueSize > 0
    /\ virtualQueueSize' = virtualQueueSize - 1
    /\ stat_sent_null' = stat_sent_null + 1
    /\ UNCHANGED <<buffers, cur, sending_data, sending_beacon, radioBusy,
                   suppress_sendDone, my_last_bp, stat_sent_total,
                   stat_sent_success, stat_dropped_q, stat_dropped_cond,
                   txRetryTimer, air, client>>

SendDataTask ==
    \/ TaskRadioBusy \/ TaskNothing \/ TaskNoNeighbour \/ TaskGivesUp
    \/ TaskSendsData \/ TaskSendFails \/ TaskSendsNull

\* Slip: the timer fires and nobody posts the task.
RetryForgotten ==
    /\ txRetryTimer
    /\ txRetryTimer' = FALSE
    /\ UNCHANGED <<buffers, cur, virtualQueueSize, sending_data,
                   sending_beacon, radioBusy, suppress_sendDone, my_last_bp,
                   stats, tasks, air, beaconTimer, client>>

RetryTimerFired ==
    /\ txRetryTimer
    /\ txRetryTimer' = FALSE
    /\ Post("sendDataTask")
    /\ UNCHANGED <<buffers, cur, virtualQueueSize, sending_data,
                   sending_beacon, radioBusy, suppress_sendDone, my_last_bp,
                   stats, air, beaconTimer, client>>

-----------------------------------------------------------------------------
(* SubSend.sendDone.  Which branch runs depends on suppress_sendDone, not  *)
(* on the frame that was sent.                                             *)

MoreToSend(s, v) == Len(s) > 0 \/ v > 0
\* Slip: a completion does not look for more.
PostNever(s, v) == UNCHANGED tasks
PostIfMore(s, v) ==
    tasks' = IF MoreToSend(s, v) THEN tasks \cup {"sendDataTask"} ELSE tasks

\* Not acknowledged: back to the top of the stack, and retry.
DataLost ==
    /\ air # "none" /\ suppress_sendDone
    /\ air' = "none"
    /\ sending_data' = 0
    /\ stack' = PushTop(stack, cur)
    /\ radioBusy' = FALSE
    /\ Post("sendDataTask")
    /\ UNCHANGED <<tx, qePool, msgPool, cur, virtualQueueSize, sending_beacon,
                   suppress_sendDone, my_last_bp, stats, txRetryTimer,
                   beaconTimer, client>>

\* Slip: the message is returned and the entry is forgotten.
RecycleMessageOnly ==
    /\ msgPool' = IF msgPool < QSize THEN msgPool + 1 ELSE msgPool
    /\ UNCHANGED qePool

\* Pool.put: refused when the pool is already full.
Recycle ==
    /\ msgPool' = IF msgPool < QSize THEN msgPool + 1 ELSE msgPool
    /\ qePool' = qePool \cup {cur}

\* Acknowledged: the entry and its message return to their pools.
DataDelivered ==
    /\ air # "none" /\ suppress_sendDone
    /\ air' = "none"
    /\ stat_sent_success' = stat_sent_success + 1
    /\ sending_data' = 0
    /\ Recycle
    /\ suppress_sendDone' = FALSE
    /\ radioBusy' = FALSE
    /\ PostIfMore(stack, virtualQueueSize)
    /\ UNCHANGED <<stack, tx, cur, virtualQueueSize, sending_beacon,
                   my_last_bp, stat_sent_total, stat_sent_null,
                   stat_dropped_q, stat_dropped_cond, txRetryTimer,
                   beaconTimer, client>>

\* Not suppressed: the event goes up to IPDispatch.
BeaconDone ==
    /\ air # "none" /\ ~suppress_sendDone
    /\ air' = "none"
    /\ owed' = owed - 1
    /\ radioBusy' = FALSE
    /\ PostIfMore(stack, virtualQueueSize)
    /\ UNCHANGED <<buffers, cur, virtualQueueSize, sending_data,
                   sending_beacon, suppress_sendDone, my_last_bp, stats,
                   txRetryTimer, beaconTimer, carried>>

-----------------------------------------------------------------------------
Control == StdControlStart \/ StdControlStop
Beaconing == BeaconTimerArmed \/ SendingBeacon
SendCommand == SendBeaconRefused \/ SendBeacon \/ SendRefused \/ SendAccepted

\* IPDispatch has one message outstanding at a time (its own radioBusy), so it
\* calls only when no sendDone is owed to it.  BackIPNode checks that it does.
Send ==
    /\ owed = 0
    /\ SendCommand

SubSendDone == DataLost \/ DataDelivered \/ BeaconDone

Next ==
    \/ Control \/ Beaconing \/ Send \/ SignalDone
    \/ SendDataTask \/ RetryTimerFired \/ SubSendDone

Spec == Init /\ [][Next]_vars

(***************************************************************************)
(* Fairness.  Posted tasks and running timers are served; the link layer   *)
(* answers every frame it accepted (PacketLinkP gives up after maxRetries).*)
(* The environment is assumed good enough for BackIP to work at all: a     *)
(* neighbour with positive weight shows up again and again, and a frame    *)
(* that is retried for ever is acknowledged again and again.               *)
(***************************************************************************)
FairSpec ==
    /\ Spec
    /\ WF_vars(SignalDone)
    /\ WF_vars(SendDataTask)
    /\ WF_vars(RetryTimerFired)
    /\ WF_vars(SubSendDone)
    /\ SF_vars(TaskSendsData \/ TaskGivesUp \/ TaskSendsNull)
    /\ SF_vars(DataDelivered)

-----------------------------------------------------------------------------
(* Properties.                                                             *)

InFlight == B2N(air = "data")
Counter  == 0 .. MaxSends + QSize

\* Every variable holds a value of the type the component declares for it:
\* the stack, the pools and the counters stay within their capacities.
TypeOK ==
    /\ stack \in Seq(Entries) /\ Len(stack) <= QSize
    /\ tx \in [Entries -> 0 .. MaxRetx]
    /\ qePool \subseteq Entries
    /\ msgPool \in 0 .. QSize
    /\ cur \in Entries
    /\ virtualQueueSize \in Counter
    /\ sending_data \in {0, 1}
    /\ sending_beacon \in BOOLEAN
    /\ radioBusy \in BOOLEAN
    /\ suppress_sendDone \in BOOLEAN
    /\ my_last_bp \in Nat
    /\ stat_sent_total \in 0 .. MaxSends
    /\ stat_sent_null \in Counter /\ stat_sent_success \in Counter
    /\ stat_dropped_q \in Counter /\ stat_dropped_cond \in Counter
    /\ txRetryTimer \in BOOLEAN
    /\ tasks \subseteq {"signalDone", "sendDataTask"}
    /\ air \in Frames
    /\ beaconTimer \in BOOLEAN
    /\ owed \in {0, 1}
    /\ carried \in 0 .. QSize

\* No buffer is lost or used twice: every queue entry is in exactly one of the
\* free pool, the stack and the radio, across discards, retransmissions,
\* refusals and completions (the puts and gets of Send.send,
\* conditionalDiscard, sendDataTask and SubSend.sendDone).
EachEntryOnce ==
    /\ IsInjective(stack)
    /\ qePool \cap Occupied = {}
    /\ air = "data" => cur \notin Occupied \cup qePool
    /\ qePool \cup Occupied \cup (IF air = "data" THEN {cur} ELSE {}) = Entries

\* The message pool keeps step with the entries, so that a restored entry
\* (DataLost, TaskSendFails, TaskGivesUp) always finds room on the stack.
MessagesConserved == msgPool + Len(stack) + InFlight = QSize

\* Accounting: every data message handed to Send.send since the start is on
\* the stack, in flight, delivered, discarded or refused, and counted once.
Accounting ==
    stat_sent_total + carried =
        Len(stack) + InFlight + stat_sent_success
        + stat_dropped_cond + stat_dropped_q

\* "The virtual queue preserves backpressure values through stack drop
\* events": what _get_bp reports is what was accepted less what was delivered
\* or sent as a null packet, whatever was discarded in between.
BackpressurePreserved ==
    Backpressure = stat_sent_total + carried
                   - stat_dropped_q - stat_sent_success - stat_sent_null

\* The lock and the two flags describe the frame at the link layer: it is
\* busy while radioBusy says so, its completion is suppressed exactly for
\* data, and sending_data counts it in the backpressure.
FlagsMatchFrame ==
    /\ air # "none" => radioBusy
    /\ air = "data" <=> sending_data = 1
    /\ air = "data" => suppress_sendDone
    /\ air = "beacon" => ~suppress_sendDone

\* IPDispatch gets one sendDone for every message accepted from it: none is
\* signalled twice, for data that was already answered, or never.
SendDoneMatched ==
    owed = B2N("signalDone" \in tasks) + B2N(air = "beacon")

\* Data on the stack is never stranded: something is pending that will run
\* sendDataTask again.
NoStall ==
    stack # <<>> => \/ "sendDataTask" \in tasks
                    \/ txRetryTimer
                    \/ air # "none"

\* What is still in the node's care: the stack and the entry at the link layer.
UnderSend == IF air = "data" THEN {cur} ELSE {}
Held      == Occupied \cup UnderSend

\* The action that HeldUntilAcked says every step is.
StaysHeld ==
    /\ \A e \in Held : e \notin Held' =>
          \/ e \in UnderSend /\ stat_sent_success' = stat_sent_success + 1
          \/ /\ Full /\ e = Head(stack)
             /\ stat_dropped_cond' = stat_dropped_cond + 1
    /\ air = "data" /\ air' # "data" =>
          \/ stat_sent_success' = stat_sent_success + 1
          \/ stack' = Append(stack, cur)
    /\ "sendDataTask" \in tasks \ tasks' /\ stack # <<>> =>
          \/ air' = air /\ stack' # <<>> /\ TopOf(stack') = TopOf(stack)
          \/ air' = "data" /\ cur' = TopOf(stack)

\* Nothing that was accepted is lost on a retry path.  (1) Whatever handler
\* runs, an entry leaves the node in two ways only: acknowledged, or as the
\* oldest of a full stack, and then it is counted.  (2) A frame that is not
\* acknowledged (SubSend.sendDone, 473-496) is on top of the stack again.
\* (3) A run of sendDataTask that hands over no frame (the radio is busy, no
\* neighbour, the link layer refuses, 316-333, the attempts are used up,
\* 223-252) leaves the same packet on top, and one that does takes that one.
HeldUntilAcked == [][StaysHeld]_vars

\* LIFO with drop-oldest: an entry leaves the stack at the top, to the radio,
\* or at the bottom, to the pool, the latter only when the stack is full.
OldestDiscardedFirst ==
    [][\A e \in Occupied : e \notin Occupied' =>
          \/ air' = "data" /\ cur' = e /\ TopOf(stack) = e
          \/ Full /\ Head(stack) = e /\ e \in qePool']_vars

\* Under the fairness above, and once the upper layer is quiet (MaxSends),
\* the stack empties and stays empty: the retry timer, the task and the
\* completions keep the queue moving.
BacklogDrains == <>[](Len(stack) = 0 /\ air # "data")

\* "If I'm still sending the previous message, try again later": radioBusy
\* holds only while a frame is at the link layer.
BusyMeansSending == radioBusy => air # "none"

\* "Only one packet can be actively 'under send' at any time - this is that":
\* while a data frame is at the link layer current_send_qe is its entry, and
\* no entry of the stack.
CurIsUnderSend == air = "data" => cur \notin Occupied \cup qePool

\* "Send beacon if backpressure delta >= than this": when nothing is left to
\* run, what was last advertised is within the threshold.
QuietMeansAdvertised ==
    (tasks = {} /\ ~txRetryTimer /\ air = "none" /\ ~beaconTimer
       /\ ~sending_beacon) => Drift < BpDiffThresh
=============================================================================
