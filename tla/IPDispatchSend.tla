--------------------------- MODULE IPDispatchSend ---------------------------
(***************************************************************************)
(* The sending side of blip: IPForwardingEngineP.do_send, which remembers  *)
(* the next hop of each packet, and IPDispatchP, which cuts a packet into  *)
(* fragments and hands them one at a time to the layer below (the CC2420,  *)
(* or BackIP's queueing layer, see BackIPNode).                            *)
(*                                                                         *)
(* A fragment needs a send_entry and a message_t; all fragments of a       *)
(* packet share a reference-counted send_info.  One action is one handler. *)
(*                                                                         *)
(* Left out: the bytes of a fragment, errors of lowpan_frag_get, the       *)
(* retries of PacketLink, statistics; SendQueue.enqueue, which cannot fail *)
(* (the queue has as many places as there are entries: BuffersConserved).  *)
(***************************************************************************)
EXTENDS Integers, FiniteSets, SequencesExt

CONSTANTS
    Infos,           \* the send_info structures of SendInfoPool
    NFragments,      \* N_FRAGMENTS
    Kinds,           \* what a packet may be
    MaxFrags,        \* fragments of the largest packet
    FakeLink,        \* does PacketLink.wasDelivered always say yes (BackIP)?
    ControlOps       \* may SplitControl be used after the start ("anytime")?

\* N_CONCURRENT_SENDS, the size of SendInfoPool and of the pool of in6_iid.
NSends == Cardinality(Infos)

ASSUME DispatchAssumption ==
    /\ IsFiniteSet(Infos) /\ Infos # {}
    /\ NFragments \in Nat \ {0} /\ MaxFrags \in Nat \ {0}
    /\ Kinds # {}
    /\ FakeLink \in BOOLEAN
    /\ ControlOps \in {"never", "quiet", "anytime"}

VARIABLES
    sendQueue,       \* SendQueue: the info and the kind of each fragment
    info,            \* the fields of each send_info
    infoPool,        \* free structures of SendInfoPool
    entryPool,       \* number of free entries of SendEntryPool
    fragPool,        \* number of free messages of FragPool
    iidPool,         \* number of free in6_iid of IPForwardingEngineP.Pool
    ipBusy,          \* radioBusy
    state,           \* S_RUNNING, S_STOPPED, S_STOPPING
    radioOn,         \* RadioControl
    posted,          \* is sendTask posted?
    owed             \* sendDone events the layer below owes us

packets == <<sendQueue, info, infoPool, iidPool>>
pools   == <<entryPool, fragPool>>
control == <<state, radioOn>>
vars    == <<sendQueue, info, infoPool, entryPool, fragPool, iidPool, ipBusy,
             state, radioOn, posted, owed>>

\* upper_data: no in6_iid; ours to give back; given back already.
Uppers == {"null", "held", "returned"}

\* A free structure: getSendInfo sets every field before it is read.
Free == [refcount |-> 0, failed |-> FALSE, fragments |-> 0, attempts |-> 0,
         upper |-> "null"]

Init ==
    /\ sendQueue = <<>>
    /\ info = [i \in Infos |-> Free]
    /\ infoPool = Infos
    /\ entryPool = NFragments /\ fragPool = NFragments
    /\ iidPool = NSends
    /\ ipBusy = FALSE
    /\ state = "running" /\ radioOn = TRUE
    /\ posted = FALSE
    /\ owed = 0

-----------------------------------------------------------------------------
(* IP.send, do_send and IPLower.send.                                      *)

\* EOFF, or ERETRY for want of a send_info: do_send takes its in6_iid back.
SendRejected ==
    /\ state # "running" \/ infoPool = {}
    /\ UNCHANGED vars

\* Slip: fragments are queued without a look at the pools.
EnqueuedAll(n) == n

\* A packet of n fragments asks for n + 1 entries, because only an empty
\* fragment tells that the packet is complete.
Fits(n)     == n < entryPool
Enqueued(n) == IF n <= entryPool THEN n ELSE entryPool

\* The fragments that find an entry are queued; if one does not, the packet is
\* marked failed and do_send takes its in6_iid back.  A multicast packet
\* carries no in6_iid, nor does any once the pool is empty.
SendPacket(k, n, multicast) ==
    /\ state = "running"
    /\ posted' = TRUE
    /\ \E i \in infoPool :
         LET e   == Enqueued(n)
             iid == ~multicast /\ iidPool > 0
         IN  IF e = 0 THEN UNCHANGED <<packets, pools>>
             ELSE /\ sendQueue' = sendQueue
                         \o [j \in 1 .. e |-> [info |-> i, kind |-> k]]
                  /\ infoPool' = infoPool \ {i}
                  /\ info' = [info EXCEPT ![i] =
                       [refcount |-> e, failed |-> ~Fits(n),
                        fragments |-> e, attempts |-> 0,
                        upper |-> IF ~iid THEN "null"
                                  ELSE IF Fits(n) THEN "held" ELSE "returned"]]
                  /\ iidPool' = IF iid /\ Fits(n) THEN iidPool - 1 ELSE iidPool
                  /\ entryPool' = entryPool - e
                  /\ fragPool' = fragPool - e
    /\ UNCHANGED <<ipBusy, control, owed>>

IPSend(k, n, multicast) == SendRejected \/ SendPacket(k, n, multicast)

-----------------------------------------------------------------------------
(* Giving back the head of the queue.                                      *)

HeadInfo == Head(sendQueue).info

\* Slip: a dropped fragment keeps its message.
KeepsMessage ==
    /\ sendQueue' = Tail(sendQueue)
    /\ entryPool' = entryPool + 1
    /\ UNCHANGED fragPool

\* SendEntryPool.put, FragPool.put, SendQueue.dequeue
Dequeue ==
    /\ sendQueue' = Tail(sendQueue)
    /\ entryPool' = entryPool + 1
    /\ fragPool' = fragPool + 1

\* Slip: the structure is freed with the first of its fragments.
FreedAtOnce(r) ==
    /\ infoPool' = infoPool \cup {HeadInfo}
    /\ info' = [info EXCEPT ![HeadInfo] = Free]

\* SENDINFO_DECR on the head's info, whose other fields have become r.
Release(r) ==
    IF r.refcount = 1
    THEN /\ infoPool' = infoPool \cup {HeadInfo}
         /\ info' = [info EXCEPT ![HeadInfo] = Free]
    ELSE /\ info' = [info EXCEPT ![HeadInfo] =
                       [r EXCEPT !.refcount = @ - 1]]
         /\ UNCHANGED infoPool

-----------------------------------------------------------------------------
(* task sendTask                                                           *)

\* Slip: the task does not look whether a fragment is with the layer below.
IgnoresBusy == state = "running" /\ sendQueue # <<>>

MaySend == ~ipBusy /\ state = "running" /\ sendQueue # <<>>

SendTaskIdle ==
    /\ posted /\ ~MaySend
    /\ posted' = FALSE
    /\ UNCHANGED <<packets, pools, ipBusy, control, owed>>

\* Slip: the task forgets to post itself for the next fragment.
DropsAndRests ==
    /\ posted' = FALSE
    /\ Release([info[HeadInfo] EXCEPT !.failed = TRUE])
    /\ Dequeue
    /\ UNCHANGED <<iidPool, ipBusy, control, owed>>

\* The label fail.
DropHead ==
    /\ posted' = TRUE
    /\ Release([info[HeadInfo] EXCEPT !.failed = TRUE])
    /\ Dequeue
    /\ UNCHANGED <<iidPool, ipBusy, control, owed>>

\* A fragment of a packet that has failed already.
SendTaskDrops ==
    /\ posted /\ MaySend
    /\ info[HeadInfo].failed
    /\ DropHead

\* The layer below refuses the fragment.
SendTaskFails ==
    /\ posted /\ MaySend
    /\ ~info[HeadInfo].failed
    /\ DropHead

SendTaskSends ==
    /\ posted /\ MaySend
    /\ ~info[HeadInfo].failed
    /\ posted' = FALSE
    /\ ipBusy' = TRUE
    /\ owed' = owed + 1
    /\ UNCHANGED <<packets, pools, control>>

SendTask == SendTaskIdle \/ SendTaskDrops \/ SendTaskFails \/ SendTaskSends

-----------------------------------------------------------------------------
(* Ieee154Send.sendDone                                                    *)

\* PacketLink.wasDelivered
Delivery == IF FakeLink THEN {TRUE} ELSE BOOLEAN

\* The fields of the head's info after an attempt.
Attempted(delivered) ==
    [info[HeadInfo] EXCEPT !.attempts = @ + 1, !.failed = @ \/ ~delivered]

\* Slip: every fragment that fails is reported, and so is the last one.
ReportsTwice(r, delivered) == ~delivered \/ r.attempts <= r.fragments

\* IPLower.sendDone is signalled for a failure and for the last fragment.
Reported(r, delivered) == ~delivered \/ r.attempts = r.fragments

\* IPForward.sendDone gives the in6_iid back (Pool.put: refused when full).
SendDoneRunning(delivered) ==
    /\ state # "stopping"
    /\ LET r == Attempted(delivered)
           iid == Reported(r, delivered) /\ r.upper # "null"
       IN  /\ Release(IF iid THEN [r EXCEPT !.upper = "returned"] ELSE r)
           /\ iidPool' = IF iid /\ iidPool < NSends THEN iidPool + 1
                         ELSE iidPool
    /\ UNCHANGED control

\* The frame that SplitControl.stop waited for: nothing is reported.
SendDoneStopping ==
    /\ state = "stopping"
    /\ state' = "stopped" /\ radioOn' = FALSE
    /\ Release(info[HeadInfo])
    /\ UNCHANGED iidPool

SendDone ==
    /\ owed > 0
    /\ owed' = owed - 1
    /\ ipBusy' = FALSE
    /\ SendDoneStopping \/ \E d \in Delivery : SendDoneRunning(d)
    /\ Dequeue
    /\ posted' = TRUE

-----------------------------------------------------------------------------
(* SplitControl                                                            *)

\* Slip: the radio is stopped at once.
StopsAtOnce ==
    /\ state' = "stopped" /\ radioOn' = FALSE
    /\ UNCHANGED <<packets, pools, ipBusy, posted, owed>>

SplitControlStop ==
    /\ IF ipBusy
       THEN state' = "stopping" /\ UNCHANGED radioOn
       ELSE state' = "stopped" /\ radioOn' = FALSE
    /\ UNCHANGED <<packets, pools, ipBusy, posted, owed>>

\* SplitControl.start, up to RadioControl.startDone; a radio that is on
\* answers EALREADY, and nothing happens.
SplitControlStart ==
    /\ ~radioOn
    /\ radioOn' = TRUE
    /\ state' = "running"
    /\ ipBusy' = FALSE
    /\ UNCHANGED <<packets, pools, posted, owed>>

-----------------------------------------------------------------------------
Upper   == \E k \in Kinds, n \in 1 .. MaxFrags, m \in BOOLEAN : IPSend(k, n, m)
Control == ControlOps # "never" /\ (SplitControlStop \/ SplitControlStart)

Next == Upper \/ SendTask \/ SendDone \/ Control

Spec == Init /\ [][Next]_vars

-----------------------------------------------------------------------------
(* Properties.                                                             *)

\* Every variable has a value of its type; the pools stay within their sizes.
TypeOK ==
    /\ sendQueue \in Seq([info : Infos, kind : Kinds])
    /\ info \in [Infos -> [refcount : 0 .. NFragments, failed : BOOLEAN,
                           fragments : 0 .. NFragments,
                           attempts : 0 .. NFragments, upper : Uppers]]
    /\ infoPool \subseteq Infos
    /\ entryPool \in 0 .. NFragments /\ fragPool \in 0 .. NFragments
    /\ iidPool \in 0 .. NSends
    /\ ipBusy \in BOOLEAN
    /\ state \in {"running", "stopped", "stopping"} /\ radioOn \in BOOLEAN
    /\ posted \in BOOLEAN
    /\ owed \in {0, 1}

\* Every fragment buffer is either free or in the queue, however packets are
\* cut short, dropped by sendTask or completed by sendDone.
BuffersConserved ==
    /\ entryPool + Len(sendQueue) = NFragments
    /\ fragPool = entryPool

\* Where the queue holds fragments of a packet.
PlacesOf(i) == {j \in DOMAIN sendQueue : sendQueue[j].info = i}

\* The references of a send_info are the fragments of its packet that are
\* queued: it is freed with the last of them, and not before.
RefcountsExact ==
    \A i \in Infos : /\ info[i].refcount = Cardinality(PlacesOf(i))
                     /\ i \in infoPool <=> PlacesOf(i) = {}

\* sendDone takes the head of the queue for the fragment that was sent: there
\* is one whenever the layer below owes a sendDone, it has not failed yet, and
\* radioBusy says exactly that one is owed.
DoneFindsHead ==
    /\ ipBusy <=> owed = 1
    /\ owed = 1 => sendQueue # <<>> /\ ~info[HeadInfo].failed

\* An in6_iid is not given back twice (to do_send and through IPLower.sendDone,
\* or for two fragments of a packet).
Held == {i \in Infos \ infoPool : info[i].upper = "held"}
IidReturnedOnce == iidPool + Cardinality(Held) <= NSends

\* "if there's a packet in the radio, wait for it to exit before stopping"
StopWaits == [][radioOn /\ ~radioOn' => owed' = 0]_vars
=============================================================================
