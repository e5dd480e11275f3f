# BackIP: models, checks and proofs

BackIP is backpressure routing for IPv6 on TinyOS.  Each node keeps a LIFO
stack of packets, tells its neighbours how long it is, and sends each packet to
the neighbour with the steepest weighted difference.  It sits between blip's
6LoWPAN layer (IPDispatch) and the CC2420 link.  The repository is a TinyOS tree
with BackIP added in `src/tos/lib/net/backip`; this project is about that code,
the part of blip that drives it, and what the two rest on: the reassembly of
fragments, the link layer's retransmission, the scheduler, and the containers.
Paths below are relative to `src/tos/lib/net` unless they start with `src/`.

## 1. Inventory

| Component | State | Operations | Calls / is called by |
|---|---|---|---|
| Queueing layer, `backip/BackIPQueueingP.nc` | SendStack, the entry and message pools, current_send_qe, virtualQueueSize, sending_beacon, sending_data, radioBusy, suppress_sendDone, my_last_bp, statistics | Send.send, sendDataTask, signalDone, txRetryTimer.fired, SubSend.sendDone, StdControl | IPDispatch above, PacketLink below, beaconing beside |
| Neighbour table, `backip/BackIPBeaconingP.nc` | entries (address, backpressure, ETX, tx_time), curr_nb_ll_addr | UDPBeacon.recvfrom, updateNeighbour, updateETX, updateLinkRate | called by the queueing layer for every attempt and result |
| Beaconing, same file | BeaconTimer, no_neighbours, I_AM_ROOT | BeaconTimer.fired, recvfrom, drasticBackpressureChange, sendNull, StdControl | sends through UDP and IP, that is, through IPDispatch and the queueing layer again |
| IPDispatch, sending, `blip/IPDispatchP.nc` | SendQueue, three pools, send_info of each packet, radioBusy, state | IPLower.send, sendTask, sendDone, SplitControl | called by the forwarding engine; calls the queueing layer |
| IPDispatch, receiving, same file; `src/support/sdk/c/blip/lib6lowpan/lib6lowpan_frag.c` | reassembly cache: per entry source, tag, size, count, buffer, timeout state | receive, get_reconstruct, lowpan_recon_start, lowpan_recon_add, ExpireTimer | takes buffers from ip_malloc, delivers to the forwarding engine |
| Heap, `src/support/sdk/c/blip/lib6lowpan/ip_malloc.c` | regions with a header each | ip_malloc, ip_free | used by reassembly |
| Forwarding engine, `blip/IPForwardingEngineP.nc` | route table, in6_iid pool | IP.send, do_send, recv, sendDone, addRoute, delRoute, lookupRoute | default-route events to whoever wires them |
| Stack control, `blip/IPStackControlP.nc` | none of its own; m_valid_addr of IPAddressP | start, stop, IPAddress.changed | starts and stops routing and IPDispatch; routing only with a global address |
| Stack, `backip/StackC.nc`; pools, `src/tos/system/PoolP.nc`; scheduler, `src/tos/system/SchedulerBasicP.nc` | a ring; a ring of pointers; a linked list of task numbers | push/pop; get/put; post/run | |
| PacketLink, `src/tos/chips/cc2420/link/PacketLinkP.nc` | the message in work, its retries | send, sendDone, DelayTimer | below the queueing layer |
| UniqueSend and UniqueReceive, `src/tos/chips/cc2420/unique/` | the next frame number; a ring of sources and numbers | send; receive, hasSeen, insert | around PacketLink at both ends of a hop |
| BCP, `bcp/` | forwarding engine, routing engine, rate controller, delay queue | | the non-IP protocol BackIP comes from; not linked with it |
| UDP, TCP, ICMP, DHCP, ND, the test application, the rest of TinyOS | | | around the above |

What is hard here:

* **No threads, many handlers.**  Tasks, timer events and radio events run to
  completion, but a packet's life is spread over a dozen of them, and the state
  that links them is a handful of flags (`radioBusy`, `suppress_sendDone`,
  `sending_beacon`, `current_send_qe`) that describe *the* frame in the radio
  without naming it.
* **A flag that crosses a queue.**  The beacon mark is set when the beacon is
  given to UDP, and read when some fragment leaves IPDispatch's queue.
* **Early completion.**  For data the queueing layer reports sendDone from a
  task, long before the frame is sent; IPDispatch was written for a radio.
* **Fixed pools** everywhere, with the partial failures that go with them.
* **Nobody polls.**  Progress depends on every path ending in a post or a timer.
* **Integer averages** in `uint16_t`, on platforms whose `int` has 16 bits.
* **Entries that are not cleared.**  A reassembly entry that is given up keeps
  its source, tag, size and count; only timeout and buffer are reset.  A route
  slot keeps its prefix and key.
* **Little numbers that come round**: 8-bit frame numbers, 8-bit tags, a short
  history of frames, keys of routes.

What makes each part correct: the queueing layer loses no buffer, counts every
packet once, keeps the backpressure through discards, answers IPDispatch exactly
once for each packet, keeps a packet until it is acknowledged, and never stalls.
The table's averages stay in range, a result finds its entry, and a dead link is
left; the choice by rounded rates and 32-bit products is a sensible one.
IPDispatch conserves buffers and references and finds at the head of its queue
what was sent.  The node as a whole uses the queueing layer as that expects,
beacons while it is alone, and drains.  The reassembly cache owns each buffer
once, mixes no two senders, and empties.  A hop answers each frame once, and truthfully.
The containers are what their users take them for.  The hazards of
`PROJECT.json` give the line for each.

## 2. Modules

| Module | Models | Checked by |
|---|---|---|
| `BackIPQueueing` | the queueing layer; radio, table and upper layer are nondeterministic | `MCBackIPQueueing` |
| `NeighbourTable` | the table and the next-hop choice; the queue reduced to attempts and results | `MCNeighbourTable` |
| `IPDispatchSend` | IPDispatch's sending side with the in6_iid pool; the layer below is nondeterministic | `MCIPDispatchSend` |
| `BackIPNode` | the composition, with beaconing, stack control and the FIFO scheduler | `MCBackIPNode` |
| `Reassembly` | the receiving side: fragments in any order, lost, repeated, of packets that share tags | `MCReassembly` |
| `Hop` | one hop: UniqueSend and PacketLink at the sender, UniqueReceive at the receiver, loss of frames and acknowledgements | `MCHop` |
| `LinkService` | abstract: what a layer above expects of a link | refined by `Hop` |
| `Parts` | the containers below side by side, and what is promised of them | `MCParts` |
| `TaskList` | SchedulerBasicP's linked list | `MCParts` |
| `TaskQueue` | abstract: a FIFO queue without duplicates, the one of `BackIPNode` | refined by `TaskList` |
| `EntryStore` | the rings of StackC and PoolP, with the entries in hand | `MCParts` |
| `Store` | abstract: a double-ended sequence and a set, those of `BackIPQueueing` | refined by `EntryStore` |
| `IpMalloc` | the heap | `MCParts` |
| `ForwardingTable` | the route table and its default-route events | `MCParts` |
| `X_proofs` for `BackIPQueueing`, `NeighbourTable`, `IPDispatchSend`, `BackIPNode`, `Reassembly`, `Hop`, `IpMalloc`, `Parts` | theorems | tlapm |

**State.**  Variables carry the names of the code's variables.  The stack is a
sequence of entries, bottom first; a pool is the set, or the number, of its free
elements.  `air` is the frame the link layer is working on for us, `tasks` and
`posted` are the posted tasks, `owed` the sendDone events a layer still has to
signal.  `carried`, `tried`, `penalised` and `handed` are history or bounds, as
are `got`, `idle`, `last`, `orderly` and `out` of `Reassembly`, `copies`,
`since`, `sends` and `heard` of `Hop`, `fifo` of `TaskList`, `blocks` of
`IpMalloc` and `known` of `ForwardingTable`; each is marked where it is declared.

**Actions.**  One action is one handler, or one way through a handler: the task
sendDataTask is the disjunction of `TaskRadioBusy`, `TaskNothing`,
`TaskNoNeighbour`, `TaskGivesUp`, `TaskSendsData`, `TaskSendFails` and
`TaskSendsNull`, in the order of its early returns.  Send.send is `SendCommand`,
SubSend.sendDone is `SubSendDone`.  The discard that Send.send and sendDataTask
both begin with is in the operators `KeptStack`, `KeptQePool`, `KeptMsgPool`,
`KeptVirtual` and `KeptDropped`, the value of each variable after it.

**Environment.**  `Answers` says what SubSend.send may return: a link layer in
use always refuses (PacketLinkP's EBUSY); an idle one refuses if
`RadioMayRefuse` (CC2420CsmaP's FAIL when it is not started).  `ControlOps` says
whether StdControl (SplitControl in IPDispatchSend) may be used never, only
while no frame is out, or at any time.

**Composition.**  `BackIPNode` INSTANCEs the two components on shared variables:
an action is the conjunction of what each component does in one task or event,
and `owed` is the interface, raised by the Send.send that accepts and lowered by
the sendDone.  The `fifo` variable adds the scheduler: a task runs only at its
head; a handler's posts go to its end unless they wait already.  `Q!Spec` is the
abstract specification that the node refines (`ImplementsQueueing`), the identity
being the mapping.  It is not true by construction: the node takes
`Q!SendCommand` whenever sendTask calls, while a step of `Q!Spec` is `Q!Send`,
the same with no sendDone owed.  That is the one assumption of `BackIPQueueing`
about its user, and it is IPDispatch's own radioBusy that keeps to it.  That the node
refines `IPDispatchSend` as well is not stated as a property, because nothing
could break it: `IPDispatchSend` leaves the layer below open, and every action of
the node takes an action of it or leaves its variables alone (lemma
`DispatchStep`, on which `OneOwed` of section 4 rests).

**Stack control.**  IPStackControlP does not keep the stack and routing
together.  `routing` says whether RoutingControl, that is, StdControl of the
queueing layer and of the beaconing component, was started last; `state` and
`radioOn` belong to IPDispatch; `valid` is the global address.  startDone starts
routing only if there is an address (23-25), whether or not the radio came up
(`StackStart`); stop stops routing and IPDispatch (`StackStop`); and
IPAddress.changed (41-46) starts or stops routing alone (`AddressSet`,
`AddressRemoved`), also while the stack is stopped, and also again when it was
started already.  `bound` remembers that the beacon port was bound, which
stopping does not undo.  A node may therefore be up, alone and silent, when it
has no address: `AloneMeansBeaconing` is about nodes whose routing is started.

**Layers that meet in an abstract specification.**  `BackIPQueueing` uses its
stack as a sequence and its pools as sets; `EntryStore` shows that the rings are
that (`Store`).
`BackIPNode` uses a FIFO of tasks; `TaskList` shows that the
linked list is that (`TaskQueue`).  `BackIPQueueing` takes the link layer for
something that answers each frame once; `Hop` shows that PacketLink does
(`LinkService`).  `Reassembly` takes ip_malloc for a set of interchangeable
buffers; `IpMalloc` shows that blocks do not overlap.

**Reassembly.**  A fragment is the idx-th piece of a packet with a source, a tag
and a size.  Each branch of receive is an action: no entry is left
(`NoEntry`), a first fragment starts an entry (`Started`) or fails to
(`StartFails`), a later one is added (`Added`), completes the packet
(`Delivered`) or does not fit (`TooMuch`), and a first fragment meets an entry
that has begun (`FirstAgain`).  The code does not look at offsets, and the model
does not either: what a buffer holds is the ghost `got`.  Lengths count
fragments, a packet has two at least, and a first fragment is one unit: that it
fits its buffer is an assumption about senders (section 5).

**The choice of a neighbour.**  `Weight` is the product of the gradient and the
rate in the code's arithmetic, uint32_t stored in an int32_t (`ToInt32`).
Backpressures go up to `MaxBackpressure`, what _get_bp can return: a full
virtual queue over a full stack and the frame under send.  `TxTimes` gives for
each link the transmission times that may be measured on it.

**Parts.**  `Parts` EXTENDS `IpMalloc` and INSTANCEs the task list, the rings
and the route table.  They share no state, so `part` says which one a
behaviour exercises, and the state space is the sum of theirs.  Its constants are those of the
containers; `MCParts` adds only model values.

Definitions commented as "Slip" are deliberately wrong variants of the
definition that follows them; no specification uses them.  Each shows that some
property would notice that mistake (`mutants` in `PROJECT.json`).

## 3. Runs

| Run | Instance | Shows |
|---|---|---|
| `queueing_quiet` | 2 entries, 2 attempts, 4 sends, restarts between frames, refusals | types, buffers, accounting, sendDone, retransmission, order of discards |
| `queueing_busy` | refusals | **violated**: a refused beacon leaves radioBusy set; no completion will clear it (StdControl does) |
| `table` | 3 nodes, one dead, one lossless, one with transmission times of 15 s; 2 table entries, 1 packet, 1 attempt; own backpressures 5 and 65546; fair | averages in range, results find their entries, the choice is sensible also where a rate is rounded down to 0 (`ChosenWell`), the dead link is left |
| `table_etx16` | one neighbour, 16-bit int, MAX_RETX_ATTEMPTS 5 | **violated**: the ETX overflows |
| `dispatch_safe` | 3 send_infos, 4 fragments, packets of up to 3, stops at any time | buffers, references, head of queue, in6_iid |
| `node_safe` | 3 entries, 2 send_infos, 3 fragments, 3 frames; stops and starts of the stack, and of routing alone, between frames; refusals | the composition uses the queueing layer as it may be used; with routing started a lone node beacons; types, and every posted task waits once |
| `node_live` | the same without stops and refusals, fair | the node drains, and data on the stack always has something pending |
| `node_bypass` | 2 entries | **violated**: a beacon is queued as data |
| `node_iid` | 2 entries, 6 frames | **violated**: an in6_iid is lost for good |
| `receive` | 3 packets, two with the same source and tag and two with the same tag; 2 entries, 2 buffers, 7 frames; fair | buffers owned once, holding what is counted and fragments of one source and tag alone; one collector for a packet; packets that come once and in order delivered whole; nothing expired early; the cache drains |
| `parts` | 4 tasks; 4 entries on a stack of 3; a heap of 36 bytes, requests of 1, 4, 6 and 12; 3 routes over 2 bits, keys of 2 bits, 5 of them given out so that they wrap | the list is a queue, the rings are a sequence and a set, blocks do not overlap, free space is rejoined, packets take the longest match, no route is lost or doubled, keys are unique |
| `link` | 2 attempts, history of 3, 3 other nodes, 2 frame numbers, 3 + 3 frames; fair | PacketLink implements `LinkService`; SUCCESS is truthful; copies are dropped; every frame is answered |

A violated run checks one statement of a comment of the code; the finding in
`PROJECT.json` quotes it and says what the code does instead.  The following
further configurations are kept beside the runs.  Two pass:

| Configuration | Module | Property | What TLC shows |
|---|---|---|---|
| `queueing_live.cfg` | `MCBackIPQueueing` | `BacklogDrains`, `NoStall` | the queueing layer alone, under a fair link, empties its stack (`node_live` shows the same of the node) |
| `parts_supporting.cfg` | `MCParts` | `Supporting` | the facts the proofs rest on (`Represents`, `TwoRings`, `RegionsTile`, `InUseHeld`, `KeysUnique`, `Sorted`) |

The others reproduce counterexamples; TLC finds each of them violated in
seconds:

| Configuration | Module | Property | What TLC shows |
|---|---|---|---|
| `queueing_restart.cfg` | `MCBackIPQueueing` | `SendDoneMatched` | StdControl.start clears suppress_sendDone while a data frame is in the radio; its sendDone goes up a second time |
| `queueing_undersend.cfg` | `MCBackIPQueueing` | `CurIsUnderSend` | StdControl.stop clears radioBusy while a data frame is in the radio; sendDataTask then overwrites current_send_qe |
| `queueing_advert.cfg` | `MCBackIPQueueing` | `QuietMeansAdvertised` | a beacon that met a busy radio is refused, and nothing schedules another, though the backpressure has drifted |
| `queueing_stall.cfg` | `MCBackIPQueueing` | `NoStall` | after a restart nothing looks at the packets that were on the stack, until the next send |
| `table_gradient.cfg` | `MCNeighbourTable` | `ChosenIsDownhill` | with a transmission time above 10 s the rate is 0, hence the weight, and the link is chosen uphill |
| `table_penalty.cfg` | `MCNeighbourTable` | `PenaltyDeserved` | the penalty for failed attempts goes to a neighbour that was never tried |
| `node_null.cfg` | `MCBackIPNode` | `NullIsGenerated` | blip refuses the null packet after the virtual backlog was reduced for it |
| `node_stop.cfg` | `MCBackIPNode` | `StopWaits` | IPDispatch, which got its sendDone early, stops the radio while the data frame is in it |
| `receive_nobuf.cfg` | `MCReassembly` | `ActiveHasBuffer` | a later fragment whose first one was lost is copied to NULL + r_bytes_rcvd, in an entry that is T_ACTIVE without a buffer |
| `receive_failed.cfg` | `MCReassembly` | `FailedDropped` | an entry is marked T_FAILED1 with the source of an earlier packet, so that it drops nothing |
| `receive_header.cfg` | `MCReassembly` | `BuffersOwnedOnce` | a header that does not unpack leaves its buffer with an entry that counts as unused (`HeadersUnpack = FALSE`) |
| `routes_update.cfg` | `MCParts` | `UpdateTakesEffect` | addRoute looks at the first match only: a longer prefix hides the route to be updated, and a duplicate, which no lookup reaches, is inserted below it |
| `routes_events.cfg` | `MCParts` | `EventsTell` | a default route that is removed before the task has run is announced afterwards |
| `link_wrap.cfg` | `MCHop` | `AlwaysReceived` | when the frame numbers have come round, a new frame is taken for a copy, acknowledged and dropped |
| `link_history.cfg` | `MCHop` | `HistoryDeep` | a history of three places forgets a source after two frames of others |

**Bounds, and why they suffice.**  `MaxSends` bounds `stat_sent_total`; it is
larger than the stack, so the stack fills, overflows and empties again several
times.  `MaxFrames` bounds what is handed to blip; null packets are bounded by
the discards.  In the runs of the node `MaxFrames` alone ends a behaviour:
`MaxSends` is 65000, only so large that stat_sent_total does not wrap, and no
state comes near it.  Two entries are enough for a bottom and a top that differ; three
separate "the oldest", "the newest" and "the one under send".  `MaxRetx` 1 or 2
makes a packet exhaust its attempts quickly; the code tests only equality with
the limit.  In the table two entries and three nodes make it overflow;
nothing bounds the number of results, the averages being finite by themselves.
The slow link's average climbs from 1 ms to 15 s through about ninety values,
over which its rate falls from 10000 to 1 and to 0; 65546 is the largest
backpressure a node can have, and with 5 the gradient of a dead link comes down
to zero.  In
IPDispatch four entries and packets of three fragments make packets fail
midway, the reason for most of its states (a packet of n fragments asks for
n + 1 entries).  The code's values (10 entries, 5 attempts, 12 fragments, 3 sends, 48
neighbours) differ in size only, and the proofs cover them for the properties
they state.  TLC's symmetry is used only for buffers that are interchangeable
and only in runs without liveness; table entries are not symmetric, because the
first of equal weights is taken.

In `receive` three packets are what is needed for two that share source and tag
(the tag was used again) beside one of another source with the same tag; with two
entries and two buffers the cache and the heap both run out; seven frames are the
fragments of all three packets.  Two and three fragments to a packet separate a first,
a middle and a last one.  In `link` `IdSize = 2` stands for the 256 values of
uint8_t, so that three frames make the numbers come round; the theorems are
about any number.  Both sides of a hop see bounded traffic, after which a model
has nothing to do, hence its CHECK_DEADLOCK FALSE.  In `parts` the heap holds
three blocks of the middle size, so that every pattern of used and free
neighbours occurs around a block that is freed; keys range over three values,
so that five additions wrap them; four tasks make a list with a middle.

The runs stop and start only between frames (`ControlOps = "quiet"`;
`dispatch_safe` does so at any time).  A restart while a data frame is in the
radio is a hazard the code does not withstand: `queueing_restart.cfg` and
`queueing_undersend.cfg` use `"anytime"`.  The theorems of `BackIPNode_proofs`,
apart from `NodeNeverStalls`, hold for it all the same.

**Fairness, and why the code justifies it.**  A posted task runs (taskLoop runs
the queue for ever), a running timer fires, and the link layer answers every
frame it accepts (PacketLinkP counts its retries).  These are weak fairness.
Two strong conditions are about the network, not the code: if a task that needs
a neighbour runs again and again, some neighbour is good again and again; and a
frame that is retried for ever is acknowledged again and again.  Without them
no backpressure protocol makes progress.  No fairness is assumed of the upper
layer, of beacons that arrive (apart from the first, in `node_live`), or of
StdControl.  `table` assumes only that attempts go on and get answers.
`receive` assumes the periodic ExpireTimer, nothing of fragments.  `link` assumes
that the radio ends each attempt and DelayTimer fires, and, as a strong condition
on the layer below, that CC2420CsmaP does not refuse for ever: while the radio
is off, PacketLink's task posts itself without end.

## 4. Proofs

All theorems hold for every number of buffers, retry limit and threshold
that the named assumptions allow.

**`BackIPQueueing_proofs`** assumes that StdControl is not used while a frame is
out (`ControlOps # "anytime"`); `queueing_restart.cfg` and
`queueing_undersend.cfg` show that without this the theorems are false.  The inductive invariant `IInv` is the
conjunction of the types with `EachEntryOnce`, `MessagesConserved`,
`Accounting`, `BackpressurePreserved`, `FlagsMatchFrame` and `SendDoneMatched`.
They need one another: that a restored entry finds room on the stack follows
from `EachEntryOnce` and `MessagesConserved`; that the completion of a frame
takes the right branch from `FlagsMatchFrame`; that the counters do not wrap,
hence `TypeOK`, from the two accounting laws, which give the virtual queue as
discards less nulls.  From it: `TypeCorrect`, `BuffersConserved`,
`PoolsInStep`, `MessagesCounted`, `BackpressureSurvivesDrops`, `CompletionsMatch`
and, for the action properties `HeldUntilAcked` and `OldestDiscardedFirst`,
`PacketsHeldUntilAcked` and `OldestLeavesFirst`.  `HeldUntilAcked` says of every
handler that an entry leaves the node acknowledged or as the oldest of a full
stack, and counted; that a frame which is not acknowledged is on top again; and
that a run of sendDataTask which hands over no frame, because the radio is busy,
no neighbour is good, the link layer refuses or the attempts are used up, leaves
the packet it looked at on top.  Both properties need that the entries on the
stack differ (`EachEntryOnce`), or the top could be the bottom too.  `NeverStalls` (`NoStall`) is for a
node that is not stopped (StdControl.stop cancels the retry timer, and
`queueing_stall.cfg` shows what follows), but with a link layer that refuses
frames, which `node_live` leaves out because of `queueing_busy`.  A stack of one entry is excluded (`QueueAssumption`): there a
discard in sendDataTask would leave nothing to send.

**`NeighbourTable_proofs`** assumes an int of 32 bits (`table_etx16` shows why).
Its invariant adds to the ranges of the averages that a frame at the link layer
has been counted (`tx[air] >= 1`), which keeps the ETX of a delivered packet at
one transmission or more.  `EtxStaysInRange`, `LinkResultsSafe`,
`RateIsDefined` and `ChoiceIsWell` hold for any table size, retry limit and
sequence of results.  `ChoiceIsWell` (`ChosenWell`) is for every backpressure up
to `MaxBackpressure`.  First the product is in range: a gradient is no more than
65546 in size and, from below, lacks at most the ETX cost, and the rate is no
more than 10000, so that no weight wraps (`ProductRange`).  Then the order of
two weights is led back to that of gradients and transmission times: a quotient
falls with its divisor (`QuotientOrder`), a product of a larger gradient and a
larger rate is larger (`ProductOrder`), and a rate that is not rounded to zero
is at least one.  The first entry of greatest weight exists by the least number
principle on the entries (`SomeBest`).  Of neighbours slower than ten seconds
nothing holds: `table_gradient.cfg` shows one chosen uphill.

**`IPDispatchSend_proofs`** needs no hypothesis on StdControl or on the layer
below: the stack may be stopped at any moment and any Send.send may be refused.
Its invariant is `BuffersConserved`, `RefcountsExact`, `IidReturnedOnce` and
`DoneFindsHead` with two facts that make them inductive.  `Progress`: an attempt
at a fragment uses up a reference, so the last attempt of a packet is that of
its last fragment in the queue; and an in6_iid that was given back early belongs
to a packet that failed, of which sendTask sends nothing any more.  Without it
sendDone might return an in6_iid twice.  `RadioOff`: no sendDone is due while
the radio is off, so the restart, which clears radioBusy, forgets none.  The
lemmas about `Places` count the fragments of a packet in a queue before and
after a fragment is queued or taken off.

**`BackIPNode_proofs`** is for any sizes.  `NodeImplementsQueueing` needs the
invariant `OneOwed`: radioBusy of IPDispatch is set exactly while a sendDone is
owed, and sendTask looks at it before it calls Send.send.  `AloneNodeBeacons`:
while routing is started and the node is alone, each handler that uses up the
one-shot BeaconTimer starts it again, each start of routing, with the stack or
with an address, starts it, and what stops it stops routing (`RestartsRouting`,
`TimerKept`, `StillAlone`).  `NodeTypes` is about the scheduler: a
handler posts some of three tasks, posting twice is posting once, and the task
that runs was at the head and nowhere else, so that every posted task waits
exactly once and no other task does (lemmas `ScheduleProperties` on the order of
posts, and `PostTypes`).  `NodeNeverStalls` does not follow from `NeverStalls` of
the component, for `NoStall` there says nothing of the path of a null packet
through IPDispatch; it is proved of each action of the node, for a node that
is started once (`ControlOps = "never"`; `queueing_stall.cfg` shows the other
case) with a link layer that may refuse frames.  The component theorems are about every
behaviour of the component's specification, hence, with the component's
assumptions, about the component in the node too.

**`Reassembly_proofs`** assumes that headers unpack (`receive_header.cfg` shows
why) and, in `ReassemblyAssumption`, that a packet has two fragments at least.
The inductive invariant is `Typed`, which says what an entry may hold in each
timeout state (a collecting entry has counted no more than its size; a buffer
holds no more than was asked for and, in a collecting entry, as many fragments as
were counted), with `BuffersOwnedOnce` and `OneCollector`.  They need one
another: that a buffer which is given back is nobody else's follows from
`BuffersOwnedOnce`, that get_reconstruct finds the only entry of a packet from
`OneCollector`, and that what is counted was stored from both with `Typed`.  The
theorems are for any set of packets, cache and heap, and for fragments in any
order.  `ReassemblyHoldsCount` is about entries that have a buffer: it says
nothing of an entry without one, to which the code copies all the same
(`receive_nobuf.cfg`), so it is no claim that memory is never overrun.

`ReassemblyIntact` needs more, because the code never looks at offsets.
`ContentsOK`: a buffer that is being filled belongs to the packet of its first
fragment and is not full, and if the fragments of that source and tag came in
order it holds all of them up to the last that came.  This is not inductive
alone: a failed entry of the same source and tag hides the one behind it, whose
contents then lag behind.  `BlockersOutlive` says that ExpireTimer does not give
up the failed entry first: as long as the hidden entry is T_ACTIVE, the one that
hides it is T_FAILED1, so both age together and the hidden one expires.
That a delivered packet is one whole packet is thus proved of sources and tags
all of whose fragments came once and in order; of others, that one buffer holds
fragments of one source and tag and is delivered at the length its first fragment
gave.  More does not hold, for a repeated fragment is counted and stored twice.  A
delivery from an entry without a buffer is not counted as one (`out` is empty).

**`Hop_proofs`** needs no assumption but `HopAssumption` (a history of two places
or more; RECEIVE_HISTORY_SIZE is 20 unless defined otherwise).  The invariant
has six parts.  `OneOf` and `Counts`: a frame in work has exactly one thing
pending, the radio, the timer or the task.  `Receives` has the types of the rest.
`SourcesOnce`: no source has two places in the history.  `Numbers`: until the
numbers have come round, the history holds no number that is still to be used.
`Remembered`: a frame that was passed on stays in the history until two frames of
others have come, at first in a place other than the next one to be written.
`HopAckedIsReceived`, `HopCopiesDropped` and the refinement
`HopImplementsService` follow.

**`Parts_proofs`** is about `PartsSpec`, for any sizes (`PartsAssumption`: pool,
stack, table and prefixes have one place or more, which nesC's array sizes
imply; a key, an int, has more values than the table has slots, which are 20).

* `ListImplementsQueue`: the list `Represents` the ghost `fifo` (head and tail
  are its ends, each task's successor is the next, and a task outside has none).
  From it isWaiting tells exactly the tasks in the queue, and each operation is
  one of `TaskQueue`.
* `RingsImplementStore`: under the mapping of `EntryStore` (`Contents`, `Free`)
  each operation of the two rings is one of `Store`.  `Unrolled` reads a ring as
  the sequence that begins at its first cell; lemmas on it say what writing
  behind the last cell or in front of the first and leaving out either end do to
  that sequence, also where the ring wraps.  The invariant `RingInv` is
  `TwoRings`, said of the unrolled rings: top is the cell of the last entry, or that
  of bottom if there is none, and pool, stack and hand share no entry and
  together have `PoolSize` of them.  The count is what shows that Pool.put
  never meets a full pool, where it would drop the entry.
* `RoutesLongestMatch` and `RoutesOthersStay`: the table is `Sorted`: the valid
  entries come first, longer prefixes before shorter ones.  Then the first
  match is the longest, only the last slot can be overwritten by moving entries
  down, and it is free whenever that happens.
* `RoutesKeysUnique`: alloc_key's search ends on a key no route has, and no move
  leaves a route, hence its key, in two slots.  As many keys in a row as there are slots,
  and one more, are different also where they wrap (`KeyAfterFacts`), and cannot
  all be in the table (`SomeKeyFree`, by `FS_PigeonHole`).  `FreeKeyFacts` then
  shows that the loop, as a recursive function of its rounds, stops at the first
  of them that is free: that such a function exists because it can be written
  down, that it is the only one by the least round at which another would
  differ.

**`IpMalloc_proofs`** assumes that a request plus two headers does not overflow
16 bits (`HeapAssumption`).  The invariant: the headers lead through the heap
without gap or overlap (`RegionsTile`), no two free regions touch, a region is
in use exactly while its block is held, and a block ends within its region.

**Model-checked only.**  Every invariant, action property and refinement that a
passing run checks is proved, for the constants its theorem names, but liveness
is not: `DeadLinkAbandoned`,
`NodeDrains`, `CacheDrains` and `Answered`, like `BacklogDrains` of
`queueing_live.cfg`, rest on fairness, which tlapm cannot reason about.

## 5. What is left out

* Bytes: headers, addresses written into a frame, checksums, the contents of
  beacons and the hop-by-hop option (nothing reads it back into the table).
* What `-DDELAY` adds (apps/UDP_BCP_BLIP's Makefile sets it; delays written
  into the payload, which no decision of the modelled code reads, and a UDP
  checksum that is no longer enforced because of them), `stat_recvd_total` and
  `stat_dropped_fail`, which are only counted and reported.
* Wrap-around of the 16-bit counters: the bounds stay below 2^16.  A node that
  discards 65536 packets without sending a null packet would see
  virtualQueueSize wrap.
* The window between SplitControl.start and RadioControl.startDone, and errors
  of lowpan_frag_get.  Address resolution in IPNeighborDiscoveryP is taken to
  succeed.
* Shared use of the radio by components other than BackIP.
* Send.cancel of PacketLink and UniqueSend, which BackIP never calls, and the
  random first frame number.
* A first fragment that is longer than its datagram.  lowpan_recon_start copies it
  without comparing it with r_size (`lib6lowpan_frag.c` 45, `lib6lowpan.c` 844).
  lowpan_frag_get (`lib6lowpan_frag.c` 132-151) makes a first fragment only of a
  packet that has payload left for another, so blip's own frames keep to the
  assumption; no property here speaks of frames that no sender makes.
* Two senders whose addresses hash to the same r_source_key (`Reassembly`) or
  to the same key of getSourceKey (`Hop`): sources are told apart.
* A StdControl.start of the beaconing component that fails half way: its port is
  taken to be free, and the default route to be accepted.
* Packets of a single frame in reassembly: they use an entry on the call stack
  and return their buffer in the same call.
* IP.recv of the forwarding engine (hop limit, routing header, forward or
  deliver) reaches the node as one more packet handed to blip.
* A network of several nodes: `BackIPNode` is one node, whose neighbours are the
  beacons and acknowledgements it may get, and `Hop` is one hop.
* BCP (`bcp/`), the non-IP protocol BackIP was derived from.  No BackIP binary
  contains it.
* UDP, ICMP, DHCP, neighbour discovery, TCP and the test application, which
  reach the modelled parts as packets handed to blip and as received frames.
* The rest of the repository, nearly all of its lines: TinyOS itself, its
  drivers for a dozen chips, register definitions, the simulator's generated
  wrappers.  BackIP uses none of it but through the parts named above, so the
  share of the tree that the models stand for stays small whatever is added.

Observations that are not findings: a packet of n fragments needs n + 1 free
entries in IPDispatch; fragments that are queued while the stack is stopped stay
until the next send after the restart, because the restart posts nothing;
sendDataTask does reach its "This is impossible!" message (the retry timer fires
after a completion has emptied the stack), harmlessly.  `DeadLinkAbandoned` is
checked for a dead and a lossless link that advertise alike and are equally fast
(the third, lossy one is slow): if the lossless one is slower it fails, because a penalty that goes to the wrong neighbour
(`table_penalty.cfg`) can keep a slower good link behind the dead one for ever.

`BackIPQueueing` and `Reassembly` disagree on order.  The stack gives up its
newest entry first, so fragments of one packet that wait on it together leave in
reverse order; the cache drops a later fragment that has no entry yet and fills
its buffer in the order of arrival.  A packet of several fragments therefore
arrives only if each fragment leaves before the next is pushed; `Intact` is about
packets for which this is so.

## 6. Plan

1. (done) `BackIPQueueing`, `NeighbourTable`, `IPDispatchSend`, `BackIPNode`,
   and the proofs of section 4.
2. (done) The containers as refinements: `EntryStore`, `TaskList`; the heap and
   the route table.
3. (done) `Hop`: PacketLink's retry loop, with the numbers that tell copies.
4. (done) `Reassembly`, with its timeouts.
5. `BackIPNetwork`: several nodes with the stack of `BackIPQueueing`, hops of
   `LinkService` and the cache of `Reassembly`: which packets of several
   fragments come together across a node that stacks them, and what stale
   backpressures do to routes.
6. BCP: forwarding engine, routing engine, send queue, rate controller and
   delay queue.
7. (done) Proofs: `EntryStore` implements `Store`, `LongestMatch` and
   `OthersStay`, `KeysUnique`, `Intact`, the types of the node and its `NoStall`.
8. Proofs: that a refused or failed fragment leaves the rest of a packet as
   `IPDispatchSend` promises its user, as an abstract specification of IP.send;
   that the table of `NeighbourTable` implements a choice among beacons.
