----------------------------- MODULE Reassembly -----------------------------
(***************************************************************************)
(* The receiving side of blip's IPDispatchP: the cache in which packets    *)
(* are put together from their fragments, with lowpan_recon_start and      *)
(* lowpan_recon_add of lib6lowpan.                                         *)
(*                                                                         *)
(* A fragment is a frame [pkt, idx]: the idx-th piece of packet pkt, whose *)
(* source, tag and size are in Packets.  Lengths are counted in fragments. *)
(* Any fragment may arrive at any time: BackIP sends from a stack, the     *)
(* radio loses and repeats frames, and a sender uses its 256 tags again.   *)
(*                                                                         *)
(* The code never looks at the offset of a fragment.  An entry that is     *)
(* given up keeps its fields; only r_timeout and r_buf are reset.          *)
(*                                                                         *)
(* Left out: packets of one frame, which use an entry of their own on the  *)
(* call stack and give their buffer back before they return; link          *)
(* metadata; frames without a 6lowpan header, which change nothing; two    *)
(* senders whose addresses hash to the same r_source_key.                  *)
(*                                                                         *)
(* Assumed of the environment: a first fragment is shorter than its        *)
(* datagram.  lowpan_recon_start does not compare the two when it fills    *)
(* the buffer (lib6lowpan_frag.c 45, lib6lowpan.c 844); blip's senders     *)
(* make a first fragment only of a packet that has payload left over for   *)
(* another one (lowpan_frag_get, 132-151).                                 *)
(***************************************************************************)
EXTENDS Integers, FiniteSets, SequencesExt

CONSTANTS
    Packets,         \* the packets, by number: their src, tag and size
    NEntries,        \* N_RECONSTRUCTIONS
    Buffers,         \* what the heap can hold
    NoBuf,           \* NULL
    NoKey,           \* source and tag of an entry that was never used
    HeadersUnpack,   \* can all headers be unpacked?
    MaxFrames        \* bound on the number of frames that arrive

Entries == 1 .. NEntries
Frames  ==
    UNION {[pkt : {p}, idx : 1 .. Packets[p].size] : p \in DOMAIN Packets}

Src(f)  == Packets[f.pkt].src
Tag(f)  == Packets[f.pkt].tag
Size(f) == Packets[f.pkt].size

\* A packet comes in two fragments at least: the assumption above.
ASSUME ReassemblyAssumption ==
    /\ NEntries \in Nat \ {0} /\ MaxFrames \in Nat
    /\ NoBuf \notin Buffers
    /\ HeadersUnpack \in BOOLEAN
    /\ \A p \in DOMAIN Packets :
         /\ Packets[p].size \in Nat \ {0, 1}
         /\ Packets[p].src # NoKey /\ Packets[p].tag # NoKey

VARIABLES
    recon,           \* recon_data, the entries of recon_cache, each with two
                     \* ghosts: what its buffer holds (got) and how often the
                     \* timer fired since its last fragment (idle)
    used,            \* the buffers that ip_malloc has given out
    frames,          \* number of frames that have arrived
    last,            \* history: the last frame of each source and tag
    orderly,         \* history: the sources and tags all of whose frames came,
                     \* once and in order
    out              \* what the last step delivered from a buffer

vars == <<recon, used, frames, last, orderly, out>>

\* reconstruct_clear
Cleared == [timeout |-> "UNUSED", key |-> NoKey, tag |-> NoKey, size |-> 0,
            rcvd |-> 0, buf |-> NoBuf, got |-> <<>>, idle |-> 0]

NoFrame == [pkt |-> 0, idx |-> 0]
Pair(f) == <<Src(f), Tag(f)>>
Pairs   == {Pair(f) : f \in Frames}

Init ==
    /\ recon = [e \in Entries |-> Cleared]
    /\ used = {}
    /\ frames = 0
    /\ last = [k \in Pairs |-> NoFrame]
    /\ orderly = Pairs
    /\ out = <<>>

-----------------------------------------------------------------------------
(* get_reconstruct                                                         *)

Failed(e)     == recon[e].timeout \in {"FAILED1", "FAILED2"}
Collecting(e) == recon[e].timeout \in {"ACTIVE", "ZOMBIE"}
Unused(e)     == recon[e].timeout = "UNUSED"

\* Slip: fragments are told apart by their tags alone.
MatchesTag(e, f) == ~Unused(e) /\ recon[e].tag = Tag(f)

Matches(e, f) ==
    ~Unused(e) /\ recon[e].tag = Tag(f) /\ recon[e].key = Src(f)

\* Slip: an entry in use that matches is taken only while no earlier entry is
\* free.
FirstOrFree(e, f) ==
    \/ Collecting(e) /\ Matches(e, f) /\ \A d \in 1 .. e - 1 : ~Unused(d)
    \/ Unused(e) /\ \A d \in 1 .. e - 1 : ~Unused(d)

\* The first entry in use that matches decides: one that has failed drops the
\* fragment.  Without a match the last unused entry is taken.
Chosen(e, f) ==
    \/ /\ Collecting(e) /\ Matches(e, f)
       /\ \A d \in 1 .. e - 1 : ~Matches(d, f)
    \/ /\ Unused(e) /\ \A d \in Entries : ~Matches(d, f)
       /\ \A d \in e + 1 .. NEntries : ~Unused(d)

-----------------------------------------------------------------------------
(* Ieee154Receive.receive                                                  *)

\* Is f the fragment that comes after g?
Follows(f, g) ==
    IF g = NoFrame \/ g.idx = Size(g) THEN f.idx = 1
    ELSE f = [g EXCEPT !.idx = @ + 1]

Arrives(f) ==
    /\ frames < MaxFrames
    /\ frames' = frames + 1
    /\ last' = [last EXCEPT ![Pair(f)] = f]
    /\ orderly' = IF Follows(f, last[Pair(f)]) THEN orderly
                  ELSE orderly \ {Pair(f)}

\* No entry for it: dropped.
NoEntry(f) ==
    /\ Arrives(f)
    /\ ~ \E e \in Entries : Chosen(e, f)
    /\ out' = <<>>
    /\ UNCHANGED <<recon, used>>

\* Slip: a first fragment that comes again does not count as a reception.
NotRefreshed(e, f) ==
    /\ Arrives(f) /\ f.idx = 1
    /\ Chosen(e, f) /\ recon[e].buf # NoBuf
    /\ out' = <<>>
    /\ recon' = [recon EXCEPT ![e].idle = 0]
    /\ UNCHANGED used

\* The first fragment again: refused, but get_reconstruct has refreshed the
\* entry.
FirstAgain(e, f) ==
    /\ Arrives(f) /\ f.idx = 1
    /\ Chosen(e, f) /\ recon[e].buf # NoBuf
    /\ out' = <<>>
    /\ recon' = [recon EXCEPT ![e].timeout = "ACTIVE", ![e].idle = 0]
    /\ UNCHANGED used

\* r_buf after lowpan_recon_start failed: NULL without a buffer (other users of
\* the heap may have taken what is free); a pointer to a buffer that is free
\* again when the headers cannot be unpacked.
LeftInBuf == IF HeadersUnpack THEN {NoBuf} ELSE {NoBuf} \cup (Buffers \ used)

\* The tag and the size are written before the buffer is asked for; the source
\* and r_bytes_rcvd only when all went well.
StartFails(e, f) ==
    /\ Arrives(f) /\ f.idx = 1
    /\ Chosen(e, f) /\ recon[e].buf = NoBuf
    /\ out' = <<>>
    /\ \E b \in LeftInBuf :
         recon' = [recon EXCEPT ![e].timeout = "FAILED1", ![e].tag = Tag(f),
                                ![e].size = Size(f), ![e].buf = b,
                                ![e].idle = 0]
    /\ UNCHANGED used

\* The first fragment is unpacked into a buffer of the size of the packet, into
\* which it fits by assumption.
Started(e, f) ==
    /\ Arrives(f) /\ f.idx = 1
    /\ Chosen(e, f) /\ recon[e].buf = NoBuf
    /\ out' = <<>>
    /\ \E b \in Buffers \ used :
         /\ used' = used \cup {b}
         /\ recon' = [recon EXCEPT ![e] =
              [timeout |-> "ACTIVE", key |-> Src(f), tag |-> Tag(f),
               size |-> Size(f), rcvd |-> 1, buf |-> b, got |-> <<f>>,
               idle |-> 0]]

\* Slip: there is room for a fragment more than there is.
RoomForMore(e) == recon[e].rcvd <= recon[e].size

\* lowpan_recon_add.  An entry without a buffer is not refused either: what is
\* left of its size and count decides.
Room(e) == recon[e].rcvd + 1 <= recon[e].size

TooMuch(e, f) ==
    /\ Arrives(f) /\ f.idx > 1
    /\ Chosen(e, f) /\ ~Room(e)
    /\ out' = <<>>
    /\ recon' = [recon EXCEPT ![e].timeout = "FAILED1", ![e].idle = 0]
    /\ UNCHANGED used

\* Slip: the fragment is written but not counted.
NotCounted(e, f) ==
    [recon[e] EXCEPT !.timeout = "ACTIVE", !.key = Src(f), !.tag = Tag(f),
                     !.idle = 0,
                     !.got = IF recon[e].buf = NoBuf THEN @ ELSE Append(@, f)]

\* The entry with fragment f at the end of its buffer, if it has one.
Grown(e, f) ==
    [recon[e] EXCEPT !.timeout = "ACTIVE", !.key = Src(f), !.tag = Tag(f),
                     !.rcvd = @ + 1, !.idle = 0,
                     !.got = IF recon[e].buf = NoBuf THEN @ ELSE Append(@, f)]

Complete(e) == recon[e].size = recon[e].rcvd + 1

Added(e, f) ==
    /\ Arrives(f) /\ f.idx > 1
    /\ Chosen(e, f) /\ Room(e) /\ ~Complete(e)
    /\ out' = <<>>
    /\ recon' = [recon EXCEPT ![e] = Grown(e, f)]
    /\ UNCHANGED used

\* r_timeout and r_buf reset; the other fields keep their values.
GivenUp(r) ==
    [r EXCEPT !.timeout = "UNUSED", !.buf = NoBuf, !.got = <<>>, !.idle = 0]

\* Slip: the buffer of a packet that was delivered is kept.
DeliveredNotFreed(e, f) ==
    /\ Arrives(f) /\ f.idx > 1
    /\ Chosen(e, f) /\ Room(e) /\ Complete(e)
    /\ out' = Grown(e, f).got
    /\ recon' = [recon EXCEPT ![e] = GivenUp(Grown(e, f))]
    /\ UNCHANGED used

\* deliver
Delivered(e, f) ==
    /\ Arrives(f) /\ f.idx > 1
    /\ Chosen(e, f) /\ Room(e) /\ Complete(e)
    /\ out' = Grown(e, f).got
    /\ recon' = [recon EXCEPT ![e] = GivenUp(Grown(e, f))]
    /\ used' = used \ {recon[e].buf}

Receive(f) ==
    \/ NoEntry(f)
    \/ \E e \in Entries :
         \/ FirstAgain(e, f) \/ StartFails(e, f) \/ Started(e, f)
         \/ TooMuch(e, f) \/ Added(e, f) \/ Delivered(e, f)

-----------------------------------------------------------------------------
(* ExpireTimer.fired                                                       *)

Later(r, t) == [r EXCEPT !.timeout = t, !.idle = @ + 1]

\* Slip: a failed entry stays until the node restarts.
FailedStays(r) ==
    CASE r.timeout = "ACTIVE" -> Later(r, "ZOMBIE")
      [] r.timeout = "ZOMBIE" -> GivenUp(r)
      [] OTHER                -> r

\* reconstruct_age
Aged(r) ==
    CASE r.timeout = "ACTIVE"  -> Later(r, "ZOMBIE")
      [] r.timeout = "FAILED1" -> Later(r, "FAILED2")
      [] r.timeout \in {"ZOMBIE", "FAILED2"} -> GivenUp(r)
      [] OTHER -> r

Expired(e) == recon[e].timeout \in {"ZOMBIE", "FAILED2"}

ExpireTimerFired ==
    /\ recon' = [e \in Entries |-> Aged(recon[e])]
    /\ used' = used \ {recon[e].buf : e \in {d \in Entries : Expired(d)}}
    /\ out' = <<>>
    /\ UNCHANGED <<frames, last, orderly>>

-----------------------------------------------------------------------------
Next == ExpireTimerFired \/ \E f \in Frames : Receive(f)

Spec == Init /\ [][Next]_vars

\* The timer is periodic.
FairSpec == Spec /\ WF_vars(ExpireTimerFired)

-----------------------------------------------------------------------------
(* Properties.                                                             *)

TimeoutStates == {"FAILED1", "FAILED2", "UNUSED", "ACTIVE", "ZOMBIE"}
Keys  == {Src(f) : f \in Frames} \cup {NoKey}
Tags  == {Tag(f) : f \in Frames} \cup {NoKey}

EntryType ==
    [timeout : TimeoutStates, key : Keys, tag : Tags, size : Nat, rcvd : Nat,
     buf : Buffers \cup {NoBuf}, got : Seq(Frames), idle : {0, 1}]

\* Every variable has a value of its type, the count of a packet in work
\* being within its size.
TypeOK ==
    /\ recon \in [Entries -> EntryType]
    /\ \A e \in Entries : Collecting(e) => recon[e].rcvd <= recon[e].size
    /\ used \subseteq Buffers
    /\ frames \in 0 .. MaxFrames
    /\ out \in Seq(Frames)

HasBuffer(e) == recon[e].buf # NoBuf

\* "make sure we don't get wedged with no free buffers": as long as all headers
\* can be unpacked, each buffer taken from the heap is in exactly one entry that
\* is in use, and an entry has no buffer that is free, whether its reception is
\* delivered, fails or expires.
BuffersOwnedOnce ==
    /\ used = {recon[e].buf : e \in {d \in Entries : HasBuffer(d)}}
    /\ \A d, e \in Entries :
         HasBuffer(d) /\ recon[d].buf = recon[e].buf => d = e
    /\ \A e \in Entries : HasBuffer(e) => ~Unused(e)

\* An entry that has a buffer has in it as many fragments as it counts, and no
\* more than the buffer was asked for, although sizes and counts of earlier
\* packets stay behind.  It says nothing of entries without a buffer, to which
\* lowpan_recon_add copies as well (96): see ActiveHasBuffer.
BufferHoldsCount ==
    \A e \in Entries :
      HasBuffer(e) => /\ Len(recon[e].got) <= recon[e].size
                      /\ Collecting(e) => Len(recon[e].got) = recon[e].rcvd

\* Two entries never collect the fragments of the same packet.
OneCollector ==
    \A d, e \in Entries :
      /\ Collecting(d) /\ Collecting(e)
      /\ recon[d].key = recon[e].key /\ recon[d].tag = recon[e].tag
      => d = e

\* "entries which have not had a fragment reception during the last timer
\* period": the timer takes no buffer from an entry that has had one since it
\* fired last.
NotExpiredEarly ==
    [][\A e \in Entries :
         /\ frames' = frames
         /\ Collecting(e) /\ recon'[e].timeout = "UNUSED"
         => recon[e].idle = 1]_vars

PacketOf(f) == [i \in 1 .. Size(f) |-> [pkt |-> f.pkt, idx |-> i]]

Orderly(f) == Pair(f) \in orderly

\* A first fragment, and others of the same source and tag after it.
OnePair(s) ==
    /\ s # <<>> /\ s[1].idx = 1
    /\ \A i \in 1 .. Len(s) : Pair(s[i]) = Pair(s[1])

\* (1) Whatever is lost, repeated or overtaken: a buffer is filled, from a first
\* fragment on, by fragments of one source and tag alone, and what is delivered
\* from it has the length that its first fragment gave.  (2) Where all fragments
\* of a source and tag came once and in order, a buffer holds the beginning of
\* one packet, and what is delivered from it is one whole packet, whatever
\* happens to other packets in between.  (The code never looks at an offset, so
\* (2) says nothing of fragments that come again or overtake each other.  A
\* delivery from an entry without a buffer is no delivery here: out is <<>>.)
Intact ==
    /\ \A e \in Entries :
         HasBuffer(e) /\ Collecting(e) =>
           /\ OnePair(recon[e].got)
           /\ Orderly(recon[e].got[1]) =>
                IsPrefix(recon[e].got, PacketOf(recon[e].got[1]))
    /\ out # <<>> =>
         /\ OnePair(out) /\ Len(out) = Size(out[1])
         /\ Orderly(out[1]) => out = PacketOf(out[1])

\* When no more fragments come, the cache and the heap become empty.
CacheDrains == <>[](used = {} /\ \A e \in Entries : Unused(e))

\* "entries which have a buffer allocated [...] are marked T_ACTIVE": a fragment
\* is added to an entry without one when size and count of an earlier packet
\* leave room for it.
ActiveHasBuffer ==
    \A e \in Entries : recon[e].timeout = "ACTIVE" => HasBuffer(e)

\* "when a fragment is dropped, it is entered into the table as T_FAILED1 [...]
\* this prevents us from allocating a buffer for a packet which we have already
\* dropped fragments from": the entry carries the source and tag.
FailedDropped ==
    [][\A f \in Frames, e \in Entries :
         StartFails(e, f) => /\ recon'[e].key = Src(f)
                             /\ recon'[e].tag = Tag(f)]_vars
=============================================================================
