-------------------------- MODULE Reassembly_proofs --------------------------
(***************************************************************************)
(* For any packets, any number of entries and any heap: the buffers of the *)
(* reassembly cache are owned once and hold what is counted, no two        *)
(* entries collect the same packet, none is expired early, a buffer takes  *)
(* fragments of one source and tag alone, and what comes complete and in   *)
(* order is put together intact (second half, with its invariant).         *)
(*                                                                         *)
(* The inductive invariant says of each entry what ties its state to its   *)
(* count, its buffer and its age (EntryOK).  Every reception changes one   *)
(* entry: lemma OneEntry says what is to be shown of the entry's new value.*)
(*                                                                         *)
(* It is assumed that all headers can be unpacked: r_buf dangles after a   *)
(* failure of lowpan_recon_start otherwise.                                *)
(***************************************************************************)
EXTENDS Reassembly, TLAPS

\* What holds of the value r of an entry.
EntryOK(r) ==
  /\ r \in EntryType
  /\ r.timeout \in {"ACTIVE", "ZOMBIE"} => r.rcvd <= r.size
  /\ r.timeout \in {"ACTIVE", "FAILED1", "UNUSED"} => r.idle = 0
  /\ r.timeout \in {"ZOMBIE", "FAILED2"} => r.idle = 1
  /\ r.buf # NoBuf =>
       /\ r.timeout # "UNUSED"
       /\ Len(r.got) <= r.size
       /\ r.timeout \in {"ACTIVE", "ZOMBIE"} => Len(r.got) = r.rcvd

Typed ==
  /\ recon \in [Entries -> EntryType]
  /\ \A e \in Entries : EntryOK(recon[e])
  /\ used \subseteq Buffers
  /\ frames \in 0 .. MaxFrames
  /\ out \in Seq(Frames)

IInv == Typed /\ BuffersOwnedOnce /\ OneCollector

-----------------------------------------------------------------------------
LEMMA FrameParts ==
  ASSUME NEW f \in Frames
  PROVE  /\ f.idx \in Nat /\ f.idx >= 1
         /\ Src(f) \in Keys /\ Tag(f) \in Tags
         /\ Size(f) \in Nat /\ Size(f) >= 2
<1>1. PICK p \in DOMAIN Packets : f \in [pkt : {p}, idx : 1 .. Packets[p].size]
  BY DEF Frames
<1>2. Packets[p].size \in Nat /\ Packets[p].size >= 2
  BY ReassemblyAssumption
<1>3. f.pkt = p /\ f.idx \in 1 .. Packets[p].size
  BY <1>1
<1>4. f.idx \in Nat /\ f.idx >= 1
  BY <1>2, <1>3
<1> QED BY <1>2, <1>3, <1>4 DEF Src, Tag, Size, Keys, Tags

LEMMA InitInv == Init => IInv
<1> SUFFICES ASSUME Init  PROVE IInv
  OBVIOUS
<1>1. Cleared \in EntryType /\ Cleared.buf = NoBuf /\ Cleared.idle = 0
      /\ Cleared.timeout = "UNUSED"
  BY DEF Cleared, EntryType, TimeoutStates, Keys, Tags
<1>2. \A e \in Entries : recon[e] = Cleared
  BY DEF Init
<1>3. recon \in [Entries -> EntryType]
  BY <1>1 DEF Init
<1>4. \A e \in Entries : EntryOK(recon[e])
  BY <1>1, <1>2 DEF EntryOK
<1>5. Typed
  BY <1>3, <1>4, ReassemblyAssumption DEF Init, Typed
<1>6. BuffersOwnedOnce
  BY <1>1, <1>2 DEF Init, BuffersOwnedOnce, HasBuffer
<1>7. OneCollector
  BY <1>1, <1>2 DEF OneCollector, Collecting
<1> QED BY <1>5, <1>6, <1>7 DEF IInv

-----------------------------------------------------------------------------
(* A reception.                                                            *)

\* What becomes of the buffer of an entry whose new value is r.
BufferMoves(e, r) ==
  \/ r.buf = recon[e].buf /\ used' = used
  \/ /\ r.buf \in Buffers \ used /\ recon[e].buf = NoBuf
     /\ used' = used \cup {r.buf}
  \/ r.buf = NoBuf /\ used' = used \ {recon[e].buf}

\* No other entry collects the packet that r collects.
Alone(e, r) ==
  r.timeout \in {"ACTIVE", "ZOMBIE"} =>
    \A d \in Entries \ {e} :
      ~(Collecting(d) /\ recon[d].key = r.key /\ recon[d].tag = r.tag)

LEMMA OneEntry ==
  ASSUME IInv, NEW e \in Entries, NEW r, EntryOK(r),
         recon' = [recon EXCEPT ![e] = r],
         BufferMoves(e, r), Alone(e, r),
         frames' \in 0 .. MaxFrames, out' \in Seq(Frames)
  PROVE  IInv'
<1>1. /\ recon \in [Entries -> EntryType] /\ used \subseteq Buffers
      /\ \A d \in Entries : EntryOK(recon[d])
  BY DEF IInv, Typed
<1>2. r \in EntryType
  BY DEF EntryOK
<1>3. /\ recon' \in [Entries -> EntryType] /\ recon'[e] = r
      /\ \A d \in Entries \ {e} : recon'[d] = recon[d]
  BY <1>1, <1>2
<1>4. used' \subseteq Buffers
  BY <1>1 DEF BufferMoves
<1>5. \A d \in Entries : EntryOK(recon[d])'
  BY <1>1, <1>3 DEF EntryOK
<1>6. Typed'
  BY <1>3, <1>4, <1>5 DEF Typed
<1>7. OneCollector'
  <2>1. \A c, d \in Entries \ {e} :
          (/\ Collecting(c) /\ Collecting(d)
           /\ recon[c].key = recon[d].key /\ recon[c].tag = recon[d].tag)
          => c = d
    BY DEF IInv, OneCollector
  <2>2. \A d \in Entries : recon'[d].timeout \in {"ACTIVE", "ZOMBIE"}
                           <=> Collecting(d)'
    BY DEF Collecting
  <2>3. \A d \in Entries \ {e} : Collecting(d)' <=> Collecting(d)
    BY <1>3 DEF Collecting
  <2>4. ASSUME NEW d \in Entries \ {e}, Collecting(d)', Collecting(e)',
               recon'[d].key = recon'[e].key, recon'[d].tag = recon'[e].tag
        PROVE  FALSE
    BY <2>2, <2>3, <2>4, <1>3 DEF Alone
  <2>5. ASSUME NEW c \in Entries, NEW d \in Entries, c # d,
               Collecting(c)', Collecting(d)',
               recon'[c].key = recon'[d].key, recon'[c].tag = recon'[d].tag
        PROVE  FALSE
    <3>1. CASE c = e
      BY <3>1, <2>4, <2>5
    <3>2. CASE d = e
      BY <3>2, <2>4, <2>5
    <3>3. CASE c # e /\ d # e
      BY <3>3, <2>1, <2>3, <2>5, <1>3
    <3> QED BY <3>1, <3>2, <3>3
  <2> QED BY <2>5 DEF OneCollector
<1>8. BuffersOwnedOnce'
  <2> DEFINE Bufs == {recon[d].buf : d \in {c \in Entries : HasBuffer(c)}}
             Bufs1 == {recon'[d].buf :
                         d \in {c \in Entries : recon'[c].buf # NoBuf}}
  <2>1. /\ used = Bufs
        /\ \A c, d \in Entries :
             recon[c].buf # NoBuf /\ recon[d].buf = recon[c].buf => c = d
        /\ \A d \in Entries : recon[d].buf # NoBuf => ~Unused(d)
    BY DEF IInv, BuffersOwnedOnce, HasBuffer
  <2>2. \A d \in Entries : recon[d].buf # NoBuf => recon[d].buf \in used
    BY <2>1 DEF HasBuffer
  <2>3. used' = Bufs1
    <3>1. ASSUME NEW b \in used'  PROVE b \in Bufs1
      <4>1. CASE b \in used /\ b # recon[e].buf
        <5>1. PICK d \in Entries : recon[d].buf = b /\ recon[d].buf # NoBuf
          BY <4>1, <2>1 DEF HasBuffer
        <5>2. recon'[d].buf = b
          BY <5>1, <4>1, <1>3
        <5> QED BY <5>1, <5>2
      <4>2. CASE ~(b \in used /\ b # recon[e].buf)
        <5>1. b = r.buf /\ b # NoBuf
          BY <4>2, <3>1, <1>1, ReassemblyAssumption DEF BufferMoves
        <5> QED BY <5>1, <1>3
      <4> QED BY <4>1, <4>2
    <3>2. ASSUME NEW d \in Entries, recon'[d].buf # NoBuf
          PROVE  recon'[d].buf \in used'
      <4>1. CASE d = e
        BY <4>1, <3>2, <2>2, <1>3 DEF BufferMoves
      <4>2. CASE d # e
        <5>1. recon[d].buf \in used /\ recon[d].buf # recon[e].buf
              /\ recon'[d].buf = recon[d].buf
          BY <4>2, <3>2, <2>1, <2>2, <1>3
        <5> QED BY <5>1 DEF BufferMoves
      <4> QED BY <4>1, <4>2
    <3> QED BY <3>1, <3>2
  <2>4. ASSUME NEW d \in Entries \ {e}, recon'[d].buf # NoBuf
        PROVE  recon'[d].buf # r.buf
    <3>1. recon[d].buf \in used /\ recon[d].buf # recon[e].buf
          /\ recon'[d].buf = recon[d].buf
      BY <2>4, <2>1, <2>2, <1>3
    <3> QED BY <3>1, <2>4 DEF BufferMoves
  <2>5. ASSUME NEW c \in Entries, NEW d \in Entries, recon'[c].buf # NoBuf,
               recon'[d].buf = recon'[c].buf
        PROVE  c = d
    <3>1. CASE c = e \/ d = e
      BY <3>1, <2>4, <2>5, <1>3
    <3>2. CASE c # e /\ d # e
      BY <3>2, <2>1, <2>5, <1>3
    <3> QED BY <3>1, <3>2
  <2>6. ASSUME NEW d \in Entries, recon'[d].buf # NoBuf
        PROVE  recon'[d].timeout # "UNUSED"
    BY <2>6, <2>1, <1>3 DEF EntryOK, Unused
  <2>7. Bufs1 = {recon[d].buf : d \in {c \in Entries : HasBuffer(c)}}'
    BY DEF HasBuffer
  <2> HIDE DEF Bufs, Bufs1
  <2> QED BY <2>3, <2>5, <2>6, <2>7 DEF BuffersOwnedOnce, HasBuffer, Unused
<1> QED BY <1>6, <1>7, <1>8 DEF IInv

\* An entry chosen for f that is in use has its key and tag; no other entry
\* that collects has them.
LEMMA ChosenAlone ==
  ASSUME IInv, NEW f \in Frames, NEW e \in Entries, Chosen(e, f)
  PROVE  /\ Collecting(e) \/ (Unused(e) /\ recon[e].buf = NoBuf)
         /\ Collecting(e) => recon[e].key = Src(f) /\ recon[e].tag = Tag(f)
         /\ \A d \in Entries \ {e} :
              ~(Collecting(d) /\ recon[d].key = Src(f) /\ recon[d].tag = Tag(f))
<1>1. Collecting(e) \/ Unused(e)
  BY DEF Chosen
<1>2. Unused(e) => recon[e].buf = NoBuf
  BY DEF IInv, BuffersOwnedOnce, HasBuffer
<1>3. CASE Collecting(e) /\ Matches(e, f)
  BY <1>1, <1>2, <1>3 DEF IInv, OneCollector, Matches
<1>4. CASE Unused(e) /\ \A d \in Entries : ~Matches(d, f)
  BY <1>1, <1>2, <1>4 DEF Matches, Collecting, Unused
<1> QED BY <1>3, <1>4 DEF Chosen

LEMMA ExceptInType ==
  ASSUME NEW r \in EntryType, NEW t \in TimeoutStates, NEW k \in Keys,
         NEW g \in Tags, NEW n \in Nat, NEW i \in {0, 1},
         NEW s \in Seq(Frames)
  PROVE  [r EXCEPT !.timeout = t, !.key = k, !.tag = g, !.rcvd = n, !.idle = i,
                   !.got = s] \in EntryType
BY DEF EntryType

LEMMA GrownOK ==
  ASSUME IInv, NEW f \in Frames, NEW e \in Entries, Chosen(e, f), Room(e)
  PROVE  /\ EntryOK(Grown(e, f))
         /\ Grown(e, f).buf = recon[e].buf
         /\ Grown(e, f).key = Src(f) /\ Grown(e, f).tag = Tag(f)
<1> DEFINE r == recon[e]
           g == Grown(e, f)
<1>1. r \in EntryType /\ EntryOK(r)
  BY DEF IInv, Typed
<1>2. Src(f) \in Keys /\ Tag(f) \in Tags
  BY FrameParts
<1>3. r.got \in Seq(Frames) /\ r.rcvd \in Nat /\ r.size \in Nat
  BY <1>1 DEF EntryType
<1>4. /\ g.timeout = "ACTIVE" /\ g.key = Src(f) /\ g.tag = Tag(f)
      /\ g.size = r.size /\ g.rcvd = r.rcvd + 1 /\ g.buf = r.buf
      /\ g.idle = 0
      /\ g.got = IF r.buf = NoBuf THEN r.got ELSE Append(r.got, f)
  BY <1>1 DEF Grown, EntryType
<1>5. g.got \in Seq(Frames)
  BY <1>3, <1>4
<1>6. g \in EntryType
  <2>1. g = [r EXCEPT !.timeout = "ACTIVE", !.key = Src(f), !.tag = Tag(f),
                      !.rcvd = r.rcvd + 1, !.idle = 0, !.got = g.got]
    BY <1>4 DEF Grown
  <2>2. r.rcvd + 1 \in Nat /\ "ACTIVE" \in TimeoutStates
    BY <1>3 DEF TimeoutStates
  <2>3. /\ r \in EntryType /\ Src(f) \in Keys /\ Tag(f) \in Tags
        /\ g.got \in Seq(Frames) /\ 0 \in {0, 1}
    BY <1>1, <1>2, <1>5
  <2> HIDE DEF g, r
  <2>4. [r EXCEPT !.timeout = "ACTIVE", !.key = Src(f), !.tag = Tag(f),
                  !.rcvd = r.rcvd + 1, !.idle = 0, !.got = g.got]
          \in EntryType
    BY <2>2, <2>3, ExceptInType
  <2> QED BY <2>1, <2>4
<1>7. r.rcvd + 1 <= r.size
  BY DEF Room
<1>8. r.buf # NoBuf => Len(g.got) = r.rcvd + 1
  <2>1. r.buf # NoBuf => Collecting(e)
    BY ChosenAlone
  <2>2. r.buf # NoBuf => Len(r.got) = r.rcvd
    BY <2>1, <1>1 DEF EntryOK, Collecting
  <2>3. r.buf # NoBuf => Len(g.got) = Len(r.got) + 1
    BY <1>3, <1>4
  <2> HIDE DEF g, r
  <2> QED BY <2>2, <2>3
<1> HIDE DEF g, r
<1>9. EntryOK(g)
  BY <1>3, <1>4, <1>6, <1>7, <1>8 DEF EntryOK
<1> QED BY <1>4, <1>9 DEF g, r

LEMMA ArrivesTypes ==
  ASSUME IInv, NEW f \in Frames, Arrives(f)
  PROVE  frames' = frames + 1 /\ frames' \in 0 .. MaxFrames
BY ReassemblyAssumption DEF Arrives, IInv, Typed

LEMMA FirstAgainInv ==
  ASSUME IInv, NEW f \in Frames, NEW e \in Entries, FirstAgain(e, f)
  PROVE  IInv'
<1> DEFINE r == recon[e]
           s == [r EXCEPT !.timeout = "ACTIVE", !.idle = 0]
<1>1. r \in EntryType /\ EntryOK(r)
  BY DEF IInv, Typed
<1>2. /\ s \in EntryType /\ s.timeout = "ACTIVE" /\ s.idle = 0
      /\ s.key = r.key /\ s.tag = r.tag /\ s.buf = r.buf
      /\ s.size = r.size /\ s.rcvd = r.rcvd /\ s.got = r.got
  BY <1>1 DEF EntryType, TimeoutStates
<1>3. Collecting(e) /\ r.key = Src(f) /\ r.tag = Tag(f)
  BY ChosenAlone DEF FirstAgain
<1>4. EntryOK(s)
  BY <1>1, <1>2, <1>3 DEF EntryOK, Collecting
<1>5. Alone(e, s)
  BY <1>2, <1>3, ChosenAlone DEF Alone, FirstAgain
<1>6. recon' = [recon EXCEPT ![e] = s] /\ BufferMoves(e, s)
  BY <1>2 DEF FirstAgain, BufferMoves
<1>7. frames' \in 0 .. MaxFrames /\ out' \in Seq(Frames)
  BY ArrivesTypes DEF FirstAgain
<1> HIDE DEF s
<1> QED BY <1>4, <1>5, <1>6, <1>7, OneEntry

LEMMA StartFailsInv ==
  ASSUME HeadersUnpack, IInv, NEW f \in Frames, NEW e \in Entries,
         StartFails(e, f)
  PROVE  IInv'
<1> DEFINE r == recon[e]
           s == [r EXCEPT !.timeout = "FAILED1", !.tag = Tag(f),
                          !.size = Size(f), !.buf = NoBuf, !.idle = 0]
<1>1. r \in EntryType /\ r.buf = NoBuf
  BY DEF IInv, Typed, StartFails
<1>2. s \in EntryType /\ s.timeout = "FAILED1" /\ s.idle = 0 /\ s.buf = NoBuf
  BY <1>1, FrameParts DEF EntryType, TimeoutStates
<1>3. EntryOK(s) /\ Alone(e, s)
  BY <1>2 DEF EntryOK, Alone
<1>4. recon' = [recon EXCEPT ![e] = s]
  <2>1. LeftInBuf = {NoBuf}
    BY DEF LeftInBuf
  <2> QED BY <2>1 DEF StartFails
<1>5. BufferMoves(e, s)
  BY <1>1, <1>2 DEF StartFails, BufferMoves
<1>6. frames' \in 0 .. MaxFrames /\ out' \in Seq(Frames)
  BY ArrivesTypes DEF StartFails
<1> HIDE DEF s
<1> QED BY <1>3, <1>4, <1>5, <1>6, OneEntry

LEMMA StartedInv ==
  ASSUME IInv, NEW f \in Frames, NEW e \in Entries, Started(e, f)
  PROVE  IInv'
<1>1. PICK b \in Buffers \ used :
        /\ used' = used \cup {b}
        /\ recon' = [recon EXCEPT ![e] =
             [timeout |-> "ACTIVE", key |-> Src(f), tag |-> Tag(f),
              size |-> Size(f), rcvd |-> 1, buf |-> b, got |-> <<f>>,
              idle |-> 0]]
  BY DEF Started
<1> DEFINE s == [timeout |-> "ACTIVE", key |-> Src(f), tag |-> Tag(f),
                 size |-> Size(f), rcvd |-> 1, buf |-> b, got |-> <<f>>,
                 idle |-> 0]
<1>2. /\ Src(f) \in Keys /\ Tag(f) \in Tags
      /\ Size(f) \in Nat /\ Size(f) >= 2
  BY FrameParts
<1>3. <<f>> \in Seq(Frames) /\ Len(<<f>>) = 1
  OBVIOUS
<1>4. s \in EntryType
  BY <1>2, <1>3 DEF EntryType, TimeoutStates
<1>5. EntryOK(s)
  BY <1>2, <1>3, <1>4 DEF EntryOK
<1>6. Alone(e, s)
  BY ChosenAlone DEF Alone, Started
<1>7. BufferMoves(e, s)
  BY <1>1 DEF Started, BufferMoves
<1>8. frames' \in 0 .. MaxFrames /\ out' \in Seq(Frames)
  BY ArrivesTypes DEF Started
<1>9. recon' = [recon EXCEPT ![e] = s]
  BY <1>1
<1> HIDE DEF s
<1> QED BY <1>5, <1>6, <1>7, <1>8, <1>9, OneEntry

LEMMA TooMuchInv ==
  ASSUME IInv, NEW f \in Frames, NEW e \in Entries, TooMuch(e, f)
  PROVE  IInv'
<1> DEFINE r == recon[e]
           s == [r EXCEPT !.timeout = "FAILED1", !.idle = 0]
<1>1. r \in EntryType /\ EntryOK(r)
  BY DEF IInv, Typed
<1>2. /\ s \in EntryType /\ s.timeout = "FAILED1" /\ s.idle = 0
      /\ s.buf = r.buf /\ s.size = r.size /\ s.got = r.got
  BY <1>1 DEF EntryType, TimeoutStates
<1>3. EntryOK(s) /\ Alone(e, s)
  BY <1>1, <1>2 DEF EntryOK, Alone
<1>4. recon' = [recon EXCEPT ![e] = s] /\ BufferMoves(e, s)
  BY <1>2 DEF TooMuch, BufferMoves
<1>5. frames' \in 0 .. MaxFrames /\ out' \in Seq(Frames)
  BY ArrivesTypes DEF TooMuch
<1> HIDE DEF s
<1> QED BY <1>3, <1>4, <1>5, OneEntry

LEMMA AddedInv ==
  ASSUME IInv, NEW f \in Frames, NEW e \in Entries, Added(e, f)
  PROVE  IInv'
<1>1. /\ EntryOK(Grown(e, f)) /\ Grown(e, f).buf = recon[e].buf
      /\ Grown(e, f).key = Src(f) /\ Grown(e, f).tag = Tag(f)
  BY GrownOK DEF Added
<1>2. Alone(e, Grown(e, f))
  BY <1>1, ChosenAlone DEF Alone, Added
<1>3. /\ recon' = [recon EXCEPT ![e] = Grown(e, f)]
      /\ BufferMoves(e, Grown(e, f))
  BY <1>1 DEF Added, BufferMoves
<1>4. frames' \in 0 .. MaxFrames /\ out' \in Seq(Frames)
  BY ArrivesTypes DEF Added
<1> QED BY <1>1, <1>2, <1>3, <1>4, OneEntry

\* An entry that is given up holds nothing and collects nothing.
LEMMA GivenUpOK ==
  ASSUME NEW r \in EntryType
  PROVE  /\ EntryOK(GivenUp(r)) /\ GivenUp(r).timeout = "UNUSED"
         /\ GivenUp(r).buf = NoBuf /\ GivenUp(r).idle = 0
<1>1. <<>> \in Seq(Frames)
  OBVIOUS
<1>2. /\ GivenUp(r) \in EntryType /\ GivenUp(r).timeout = "UNUSED"
      /\ GivenUp(r).buf = NoBuf /\ GivenUp(r).idle = 0
  BY <1>1 DEF GivenUp, EntryType, TimeoutStates
<1> QED BY <1>2 DEF EntryOK

LEMMA DeliveredInv ==
  ASSUME IInv, NEW f \in Frames, NEW e \in Entries, Delivered(e, f)
  PROVE  IInv'
<1>1. EntryOK(Grown(e, f)) /\ Grown(e, f) \in EntryType
  BY GrownOK DEF Delivered, EntryOK
<1> DEFINE s == GivenUp(Grown(e, f))
<1>2. EntryOK(s) /\ s.timeout = "UNUSED" /\ s.buf = NoBuf
  BY <1>1, GivenUpOK
<1>3. Alone(e, s)
  BY <1>2 DEF Alone
<1>4. recon' = [recon EXCEPT ![e] = s] /\ BufferMoves(e, s)
  BY <1>2 DEF Delivered, BufferMoves
<1>5. out' \in Seq(Frames)
  BY <1>1 DEF Delivered, EntryType
<1>6. frames' \in 0 .. MaxFrames
  BY ArrivesTypes DEF Delivered
<1> HIDE DEF s
<1> QED BY <1>2, <1>3, <1>4, <1>5, <1>6, OneEntry

-----------------------------------------------------------------------------
(* The timer.                                                              *)

LEMMA AgedOK ==
  ASSUME NEW r, EntryOK(r)
  PROVE  /\ EntryOK(Aged(r)) /\ Aged(r).timeout # "ACTIVE"
         /\ r.timeout \in {"ZOMBIE", "FAILED2"} => Aged(r).buf = NoBuf
         /\ r.timeout \notin {"ZOMBIE", "FAILED2"} => Aged(r).buf = r.buf
         /\ Aged(r).timeout = "ZOMBIE" =>
              /\ r.timeout = "ACTIVE"
              /\ Aged(r).key = r.key /\ Aged(r).tag = r.tag
<1>1. r \in EntryType
  BY DEF EntryOK
<1>2. CASE r.timeout = "ACTIVE"
  <2>1. Aged(r) = [r EXCEPT !.timeout = "ZOMBIE", !.idle = 1]
    <3>1. r.idle + 1 = 1
      BY <1>2 DEF EntryOK
    <3>2. Aged(r) = Later(r, "ZOMBIE")
      BY <1>2 DEF Aged
    <3> QED BY <3>1, <3>2 DEF Later
  <2> DEFINE s == Aged(r)
  <2>2. /\ s \in EntryType /\ s.timeout = "ZOMBIE" /\ s.idle = 1
        /\ s.key = r.key /\ s.tag = r.tag /\ s.buf = r.buf
        /\ s.size = r.size /\ s.rcvd = r.rcvd /\ s.got = r.got
    BY <2>1, <1>1 DEF EntryType, TimeoutStates
  <2> HIDE DEF s
  <2>3. EntryOK(s)
    BY <2>2, <1>2 DEF EntryOK
  <2> QED BY <2>2, <2>3, <1>2 DEF s
<1>3. CASE r.timeout = "FAILED1"
  <2>1. Aged(r) = [r EXCEPT !.timeout = "FAILED2", !.idle = 1]
    <3>1. r.idle + 1 = 1
      BY <1>3 DEF EntryOK
    <3>2. Aged(r) = Later(r, "FAILED2")
      BY <1>3 DEF Aged
    <3> QED BY <3>1, <3>2 DEF Later
  <2> DEFINE s == Aged(r)
  <2>2. /\ s \in EntryType /\ s.timeout = "FAILED2" /\ s.idle = 1
        /\ s.buf = r.buf /\ s.size = r.size /\ s.got = r.got
    BY <2>1, <1>1 DEF EntryType, TimeoutStates
  <2> HIDE DEF s
  <2>3. EntryOK(s)
    BY <2>2, <1>3 DEF EntryOK
  <2> QED BY <2>2, <2>3, <1>3 DEF s
<1>4. CASE r.timeout \in {"ZOMBIE", "FAILED2"}
  <2>1. Aged(r) = GivenUp(r)
    BY <1>4 DEF Aged
  <2> QED BY <2>1, <1>1, <1>4, GivenUpOK
<1>5. CASE r.timeout = "UNUSED"
  <2>1. Aged(r) = r
    BY <1>5 DEF Aged
  <2> QED BY <2>1, <1>5
<1> QED BY <1>1, <1>2, <1>3, <1>4, <1>5 DEF EntryType, TimeoutStates

LEMMA TimerInv ==
  ASSUME IInv, ExpireTimerFired
  PROVE  IInv'
<1>1. /\ recon \in [Entries -> EntryType] /\ used \subseteq Buffers
      /\ \A d \in Entries : EntryOK(recon[d])
  BY DEF IInv, Typed
<1>2. /\ recon' = [d \in Entries |-> Aged(recon[d])]
      /\ used' = used \ {recon[d].buf : d \in {c \in Entries : Expired(c)}}
  BY DEF ExpireTimerFired
<1>3. \A d \in Entries : recon'[d] = Aged(recon[d])
  BY <1>2
<1>4. \A d \in Entries : EntryOK(recon'[d]) /\ recon'[d] \in EntryType
  BY <1>1, <1>3, AgedOK DEF EntryOK
<1>5. Typed'
  <2>1. recon' \in [Entries -> EntryType]
    BY <1>2, <1>3, <1>4
  <2>2. frames' \in 0 .. MaxFrames /\ out' \in Seq(Frames)
    BY DEF IInv, Typed, ExpireTimerFired
  <2> QED BY <2>1, <2>2, <1>1, <1>2, <1>4 DEF Typed
<1>6. OneCollector'
  <2>1. \A d \in Entries :
          Collecting(d)' => /\ Collecting(d) /\ recon'[d].key = recon[d].key
                            /\ recon'[d].tag = recon[d].tag
    BY <1>1, <1>3, AgedOK DEF Collecting
  <2> QED BY <2>1 DEF IInv, OneCollector
<1>7. BuffersOwnedOnce'
  <2>1. /\ used = {recon[d].buf : d \in {c \in Entries : HasBuffer(c)}}
        /\ \A c, d \in Entries :
             recon[c].buf # NoBuf /\ recon[d].buf = recon[c].buf => c = d
    BY DEF IInv, BuffersOwnedOnce, HasBuffer
  <2>2. \A d \in Entries :
          recon'[d].buf # NoBuf => recon'[d].buf = recon[d].buf /\ ~Expired(d)
    BY <1>1, <1>3, AgedOK DEF Expired
  <2>3. \A d \in Entries : ~Expired(d) => recon'[d].buf = recon[d].buf
    BY <1>1, <1>3, AgedOK DEF Expired
  <2>4. used' = {recon'[d].buf : d \in {c \in Entries : recon'[c].buf # NoBuf}}
    <3>1. ASSUME NEW b \in used'
          PROVE  \E d \in Entries : recon'[d].buf # NoBuf /\ recon'[d].buf = b
      <4>1. PICK d \in Entries : recon[d].buf # NoBuf /\ recon[d].buf = b
        BY <3>1, <2>1, <1>2 DEF HasBuffer
      <4>2. ~Expired(d)
        BY <4>1, <3>1, <1>2
      <4> QED BY <4>1, <4>2, <2>3
    <3>2. ASSUME NEW d \in Entries, recon'[d].buf # NoBuf
          PROVE  recon'[d].buf \in used'
      <4>1. recon'[d].buf = recon[d].buf /\ ~Expired(d)
        BY <3>2, <2>2
      <4>2. recon[d].buf \in used
        BY <4>1, <3>2, <2>1 DEF HasBuffer
      <4>3. ASSUME NEW c \in Entries, Expired(c)
            PROVE  recon[c].buf # recon[d].buf
        BY <4>1, <4>3, <3>2, <2>1
      <4> QED BY <4>1, <4>2, <4>3, <1>2
    <3> QED BY <3>1, <3>2
  <2>5. \A c, d \in Entries :
          recon'[c].buf # NoBuf /\ recon'[d].buf = recon'[c].buf => c = d
    BY <2>1, <2>2
  <2>6. \A d \in Entries : recon'[d].buf # NoBuf =>
                             recon'[d].timeout # "UNUSED"
    BY <1>4 DEF EntryOK
  <2>7. {recon'[d].buf : d \in {c \in Entries : recon'[c].buf # NoBuf}}
          = {recon[d].buf : d \in {c \in Entries : HasBuffer(c)}}'
    BY DEF HasBuffer
  <2> QED BY <2>4, <2>5, <2>6, <2>7 DEF BuffersOwnedOnce, HasBuffer, Unused
<1> QED BY <1>5, <1>6, <1>7 DEF IInv

-----------------------------------------------------------------------------
LEMMA NextInv ==
  ASSUME HeadersUnpack, IInv, [Next]_vars
  PROVE  IInv'
<1>1. CASE ExpireTimerFired
  BY <1>1, TimerInv
<1>2. ASSUME NEW f \in Frames, Receive(f)  PROVE IInv'
  <2>1. CASE NoEntry(f)
    <3>1. frames' \in 0 .. MaxFrames /\ out' \in Seq(Frames)
      BY <2>1, ArrivesTypes DEF NoEntry
    <3> QED
      BY <3>1, <2>1 DEF NoEntry, IInv, Typed, BuffersOwnedOnce, OneCollector,
                        HasBuffer, Unused, Collecting
  <2>2. ASSUME NEW e \in Entries,
               \/ FirstAgain(e, f) \/ StartFails(e, f) \/ Started(e, f)
               \/ TooMuch(e, f) \/ Added(e, f) \/ Delivered(e, f)
        PROVE  IInv'
    BY <2>2, FirstAgainInv, StartFailsInv, StartedInv, TooMuchInv, AddedInv,
       DeliveredInv
  <2> QED BY <2>1, <2>2, <1>2 DEF Receive
<1>3. CASE UNCHANGED vars
  BY <1>3 DEF vars, IInv, Typed, BuffersOwnedOnce, OneCollector, HasBuffer,
              Unused, Collecting
<1> QED BY <1>1, <1>2, <1>3 DEF Next

LEMMA Invariance == HeadersUnpack /\ Spec => []IInv
<1> SUFFICES ASSUME HeadersUnpack  PROVE Spec => []IInv
  OBVIOUS
<1> QED BY InitInv, NextInv, PTL DEF Spec

\* For any packets, entries and heap every variable keeps its type, and an
\* entry that collects has counted no more than the size of its packet.
THEOREM ReassemblyTypes == ASSUME HeadersUnpack  PROVE Spec => []TypeOK
<1>1. IInv => TypeOK
  BY DEF IInv, Typed, TypeOK, EntryOK, Collecting
<1> QED BY Invariance, <1>1, PTL

\* For any packets, entries and heap: ip_malloc's buffers are each held by one
\* entry, and given back exactly when it is delivered or expires.
THEOREM ReassemblyOwnsBuffers ==
  ASSUME HeadersUnpack  PROVE Spec => []BuffersOwnedOnce
<1>1. IInv => BuffersOwnedOnce
  BY DEF IInv
<1> QED BY Invariance, <1>1, PTL

\* For any packets (each in two fragments at least), entries and heap, if all
\* headers can be unpacked: an entry that has a buffer has in it what it counts,
\* and no more than lowpan_recon_start asked for.
THEOREM ReassemblyHoldsCount ==
  ASSUME HeadersUnpack  PROVE Spec => []BufferHoldsCount
<1>1. IInv => BufferHoldsCount
  BY DEF IInv, Typed, BufferHoldsCount, EntryOK, HasBuffer, Collecting
<1> QED BY Invariance, <1>1, PTL

\* For any number of entries get_reconstruct never spreads the fragments of one
\* packet over two of them.
THEOREM ReassemblyOneCollector ==
  ASSUME HeadersUnpack  PROVE Spec => []OneCollector
<1>1. IInv => OneCollector
  BY DEF IInv
<1> QED BY Invariance, <1>1, PTL

\* For any number of entries ExpireTimer takes the buffer only of an entry that
\* has had no fragment since it fired last.
THEOREM ReassemblyNotExpiredEarly ==
  ASSUME HeadersUnpack  PROVE Spec => NotExpiredEarly
<1> DEFINE A == \A e \in Entries :
                  /\ frames' = frames
                  /\ Collecting(e) /\ recon'[e].timeout = "UNUSED"
                  => recon[e].idle = 1
<1>1. ASSUME IInv, [Next]_vars  PROVE [A]_vars
  <2>1. CASE ExpireTimerFired
    <3>1. ASSUME NEW e \in Entries, Collecting(e),
                 recon'[e].timeout = "UNUSED"
          PROVE  recon[e].idle = 1
      <4>1. EntryOK(recon[e]) /\ recon'[e] = Aged(recon[e])
        BY <1>1, <2>1 DEF IInv, Typed, ExpireTimerFired
      <4>2. recon[e].timeout # "ACTIVE"
        BY <4>1, <3>1 DEF Aged, Later, EntryOK, EntryType
      <4> QED BY <4>1, <4>2, <3>1 DEF EntryOK, Collecting
    <3> QED BY <3>1
  <2>2. ASSUME NEW f \in Frames, Receive(f)  PROVE A
    <3>1. Arrives(f)
      BY <2>2 DEF Receive, NoEntry, FirstAgain, StartFails, Started, TooMuch,
                  Added, Delivered
    <3>2. frames' # frames
      BY <3>1, <1>1, ReassemblyAssumption DEF Arrives, IInv, Typed
    <3> QED BY <3>2
  <2>3. CASE UNCHANGED vars
    BY <2>3
  <2> QED BY <1>1, <2>1, <2>2, <2>3 DEF Next
<1>2. Spec => [][Next]_vars
  BY DEF Spec
<1>3. NotExpiredEarly <=> [][A]_vars
  BY DEF NotExpiredEarly
<1> HIDE DEF A
<1> QED BY Invariance, <1>1, <1>2, <1>3, PTL
-----------------------------------------------------------------------------
(* What a buffer holds.  Only fragments that get_reconstruct brings to an  *)
(* entry are put into its buffer, so one that another entry with the same  *)
(* source and tag takes away leaves a gap.  Only an earlier entry that has *)
(* failed (TooMuch leaves it with the source and tag of an old packet) can *)
(* do so; the entry with the gap is never found again then, because the    *)
(* timer gives it up no later than the one before it.                      *)

Key(e) == <<recon[e].key, recon[e].tag>>

Filling(e) == Collecting(e) /\ HasBuffer(e)

Blocks(d, e) == d < e /\ Failed(d) /\ Key(d) = Key(e)

\* The timer does not give up a failed entry before those it hides.
BlockersOutlive ==
  \A d, e \in Entries :
    Blocks(d, e) /\ Filling(e) /\ recon[e].timeout = "ACTIVE"
      => recon[d].timeout = "FAILED1"

InOrder(s) == \A i \in 1 .. Len(s) : s[i] = [pkt |-> s[1].pkt, idx |-> i]

\* A buffer belongs to the packet of its first fragment and is not full.  If
\* the fragments came in order it holds them all, up to the last that came,
\* unless the entry is hidden.
ContentsOK(e) ==
  /\ recon[e].buf = NoBuf => recon[e].got = <<>>
  /\ Filling(e) =>
       /\ OnePair(recon[e].got)
       /\ Pair(recon[e].got[1]) = Key(e)
       /\ recon[e].size = Size(recon[e].got[1])
       /\ Len(recon[e].got) < recon[e].size
       /\ Key(e) \in orderly =>
            /\ InOrder(recon[e].got)
            /\ (\A d \in Entries : ~Blocks(d, e)) =>
                 last[Key(e)] = recon[e].got[Len(recon[e].got)]

OutWhole ==
  out # <<>> =>
    /\ OnePair(out) /\ Len(out) = Size(out[1])
    /\ Orderly(out[1]) => out = PacketOf(out[1])

GotInv ==
  /\ last \in [Pairs -> Frames \cup {NoFrame}]
  /\ BlockersOutlive
  /\ \A e \in Entries : ContentsOK(e)
  /\ OutWhole

LEMMA InitGot == Init => GotInv
<1> SUFFICES ASSUME Init  PROVE GotInv
  OBVIOUS
<1>1. /\ Cleared.timeout = "UNUSED" /\ Cleared.got = <<>>
      /\ Cleared.buf = NoBuf
  BY DEF Cleared
<1>2. \A e \in Entries : recon[e] = Cleared
  BY DEF Init
<1>3. \A e \in Entries : ~Filling(e) /\ ContentsOK(e)
  BY <1>1, <1>2 DEF Filling, HasBuffer, ContentsOK
<1>4. BlockersOutlive
  BY <1>3 DEF BlockersOutlive
<1>5. last \in [Pairs -> Frames \cup {NoFrame}]
  BY DEF Init
<1>6. OutWhole
  BY DEF Init, OutWhole
<1> QED BY <1>3, <1>4, <1>5, <1>6 DEF GotInv

LEMMA ArrivesHistory ==
  ASSUME GotInv, NEW f \in Frames, Arrives(f)
  PROVE  /\ Pair(f) \in Pairs
         /\ last' \in [Pairs -> Frames \cup {NoFrame}]
         /\ last'[Pair(f)] = f
         /\ \A k \in Pairs : k # Pair(f) => last'[k] = last[k]
         /\ \A k : k \in orderly' => k \in orderly
         /\ Pair(f) \in orderly' => Follows(f, last[Pair(f)])
<1>1. Pair(f) \in Pairs
  BY DEF Pairs
<1>2. last' = [last EXCEPT ![Pair(f)] = f]
  BY DEF Arrives
<1>3. last \in [Pairs -> Frames \cup {NoFrame}]
  BY DEF GotInv
<1>4. orderly' = IF Follows(f, last[Pair(f)]) THEN orderly
                 ELSE orderly \ {Pair(f)}
  BY DEF Arrives
<1> QED BY <1>1, <1>2, <1>3, <1>4

\* No entry hides the one that is chosen, for f or for its own packet.
LEMMA ChosenNotHidden ==
  ASSUME IInv, NEW f \in Frames, NEW e \in Entries, Chosen(e, f)
  PROVE  /\ ~Failed(e)
         /\ \A d \in Entries : d < e /\ Failed(d) => Key(d) # Pair(f)
         /\ Filling(e) => Key(e) = Pair(f)
<1>1. Collecting(e) \/ Unused(e)
  BY DEF Chosen
<1>2. ~Failed(e)
  BY <1>1 DEF Failed, Collecting, Unused
<1>3. ASSUME NEW d \in Entries, d < e, Failed(d), Key(d) = Pair(f)
      PROVE  FALSE
  <2>1. Matches(d, f)
    BY <1>3 DEF Matches, Key, Pair, Failed, Unused
  <2>2. d \in 1 .. e - 1
    BY <1>3, ReassemblyAssumption DEF Entries
  <2> QED BY <2>1, <2>2 DEF Chosen
<1>4. Filling(e) => Key(e) = Pair(f)
  BY ChosenAlone DEF Filling, HasBuffer, Key, Pair, Collecting, Unused
<1> QED BY <1>2, <1>3, <1>4

-----------------------------------------------------------------------------
(* A fragment for an entry that is being filled.                           *)

LEMMA NextInOrder ==
  ASSUME IInv, GotInv, NEW f \in Frames, Arrives(f),
         NEW e \in Entries, Chosen(e, f), Filling(e), Pair(f) \in orderly'
  PROVE  /\ InOrder(recon[e].got)
         /\ f = [pkt |-> recon[e].got[1].pkt, idx |-> Len(recon[e].got) + 1]
<1> DEFINE s == recon[e].got
           n == Len(s)
           g == last[Pair(f)]
<1>1. /\ OnePair(s) /\ s # <<>>
      /\ n < recon[e].size /\ recon[e].size = Size(s[1])
      /\ Key(e) \in orderly =>
           /\ InOrder(s)
           /\ (\A d \in Entries : ~Blocks(d, e)) => last[Key(e)] = s[n]
  BY DEF GotInv, ContentsOK, OnePair
<1>2. Key(e) = Pair(f)
  BY ChosenNotHidden
<1>3. \A d \in Entries : ~Blocks(d, e)
  BY <1>2, ChosenNotHidden DEF Blocks
<1>4. Pair(f) \in orderly /\ Follows(f, g)
  BY ArrivesHistory
<1>5. InOrder(s) /\ g = s[n]
  BY <1>1, <1>2, <1>3, <1>4
<1>6. s \in Seq(Frames)
  BY DEF IInv, Typed, EntryType
<1>7. n \in Nat /\ n >= 1 /\ n \in 1 .. n
  BY <1>1, <1>6
<1>8. g = [pkt |-> s[1].pkt, idx |-> n]
  BY <1>5, <1>7 DEF InOrder
<1>9. g # NoFrame /\ g.idx = n /\ g.pkt = s[1].pkt
  BY <1>7, <1>8 DEF NoFrame
<1>10. Size(g) = Size(s[1]) /\ g.idx # Size(g)
  BY <1>1, <1>7, <1>9, FrameParts DEF Size
<1>11. f = [g EXCEPT !.idx = @ + 1]
  BY <1>4, <1>9, <1>10 DEF Follows
<1>12. f = [pkt |-> s[1].pkt, idx |-> n + 1]
  BY <1>8, <1>11
<1> QED BY <1>5, <1>12

LEMMA AppendInOrder ==
  ASSUME NEW s \in Seq(Frames), s # <<>>, NEW f \in Frames
  PROVE  /\ Append(s, f) \in Seq(Frames) /\ Append(s, f) # <<>>
         /\ Len(Append(s, f)) = Len(s) + 1
         /\ Append(s, f)[1] = s[1]
         /\ Append(s, f)[Len(s) + 1] = f
         /\ InOrder(s) /\ f = [pkt |-> s[1].pkt, idx |-> Len(s) + 1]
              => InOrder(Append(s, f))
         /\ OnePair(s) /\ Pair(f) = Pair(s[1]) => OnePair(Append(s, f))
<1> DEFINE t == Append(s, f)
           n == Len(s)
<1>1. /\ t \in Seq(Frames) /\ n \in Nat /\ n >= 1
      /\ Len(t) = n + 1 /\ t[n + 1] = f
      /\ \A i \in 1 .. n : t[i] = s[i]
  OBVIOUS
<1>2. t[1] = s[1] /\ t # <<>>
  BY <1>1
<1>3. ASSUME InOrder(s), f = [pkt |-> s[1].pkt, idx |-> n + 1]
      PROVE  InOrder(t)
  <2>1. ASSUME NEW i \in 1 .. n + 1
        PROVE  t[i] = [pkt |-> t[1].pkt, idx |-> i]
    <3>1. CASE i = n + 1
      BY <3>1, <1>1, <1>2, <1>3
    <3>2. CASE i # n + 1
      <4>1. i \in 1 .. n
        BY <3>2, <1>1
      <4> QED BY <4>1, <1>1, <1>2, <1>3 DEF InOrder
    <3> QED BY <3>1, <3>2
  <2> QED BY <2>1, <1>1 DEF InOrder
<1>4. ASSUME OnePair(s), Pair(f) = Pair(s[1])  PROVE OnePair(t)
  <2>1. ASSUME NEW i \in 1 .. n + 1  PROVE Pair(t[i]) = Pair(t[1])
    <3>1. CASE i = n + 1
      BY <3>1, <1>1, <1>2, <1>4
    <3>2. CASE i # n + 1
      <4>1. i \in 1 .. n
        BY <3>2, <1>1
      <4> QED BY <4>1, <1>1, <1>2, <1>4 DEF OnePair
    <3> QED BY <3>1, <3>2
  <2> QED BY <2>1, <1>1, <1>2, <1>4 DEF OnePair
<1> QED BY <1>1, <1>2, <1>3, <1>4

-----------------------------------------------------------------------------
(* A reception that changes entry e to r.                                  *)

FilledBy(r, f) ==
  /\ OnePair(r.got)
  /\ Pair(r.got[1]) = Pair(f)
  /\ r.size = Size(r.got[1])
  /\ Len(r.got) < r.size
  /\ Pair(f) \in orderly' => InOrder(r.got) /\ r.got[Len(r.got)] = f

LEMMA OneEntryGot ==
  ASSUME IInv, GotInv, NEW f \in Frames, Arrives(f),
         NEW e \in Entries, Chosen(e, f),
         NEW r, recon' = [recon EXCEPT ![e] = r],
         r.buf = NoBuf => r.got = <<>>,
         \/ r.timeout \in {"FAILED1", "UNUSED"}
         \/ /\ r.timeout = "ACTIVE" /\ r.key = Src(f) /\ r.tag = Tag(f)
            /\ r.buf # NoBuf => FilledBy(r, f),
         OutWhole'
  PROVE  GotInv'
<1>1. recon'[e] = r /\ \A d \in Entries \ {e} : recon'[d] = recon[d]
  BY DEF IInv, Typed
<1>2. \A d \in Entries \ {e} :
         /\ Key(d)' = Key(d) /\ (Filling(d)' <=> Filling(d))
         /\ (Failed(d)' <=> Failed(d))
  BY <1>1 DEF Key, Filling, Collecting, HasBuffer, Failed
<1>3. Filling(e)' => /\ r.timeout = "ACTIVE" /\ r.buf # NoBuf
                     /\ Key(e)' = Pair(f) /\ FilledBy(r, f)
  BY <1>1 DEF Filling, Collecting, HasBuffer, Key, Pair
<1>4. Failed(e)' => r.timeout = "FAILED1"
  BY <1>1 DEF Failed
<1>5. ASSUME NEW c \in Entries, Blocks(c, e)', Filling(e)'  PROVE FALSE
  <2>1. c # e /\ c < e
    BY <1>5 DEF Blocks, Entries
  <2>2. Failed(c) /\ Key(c) = Pair(f)
    BY <1>5, <2>1, <1>2, <1>3 DEF Blocks
  <2> QED BY <2>1, <2>2, ChosenNotHidden
<1>6. BlockersOutlive'
  <2> SUFFICES ASSUME NEW c \in Entries, NEW d \in Entries,
                      Blocks(c, d)', Filling(d)', recon'[d].timeout = "ACTIVE"
               PROVE  recon'[c].timeout = "FAILED1"
    BY DEF BlockersOutlive
  <2>1. CASE d = e
    BY <2>1, <1>5
  <2>2. CASE c = e
    BY <2>2, <1>1, <1>4 DEF Blocks
  <2>3. CASE c # e /\ d # e
    <3>1. Blocks(c, d) /\ Filling(d) /\ recon[d].timeout = "ACTIVE"
      BY <2>3, <1>1, <1>2 DEF Blocks
    <3>2. recon[c].timeout = "FAILED1"
      BY <3>1 DEF GotInv, BlockersOutlive
    <3> QED BY <3>2, <2>3, <1>1
  <2> QED BY <2>1, <2>2, <2>3
<1>7. ContentsOK(e)'
  <2>1. ASSUME Filling(e)', Key(e)' \in orderly'
        PROVE  /\ InOrder(recon'[e].got)
               /\ last'[Key(e)'] = recon'[e].got[Len(recon'[e].got)]
    BY <2>1, <1>1, <1>3, ArrivesHistory DEF FilledBy
  <2>2. recon'[e].buf = NoBuf => recon'[e].got = <<>>
    BY <1>1
  <2>3. ASSUME Filling(e)'
        PROVE  /\ OnePair(recon'[e].got)
               /\ Pair(recon'[e].got[1]) = Key(e)'
               /\ recon'[e].size = Size(recon'[e].got[1])
               /\ Len(recon'[e].got) < recon'[e].size
    BY <2>3, <1>1, <1>3 DEF FilledBy
  <2> QED BY <2>1, <2>2, <2>3 DEF ContentsOK, OnePair, Pair, Size, Src, Tag
<1>8. ASSUME NEW d \in Entries \ {e}  PROVE ContentsOK(d)'
  <2>1. ContentsOK(d)
    BY DEF GotInv
  <2>2. ASSUME Filling(d), Key(d) \in orderly',
               \A c \in Entries : ~Blocks(c, d)'
        PROVE  last'[Key(d)] = recon[d].got[Len(recon[d].got)]
    <3>1. \A c \in Entries : ~Blocks(c, d)
      <4>1. ASSUME NEW c \in Entries, Blocks(c, d)  PROVE FALSE
        <5>1. c # e
          BY <4>1, ChosenNotHidden DEF Blocks
        <5>2. Blocks(c, d)'
          BY <4>1, <5>1, <1>2 DEF Blocks
        <5> QED BY <5>2, <2>2
      <4> QED BY <4>1
    <3>2. Key(d) # Pair(f)
      BY <2>2, ChosenAlone DEF Filling, Key, Pair
    <3>3. Key(d) \in orderly /\ Key(d) \in Pairs
      <4>1. Pair(recon[d].got[1]) = Key(d) /\ recon[d].got # <<>>
        BY <2>1, <2>2 DEF ContentsOK, OnePair
      <4>2. recon[d].got[1] \in Frames
        BY <4>1 DEF IInv, Typed, EntryType
      <4> QED BY <4>1, <4>2, <2>2, ArrivesHistory DEF Pairs
    <3>4. last'[Key(d)] = last[Key(d)]
      BY <3>2, <3>3, ArrivesHistory
    <3> QED BY <2>1, <2>2, <3>1, <3>3, <3>4 DEF ContentsOK
  <2>3. Key(d) \in orderly' => Key(d) \in orderly
    BY ArrivesHistory
  <2> QED BY <2>1, <2>2, <2>3, <1>1, <1>2 DEF ContentsOK, OnePair, Pair, Size, Src, Tag
<1>9. last' \in [Pairs -> Frames \cup {NoFrame}]
  BY ArrivesHistory
<1> QED BY <1>6, <1>7, <1>8, <1>9 DEF GotInv

\* What a fragment adds to an entry's buffer, if there is one.
LEMMA GrownFills ==
  ASSUME IInv, GotInv, NEW f \in Frames, Arrives(f),
         NEW e \in Entries, Chosen(e, f), Room(e)
  PROVE  LET g == Grown(e, f)
         IN  /\ recon[e].buf = NoBuf => g.got = <<>>
             /\ recon[e].buf # NoBuf =>
                  /\ g.got \in Seq(Frames) /\ OnePair(g.got)
                  /\ Pair(g.got[1]) = Pair(f)
                  /\ g.size = Size(g.got[1])
                  /\ Len(g.got) = recon[e].rcvd + 1
                  /\ Pair(f) \in orderly' =>
                       InOrder(g.got) /\ g.got[Len(g.got)] = f
<1> DEFINE r == recon[e]
           g == Grown(e, f)
<1>1. r \in EntryType /\ EntryOK(r) /\ ContentsOK(e)
  BY DEF IInv, Typed, GotInv
<1>2. /\ g.size = r.size
      /\ g.got = IF r.buf = NoBuf THEN r.got ELSE Append(r.got, f)
  BY <1>1 DEF Grown, EntryType
<1>3. r.buf = NoBuf => g.got = <<>>
  BY <1>1, <1>2 DEF ContentsOK
<1>4. ASSUME r.buf # NoBuf
      PROVE  /\ g.got \in Seq(Frames) /\ OnePair(g.got)
             /\ Pair(g.got[1]) = Pair(f)
             /\ g.size = Size(g.got[1])
             /\ Len(g.got) = r.rcvd + 1
             /\ Pair(f) \in orderly' =>
                  InOrder(g.got) /\ g.got[Len(g.got)] = f
  <2>1. Filling(e)
    BY <1>4, ChosenAlone DEF Filling, HasBuffer
  <2>2. /\ r.got \in Seq(Frames) /\ r.got # <<>> /\ OnePair(r.got)
        /\ Pair(r.got[1]) = Key(e) /\ r.size = Size(r.got[1])
        /\ Len(r.got) = r.rcvd
    BY <2>1, <1>1, <1>4
       DEF EntryType, ContentsOK, EntryOK, Filling, Collecting, OnePair
  <2>3. Key(e) = Pair(f)
    BY <2>1, ChosenNotHidden
  <2>4. Pair(f) \in orderly' =>
          /\ InOrder(r.got)
          /\ f = [pkt |-> r.got[1].pkt, idx |-> Len(r.got) + 1]
    BY <2>1, NextInOrder
  <2>5. g.got = Append(r.got, f)
    BY <1>2, <1>4
  <2> HIDE DEF r, g
  <2>6. /\ g.got \in Seq(Frames) /\ g.got # <<>>
        /\ g.got[1] = r.got[1] /\ Len(g.got) = Len(r.got) + 1
        /\ g.got[Len(g.got)] = f
    BY <2>2, <2>5, AppendInOrder
  <2>7. (Pair(f) \in orderly' => InOrder(g.got)) /\ OnePair(g.got)
    BY <2>2, <2>3, <2>4, <2>5, AppendInOrder
  <2> QED BY <2>2, <2>3, <2>6, <2>7, <1>2
<1> QED BY <1>3, <1>4

LEMMA StartFailsGot ==
  ASSUME HeadersUnpack, IInv, GotInv, NEW f \in Frames, NEW e \in Entries,
         StartFails(e, f)
  PROVE  GotInv'
<1> DEFINE r == recon[e]
           s == [r EXCEPT !.timeout = "FAILED1", !.tag = Tag(f),
                          !.size = Size(f), !.buf = NoBuf, !.idle = 0]
<1>1. r \in EntryType /\ r.buf = NoBuf /\ ContentsOK(e)
  BY DEF IInv, Typed, GotInv, StartFails
<1>2. s.timeout = "FAILED1" /\ s.buf = NoBuf /\ s.got = <<>>
  BY <1>1 DEF EntryType, ContentsOK
<1>3. recon' = [recon EXCEPT ![e] = s]
  <2>1. LeftInBuf = {NoBuf}
    BY DEF LeftInBuf
  <2> QED BY <2>1 DEF StartFails
<1>4. OutWhole'
  BY DEF StartFails, OutWhole
<1>5. Arrives(f) /\ Chosen(e, f)
  BY DEF StartFails
<1> HIDE DEF s
<1> QED BY <1>2, <1>3, <1>4, <1>5, OneEntryGot

LEMMA TooMuchGot ==
  ASSUME IInv, GotInv, NEW f \in Frames, NEW e \in Entries, TooMuch(e, f)
  PROVE  GotInv'
<1> DEFINE r == recon[e]
           s == [r EXCEPT !.timeout = "FAILED1", !.idle = 0]
<1>1. r \in EntryType /\ ContentsOK(e)
  BY DEF IInv, Typed, GotInv
<1>2. s.timeout = "FAILED1" /\ s.buf = r.buf /\ s.got = r.got
  BY <1>1 DEF EntryType
<1>3. s.buf = NoBuf => s.got = <<>>
  BY <1>1, <1>2 DEF ContentsOK
<1>4. recon' = [recon EXCEPT ![e] = s] /\ OutWhole'
  BY DEF TooMuch, OutWhole
<1>5. Arrives(f) /\ Chosen(e, f)
  BY DEF TooMuch
<1> HIDE DEF s
<1> QED BY <1>2, <1>3, <1>4, <1>5, OneEntryGot

\* A first fragment that finds a buffer is out of order.
LEMMA FirstAgainGot ==
  ASSUME IInv, GotInv, NEW f \in Frames, NEW e \in Entries, FirstAgain(e, f)
  PROVE  GotInv'
<1> DEFINE r == recon[e]
           s == [r EXCEPT !.timeout = "ACTIVE", !.idle = 0]
<1>1. r \in EntryType /\ ContentsOK(e) /\ r.buf # NoBuf
  BY DEF IInv, Typed, GotInv, FirstAgain
<1>2. /\ s.timeout = "ACTIVE" /\ s.key = r.key /\ s.tag = r.tag
      /\ s.buf = r.buf /\ s.size = r.size /\ s.got = r.got
  BY <1>1 DEF EntryType
<1>3. Arrives(f) /\ Chosen(e, f) /\ f.idx = 1
  BY DEF FirstAgain
<1>4. Filling(e)
  BY <1>1, <1>3, ChosenAlone DEF Filling, HasBuffer
<1>5. Key(e) = Pair(f)
  BY <1>3, <1>4, ChosenNotHidden
<1>6. Pair(f) \notin orderly'
  <2> SUFFICES ASSUME Pair(f) \in orderly'  PROVE FALSE
    OBVIOUS
  <2>1. f.idx = Len(r.got) + 1
    BY <1>3, <1>4, NextInOrder
  <2>2. r.got # <<>> /\ r.got \in Seq(Frames)
    BY <1>1, <1>4 DEF ContentsOK, OnePair, EntryType
  <2> QED BY <2>1, <2>2, <1>3
<1>7. FilledBy(s, f)
  BY <1>1, <1>2, <1>4, <1>5, <1>6 DEF ContentsOK, FilledBy
<1>8. recon' = [recon EXCEPT ![e] = s] /\ OutWhole'
  BY DEF FirstAgain, OutWhole
<1>9. s.key = Src(f) /\ s.tag = Tag(f)
  BY <1>2, <1>5 DEF Key, Pair
<1> HIDE DEF s
<1> QED BY <1>1, <1>2, <1>3, <1>7, <1>8, <1>9, OneEntryGot

LEMMA StartedGot ==
  ASSUME IInv, GotInv, NEW f \in Frames, NEW e \in Entries, Started(e, f)
  PROVE  GotInv'
<1>1. PICK b \in Buffers \ used :
        recon' = [recon EXCEPT ![e] =
             [timeout |-> "ACTIVE", key |-> Src(f), tag |-> Tag(f),
              size |-> Size(f), rcvd |-> 1, buf |-> b, got |-> <<f>>,
              idle |-> 0]]
  BY DEF Started
<1> DEFINE s == [timeout |-> "ACTIVE", key |-> Src(f), tag |-> Tag(f),
                 size |-> Size(f), rcvd |-> 1, buf |-> b, got |-> <<f>>,
                 idle |-> 0]
<1>2. Arrives(f) /\ Chosen(e, f) /\ f.idx = 1 /\ OutWhole'
  BY DEF Started, OutWhole
<1>3. Size(f) \in Nat /\ Size(f) >= 2
  BY FrameParts
<1>4. f = [pkt |-> f.pkt, idx |-> 1]
  BY <1>2 DEF Frames
<1>5. InOrder(<<f>>) /\ OnePair(<<f>>)
  BY <1>2, <1>4 DEF InOrder, OnePair
<1>6. s.buf # NoBuf /\ FilledBy(s, f)
  BY <1>3, <1>5, ReassemblyAssumption DEF FilledBy
<1>7. /\ recon' = [recon EXCEPT ![e] = s]
      /\ s.timeout = "ACTIVE" /\ s.key = Src(f) /\ s.tag = Tag(f)
  BY <1>1
<1> HIDE DEF s
<1> QED BY <1>2, <1>6, <1>7, OneEntryGot

LEMMA AddedGot ==
  ASSUME IInv, GotInv, NEW f \in Frames, NEW e \in Entries, Added(e, f)
  PROVE  GotInv'
<1> DEFINE g == Grown(e, f)
<1>1. Arrives(f) /\ Chosen(e, f) /\ Room(e) /\ ~Complete(e) /\ OutWhole'
  BY DEF Added, OutWhole
<1>2. /\ g.buf = recon[e].buf /\ g.key = Src(f) /\ g.tag = Tag(f)
  BY <1>1, GrownOK
<1>3. recon[e] \in EntryType
  BY DEF IInv, Typed
<1>4. /\ g.timeout = "ACTIVE" /\ g.size = recon[e].size
      /\ recon[e].rcvd \in Nat /\ recon[e].size \in Nat
  BY <1>3 DEF Grown, EntryType
<1>5. recon[e].rcvd + 1 < g.size
  BY <1>1, <1>4 DEF Room, Complete
<1>6. /\ g.buf = NoBuf => g.got = <<>>
      /\ g.buf # NoBuf => FilledBy(g, f)
  BY <1>1, <1>2, <1>5, GrownFills DEF FilledBy
<1>7. recon' = [recon EXCEPT ![e] = g]
  BY DEF Added
<1> HIDE DEF g
<1> QED BY <1>1, <1>2, <1>4, <1>6, <1>7, OneEntryGot

\* A whole packet, put together in order.
LEMMA InOrderWhole ==
  ASSUME NEW s \in Seq(Frames), s # <<>>, InOrder(s)
  PROVE  /\ Len(s) <= Size(s[1]) => IsPrefix(s, PacketOf(s[1]))
         /\ Len(s) = Size(s[1]) => s = PacketOf(s[1])
<1> DEFINE p == PacketOf(s[1])
           n == Len(s)
<1>1. n \in Nat /\ n >= 1 /\ s = [i \in 1 .. n |-> s[i]] /\ s[1] \in Frames
  OBVIOUS
<1>2. Size(s[1]) \in Nat
  BY <1>1, FrameParts
<1>3. p = [i \in 1 .. Size(s[1]) |-> [pkt |-> s[1].pkt, idx |-> i]]
  BY DEF PacketOf
<1>4. \A i \in 1 .. n : s[i] = [pkt |-> s[1].pkt, idx |-> i]
  BY DEF InOrder
<1>5. n = Size(s[1]) => s = p
  BY <1>1, <1>2, <1>3, <1>4
<1>6. Len(p) = Size(s[1])
  BY <1>2, <1>3
<1>7. ASSUME n <= Size(s[1])  PROVE IsPrefix(s, p)
  <2>1. SubSeq(s, 1, n) = [i \in 1 .. n |-> s[i]]
    BY <1>1
  <2>2. SubSeq(p, 1, n) = [i \in 1 .. n |-> p[i]]
    BY <1>1
  <2>3. \A i \in 1 .. n : s[i] = p[i]
    BY <1>1, <1>2, <1>3, <1>4, <1>7
  <2> HIDE DEF p, n
  <2>4. SubSeq(s, 1, n) = SubSeq(p, 1, n)
    BY <2>1, <2>2, <2>3
  <2> QED BY <2>4, <1>6, <1>7 DEF IsPrefix, n
<1> QED BY <1>5, <1>7

LEMMA DeliveredGot ==
  ASSUME IInv, GotInv, NEW f \in Frames, NEW e \in Entries, Delivered(e, f)
  PROVE  GotInv'
<1> DEFINE g == Grown(e, f)
           s == GivenUp(g)
<1>1. /\ Arrives(f) /\ Chosen(e, f) /\ Room(e) /\ Complete(e)
      /\ out' = g.got /\ recon' = [recon EXCEPT ![e] = s]
  BY DEF Delivered
<1>2. recon[e] \in EntryType /\ g \in EntryType
  BY <1>1, GrownOK DEF IInv, Typed, EntryOK
<1>3. s.timeout = "UNUSED" /\ s.got = <<>>
  BY <1>2 DEF GivenUp, EntryType
<1>4. g.size = recon[e].rcvd + 1
  BY <1>1, <1>2 DEF Grown, EntryType, Complete
<1>5. OutWhole'
  <2> SUFFICES ASSUME g.got # <<>>
               PROVE  /\ OnePair(g.got) /\ Len(g.got) = Size(g.got[1])
                      /\ Pair(g.got[1]) \in orderly' =>
                           g.got = PacketOf(g.got[1])
    BY <1>1 DEF OutWhole, OnePair, Orderly, Pair, Src, Tag, PacketOf, Size
  <2>1. /\ g.got \in Seq(Frames) /\ OnePair(g.got)
        /\ Len(g.got) = Size(g.got[1])
        /\ Pair(g.got[1]) \in orderly' => InOrder(g.got)
    BY <1>1, <1>4, GrownFills
  <2> HIDE DEF g
  <2> QED BY <2>1, InOrderWhole
<1> HIDE DEF s
<1> QED BY <1>1, <1>3, <1>5, OneEntryGot

-----------------------------------------------------------------------------
\* A fragment that finds no entry: the one that collects its packet is hidden.
LEMMA NoEntryGot ==
  ASSUME IInv, GotInv, NEW f \in Frames, NoEntry(f)
  PROVE  GotInv'
<1>1. Arrives(f) /\ recon' = recon /\ out' = <<>>
  BY DEF NoEntry
<1>2. \A d \in Entries : /\ Key(d)' = Key(d) /\ (Filling(d)' <=> Filling(d))
                         /\ (Failed(d)' <=> Failed(d))
  BY <1>1 DEF Key, Filling, Collecting, HasBuffer, Failed
<1>3. BlockersOutlive'
  BY <1>1, <1>2 DEF GotInv, BlockersOutlive, Blocks
<1>4. ASSUME NEW d \in Entries  PROVE ContentsOK(d)'
  <2>1. ContentsOK(d)
    BY DEF GotInv
  <2>2. ASSUME Filling(d), \A c \in Entries : ~Blocks(c, d)
        PROVE  Key(d) # Pair(f)
    <3> SUFFICES ASSUME Key(d) = Pair(f)  PROVE Chosen(d, f)
      BY DEF NoEntry
    <3>1. Collecting(d) /\ Matches(d, f)
      BY <2>2 DEF Filling, Collecting, Unused, Matches, Key, Pair
    <3>2. ASSUME NEW c \in 1 .. d - 1, Matches(c, f)  PROVE FALSE
      <4>1. c \in Entries /\ c < d
        BY ReassemblyAssumption DEF Entries
      <4>2. Key(c) = Key(d) /\ ~Unused(c)
        BY <3>2 DEF Matches, Key, Pair
      <4>3. ~Failed(c)
        BY <4>1, <4>2, <2>2 DEF Blocks
      <4>4. Collecting(c)
        BY <4>1, <4>2, <4>3
           DEF Failed, Unused, Collecting, IInv, Typed, EntryType, TimeoutStates
      <4>5. c = d
        BY <4>1, <4>2, <4>4, <3>1 DEF IInv, OneCollector, Key
      <4> QED BY <4>1, <4>5 DEF Entries
    <3> QED BY <3>1, <3>2 DEF Chosen
  <2>3. ASSUME Filling(d), Key(d) \in orderly',
               \A c \in Entries : ~Blocks(c, d)
        PROVE  last'[Key(d)] = recon[d].got[Len(recon[d].got)]
    <3>1. Key(d) \in orderly /\ Key(d) \in Pairs
      <4>1. Pair(recon[d].got[1]) = Key(d) /\ recon[d].got # <<>>
        BY <2>1, <2>3 DEF ContentsOK, OnePair
      <4>2. recon[d].got[1] \in Frames
        BY <4>1 DEF IInv, Typed, EntryType
      <4> QED BY <4>1, <4>2, <2>3, <1>1, ArrivesHistory DEF Pairs
    <3>2. last'[Key(d)] = last[Key(d)]
      BY <2>2, <2>3, <3>1, <1>1, ArrivesHistory
    <3> QED BY <2>1, <2>3, <3>1, <3>2 DEF ContentsOK
  <2>4. Key(d) \in orderly' => Key(d) \in orderly
    BY <1>1, ArrivesHistory
  <2> QED
    BY <2>1, <2>3, <2>4, <1>1, <1>2
       DEF ContentsOK, Blocks, Pair, Size, Src, Tag
<1>5. last' \in [Pairs -> Frames \cup {NoFrame}] /\ OutWhole'
  BY <1>1, ArrivesHistory DEF OutWhole
<1> QED BY <1>3, <1>4, <1>5 DEF GotInv

\* What the timer leaves of an entry.
LEMMA AgedKeeps ==
  ASSUME NEW r \in EntryType
  PROVE  /\ Aged(r).timeout # "ACTIVE"
         /\ Aged(r).timeout = "ZOMBIE" => r.timeout = "ACTIVE"
         /\ r.timeout = "ACTIVE" =>
              /\ Aged(r).key = r.key /\ Aged(r).tag = r.tag
              /\ Aged(r).buf = r.buf /\ Aged(r).got = r.got
              /\ Aged(r).size = r.size
         /\ r.timeout = "FAILED1" =>
              /\ Aged(r).timeout = "FAILED2"
              /\ Aged(r).key = r.key /\ Aged(r).tag = r.tag
         /\ (r.buf = NoBuf => r.got = <<>>) =>
              (Aged(r).buf = NoBuf => Aged(r).got = <<>>)
<1>1. CASE r.timeout = "ACTIVE"
  <2>1. Aged(r) = Later(r, "ZOMBIE")
    BY <1>1 DEF Aged
  <2> QED BY <2>1, <1>1 DEF Later, EntryType
<1>2. CASE r.timeout = "FAILED1"
  <2>1. Aged(r) = Later(r, "FAILED2")
    BY <1>2 DEF Aged
  <2> QED BY <2>1, <1>2 DEF Later, EntryType
<1>3. CASE r.timeout \in {"ZOMBIE", "FAILED2"}
  <2>1. Aged(r) = GivenUp(r)
    BY <1>3 DEF Aged
  <2> QED BY <2>1, <1>3 DEF GivenUp, EntryType
<1>4. CASE r.timeout = "UNUSED"
  <2>1. Aged(r) = r
    BY <1>4 DEF Aged
  <2> QED BY <2>1, <1>4
<1> QED BY <1>1, <1>2, <1>3, <1>4 DEF EntryType, TimeoutStates

LEMMA TimerGot ==
  ASSUME IInv, GotInv, ExpireTimerFired
  PROVE  GotInv'
<1>1. /\ \A d \in Entries : recon'[d] = Aged(recon[d])
      /\ out' = <<>> /\ last' = last /\ orderly' = orderly
  BY DEF ExpireTimerFired
<1>2. \A d \in Entries : recon[d] \in EntryType
  BY DEF IInv, Typed
<1>3. \A d \in Entries : recon'[d].timeout # "ACTIVE"
  BY <1>1, <1>2, AgedKeeps
<1>4. BlockersOutlive'
  BY <1>3 DEF BlockersOutlive
<1>5. ASSUME NEW d \in Entries  PROVE ContentsOK(d)'
  <2>1. ContentsOK(d)
    BY DEF GotInv
  <2>2. recon'[d].buf = NoBuf => recon'[d].got = <<>>
    BY <2>1, <1>1, <1>2, AgedKeeps DEF ContentsOK
  <2>3. ASSUME Filling(d)'
        PROVE  /\ Filling(d) /\ Key(d)' = Key(d)
               /\ recon[d].timeout = "ACTIVE"
               /\ recon'[d].got = recon[d].got
               /\ recon'[d].size = recon[d].size
    <3>1. recon'[d].timeout = "ZOMBIE" /\ recon'[d].buf # NoBuf
      BY <2>3, <1>3 DEF Filling, Collecting, HasBuffer
    <3>2. recon[d].timeout = "ACTIVE"
      BY <3>1, <1>1, <1>2, AgedKeeps
    <3> QED BY <3>1, <3>2, <1>1, <1>2, AgedKeeps
            DEF Filling, Collecting, HasBuffer, Key
  <2>4. ASSUME Filling(d)', NEW c \in Entries, Blocks(c, d)
        PROVE  Blocks(c, d)'
    <3>1. recon[c].timeout = "FAILED1"
      BY <2>3, <2>4 DEF GotInv, BlockersOutlive
    <3>2. Failed(c)' /\ Key(c)' = Key(c)
      BY <3>1, <1>1, <1>2, AgedKeeps DEF Failed, Key
    <3> QED BY <3>2, <2>3, <2>4 DEF Blocks
  <2> QED
    BY <2>1, <2>2, <2>3, <2>4, <1>1
       DEF ContentsOK, OnePair, Pair, Size, Src, Tag
<1>6. last' \in [Pairs -> Frames \cup {NoFrame}] /\ OutWhole'
  BY <1>1 DEF GotInv, OutWhole
<1> QED BY <1>4, <1>5, <1>6 DEF GotInv

LEMMA NextGot ==
  ASSUME HeadersUnpack, IInv, GotInv, [Next]_vars
  PROVE  GotInv'
<1>1. CASE ExpireTimerFired
  BY <1>1, TimerGot
<1>2. ASSUME NEW f \in Frames, Receive(f)  PROVE GotInv'
  <2>1. CASE NoEntry(f)
    BY <2>1, NoEntryGot
  <2>2. ASSUME NEW e \in Entries,
               \/ FirstAgain(e, f) \/ StartFails(e, f) \/ Started(e, f)
               \/ TooMuch(e, f) \/ Added(e, f) \/ Delivered(e, f)
        PROVE  GotInv'
    BY <2>2, FirstAgainGot, StartFailsGot, StartedGot, TooMuchGot, AddedGot,
       DeliveredGot
  <2> QED BY <2>1, <2>2, <1>2 DEF Receive
<1>3. CASE UNCHANGED vars
  <2>1. UNCHANGED <<recon, last, orderly, out>>
    BY <1>3 DEF vars
  <2>2. OutWhole' /\ BlockersOutlive' /\ \A e \in Entries : ContentsOK(e)'
    BY <2>1 DEF GotInv, OutWhole, OnePair, Orderly, PacketOf, BlockersOutlive,
                Blocks, ContentsOK, Filling, Collecting, HasBuffer, Failed, Key,
                InOrder, Pair, Src, Tag, Size
  <2> QED BY <2>1, <2>2 DEF GotInv
<1> QED BY <1>1, <1>2, <1>3 DEF Next

\* For any packets (each in two fragments at least), entries and heap, if all
\* headers can be unpacked.  Whatever is lost, repeated or overtaken, a buffer
\* takes fragments of one source and tag alone, and what is delivered from it
\* has the length that its first fragment gave.  If moreover the fragments of
\* that source and tag all came once and in order, what is delivered is one
\* whole packet, whatever becomes of other packets, of entries that have failed,
\* and of the timer in between.
THEOREM ReassemblyIntact ==
  ASSUME HeadersUnpack  PROVE Spec => []Intact
<1>1. ASSUME IInv, GotInv  PROVE Intact
  <2>1. ASSUME NEW e \in Entries, HasBuffer(e), Collecting(e)
        PROVE  /\ OnePair(recon[e].got)
               /\ Orderly(recon[e].got[1]) =>
                    IsPrefix(recon[e].got, PacketOf(recon[e].got[1]))
    <3>1. OnePair(recon[e].got)
      BY <1>1, <2>1 DEF GotInv, ContentsOK, Filling
    <3>2. ASSUME Orderly(recon[e].got[1])
          PROVE  IsPrefix(recon[e].got, PacketOf(recon[e].got[1]))
      <4>1. /\ recon[e].got # <<>> /\ InOrder(recon[e].got)
            /\ Len(recon[e].got) < Size(recon[e].got[1])
        BY <1>1, <2>1, <3>1, <3>2
           DEF GotInv, ContentsOK, Filling, Orderly, OnePair
      <4>2. recon[e].got \in Seq(Frames)
        BY <1>1 DEF IInv, Typed, EntryType
      <4>3. Size(recon[e].got[1]) \in Nat
        BY <4>1, <4>2, FrameParts
      <4> QED BY <4>1, <4>2, <4>3, InOrderWhole
    <3> QED BY <3>1, <3>2
  <2> QED BY <2>1, <1>1 DEF Intact, GotInv, OutWhole
<1> QED BY <1>1, InitInv, InitGot, NextInv, NextGot, PTL DEF Spec

=============================================================================
