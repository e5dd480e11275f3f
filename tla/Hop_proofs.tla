------------------------------ MODULE Hop_proofs ------------------------------
(***************************************************************************)
(* For any number of retries, history and other senders: the CC2420 link   *)
(* gives the service that the layers above expect, does not take a new     *)
(* frame for a copy while no number is used again, and drops copies while  *)
(* they are remembered.                                                    *)
(*                                                                         *)
(* The inductive invariant has five parts: what the sender waits for is    *)
(* one thing (OneOf), it counts its attempts (Counts), the receiver's      *)
(* history has each source once (SourcesOnce) and no number the sender has *)
(* yet to use (Numbers), and a frame passed on is remembered, at first not *)
(* where the next source goes (Remembered).                                *)
(***************************************************************************)
EXTENDS Hop, TLAPS

OneOf ==
  /\ state \in {"idle", "sending"} /\ air \in {"nothing", "sending", "heard"}
  /\ posted \in BOOLEAN /\ delayTimer \in BOOLEAN /\ retryDelay \in BOOLEAN
  /\ wasAcked \in BOOLEAN
  /\ state = "idle" => air = "nothing" /\ ~delayTimer /\ ~posted
  /\ state = "sending" => \/ air # "nothing" /\ ~delayTimer /\ ~posted
                          \/ air = "nothing" /\ delayTimer /\ ~posted
                          \/ air = "nothing" /\ ~delayTimer /\ posted

Counts ==
  /\ maxRetries \in 0 .. MaxRetries
  /\ totalRetries \in Nat
  /\ state = "sending" => totalRetries = 0 \/ totalRetries < maxRetries

Ids == 0 .. IdSize - 1

Receives ==
  /\ history \in [Places -> [source : Others \cup {Us, Nobody}, dsn : Nat]]
  /\ writeIndex \in Places
  /\ copies \in Nat /\ since \in Nat /\ heard \in Nat
  /\ sends \in Nat /\ dsn \in Nat /\ localSendId \in Nat

\* While no number has been used twice.
Numbers ==
  sends <= IdSize =>
    /\ sends < IdSize => localSendId = sends
    /\ state = "sending" => dsn = sends - 1 /\ sends > 0
    /\ \A p \in Places : history[p].source = Us => history[p].dsn < sends
    /\ state = "sending" /\ copies = 0 =>
         \A p \in Places : history[p].source = Us => history[p].dsn < sends - 1
    /\ air = "heard" \/ wasAcked => copies >= 1

Remembered ==
  state = "sending" /\ copies >= 1 =>
    \/ since >= 2
    \/ \E p \in Places : /\ history[p] = [source |-> Us, dsn |-> dsn]
                         /\ since = 0 => p # writeIndex

IInv == OneOf /\ Counts /\ Receives /\ SourcesOnce /\ Numbers /\ Remembered

-----------------------------------------------------------------------------
LEMMA InitInv == Init => IInv
<1> SUFFICES ASSUME Init  PROVE IInv
  OBVIOUS
<1>1. /\ history = [i \in Places |-> [source |-> Nobody, dsn |-> 0]]
      /\ 0 \in Places /\ \A p \in Places : history[p].source # Us
  BY HopAssumption DEF Init, Places
<1>2. Receives
  BY <1>1 DEF Init, Receives
<1>3. OneOf /\ Counts
  <2>1. OneOf
    BY DEF Init, OneOf
  <2>2. maxRetries = 0 /\ totalRetries = 0 /\ state = "idle"
    BY DEF Init
  <2>3. MaxRetries \in Nat
    BY HopAssumption
  <2>4. Counts
    BY <2>2, <2>3 DEF Counts
  <2> QED BY <2>1, <2>4
<1>4. Numbers /\ Remembered
  BY <1>1, HopAssumption DEF Init, Numbers, Remembered
<1>5. SourcesOnce
  BY <1>1 DEF SourcesOnce
<1> QED BY <1>2, <1>3, <1>4, <1>5 DEF IInv

\* Where a frame of source s is put, and what becomes of the other places.
LEMMA InsertParts ==
  ASSUME Receives, SourcesOnce, NEW s \in Others \cup {Us}, NEW n \in Nat,
         Insert(s, n)
  PROVE  \E e \in Places :
           /\ \/ history[e].source = s
              \/ e = writeIndex /\ \A p \in Places : history[p].source # s
           /\ e = writeIndex => writeIndex' # e
           /\ e # writeIndex => writeIndex' = writeIndex
           /\ writeIndex' \in Places
           /\ history' \in [Places ->
                              [source : Others \cup {Us, Nobody}, dsn : Nat]]
           /\ history'[e] = [source |-> s, dsn |-> n]
           /\ \A p \in Places \ {e} : history'[p] = history[p]
<1> DEFINE e == Element(s)
           I == {i \in Places : history[i].source = s}
<1>1. /\ e \in Places
      /\ \/ history[e].source = s
         \/ e = writeIndex /\ \A p \in Places : history[p].source # s
  <2>1. CASE I = {}
    BY <2>1 DEF Element, Receives
  <2>2. CASE I # {}
    <3>1. PICK i \in Places : history[i].source = s
      BY <2>2
    <3>2. \A j \in I : j = i
      BY <3>1, HopAssumption DEF SourcesOnce
    <3>3. i \in I /\ \A j \in I : j <= i
      BY <3>1, <3>2, HopAssumption DEF Places
    <3>4. e = CHOOSE k \in I : \A j \in I : j <= k
      BY <2>2 DEF Element
    <3>5. e \in I
      BY <3>3, <3>4
    <3> QED BY <3>5
  <2> QED BY <2>1, <2>2
<1>2. /\ history' = [history EXCEPT ![e] = [source |-> s, dsn |-> n]]
      /\ writeIndex' = IF e # writeIndex THEN writeIndex
                       ELSE IF writeIndex = HistorySize - 1 THEN 0
                       ELSE writeIndex + 1
  BY DEF Insert
<1> HIDE DEF e, I
<1>3. writeIndex' \in Places /\ (e = writeIndex => writeIndex' # e)
  BY <1>1, <1>2, HopAssumption DEF Receives, Places
<1>4. [source |-> s, dsn |-> n] \in [source : Others \cup {Us, Nobody}, dsn : Nat]
  OBVIOUS
<1>5. /\ history' \in [Places -> [source : Others \cup {Us, Nobody}, dsn : Nat]]
      /\ history'[e] = [source |-> s, dsn |-> n]
      /\ \A p \in Places \ {e} : history'[p] = history[p]
  BY <1>1, <1>2, <1>4 DEF Receives
<1> QED BY <1>1, <1>2, <1>3, <1>5

\* A source is still remembered once.
LEMMA InsertOnce ==
  ASSUME Receives, SourcesOnce, NEW s \in Others \cup {Us}, NEW n \in Nat,
         Insert(s, n)
  PROVE  SourcesOnce'
<1>1. PICK e \in Places :
        /\ history[e].source = s \/ \A p \in Places : history[p].source # s
        /\ history'[e] = [source |-> s, dsn |-> n]
        /\ \A p \in Places \ {e} : history'[p] = history[p]
  BY InsertParts
<1>2. \A i \in Places \ {e} : history'[i].source # s
  BY <1>1, HopAssumption DEF SourcesOnce
<1>3. ASSUME NEW i \in Places, NEW j \in Places,
             history'[i].source = history'[j].source,
             history'[i].source # Nobody
      PROVE  i = j
  <2>1. CASE i = e \/ j = e
    BY <2>1, <1>1, <1>2, <1>3
  <2>2. CASE i # e /\ j # e
    BY <2>2, <1>1, <1>3 DEF SourcesOnce
  <2> QED BY <2>1, <2>2
<1> QED BY <1>3 DEF SourcesOnce

-----------------------------------------------------------------------------
(* The receiver.                                                           *)

LEMMA HeardInv == ASSUME IInv, Heard  PROVE IInv'
<1>1. OneOf /\ Counts /\ Receives /\ SourcesOnce /\ Numbers /\ Remembered
  BY DEF IInv
<1>2. /\ air = "sending" /\ air' = "heard" /\ state = "sending"
      /\ UNCHANGED sender /\ heard' = heard
  BY <1>1 DEF Heard, OneOf
<1>3. OneOf' /\ Counts'
  BY <1>1, <1>2 DEF OneOf, Counts, sender
<1>4. CASE hasSeen(Us, dsn)
  <2>1. UNCHANGED <<history, writeIndex, copies, since>>
    BY <1>4 DEF Heard
  <2>2. Receives' /\ SourcesOnce' /\ Remembered'
    BY <2>1, <1>1, <1>2 DEF sender, Receives, SourcesOnce, Remembered
  <2>3. Numbers'
    <3>1. ASSUME sends <= IdSize  PROVE copies # 0
      <4>1. PICK p \in Places : history[p].source = Us /\ history[p].dsn = dsn
        BY <1>4 DEF hasSeen
      <4>2. dsn = sends - 1 /\ sends \in Nat
        BY <3>1, <1>1, <1>2 DEF Numbers, Receives
      <4> QED BY <4>1, <4>2, <3>1, <1>1, <1>2 DEF Numbers
    <3>2. copies \in Nat
      BY <1>1 DEF Receives
    <3> QED BY <3>1, <3>2, <2>1, <1>1, <1>2 DEF sender, Numbers
  <2> QED BY <2>2, <2>3, <1>3 DEF IInv
<1>5. CASE ~hasSeen(Us, dsn)
  <2>1. /\ Insert(Us, dsn) /\ copies' = copies + 1 /\ since' = 0
        /\ dsn \in Nat /\ copies \in Nat
    BY <1>5, <1>1 DEF Heard, Receives
  <2>2. PICK e \in Places :
          /\ e = writeIndex => writeIndex' # e
          /\ e # writeIndex => writeIndex' = writeIndex
          /\ writeIndex' \in Places
          /\ history' \in [Places ->
                             [source : Others \cup {Us, Nobody}, dsn : Nat]]
          /\ history'[e] = [source |-> Us, dsn |-> dsn]
          /\ \A p \in Places \ {e} : history'[p] = history[p]
    BY <2>1, <1>1, InsertParts
  <2>3. Receives'
    BY <2>1, <2>2, <1>1, <1>2 DEF sender, Receives
  <2>4. SourcesOnce'
    BY <2>1, <1>1, InsertOnce
  <2>5. Remembered'
    BY <2>1, <2>2, <1>2 DEF sender, Remembered
  <2>6. Numbers'
    <3>1. copies' # 0 /\ copies' >= 1
      BY <2>1
    <3>2. ASSUME sends <= IdSize, NEW p \in Places, history'[p].source = Us
          PROVE  history'[p].dsn < sends
      <4>1. CASE p = e
        BY <4>1, <3>2, <2>2, <1>1, <1>2 DEF Numbers, Receives
      <4>2. CASE p # e
        BY <4>2, <3>2, <2>2, <1>1 DEF Numbers
      <4> QED BY <4>1, <4>2
    <3> QED BY <3>1, <3>2, <1>1, <1>2 DEF sender, Numbers
  <2> QED BY <2>3, <2>4, <2>5, <2>6, <1>3 DEF IInv
<1> QED BY <1>4, <1>5

LEMMA OtherHeardInv ==
  ASSUME IInv, NEW s \in Others, OtherHeard(s)  PROVE IInv'
<1>1. OneOf /\ Counts /\ Receives /\ SourcesOnce /\ Numbers /\ Remembered
  BY DEF IInv
<1>2. /\ heard' = heard + 1 /\ Insert(s, heard') /\ since' = since + 1
      /\ UNCHANGED sender /\ air' = air /\ copies' = copies
      /\ heard' \in Nat /\ s # Us /\ since \in Nat
  BY <1>1, HopAssumption DEF OtherHeard, Receives
<1>3. OneOf' /\ Counts'
  BY <1>1, <1>2 DEF OneOf, Counts, sender
<1>4. PICK e \in Places :
        /\ history[e].source = s \/ e = writeIndex
        /\ writeIndex' \in Places
        /\ history' \in [Places ->
                           [source : Others \cup {Us, Nobody}, dsn : Nat]]
        /\ history'[e] = [source |-> s, dsn |-> heard']
        /\ \A p \in Places \ {e} : history'[p] = history[p]
  BY <1>1, <1>2, InsertParts
<1>5. Receives' /\ SourcesOnce'
  <2>1. Receives'
    BY <1>1, <1>2, <1>4 DEF sender, Receives
  <2> QED BY <2>1, <1>1, <1>2, InsertOnce
<1>6. \A p \in Places : history'[p].source = Us => history'[p] = history[p]
  BY <1>2, <1>4
<1>7. Numbers'
  BY <1>1, <1>2, <1>6 DEF sender, Numbers
<1>8. Remembered'
  <2>1. CASE since = 0
    <3>1. ASSUME state = "sending", copies >= 1
          PROVE  \E p \in Places : history'[p] = [source |-> Us, dsn |-> dsn]
      <4>1. PICK p \in Places : /\ history[p] = [source |-> Us, dsn |-> dsn]
                                /\ p # writeIndex
        BY <3>1, <2>1, <1>1 DEF Remembered
      <4>2. p # e
        BY <4>1, <1>2, <1>4
      <4> QED BY <4>1, <4>2, <1>4
    <3> QED BY <3>1, <2>1, <1>2 DEF sender, Remembered
  <2>2. CASE since # 0
    <3>1. since' >= 2
      BY <2>2, <1>2
    <3> QED BY <3>1 DEF Remembered
  <2> QED BY <2>1, <2>2
<1> QED BY <1>3, <1>5, <1>7, <1>8 DEF IInv

-----------------------------------------------------------------------------
(* The sender.                                                             *)

\* The next number, as long as none is used twice.
LEMMA NumberedParts ==
  ASSUME Receives, Numbers, Numbered
  PROVE  /\ sends' = sends + 1 /\ dsn' = localSendId
         /\ sends' \in Nat /\ dsn' \in Nat /\ localSendId' \in Nat
         /\ sends' <= IdSize => dsn' = sends /\ sends' > 0
         /\ sends' < IdSize => localSendId' = sends'
<1>1. /\ sends' = sends + 1 /\ dsn' = localSendId
      /\ localSendId' = (localSendId + 1) % IdSize
      /\ sends \in Nat /\ localSendId \in Nat /\ IdSize \in Nat \ {0}
  BY HopAssumption DEF Numbered, Receives
<1>2. localSendId' \in Nat
  BY <1>1
<1>3. sends < IdSize => localSendId = sends
  BY <1>1 DEF Numbers
<1>4. sends + 1 < IdSize => (sends + 1) % IdSize = sends + 1
  BY <1>1
<1> QED BY <1>1, <1>2, <1>3, <1>4

LEMMA AcceptedInv ==
  ASSUME IInv, NEW r \in 0 .. MaxRetries, NEW d \in BOOLEAN,
         SendAccepted(r, d)
  PROVE  IInv'
<1>1. OneOf /\ Counts /\ Receives /\ SourcesOnce /\ Numbers
  BY DEF IInv
<1>2. /\ state = "idle" /\ state' = "sending" /\ air' = "sending"
      /\ maxRetries' = r /\ retryDelay' = d /\ totalRetries' = 0
      /\ wasAcked' = FALSE /\ copies' = 0 /\ since' = 0
      /\ posted' = posted /\ delayTimer' = delayTimer /\ history' = history
      /\ writeIndex' = writeIndex /\ heard' = heard
  BY DEF SendAccepted
<1>3. /\ sends' = sends + 1 /\ dsn' = localSendId
      /\ sends' \in Nat /\ dsn' \in Nat /\ localSendId' \in Nat
      /\ sends' <= IdSize => dsn' = sends /\ sends' > 0
      /\ sends' < IdSize => localSendId' = sends'
  BY <1>1, NumberedParts DEF SendAccepted
<1>4. OneOf'
  BY <1>1, <1>2 DEF OneOf
<1>5. Counts'
  BY <1>2 DEF Counts
<1>6. Receives' /\ SourcesOnce'
  BY <1>1, <1>2, <1>3 DEF Receives, SourcesOnce
<1>7. Numbers'
  <2>1. sends \in Nat /\ IdSize \in Nat
    BY <1>1, HopAssumption DEF Receives
  <2>2. ASSUME sends' <= IdSize, NEW p \in Places, history[p].source = Us
        PROVE  history[p].dsn < sends
    BY <2>1, <2>2, <1>1, <1>3 DEF Numbers
  <2>3. \A p \in Places : history[p].dsn \in Nat
    BY <1>1 DEF Receives
  <2>4. ASSUME sends' <= IdSize, NEW p \in Places, history'[p].source = Us
        PROVE  history'[p].dsn < sends' - 1 /\ history'[p].dsn < sends'
    BY <2>1, <2>2, <2>3, <2>4, <1>2, <1>3
  <2>5. sends' - 1 = sends
    BY <2>1, <1>3
  <2> QED BY <2>4, <2>5, <1>2, <1>3 DEF Numbers
<1>8. Remembered'
  BY <1>2 DEF Remembered
<1> QED BY <1>4, <1>5, <1>6, <1>7, <1>8 DEF IInv

LEMMA RefusedInv ==
  ASSUME IInv, NEW r \in 0 .. MaxRetries, NEW d \in BOOLEAN,
         SendRefused(r, d)
  PROVE  IInv'
<1>1. OneOf /\ Counts /\ Receives /\ SourcesOnce /\ Numbers
  BY DEF IInv
<1>2. /\ state = "idle" /\ state' = "idle"
      /\ maxRetries' = r /\ retryDelay' = d /\ totalRetries' = 0
      /\ UNCHANGED <<air, posted, delayTimer, wasAcked, copies, since,
                     history, writeIndex, heard>>
  BY DEF SendRefused, receiver
<1>3. /\ sends' = sends + 1 /\ sends' \in Nat /\ dsn' \in Nat
      /\ localSendId' \in Nat
      /\ sends' < IdSize => localSendId' = sends'
  BY <1>1, NumberedParts DEF SendRefused
<1>4. OneOf'
  BY <1>1, <1>2 DEF OneOf
<1>5. Counts'
  BY <1>2 DEF Counts
<1>6. Receives' /\ SourcesOnce'
  BY <1>1, <1>2, <1>3 DEF Receives, SourcesOnce
<1>7. Numbers'
  <2>1. sends \in Nat /\ IdSize \in Nat
    BY <1>1, HopAssumption DEF Receives
  <2>2. sends' <= IdSize => sends <= IdSize
    BY <2>1, <1>3
  <2>3. \A p \in Places : history[p].dsn \in Nat
    BY <1>1 DEF Receives
  <2>4. ASSUME sends' <= IdSize, NEW p \in Places, history'[p].source = Us
        PROVE  history'[p].dsn < sends'
    BY <2>1, <2>2, <2>3, <2>4, <1>1, <1>2, <1>3 DEF Numbers
  <2> QED BY <2>2, <2>4, <1>1, <1>2, <1>3 DEF Numbers
<1>8. Remembered'
  BY <1>2 DEF Remembered
<1> QED BY <1>4, <1>5, <1>6, <1>7, <1>8 DEF IInv

\* What an attempt does to the receiver's side: nothing.
LEMMA QuietInv ==
  ASSUME IInv, UNCHANGED <<localSendId, sends, dsn, receiver>>,
         state' = state \/ state' = "idle",
         air' = "heard" => air = "heard",
         wasAcked' => air = "heard" \/ wasAcked
  PROVE  Receives' /\ SourcesOnce' /\ Numbers' /\ Remembered'
<1>1. Receives /\ SourcesOnce /\ Numbers /\ Remembered
  BY DEF IInv
<1>2. Receives' /\ SourcesOnce'
  BY <1>1 DEF receiver, Receives, SourcesOnce
<1>3. Numbers'
  BY <1>1 DEF receiver, Numbers
<1>4. Remembered'
  BY <1>1 DEF receiver, Remembered
<1> QED BY <1>2, <1>3, <1>4

LEMMA TaskSendsInv == ASSUME IInv, TaskSends  PROVE IInv'
<1>1. OneOf /\ Counts
  BY DEF IInv
<1>2. OneOf' /\ Counts'
  BY <1>1 DEF TaskSends, OneOf, Counts
<1>3. Receives' /\ SourcesOnce' /\ Numbers' /\ Remembered'
  BY QuietInv DEF TaskSends
<1> QED BY <1>2, <1>3 DEF IInv

LEMMA TimerInv == ASSUME IInv, DelayTimerFired  PROVE IInv'
<1>1. OneOf /\ Counts
  BY DEF IInv
<1>2. OneOf' /\ Counts'
  BY <1>1 DEF DelayTimerFired, OneOf, Counts
<1>3. Receives' /\ SourcesOnce' /\ Numbers' /\ Remembered'
  BY QuietInv DEF DelayTimerFired
<1> QED BY <1>2, <1>3 DEF IInv

LEMMA RetryInv ==
  ASSUME IInv, NEW ack \in BOOLEAN, DoneRetry(ack)  PROVE IInv'
<1>1. OneOf /\ Counts
  BY DEF IInv
<1>2. /\ air # "nothing" /\ air' = "nothing" /\ ~ack /\ wasAcked' = ack
      /\ totalRetries' = totalRetries + 1 /\ totalRetries + 1 < maxRetries
      /\ delayTimer' = retryDelay /\ posted' = ~retryDelay
      /\ UNCHANGED <<state, maxRetries, retryDelay, localSendId, sends, dsn,
                     answer, receiver>>
  BY DEF DoneRetry, Attempted, AgainAfter
<1>3. state = "sending"
  BY <1>1, <1>2 DEF OneOf
<1>4. OneOf'
  BY <1>1, <1>2, <1>3 DEF OneOf
<1>5. Counts'
  BY <1>1, <1>2 DEF Counts
<1>6. Receives' /\ SourcesOnce' /\ Numbers' /\ Remembered'
  BY <1>2, QuietInv
<1> QED BY <1>4, <1>5, <1>6 DEF IInv

LEMMA AnswerInv ==
  ASSUME IInv, NEW ack \in BOOLEAN, DoneAnswer(ack)  PROVE IInv'
<1>1. OneOf /\ Counts
  BY DEF IInv
<1>2. /\ air # "nothing" /\ air' = "nothing" /\ wasAcked' = ack
      /\ ack => air = "heard"
      /\ state' = "idle" /\ delayTimer' = FALSE
      /\ UNCHANGED <<retryDelay, posted, localSendId, sends, dsn, receiver>>
  BY DEF DoneAnswer, Attempted
<1>3. state = "sending"
  BY <1>1, <1>2 DEF OneOf
<1>4. OneOf'
  BY <1>1, <1>2, <1>3 DEF OneOf
<1>5. Counts'
  <2>1. /\ totalRetries' = totalRetries + 1
        /\ maxRetries' = IF maxRetries > 0 THEN totalRetries + 1
                         ELSE maxRetries
    BY DEF DoneAnswer, Attempted
  <2>2. MaxRetries \in Nat
    BY HopAssumption
  <2> QED BY <2>1, <2>2, <1>1, <1>2, <1>3 DEF Counts
<1>6. Receives' /\ SourcesOnce' /\ Numbers' /\ Remembered'
  BY <1>2, QuietInv
<1> QED BY <1>4, <1>5, <1>6 DEF IInv

LEMMA NextInv == ASSUME IInv, [Next]_vars  PROVE IInv'
<1>1. CASE UNCHANGED vars
  BY <1>1 DEF vars, IInv, OneOf, Counts, Receives, SourcesOnce, Numbers,
              Remembered
<1>2. CASE Send
  BY <1>2, AcceptedInv, RefusedInv DEF Send
<1>3. CASE SubSendDone
  BY <1>3, RetryInv, AnswerInv DEF SubSendDone
<1>4. CASE TaskRefused
  BY <1>1, <1>4 DEF TaskRefused
<1> QED BY <1>1, <1>2, <1>3, <1>4, TaskSendsInv, TimerInv, HeardInv,
           OtherHeardInv DEF Next

LEMMA Invariance == Spec => []IInv
BY InitInv, NextInv, PTL DEF Spec

-----------------------------------------------------------------------------
\* For any number of retries one thing at most is pending in PacketLinkP.
THEOREM HopOnePending == Spec => []OnePending
<1>1. ASSUME IInv  PROVE OnePending
  <2>1. OneOf /\ Counts
    BY <1>1 DEF IInv
  <2>2. CASE state = "idle"
    BY <2>1, <2>2 DEF OneOf, Counts, OnePending
  <2>3. CASE state = "sending"
    BY <2>1, <2>3 DEF OneOf, Counts, OnePending
  <2> QED BY <2>1, <2>2, <2>3 DEF OneOf
<1> QED BY Invariance, <1>1, PTL

\* For any history and other senders, as long as UniqueSendP has used no number
\* twice, an acknowledged frame has been passed on by UniqueReceiveP.
THEOREM HopAckedIsReceived == Spec => []AckedIsReceived
<1>1. IInv => AckedIsReceived
  BY DEF IInv, Numbers, AckedIsReceived
<1> QED BY Invariance, <1>1, PTL

\* For any history of two places or more UniqueReceiveP passes on no copy unless
\* it has heard two frames of others since it passed on the frame.
THEOREM HopCopiesDropped == Spec => CopiesDropped
<1> DEFINE A == copies >= 1 /\ copies' > copies => since >= 2
<1>1. ASSUME IInv, [Next]_vars  PROVE [A]_vars
  <2>1. CASE Heard
    <3>1. ASSUME copies >= 1, copies' > copies  PROVE since >= 2
      <4>1. ~hasSeen(Us, dsn)
        BY <3>1, <2>1, <1>1 DEF Heard, IInv, Receives
      <4>2. state = "sending"
        BY <2>1, <1>1 DEF Heard, IInv, OneOf
      <4> QED BY <4>1, <4>2, <3>1, <1>1 DEF hasSeen, IInv, Remembered
    <3> QED BY <3>1
  <2>2. CASE copies' = copies \/ copies' = 0
    BY <2>2, <1>1 DEF IInv, Receives
  <2>3. [Next]_vars => \/ Heard \/ copies' = copies \/ copies' = 0
    BY DEF Next, vars, Send, SendAccepted, SendRefused, TaskSends, TaskRefused,
           DelayTimerFired, SubSendDone, DoneRetry, DoneAnswer, OtherHeard,
           receiver
  <2> QED BY <1>1, <2>1, <2>2, <2>3
<1>2. CopiesDropped <=> [][A]_vars
  BY DEF CopiesDropped
<1> HIDE DEF A
<1> QED BY Invariance, <1>1, <1>2, PTL DEF Spec

Limit    == IF state = "sending" THEN Asked ELSE 0
Attempts == IF state = "sending" THEN totalRetries ELSE 0

\* A step is a step of the service, or changes nothing of it.
LEMMA StepRefines ==
  ASSUME IInv, IInv', [Next]_vars
  PROVE  [Service!Next]_<<Limit, Attempts, answer>>
<1>1. OneOf /\ Counts /\ MaxRetries \in Nat \ {0}
  BY HopAssumption DEF IInv
<1>2. UNCHANGED <<state, maxRetries, totalRetries, answer>>
      => UNCHANGED <<Limit, Attempts, answer>>
  BY DEF Limit, Attempts, Asked
<1>3. ASSUME NEW r \in 0 .. MaxRetries, NEW d \in BOOLEAN, SendAccepted(r, d)
      PROVE  [Service!Next]_<<Limit, Attempts, answer>>
  <2>1. /\ Limit = 0 /\ Attempts = 0
        /\ Limit' = (IF r = 0 THEN 1 ELSE r) /\ Attempts' = 0
        /\ answer' = answer
    BY <1>3 DEF SendAccepted, Limit, Attempts, Asked
  <2>2. Limit' \in 1 .. MaxRetries
    BY <2>1, <1>1
  <2> QED BY <2>1, <2>2 DEF Service!Next, Service!Accept, Limit, Attempts
<1>4. ASSUME NEW r \in 0 .. MaxRetries, NEW d \in BOOLEAN, SendRefused(r, d)
      PROVE  UNCHANGED <<Limit, Attempts, answer>>
  BY <1>4 DEF SendRefused, Limit, Attempts
<1>5. ASSUME NEW ack \in BOOLEAN, DoneRetry(ack)
      PROVE  [Service!Next]_<<Limit, Attempts, answer>>
  <2>1. /\ totalRetries + 1 < maxRetries /\ totalRetries' = totalRetries + 1
        /\ UNCHANGED <<state, maxRetries, answer>> /\ state = "sending"
    BY <1>1, <1>5 DEF DoneRetry, Attempted, AgainAfter, OneOf
  <2>2. Limit = maxRetries /\ Attempts = totalRetries
    BY <2>1, <1>1 DEF Limit, Attempts, Asked, Counts
  <2>3. Limit' = Limit /\ Attempts' = totalRetries + 1
    BY <2>1 DEF Limit, Attempts, Asked
  <2> QED BY <2>1, <2>2, <2>3 DEF Service!Next, Service!Fail, Limit, Attempts
<1>6. ASSUME NEW ack \in BOOLEAN, DoneAnswer(ack)
      PROVE  [Service!Next]_<<Limit, Attempts, answer>>
  <2>1. /\ ack \/ ~(totalRetries + 1 < maxRetries)
        /\ answer' = [ok |-> ack, attempts |-> totalRetries + 1]
        /\ state' = "idle" /\ state = "sending"
    BY <1>1, <1>6 DEF DoneAnswer, Attempted, AgainAfter, OneOf
  <2>2. Limit = Asked /\ Attempts = totalRetries /\ Limit' = 0 /\ Attempts' = 0
    BY <2>1 DEF Limit, Attempts
  <2>3. totalRetries < Asked /\ (~ack => totalRetries + 1 = Asked)
    <3>1. totalRetries < Asked
      BY <2>1, <1>1 DEF Asked, Counts
    <3>2. ~(totalRetries + 1 < maxRetries) => totalRetries + 1 = Asked
      BY <2>1, <1>1 DEF Asked, Counts
    <3> QED BY <3>1, <3>2, <2>1
  <2> QED BY <2>1, <2>2, <2>3 DEF Service!Next, Service!Answer, Limit, Attempts
<1>7. TaskSends \/ TaskRefused \/ DelayTimerFired \/ Heard
      \/ (\E s \in Others : OtherHeard(s)) \/ UNCHANGED vars
      => UNCHANGED <<state, maxRetries, totalRetries, answer>>
  BY DEF TaskSends, TaskRefused, DelayTimerFired, Heard, OtherHeard, vars,
         sender
<1> QED BY <1>2, <1>3, <1>4, <1>5, <1>6, <1>7 DEF Next, Send, SubSendDone

\* For any number of retries PacketLinkP makes at most the attempts asked for,
\* answers each frame once, and with SUCCESS exactly when it is acknowledged.
THEOREM HopImplementsService == Spec => ImplementsService
<1>1. Init => Service!Init
  BY DEF Init, Service!Init
<1>2. IInv /\ IInv' /\ [Next]_vars =>
        [Service!Next]_<<IF state = "sending" THEN Asked ELSE 0,
                         IF state = "sending" THEN totalRetries ELSE 0,
                         answer>>
  BY StepRefines DEF Limit, Attempts
<1> QED
  BY Invariance, <1>1, <1>2, PTL DEF Spec, ImplementsService, Service!Spec
=============================================================================
