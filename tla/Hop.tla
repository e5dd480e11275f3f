-------------------------------- MODULE Hop ---------------------------------
(***************************************************************************)
(* One hop over the CC2420: on the sending side UniqueSendP, which numbers *)
(* the frames, and PacketLinkP, which sends a frame again until it is      *)
(* acknowledged; on the receiving side UniqueReceiveP, which drops copies. *)
(* In between a frame, or its acknowledgement, may be lost.                *)
(*                                                                         *)
(* Copies of a frame carry the number of the frame; what BackIP's queueing *)
(* layer sends again after a FAIL is a new frame with a new number.        *)
(*                                                                         *)
(* UniqueSendP and PacketLinkP each have a State, S_IDLE or S_SENDING; the *)
(* two change in the same calls and are one variable here.  Left out:      *)
(* Send.cancel, which BackIP never calls; the other layers between (active *)
(* messages, low-power listening), which pass calls on.                    *)
(***************************************************************************)
EXTENDS Integers, FiniteSets

CONSTANTS
    MaxRetries,      \* bound on the retries asked for (BackIP: 2, or 0)
    HistorySize,     \* RECEIVE_HISTORY_SIZE
    Others,          \* other nodes that the receiver hears
    Us,              \* the sender
    Nobody,          \* the source 0xFFFF of an empty history
    IdSize,          \* the number of values of uint8_t
    MaxSends,        \* bound on the frames we send
    MaxOthers        \* bound on the frames of others

ASSUME HopAssumption ==
    /\ MaxRetries \in Nat \ {0} /\ HistorySize \in Nat \ {0, 1}
    /\ IdSize \in Nat \ {0}
    /\ Us \notin Others /\ Nobody \notin Others /\ Us # Nobody

VARIABLES
    state,           \* SendState
    maxRetries,      \* metadata of the message: the retries asked for
    retryDelay,      \* metadata: is there a delay between retries?
    totalRetries,
    posted,          \* is the task send posted?
    delayTimer,      \* is DelayTimer running?
    localSendId,     \* the number of the next frame
    sends,           \* frames we were asked to send
    dsn,             \* the number of the frame in work
    air,             \* what CC2420CsmaP does with it: nothing, sending, or
                     \* sent and heard by the receiver
    answer,          \* the last Send.sendDone, with the retries it reports
    wasAcked         \* metadata: was the last attempt acknowledged?

VARIABLES
    history,         \* receivedMessages
    writeIndex,
    copies,          \* how often the frame in work has been received
    since,           \* frames of others received since it was remembered
    heard            \* frames of others received

sender   == <<state, maxRetries, retryDelay, totalRetries, posted, delayTimer,
              localSendId, sends, dsn, answer, wasAcked>>
receiver == <<history, writeIndex, copies, since, heard>>
vars     == <<state, maxRetries, retryDelay, totalRetries, posted, delayTimer,
              localSendId, sends, dsn, air, answer, wasAcked, history,
              writeIndex, copies, since, heard>>

Places == 0 .. HistorySize - 1

Init ==
    /\ state = "idle" /\ air = "nothing"
    /\ maxRetries = 0 /\ retryDelay = FALSE /\ totalRetries = 0
    /\ posted = FALSE /\ delayTimer = FALSE
    /\ localSendId = 0 /\ sends = 0 /\ dsn = 0
    /\ answer = [ok |-> FALSE, attempts |-> 0] /\ wasAcked = FALSE
    /\ history = [i \in Places |-> [source |-> Nobody, dsn |-> 0]]
    /\ writeIndex = 0
    /\ copies = 0 /\ since = 0 /\ heard = 0

-----------------------------------------------------------------------------
(* UniqueSendP and PacketLinkP                                             *)

\* The number is used up also if the frame is refused.
Numbered ==
    /\ dsn' = localSendId
    /\ localSendId' = (localSendId + 1) % IdSize
    /\ sends' = sends + 1

\* setRetries, setRetryDelay, Send.send: a new number, and the first attempt.
SendAccepted(retries, delay) ==
    /\ state = "idle" /\ sends < MaxSends
    /\ state' = "sending" /\ air' = "sending"
    /\ maxRetries' = retries /\ retryDelay' = delay
    /\ totalRetries' = 0
    /\ Numbered
    /\ wasAcked' = FALSE
    /\ copies' = 0 /\ since' = 0
    /\ UNCHANGED <<posted, delayTimer, answer, history, writeIndex, heard>>

\* SubSend.send refuses: both states are idle again.
SendRefused(retries, delay) ==
    /\ state = "idle" /\ sends < MaxSends
    /\ maxRetries' = retries /\ retryDelay' = delay
    /\ totalRetries' = 0
    /\ Numbered
    /\ UNCHANGED <<state, air, posted, delayTimer, answer, wasAcked, receiver>>

\* task send: the copy is accepted, or the task posts itself again.
TaskSends ==
    /\ posted
    /\ posted' = FALSE
    /\ air' = "sending"
    /\ UNCHANGED <<state, maxRetries, retryDelay, totalRetries, delayTimer,
                   localSendId, sends, dsn, answer, wasAcked, receiver>>

TaskRefused == posted /\ UNCHANGED vars

DelayTimerFired ==
    /\ delayTimer
    /\ delayTimer' = FALSE
    /\ posted' = (posted \/ state = "sending")
    /\ UNCHANGED <<state, maxRetries, retryDelay, totalRetries, localSendId,
                   sends, dsn, air, answer, wasAcked, receiver>>

\* Slip: one attempt too many.
OneMore(tries) == tries <= maxRetries

AgainAfter(tries) == tries < maxRetries

\* SubSend.sendDone; an acknowledgement comes only if the frame was heard, and
\* asked for one.
Attempted(ack) ==
    /\ air # "nothing"
    /\ ack => air = "heard" /\ maxRetries > 0
    /\ air' = "nothing"
    /\ totalRetries' = totalRetries + 1
    /\ wasAcked' = ack

\* Slip: the timer is not started for the retry.
RetryLost(ack) ==
    /\ Attempted(ack)
    /\ ~ack /\ AgainAfter(totalRetries + 1)
    /\ posted' = ~retryDelay
    /\ UNCHANGED <<state, maxRetries, retryDelay, delayTimer, localSendId,
                   sends, dsn, answer, receiver>>

DoneRetry(ack) ==
    /\ Attempted(ack)
    /\ ~ack /\ AgainAfter(totalRetries + 1)
    /\ delayTimer' = retryDelay /\ posted' = ~retryDelay
    /\ UNCHANGED <<state, maxRetries, retryDelay, localSendId, sends, dsn,
                   answer, receiver>>

\* signalDone: maxRetries is overwritten with the attempts made, unless no
\* retries were asked for.
DoneAnswer(ack) ==
    /\ Attempted(ack)
    /\ ack \/ ~AgainAfter(totalRetries + 1)
    /\ state' = "idle" /\ delayTimer' = FALSE
    /\ maxRetries' = IF maxRetries > 0 THEN totalRetries + 1 ELSE maxRetries
    /\ answer' = [ok |-> ack, attempts |-> totalRetries + 1]
    /\ UNCHANGED <<retryDelay, posted, localSendId, sends, dsn, receiver>>

SubSendDone == \E ack \in BOOLEAN : DoneRetry(ack) \/ DoneAnswer(ack)

-----------------------------------------------------------------------------
(* UniqueReceiveP                                                          *)

\* Slip: every frame of a source that is remembered counts as a copy.
SeenSource(source, n) == \E i \in Places : history[i].source = source

\* Slip: the search ends a place too early.
SeenButLast(source, n) ==
    \E i \in Places \ {HistorySize - 1} :
      history[i].source = source /\ history[i].dsn = n

hasSeen(source, n) ==
    \E i \in Places : history[i].source = source /\ history[i].dsn = n

\* Where a frame is remembered: in the (last) place of its source, or else in
\* the next one.
Element(source) ==
    LET I == {i \in Places : history[i].source = source}
    IN  IF I = {} THEN writeIndex ELSE CHOOSE i \in I : \A j \in I : j <= i

Insert(source, n) ==
    /\ history' = [history EXCEPT ![Element(source)] =
                     [source |-> source, dsn |-> n]]
    /\ writeIndex' = IF Element(source) # writeIndex THEN writeIndex
                     ELSE IF writeIndex = HistorySize - 1 THEN 0
                     ELSE writeIndex + 1

\* SubReceive.receive of our frame, or of a copy.
Heard ==
    /\ air = "sending"
    /\ air' = "heard"
    /\ IF hasSeen(Us, dsn)
       THEN UNCHANGED <<history, writeIndex, copies>>
       ELSE Insert(Us, dsn) /\ copies' = copies + 1
    /\ since' = IF hasSeen(Us, dsn) THEN since ELSE 0
    /\ UNCHANGED <<sender, heard>>

\* The receiver hears a new frame of another node.
OtherHeard(s) ==
    /\ heard < MaxOthers
    /\ heard' = heard + 1
    /\ Insert(s, heard')
    /\ since' = since + 1
    /\ UNCHANGED <<sender, air, copies>>

-----------------------------------------------------------------------------
Send == \E r \in 0 .. MaxRetries, d \in BOOLEAN :
          SendAccepted(r, d) \/ SendRefused(r, d)

Next ==
    \/ Send \/ TaskSends \/ TaskRefused \/ DelayTimerFired \/ SubSendDone
    \/ Heard \/ \E s \in Others : OtherHeard(s)

Spec == Init /\ [][Next]_vars

\* The radio ends each attempt, timers fire, and CC2420CsmaP, which refuses
\* only for a while, accepts a copy in the end.
FairSpec ==
    /\ Spec
    /\ WF_vars(SubSendDone) /\ WF_vars(DelayTimerFired) /\ SF_vars(TaskSends)

-----------------------------------------------------------------------------
(* Properties.                                                             *)

\* What is pending for a frame in work is one thing, and nothing is pending
\* without one: no sendDone, timer or task finds another frame than its own.
OnePending ==
    /\ (IF air # "nothing" THEN 1 ELSE 0) + (IF delayTimer THEN 1 ELSE 0)
         + (IF posted THEN 1 ELSE 0) = (IF state = "sending" THEN 1 ELSE 0)
    /\ maxRetries \in 0 .. MaxRetries
    /\ state = "sending" => totalRetries = 0 \/ totalRetries < maxRetries

Asked == IF maxRetries = 0 THEN 1 ELSE maxRetries

\* PacketLinkP is the link that the layers above expect: at most the attempts
\* asked for, one answer, and SUCCESS exactly for an acknowledged frame.
Service == INSTANCE LinkService WITH
             limit <- IF state = "sending" THEN Asked ELSE 0,
             attempts <- IF state = "sending" THEN totalRetries ELSE 0
ImplementsService == Service!Spec

\* Of the first IdSize frames, what the sender takes for delivered has been
\* passed on by the receiver: a number is not mistaken for an earlier one.
AckedIsReceived ==
    state = "idle" /\ wasAcked /\ sends <= IdSize => copies >= 1

\* The same of all frames: does not hold.  If the receiver hears none of the
\* IdSize - 1 frames after one, it takes the next for a copy of that one.
AlwaysReceived == state = "idle" /\ wasAcked => copies >= 1

\* A copy, sent because the acknowledgement was lost, is dropped, unless the
\* receiver has heard at least two frames of others since it passed on the
\* frame: the insertion after next may take the place where it is remembered.
CopiesDropped == [][copies >= 1 /\ copies' > copies => since >= 2]_vars

\* The receiver remembers each source once, so that the history does not fill
\* with frames of one node.
SourcesOnce ==
    \A i, j \in Places :
      history[i].source = history[j].source /\ history[i].source # Nobody
        => i = j

\* That many places are enough to remember as many other sources: does not
\* hold, the place of a source may be the one that is used next but one.
HistoryDeep ==
    [][copies >= 1 /\ copies' > copies => since >= HistorySize]_vars

\* Every frame accepted is answered.
Answered == state = "sending" ~> state = "idle"
=============================================================================
